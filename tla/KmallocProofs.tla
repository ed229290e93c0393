--------------------------- MODULE KmallocProofs ----------------------------
(***************************************************************************)
(* Proofs about Kmalloc, for every size of the address space, pool of      *)
(* frames, set of callers and sizes that are asked for.                    *)
(***************************************************************************)
EXTENDS Kmalloc, SequenceTheorems, WellFoundedInduction, TLAPS

Requests == 17 .. 2048

\* Sizes whose blocks fit a slot of 32 to 2048 bytes, and a product that is not
\* cut to 32 bits.
Served ==
    /\ Sizes \subseteq Requests
    /\ \A a \in Arrays : a[1] * a[2] \in Requests

SlotSizes == {32, 64, 128, 256, 512, 1024, 2048}
-----------------------------------------------------------------------------
(* The arithmetic of addresses. *)

LEMMA Division ==
    ASSUME NEW a \in Nat, NEW b \in Nat \ {0}
    PROVE  /\ a \div b \in Nat /\ a % b \in 0 .. (b - 1)
           /\ a = b * (a \div b) + (a % b)
BY Z3

\* Quotient and remainder are unique.
LEMMA DivisionUnique ==
    ASSUME NEW a \in Nat, NEW b \in Nat \ {0}, NEW q \in Nat, NEW r \in 0 .. (b - 1),
           a = b * q + r
    PROVE  a \div b = q /\ a % b = r
<1> DEFINE p == a \div b
           s == a % b
<1>1. p \in Nat /\ s \in 0 .. (b - 1) /\ a = b * p + s
  BY Division
<1> SUFFICES p = q /\ s = r
  OBVIOUS
<1> HIDE DEF p, s
<1>2. b * (p - q) = r - s /\ b * (q - p) = s - r
  BY <1>1
<1>3. ~ (p - q >= 1)
  <2> SUFFICES ASSUME p - q >= 1 PROVE FALSE
    OBVIOUS
  <2>1. b * (p - q) >= b * 1
    BY <1>1
  <2> QED BY <1>1, <1>2, <2>1
<1>4. ~ (q - p >= 1)
  <2> SUFFICES ASSUME q - p >= 1 PROVE FALSE
    OBVIOUS
  <2>1. b * (q - p) >= b * 1
    BY <1>1
  <2> QED BY <1>1, <1>2, <2>1
<1> QED BY <1>1, <1>3, <1>4

\* The frames a bucket can lie in, as multiples of the frame size; the number
\* of the page that P2V maps frame f to.
PageNumber(f) == 3 * (QUARTER \div 4096) + f

LEMMA Place ==
    ASSUME NEW f \in Places
    PROVE  /\ f \in Nat /\ PageNumber(f) \in Nat
           /\ 4096 * f \in 0 .. (QUARTER - 1) /\ f * 4096 = 4096 * f
           /\ QUARTER = 4096 * (QUARTER \div 4096)
           /\ BucketAt(f) = 4096 * PageNumber(f)
           /\ BucketAt(f) \in Nat /\ BucketAt(f) > 0
           /\ bm_ptr(f) = 4096 * PageNumber(f) + 20
<1>1. QUARTER \in Nat \ {0} /\ QUARTER % 4096 = 0
  BY QuarterAssumption DEF FRAME_SIZE
<1>2. QUARTER \div 4096 \in Nat /\ QUARTER = 4096 * (QUARTER \div 4096)
  BY <1>1
<1>3. f \in Nat /\ f <= QUARTER \div 4096 - 1
  BY <1>1, <1>2, KmallocAssumption DEF Places, FRAME_SIZE
<1>4. 4096 * f \in 0 .. (QUARTER - 1) /\ f * 4096 = 4096 * f
  BY <1>2, <1>3
<1>5. (4096 * f) % QUARTER = 4096 * f
  BY <1>1, <1>4, <1>3
<1>6. BucketAt(f) = 3 * QUARTER + 4096 * f
  BY <1>4, <1>5 DEF BucketAt, P2V, KERNEL_OFFSET, FRAME_SIZE
<1>7. BucketAt(f) = 4096 * PageNumber(f) /\ BucketAt(f) > 0 /\ PageNumber(f) \in Nat
  BY <1>1, <1>2, <1>3, <1>6 DEF PageNumber
<1> QED BY <1>2, <1>3, <1>4, <1>7 DEF bm_ptr, SIZEOF_BUCKET

\* page_begin and V2P find the frame of every byte of a bucket.
LEMMA FrameFound ==
    ASSUME NEW f \in Places, NEW ptr \in Nat, ptr >= BucketAt(f), ptr < BucketAt(f) + 4096
    PROVE  FrameOf(ptr) = f
<1> DEFINE q == QUARTER \div 4096
           m == PageNumber(f)
           o == ptr - BucketAt(f)
<1>1. /\ f \in Nat /\ m \in Nat /\ 4096 * f \in 0 .. (QUARTER - 1)
      /\ QUARTER = 4096 * q /\ BucketAt(f) = 4096 * m
      /\ m = 3 * q + f
  BY Place DEF PageNumber
<1>2. QUARTER \in Nat \ {0} /\ q \in Nat
  BY QuarterAssumption DEF FRAME_SIZE
<1> HIDE DEF q, m
<1>3. ptr % 4096 = o
  <2>1. m \in Nat /\ BucketAt(f) = 4096 * m
    BY <1>1
  <2>2. o \in 0 .. (4096 - 1) /\ ptr = 4096 * m + o
    BY <2>1
  <2>3. 4096 \in Nat \ {0}
    OBVIOUS
  <2> HIDE DEF o
  <2> QED BY <2>1, <2>2, <2>3, DivisionUnique
<1>4. page_begin(ptr) = 4096 * m
  BY <1>1, <1>3 DEF page_begin, FRAME_SIZE
<1>5. 4096 * m = QUARTER * 3 + 4096 * f
  BY <1>1, <1>2
<1>6. (4096 * m) % QUARTER = 4096 * f
  <2> DEFINE a == 4096 * m
             r == 4096 * f
  <2>1. a \in Nat /\ r \in 0 .. (QUARTER - 1) /\ a = QUARTER * 3 + r
    BY <1>1, <1>5
  <2>2. QUARTER \in Nat \ {0} /\ 3 \in Nat
    BY <1>2
  <2> HIDE DEF a, r
  <2>3. a % QUARTER = r
    BY <2>1, <2>2, DivisionUnique
  <2> QED BY <2>3 DEF a, r
<1>7. V2P(page_begin(ptr)) = 4096 * f
  BY <1>4, <1>6 DEF V2P
<1> QED BY <1>1, <1>7 DEF FrameOf, FRAME_SIZE
-----------------------------------------------------------------------------
(* The layout of a bucket. *)

SlotCount(p) == allocate_bucket(p).bm.size

LEMMA NewBucket ==
    ASSUME NEW p \in SlotSizes
    PROVE  /\ allocate_bucket(p) = [power |-> p, bm |-> [size |-> SlotCount(p), bits |-> {}]]
           /\ SlotCount(p) = IF p <= 512 THEN 512 \div p ELSE 1
           /\ p \in Nat /\ SlotCount(p) \in 1 .. 16
<1>1. p \in Nat /\ align(p + 20, 4096) = 4096
  BY DEF align, SlotSizes
<1>2. allocate_bucket(p) = [power |-> p, bm |-> [size |-> (bitmap_size(4096, p) + 7) \div 8, bits |-> {}]]
  <2>1. align(p + SIZEOF_BUCKET, FRAME_SIZE) = 4096
    BY <1>1 DEF SIZEOF_BUCKET, FRAME_SIZE
  <2> QED BY <2>1 DEF allocate_bucket, NewBitmap, BYTE
<1>3. SlotCount(p) = (bitmap_size(4096, p) + 7) \div 8
  BY <1>2 DEF SlotCount
<1>4. (bitmap_size(4096, p) + 7) \div 8 = IF p <= 512 THEN 512 \div p ELSE 1
  BY DEF bitmap_size, SIZEOF_BUCKET, SlotSizes
<1>5. (IF p <= 512 THEN 512 \div p ELSE 1) \in 1 .. 16
  BY DEF SlotSizes
<1> QED BY <1>1, <1>2, <1>3, <1>4, <1>5

\* Where the slots start: behind the bits that malloc looks at, 4 to 12 bytes
\* behind the beginning of the bitmap.
FirstSlot(f, n) == align(bm_ptr(f) + (n + 7) \div 8, 12)

LEMMA FirstSlotAt ==
    ASSUME NEW f \in Places, NEW n \in 1 .. 16
    PROVE  /\ FirstSlot(f, n) - bm_ptr(f) \in {4, 8, 12}
           /\ FirstSlot(f, n) \in Nat
<1>1. PageNumber(f) \in Nat /\ bm_ptr(f) = 4096 * PageNumber(f) + 20
  BY Place
<1> DEFINE m == PageNumber(f)
           e == (n + 7) \div 8
<1>2. e \in {1, 2}
  OBVIOUS
<1>3. FirstSlot(f, n) = align(4096 * m + 20 + e, 12)
  BY <1>1, <1>2 DEF FirstSlot
<1> HIDE DEF m, e
<1>4. m \in Nat
  BY <1>1 DEF m
<1>5. /\ align(4096 * m + 20 + e, 12) - (4096 * m + 20) \in {4, 8, 12}
      /\ align(4096 * m + 20 + e, 12) \in Nat
  BY <1>2, <1>4 DEF align
<1> QED BY <1>1, <1>3, <1>5 DEF m

\* A bucket of the sizes that are served.
Sound(b) == b.power \in SlotSizes /\ b.bm.size = SlotCount(b.power)

LEMMA SlotBounds ==
    ASSUME NEW p \in SlotSizes, NEW n, n = SlotCount(p), NEW i \in 0 .. (n - 1)
    PROVE  /\ i * p \in Nat /\ i * p + p <= 2048
           /\ \A o \in 0 .. 12 : (o + i * p + n) \div p = i
           /\ \A j \in 0 .. (n - 1) : i < j => i * p + p <= j * p
<1>1. n = IF p <= 512 THEN 512 \div p ELSE 1
  BY NewBucket
<1>2. CASE p = 32
  BY <1>1, <1>2
<1>3. CASE p = 64
  BY <1>1, <1>3
<1>4. CASE p = 128
  BY <1>1, <1>4
<1>5. CASE p = 256
  BY <1>1, <1>5
<1>6. CASE p = 512
  BY <1>1, <1>6
<1>7. CASE p = 1024
  BY <1>1, <1>7
<1>8. CASE p = 2048
  BY <1>1, <1>8
<1> QED BY <1>2, <1>3, <1>4, <1>5, <1>6, <1>7, <1>8 DEF SlotSizes

\* A slot lies in its bucket's frame, behind the header and the bits that malloc
\* looks at; free finds the bucket and the bit from its address.
LEMMA SlotAt ==
    ASSUME NEW f \in Places, NEW b, Sound(b), NEW i \in 0 .. (b.bm.size - 1)
    PROVE  LET ptr == bitmap_offset(f, b, i) IN
           /\ ptr \in Nat /\ ptr > 0
           /\ ptr = FirstSlot(f, b.bm.size) + i * b.power
           /\ ptr >= bm_ptr(f) + (b.bm.size + 7) \div 8
           /\ ptr >= BucketAt(f) /\ ptr + b.power - 1 < BucketAt(f) + FRAME_SIZE
           /\ FrameOf(ptr) = f
           /\ bit_offset(b, f, ptr) = i
<1> DEFINE n == b.bm.size
           p == b.power
           first == FirstSlot(f, n)
           ptr == bitmap_offset(f, b, i)
           o == first - bm_ptr(f)
<1>1. p \in SlotSizes /\ n = SlotCount(p) /\ n \in 1 .. 16 /\ p \in Nat
  BY NewBucket DEF Sound
<1>2. o \in {4, 8, 12} /\ first \in Nat
  BY <1>1, FirstSlotAt
<1>3. BucketAt(f) \in Nat /\ BucketAt(f) > 0 /\ bm_ptr(f) = BucketAt(f) + 20
  BY Place
<1>4. ptr = first + i * p
  BY DEF bitmap_offset, FirstSlot, SIZEOF_LONG_DOUBLE
<1>5. /\ i * p \in Nat /\ i * p + p <= 2048
      /\ (o + i * p + n) \div p = i
  <2>1. o \in 0 .. 12 /\ i \in 0 .. (n - 1)
    BY <1>2
  <2> HIDE DEF n, p, o
  <2> QED BY <1>1, <2>1, SlotBounds
<1>6. p > 0
  BY <1>1 DEF SlotSizes
<1>7. (n + 7) \div 8 <= 2
  BY <1>1
<1> HIDE DEF n, p, first, ptr
<1>8. first = BucketAt(f) + 20 + o
  BY <1>2, <1>3
<1> HIDE DEF o
<1> DEFINE d == i * p
<1>9. ptr = BucketAt(f) + 20 + o + d /\ d \in Nat /\ d + p <= 2048
  BY <1>4, <1>5, <1>8
<1> HIDE DEF d
<1>10. /\ ptr \in Nat /\ ptr > 0
       /\ ptr >= bm_ptr(f) + (n + 7) \div 8
       /\ ptr >= BucketAt(f) /\ ptr + p - 1 < BucketAt(f) + 4096 /\ ptr < BucketAt(f) + 4096
       /\ ptr - bm_ptr(f) = o + d
  BY <1>1, <1>2, <1>3, <1>6, <1>7, <1>9
<1>11. FrameOf(ptr) = f
  <2>1. ptr \in Nat /\ ptr >= BucketAt(f) /\ ptr < BucketAt(f) + 4096
    BY <1>10
  <2> QED BY <2>1, FrameFound
<1>12. bit_offset(b, f, ptr) = i
  BY <1>5, <1>10 DEF bit_offset, d, n, p
<1> QED BY <1>4, <1>10, <1>11, <1>12 DEF n, p, first, ptr, FRAME_SIZE

\* What is written to a slot does not reach the bits that malloc looks at, and
\* in buckets of 128 bytes and more no bit at all.
LEMMA SlotOffBits ==
    ASSUME NEW f \in Places, NEW b, Sound(b), NEW i \in 0 .. (b.bm.size - 1), NEW k
    PROVE  /\ \A j \in BitsUnder(f, b, bitmap_offset(f, b, i), k) : j >= b.bm.size
           /\ b.power >= 128 => BitsUnder(f, b, bitmap_offset(f, b, i), k) = {}
<1> DEFINE n == b.bm.size
           p == b.power
           ptr == bitmap_offset(f, b, i)
<1>1. p \in SlotSizes /\ n = SlotCount(p) /\ n \in 1 .. 16 /\ p \in Nat
      /\ n = IF p <= 512 THEN 512 \div p ELSE 1
  BY NewBucket DEF Sound
<1>2. ptr = FirstSlot(f, n) + i * p /\ i * p \in Nat /\ ptr \in Nat
  BY <1>1, SlotAt, SlotBounds
<1>3. FirstSlot(f, n) \in Nat /\ FirstSlot(f, n) - bm_ptr(f) \in {4, 8, 12} /\ bm_ptr(f) \in Nat
  BY <1>1, FirstSlotAt, Place
<1>4. ptr >= bm_ptr(f) + 4
  BY <1>2, <1>3
<1> SUFFICES ASSUME NEW j \in BitsUnder(f, b, ptr, k) PROVE j >= n /\ ~ (p >= 128)
  OBVIOUS
<1>5. j \in 0 .. (8 * n - 1) /\ bm_ptr(f) + (j \div 8) >= ptr
  BY <1>2 DEF BitsUnder, Bits, BYTE
<1>6. j \in Nat /\ j \div 8 >= 4
  BY <1>3, <1>4, <1>5, <1>1, <1>2
<1>7. p >= 128 => n <= 4
  BY <1>1 DEF SlotSizes
<1> QED BY <1>1, <1>5, <1>6, <1>7
-----------------------------------------------------------------------------
(* What the operations do to the heap, field by field. *)

HeapType == [list : Seq(Places), bucket : [Places -> BucketType],
             held : SUBSET Pool, looped : BOOLEAN]

LEMMA NewBucketType ==
    ASSUME NEW p \in Powers
    PROVE  /\ allocate_bucket(p) \in BucketType
           /\ allocate_bucket(p).power = p /\ allocate_bucket(p).bm.bits = {}
<1> DEFINE s == bitmap_size(align(p + SIZEOF_BUCKET, FRAME_SIZE), p)
<1>1. p \in Nat \ {0}
  BY DEF Powers
<1>2. s \in Nat
  <2>1. align(p + SIZEOF_BUCKET, FRAME_SIZE) \in Nat
        /\ align(p + SIZEOF_BUCKET, FRAME_SIZE) >= SIZEOF_BUCKET
    BY DEF Powers, align, SIZEOF_BUCKET, FRAME_SIZE
  <2>2. align(p + SIZEOF_BUCKET, FRAME_SIZE) - SIZEOF_BUCKET \in Nat
    BY <2>1 DEF SIZEOF_BUCKET
  <2>3. (align(p + SIZEOF_BUCKET, FRAME_SIZE) - SIZEOF_BUCKET) \div p \in Nat
    BY <1>1, <2>2, Division
  <2> QED BY <2>3 DEF bitmap_size
<1> HIDE DEF s
<1>3. allocate_bucket(p) = [power |-> p, bm |-> [size |-> (s + 7) \div 8, bits |-> {}]]
  BY DEF allocate_bucket, NewBitmap, BYTE, s
<1>4. (s + 7) \div 8 \in Nat
  BY <1>2
<1> QED BY <1>3, <1>4 DEF BucketType

\* w is h with a new bucket of power p, in frame f, at the head of its list.
Pushed(h, f, p, w) ==
    /\ Len(w.list) = Len(h.list) + 1 /\ w.list[1] = f
    /\ \A k \in DOMAIN h.list : w.list[k + 1] = h.list[k]
    /\ Range(w.list) = Range(h.list) \cup {f}
    /\ w.bucket[f] = allocate_bucket(p)
    /\ \A g \in Places \ {f} : w.bucket[g] = h.bucket[g]
    /\ w.held = h.held \cup ({f} \cap Pool)

LEMMA PushEffect ==
    ASSUME NEW h \in HeapType, NEW f \in Places, NEW p \in Powers,
           NEW w, w = push_bucket(h, f, p)
    PROVE  w \in HeapType /\ Pushed(h, f, p, w)
<1> DEFINE l == <<f>> \o h.list
<1>1. allocate_bucket(p) \in BucketType
  BY NewBucketType
<1>2. /\ h.list \in Seq(Places) /\ h.bucket \in [Places -> BucketType]
      /\ h.held \subseteq Pool /\ h.looped \in BOOLEAN
  BY DEF HeapType
<1>3. /\ l \in Seq(Places) /\ Len(l) = Len(h.list) + 1 /\ l[1] = f
      /\ \A k \in DOMAIN h.list : l[k + 1] = h.list[k]
  BY <1>2
<1>4. Range(l) = Range(h.list) \cup {f}
  <2>1. Range(l) \subseteq Range(h.list) \cup {f}
    <3> SUFFICES ASSUME NEW k \in 1 .. Len(l) PROVE l[k] \in Range(h.list) \cup {f}
      BY <1>3 DEF Range
    <3>1. CASE k = 1
      BY <1>3, <3>1
    <3>2. CASE k # 1
      <4>1. k - 1 \in DOMAIN h.list /\ l[(k - 1) + 1] = h.list[k - 1] /\ (k - 1) + 1 = k
        BY <1>2, <1>3, <3>2
      <4> QED BY <4>1 DEF Range
    <3> QED BY <3>1, <3>2
  <2>2. ASSUME NEW k \in DOMAIN h.list PROVE h.list[k] \in Range(l)
    <3>1. k + 1 \in DOMAIN l /\ l[k + 1] = h.list[k]
      BY <1>2, <1>3
    <3> QED BY <3>1 DEF Range
  <2>3. f \in Range(l)
    <3>1. 1 \in DOMAIN l /\ l[1] = f
      BY <1>2, <1>3
    <3> QED BY <3>1 DEF Range
  <2> QED BY <2>1, <2>2, <2>3 DEF Range
<1> HIDE DEF l
<1>5. /\ w.list = l /\ w.bucket = [h.bucket EXCEPT ![f] = allocate_bucket(p)]
      /\ w.held = h.held \cup ({f} \cap Pool)
      /\ w.looped = (h.looped \/ f \in Range(h.list))
      /\ w = [list |-> w.list, bucket |-> w.bucket, held |-> w.held, looped |-> w.looped]
  BY DEF push_bucket, l
<1>6. w.bucket \in [Places -> BucketType] /\ w.bucket[f] = allocate_bucket(p)
      /\ \A g \in Places \ {f} : w.bucket[g] = h.bucket[g]
  BY <1>1, <1>2, <1>5
<1>7. w.held \subseteq Pool /\ w.looped \in BOOLEAN
  BY <1>2, <1>5
<1>8. w \in HeapType
  BY <1>3, <1>5, <1>6, <1>7 DEF HeapType
<1> QED BY <1>3, <1>4, <1>5, <1>6, <1>8 DEF l, Pushed

\* A change of one bucket's bitmap.
BitsSet(h, f, bits) == [h EXCEPT !.bucket[f].bm.bits = bits]

LEMMA BitmapChanged ==
    ASSUME NEW h \in HeapType, NEW f \in Places, NEW bits \in SUBSET Nat
    PROVE  LET g == BitsSet(h, f, bits) IN
           /\ g \in HeapType
           /\ g.list = h.list /\ g.held = h.held /\ g.looped = h.looped
           /\ g.bucket[f].power = h.bucket[f].power
           /\ g.bucket[f].bm.size = h.bucket[f].bm.size
           /\ g.bucket[f].bm.bits = bits
           /\ \A e \in Places \ {f} : g.bucket[e] = h.bucket[e]
<1>1. h.bucket \in [Places -> BucketType] /\ h.bucket[f] \in BucketType
  BY DEF HeapType
<1> DEFINE b == [h.bucket[f] EXCEPT !.bm.bits = bits]
           g == BitsSet(h, f, bits)
<1>2. b \in BucketType /\ b.power = h.bucket[f].power
      /\ b.bm.size = h.bucket[f].bm.size /\ b.bm.bits = bits
  BY <1>1 DEF BucketType
<1> HIDE DEF b
<1>3. g = [h EXCEPT !.bucket = [h.bucket EXCEPT ![f] = b]]
  BY DEF b, BitsSet
<1> HIDE DEF g
<1>4. [h.bucket EXCEPT ![f] = b] \in [Places -> BucketType]
  BY <1>1, <1>2
<1>5. g \in HeapType /\ g.list = h.list /\ g.held = h.held /\ g.looped = h.looped
      /\ g.bucket = [h.bucket EXCEPT ![f] = b]
  BY <1>3, <1>4 DEF HeapType
<1>6. g.bucket[f] = b /\ \A e \in Places \ {f} : g.bucket[e] = h.bucket[e]
  BY <1>1, <1>5
<1> QED BY <1>2, <1>5, <1>6 DEF g

\* malloc sets one bit of the bucket that serves it.
LEMMA MallocedEffect ==
    ASSUME NEW h, NEW p, NEW f \in Places, NEW i \in Nat, WithBucket(h, p, f) \in HeapType
    PROVE  LET w == WithBucket(h, p, f)
               m == Malloced(h, p, f, i)
           IN
           /\ m \in HeapType
           /\ m.list = w.list /\ m.held = w.held /\ m.looped = w.looped
           /\ m.bucket[f].power = w.bucket[f].power
           /\ m.bucket[f].bm.size = w.bucket[f].bm.size
           /\ InRange(w.bucket[f].bm, i) =>
                m.bucket[f].bm.bits = w.bucket[f].bm.bits \cup {i}
           /\ \A e \in Places \ {f} : m.bucket[e] = w.bucket[e]
<1> DEFINE w == WithBucket(h, p, f)
           m == Malloced(h, p, f, i)
           old == w.bucket[f].bm
           bits == IF InRange(old, i) THEN old.bits \cup {i} ELSE old.bits
<1>1. old \in [size : Nat, bits : SUBSET Nat]
  BY DEF HeapType, BucketType
<1>2. set_bit(old, i) = [old EXCEPT !.bits = bits]
  BY <1>1 DEF set_bit
<1>3. m = [w EXCEPT !.bucket[f].bm = set_bit(old, i)]
  BY DEF Malloced
<1>4. m = BitsSet(w, f, bits)
  BY <1>2, <1>3 DEF BitsSet
<1>5. bits \in SUBSET Nat
  BY <1>1
<1>6. InRange(old, i) => bits = old.bits \cup {i}
  OBVIOUS
<1>7. w \in HeapType
  OBVIOUS
<1> HIDE DEF bits, m, w
<1>8. /\ m \in HeapType
      /\ m.list = w.list /\ m.held = w.held /\ m.looped = w.looped
      /\ m.bucket[f].power = w.bucket[f].power
      /\ m.bucket[f].bm.size = w.bucket[f].bm.size
      /\ m.bucket[f].bm.bits = bits
      /\ \A e \in Places \ {f} : m.bucket[e] = w.bucket[e]
  BY <1>4, <1>5, <1>7, BitmapChanged
<1> QED BY <1>6, <1>8 DEF m, w

\* Writing a block changes bits of its bucket at most.
LEMMA WrittenEffect ==
    ASSUME NEW h \in HeapType, NEW f \in Places, NEW ptr, NEW n, NEW ones \in BOOLEAN
    PROVE  LET m == Written(h, f, ptr, n, ones)
               under == BitsUnder(f, h.bucket[f], ptr, n)
           IN
           /\ m \in HeapType
           /\ m.list = h.list /\ m.held = h.held /\ m.looped = h.looped
           /\ m.bucket[f].power = h.bucket[f].power
           /\ m.bucket[f].bm.size = h.bucket[f].bm.size
           /\ \A j \in Nat \ under : j \in m.bucket[f].bm.bits <=> j \in h.bucket[f].bm.bits
           /\ under = {} => m.bucket[f].bm.bits = h.bucket[f].bm.bits
           /\ \A e \in Places \ {f} : m.bucket[e] = h.bucket[e]
<1> DEFINE m == Written(h, f, ptr, n, ones)
           under == BitsUnder(f, h.bucket[f], ptr, n)
           old == h.bucket[f].bm.bits
           bits == (old \ under) \cup (IF ones THEN under ELSE {})
<1>1. old \in SUBSET Nat /\ h.bucket[f].bm.size \in Nat
  BY DEF HeapType, BucketType
<1>2. under \subseteq Nat
  BY <1>1 DEF BitsUnder, Bits, BYTE
<1>3. m = BitsSet(h, f, bits)
  BY DEF Written, BitsSet
<1>4. /\ bits \in SUBSET Nat
      /\ \A j \in Nat \ under : j \in bits <=> j \in old
      /\ under = {} => bits = old
  BY <1>1, <1>2
<1> HIDE DEF bits, m, under
<1>5. /\ m \in HeapType
      /\ m.list = h.list /\ m.held = h.held /\ m.looped = h.looped
      /\ m.bucket[f].power = h.bucket[f].power
      /\ m.bucket[f].bm.size = h.bucket[f].bm.size
      /\ m.bucket[f].bm.bits = bits
      /\ \A e \in Places \ {f} : m.bucket[e] = h.bucket[e]
  BY <1>3, <1>4, BitmapChanged
<1> QED BY <1>4, <1>5 DEF m, under

\* A set of naturals has a least element.
LEMMA Least ==
    ASSUME NEW T, T \subseteq Nat, T # {}
    PROVE  \E m \in T : \A k \in T : m <= k
<1> DEFINE R == OpToRel(<, Nat)
<1>1. \A x, y \in Nat : <<y, x>> \in R <=> y < x
  BY DEF OpToRel
<1>2. IsWellFoundedOn(R, Nat)
  BY NatLessThanWellFounded
<1> HIDE DEF R
<1>3. PICK x \in T : \A y \in T : ~ (<<y, x>> \in R)
  BY <1>2, WFMin
<1>4. \A y \in T : y \in Nat /\ x \in Nat
  OBVIOUS
<1>5. \A y \in T : ~ (y < x)
  BY <1>1, <1>3, <1>4
<1>6. \A y \in T : x <= y
  BY <1>4, <1>5
<1> QED BY <1>6

\* remove_bucket takes one element off the list.
LEMMA Unlinked ==
    ASSUME NEW T, NEW l \in Seq(T), NEW f, f \in Range(l)
    PROVE  \E k \in DOMAIN l :
              /\ l[k] = f
              /\ RemoveFirst(l, f) \in Seq(T)
              /\ Len(RemoveFirst(l, f)) = Len(l) - 1
              /\ \A j \in DOMAIN l :
                    /\ j < k => RemoveFirst(l, f)[j] = l[j]
                    /\ j > k => RemoveFirst(l, f)[j - 1] = l[j]
<1> DEFINE I == {i \in 1 .. Len(l) : l[i] = f}
           k == Min(I)
<1>1. DOMAIN l = 1 .. Len(l) /\ Len(l) \in Nat
  OBVIOUS
<1>2. I # {} /\ I \subseteq Nat
  BY <1>1 DEF Range
<1>3. \E x \in I : \A y \in I : x =< y
  BY <1>2, Least
<1>4. k \in I
  BY <1>3 DEF Min
<1>5. RemoveFirst(l, f) = RemoveAt(l, k)
  BY <1>2 DEF RemoveFirst, SelectInSeq
<1> HIDE DEF k
<1>6. k \in 1 .. Len(l) /\ l[k] = f
  BY <1>4
<1> DEFINE a == SubSeq(l, 1, k - 1)
           b == SubSeq(l, k + 1, Len(l))
<1>7. /\ a \in Seq(T) /\ Len(a) = k - 1 /\ \A j \in 1 .. (k - 1) : a[j] = l[j]
  BY <1>1, <1>6
<1>8. /\ b \in Seq(T) /\ Len(b) = Len(l) - k /\ \A j \in 1 .. (Len(l) - k) : b[j] = l[k + j]
  <2>1. k + 1 \in Nat /\ k + 1 <= Len(l) + 1 /\ Len(l) - (k + 1) + 1 = Len(l) - k
    BY <1>1, <1>6
  <2>2. b \in Seq(T) /\ Len(b) = Len(l) - k
    <3>1. /\ k + 1 \in Int /\ Len(l) \in Int
          /\ \A i \in (k + 1) .. Len(l) : l[i] \in T
      BY <1>1, <1>6
    <3>2. b \in Seq(T) /\ Len(b) = IF k + 1 <= Len(l) THEN Len(l) - (k + 1) + 1 ELSE 0
      BY <3>1, SubSeqProperties
    <3>3. CASE k + 1 <= Len(l)
      BY <1>1, <1>6, <3>2, <3>3
    <3>4. CASE ~ (k + 1 <= Len(l))
      <4> DEFINE n == Len(l)
      <4>2. n \in Nat /\ k \in Nat /\ k <= n /\ ~ (k + 1 <= n)
        BY <1>1, <1>6, <3>4
      <4> HIDE DEF n
      <4>3. n - k = 0
        BY <4>2
      <4>1. Len(l) - k = 0
        BY <4>3 DEF n
      <4> QED BY <3>2, <3>4, <4>1
    <3> QED BY <3>3, <3>4
  <2>3. ASSUME NEW j \in 1 .. (Len(l) - k) PROVE b[j] = l[k + j]
    <3>1. b[j] = l[(k + 1) + j - 1] /\ (k + 1) + j - 1 = k + j
      BY <1>1, <1>6
    <3> QED BY <3>1
  <2> QED BY <2>2, <2>3
<1>9. RemoveFirst(l, f) = a \o b
  BY <1>5 DEF RemoveAt
<1> HIDE DEF a, b
<1>10. /\ a \o b \in Seq(T) /\ Len(a \o b) = Len(l) - 1
       /\ \A j \in 1 .. (Len(l) - 1) : (a \o b)[j] = IF j <= k - 1 THEN a[j] ELSE b[j - (k - 1)]
  <2>1. /\ a \o b \in Seq(T) /\ Len(a \o b) = Len(a) + Len(b)
        /\ \A j \in 1 .. (Len(a) + Len(b)) : (a \o b)[j] = IF j <= Len(a) THEN a[j] ELSE b[j - Len(a)]
    BY <1>7, <1>8, ConcatProperties
  <2>2. Len(a) = k - 1 /\ Len(a) + Len(b) = Len(l) - 1
    BY <1>1, <1>6, <1>7, <1>8
  <2> QED BY <2>1, <2>2
<1>11. \A j \in DOMAIN l :
        /\ j < k => (a \o b)[j] = l[j]
        /\ j > k => (a \o b)[j - 1] = l[j]
  <2> SUFFICES ASSUME NEW j \in 1 .. Len(l)
               PROVE  /\ j < k => (a \o b)[j] = l[j]
                      /\ j > k => (a \o b)[j - 1] = l[j]
    BY <1>1
  <2>1. CASE j < k
    BY <1>1, <1>6, <1>7, <1>10, <2>1
  <2>2. CASE j > k
    <3>1. j - 1 \in 1 .. (Len(l) - 1) /\ ~ (j - 1 <= k - 1) /\ (j - 1) - (k - 1) = j - k
      BY <1>1, <1>6, <2>2
    <3>2. j - k \in 1 .. (Len(l) - k) /\ k + (j - k) = j
      BY <1>1, <1>6, <2>2
    <3>3. (a \o b)[j - 1] = b[j - k]
      BY <1>10, <3>1
    <3>4. b[j - k] = l[j]
      BY <1>8, <3>2
    <3> QED BY <1>1, <1>6, <2>2, <3>3, <3>4
  <2>3. CASE j = k
    BY <1>6, <2>3
  <2>4. j < k \/ j > k \/ j = k
    BY <1>1, <1>6
  <2> QED BY <2>1, <2>2, <2>3, <2>4
<1> QED BY <1>1, <1>6, <1>9, <1>10, <1>11

LEMMA RemoveFirstType ==
    ASSUME NEW T, NEW l \in Seq(T), NEW f
    PROVE  RemoveFirst(l, f) \in Seq(T) /\ (f \notin Range(l) => RemoveFirst(l, f) = l)
<1>1. CASE f \in Range(l)
  BY <1>1, Unlinked
<1>2. CASE f \notin Range(l)
  <2>1. ~ \E i \in 1 .. Len(l) : l[i] = f
    BY <1>2 DEF Range
  <2> QED BY <2>1 DEF RemoveFirst
<1> QED BY <1>1, <1>2

\* Off a list that has no element twice, remove_bucket takes the bucket.
LEMMA UnlinkedOnce ==
    ASSUME NEW T, NEW l \in Seq(T), NEW f \in Range(l),
           \A j, k \in DOMAIN l : l[j] = l[k] => j = k
    PROVE  LET m == RemoveFirst(l, f) IN
           /\ Range(m) = Range(l) \ {f}
           /\ \A j, k \in DOMAIN m : m[j] = m[k] => j = k
<1> DEFINE m == RemoveFirst(l, f)
<1>1. PICK k \in DOMAIN l :
        /\ l[k] = f /\ m \in Seq(T) /\ Len(m) = Len(l) - 1
        /\ \A j \in DOMAIN l : /\ j < k => m[j] = l[j]
                               /\ j > k => m[j - 1] = l[j]
  BY Unlinked
<1> HIDE DEF m
<1>2. DOMAIN l = 1 .. Len(l) /\ DOMAIN m = 1 .. (Len(l) - 1) /\ Len(l) \in Nat
  BY <1>1
<1> DEFINE From(j) == IF j < k THEN j ELSE j + 1
<1>3. ASSUME NEW j \in DOMAIN m
      PROVE  From(j) \in DOMAIN l /\ From(j) # k /\ m[j] = l[From(j)]
  <2>1. CASE j < k
    BY <1>1, <1>2, <2>1
  <2>2. CASE ~ (j < k)
    <3>1. j + 1 \in DOMAIN l /\ j + 1 > k /\ (j + 1) - 1 = j
      BY <1>2, <2>2
    <3>2. m[j] = l[j + 1]
      BY <1>1, <3>1
    <3> QED BY <1>2, <2>2, <3>1, <3>2
  <2> QED BY <2>1, <2>2
<1>4. ASSUME NEW i \in DOMAIN m, NEW j \in DOMAIN m, From(i) = From(j) PROVE i = j
  BY <1>2, <1>4
<1>5. ASSUME NEW i \in DOMAIN l, i # k PROVE \E j \in DOMAIN m : m[j] = l[i]
  <2>1. CASE i < k
    BY <1>1, <1>2, <2>1
  <2>2. CASE i > k
    <3>1. i - 1 \in DOMAIN m /\ m[i - 1] = l[i]
      BY <1>1, <1>2, <2>2
    <3> QED BY <3>1
  <2> QED BY <1>2, <1>5, <2>1, <2>2
<1> HIDE DEF From
<1>6. Range(m) \subseteq Range(l) \ {f}
  BY <1>1, <1>3 DEF Range
<1>7. Range(l) \ {f} \subseteq Range(m)
  BY <1>1, <1>5 DEF Range
<1>8. \A i, j \in DOMAIN m : m[i] = m[j] => i = j
  BY <1>3, <1>4
<1> QED BY <1>6, <1>7, <1>8 DEF m

LEMMA RemoveEffect ==
    ASSUME NEW h \in HeapType, NEW f
    PROVE  LET m == remove_bucket(h, f) IN
           /\ m \in HeapType
           /\ m.list = RemoveFirst(h.list, f)
           /\ m.held = h.held \ {f} /\ m.looped = h.looped
           /\ \A e \in Places \ {f} : m.bucket[e] = h.bucket[e]
<1> DEFINE m == remove_bucket(h, f)
           l == RemoveFirst(h.list, f)
           B == [h.bucket EXCEPT ![f] = NoBucket]
<1>1. /\ h.list \in Seq(Places) /\ h.bucket \in [Places -> BucketType]
      /\ h.held \subseteq Pool /\ h.looped \in BOOLEAN
  BY DEF HeapType
<1>2. l \in Seq(Places)
  BY <1>1, RemoveFirstType
<1>3. NoBucket \in BucketType
  BY DEF NoBucket, BucketType
<1>4. B \in [Places -> BucketType] /\ \A e \in Places \ {f} : B[e] = h.bucket[e]
  BY <1>1, <1>3
<1> HIDE DEF l, B
<1>5. m = [h EXCEPT !.list = l, !.bucket = B, !.held = h.held \ {f}]
  BY DEF remove_bucket, l, B
<1>6. m = [list |-> l, bucket |-> B, held |-> h.held \ {f}, looped |-> h.looped]
  BY <1>5 DEF HeapType
<1> HIDE DEF m
<1>7. m \in HeapType
  BY <1>1, <1>2, <1>4, <1>6 DEF HeapType
<1> QED BY <1>4, <1>6, <1>7 DEF m, l

LEMMA FreedType ==
    ASSUME NEW h \in HeapType, NEW ptr
    PROVE  Freed(h, ptr) \in HeapType
<1> DEFINE f == FrameOf(ptr)
           b == h.bucket[f]
           bm == clear_bit(b.bm, bit_offset(b, f, ptr))
           g == [h EXCEPT !.bucket[f].bm = bm]
<1>1. h.bucket \in [Places -> BucketType]
  BY DEF HeapType
<1>2. g \in HeapType
  <2> DEFINE B == [h.bucket EXCEPT ![f].bm = bm]
  <2>1. CASE f \in Places
    <3>1. b \in BucketType
      BY <1>1, <2>1
    <3>2. bm \in [size : Nat, bits : SUBSET Nat]
      BY <3>1 DEF clear_bit, BucketType
    <3> HIDE DEF bm
    <3> QED BY <1>1, <2>1, <3>1, <3>2 DEF HeapType, BucketType
  <2>2. CASE f \notin Places
    <3> HIDE DEF bm, f
    <3>1. B = h.bucket
      BY <1>1, <2>2
    <3>2. g = [h EXCEPT !.bucket = B]
      OBVIOUS
    <3> HIDE DEF B
    <3> QED BY <3>1, <3>2 DEF HeapType
  <2> QED BY <2>1, <2>2
<1>3. remove_bucket(h, f) \in HeapType
  BY RemoveEffect
<1> QED BY <1>2, <1>3 DEF Freed

LEMMA WrittenType ==
    ASSUME NEW h \in HeapType, NEW f, NEW ptr, NEW n, NEW ones \in BOOLEAN
    PROVE  Written(h, f, ptr, n, ones) \in HeapType
<1>1. CASE f \in Places
  BY <1>1, WrittenEffect
<1>2. CASE f \notin Places
  <2> DEFINE under == BitsUnder(f, h.bucket[f], ptr, n)
             bits == (h.bucket[f].bm.bits \ under) \cup (IF ones THEN under ELSE {})
             B == [h.bucket EXCEPT ![f].bm.bits = bits]
  <2>1. Written(h, f, ptr, n, ones) = [h EXCEPT !.bucket = B]
    BY DEF Written
  <2> HIDE DEF bits
  <2>2. B = h.bucket
    BY <1>2 DEF HeapType
  <2> HIDE DEF B
  <2> QED BY <2>1, <2>2 DEF HeapType
<1> QED BY <1>1, <1>2
-----------------------------------------------------------------------------
(* Type correctness. *)

LEMMA PowerType == \A p \in Powers : p \in Nat \ {0}
BY DEF Powers

LEMMA WithBucketType ==
    ASSUME NEW h \in HeapType, NEW p \in Powers, NEW f \in Places
    PROVE  WithBucket(h, p, f) \in HeapType
BY PushEffect DEF WithBucket

LEMMA SlotsType ==
    ASSUME NEW p \in Powers, NEW i \in Slots(p)
    PROVE  i \in Nat
<1>1. allocate_bucket(p).bm.size \in Nat
  BY NewBucketType DEF BucketType
<1> QED BY <1>1 DEF Slots

LEMMA NewBlockType ==
    ASSUME NEW h \in HeapType, NEW n \in Nat, NEW p \in Powers, NEW f \in Places, NEW i \in Nat
    PROVE  NewBlock(h, n, p, f, i) \in BlockType
<1> DEFINE b == WithBucket(h, p, f).bucket[f]
<1>1. b.bm.size \in Nat /\ b.power \in Nat
  <2>1. b \in BucketType
    BY WithBucketType DEF HeapType
  <2> HIDE DEF b
  <2> QED BY <2>1, PowerType DEF BucketType
<1>2. bm_ptr(f) \in Nat
  BY Place
<1> HIDE DEF b
<1> DEFINE e == (b.bm.size + 7) \div 8
<1>3. e \in Nat
  BY <1>1
<1> HIDE DEF e
<1>4. align(bm_ptr(f) + e, 12) \in Nat
  BY <1>2, <1>3 DEF align
<1>5. i * b.power \in Nat
  BY <1>1
<1>6. bitmap_offset(f, b, i) \in Nat
  BY <1>4, <1>5 DEF bitmap_offset, SIZEOF_LONG_DOUBLE, e
<1> QED BY <1>6 DEF NewBlock, BlockType, b

LEMMA NextTypeOK == TypeOK /\ [Next]_vars => TypeOK'
<1> SUFFICES ASSUME TypeOK, [Next]_vars PROVE TypeOK'
  OBVIOUS
<1>1. heap \in HeapType /\ block \in [Handles -> BlockType]
  BY DEF TypeOK, HeapType
<1> SUFFICES heap' \in HeapType /\ block' \in [Handles -> BlockType]
  BY DEF TypeOK, HeapType
<1>2. NoBlock \in BlockType
  BY DEF NoBlock, BlockType, nullptr, Places
<1>3. \A size \in Sizes : size \in Nat
  <2>1. Sizes \subseteq 1 .. MaxPower
    BY ONLY KmallocAssumption
  <2>2. MaxPower \in Int
    BY DEF MaxPower
  <2> QED BY <2>1, <2>2
<1>4. ASSUME NEW x \in Handles, NEW size \in Sizes, MallocCall(x, size)
      PROVE  heap' \in HeapType /\ block' \in [Handles -> BlockType]
  <2>1. PICK p \in Powers, f \in Places : \E i \in Slots(p) :
          /\ heap' = Malloced(heap, p, f, i)
          /\ block' = [block EXCEPT ![x] = NewBlock(heap, size, p, f, i)]
    BY <1>4 DEF MallocCall
  <2>2. PICK i \in Slots(p) :
          /\ heap' = Malloced(heap, p, f, i)
          /\ block' = [block EXCEPT ![x] = NewBlock(heap, size, p, f, i)]
    BY <2>1
  <2>3. i \in Nat /\ WithBucket(heap, p, f) \in HeapType
    BY <1>1, SlotsType, WithBucketType
  <2>4. Malloced(heap, p, f, i) \in HeapType
    BY <2>3, MallocedEffect
  <2>5. NewBlock(heap, size, p, f, i) \in BlockType
    BY <1>1, <1>3, <2>3, NewBlockType
  <2> QED BY <1>1, <2>2, <2>4, <2>5
<1>5. ASSUME NEW x \in Handles, NEW a \in Arrays, CallocCall(x, a[1], a[2])
      PROVE  heap' \in HeapType /\ block' \in [Handles -> BlockType]
  <2> DEFINE result == (a[1] * a[2]) % ADDR_SPACE
             n == a[1] * a[2]
  <2>1. PICK p \in Powers, f \in Places : \E i \in Slots(p) :
          LET b == NewBlock(heap, n, p, f, i) IN
          /\ heap' = Written(Malloced(heap, p, f, i), f, b.ptr, result, FALSE)
          /\ block' = [block EXCEPT ![x] = b]
    BY <1>5 DEF CallocCall
  <2>2. PICK i \in Slots(p) :
          LET b == NewBlock(heap, n, p, f, i) IN
          /\ heap' = Written(Malloced(heap, p, f, i), f, b.ptr, result, FALSE)
          /\ block' = [block EXCEPT ![x] = b]
    BY <2>1
  <2>3. i \in Nat /\ WithBucket(heap, p, f) \in HeapType
    BY <1>1, SlotsType, WithBucketType
  <2>4. Malloced(heap, p, f, i) \in HeapType
    BY <2>3, MallocedEffect
  <2>5. n \in Nat
    BY KmallocAssumption
  <2> HIDE DEF n, result
  <2>6. NewBlock(heap, n, p, f, i) \in BlockType
    BY <1>1, <2>3, <2>5, NewBlockType
  <2>7. heap' \in HeapType
    BY <2>2, <2>4, WrittenType
  <2> QED BY <1>1, <2>2, <2>6, <2>7
<1>6. ASSUME NEW x \in Handles, FreeCall(x)
      PROVE  heap' \in HeapType /\ block' \in [Handles -> BlockType]
  BY <1>1, <1>2, <1>6, FreedType DEF FreeCall
<1>7. ASSUME NEW x \in Handles, NEW size \in Sizes, ReallocInPlace(x, size)
      PROVE  heap' \in HeapType /\ block' \in [Handles -> BlockType]
  BY <1>1, <1>3, <1>7 DEF ReallocInPlace, BlockType
<1>8. ASSUME NEW x \in Handles, NEW size \in Sizes, NEW ones \in BOOLEAN,
             ReallocMove(x, size, ones)
      PROVE  heap' \in HeapType /\ block' \in [Handles -> BlockType]
  <2> DEFINE oldPower == heap.bucket[FrameOf(block[x].ptr)].power
             old == block[x].ptr
  <2>1. PICK p \in Powers, f \in Places : \E i \in Slots(p) :
          LET b == NewBlock(heap, size, p, f, i)
              copied == Written(Malloced(heap, p, f, i), f, b.ptr, oldPower, ones)
          IN  /\ heap' = Freed(copied, old)
              /\ block' = [block EXCEPT ![x] = b]
    BY <1>8 DEF ReallocMove
  <2>2. PICK i \in Slots(p) :
          LET b == NewBlock(heap, size, p, f, i)
              copied == Written(Malloced(heap, p, f, i), f, b.ptr, oldPower, ones)
          IN  /\ heap' = Freed(copied, old)
              /\ block' = [block EXCEPT ![x] = b]
    BY <2>1
  <2>3. i \in Nat /\ WithBucket(heap, p, f) \in HeapType
    BY <1>1, SlotsType, WithBucketType
  <2>4. Malloced(heap, p, f, i) \in HeapType
    BY <2>3, MallocedEffect
  <2>5. NewBlock(heap, size, p, f, i) \in BlockType
    BY <1>1, <1>3, <2>3, NewBlockType
  <2> HIDE DEF oldPower, old
  <2> DEFINE copied == Written(Malloced(heap, p, f, i), f,
                               NewBlock(heap, size, p, f, i).ptr, oldPower, ones)
  <2>6. copied \in HeapType
    BY <2>4, WrittenType
  <2>7. heap' = Freed(copied, old) /\ block' = [block EXCEPT ![x] = NewBlock(heap, size, p, f, i)]
    BY <2>2
  <2> HIDE DEF copied
  <2> QED BY <1>1, <2>5, <2>6, <2>7, FreedType
<1>9. ASSUME NEW x \in Handles, NEW ones \in BOOLEAN, UserWrites(x, ones)
      PROVE  heap' \in HeapType /\ block' \in [Handles -> BlockType]
  BY <1>1, <1>9, WrittenType DEF UserWrites
<1>10. CASE UNCHANGED vars
  BY <1>1, <1>10 DEF vars
<1> QED BY <1>4, <1>5, <1>6, <1>7, <1>8, <1>9, <1>10 DEF Next

LEMMA InitTypeOK == Init => TypeOK
<1>1. NoBucket \in BucketType /\ NoBlock \in BlockType
  BY DEF NoBucket, BucketType, NoBlock, BlockType, nullptr, Places
<1>2. <<>> \in Seq(Places)
  OBVIOUS
<1> QED BY <1>1, <1>2 DEF Init, TypeOK

\* The heap, its list and the callers' blocks are always of their types, for
\* every size that is asked for and whatever address free is left with.
THEOREM TypeCorrect == Spec => []TypeOK
BY InitTypeOK, NextTypeOK, PTL DEF Spec
-----------------------------------------------------------------------------
(* The inductive invariant.  It speaks of a heap and a set of blocks, so    *)
(* that it can be followed through the malloc, copy and free of realloc.    *)

\* A block lies at a slot of a bucket on the list, and the slot's bit is set.
BlockOK(h, b) ==
    /\ b.frame \in Range(h.list)
    /\ b.slot \in 0 .. (h.bucket[b.frame].bm.size - 1)
    /\ b.slot \in h.bucket[b.frame].bm.bits
    /\ b.ptr = bitmap_offset(b.frame, h.bucket[b.frame], b.slot)
    /\ b.size <= h.bucket[b.frame].power

\* The list has each frame held once, buckets have the layout of their power,
\* and no two blocks of S have one slot.
Consistent(h, S) ==
    /\ h.held = Range(h.list) \ {0}
    /\ \A j, k \in DOMAIN h.list : h.list[j] = h.list[k] => j = k
    /\ \A f \in Range(h.list) : Sound(h.bucket[f])
    /\ \A b \in S : BlockOK(h, b)
    /\ \A b, c \in S : b.frame = c.frame /\ b.slot = c.slot => b = c

\* Every bit that is_empty looks at is clear or belongs to a block of S, and
\* not all of them are clear.
CoveredAt(h, S, f) ==
    /\ h.bucket[f].bm.bits \cap Bits(h.bucket[f].bm) # {}
    /\ \A i \in h.bucket[f].bm.bits \cap Bits(h.bucket[f].bm) :
          \E b \in S : b.frame = f /\ b.slot = i

\* The buckets whose slots have 128 bytes and more, where no holder's data lies
\* on a bit that is_empty looks at.
Wide(h) == {f \in Range(h.list) : h.bucket[f].power >= 128}

Covered(h, S) == \A f \in Wide(h) : CoveredAt(h, S, f)

\* The handles of B that hold a block, and the blocks.
LiveOf(B) == {x \in Handles : B[x] # NoBlock}
BlocksOf(B) == {B[x] : x \in LiveOf(B)}
OneEach(B) == \A x, y \in LiveOf(B) : B[x] = B[y] => x = y

LayoutInv == ~heap.looped => Consistent(heap, BlocksOf(block)) /\ OneEach(block)

CoverInv == ~heap.looped => Covered(heap, BlocksOf(block))
-----------------------------------------------------------------------------
(* The steps of the operations keep it. *)

LEMMA PowerFound ==
    ASSUME NEW size \in Requests, NEW p, compute_power(size, p)
    PROVE  p \in SlotSizes /\ size <= p
BY SMT DEF compute_power, Powers, SlotSizes, Requests

LEMMA ListType ==
    ASSUME NEW h \in HeapType
    PROVE  /\ h.list \in Seq(Places) /\ Range(h.list) \subseteq Places
           /\ \A f \in Places : h.bucket[f] \in BucketType
           /\ h.held \subseteq Pool
<1>1. h.list \in Seq(Places) /\ h.bucket \in [Places -> BucketType] /\ h.held \subseteq Pool
  BY DEF HeapType
<1>2. Range(h.list) \subseteq Places
  BY <1>1 DEF Range
<1> QED BY <1>1, <1>2

\* Bits that malloc looks at may be set, and others may change in any way.
LEMMA SameLayout ==
    ASSUME NEW h \in HeapType, NEW g \in HeapType, NEW S, Consistent(h, S),
           g.list = h.list, g.held = h.held,
           \A f \in Places :
              /\ g.bucket[f].power = h.bucket[f].power
              /\ g.bucket[f].bm.size = h.bucket[f].bm.size
              /\ \A j \in 0 .. (h.bucket[f].bm.size - 1) :
                    j \in h.bucket[f].bm.bits => j \in g.bucket[f].bm.bits
    PROVE  Consistent(g, S)
<1>1. Range(h.list) \subseteq Places
  BY ListType
<1>2. \A f \in Range(g.list) : Sound(g.bucket[f])
  BY <1>1 DEF Consistent, Sound
<1>3. ASSUME NEW b \in S PROVE BlockOK(g, b)
  <2>1. BlockOK(h, b) /\ b.frame \in Places
    BY <1>1 DEF Consistent, BlockOK
  <2>2. bitmap_offset(b.frame, g.bucket[b.frame], b.slot)
          = bitmap_offset(b.frame, h.bucket[b.frame], b.slot)
    BY <2>1 DEF bitmap_offset
  <2> QED BY <2>1, <2>2 DEF BlockOK
<1> QED BY <1>2, <1>3 DEF Consistent

\* The bucket that serves a request is on the list, with the others unchanged.
LEMMA BucketServes ==
    ASSUME NEW h \in HeapType, NEW S, ~h.looped, Consistent(h, S),
           NEW p \in SlotSizes, p \in Powers, NEW f \in Places, Serves(h, p, f),
           ~WithBucket(h, p, f).looped
    PROVE  LET w == WithBucket(h, p, f) IN
           /\ w \in HeapType
           /\ f \in Range(w.list) /\ w.bucket[f].power = p
           /\ Consistent(w, S)
           /\ Range(w.list) = Range(h.list) \cup {f}
           /\ \A g \in Range(h.list) : w.bucket[g] = h.bucket[g]
           /\ f \notin Range(h.list) => w.bucket[f] = allocate_bucket(p)
<1> DEFINE w == WithBucket(h, p, f)
<1>1. w \in HeapType
  BY WithBucketType
<1>2. CASE ~NoFit(h, p)
  <2>1. w = h
    BY <1>2 DEF WithBucket
  <2>2. PICK k \in DOMAIN h.list : FirstFit(h, k, p) /\ f = h.list[k]
    BY <1>2 DEF Serves
  <2>3. f \in Range(h.list) /\ h.bucket[f].power = p
    BY <2>2 DEF Range, FirstFit, Fits
  <2> QED BY <1>1, <2>1, <2>3
<1>3. CASE NoFit(h, p)
  <2>1. w = push_bucket(h, f, p)
    BY <1>3 DEF WithBucket
  <2> HIDE DEF w
  <2>2. /\ Len(w.list) = Len(h.list) + 1 /\ w.list[1] = f
        /\ \A k \in DOMAIN h.list : w.list[k + 1] = h.list[k]
        /\ Range(w.list) = Range(h.list) \cup {f}
        /\ w.bucket[f] = allocate_bucket(p)
        /\ \A g \in Places \ {f} : w.bucket[g] = h.bucket[g]
        /\ w.held = h.held \cup ({f} \cap Pool)
    <3>1. Pushed(h, f, p, w)
      BY <2>1, PushEffect
    <3> QED BY <3>1 DEF Pushed
  <2>3. f \notin Range(h.list)
    <3>1. w.looped = (h.looped \/ f \in Range(h.list)) /\ w.looped = FALSE
      BY <2>1 DEF push_bucket, w
    <3> QED BY <3>1
  <2>4. Range(h.list) \subseteq Places /\ h.list \in Seq(Places) /\ w.list \in Seq(Places)
    BY <1>1, ListType
  <2>5. \A g \in Range(h.list) : g # f /\ w.bucket[g] = h.bucket[g]
    BY <2>2, <2>3, <2>4
  <2>6. w.held = Range(w.list) \ {0}
    <3>1. 0 \notin Pool
      <4>1. Pool \subseteq 1 .. (QUARTER \div FRAME_SIZE - 1)
        BY ONLY KmallocAssumption
      <4> QED BY <4>1
    <3>2. {f} \cap Pool = {f} \ {0}
      BY <3>1 DEF Places
    <3> QED BY <2>2, <3>2 DEF Consistent
  <2>7. ASSUME NEW j \in DOMAIN w.list, NEW k \in DOMAIN w.list, w.list[j] = w.list[k]
        PROVE  j = k
    <3>1. DOMAIN w.list = 1 .. (Len(h.list) + 1) /\ DOMAIN h.list = 1 .. Len(h.list)
          /\ Len(h.list) \in Nat
      BY <2>2, <2>4
    <3>2. ASSUME NEW i \in DOMAIN w.list, i # 1
          PROVE  i - 1 \in DOMAIN h.list /\ w.list[i] = h.list[i - 1] /\ w.list[i] # f
      <4>1. i - 1 \in DOMAIN h.list /\ (i - 1) + 1 = i
        BY <3>1, <3>2
      <4>2. w.list[i] = h.list[i - 1]
        BY <2>2, <4>1
      <4>3. h.list[i - 1] # f
        BY <2>3, <4>1 DEF Range
      <4> QED BY <4>1, <4>2, <4>3
    <3>3. CASE j # 1 /\ k # 1
      <4>1. h.list[j - 1] = h.list[k - 1] /\ j - 1 \in DOMAIN h.list /\ k - 1 \in DOMAIN h.list
        BY <2>7, <3>2, <3>3
      <4>2. j - 1 = k - 1
        BY <4>1 DEF Consistent
      <4> QED BY <3>1, <4>2
    <3>4. CASE j = 1 \/ k = 1
      BY <2>2, <2>7, <3>2, <3>4
    <3> QED BY <3>3, <3>4
  <2>8. w.bucket[f].power = p /\ Sound(w.bucket[f])
    BY <2>2, NewBucket DEF Sound
  <2>9. \A g \in Range(w.list) : Sound(w.bucket[g])
    BY <2>2, <2>5, <2>8 DEF Consistent
  <2>10. ASSUME NEW b \in S PROVE BlockOK(w, b)
    <3>1. BlockOK(h, b)
      BY DEF Consistent
    <3>2. w.bucket[b.frame] = h.bucket[b.frame] /\ b.frame \in Range(w.list)
      BY <2>2, <2>5, <3>1 DEF BlockOK
    <3> QED BY <3>1, <3>2 DEF BlockOK
  <2>11. Consistent(w, S)
    BY <2>6, <2>7, <2>9, <2>10 DEF Consistent
  <2> QED BY <1>1, <2>2, <2>5, <2>8, <2>11 DEF w
<1> QED BY <1>2, <1>3

\* Malloced is the heap with bit i of bucket f set, nothing else.
BitTaken(w, f, i, m) ==
    /\ m.list = w.list /\ m.held = w.held /\ m.looped = w.looped
    /\ \A e \in Places : /\ m.bucket[e].power = w.bucket[e].power
                         /\ m.bucket[e].bm.size = w.bucket[e].bm.size
    /\ m.bucket[f].bm.bits = w.bucket[f].bm.bits \cup {i}
    /\ \A e \in Places \ {f} : m.bucket[e] = w.bucket[e]

AtSlot(b, f, i) == b.frame = f /\ b.slot = i

\* malloc(size) takes the heap h to m and returns the block b.
MallocStep(h, size, p, f, i, m, b) ==
    /\ size \in Requests /\ p \in Powers /\ f \in Places
    /\ Malloc(h, size, p, f, i)
    /\ m = Malloced(h, p, f, i) /\ b = NewBlock(h, size, p, f, i)
    /\ ~h.looped /\ ~m.looped

\* malloc keeps the invariant and returns a block in a slot that no other has.
LEMMA MallocKeeps ==
    ASSUME NEW h \in HeapType, NEW S, Consistent(h, S), NEW size, NEW p, NEW f, NEW i,
           NEW m, NEW b, MallocStep(h, size, p, f, i, m, b)
    PROVE  /\ m \in HeapType
           /\ Consistent(m, S \cup {b}) /\ b \notin S /\ b # NoBlock
           /\ AtSlot(b, f, i) /\ BitTaken(WithBucket(h, p, f), f, i, m)
<1> USE DEF MallocStep
<1> DEFINE w == WithBucket(h, p, f)
           k == w.bucket[f]
<1>1. p \in SlotSizes /\ size <= p
  <2>1. compute_power(size, p)
    BY DEF Malloc
  <2> QED BY <2>1, PowerFound
<1>2. Serves(h, p, f) /\ IsFirstFree(k.bm, i)
  BY DEF Malloc
<1>3. w \in HeapType
  BY WithBucketType
<1>4. k \in BucketType
  BY <1>3, ListType
<1>5. k.bm.size \in Nat
  BY <1>4 DEF BucketType
<1>6. i \in 0 .. (k.bm.size - 1) /\ i \in Nat /\ InRange(k.bm, i) /\ i \notin k.bm.bits
  <2> DEFINE bm == k.bm
  <2>1. bm.size \in Nat /\ IsFirstFree(bm, i)
    BY <1>2, <1>5
  <2> HIDE DEF bm
  <2>2. i \in 0 .. (bm.size - 1) /\ i \in Nat /\ InRange(bm, i) /\ i \notin bm.bits
    BY <2>1 DEF IsFirstFree, get_bit, InRange, BYTE
  <2> QED BY <2>2 DEF bm
<1>7. m \in HeapType /\ BitTaken(w, f, i, m)
  <2>1. /\ m \in HeapType
        /\ m.list = w.list /\ m.held = w.held /\ m.looped = w.looped
        /\ m.bucket[f].power = k.power /\ m.bucket[f].bm.size = k.bm.size
        /\ m.bucket[f].bm.bits = k.bm.bits \cup {i}
        /\ \A e \in Places \ {f} : m.bucket[e] = w.bucket[e]
    BY <1>3, <1>6, MallocedEffect
  <2> HIDE DEF w
  <2> QED BY <2>1 DEF BitTaken
<1>8. ~w.looped
  BY <1>7 DEF BitTaken
<1>9. f \in Range(w.list) /\ k.power = p /\ Consistent(w, S)
  BY <1>1, <1>2, <1>8, BucketServes
<1>10. b = [ptr |-> bitmap_offset(f, k, i), size |-> size, frame |-> f, slot |-> i]
  BY DEF NewBlock
<1> HIDE DEF w
<1>11. Consistent(m, S)
  <2>1. ASSUME NEW e \in Places
        PROVE  /\ m.bucket[e].power = w.bucket[e].power
               /\ m.bucket[e].bm.size = w.bucket[e].bm.size
               /\ \A j \in 0 .. (w.bucket[e].bm.size - 1) :
                     j \in w.bucket[e].bm.bits => j \in m.bucket[e].bm.bits
    BY <1>7 DEF BitTaken
  <2>2. m.list = w.list /\ m.held = w.held
    BY <1>7 DEF BitTaken
  <2> QED BY <1>3, <1>7, <1>9, <2>1, <2>2, SameLayout
<1>12. Sound(k)
  BY <1>9 DEF Consistent
<1>13. m.bucket[f].power = k.power /\ m.bucket[f].bm.size = k.bm.size
       /\ m.bucket[f].bm.bits = k.bm.bits \cup {i} /\ m.list = w.list
  BY <1>7 DEF BitTaken
<1>14. BlockOK(m, b)
  <2>1. bitmap_offset(f, m.bucket[f], i) = bitmap_offset(f, k, i)
    BY <1>13 DEF bitmap_offset
  <2> QED BY <1>1, <1>6, <1>9, <1>10, <1>13, <2>1 DEF BlockOK
<1>15. ASSUME NEW c \in S, c.frame = f, c.slot = i PROVE FALSE
  <2>1. BlockOK(w, c)
    BY <1>9 DEF Consistent
  <2> QED BY <1>6, <1>15, <2>1 DEF BlockOK
<1>16. b.frame = f /\ b.slot = i /\ b.ptr = bitmap_offset(f, k, i)
  BY <1>10
<1>17. b \notin S
  BY <1>15, <1>16
<1>18. b # NoBlock
  <2>1. b.ptr > 0
    BY <1>6, <1>12, <1>16, SlotAt
  <2> QED BY <2>1 DEF NoBlock, nullptr
<1>19. Consistent(m, S \cup {b})
  <2>1. \A c \in S \cup {b} : BlockOK(m, c)
    BY <1>11, <1>14 DEF Consistent
  <2>2. \A c, d \in S \cup {b} : c.frame = d.frame /\ c.slot = d.slot => c = d
    BY <1>11, <1>15, <1>16 DEF Consistent
  <2> QED BY <1>11, <2>1, <2>2 DEF Consistent
<1> QED BY <1>7, <1>8, <1>16, <1>17, <1>18, <1>19 DEF w, AtSlot

\* The holder of a block, and a copy to it, do not change what the allocator
\* relies on.
LEMMA WrittenKeeps ==
    ASSUME NEW h \in HeapType, NEW S, Consistent(h, S), NEW b \in S, NEW n, NEW ones \in BOOLEAN,
           NEW m, m = Written(h, b.frame, b.ptr, n, ones)
    PROVE  /\ m \in HeapType /\ Consistent(m, S) /\ m.looped = h.looped
           /\ Covered(h, S) => Covered(m, S)
<1> DEFINE f == b.frame
           k == h.bucket[f]
           under == BitsUnder(f, k, b.ptr, n)
<1>1. BlockOK(h, b) /\ Sound(k) /\ f \in Places
  BY ListType DEF Consistent, BlockOK
<1>2. /\ \A j \in under : j >= k.bm.size
      /\ k.power >= 128 => under = {}
  BY <1>1, SlotOffBits DEF BlockOK
<1>3. /\ m \in HeapType
      /\ m.list = h.list /\ m.held = h.held /\ m.looped = h.looped
      /\ m.bucket[f].power = k.power /\ m.bucket[f].bm.size = k.bm.size
      /\ \A j \in Nat \ under : j \in m.bucket[f].bm.bits <=> j \in k.bm.bits
      /\ under = {} => m.bucket[f].bm.bits = k.bm.bits
      /\ \A e \in Places \ {f} : m.bucket[e] = h.bucket[e]
  BY <1>1, WrittenEffect
<1> HIDE DEF under
<1>4. ASSUME NEW e \in Places
      PROVE  /\ m.bucket[e].power = h.bucket[e].power
             /\ m.bucket[e].bm.size = h.bucket[e].bm.size
             /\ \A j \in 0 .. (h.bucket[e].bm.size - 1) :
                   j \in h.bucket[e].bm.bits => j \in m.bucket[e].bm.bits
  <2>1. CASE e # f
    BY <1>3, <2>1
  <2>2. CASE e = f
    <3> DEFINE s == k.bm.size
    <3>1. s \in Nat
      BY <1>1, ListType DEF BucketType
    <3>2. ASSUME NEW j \in 0 .. (s - 1) PROVE j \in Nat \ under
      <4> HIDE DEF s
      <4>1. ~ (j >= s) /\ j \in Nat
        BY <3>1
      <4> QED BY <1>2, <4>1 DEF s
    <3> QED BY <1>3, <2>2, <3>2
  <2> QED BY <2>1, <2>2
<1>5. Consistent(m, S)
  BY <1>3, <1>4, SameLayout
<1>6. ASSUME Covered(h, S), NEW g \in Wide(m) PROVE CoveredAt(m, S, g)
  <2>0. g \in Range(h.list) /\ g \in Places /\ m.bucket[g].power >= 128
    BY <1>3, ListType DEF Wide
  <2>1. CoveredAt(h, S, g) /\ g \in Places /\ h.bucket[g].power >= 128
    BY <1>4, <1>6, <2>0 DEF Covered, Wide
  <2>2. CASE g # f
    BY <1>3, <2>1, <2>2 DEF CoveredAt
  <2>3. CASE g = f
    <3>1. under = {}
      BY <1>2, <2>1, <2>3
    <3>2. Bits(m.bucket[f].bm) = Bits(k.bm) /\ m.bucket[f].bm.bits = k.bm.bits
      BY <1>3, <3>1 DEF Bits
    <3> QED BY <1>3, <2>1, <2>3, <3>2 DEF CoveredAt
  <2> QED BY <2>2, <2>3
<1> QED BY <1>3, <1>5, <1>6 DEF Covered

\* free clears the bit of the block, and gives the bucket back if no bit is left.
LEMMA FreedIs ==
    ASSUME NEW h \in HeapType, NEW S, Consistent(h, S), NEW b \in S
    PROVE  LET bits == h.bucket[b.frame].bm.bits \ {b.slot} IN
           Freed(h, b.ptr) = IF bits \cap Bits(h.bucket[b.frame].bm) = {}
                             THEN remove_bucket(h, b.frame)
                             ELSE BitsSet(h, b.frame, bits)
<1> DEFINE f == b.frame
           k == h.bucket[f]
           bits == k.bm.bits \ {b.slot}
           new == [k.bm EXCEPT !.bits = bits]
<1>1. BlockOK(h, b) /\ Sound(k) /\ f \in Places /\ k \in BucketType
  BY ListType DEF Consistent, BlockOK
<1>2. FrameOf(b.ptr) = f /\ bit_offset(k, f, b.ptr) = b.slot
  BY <1>1, SlotAt DEF BlockOK
<1>3. k.bm.size \in Nat /\ b.slot \in 0 .. (k.bm.size - 1) /\ k.bm \in [size : Nat, bits : SUBSET Nat]
  BY <1>1 DEF BlockOK, BucketType
<1>4. InRange(k.bm, b.slot)
  BY <1>3 DEF InRange, BYTE
<1>5. clear_bit(k.bm, b.slot) = new
  BY <1>4 DEF clear_bit
<1>6. Bits(new) = Bits(k.bm) /\ new.bits = bits
  BY <1>3 DEF Bits
<1>7. is_empty(new) <=> bits \cap Bits(k.bm) = {}
  BY <1>6 DEF is_empty
<1>8. h.list # <<>>
  BY <1>1 DEF BlockOK, Range
<1> HIDE DEF new
<1>9. Freed(h, b.ptr) = IF is_empty(new) THEN remove_bucket(h, f)
                        ELSE [h EXCEPT !.bucket[f].bm = new]
  BY <1>2, <1>5, <1>8 DEF Freed
<1>10. [h EXCEPT !.bucket[f].bm = new] = BitsSet(h, f, bits)
  BY DEF BitsSet, new
<1> QED BY <1>7, <1>9, <1>10

LEMMA FreedKeeps ==
    ASSUME NEW h \in HeapType, NEW S, Consistent(h, S), NEW b \in S,
           NEW m, m = Freed(h, b.ptr)
    PROVE  /\ m \in HeapType /\ Consistent(m, S \ {b}) /\ m.looped = h.looped
           /\ Covered(h, S) => Covered(m, S \ {b})
<1> DEFINE f == b.frame
           k == h.bucket[f]
           bits == k.bm.bits \ {b.slot}
<1>1. BlockOK(h, b) /\ f \in Range(h.list) /\ f \in Places /\ k \in BucketType
      /\ Range(h.list) \subseteq Places /\ h.list \in Seq(Places)
  BY ListType DEF Consistent, BlockOK
<1>2. ASSUME NEW c \in S \ {b}
      PROVE  BlockOK(h, c) /\ (c.frame = f => c.slot \in bits \cap Bits(k.bm))
  <2>1. BlockOK(h, c)
    BY DEF Consistent
  <2>2. ASSUME c.frame = f PROVE c.slot \in bits \cap Bits(k.bm)
    <3>1. c.slot # b.slot
      BY <2>2 DEF Consistent
    <3>2. c.slot \in k.bm.bits /\ c.slot \in 0 .. (k.bm.size - 1)
      BY <2>1, <2>2 DEF BlockOK
    <3>3. k.bm.size \in Nat
      BY <1>1 DEF BucketType
    <3>4. c.slot \in Bits(k.bm)
      BY <3>2, <3>3 DEF Bits, BYTE
    <3> QED BY <3>1, <3>2, <3>4
  <2> QED BY <2>1, <2>2
<1>3. CASE bits \cap Bits(k.bm) = {}
  <2>1. m = remove_bucket(h, f)
    BY <1>3, FreedIs
  <2>2. /\ m \in HeapType /\ m.list = RemoveFirst(h.list, f)
        /\ m.held = h.held \ {f} /\ m.looped = h.looped
        /\ \A e \in Places \ {f} : m.bucket[e] = h.bucket[e]
    BY <2>1, RemoveEffect
  <2>3. /\ Range(m.list) = Range(h.list) \ {f}
        /\ \A i, j \in DOMAIN m.list : m.list[i] = m.list[j] => i = j
    <3>1. \A i, j \in DOMAIN h.list : h.list[i] = h.list[j] => i = j
      BY DEF Consistent
    <3> DEFINE l == RemoveFirst(h.list, f)
    <3>2. Range(l) = Range(h.list) \ {f} /\ \A i, j \in DOMAIN l : l[i] = l[j] => i = j
      BY <1>1, <3>1, UnlinkedOnce
    <3> HIDE DEF l
    <3>3. m.list = l
      BY <2>2 DEF l
    <3> QED BY <3>2, <3>3
  <2>4. \A g \in Range(m.list) : g \in Range(h.list) /\ g # f /\ m.bucket[g] = h.bucket[g]
    BY <1>1, <2>2, <2>3
  <2>5. ASSUME NEW c \in S \ {b} PROVE BlockOK(m, c)
    <3>1. BlockOK(h, c) /\ c.frame # f
      BY <1>2, <1>3
    <3>2. c.frame \in Range(m.list) /\ m.bucket[c.frame] = h.bucket[c.frame]
      BY <2>3, <2>4, <3>1 DEF BlockOK
    <3> QED BY <3>1, <3>2 DEF BlockOK
  <2>6. Consistent(m, S \ {b})
    <3>1. m.held = Range(m.list) \ {0}
      BY <2>2, <2>3 DEF Consistent
    <3>2. \A g \in Range(m.list) : Sound(m.bucket[g])
      BY <2>4 DEF Consistent
    <3> QED BY <2>3, <2>5, <3>1, <3>2 DEF Consistent
  <2>7. ASSUME Covered(h, S), NEW g \in Wide(m) PROVE CoveredAt(m, S \ {b}, g)
    <3>1. CoveredAt(h, S, g) /\ g # f /\ m.bucket[g] = h.bucket[g]
      BY <2>4, <2>7 DEF Covered, Wide
    <3> QED BY <3>1 DEF CoveredAt
  <2> QED BY <2>2, <2>6, <2>7 DEF Covered
<1>4. CASE bits \cap Bits(k.bm) # {}
  <2>1. m = BitsSet(h, f, bits)
    BY <1>4, FreedIs
  <2>2. bits \in SUBSET Nat
    BY <1>1 DEF BucketType
  <2> HIDE DEF bits
  <2>3. /\ m \in HeapType
        /\ m.list = h.list /\ m.held = h.held /\ m.looped = h.looped
        /\ m.bucket[f].power = k.power /\ m.bucket[f].bm.size = k.bm.size
        /\ m.bucket[f].bm.bits = bits
        /\ \A e \in Places \ {f} : m.bucket[e] = h.bucket[e]
    BY <1>1, <2>1, <2>2, BitmapChanged
  <2>4. \A g \in Range(m.list) : Sound(m.bucket[g])
    BY <1>1, <2>3 DEF Consistent, Sound
  <2>5. ASSUME NEW c \in S \ {b} PROVE BlockOK(m, c)
    <3>1. BlockOK(h, c) /\ c.frame \in Places
      BY <1>1, <1>2 DEF BlockOK
    <3>2. CASE c.frame # f
      BY <2>3, <3>1, <3>2 DEF BlockOK
    <3>3. CASE c.frame = f
      <4>1. c.slot \in bits
        BY <1>2, <3>3
      <4>2. bitmap_offset(f, m.bucket[f], c.slot) = bitmap_offset(f, k, c.slot)
        BY <2>3 DEF bitmap_offset
      <4> QED BY <2>3, <3>1, <3>3, <4>1, <4>2 DEF BlockOK
    <3> QED BY <3>2, <3>3
  <2>6. Consistent(m, S \ {b})
    BY <2>3, <2>4, <2>5 DEF Consistent
  <2>7. ASSUME Covered(h, S), NEW g \in Wide(m) PROVE CoveredAt(m, S \ {b}, g)
    <3>1. CoveredAt(h, S, g) /\ g \in Places
      <4>1. g \in Range(h.list) /\ g \in Places /\ m.bucket[g].power = h.bucket[g].power
        BY <1>1, <2>3 DEF Wide
      <4> QED BY <2>7, <4>1 DEF Covered, Wide
    <3>2. CASE g # f
      BY <2>3, <3>1, <3>2 DEF CoveredAt
    <3>3. CASE g = f
      <4>1. Bits(m.bucket[f].bm) = Bits(k.bm) /\ m.bucket[f].bm.bits = bits
        BY <2>3 DEF Bits
      <4>2. ASSUME NEW i \in bits \cap Bits(k.bm)
            PROVE  \E c \in S \ {b} : c.frame = f /\ c.slot = i
        BY <3>1, <3>3 DEF CoveredAt, bits
      <4> QED BY <1>4, <2>3, <3>1, <3>3, <4>1, <4>2 DEF CoveredAt
    <3> QED BY <3>2, <3>3
  <2> QED BY <2>3, <2>6, <2>7 DEF Covered
<1> QED BY <1>3, <1>4

\* malloc sets the bit of the new block only.
LEMMA MallocCovers ==
    ASSUME NEW h \in HeapType, NEW S, Consistent(h, S), Covered(h, S),
           NEW size \in Requests, NEW p, NEW f, NEW i,
           NEW m, NEW b, MallocStep(h, size, p, f, i, m, b)
    PROVE  Covered(m, S \cup {b})
<1> DEFINE w == WithBucket(h, p, f)
           k == w.bucket[f]
<1>1. p \in SlotSizes /\ Serves(h, p, f) /\ IsFirstFree(k.bm, i)
  <2>1. compute_power(size, p) /\ Serves(h, p, f) /\ IsFirstFree(k.bm, i)
    BY DEF Malloc, MallocStep
  <2> QED BY <2>1, PowerFound
<1>2. AtSlot(b, f, i) /\ BitTaken(w, f, i, m)
  BY MallocKeeps
<1> USE DEF MallocStep
<1>9. ~w.looped
  BY <1>2 DEF BitTaken
<1>3. /\ w \in HeapType /\ k.power = p
      /\ Range(w.list) = Range(h.list) \cup {f}
      /\ \A g \in Range(h.list) : w.bucket[g] = h.bucket[g]
      /\ f \notin Range(h.list) => k = allocate_bucket(p)
  BY <1>1, <1>9, BucketServes
<1>4. Range(h.list) \subseteq Places /\ k \in BucketType
  BY <1>3, ListType
<1>5. i \in Bits(k.bm)
  <2> DEFINE bm == k.bm
  <2>1. bm.size \in Nat /\ IsFirstFree(bm, i)
    BY <1>1, <1>4 DEF BucketType
  <2> HIDE DEF bm
  <2>2. i \in Bits(bm)
    BY <2>1 DEF IsFirstFree, Bits, BYTE
  <2> QED BY <2>2 DEF bm
<1> HIDE DEF w
<1>6. m.bucket[f].power = p /\ m.bucket[f].bm.size = k.bm.size
      /\ m.bucket[f].bm.bits = k.bm.bits \cup {i} /\ m.list = w.list
  BY <1>2, <1>3 DEF BitTaken
<1>7. ASSUME p >= 128 PROVE CoveredAt(m, S \cup {b}, f)
  <2>1. Bits(m.bucket[f].bm) = Bits(k.bm)
    BY <1>6 DEF Bits
  <2>2. ASSUME NEW j \in k.bm.bits \cap Bits(k.bm) PROVE \E c \in S : c.frame = f /\ c.slot = j
    <3>1. CASE f \in Range(h.list)
      <4>1. CoveredAt(h, S, f) /\ k = h.bucket[f]
        BY <1>3, <1>7, <3>1 DEF Covered, Wide
      <4> QED BY <4>1 DEF CoveredAt
    <3>2. CASE f \notin Range(h.list)
      <4>1. k.bm.bits = {}
        BY <1>3, <3>2, NewBucketType
      <4> QED BY <4>1
    <3> QED BY <3>1, <3>2
  <2>3. ASSUME NEW j \in (k.bm.bits \cup {i}) \cap Bits(k.bm)
        PROVE  \E c \in S \cup {b} : c.frame = f /\ c.slot = j
    <3>1. CASE j = i
      BY <1>2, <3>1 DEF AtSlot
    <3>2. CASE j \in k.bm.bits
      BY <2>2, <3>2
    <3> QED BY <3>1, <3>2
  <2> QED BY <1>1, <1>5, <1>6, <2>1, <2>3 DEF CoveredAt
<1>8. ASSUME NEW g \in Wide(m), g # f PROVE CoveredAt(m, S \cup {b}, g)
  <2>1. g \in Range(h.list) /\ g \in Places
    BY <1>3, <1>4, <1>6, <1>8 DEF Wide
  <2>2. m.bucket[g] = h.bucket[g]
    BY <1>2, <1>3, <1>8, <2>1 DEF BitTaken
  <2>3. CoveredAt(h, S, g)
    BY <2>1, <2>2 DEF Covered, Wide
  <2> QED BY <2>2, <2>3 DEF CoveredAt
<1> QED BY <1>6, <1>7, <1>8 DEF Covered, Wide

\* A handle gets a block that no other has.
Put(B, x, b) == [B EXCEPT ![x] = b]

LEMMA BlockPut ==
    ASSUME NEW B \in [Handles -> BlockType], OneEach(B), NEW x \in Handles,
           NEW b, b # NoBlock, b \notin BlocksOf(B) \ {B[x]},
           NEW C, C = Put(B, x, b)
    PROVE  BlocksOf(C) = (BlocksOf(B) \ {B[x]}) \cup {b} /\ OneEach(C)
<1>1. C[x] = b /\ \A y \in Handles : y # x => C[y] = B[y]
  BY DEF Put
<1>2. x \in LiveOf(C) /\ \A y \in Handles : y # x => (y \in LiveOf(C) <=> y \in LiveOf(B))
  BY <1>1 DEF LiveOf
<1>3. LiveOf(B) \subseteq Handles /\ LiveOf(C) \subseteq Handles
  BY DEF LiveOf
<1>4. ASSUME NEW y \in LiveOf(B), y # x PROVE C[y] = B[y] /\ B[y] # B[x] /\ y \in LiveOf(C)
  <2>1. C[y] = B[y] /\ y \in LiveOf(C)
    BY <1>1, <1>2, <1>3, <1>4
  <2>2. CASE x \in LiveOf(B)
    BY <1>4, <2>1, <2>2 DEF OneEach
  <2>3. CASE x \notin LiveOf(B)
    BY <2>1, <2>3 DEF LiveOf
  <2> QED BY <2>1, <2>2, <2>3
<1>5. ASSUME NEW y \in LiveOf(C), y # x PROVE y \in LiveOf(B) /\ C[y] = B[y] /\ C[y] # b
  <2>1. y \in LiveOf(B) /\ C[y] = B[y]
    BY <1>1, <1>2, <1>3, <1>5
  <2>2. B[y] \in BlocksOf(B) \ {B[x]}
    BY <1>4, <1>5, <2>1 DEF BlocksOf
  <2> QED BY <2>1, <2>2
<1>6. OneEach(C)
  <2> SUFFICES ASSUME NEW y \in LiveOf(C), NEW z \in LiveOf(C), C[y] = C[z] PROVE y = z
    BY DEF OneEach
  <2>1. CASE y # x /\ z # x
    BY <1>5, <2>1 DEF OneEach
  <2>2. CASE y = x \/ z = x
    BY <1>1, <1>5, <2>2
  <2> QED BY <2>1, <2>2
<1>7. BlocksOf(C) \subseteq (BlocksOf(B) \ {B[x]}) \cup {b}
  <2> SUFFICES ASSUME NEW y \in LiveOf(C) PROVE C[y] \in (BlocksOf(B) \ {B[x]}) \cup {b}
    BY DEF BlocksOf
  <2>1. CASE y = x
    BY <1>1, <2>1
  <2>2. CASE y # x
    BY <1>4, <1>5, <2>2 DEF BlocksOf
  <2> QED BY <2>1, <2>2
<1>8. BlocksOf(B) \ {B[x]} \subseteq BlocksOf(C)
  BY <1>4 DEF BlocksOf
<1>9. b \in BlocksOf(C)
  BY <1>1, <1>2 DEF BlocksOf
<1> QED BY <1>6, <1>7, <1>8, <1>9

\* A handle lets go of its block.
LEMMA BlockDropped ==
    ASSUME NEW B \in [Handles -> BlockType], OneEach(B), NEW x \in LiveOf(B),
           NEW C, C = [B EXCEPT ![x] = NoBlock]
    PROVE  BlocksOf(C) = BlocksOf(B) \ {B[x]} /\ OneEach(C)
<1>1. x \in Handles
  BY DEF LiveOf
<1>2. C[x] = NoBlock /\ \A y \in Handles : y # x => C[y] = B[y]
  BY <1>1
<1>3. LiveOf(C) = LiveOf(B) \ {x} /\ \A y \in LiveOf(C) : C[y] = B[y]
  BY <1>2 DEF LiveOf
<1>4. \A y \in LiveOf(B) : y # x => B[y] # B[x]
  BY DEF OneEach
<1>5. OneEach(C)
  BY <1>3 DEF OneEach
<1> QED BY <1>3, <1>4, <1>5 DEF BlocksOf
-----------------------------------------------------------------------------
(* One step of the kernel. *)

LEMMA BlockLive ==
    ASSUME NEW B \in [Handles -> BlockType], NEW x \in Handles, B[x] # NoBlock
    PROVE  x \in LiveOf(B) /\ B[x] \in BlocksOf(B)
BY DEF LiveOf, BlocksOf

\* The block is in the frame that realloc and the writer find from its address.
LEMMA BlockFrame ==
    ASSUME NEW h \in HeapType, NEW S, Consistent(h, S), NEW b \in S
    PROVE  b.frame \in Places /\ FrameOf(b.ptr) = b.frame /\ b.ptr > 0
<1>1. BlockOK(h, b) /\ Sound(h.bucket[b.frame]) /\ b.frame \in Places
  BY ListType DEF Consistent, BlockOK
<1> QED BY <1>1, SlotAt DEF BlockOK

\* What a step of a call must give, from the heap h and the blocks S to the
\* heap g and the blocks of C.
Kept(h, S, g, C) ==
    /\ Consistent(g, BlocksOf(C)) /\ OneEach(C)
    /\ Covered(h, S) => Covered(g, BlocksOf(C))

LEMMA MallocCallKeeps ==
    ASSUME Served, heap \in HeapType, block \in [Handles -> BlockType],
           ~heap.looped, ~heap'.looped,
           Consistent(heap, BlocksOf(block)), OneEach(block),
           NEW x \in Handles, NEW size \in Sizes, MallocCall(x, size)
    PROVE  Kept(heap, BlocksOf(block), heap', block')
<1> DEFINE S == BlocksOf(block)
<1>1. PICK p \in Powers, f \in Places : \E i \in Slots(p) :
        /\ Malloc(heap, size, p, f, i)
        /\ heap' = Malloced(heap, p, f, i)
        /\ block' = [block EXCEPT ![x] = NewBlock(heap, size, p, f, i)]
  BY DEF MallocCall
<1>2. PICK i \in Slots(p) :
        /\ Malloc(heap, size, p, f, i)
        /\ heap' = Malloced(heap, p, f, i)
        /\ block' = [block EXCEPT ![x] = NewBlock(heap, size, p, f, i)]
  BY <1>1
<1> DEFINE b == NewBlock(heap, size, p, f, i)
<1>3. size \in Requests
  BY DEF Served
<1>4. MallocStep(heap, size, p, f, i, heap', b)
  BY <1>2, <1>3 DEF MallocStep
<1>5. block' = [block EXCEPT ![x] = b] /\ block[x] = NoBlock
  BY <1>2 DEF MallocCall
<1> HIDE DEF b
<1>6. Consistent(heap', S \cup {b}) /\ b \notin S /\ b # NoBlock
  BY <1>4, MallocKeeps
<1>7. BlocksOf(block') = (S \ {block[x]}) \cup {b} /\ OneEach(block')
  <2>1. b \notin S \ {block[x]} /\ b # NoBlock
    BY <1>6
  <2>2. block' = Put(block, x, b)
    BY <1>5 DEF Put
  <2> QED BY <2>1, <2>2, BlockPut
<1>8. NoBlock \notin S
  BY DEF BlocksOf, LiveOf
<1>9. BlocksOf(block') = S \cup {b}
  BY <1>5, <1>7, <1>8
<1>10. ASSUME Covered(heap, S) PROVE Covered(heap', S \cup {b})
  BY <1>3, <1>4, <1>10, MallocCovers
<1> QED BY <1>6, <1>7, <1>9, <1>10 DEF Kept

\* calloc asks malloc for the whole product, if that is served.
LEMMA Product ==
    ASSUME Served, NEW a \in Arrays
    PROVE  /\ (a[1] * a[2]) % ADDR_SPACE = a[1] * a[2] /\ a[1] * a[2] \in Requests
<1> DEFINE n == a[1] * a[2]
<1>1. n \in Requests
  BY DEF Served
<1>2. QUARTER \in Nat \ {0} /\ QUARTER % 4096 = 0
  BY QuarterAssumption DEF FRAME_SIZE
<1>3. QUARTER >= 4096
  BY <1>2
<1> HIDE DEF n
<1>4. n \in 0 .. 2048
  BY <1>1, SMT DEF Requests
<1> DEFINE q == ADDR_SPACE
<1>5. q \in Nat /\ q > 2048
  BY <1>2, <1>3, SMT DEF ADDR_SPACE
<1> HIDE DEF q
<1>6. n % q = n
  BY <1>4, <1>5, SMT
<1> QED BY <1>1, <1>6 DEF n, q

LEMMA CallocCallKeeps ==
    ASSUME Served, heap \in HeapType, block \in [Handles -> BlockType],
           ~heap.looped, ~heap'.looped,
           Consistent(heap, BlocksOf(block)), OneEach(block),
           NEW x \in Handles, NEW a \in Arrays, CallocCall(x, a[1], a[2])
    PROVE  Kept(heap, BlocksOf(block), heap', block')
<1> DEFINE S == BlocksOf(block)
           n == a[1] * a[2]
           result == n % ADDR_SPACE
<1>1. PICK p \in Powers, f \in Places : \E i \in Slots(p) :
        LET b == NewBlock(heap, n, p, f, i) IN
        /\ Malloc(heap, result, p, f, i)
        /\ heap' = Written(Malloced(heap, p, f, i), f, b.ptr, result, FALSE)
        /\ block' = [block EXCEPT ![x] = b]
  BY DEF CallocCall
<1>2. PICK i \in Slots(p) :
        LET b == NewBlock(heap, n, p, f, i) IN
        /\ Malloc(heap, result, p, f, i)
        /\ heap' = Written(Malloced(heap, p, f, i), f, b.ptr, result, FALSE)
        /\ block' = [block EXCEPT ![x] = b]
  BY <1>1
<1>3. result = n /\ n \in Requests
  BY Product
<1> HIDE DEF n, result
<1> DEFINE b == NewBlock(heap, n, p, f, i)
           m == Malloced(heap, p, f, i)
<1>4. Malloc(heap, n, p, f, i) /\ heap' = Written(m, f, b.ptr, n, FALSE)
  BY <1>2, <1>3
<1>5. block' = [block EXCEPT ![x] = b] /\ block[x] = NoBlock
  BY <1>2 DEF CallocCall
<1>6. m \in HeapType /\ m.looped = heap'.looped
  <2>1. i \in Nat /\ WithBucket(heap, p, f) \in HeapType
    BY SlotsType, WithBucketType
  <2>2. m \in HeapType
    BY <2>1, MallocedEffect
  <2> HIDE DEF m, b
  <2>3. heap'.looped = m.looped
    BY <1>4, <2>2 DEF Written, HeapType
  <2> QED BY <2>2, <2>3
<1>7. MallocStep(heap, n, p, f, i, m, b)
  BY <1>3, <1>4, <1>6 DEF MallocStep
<1> HIDE DEF b, m
<1>8. Consistent(m, S \cup {b}) /\ b \notin S /\ b # NoBlock /\ AtSlot(b, f, i)
  BY <1>7, MallocKeeps
<1>9. heap' = Written(m, b.frame, b.ptr, n, FALSE)
  BY <1>4, <1>8 DEF AtSlot
<1>10. Consistent(heap', S \cup {b}) /\ (Covered(m, S \cup {b}) => Covered(heap', S \cup {b}))
  <2> DEFINE T == S \cup {b}
             zeroes == FALSE
  <2>1. b \in T /\ zeroes \in BOOLEAN /\ Consistent(m, T)
        /\ heap' = Written(m, b.frame, b.ptr, n, zeroes)
    BY <1>8, <1>9
  <2> HIDE DEF T, zeroes
  <2>2. Consistent(heap', T) /\ (Covered(m, T) => Covered(heap', T))
    BY <1>6, <2>1, WrittenKeeps
  <2> QED BY <2>2 DEF T
<1>11. BlocksOf(block') = (S \ {block[x]}) \cup {b} /\ OneEach(block')
  <2>1. b \notin S \ {block[x]} /\ b # NoBlock
    BY <1>8
  <2>2. block' = Put(block, x, b)
    BY <1>5 DEF Put
  <2> QED BY <2>1, <2>2, BlockPut
<1>12. NoBlock \notin S
  BY DEF BlocksOf, LiveOf
<1>13. BlocksOf(block') = S \cup {b}
  BY <1>5, <1>11, <1>12
<1>14. ASSUME Covered(heap, S) PROVE Covered(m, S \cup {b})
  BY <1>3, <1>7, <1>14, MallocCovers
<1> QED BY <1>10, <1>11, <1>13, <1>14 DEF Kept

LEMMA FreeCallKeeps ==
    ASSUME heap \in HeapType, block \in [Handles -> BlockType],
           Consistent(heap, BlocksOf(block)), OneEach(block),
           NEW x \in Handles, FreeCall(x)
    PROVE  Kept(heap, BlocksOf(block), heap', block')
<1> DEFINE S == BlocksOf(block)
           b == block[x]
<1>1. heap' = Freed(heap, b.ptr) /\ block' = [block EXCEPT ![x] = NoBlock] /\ b # NoBlock
  BY DEF FreeCall
<1>2. x \in LiveOf(block) /\ b \in S
  BY <1>1, BlockLive
<1>3. BlocksOf(block') = S \ {b} /\ OneEach(block')
  BY <1>1, <1>2, BlockDropped
<1> HIDE DEF b
<1>4. Consistent(heap', S \ {b}) /\ (Covered(heap, S) => Covered(heap', S \ {b}))
  BY <1>1, <1>2, FreedKeeps
<1> QED BY <1>3, <1>4 DEF Kept

LEMMA UserWritesKeeps ==
    ASSUME heap \in HeapType, block \in [Handles -> BlockType],
           Consistent(heap, BlocksOf(block)), OneEach(block),
           NEW x \in Handles, NEW ones \in BOOLEAN, UserWrites(x, ones)
    PROVE  Kept(heap, BlocksOf(block), heap', block')
<1> DEFINE S == BlocksOf(block)
           b == block[x]
<1>1. b # NoBlock /\ block' = block /\ heap' = Written(heap, FrameOf(b.ptr), b.ptr, b.size, ones)
  BY DEF UserWrites
<1>2. b \in S
  BY <1>1, BlockLive
<1> HIDE DEF b, S
<1>3. Consistent(heap, S)
  BY DEF S
<1>4. FrameOf(b.ptr) = b.frame
  BY <1>2, <1>3, BlockFrame
<1>5. heap' = Written(heap, b.frame, b.ptr, b.size, ones)
  BY <1>1, <1>4
<1>6. Consistent(heap', S) /\ (Covered(heap, S) => Covered(heap', S))
  BY <1>2, <1>3, <1>5, WrittenKeeps
<1> QED BY <1>1, <1>6 DEF Kept, S

LEMMA ReallocInPlaceKeeps ==
    ASSUME heap \in HeapType, block \in [Handles -> BlockType],
           Consistent(heap, BlocksOf(block)), OneEach(block),
           NEW x \in Handles, NEW size \in Sizes, ReallocInPlace(x, size)
    PROVE  Kept(heap, BlocksOf(block), heap', block')
<1> DEFINE S == BlocksOf(block)
           old == block[x]
           b == [old EXCEPT !.size = size]
           T == (S \ {old}) \cup {b}
<1>1. /\ old # NoBlock /\ block' = Put(block, x, b) /\ heap' = heap
      /\ size <= heap.bucket[FrameOf(old.ptr)].power
  BY DEF ReallocInPlace, Put
<1>2. old \in S /\ old \in BlockType
  BY <1>1, BlockLive
<1>3. b.ptr = old.ptr /\ b.size = size /\ b.frame = old.frame /\ b.slot = old.slot
  BY <1>2 DEF BlockType
<1> HIDE DEF b, S, old
<1>4. Consistent(heap, S)
  BY DEF S
<1>5. FrameOf(old.ptr) = old.frame /\ old.ptr > 0
  BY <1>2, <1>4, BlockFrame
<1>6. BlockOK(heap, old) /\ \A c \in S : c.frame = old.frame /\ c.slot = old.slot => c = old
  BY <1>2, <1>4 DEF Consistent
<1>7. BlockOK(heap, b)
  BY <1>1, <1>3, <1>5, <1>6 DEF BlockOK
<1>8. b \notin S \ {old}
  BY <1>3, <1>6
<1>9. b # NoBlock
  BY <1>3, <1>5 DEF NoBlock, nullptr
<1>10. BlocksOf(block') = T /\ OneEach(block')
  <2>1. b \notin BlocksOf(block) \ {block[x]}
    BY <1>8 DEF S, old
  <2>2. BlocksOf(block') = (BlocksOf(block) \ {block[x]}) \cup {b} /\ OneEach(block')
    BY <1>1, <1>9, <2>1, BlockPut
  <2> QED BY <2>2 DEF S, old
<1>11. Consistent(heap, T)
  <2>1. \A c \in T : BlockOK(heap, c)
    BY <1>4, <1>7 DEF Consistent
  <2>2. ASSUME NEW c \in T, NEW d \in T, c.frame = d.frame, c.slot = d.slot PROVE c = d
    <3>1. CASE c = b /\ d # b
      BY <1>3, <1>6, <2>2, <3>1
    <3>2. CASE d = b /\ c # b
      BY <1>3, <1>6, <2>2, <3>2
    <3>3. CASE c # b /\ d # b
      BY <1>4, <2>2, <3>3 DEF Consistent
    <3> QED BY <3>1, <3>2, <3>3
  <2> QED BY <1>4, <2>1, <2>2 DEF Consistent
<1>12. ASSUME Covered(heap, S) PROVE Covered(heap, T)
  <2> SUFFICES ASSUME NEW f \in Wide(heap) PROVE CoveredAt(heap, T, f)
    BY DEF Covered
  <2>1. CoveredAt(heap, S, f)
    BY <1>12 DEF Covered
  <2>2. ASSUME NEW i, NEW c \in S, c.frame = f, c.slot = i
        PROVE  \E d \in T : d.frame = f /\ d.slot = i
    BY <1>3, <2>2
  <2> QED BY <2>1, <2>2 DEF CoveredAt
<1> QED BY <1>1, <1>10, <1>11, <1>12 DEF Kept, S

\* free never touches the mark of a list that loops.
LEMMA FreedLooped ==
    ASSUME NEW h \in HeapType, NEW ptr
    PROVE  Freed(h, ptr).looped = h.looped
BY DEF Freed, remove_bucket, HeapType

LEMMA ReallocMoveKeeps ==
    ASSUME Served, heap \in HeapType, block \in [Handles -> BlockType],
           ~heap.looped, ~heap'.looped,
           Consistent(heap, BlocksOf(block)), OneEach(block),
           NEW x \in Handles, NEW size \in Sizes, NEW ones \in BOOLEAN,
           ReallocMove(x, size, ones)
    PROVE  Kept(heap, BlocksOf(block), heap', block')
<1> DEFINE S == BlocksOf(block)
           old == block[x]
           n == heap.bucket[FrameOf(old.ptr)].power
<1>1. PICK p \in Powers, f \in Places : \E i \in Slots(p) :
        LET b == NewBlock(heap, size, p, f, i)
            copied == Written(Malloced(heap, p, f, i), f, b.ptr, n, ones)
        IN
        /\ Malloc(heap, size, p, f, i)
        /\ heap' = Freed(copied, old.ptr)
        /\ block' = [block EXCEPT ![x] = b]
  BY DEF ReallocMove
<1>2. PICK i \in Slots(p) :
        LET b == NewBlock(heap, size, p, f, i)
            copied == Written(Malloced(heap, p, f, i), f, b.ptr, n, ones)
        IN
        /\ Malloc(heap, size, p, f, i)
        /\ heap' = Freed(copied, old.ptr)
        /\ block' = [block EXCEPT ![x] = b]
  BY <1>1
<1> HIDE DEF n
<1> DEFINE b == NewBlock(heap, size, p, f, i)
           m == Malloced(heap, p, f, i)
           copied == Written(m, f, b.ptr, n, ones)
           T == S \cup {b}
<1>3. Malloc(heap, size, p, f, i) /\ heap' = Freed(copied, old.ptr)
  BY <1>2
<1>4. block' = Put(block, x, b) /\ old # NoBlock
  BY <1>2 DEF ReallocMove, Put
<1>5. size \in Requests
  BY DEF Served
<1>6. m \in HeapType
  <2>1. i \in Nat /\ WithBucket(heap, p, f) \in HeapType
    BY SlotsType, WithBucketType
  <2> QED BY <2>1, MallocedEffect
<1>7. m.looped = heap'.looped
  <2> HIDE DEF m, b, old
  <2>1. copied \in HeapType
    BY <1>6, WrittenType
  <2>2. copied.looped = m.looped
    BY <1>6 DEF Written, HeapType
  <2> HIDE DEF copied
  <2>3. heap'.looped = copied.looped
    BY <1>3, <2>1, FreedLooped
  <2> QED BY <2>2, <2>3
<1>8. MallocStep(heap, size, p, f, i, m, b)
  BY <1>3, <1>5, <1>6, <1>7 DEF MallocStep
<1>9. old \in S
  BY <1>4, BlockLive
<1> HIDE DEF b, m, old, S
<1>10. Consistent(heap, S)
  BY DEF S
<1>11. Consistent(m, T) /\ b \notin S /\ b # NoBlock /\ AtSlot(b, f, i)
  BY <1>8, <1>10, MallocKeeps
<1> HIDE DEF copied, T
<1>12. copied = Written(m, b.frame, b.ptr, n, ones) /\ b \in T /\ old \in T
  BY <1>9, <1>11 DEF AtSlot, copied, T
<1>13. copied \in HeapType /\ Consistent(copied, T) /\ (Covered(m, T) => Covered(copied, T))
  BY <1>6, <1>11, <1>12, WrittenKeeps
<1>14. Consistent(heap', T \ {old}) /\ (Covered(copied, T) => Covered(heap', T \ {old}))
  BY <1>3, <1>12, <1>13, FreedKeeps
<1>15. BlocksOf(block') = (S \ {old}) \cup {b} /\ OneEach(block')
  <2>1. b \notin BlocksOf(block) \ {block[x]}
    BY <1>11 DEF S
  <2>2. BlocksOf(block') = (BlocksOf(block) \ {block[x]}) \cup {b} /\ OneEach(block')
    BY <1>4, <1>11, <2>1, BlockPut
  <2> QED BY <2>2 DEF S, old
<1>16. BlocksOf(block') = T \ {old}
  BY <1>9, <1>11, <1>15 DEF T
<1>17. ASSUME Covered(heap, S) PROVE Covered(m, T)
  BY <1>5, <1>8, <1>10, <1>17, MallocCovers DEF T
<1> QED BY <1>13, <1>14, <1>15, <1>16, <1>17 DEF Kept, S

\* The invariant is inductive, for requests of 17 to 2048 bytes.
LEMMA NextKeeps ==
    ASSUME Served, TypeOK, LayoutInv, [Next]_vars
    PROVE  LayoutInv' /\ (CoverInv => CoverInv')
<1>1. heap \in HeapType /\ block \in [Handles -> BlockType]
  BY DEF TypeOK, HeapType
<1>2. CASE UNCHANGED vars
  BY <1>2 DEF vars, LayoutInv, CoverInv
<1>3. CASE Next /\ ~heap'.looped
  <2>1. PICK x \in Handles :
        \/ \E size \in Sizes : MallocCall(x, size)
        \/ \E a \in Arrays : CallocCall(x, a[1], a[2])
        \/ FreeCall(x)
        \/ \E size \in Sizes : ReallocInPlace(x, size)
        \/ \E size \in Sizes, ones \in BOOLEAN : ReallocMove(x, size, ones)
        \/ \E ones \in BOOLEAN : UserWrites(x, ones)
    BY <1>3 DEF Next
  <2>2. ~heap.looped
    BY <2>1 DEF MallocCall, CallocCall, FreeCall, ReallocInPlace, ReallocMove, UserWrites
  <2>3. Consistent(heap, BlocksOf(block)) /\ OneEach(block)
    BY <2>2 DEF LayoutInv
  <2>4. ASSUME NEW size \in Sizes, MallocCall(x, size)
        PROVE  Kept(heap, BlocksOf(block), heap', block')
    BY <1>1, <1>3, <2>2, <2>3, <2>4, MallocCallKeeps
  <2>5. ASSUME NEW a \in Arrays, CallocCall(x, a[1], a[2])
        PROVE  Kept(heap, BlocksOf(block), heap', block')
    BY <1>1, <1>3, <2>2, <2>3, <2>5, CallocCallKeeps
  <2>6. ASSUME FreeCall(x)
        PROVE  Kept(heap, BlocksOf(block), heap', block')
    BY <1>1, <2>3, <2>6, FreeCallKeeps
  <2>7. ASSUME NEW size \in Sizes, ReallocInPlace(x, size)
        PROVE  Kept(heap, BlocksOf(block), heap', block')
    BY <1>1, <2>3, <2>7, ReallocInPlaceKeeps
  <2>8. ASSUME NEW size \in Sizes, NEW ones \in BOOLEAN, ReallocMove(x, size, ones)
        PROVE  Kept(heap, BlocksOf(block), heap', block')
    BY <1>1, <1>3, <2>2, <2>3, <2>8, ReallocMoveKeeps
  <2>9. ASSUME NEW ones \in BOOLEAN, UserWrites(x, ones)
        PROVE  Kept(heap, BlocksOf(block), heap', block')
    BY <1>1, <2>3, <2>9, UserWritesKeeps
  <2>10. Kept(heap, BlocksOf(block), heap', block')
    BY <2>1, <2>4, <2>5, <2>6, <2>7, <2>8, <2>9
  <2> QED BY <2>2, <2>10 DEF Kept, LayoutInv, CoverInv
<1>4. CASE heap'.looped
  BY <1>4 DEF LayoutInv, CoverInv
<1> QED BY <1>2, <1>3, <1>4

LEMMA InitLayout == Init => LayoutInv /\ CoverInv
<1> SUFFICES ASSUME Init PROVE LayoutInv /\ CoverInv
  OBVIOUS
<1>1. heap.list = <<>> /\ heap.held = {} /\ \A x \in Handles : block[x] = NoBlock
  BY DEF Init
<1>2. LiveOf(block) = {} /\ BlocksOf(block) = {}
  BY <1>1 DEF LiveOf, BlocksOf
<1>3. DOMAIN heap.list = {} /\ Range(heap.list) = {}
  BY <1>1 DEF Range
<1> QED BY <1>1, <1>2, <1>3 DEF LayoutInv, CoverInv, Consistent, Covered, Wide, OneEach

\* Two slots of one bucket, or slots of two buckets, share no byte.
LEMMA SlotsApart ==
    ASSUME heap \in HeapType, NEW S, Consistent(heap, S), NEW b \in S, NEW c \in S, b # c
    PROVE  LastByte(b) < c.ptr \/ LastByte(c) < b.ptr
<1> DEFINE At(d) == /\ d.frame \in Places /\ BlockOK(heap, d) /\ Sound(heap.bucket[d.frame])
<1>1. At(b) /\ At(c)
  BY ListType DEF Consistent, BlockOK
<1> DEFINE f == b.frame
           g == c.frame
           u == b.ptr
           v == c.ptr
           p == heap.bucket[f].power
           q == heap.bucket[g].power
<1>2. /\ u \in Nat /\ u >= BucketAt(f) /\ u + p - 1 < BucketAt(f) + FRAME_SIZE
      /\ u = FirstSlot(f, heap.bucket[f].bm.size) + b.slot * p
  BY <1>1, SlotAt DEF BlockOK
<1>3. /\ v \in Nat /\ v >= BucketAt(g) /\ v + q - 1 < BucketAt(g) + FRAME_SIZE
      /\ v = FirstSlot(g, heap.bucket[g].bm.size) + c.slot * q
  BY <1>1, SlotAt DEF BlockOK
<1>4. p \in Nat /\ q \in Nat
  BY <1>1, NewBucket DEF Sound
<1>5. LastByte(b) = u + p - 1 /\ LastByte(c) = v + q - 1
  BY DEF LastByte
<1>6. CASE f = g
  <2> DEFINE n == heap.bucket[f].bm.size
             i == b.slot
             j == c.slot
             first == FirstSlot(f, n)
  <2>1. p \in SlotSizes /\ n = SlotCount(p) /\ n \in 1 .. 16 /\ i \in 0 .. (n - 1) /\ j \in 0 .. (n - 1)
    BY <1>1, <1>6, NewBucket DEF Sound, BlockOK
  <2>2. i # j
    BY <1>6 DEF Consistent
  <2>3. first \in Nat
    BY <1>1, <2>1, FirstSlotAt
  <2>4. u = first + i * p /\ v = first + j * p /\ q = p
    BY <1>2, <1>3, <1>6
  <2> HIDE DEF n, i, j, first, p, q, u, v
  <2>5. /\ i * p \in Nat /\ j * p \in Nat
        /\ i < j => i * p + p <= j * p
        /\ j < i => j * p + p <= i * p
    BY <2>1, SlotBounds
  <2>6. i < j \/ j < i
    BY <2>1, <2>2
  <2> DEFINE d == i * p
             e == j * p
  <2>7. d \in Nat /\ e \in Nat /\ (d + p <= e \/ e + p <= d) /\ u = first + d /\ v = first + e
    BY <2>4, <2>5, <2>6
  <2> HIDE DEF d, e
  <2>8. u + p - 1 < v \/ v + q - 1 < u
    BY <1>4, <2>3, <2>4, <2>7
  <2> QED BY <1>5, <2>8 DEF u, v
<1>7. CASE f # g
  <2>1. /\ f \in Nat /\ g \in Nat /\ QUARTER \div 4096 \in Nat
        /\ BucketAt(f) = 4096 * (3 * (QUARTER \div 4096) + f)
        /\ BucketAt(g) = 4096 * (3 * (QUARTER \div 4096) + g)
    <3>1. QUARTER \div 4096 \in Nat
      BY QuarterAssumption DEF FRAME_SIZE
    <3> QED BY <1>1, <3>1, Place DEF PageNumber
  <2>2. u + p - 1 < BucketAt(f) + 4096 /\ v + q - 1 < BucketAt(g) + 4096
    BY <1>2, <1>3 DEF FRAME_SIZE
  <2> HIDE DEF f, g, p, q, u, v
  <2> DEFINE k == QUARTER \div 4096
  <2>3. k \in Nat /\ BucketAt(f) = 4096 * (3 * k + f) /\ BucketAt(g) = 4096 * (3 * k + g)
    BY <2>1
  <2> HIDE DEF k
  <2>4. BucketAt(f) + 4096 <= BucketAt(g) \/ BucketAt(g) + 4096 <= BucketAt(f)
    BY <1>7, <2>1, <2>3
  <2>5. BucketAt(f) \in Nat /\ BucketAt(g) \in Nat
    BY <2>1, <2>3
  <2>6. u + p - 1 < v \/ v + q - 1 < u
    <3> DEFINE s == BucketAt(f)
               r == BucketAt(g)
    <3>1. /\ s \in Nat /\ r \in Nat /\ u \in Nat /\ v \in Nat /\ p \in Nat /\ q \in Nat
          /\ s + 4096 <= r \/ r + 4096 <= s
          /\ u >= s /\ v >= r /\ u + p - 1 < s + 4096 /\ v + q - 1 < r + 4096
      BY <1>2, <1>3, <1>4, <2>2, <2>4, <2>5
    <3> HIDE DEF s, r
    <3> QED BY <3>1
  <2> QED BY <1>5, <2>6 DEF u, v
<1> QED BY <1>6, <1>7

LEMMA LayoutGives ==
    ASSUME TypeOK, LayoutInv
    PROVE  BlocksDisjoint /\ BlocksBacked /\ FramesConserved
<1>1. CASE heap.looped
  BY <1>1 DEF BlocksDisjoint, BlocksBacked, FramesConserved
<1>2. CASE ~heap.looped
  <2> DEFINE S == BlocksOf(block)
  <2>1. heap \in HeapType /\ block \in [Handles -> BlockType]
    BY DEF TypeOK, HeapType
  <2>2. Consistent(heap, S) /\ OneEach(block)
    BY <1>2 DEF LayoutInv
  <2>3. Live = LiveOf(block) /\ \A x \in Live : block[x] \in S
    BY DEF Live, LiveOf, BlocksOf
  <2> HIDE DEF S
  <2>4. BlocksDisjoint
    <3> SUFFICES ASSUME NEW x \in Live, NEW y \in Live, x # y
                 PROVE  LastByte(block[x]) < block[y].ptr \/ LastByte(block[y]) < block[x].ptr
      BY DEF BlocksDisjoint
    <3>1. block[x] # block[y] /\ block[x] \in S /\ block[y] \in S
      BY <2>2, <2>3 DEF OneEach
    <3> QED BY <2>1, <2>2, <3>1, SlotsApart
  <2>5. BlocksBacked
    <3> SUFFICES ASSUME NEW x \in Live
                 PROVE  LET b == block[x] IN
                        /\ b.frame \in Range(heap.list)
                        /\ b.size <= heap.bucket[b.frame].power
                        /\ b.ptr >= bm_ptr(b.frame) + (heap.bucket[b.frame].bm.size + 7) \div 8
                        /\ LastByte(b) < BucketAt(b.frame) + FRAME_SIZE
      BY DEF BlocksBacked
    <3> DEFINE b == block[x]
    <3>1. b \in S
      BY <2>3
    <3> HIDE DEF b
    <3>2. BlockOK(heap, b) /\ b.frame \in Places /\ Sound(heap.bucket[b.frame])
      BY <2>1, <2>2, <3>1, ListType DEF Consistent, BlockOK
    <3>3. /\ b.ptr >= bm_ptr(b.frame) + (heap.bucket[b.frame].bm.size + 7) \div 8
          /\ b.ptr + heap.bucket[b.frame].power - 1 < BucketAt(b.frame) + FRAME_SIZE
      BY <3>2, SlotAt DEF BlockOK
    <3>4. LastByte(b) < BucketAt(b.frame) + FRAME_SIZE
      BY <3>3 DEF LastByte
    <3> QED BY <3>2, <3>3, <3>4 DEF BlockOK, b
  <2>6. FramesConserved
    BY <2>2 DEF FramesConserved, Consistent
  <2> QED BY <2>4, <2>5, <2>6
<1> QED BY <1>1, <1>2

\* The inductive invariant holds in every state.
LEMMA LayoutAlways ==
    ASSUME Served PROVE Spec => [](TypeOK /\ LayoutInv)
<1>1. Init => TypeOK /\ LayoutInv
  BY InitTypeOK, InitLayout
<1>2. TypeOK /\ LayoutInv /\ [Next]_vars => TypeOK' /\ LayoutInv'
  BY NextTypeOK, NextKeeps
<1> QED BY <1>1, <1>2, PTL DEF Spec

\* malloc, calloc, realloc and free never give one byte to two holders, as
\* long as the requests fit slots of 32 to 2048 bytes.
THEOREM BlocksDisjointHolds ==
    ASSUME Served PROVE Spec => []BlocksDisjoint
<1>1. Spec => [](TypeOK /\ LayoutInv)
  BY LayoutAlways
<1>2. TypeOK /\ LayoutInv => BlocksDisjoint
  BY LayoutGives
<1> QED BY <1>1, <1>2, PTL

\* A block that malloc, calloc or realloc returned has the size asked for, in
\* the frame of a bucket on the list and off the bits malloc searches, under the
\* same condition.
THEOREM BlocksBackedHolds ==
    ASSUME Served PROVE Spec => []BlocksBacked
<1>1. Spec => [](TypeOK /\ LayoutInv)
  BY LayoutAlways
<1>2. TypeOK /\ LayoutInv => BlocksBacked
  BY LayoutGives
<1> QED BY <1>1, <1>2, PTL

\* The frames allocate_bucket took and remove_bucket did not give back are the
\* buckets on the list, each once, under the same condition.
THEOREM FramesConservedHolds ==
    ASSUME Served PROVE Spec => []FramesConserved
<1>1. Spec => [](TypeOK /\ LayoutInv)
  BY LayoutAlways
<1>2. TypeOK /\ LayoutInv => FramesConserved
  BY LayoutGives
<1> QED BY <1>1, <1>2, PTL

LEMMA CoverGives ==
    ASSUME TypeOK, CoverInv
    PROVE  NoIdleBucket
<1> SUFFICES ASSUME ~heap.looped, NEW f \in Range(heap.list), heap.bucket[f].power >= 128
             PROVE  \E x \in Live : block[x].frame = f
  BY DEF NoIdleBucket
<1>1. CoveredAt(heap, BlocksOf(block), f)
  BY DEF CoverInv, Covered, Wide
<1>2. PICK b \in BlocksOf(block) : b.frame = f
  BY <1>1 DEF CoveredAt
<1> QED BY <1>2 DEF BlocksOf, LiveOf, Live

\* free gives a bucket of slots of 128 bytes and more back with its last block:
\* none stays on the list without one, under the same condition.
THEOREM NoIdleBucketHolds ==
    ASSUME Served PROVE Spec => []NoIdleBucket
<1>2. Init => TypeOK /\ LayoutInv /\ CoverInv
  BY InitTypeOK, InitLayout
<1>3. TypeOK /\ LayoutInv /\ CoverInv /\ [Next]_vars => TypeOK' /\ LayoutInv' /\ CoverInv'
  BY NextTypeOK, NextKeeps
<1>4. TypeOK /\ CoverInv => NoIdleBucket
  BY CoverGives
<1> QED BY <1>2, <1>3, <1>4, PTL DEF Spec
=============================================================================
