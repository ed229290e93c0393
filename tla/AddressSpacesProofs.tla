------------------------ MODULE AddressSpacesProofs -------------------------
(***************************************************************************)
(* Proofs about AddressSpaces, for every size of the tables, layout of the *)
(* memory and set of initrds.                                              *)
(***************************************************************************)
EXTENDS AddressSpaces, FiniteSetTheorems, SequenceTheorems, TLAPS

\* The first directory entry of the higher half.
Half == HIGHER_HALF \div ENTRIES
-----------------------------------------------------------------------------
(* The inductive invariant. *)

\* Entry i of the page in frame f.
Entry(m, f, i) == m[f].page[i]

\* The frames are handed out from the lowest on, without a gap.
Gapless == \A f \in used : \A g \in Low : g < f => g \in used

\* The kernel's directory: nothing below the higher half, then the boot table,
\* which maps all that can be allocated, then tables that map_page allocated.
KernelTables ==
    /\ \A i \in Index : i < Half => ~present(Entry(mem, KernelPd, i))
    /\ Entry(mem, KernelPd, Half) = PageEntry(KernelPd + 1, 3)
    /\ \A i \in Index : i > Half /\ present(Entry(mem, KernelPd, i)) =>
            Entry(mem, KernelPd, i).frame \in used /\ owner[Entry(mem, KernelPd, i).frame] = Kernel
    /\ \A f \in Low : Entry(mem, KernelPd + 1, f) = PageEntry(f, 3)

\* t is one of the tables that d has below the higher half.
UserTable(t, d) ==
    \E i \in Index : i < Half /\ present(Entry(mem, d, i)) /\ Entry(mem, d, i).frame = t

\* Frame f was allocated for who, as memory for the program.
UserFrame(f, d, who) ==
    f \in used /\ owner[f] = who /\ f # d /\ ~UserTable(f, d)

SharesHalf(d) == \A i \in Index : i >= Half => Entry(mem, d, i) = Entry(mem, KernelPd, i)

\* Directory d and all it reaches below the higher half was allocated for who.
Space(d, who) ==
    /\ d \in used /\ owner[d] = who
    /\ SharesHalf(d)
    /\ \A t \in Frames : UserTable(t, d) =>
        /\ t \in used /\ owner[t] = who /\ t # d
        /\ \A j \in Index : present(Entry(mem, t, j)) =>
                UserFrame(Entry(mem, t, j).frame, d, who)

Spaces == \A i \in DOMAIN procs : Space(procs[i].pd, Owner(i))

\* Before the first process the boot thread works on the kernel's directory.
Booting ==
    pc \in {"map_initrd", "map_initrd_2", "parse_tar", "parse_size", "parse_copy"} => procs = <<>>

\* While create_process runs.
Making == {"allocate_stack", "allocate_kernel", "map_stack", "map_above", "enter",
           "segment", "map_segment", "memcpy", "leave", "calloc"}

Calling == pc \in Making => todo # <<>> /\ Space(new.pd, Me)

\* The stack's frame is the last one handed out until the next one is.
StackFrames ==
    /\ pc = "allocate_kernel" => \A f \in used : f <= new.stack
    /\ pc \in {"allocate_kernel", "map_stack", "map_above"} =>
            UserFrame(new.stack, new.pd, Me)
    /\ pc \in {"map_stack", "map_above"} => UserFrame(new.stack + 1, new.pd, Me)

SegmentFrame ==
    /\ new.segment # 0
    /\ pc = "map_segment" => UserFrame(new.phys, new.pd, Me)
    /\ pc \in {"map_segment", "memcpy"} =>
            new.segment \in DOMAIN Head(todo).segments /\ Segment.load

\* The directory in use.
Cr3 ==
    /\ SharesHalf(cr3)
    /\ pc \in {"segment", "map_segment", "memcpy", "leave"} => cr3 = new.pd
    /\ pc \notin {"segment", "map_segment", "memcpy", "leave", "fault", "null"} =>
            cr3 = KernelPd

\* The invariant, until a segment is put into the kernel's half.
IInv ==
    /\ TypeOK
    /\ Gapless
    /\ KernelTables
    /\ Spaces
    /\ Booting
    /\ Calling
    /\ StackFrames
    /\ SegmentFrame
    /\ Cr3

\* And after it.
HalfInv ==
    /\ TypeOK
    /\ IF pc = "kernel_half" THEN ~BelowKernel(Head(todo)) ELSE IInv
-----------------------------------------------------------------------------
(* Page numbers. *)

LEMMA Division ==
    ASSUME NEW a \in Nat, NEW b \in Nat \ {0}
    PROVE  /\ a \div b \in Nat /\ a % b \in 0 .. (b - 1)
           /\ a = b * (a \div b) + (a % b)
BY Z3

\* Quotient and remainder are unique.
LEMMA DivisionUnique ==
    ASSUME NEW a \in Nat, NEW b \in Nat \ {0}, NEW q \in Nat, NEW r \in 0 .. (b - 1),
           a = b * q + r
    PROVE  a \div b = q /\ a % b = r
<1> DEFINE p == a \div b
           s == a % b
<1>1. p \in Nat /\ s \in 0 .. (b - 1) /\ a = b * p + s
  BY Division
<1> SUFFICES p = q /\ s = r
  OBVIOUS
<1> HIDE DEF p, s
<1>2. b * (p - q) = r - s /\ b * (q - p) = s - r
  BY <1>1
<1>3. ~ (p - q >= 1)
  <2> SUFFICES ASSUME p - q >= 1 PROVE FALSE
    OBVIOUS
  <2>1. b * (p - q) >= b * 1
    BY <1>1
  <2> QED BY <1>1, <1>2, <2>1
<1>4. ~ (q - p >= 1)
  <2> SUFFICES ASSUME q - p >= 1 PROVE FALSE
    OBVIOUS
  <2>1. b * (q - p) >= b * 1
    BY <1>1
  <2> QED BY <1>1, <1>2, <2>1
<1> QED BY <1>1, <1>3, <1>4

LEMMA HalfValue ==
    /\ ENTRIES \div 4 \in Nat \ {0} /\ ENTRIES = 4 * (ENTRIES \div 4)
    /\ Half = 3 * (ENTRIES \div 4) /\ HIGHER_HALF = ENTRIES * Half
    /\ Half \in Index /\ HIGHER_HALF \in Nat
<1> DEFINE q == ENTRIES \div 4
<1>1. q \in Nat \ {0} /\ ENTRIES = 4 * q /\ ENTRIES \in Nat \ {0}
  BY EntriesAssumption
<1>2. HIGHER_HALF = (3 * q) * ENTRIES
  BY DEF HIGHER_HALF
<1> HIDE DEF q
<1>3. HIGHER_HALF \in Nat /\ HIGHER_HALF = ENTRIES * (3 * q) + 0 /\ 3 * q \in Nat
  BY <1>1, <1>2
<1>4. 0 \in 0 .. (ENTRIES - 1)
  BY <1>1
<1>5. HIGHER_HALF \div ENTRIES = 3 * q
  BY <1>1, <1>3, <1>4, DivisionUnique
<1>6. Half = 3 * q
  BY <1>5 DEF Half
<1>7. Half \in Index
  BY <1>1, <1>6 DEF Index
<1> QED BY <1>1, <1>3, <1>6, <1>7 DEF q

\* A page below the higher half has its entry below Half.
LEMMA UserPage ==
    ASSUME NEW v \in UserPages
    PROVE  /\ v \div ENTRIES \in Index /\ v \div ENTRIES < Half
           /\ pd_idx(v) = v \div ENTRIES /\ v % ENTRIES \in Index
<1> DEFINE i == v \div ENTRIES
<1>1. ENTRIES \in Nat \ {0} /\ v \in Nat /\ v < ENTRIES * Half /\ Half \in Nat
      /\ Half < ENTRIES
  BY EntriesAssumption, HalfValue DEF UserPages, Index
<1>2. i \in Nat /\ v % ENTRIES \in 0 .. (ENTRIES - 1) /\ v = ENTRIES * i + (v % ENTRIES)
  BY <1>1, Division
<1>3. pd_idx(v) = i % ENTRIES
  BY DEF pd_idx
<1> HIDE DEF i
<1>4. i < Half
  <2> SUFFICES ASSUME i >= Half PROVE FALSE
    BY <1>1, <1>2
  <2>1. ENTRIES * i >= ENTRIES * Half
    BY <1>1, <1>2
  <2> QED BY <1>1, <1>2, <2>1
<1>5. i \in 0 .. (ENTRIES - 1) /\ i = ENTRIES * 0 + i
  BY <1>1, <1>2, <1>4
<1>6. i % ENTRIES = i
  BY <1>1, <1>2, <1>5, DivisionUnique
<1> QED BY <1>2, <1>3, <1>4, <1>5, <1>6 DEF i, Index

\* P2V of a frame is in the higher half, and that of different frames is in
\* different places.
LEMMA KernelPage ==
    ASSUME NEW f \in Nat, f < ENTRIES * (ENTRIES \div 4)
    PROVE  /\ P2VPage(f) \in Nat
           /\ P2VPage(f) \div ENTRIES = Half + f \div ENTRIES
           /\ P2VPage(f) \div ENTRIES \in Index /\ P2VPage(f) \div ENTRIES >= Half
           /\ P2VPage(f) % ENTRIES = f % ENTRIES /\ f % ENTRIES \in Index
           /\ pd_idx(P2VPage(f)) = P2VPage(f) \div ENTRIES
<1> DEFINE q == ENTRIES \div 4
           i == f \div ENTRIES
           r == f % ENTRIES
<1>1. /\ ENTRIES \in Nat \ {0} /\ q \in Nat \ {0} /\ ENTRIES = 4 * q
      /\ Half = 3 * q /\ Half \in Nat
  BY EntriesAssumption, HalfValue
<1>2. i \in Nat /\ r \in 0 .. (ENTRIES - 1) /\ f = ENTRIES * i + r
  BY <1>1, Division
<1>3. P2VPage(f) = ENTRIES * Half + f
  BY HalfValue DEF P2VPage
<1>30. f < ENTRIES * q
  OBVIOUS
<1> HIDE DEF q, i, r
<1> DEFINE h == Half + i
<1>4. P2VPage(f) \in Nat /\ P2VPage(f) = ENTRIES * h + r /\ h \in Nat
  BY <1>1, <1>2, <1>3
<1>5. i < q
  <2> SUFFICES ASSUME i >= q PROVE FALSE
    BY <1>1, <1>2
  <2>1. ENTRIES * i >= ENTRIES * q
    BY <1>1, <1>2
  <2> QED BY <1>1, <1>2, <1>30, <2>1
<1>6. h \in 0 .. (ENTRIES - 1) /\ h >= Half /\ h = ENTRIES * 0 + h
  BY <1>1, <1>2, <1>5
<1> HIDE DEF h
<1>7. P2VPage(f) \div ENTRIES = h /\ P2VPage(f) % ENTRIES = r
  <2> DEFINE v == P2VPage(f)
  <2>1. v \in Nat /\ v = ENTRIES * h + r
    BY <1>4
  <2> HIDE DEF v
  <2>2. v \div ENTRIES = h /\ v % ENTRIES = r
    BY <1>1, <1>2, <1>4, <2>1, DivisionUnique
  <2> QED BY <2>2 DEF v
<1>8. h % ENTRIES = h
  BY <1>1, <1>4, <1>6, DivisionUnique
<1>9. pd_idx(P2VPage(f)) = P2VPage(f) \div ENTRIES
  BY <1>7, <1>8 DEF pd_idx
<1> QED BY <1>2, <1>4, <1>6, <1>7, <1>9 DEF h, i, r, Index

\* The frames of one table.
LEMMA SmallFrame ==
    ASSUME NEW f \in Nat, f < ENTRIES
    PROVE  f \div ENTRIES = 0 /\ f % ENTRIES = f
<1>1. f \in 0 .. (ENTRIES - 1) /\ f = ENTRIES * 0 + f /\ ENTRIES \in Nat \ {0}
  BY EntriesAssumption
<1> QED BY <1>1, DivisionUnique

\* Where things are in memory.
LEMMA Layout ==
    /\ Low \subseteq Frames /\ \A f \in Low : f \in Nat /\ f < ENTRIES /\ f + 1 \in Frames
    /\ KernelPd \in Frames \ Low /\ KernelPd + 1 \in Frames \ Low /\ KernelPd # KernelPd + 1
    /\ InitrdFrame \in Frames /\ InitrdFrame + 1 \in Frames
    /\ \A f \in Low : f < InitrdFrame
    /\ \A f \in Frames : f \in Nat /\ f < ENTRIES * (ENTRIES \div 4)
    /\ ENTRIES - 1 \in Nat /\ ENTRIES - 1 < ENTRIES * (ENTRIES \div 4)
<1> DEFINE q == ENTRIES * (ENTRIES \div 4)
<1>1. ENTRIES \in Nat \ {0} /\ ENTRIES \div 4 \in Nat \ {0} /\ q \in Nat
  BY EntriesAssumption, HalfValue
<1>2. /\ LowFrames \in Nat \ {0} /\ VgaFrame \in Nat /\ KernelPd \in Nat /\ KernelLast \in Nat
      /\ InitrdFrame \in Nat /\ LastFrame \in Nat
      /\ LowFrames < VgaFrame /\ VgaFrame < KernelPd
      /\ KernelPd + 1 < KernelLast /\ KernelLast < ENTRIES - 1
      /\ KernelLast < InitrdFrame /\ InitrdFrame < LastFrame /\ LastFrame < q
  BY AddressSpacesAssumption
<1>3. ENTRIES - 1 < q
  <2>1. ENTRIES * 1 <= q
    BY <1>1
  <2> HIDE DEF q
  <2> QED BY <1>1, <2>1
<1> HIDE DEF q
<1>4. Low \subseteq Frames /\ \A f \in Low : f \in Nat /\ f < ENTRIES /\ f + 1 \in Frames
  BY <1>1, <1>2 DEF Low, Frames
<1>5. KernelPd \in Frames \ Low /\ KernelPd + 1 \in Frames \ Low
      /\ InitrdFrame \in Frames /\ InitrdFrame + 1 \in Frames
      /\ KernelPd # KernelPd + 1 /\ \A f \in Low : f < InitrdFrame
  BY <1>1, <1>2 DEF Low, Frames
<1>6. \A f \in Frames : f \in Nat /\ f < q
  BY <1>1, <1>2 DEF Frames
<1>7. ENTRIES - 1 \in Nat
  BY <1>1
<1> QED BY <1>3, <1>4, <1>5, <1>6, <1>7 DEF q
-----------------------------------------------------------------------------
(* What map_page does to memory. *)

MemType == [Frames -> [page : PageType, data : Seq(Nat)]]

LEMMA Entries ==
    ASSUME NEW f \in Frames, NEW flags \in Flags
    PROVE  /\ PageEntry(f, flags) \in [frame : Frames, flags : Flags]
           /\ PageEntry(f, flags).frame = f /\ PageEntry(f, flags).flags = flags
BY DEF PageEntry

LEMMA ZeroPageEmpty == ZeroPage \in PageType /\ ~present(Absent)
<1>1. 0 \in Frames /\ 0 \in Flags
  BY AddressSpacesAssumption DEF Frames, Flags
<1> QED BY <1>1, Entries DEF ZeroPage, PageType, Absent, present, PageEntry

\* The table that map_page writes to.
TableOf(m, dir, v) == Entry(m, dir, pd_idx(v)).frame

SamePage(m, n, f) == \A k \in Index : Entry(n, f, k) = Entry(m, f, k)

LEMMA WithPageBoth ==
    ASSUME NEW m \in MemType, NEW dir \in Frames, NEW phys \in Frames, NEW flags \in Flags,
           NEW v, pd_idx(v) \in Index, pt_idx(v) \in Index
    PROVE  LET t == TableOf(m, dir, v)
               w == WithPage(m, dir, phys, v, flags)
           IN  /\ t \in Frames /\ w \in MemType
               /\ \A k \in Index : Entry(w, t, k) = IF k = pt_idx(v) THEN PageEntry(phys, flags)
                                                ELSE Entry(m, t, k)
               /\ \A g \in Frames : g # t => SamePage(m, w, g)
<1> DEFINE t == TableOf(m, dir, v)
           w == WithPage(m, dir, phys, v, flags)
           j == pt_idx(v)
           e == PageEntry(phys, flags)
<1>1. w = [m EXCEPT ![t].page[j] = e]
  BY DEF WithPage, TableOf, Entry
<1>2. t \in Frames
  BY DEF MemType, PageType, TableOf, Entry
<1>3. e \in [frame : Frames, flags : Flags] /\ j \in Index
  BY Entries
<1> HIDE DEF j, e, t, w
<1>4. m[t] \in [page : PageType, data : Seq(Nat)] /\ m[t].page \in PageType
  BY <1>2 DEF MemType
<1>5. [m[t].page EXCEPT ![j] = e] \in PageType
  BY <1>3, <1>4 DEF PageType
<1>6. w = [m EXCEPT ![t] = [m[t] EXCEPT !.page = [m[t].page EXCEPT ![j] = e]]]
  BY <1>1
<1>7. w[t] = [m[t] EXCEPT !.page = [m[t].page EXCEPT ![j] = e]]
  BY <1>2, <1>6 DEF MemType
<1>8. w[t].page = [m[t].page EXCEPT ![j] = e] /\ w[t] \in [page : PageType, data : Seq(Nat)]
  BY <1>4, <1>5, <1>7
<1>9. \A g \in Frames : g # t => w[g] = m[g]
  BY <1>6 DEF MemType
<1>10. w \in MemType
  BY <1>2, <1>6, <1>8, <1>9 DEF MemType
<1>11. \A k \in Index : Entry(w, t, k) = IF k = j THEN e ELSE Entry(m, t, k)
  BY <1>3, <1>4, <1>8 DEF PageType, Entry
<1>12. \A g \in Frames : g # t => SamePage(m, w, g)
  BY <1>9 DEF SamePage, Entry
<1> QED BY <1>2, <1>10, <1>11, <1>12 DEF j, e, t, w

\* The two halves apart, for the provers.
LEMMA WithPageType ==
    ASSUME NEW m \in MemType, NEW dir \in Frames, NEW phys \in Frames, NEW flags \in Flags,
           NEW v, pd_idx(v) \in Index, pt_idx(v) \in Index
    PROVE  WithPage(m, dir, phys, v, flags) \in MemType
BY WithPageBoth

LEMMA WithPageEffect ==
    ASSUME NEW m \in MemType, NEW dir \in Frames, NEW phys \in Frames, NEW flags \in Flags,
           NEW v, pd_idx(v) \in Index, pt_idx(v) \in Index
    PROVE  LET t == TableOf(m, dir, v)
               w == WithPage(m, dir, phys, v, flags)
           IN  /\ t \in Frames
               /\ \A k \in Index : Entry(w, t, k) = IF k = pt_idx(v) THEN PageEntry(phys, flags)
                                                ELSE Entry(m, t, k)
               /\ \A g \in Frames : g # t => SamePage(m, w, g)
BY WithPageBoth

LEMMA WithTableEffect ==
    ASSUME NEW m \in MemType, NEW dir \in Frames, NEW f \in Frames, f # dir,
           NEW v, pd_idx(v) \in Index
    PROVE  LET w == WithTable(m, dir, v, f)
           IN  /\ w \in MemType
               /\ \A k \in Index : Entry(w, f, k) = Absent
               /\ \A k \in Index : Entry(w, dir, k) = IF k = pd_idx(v) THEN PageEntry(f, 7)
                                                  ELSE Entry(m, dir, k)
               /\ \A g \in Frames : g # f /\ g # dir => SamePage(m, w, g)
<1> DEFINE w == WithTable(m, dir, v, f)
           i == pd_idx(v)
           e == PageEntry(f, 7)
           z == PageContent(ZeroPage)
           d == [m[dir] EXCEPT !.page = [m[dir].page EXCEPT ![i] = e]]
<1>1. e \in [frame : Frames, flags : Flags] /\ i \in Index
  BY Entries DEF Flags
<1>2. z \in [page : PageType, data : Seq(Nat)] /\ z.page = ZeroPage
  BY ZeroPageEmpty DEF PageContent, NoData
<1>3. w = [m EXCEPT ![f] = z, ![dir].page[i] = e]
  BY DEF WithTable
<1> HIDE DEF i, e, z, w
<1>4. m[dir] \in [page : PageType, data : Seq(Nat)] /\ m[dir].page \in PageType
  BY DEF MemType
<1>5. [m[dir].page EXCEPT ![i] = e] \in PageType
  BY <1>1, <1>4 DEF PageType
<1>6. d \in [page : PageType, data : Seq(Nat)] /\ d.page = [m[dir].page EXCEPT ![i] = e]
  BY <1>4, <1>5
<1>7. w = [[m EXCEPT ![f] = z] EXCEPT ![dir] = d]
  BY <1>3 DEF MemType
<1> HIDE DEF d
<1>8. w[f] = z /\ w[dir] = d /\ \A g \in Frames : g # f /\ g # dir => w[g] = m[g]
  BY <1>7 DEF MemType
<1>9. w \in MemType
  BY <1>2, <1>6, <1>7 DEF MemType
<1>10. \A k \in Index : Entry(w, dir, k) = IF k = i THEN e ELSE Entry(m, dir, k)
  BY <1>1, <1>4, <1>6, <1>8 DEF PageType, Entry
<1>11. \A k \in Index : Entry(w, f, k) = Absent
  BY <1>2, <1>8 DEF Entry, ZeroPage
<1>12. \A g \in Frames : g # f /\ g # dir => SamePage(m, w, g)
  BY <1>8 DEF SamePage, Entry
<1> QED BY <1>9, <1>10, <1>11, <1>12 DEF i, e, w

LEMMA WithBothEffect ==
    ASSUME NEW m \in MemType, NEW dir \in Frames, NEW f \in Frames, f # dir,
           NEW phys \in Frames, NEW flags \in Flags,
           NEW v, pd_idx(v) \in Index, pt_idx(v) \in Index
    PROVE  LET n == WithPage(WithTable(m, dir, v, f), dir, phys, v, flags)
           IN  /\ n \in MemType
               /\ \A k \in Index : Entry(n, f, k) = IF k = pt_idx(v) THEN PageEntry(phys, flags)
                                                ELSE Absent
               /\ \A k \in Index : Entry(n, dir, k) = IF k = pd_idx(v) THEN PageEntry(f, 7)
                                                  ELSE Entry(m, dir, k)
               /\ \A g \in Frames : g # f /\ g # dir => SamePage(m, n, g)
<1>1. PICK w : w = WithTable(m, dir, v, f)
  OBVIOUS
<1>2. /\ w \in MemType
      /\ \A k \in Index : Entry(w, f, k) = Absent
      /\ \A k \in Index : Entry(w, dir, k) = IF k = pd_idx(v) THEN PageEntry(f, 7)
                                         ELSE Entry(m, dir, k)
      /\ \A g \in Frames : g # f /\ g # dir => SamePage(m, w, g)
  BY <1>1, WithTableEffect
<1>3. Entry(w, dir, pd_idx(v)) = PageEntry(f, 7) /\ 7 \in Flags
  BY <1>2 DEF Flags
<1>4. PICK t : t = TableOf(w, dir, v)
  OBVIOUS
<1>5. t = f
  BY <1>3, <1>4, Entries DEF TableOf
<1>6. PICK n : n = WithPage(w, dir, phys, v, flags)
  OBVIOUS
<1>7. /\ n \in MemType
      /\ \A k \in Index : Entry(n, t, k) = IF k = pt_idx(v) THEN PageEntry(phys, flags)
                                       ELSE Entry(w, t, k)
      /\ \A g \in Frames : g # t => SamePage(w, n, g)
  <2>1. w \in MemType
    BY <1>2
  <2>2. n \in MemType
    BY <1>6, <2>1, WithPageType
  <2> QED BY <1>4, <1>6, <2>1, <2>2, WithPageEffect
<1>8. /\ n \in MemType
      /\ \A k \in Index : Entry(n, f, k) = IF k = pt_idx(v) THEN PageEntry(phys, flags)
                                       ELSE Absent
      /\ \A k \in Index : Entry(n, dir, k) = IF k = pd_idx(v) THEN PageEntry(f, 7)
                                         ELSE Entry(m, dir, k)
      /\ \A g \in Frames : g # f /\ g # dir => SamePage(m, n, g)
  BY <1>2, <1>5, <1>7 DEF SamePage
<1> QED BY <1>1, <1>6, <1>8
-----------------------------------------------------------------------------
(* What a step leaves alone. *)

\* A frame is taken: the lowest that is free.
LEMMA TakesFrame ==
    ASSUME TypeOK, Gapless, NEW f \in Low, NEW who \in Nat, Takes(f, who)
    PROVE  /\ f \notin used /\ used' = used \cup {f} /\ used' \subseteq Low
           /\ owner' \in [Frames -> Nat] /\ owner'[f] = who
           /\ \A g \in used : owner'[g] = owner[g]
           /\ Gapless'
<1>1. f \in Low \ used /\ (\A g \in Low \ used : f <= g) /\ used' = used \cup {f}
      /\ owner' = [owner EXCEPT ![f] = who]
  BY DEF Takes, allocate_frame
<1>2. owner \in [Frames -> Nat] /\ used \subseteq Low /\ f \in Frames
  BY Layout DEF TypeOK
<1>3. \A g \in used : g \in Frames /\ g # f
  BY <1>1, <1>2, Layout
<1>4. owner' \in [Frames -> Nat] /\ owner'[f] = who /\ \A g \in used : owner'[g] = owner[g]
  BY <1>1, <1>2, <1>3
<1>5. Gapless'
  <2> SUFFICES ASSUME NEW h \in used', NEW g \in Low, g < h PROVE g \in used'
    BY DEF Gapless
  <2>1. CASE h \in used
    BY <1>1, <2>1 DEF Gapless
  <2>2. CASE h = f
    <3>1. g \in Nat /\ f \in Nat
      BY Layout
    <3> QED BY <1>1, <2>2, <3>1
  <2> QED BY <1>1, <2>1, <2>2
<1> QED BY <1>1, <1>2, <1>4, <1>5

LEMMA LowIndex == Low \subseteq Index
BY Layout, EntriesAssumption DEF Index

LEMMA SpaceKept ==
    ASSUME NEW d \in Frames, NEW who, Space(d, who),
           used \subseteq used', \A f \in used : owner'[f] = owner[f],
           \A i \in Index : i >= Half => Entry(mem', KernelPd, i) = Entry(mem, KernelPd, i),
           SamePage(mem, mem', d),
           \A t \in Frames : UserTable(t, d) => SamePage(mem, mem', t)
    PROVE  Space(d, who)'
<1>1. \A t : UserTable(t, d)' <=> UserTable(t, d)
  BY DEF UserTable, SamePage
<1>2. \A f : UserFrame(f, d, who) => UserFrame(f, d, who)'
  BY <1>1 DEF UserFrame
<1>3. SharesHalf(d)'
  BY DEF Space, SharesHalf, SamePage
<1>4. ASSUME NEW t \in Frames, UserTable(t, d)'
      PROVE  /\ t \in used' /\ owner'[t] = who /\ t # d
             /\ \A j \in Index : present(Entry(mem', t, j)) =>
                    UserFrame(Entry(mem, t, j).frame, d, who)'
  <2>1. UserTable(t, d)
    BY <1>1, <1>4
  <2>2. SamePage(mem, mem', t) /\ t \in used /\ owner[t] = who /\ t # d
        /\ \A j \in Index : present(Entry(mem, t, j)) => UserFrame(Entry(mem, t, j).frame, d, who)
    BY <2>1 DEF Space
  <2>3. ASSUME NEW j \in Index, present(Entry(mem', t, j))
        PROVE  UserFrame(Entry(mem, t, j).frame, d, who)'
    <3>1. Entry(mem', t, j) = Entry(mem, t, j)
      BY <2>2 DEF SamePage
    <3>2. ASSUME NEW g, g = Entry(mem, t, j).frame PROVE UserFrame(g, d, who)'
      BY <1>2, <2>2, <2>3, <3>1, <3>2
    <3> QED BY <3>1, <3>2 DEF UserFrame, UserTable
  <2> QED BY <2>2, <2>3
<1> QED BY <1>3, <1>4 DEF Space

LEMMA KernelKept ==
    ASSUME KernelTables,
           used \subseteq used', \A f \in used : owner'[f] = owner[f],
           SamePage(mem, mem', KernelPd),
           SamePage(mem, mem', KernelPd + 1)
    PROVE  KernelTables'
<1>1. /\ \A i \in Index : i < Half => ~present(Entry(mem', KernelPd, i))
      /\ Entry(mem', KernelPd, Half) = PageEntry(KernelPd + 1, 3)
  BY HalfValue DEF KernelTables, SamePage
<1>2. \A i \in Index : i > Half /\ present(Entry(mem', KernelPd, i)) =>
         Entry(mem', KernelPd, i).frame \in used'
         /\ owner'[Entry(mem', KernelPd, i).frame] = Kernel
  BY HalfValue DEF KernelTables, SamePage
<1>3. \A f \in Low : Entry(mem', KernelPd + 1, f) = PageEntry(f, 3)
  BY LowIndex DEF KernelTables, SamePage
<1> QED BY <1>1, <1>2, <1>3 DEF KernelTables

\* A step that changes no frame but free ones and those of the process in the
\* making disturbs neither the kernel nor a process that exists.
LEMMA OthersSpaces ==
    ASSUME IInv, used \subseteq used', \A f \in used : owner'[f] = owner[f],
           \A g \in Frames : (g \notin Low \/ (g \in used /\ owner[g] # Me)) =>
                SamePage(mem, mem', g)
    PROVE  /\ KernelTables'
           /\ \A i \in DOMAIN procs : \A d, who :
                d = procs[i].pd /\ who = Owner(i) => Space(d, who)'
<1>1. SamePage(mem, mem', KernelPd) /\ SamePage(mem, mem', KernelPd + 1)
  BY Layout
<1>2. KernelTables'
  BY <1>1, KernelKept DEF IInv
<1>3. ASSUME NEW i \in DOMAIN procs, NEW d, d = procs[i].pd, NEW who, who = Owner(i)
      PROVE  Space(d, who)'
  <2>0. procs \in Seq([pd : Frames, program : Programs])
    BY DEF IInv, TypeOK
  <2>00. Spaces
    BY DEF IInv
  <2>1. d \in Frames /\ Space(d, who)
    <3>0. i \in 1 .. Len(procs)
      BY <2>0
    <3>1. procs[i] \in [pd : Frames, program : Programs]
      BY <2>0, <3>0, ElementOfSeq, Zenon
    <3> QED BY <1>3, <2>00, <3>1 DEF Spaces
  <2>2. who # Me
    <3>1. i \in 1 .. Len(procs) /\ Len(procs) \in Nat
      BY <2>0
    <3> QED BY <1>3, <3>1 DEF Me, Owner
  <2>3. SamePage(mem, mem', d)
    BY <2>1, <2>2 DEF Space
  <2>4. \A t \in Frames : UserTable(t, d) => SamePage(mem, mem', t)
    BY <2>1, <2>2 DEF Space
  <2>5. \A k \in Index : k >= Half => Entry(mem', KernelPd, k) = Entry(mem, KernelPd, k)
    BY <1>1 DEF SamePage
  <2> QED BY <2>1, <2>3, <2>4, <2>5, SpaceKept
<1> QED BY <1>2, <1>3

LEMMA OthersKept ==
    ASSUME IInv, used \subseteq used', \A f \in used : owner'[f] = owner[f], procs' = procs,
           \A g \in Frames : (g \notin Low \/ (g \in used /\ owner[g] # Me)) =>
                SamePage(mem, mem', g)
    PROVE  KernelTables' /\ Spaces'
<1>1. KernelTables' /\ \A i \in DOMAIN procs : \A d, who :
                d = procs[i].pd /\ who = Owner(i) => Space(d, who)'
  BY OthersSpaces
<1>2. \A i \in DOMAIN procs' : Space(procs[i].pd, Owner(i))'
  BY <1>1 DEF Owner, Space, SharesHalf, UserTable, UserFrame
<1> QED BY <1>1, <1>2 DEF Spaces

\* map_page below the higher half, when the table is there.
LEMMA MapsPresent ==
    ASSUME TypeOK, NEW d \in Frames, NEW who, Space(d, who),
           NEW phys \in Frames, UserFrame(phys, d, who),
           NEW v \in UserPages, NEW flags \in Flags,
           HasTable(mem, d, v), mem' = WithPage(mem, d, phys, v, flags),
           used' = used, owner' = owner
    PROVE  /\ Space(d, who)' /\ mem' \in MemType
           /\ \A f : UserFrame(f, d, who) => UserFrame(f, d, who)'
           /\ \A g \in Frames : SamePage(mem, mem', g) \/ (g \in used /\ owner[g] = who)
<1> DEFINE i == pd_idx(v)
           j == pt_idx(v)
           t == TableOf(mem, d, v)
<1>1. i \in Index /\ i < Half /\ j \in Index
  BY UserPage DEF pt_idx
<1>2. mem \in MemType /\ used \subseteq Low
  BY DEF TypeOK, MemType
<1>30. mem' \in MemType
  BY <1>1, <1>2, WithPageType
<1>3. /\ t \in Frames
      /\ \A k \in Index : Entry(mem', t, k) = IF k = j THEN PageEntry(phys, flags)
                                           ELSE Entry(mem, t, k)
      /\ \A g \in Frames : g # t => SamePage(mem, mem', g)
  BY <1>1, <1>2, WithPageEffect
<1>4. UserTable(t, d)
  BY <1>1 DEF HasTable, UserTable, TableOf, Entry
<1>5. t \in used /\ owner[t] = who /\ t # d
  BY <1>3, <1>4 DEF Space
<1> HIDE DEF t, i, j
<1>6. SamePage(mem, mem', d) /\ SamePage(mem, mem', KernelPd)
  BY <1>2, <1>3, <1>5, Layout
<1>7. \A s : UserTable(s, d)' <=> UserTable(s, d)
  BY <1>6 DEF UserTable, SamePage
<1>8. \A f : UserFrame(f, d, who) => UserFrame(f, d, who)'
  BY <1>7 DEF UserFrame
<1>9. SharesHalf(d)'
  BY <1>6 DEF Space, SharesHalf, SamePage
<1>10. ASSUME NEW s \in Frames, UserTable(s, d)'
       PROVE  /\ s \in used' /\ owner'[s] = who /\ s # d
              /\ \A k \in Index : present(Entry(mem', s, k)) =>
                    UserFrame(Entry(mem', s, k).frame, d, who)
  <2>1. UserTable(s, d) /\ s \in used /\ owner[s] = who /\ s # d
    BY <1>7, <1>10 DEF Space
  <2>2. ASSUME NEW k \in Index, present(Entry(mem', s, k))
        PROVE  UserFrame(Entry(mem', s, k).frame, d, who)
    <3>1. CASE s = t /\ k = j
      <4>1. Entry(mem', s, k) = PageEntry(phys, flags)
        BY <1>3, <3>1
      <4> QED BY <4>1, Entries
    <3>2. CASE ~(s = t /\ k = j)
      <4>1. Entry(mem', s, k) = Entry(mem, s, k)
        BY <1>3, <3>2 DEF SamePage
      <4> QED BY <2>1, <2>2, <4>1 DEF Space
    <3> QED BY <3>1, <3>2
  <2> QED BY <2>1, <2>2
<1>11. Space(d, who)'
  <2>1. \A s \in Frames : UserTable(s, d)' =>
            /\ s \in used' /\ owner'[s] = who /\ s # d
            /\ \A k \in Index : present(Entry(mem', s, k)) =>
                  UserFrame(Entry(mem, s, k).frame, d, who)'
    BY <1>8, <1>10
  <2>2. d \in used' /\ owner'[d] = who
    BY DEF Space
  <2> QED BY <1>9, <2>1, <2>2 DEF Space
<1> QED BY <1>30, <1>3, <1>5, <1>8, <1>11

\* map_page below the higher half, when it allocates the table.
LEMMA MapsAbsent ==
    ASSUME TypeOK, NEW d \in Frames, NEW who, Space(d, who),
           NEW phys \in Frames, UserFrame(phys, d, who),
           NEW v \in UserPages, NEW flags \in Flags, NEW f \in Low, f \notin used,
           ~HasTable(mem, d, v),
           mem' = WithPage(WithTable(mem, d, v, f), d, phys, v, flags),
           used' = used \cup {f}, owner'[f] = who, \A g \in used : owner'[g] = owner[g]
    PROVE  /\ Space(d, who)' /\ mem' \in MemType
           /\ \A g : UserFrame(g, d, who) => UserFrame(g, d, who)'
           /\ \A g \in Frames : SamePage(mem, mem', g) \/ g = f \/ (g \in used /\ owner[g] = who)
<1> DEFINE i == pd_idx(v)
           j == pt_idx(v)
<1>1. i \in Index /\ i < Half /\ j \in Index
  BY UserPage DEF pt_idx
<1>2. mem \in MemType /\ used \subseteq Low /\ f \in Frames /\ d \in used /\ f # d
  BY Layout DEF TypeOK, MemType, Space
<1>31. 7 \in Flags
  BY DEF Flags
<1>6. /\ mem' \in MemType
      /\ \A k \in Index : Entry(mem', d, k) = IF k = i THEN PageEntry(f, 7)
                                           ELSE Entry(mem, d, k)
      /\ \A k \in Index : Entry(mem', f, k) = IF k = j THEN PageEntry(phys, flags)
                                           ELSE Absent
      /\ \A g \in Frames : g # f /\ g # d => SamePage(mem, mem', g)
  BY <1>1, <1>2, WithBothEffect
<1> HIDE DEF i, j
<1>7. ~present(Entry(mem, d, i))
  BY DEF HasTable, i, Entry
<1>8. SamePage(mem, mem', KernelPd)
  BY <1>2, <1>6, Layout
<1>9. \A s : UserTable(s, d)' => s = f \/ UserTable(s, d)
  <2> SUFFICES ASSUME NEW s, NEW k \in Index, k < Half, present(Entry(mem', d, k)),
                      Entry(mem', d, k).frame = s
               PROVE  s = f \/ UserTable(s, d)
    BY DEF UserTable
  <2>1. CASE k = i
    <3>1. Entry(mem', d, k) = PageEntry(f, 7)
      BY <1>1, <1>6, <2>1
    <3> QED BY <1>2, <1>31, <3>1, Entries
  <2>2. CASE k # i
    <3>1. Entry(mem', d, k) = Entry(mem, d, k)
      BY <1>1, <1>6, <2>2
    <3> QED BY <3>1 DEF UserTable
  <2> QED BY <2>1, <2>2
<1>10. \A g : UserFrame(g, d, who) => UserFrame(g, d, who)'
  BY <1>9 DEF UserFrame
<1>11. SharesHalf(d)'
  <2> SUFFICES ASSUME NEW k \in Index, k >= Half PROVE Entry(mem', d, k) = Entry(mem', KernelPd, k)
    BY DEF SharesHalf
  <2>0. k # i
    BY <1>1, HalfValue DEF Index
  <2>1. Entry(mem', d, k) = Entry(mem, d, k)
    BY <1>1, <1>6, <2>0
  <2> QED BY <1>8, <2>1 DEF Space, SharesHalf, SamePage
<1>12. ASSUME NEW s \in Frames, UserTable(s, d)'
       PROVE  /\ s \in used' /\ owner'[s] = who /\ s # d
              /\ \A k \in Index : present(Entry(mem', s, k)) =>
                    UserFrame(Entry(mem', s, k).frame, d, who)
  <2>1. CASE s = f
    <3>1. ASSUME NEW k \in Index, present(Entry(mem', f, k))
          PROVE  UserFrame(Entry(mem', f, k).frame, d, who)
      <4>1. CASE k = j
        <5>1. Entry(mem', f, k) = PageEntry(phys, flags)
          BY <1>6, <4>1
        <5> QED BY <5>1, Entries
      <4>2. CASE k # j
        <5>1. Entry(mem', f, k) = Absent
          BY <1>6, <4>2
        <5> QED BY <3>1, <5>1, ZeroPageEmpty
      <4> QED BY <4>1, <4>2
    <3> QED BY <1>2, <2>1, <3>1
  <2>2. CASE s # f
    <3>1. UserTable(s, d) /\ s \in used /\ owner[s] = who /\ s # d
      BY <1>9, <1>12, <2>2 DEF Space
    <3>2. SamePage(mem, mem', s)
      BY <1>6, <2>2, <3>1
    <3> QED BY <3>1, <3>2 DEF Space, SamePage
  <2> QED BY <2>1, <2>2
<1>13. Space(d, who)'
  <2>1. \A s \in Frames : UserTable(s, d)' =>
            /\ s \in used' /\ owner'[s] = who /\ s # d
            /\ \A k \in Index : present(Entry(mem', s, k)) =>
                  UserFrame(Entry(mem, s, k).frame, d, who)'
    BY <1>10, <1>12
  <2>2. d \in used' /\ owner'[d] = who
    BY DEF Space
  <2> QED BY <1>11, <2>1, <2>2 DEF Space
<1> QED BY <1>2, <1>6, <1>10, <1>13 DEF Space
-----------------------------------------------------------------------------
(* map_page in the kernel's directory. *)

LEMMA MapsKernelPresent ==
    ASSUME TypeOK, KernelTables, NEW p \in Frames, \A f \in Low : f < p,
           HasTable(mem, KernelPd, P2VPage(p)),
           mem' = WithPage(mem, KernelPd, p, P2VPage(p), 3),
           used' = used, owner' = owner
    PROVE  mem' \in MemType /\ KernelTables'
<1> DEFINE v == P2VPage(p)
           i == pd_idx(v)
           j == pt_idx(v)
           t == TableOf(mem, KernelPd, v)
<1>0. p \in Nat /\ p < ENTRIES * (ENTRIES \div 4)
  BY Layout
<1>1. i \in Index /\ i >= Half /\ j \in Index /\ i = Half + p \div ENTRIES
      /\ j = p % ENTRIES
  BY <1>0, KernelPage DEF pt_idx
<1>2. mem \in MemType /\ used \subseteq Low /\ 3 \in Flags /\ KernelPd \in Frames
  BY Layout DEF TypeOK, MemType, Flags
<1>3. mem' \in MemType
  BY <1>1, <1>2, WithPageType
<1>4. /\ t \in Frames
      /\ \A k \in Index : Entry(mem', t, k) = IF k = j THEN PageEntry(p, 3)
                                           ELSE Entry(mem, t, k)
      /\ \A g \in Frames : g # t => SamePage(mem, mem', g)
  BY <1>1, <1>2, WithPageEffect
<1>5. present(Entry(mem, KernelPd, i)) /\ t = Entry(mem, KernelPd, i).frame
  BY DEF HasTable, TableOf, Entry
<1> HIDE DEF t, i, j
<1>6. t = KernelPd + 1 \/ t \in Low
  <2>1. CASE i = Half
    <3>1. KernelPd + 1 \in Frames
      BY Layout
    <3> QED BY <1>2, <1>5, <2>1, <3>1, Entries DEF KernelTables
  <2>2. CASE i # Half
    <3>1. i > Half
      BY <1>1, <2>2, HalfValue DEF Index
    <3> QED BY <1>1, <1>2, <1>5, <3>1 DEF KernelTables
  <2> QED BY <2>1, <2>2
<1>7. t # KernelPd
  BY <1>6, Layout
<1>8. SamePage(mem, mem', KernelPd)
  BY <1>2, <1>4, <1>7
<1>9. \A f \in Low : Entry(mem', KernelPd + 1, f) = PageEntry(f, 3)
  <2> SUFFICES ASSUME NEW f \in Low PROVE Entry(mem', KernelPd + 1, f) = PageEntry(f, 3)
    OBVIOUS
  <2>1. Entry(mem, KernelPd + 1, f) = PageEntry(f, 3) /\ f \in Index /\ KernelPd + 1 \in Frames
    BY LowIndex, Layout DEF KernelTables
  <2>2. CASE t # KernelPd + 1
    BY <1>4, <2>1, <2>2 DEF SamePage
  <2>3. CASE t = KernelPd + 1
    <3>1. i = Half
      <4>1. ASSUME i > Half PROVE FALSE
        BY <1>1, <1>2, <1>5, <2>3, <4>1, Layout DEF KernelTables
      <4> QED BY <1>1, <4>1, HalfValue DEF Index
    <3>2. p \div ENTRIES = 0 /\ p = ENTRIES * (p \div ENTRIES) + (p % ENTRIES)
      <4>1. ENTRIES \in Nat \ {0} /\ Half \in Nat
        BY EntriesAssumption, HalfValue DEF Index
      <4>2. p \div ENTRIES \in Nat /\ p = ENTRIES * (p \div ENTRIES) + (p % ENTRIES)
        BY <1>0, <4>1, Division
      <4> QED BY <1>1, <3>1, <4>1, <4>2
    <3>3. j = p
      <4>1. ENTRIES * 0 = 0 /\ p % ENTRIES \in Nat
        BY <1>0, EntriesAssumption, Division
      <4> QED BY <1>1, <3>2, <4>1
    <3>4. f # j
      BY <1>0, <3>3, Layout
    <3> QED BY <1>4, <2>1, <2>3, <3>4
  <2> QED BY <2>2, <2>3
<1>10. /\ \A k \in Index : k < Half => ~present(Entry(mem', KernelPd, k))
       /\ Entry(mem', KernelPd, Half) = PageEntry(KernelPd + 1, 3)
  BY <1>8, HalfValue DEF KernelTables, SamePage
<1>11. \A k \in Index : k > Half /\ present(Entry(mem', KernelPd, k)) =>
         Entry(mem', KernelPd, k).frame \in used'
         /\ owner'[Entry(mem', KernelPd, k).frame] = Kernel
  BY <1>8 DEF KernelTables, SamePage
<1> QED BY <1>3, <1>9, <1>10, <1>11 DEF KernelTables

LEMMA MapsKernelAbsent ==
    ASSUME TypeOK, KernelTables, NEW p \in Frames, NEW f \in Low, f \notin used,
           ~HasTable(mem, KernelPd, P2VPage(p)),
           mem' = WithPage(WithTable(mem, KernelPd, P2VPage(p), f), KernelPd, p, P2VPage(p), 3),
           used' = used \cup {f}, owner'[f] = Kernel, \A g \in used : owner'[g] = owner[g]
    PROVE  mem' \in MemType /\ KernelTables'
<1> DEFINE v == P2VPage(p)
           i == pd_idx(v)
           j == pt_idx(v)
<1>0. p \in Nat /\ p < ENTRIES * (ENTRIES \div 4)
  BY Layout
<1>1. i \in Index /\ i >= Half /\ j \in Index
  BY <1>0, KernelPage DEF pt_idx
<1>2. /\ mem \in MemType /\ used \subseteq Low /\ 3 \in Flags /\ 7 \in Flags
      /\ KernelPd \in Frames /\ KernelPd + 1 \in Frames /\ f \in Frames
      /\ f # KernelPd /\ f # KernelPd + 1 /\ KernelPd # KernelPd + 1
  BY Layout DEF TypeOK, MemType, Flags
<1>3. /\ mem' \in MemType
      /\ \A k \in Index : Entry(mem', KernelPd, k) = IF k = i THEN PageEntry(f, 7)
                                           ELSE Entry(mem, KernelPd, k)
      /\ \A g \in Frames : g # f /\ g # KernelPd => SamePage(mem, mem', g)
  BY <1>1, <1>2, WithBothEffect
<1>4. ~present(Entry(mem, KernelPd, i))
  BY DEF HasTable, Entry
<1> HIDE DEF i, j
<1>5. i > Half
  <2>1. present(PageEntry(KernelPd + 1, 3))
    BY <1>2, Entries DEF present
  <2>2. i # Half
    BY <1>4, <2>1 DEF KernelTables
  <2> QED BY <1>1, <2>2, HalfValue DEF Index
<1>6. SamePage(mem, mem', KernelPd + 1)
  BY <1>2, <1>3
<1>7. /\ \A k \in Index : k < Half => ~present(Entry(mem', KernelPd, k))
      /\ Entry(mem', KernelPd, Half) = PageEntry(KernelPd + 1, 3)
  <2>1. Half # i /\ \A k \in Index : k < Half => k # i
    BY <1>1, <1>5, HalfValue DEF Index
  <2> QED BY <1>3, <2>1, HalfValue DEF KernelTables
<1>8. ASSUME NEW k \in Index, k > Half, present(Entry(mem', KernelPd, k))
      PROVE  Entry(mem', KernelPd, k).frame \in used'
             /\ owner'[Entry(mem', KernelPd, k).frame] = Kernel
  <2>1. CASE k = i
    <3>1. Entry(mem', KernelPd, k).frame = f
      BY <1>2, <1>3, <2>1, Entries
    <3> QED BY <3>1
  <2>2. CASE k # i
    <3>1. Entry(mem', KernelPd, k) = Entry(mem, KernelPd, k)
      BY <1>3, <2>2
    <3> QED BY <1>8, <3>1 DEF KernelTables
  <2> QED BY <2>1, <2>2
<1>9. \A g \in Low : Entry(mem', KernelPd + 1, g) = PageEntry(g, 3)
  BY <1>6, LowIndex DEF KernelTables, SamePage
<1> QED BY <1>3, <1>7, <1>8, <1>9 DEF KernelTables
-----------------------------------------------------------------------------
(* The steps. *)

LEMMA AfterMapValues ==
    /\ DOMAIN AfterMap = {"map_initrd", "map_initrd_2", "map_stack", "map_above", "map_segment"}
    /\ AfterMap["map_initrd"] = "map_initrd_2" /\ AfterMap["map_initrd_2"] = "parse_tar"
    /\ AfterMap["map_stack"] = "map_above" /\ AfterMap["map_above"] = "enter"
    /\ AfterMap["map_segment"] = "memcpy"
BY DEF AfterMap

LEMMA MeValue ==
    ASSUME TypeOK
    PROVE  Me \in Nat /\ Len(procs) \in Nat /\ DOMAIN procs = 1 .. Len(procs)
           /\ Me = Owner(Len(procs) + 1)
<1>1. procs \in Seq([pd : Frames, program : Programs])
  BY DEF TypeOK
<1>2. Len(procs) \in Nat /\ DOMAIN procs = 1 .. Len(procs)
  BY <1>1
<1> QED BY <1>2 DEF Me, Owner

\* The program being loaded.
LEMMA HeadProgram ==
    ASSUME TypeOK, todo # <<>>
    PROVE  /\ Head(todo) \in Programs /\ Tail(todo) \in Seq(Programs)
           /\ DOMAIN Head(todo).segments = 1 .. Len(Head(todo).segments)
           /\ Len(Head(todo).segments) \in Nat
           /\ \A k \in DOMAIN Head(todo).segments :
                /\ Head(todo).segments[k].page \in Nat
                /\ Head(todo).segments[k].pages \in Nat \ {0}
                /\ Head(todo).segments[k].page + Head(todo).segments[k].pages <= ENTRIES * ENTRIES
<1>1. todo \in Seq(Programs)
  BY DEF TypeOK
<1>2. Head(todo) \in Programs /\ Tail(todo) \in Seq(Programs)
  BY <1>1, HeadTailProperties, Zenon
<1>3. PICK s : s = Head(todo).segments
  OBVIOUS
<1> DEFINE H == {h \in Headers : h.page + h.pages <= ENTRIES * ENTRIES}
<1>4. s \in Seq(H)
  BY <1>2, <1>3 DEF Programs
<1> HIDE DEF H
<1>5. DOMAIN s = 1 .. Len(s) /\ Len(s) \in Nat
  BY <1>4
<1>6. ASSUME NEW k \in DOMAIN s
      PROVE  s[k].page \in Nat /\ s[k].pages \in Nat \ {0} /\ s[k].page + s[k].pages <= ENTRIES * ENTRIES
  <2>1. s[k] \in H
    BY <1>4, <1>5, <1>6, ElementOfSeq, Zenon
  <2> QED BY <2>1 DEF H, Headers
<1> QED BY <1>2, <1>3, <1>5, <1>6

\* A step that leaves memory, its owners and the processes alone.
LEMMA QuietKept ==
    ASSUME IInv, UNCHANGED <<mem, used, owner, procs>>
    PROVE  Gapless' /\ KernelTables' /\ Spaces'
<1>1. Gapless'
  BY DEF IInv, Gapless
<1>2. KernelTables'
  BY DEF IInv, KernelTables
<1>3. Spaces'
  BY DEF IInv, Spaces, Space, SharesHalf, UserTable, UserFrame
<1> QED BY <1>1, <1>2, <1>3

LEMMA SharesHalfKept ==
    ASSUME NEW d, SharesHalf(d), mem' = mem
    PROVE  SharesHalf(d)'
BY DEF SharesHalf

\* A step that leaves memory alone keeps what was allocated.
LEMMA SpaceStays ==
    ASSUME NEW d \in Frames, NEW who, Space(d, who), mem' = mem,
           used \subseteq used', \A f \in used : owner'[f] = owner[f]
    PROVE  /\ Space(d, who)'
           /\ \A f : UserFrame(f, d, who) => UserFrame(f, d, who)'
<1>1. SamePage(mem, mem', d) /\ \A t \in Frames : SamePage(mem, mem', t)
  BY DEF SamePage
<1>2. \A i \in Index : i >= Half => Entry(mem', KernelPd, i) = Entry(mem, KernelPd, i)
  OBVIOUS
<1>3. Space(d, who)'
  BY <1>1, <1>2, SpaceKept
<1>4. \A f : UserFrame(f, d, who) => UserFrame(f, d, who)'
  BY DEF UserFrame, UserTable
<1> QED BY <1>3, <1>4

\* A frame that was free is none of a directory's.
LEMMA FreshFrame ==
    ASSUME TypeOK, NEW d \in Frames, NEW who, Space(d, who), mem' = mem,
           NEW f \in Low, f \notin used, used' = used \cup {f}, owner'[f] = who
    PROVE  UserFrame(f, d, who)'
<1>1. f # d
  BY DEF Space
<1>2. f \in Frames
  BY Layout
<1>3. ~UserTable(f, d)
  BY <1>2 DEF Space
<1> QED BY <1>1, <1>3 DEF UserFrame, UserTable

\* What a directory maps below the higher half.
LEMMA UserWalk ==
    ASSUME TypeOK, NEW d \in Frames, NEW who, Space(d, who), NEW v \in UserPages,
           NEW f \in Walk(mem, d, v)
    PROVE  UserFrame(f, d, who)
<1> DEFINE i == v \div ENTRIES
           j == v % ENTRIES
           t == Entry(mem, d, i).frame
<1>1. i \in Index /\ i < Half /\ j \in Index
  BY UserPage
<1>2. present(Entry(mem, d, i)) /\ present(Entry(mem, t, j)) /\ f = Entry(mem, t, j).frame
  BY DEF Walk, Entry
<1>3. t \in Frames
  BY <1>1 DEF TypeOK, PageType, Entry
<1>4. UserTable(t, d)
  BY <1>1, <1>2 DEF UserTable
<1> HIDE DEF i, j, t
<1> QED BY <1>1, <1>2, <1>3, <1>4 DEF Space

LEMMA InitInv == Init => IInv
<1> SUFFICES ASSUME Init PROVE IInv
  OBVIOUS
<1> DEFINE E == [frame : Frames, flags : Flags]
           B == [page : PageType, data : Seq(Nat)]
<1>1. 0 \in Frames /\ 3 \in Flags /\ 0 \in Flags /\ VgaFrame \in Frames
      /\ \A i \in Index : i <= KernelLast => i \in Frames
  BY AddressSpacesAssumption, EntriesAssumption DEF Frames, Flags, Index
<1>2. boot_page_table1 \in PageType /\ \A f \in Low : boot_page_table1[f] = PageEntry(f, 3)
  <2>1. Absent \in E
    BY <1>1, Entries DEF Absent
  <2>2. \A i \in Index : boot_page_table1[i] \in E
    BY <1>1, <2>1, Entries DEF boot_page_table1
  <2>3. \A f \in Low : f \in Index /\ f <= KernelLast
    BY LowIndex, AddressSpacesAssumption DEF Low
  <2> QED BY <2>2, <2>3 DEF boot_page_table1, PageType
<1>3. /\ boot_page_directory \in PageType
      /\ boot_page_directory[Half] = PageEntry(KernelPd + 1, 3)
      /\ \A i \in Index : i # Half => boot_page_directory[i] = Absent
  <2>1. PageEntry(KernelPd + 1, 3) \in E
    BY <1>1, Layout, Entries
  <2> QED BY <2>1, HalfValue, ZeroPageEmpty DEF boot_page_directory, PageType, Half, ZeroPage
<1>4. ZeroPage \in PageType
  BY ZeroPageEmpty
<1>5. /\ mem \in MemType
      /\ mem[KernelPd].page = boot_page_directory
      /\ mem[KernelPd + 1].page = boot_page_table1
  <2>1. \A q \in PageType : PageContent(q) \in B /\ PageContent(q).page = q
    BY DEF PageContent, NoData
  <2>2. KernelPd \in Frames /\ KernelPd + 1 \in Frames /\ KernelPd # KernelPd + 1
    BY Layout
  <2> HIDE DEF B
  <2>3. mem \in [Frames -> B]
    BY <1>2, <1>3, <1>4, <2>1 DEF Init
  <2>4. mem[KernelPd] = PageContent(boot_page_directory)
        /\ mem[KernelPd + 1] = PageContent(boot_page_table1)
    BY <2>2 DEF Init
  <2> QED BY <1>2, <1>3, <2>1, <2>3, <2>4 DEF MemType, B
<1>6. TypeOK
  <2>1. tar.list \in Seq(Range(archive)) /\ tar.frame \in {0} \cup Low /\ tar.tails \in Seq(Frames)
        /\ tar.i \in Nat
    BY DEF Init
  <2>2. new \in [pd : Frames, stack : Frames, phys : Frames, segment : Nat]
    BY <1>1 DEF Init, NoCall
  <2>3. pc \in DOMAIN AfterMap
    BY AfterMapValues DEF Init
  <2>4. owner \in [Frames -> Nat] /\ cr3 \in Frames /\ archive \in Archives /\ used \subseteq Low
    BY Layout DEF Init, Nobody
  <2>5. todo \in Seq(Programs) /\ procs \in Seq([pd : Frames, program : Programs])
    BY DEF Init
  <2> QED BY <1>5, <2>1, <2>2, <2>3, <2>4, <2>5 DEF TypeOK, MemType
<1>7. Gapless
  BY DEF Init, Gapless
<1>8. KernelTables
  <2>1. \A i \in Index : i < Half \/ i > Half => ~present(Entry(mem, KernelPd, i))
    BY <1>3, <1>5, HalfValue, ZeroPageEmpty DEF Entry, Index
  <2>2. Entry(mem, KernelPd, Half) = PageEntry(KernelPd + 1, 3)
        /\ \A f \in Low : Entry(mem, KernelPd + 1, f) = PageEntry(f, 3)
    BY <1>2, <1>3, <1>5 DEF Entry
  <2> QED BY <2>1, <2>2 DEF KernelTables
<1>9. procs = <<>> /\ pc = "map_initrd" /\ cr3 = KernelPd /\ new = NoCall
  BY DEF Init
<1>10. Spaces /\ Booting /\ Calling /\ StackFrames /\ SegmentFrame /\ Cr3
  BY <1>9 DEF Spaces, Booting, Calling, Making, StackFrames, SegmentFrame, Cr3, NoCall, SharesHalf
<1> QED BY <1>6, <1>7, <1>8, <1>10 DEF IInv

\* Steps of create_process that allocate at most one frame and leave memory,
\* the directory being made and the processes alone.
LEMMA MakingStays ==
    ASSUME IInv, pc \in Making, mem' = mem, procs' = procs, new'.pd = new.pd,
           \/ UNCHANGED <<used, owner>>
           \/ \E f \in Low : \E who \in Nat : Takes(f, who)
    PROVE  /\ used' \subseteq Low /\ owner' \in [Frames -> Nat]
           /\ Gapless' /\ KernelTables' /\ Spaces' /\ Space(new.pd, Me)'
           /\ \A f : UserFrame(f, new.pd, Me) => (f \in used' /\ \A d, who :
                d = new.pd /\ who = Me => UserFrame(f, d, who)')
           /\ SharesHalf(new.pd) /\ SharesHalf(new.pd)'
<1>1. TypeOK /\ Gapless /\ Space(new.pd, Me) /\ new.pd \in Frames
  BY DEF IInv, TypeOK, Calling
<1>2. /\ used' \subseteq Low /\ owner' \in [Frames -> Nat] /\ Gapless'
      /\ used \subseteq used' /\ \A f \in used : owner'[f] = owner[f]
  <2>1. CASE UNCHANGED <<used, owner>>
    BY <1>1, <2>1 DEF TypeOK, Gapless
  <2>2. CASE \E f \in Low : \E who \in Nat : Takes(f, who)
    <3>1. PICK f \in Low, who \in Nat : Takes(f, who)
      BY <2>2
    <3> QED BY <1>1, <3>1, TakesFrame
  <2> QED BY <2>1, <2>2
<1>3. KernelTables' /\ Spaces'
  <2>1. \A g \in Frames : SamePage(mem, mem', g)
    BY DEF SamePage
  <2> QED BY <1>2, <2>1, OthersKept
<1>4. ASSUME NEW d, NEW who, d = new.pd, who = Me
      PROVE  Space(d, who)' /\ \A f : UserFrame(f, d, who) => UserFrame(f, d, who)'
  <2>1. d \in Frames /\ Space(d, who)
    BY <1>1, <1>4
  <2> QED BY <1>2, <2>1, SpaceStays
<1>5. Space(new.pd, Me)'
  <2>1. PICK d : d = new.pd
    OBVIOUS
  <2>2. PICK who : who = Me
    OBVIOUS
  <2>3. Space(d, who)'
    BY <1>4, <2>1, <2>2
  <2>4. d = new'.pd /\ who = Me'
    BY <2>1, <2>2 DEF Me
  <2> QED BY <2>3, <2>4 DEF Space, SharesHalf, UserTable, UserFrame
<1>6. SharesHalf(new.pd) /\ SharesHalf(new.pd)'
  BY <1>1, <1>5 DEF Space
<1>7. \A f : UserFrame(f, new.pd, Me) => (f \in used' /\ \A d, who :
         d = new.pd /\ who = Me => UserFrame(f, d, who)')
  <2>1. \A f : UserFrame(f, new.pd, Me) => f \in used'
    BY <1>2 DEF UserFrame
  <2> QED BY <1>4, <2>1
<1> QED BY <1>2, <1>3, <1>5, <1>6, <1>7

\* A bucket is added in a frame that was free.
LEMMA BucketStep ==
    ASSUME TypeOK, Gapless, NEW f \in Low, NewBucket(f)
    PROVE  /\ mem' \in MemType /\ used' \subseteq Low /\ owner' \in [Frames -> Nat] /\ Gapless'
           /\ used \subseteq used' /\ \A g \in used : owner'[g] = owner[g]
           /\ \A g \in Frames : (g \notin Low \/ g \in used) => mem'[g] = mem[g]
<1>1. Takes(f, Heap) /\ mem' = [mem EXCEPT ![f] = PageContent(ZeroPage)] /\ Heap \in Nat
  BY DEF NewBucket, Heap
<1>2. /\ f \notin used /\ used' = used \cup {f} /\ used' \subseteq Low
      /\ owner' \in [Frames -> Nat] /\ \A g \in used : owner'[g] = owner[g]
      /\ Gapless'
  BY <1>1, TakesFrame
<1>3. mem \in MemType /\ PageContent(ZeroPage) \in [page : PageType, data : Seq(Nat)]
  BY ZeroPageEmpty DEF TypeOK, MemType, PageContent, NoData
<1>4. mem' \in MemType /\ \A g \in Frames : g # f => mem'[g] = mem[g]
  BY <1>1, <1>3 DEF MemType
<1> QED BY <1>2, <1>4

\* malloc changes no frame but one that was free.
LEMMA MallocStep ==
    ASSUME TypeOK, Gapless, malloc
    PROVE  /\ mem' \in MemType /\ used' \subseteq Low /\ owner' \in [Frames -> Nat] /\ Gapless'
           /\ used \subseteq used' /\ \A g \in used : owner'[g] = owner[g]
           /\ \A g \in Frames : (g \notin Low \/ g \in used) => mem'[g] = mem[g]
<1>1. CASE UNCHANGED <<mem, used, owner>>
  BY <1>1 DEF TypeOK, MemType, Gapless
<1>2. CASE \E f \in Low : NewBucket(f)
  <2>1. PICK f \in Low : NewBucket(f)
    BY <1>2
  <2> QED BY <2>1, BucketStep
<1> QED BY <1>1, <1>2 DEF malloc

\* The steps of parse_tar that allocate.
LEMMA StepParseMalloc ==
    ASSUME IInv, ParseHeader \/ ParseSize
    PROVE  IInv'
<1>1. /\ TypeOK /\ Gapless /\ pc \in {"parse_tar", "parse_size"} /\ cr3 = KernelPd
      /\ UNCHANGED <<cr3, archive, todo, new, procs>> /\ pc' \in {"parse_size", "parse_copy"}
  BY DEF IInv, Cr3, ParseHeader, ParseSize
<1>2. /\ mem' \in MemType /\ used' \subseteq Low /\ owner' \in [Frames -> Nat] /\ Gapless'
      /\ used \subseteq used' /\ \A g \in used : owner'[g] = owner[g]
      /\ \A g \in Frames : (g \notin Low \/ g \in used) => mem'[g] = mem[g]
  <2>1. malloc \/ \E f \in Low : NewBucket(f)
    BY DEF ParseHeader, ParseSize
  <2>2. CASE malloc
    BY <1>1, <2>2, MallocStep
  <2>3. CASE \E f \in Low : NewBucket(f)
    <3>1. PICK f \in Low : NewBucket(f)
      BY <2>3
    <3> QED BY <1>1, <3>1, BucketStep
  <2> QED BY <2>1, <2>2, <2>3
<1>3. KernelTables' /\ Spaces'
  <2>1. \A g \in Frames : (g \notin Low \/ (g \in used /\ owner[g] # Me)) => SamePage(mem, mem', g)
    BY <1>2 DEF SamePage, Entry
  <2> QED BY <1>1, <1>2, <2>1, OthersKept
<1>4. /\ tar'.list = tar.list /\ tar'.tails = tar.tails /\ tar'.frame \in {0} \cup Low
      /\ tar'.i \in Nat
  <2>1. CASE ParseHeader
    BY <1>1, <2>1 DEF ParseHeader, TypeOK
  <2>2. CASE ParseSize
    <3>1. PICK f \in {0} \cup Low : tar' = [tar EXCEPT !.frame = f]
      BY <2>2 DEF ParseSize
    <3>2. tar.frame \in {0} \cup Low
      BY <1>1 DEF TypeOK
    <3> QED BY <1>1, <3>1 DEF TypeOK
  <2> QED BY <2>1, <2>2
<1>5. TypeOK'
  BY <1>1, <1>2, <1>4 DEF TypeOK, MemType
<1>6. Booting' /\ Calling' /\ StackFrames' /\ SegmentFrame' /\ Cr3'
  BY <1>1 DEF IInv, Booting, Calling, Making, StackFrames, SegmentFrame, Cr3, SharesHalf
<1> QED BY <1>2, <1>3, <1>5, <1>6 DEF IInv

\* The copy of a file may run over into a frame that nobody has, and which is
\* none of the kernel's tables.
LEMMA StepParseCopy == ASSUME IInv, ParseCopy PROVE IInv'
<1>1. /\ TypeOK /\ Gapless /\ KernelTables /\ pc = "parse_copy" /\ pc' = "parse_tar"
      /\ cr3 = KernelPd /\ procs = <<>>
      /\ UNCHANGED <<used, cr3, archive, todo, new, procs, owner>>
  BY DEF IInv, Cr3, Booting, ParseCopy
<1>0. PICK k \in Files : \E tail :
        /\ tail = TailFrame(getsize(SizeField(archive[k].size)))
        /\ mem' = [f \in Frames |-> IF tail # 0 /\ f = tail
                                    THEN DataContent(<<tar.i + 1>>) ELSE mem[f]]
        /\ tar' = [block |-> next_address(tar.block, getsize(SizeField(archive[k].size))),
                   i |-> tar.i + 1, list |-> <<archive[k]>> \o tar.list, frame |-> 0,
                   tails |-> Append(tar.tails, tail)]
  BY DEF ParseCopy
<1>2. PICK tail :
        /\ tail = TailFrame(getsize(SizeField(archive[k].size)))
        /\ mem' = [f \in Frames |-> IF tail # 0 /\ f = tail
                                    THEN DataContent(<<tar.i + 1>>) ELSE mem[f]]
        /\ tar' = [block |-> next_address(tar.block, getsize(SizeField(archive[k].size))),
                   i |-> tar.i + 1, list |-> <<archive[k]>> \o tar.list, frame |-> 0,
                   tails |-> Append(tar.tails, tail)]
  BY <1>0
<1>3. tail \in Frames /\ tail # KernelPd /\ tail # KernelPd + 1
  <2>1. tar.frame \in {0} \cup Low
    BY <1>1 DEF TypeOK
  <2>2. tail = 0 \/ (tar.frame # 0 /\ tail = tar.frame + 1)
    BY <1>2 DEF TailFrame
  <2> QED BY <2>1, <2>2, AddressSpacesAssumption DEF Low, Frames
<1>4. tar.i + 1 \in Nat
  BY <1>1 DEF TypeOK
<1>5. DataContent(<<tar.i + 1>>) \in [page : PageType, data : Seq(Nat)]
  BY <1>4, ZeroPageEmpty DEF DataContent
<1>6. mem' \in MemType
  BY <1>1, <1>2, <1>5 DEF TypeOK, MemType
<1>7. KernelTables'
  <2>1. KernelPd \in Frames /\ KernelPd + 1 \in Frames
    BY Layout
  <2>2. SamePage(mem, mem', KernelPd) /\ SamePage(mem, mem', KernelPd + 1)
    BY <1>2, <1>3, <2>1 DEF SamePage, Entry
  <2>3. used \subseteq used' /\ \A f \in used : owner'[f] = owner[f]
    BY <1>1
  <2> QED BY <1>1, <2>2, <2>3, KernelKept
<1>8. /\ tar'.list \in Seq(Range(archive)) /\ tar'.tails \in Seq(Frames) /\ tar'.frame = 0
      /\ tar'.i = tar.i + 1
  <2>1. PICK R : R = Range(archive)
    OBVIOUS
  <2>2. archive[k] \in R
    BY <2>1 DEF Files, Range
  <2>3. tar.list \in Seq(R) /\ tar.tails \in Seq(Frames)
    BY <1>1, <2>1 DEF TypeOK
  <2>4. <<archive[k]>> \o tar.list \in Seq(R)
    BY <2>2, <2>3
  <2>5. Append(tar.tails, tail) \in Seq(Frames)
    BY <1>3, <2>3
  <2> QED BY <1>2, <2>1, <2>4, <2>5
<1>9. TypeOK'
  BY <1>1, <1>4, <1>6, <1>8 DEF TypeOK, MemType
<1>10. Gapless' /\ Spaces' /\ Booting' /\ Calling' /\ StackFrames' /\ SegmentFrame' /\ Cr3'
  BY <1>1 DEF IInv, Gapless, Spaces, Booting, Calling, Making, StackFrames, SegmentFrame, Cr3, SharesHalf
<1> QED BY <1>7, <1>9, <1>10 DEF IInv

LEMMA StepParse ==
    ASSUME IInv, ParseEnds \/ ParseFault
    PROVE  IInv'
<1>1. /\ TypeOK /\ pc \in {"parse_tar", "parse_copy"} /\ cr3 = KernelPd
      /\ mem' = mem /\ cr3' = cr3 /\ archive' = archive /\ new' = new /\ procs' = procs
      /\ pc' \in {"create_process", "fault"}
  BY DEF IInv, Cr3, ParseEnds, ParseFault
<1>3. /\ Booting' /\ Calling' /\ StackFrames'
  BY <1>1 DEF Booting, Calling, Making, StackFrames
<1>4. SegmentFrame' /\ Cr3'
  BY <1>1 DEF IInv, SegmentFrame, Cr3, SharesHalf
<1>5. UNCHANGED <<mem, used, owner, procs>> /\ tar' = tar
  BY DEF ParseEnds, ParseFault
<1>6. Gapless' /\ KernelTables' /\ Spaces'
  BY <1>5, QuietKept
<1>7. todo' \in Seq(Programs)
  <2>1. CASE ParseFault
    BY <1>1, <2>1 DEF ParseFault, TypeOK
  <2>2. CASE ParseEnds
    <3>1. PICK l : l = tar.list
      OBVIOUS
    <3>2. PICK R : R = Range(archive)
      OBVIOUS
    <3>3. l \in Seq(R)
      BY <1>1, <3>1, <3>2 DEF TypeOK
    <3>4. Len(l) \in Nat /\ \A x \in 1 .. Len(l) : l[x] \in R
      BY <3>3
    <3>5. \A r \in R : r.program \in Programs
      BY <1>1, <3>2, AddressSpacesAssumption DEF Range, TypeOK
    <3>6. \A i \in 1 .. (2 * Len(l)) : (i + 1) \div 2 \in 1 .. Len(l)
      BY <3>4
    <3>7. \A i \in 1 .. (2 * Len(l)) : l[(i + 1) \div 2].program \in Programs
      BY <3>4, <3>5, <3>6
    <3>8. Calls(l) \in [1 .. (2 * Len(l)) -> Programs] /\ 2 * Len(l) \in Nat
      BY <3>4, <3>7 DEF Calls
    <3>9. Calls(l) \in Seq(Programs)
      BY <3>8, SeqDef
    <3> QED BY <2>2, <3>1, <3>9 DEF ParseEnds
  <2> QED BY <2>1, <2>2
<1>8. TypeOK'
  BY <1>1, <1>5, <1>7 DEF TypeOK, Done
<1> QED BY <1>3, <1>4, <1>6, <1>8 DEF IInv

\* The steps that change nothing but the boot thread's locals.
LEMMA StepQuiet ==
    ASSUME IInv, skip_file \/ enter \/ leave \/ next_segment \/ PageFault \/ OutOfFrames
    PROVE  IInv'
<1>1. TypeOK /\ UNCHANGED <<mem, used, owner, procs, archive, tar>>
      /\ new'.pd = new.pd
  BY DEF IInv, TypeOK, skip_file, enter, leave, next_segment, PageFault, OutOfFrames
<1>2. Gapless' /\ KernelTables' /\ Spaces'
  BY <1>1, QuietKept
<1>3. pc \in Making => todo # <<>> /\ SharesHalf(new.pd) /\ Space(new.pd, Me)'
  <2> SUFFICES ASSUME pc \in Making PROVE SharesHalf(new.pd) /\ Space(new.pd, Me)' /\ todo # <<>>
    OBVIOUS
  <2> QED BY <1>1, MakingStays DEF IInv, Calling
<1>4. SharesHalf(cr3)
  BY DEF IInv, Cr3
<1>5. CASE skip_file
  <2>1. pc = "create_process" /\ pc' = pc /\ cr3' = cr3 /\ new' = new
        /\ todo # <<>> /\ todo' = Tail(todo)
    BY <1>5 DEF skip_file
  <2>2. TypeOK'
    BY <1>1, <2>1, HeadProgram DEF TypeOK
  <2>3. Booting' /\ Calling' /\ StackFrames' /\ SegmentFrame' /\ Cr3'
    BY <1>1, <1>4, <2>1 DEF IInv, Booting, Calling, Making, StackFrames, SegmentFrame, Cr3, SharesHalf
  <2> QED BY <1>2, <2>2, <2>3 DEF IInv
<1>6. CASE enter
  <2>1. pc = "enter" /\ pc' \in {"segment", "leave"} /\ cr3' = new.pd /\ new' = new /\ todo' = todo
    BY <1>6 DEF enter
  <2>2. TypeOK'
    BY <1>1, <2>1 DEF TypeOK
  <2>3. Calling'
    BY <1>3, <2>1 DEF Calling, Making
  <2>4. Booting' /\ StackFrames' /\ SegmentFrame'
    BY <1>1, <2>1 DEF IInv, Booting, StackFrames, SegmentFrame
  <2>5. Cr3'
    BY <1>1, <1>3, <2>1 DEF Making, Cr3, SharesHalf
  <2> QED BY <1>2, <2>2, <2>3, <2>4, <2>5 DEF IInv
<1>7. CASE leave
  <2>1. pc = "leave" /\ pc' = "calloc" /\ cr3' = KernelPd /\ new' = new /\ todo' = todo
    BY <1>7 DEF leave
  <2>2. TypeOK'
    BY <1>1, <2>1, Layout DEF TypeOK
  <2>3. Calling'
    BY <1>3, <2>1 DEF Calling, Making
  <2>4. Booting' /\ StackFrames' /\ SegmentFrame'
    BY <1>1, <2>1 DEF IInv, Booting, StackFrames, SegmentFrame
  <2>5. Cr3'
    BY <2>1 DEF Cr3, SharesHalf
  <2> QED BY <1>2, <2>2, <2>3, <2>4, <2>5 DEF IInv
<1>8. CASE next_segment
  <2>1. pc = "segment" /\ pc' \in {"segment", "leave"} /\ cr3' = cr3 /\ todo' = todo
        /\ (new' = new \/ new' = [new EXCEPT !.segment = @ + 1])
    BY <1>8 DEF next_segment
  <2>2. new' \in [pd : Frames, stack : Frames, phys : Frames, segment : Nat] /\ new'.segment # 0
    <3>1. new \in [pd : Frames, stack : Frames, phys : Frames, segment : Nat] /\ new.segment # 0
      BY <1>1 DEF TypeOK, IInv, SegmentFrame
    <3> QED BY <2>1, <3>1
  <2>3. TypeOK'
    BY <1>1, <2>1, <2>2 DEF TypeOK
  <2>4. Calling'
    BY <1>3, <2>1 DEF Calling, Making
  <2>5. Booting' /\ StackFrames' /\ SegmentFrame'
    BY <2>1, <2>2 DEF Booting, StackFrames, SegmentFrame
  <2>6. Cr3'
    BY <1>1, <1>4, <2>1 DEF IInv, Cr3, SharesHalf
  <2> QED BY <1>2, <2>3, <2>4, <2>5, <2>6 DEF IInv
<1>9. CASE PageFault \/ OutOfFrames
  <2>1. pc' \in {"fault", "null"} /\ cr3' = cr3 /\ todo' = todo /\ new' = new
    BY <1>9 DEF PageFault, OutOfFrames
  <2>2. TypeOK'
    BY <1>1, <2>1 DEF TypeOK, Done
  <2>3. Booting' /\ Calling' /\ StackFrames' /\ SegmentFrame'
    BY <2>1 DEF IInv, Booting, Calling, Making, StackFrames, SegmentFrame
  <2>4. Cr3'
    BY <1>1, <1>4, <2>1 DEF Cr3, SharesHalf
  <2> QED BY <1>2, <2>2, <2>3, <2>4 DEF IInv
<1> QED BY <1>5, <1>6, <1>7, <1>8, <1>9

LEMMA StepCopy == ASSUME IInv, copy PROVE IInv'
<1>1. TypeOK /\ Gapless /\ KernelTables /\ pc = "create_process" /\ todo # <<>>
      /\ cr3 = KernelPd
  BY DEF IInv, copy, Called, Cr3
<1>2. PICK f \in Low : /\ Takes(f, Me)
                       /\ mem' = [mem EXCEPT ![f] = mem[KernelPd]]
                       /\ new' = [NoCall EXCEPT !.pd = f]
  BY DEF copy
<1>3. pc' = "allocate_stack" /\ UNCHANGED <<cr3, archive, tar, todo, procs>>
  BY DEF copy
<1>4. /\ f \notin used /\ used' = used \cup {f} /\ used' \subseteq Low
      /\ owner' \in [Frames -> Nat] /\ owner'[f] = Me
      /\ \A g \in used : owner'[g] = owner[g]
      /\ Gapless'
  BY <1>1, <1>2, MeValue, TakesFrame
<1>5. f \in Frames /\ KernelPd \in Frames /\ f # KernelPd
  BY Layout
<1>6. mem' \in MemType
  BY <1>1, <1>2, <1>5 DEF TypeOK, MemType
<1>7. \A g \in Frames : g # f => SamePage(mem, mem', g)
  BY <1>1, <1>2, <1>5 DEF TypeOK, SamePage, Entry
<1>8. \A k \in Index : Entry(mem', f, k) = Entry(mem, KernelPd, k)
  BY <1>1, <1>2, <1>5 DEF TypeOK, Entry
<1>9. KernelTables' /\ Spaces'
  BY <1>3, <1>4, <1>7, OthersKept
<1>10. TypeOK'
  <2>1. new' \in [pd : Frames, stack : Frames, phys : Frames, segment : Nat]
    BY <1>2, <1>5, AddressSpacesAssumption DEF NoCall, Frames
  <2> QED BY <1>1, <1>3, <1>4, <1>6, <2>1 DEF TypeOK, MemType
<1>11. Space(f, Me)'
  <2>1. f \in used' /\ owner'[f] = Me'
    BY <1>3, <1>4 DEF Me
  <2>2. SharesHalf(f)'
    BY <1>5, <1>7, <1>8 DEF SharesHalf, SamePage
  <2>3. ASSUME NEW t PROVE ~UserTable(t, f)'
    BY <1>1, <1>8 DEF UserTable, KernelTables
  <2> QED BY <2>1, <2>2, <2>3 DEF Space
<1>12. new'.pd = f /\ new'.segment = 1
  BY <1>2 DEF NoCall
<1>13. Calling'
  <2>1. Space(new.pd, Me)'
    BY <1>11, <1>12 DEF Space, SharesHalf, UserTable, UserFrame
  <2> QED BY <1>1, <1>3, <2>1 DEF Calling
<1>14. Booting' /\ StackFrames' /\ SegmentFrame' /\ Cr3'
  BY <1>1, <1>3, <1>12 DEF Booting, StackFrames, SegmentFrame, Cr3, SharesHalf
<1> QED BY <1>4, <1>9, <1>10, <1>13, <1>14 DEF IInv

\* The steps of create_process that allocate a frame for the process.
LEMMA StepAllocate ==
    ASSUME IInv, allocate_stack \/ allocate_kernel \/ allocate_segment
    PROVE  IInv'
<1>1. TypeOK /\ Gapless /\ pc \in {"allocate_stack", "allocate_kernel", "segment"}
  BY DEF IInv, allocate_stack, allocate_kernel, allocate_segment
<1>2. PICK d : d = new.pd
  OBVIOUS
<1>3. PICK who : who = Me
  OBVIOUS
<1>4. d \in Frames /\ who \in Nat /\ Space(d, who) /\ todo # <<>> /\ new.segment # 0
      /\ SharesHalf(cr3) /\ pc \in Making
  BY <1>1, <1>2, <1>3, MeValue DEF TypeOK, IInv, Calling, Making, Cr3, SegmentFrame
<1>5. PICK f \in Low : Takes(f, who)
  BY <1>3 DEF allocate_stack, allocate_kernel, allocate_segment
<1>6. /\ mem' = mem /\ cr3' = cr3 /\ archive' = archive /\ tar' = tar /\ todo' = todo
      /\ procs' = procs
  BY DEF allocate_stack, allocate_kernel, allocate_segment
<1>7. /\ f \notin used /\ used' = used \cup {f} /\ used' \subseteq Low
      /\ owner' \in [Frames -> Nat] /\ owner'[f] = who
      /\ \A g \in used : owner'[g] = owner[g]
      /\ Gapless'
  BY <1>1, <1>4, <1>5, TakesFrame
<1>8. UserFrame(f, d, who)'
  BY <1>1, <1>4, <1>6, <1>7, FreshFrame
<1>80. /\ Space(d, who)'
       /\ \A g : UserFrame(g, d, who) => UserFrame(g, d, who)'
  BY <1>4, <1>6, <1>7, SpaceStays
<1>9. KernelTables' /\ Spaces'
  <2>1. \A g \in Frames : SamePage(mem, mem', g)
    BY <1>6 DEF SamePage
  <2>2. used \subseteq used'
    BY <1>7
  <2> QED BY <1>6, <1>7, <2>1, <2>2, OthersKept
<1>10. who = Me'
  BY <1>3, <1>6 DEF Me
<1>11. \A g \in Low : g \in Frames /\ g \in Nat
  BY Layout
<1>12. \A g \in used : g < f
  <2> SUFFICES ASSUME NEW g \in used, ~(g < f) PROVE FALSE
    OBVIOUS
  <2>1. g \in Low /\ f \in Low /\ g # f
    BY <1>1, <1>7 DEF TypeOK
  <2>2. f < g
    BY <1>11, <2>1
  <2> QED BY <1>1, <1>7, <2>1, <2>2 DEF Gapless
<1>13. new \in [pd : Frames, stack : Frames, phys : Frames, segment : Nat]
  BY <1>1 DEF TypeOK
<1>14. CASE allocate_stack
  <2>1. pc = "allocate_stack" /\ pc' = "allocate_kernel"
    BY <1>14 DEF allocate_stack
  <2>2. PICK g \in Low : Takes(g, Me) /\ new' = [new EXCEPT !.stack = g]
    BY <1>14 DEF allocate_stack
  <2>3. g = f
    BY <1>5, <1>11, <2>2 DEF Takes, allocate_frame
  <2>4. /\ new' \in [pd : Frames, stack : Frames, phys : Frames, segment : Nat]
        /\ new'.pd = d /\ new'.stack = f /\ new'.segment = new.segment
    BY <1>2, <1>11, <1>13, <2>2, <2>3
  <2>5. TypeOK'
    BY <1>1, <1>6, <1>7, <2>1, <2>4 DEF TypeOK
  <2>6. Calling'
    <3>1. Space(new.pd, Me)'
      BY <1>10, <1>80, <2>4 DEF Space, SharesHalf, UserTable, UserFrame
    <3> QED BY <1>4, <1>6, <3>1 DEF Calling
  <2>7. StackFrames'
    <3>1. \A g1 \in used' : g1 <= new'.stack
      <4>1. \A g1 \in used : g1 \in Nat /\ g1 < f
        BY <1>1, <1>11, <1>12 DEF TypeOK
      <4> QED BY <1>7, <1>11, <2>4, <4>1
    <3>2. UserFrame(new.stack, new.pd, Me)'
      BY <1>8, <1>10, <2>4 DEF UserFrame, UserTable
    <3> QED BY <2>1, <3>1, <3>2 DEF StackFrames
  <2>8. Booting' /\ SegmentFrame'
    BY <1>4, <2>1, <2>4 DEF Booting, SegmentFrame
  <2>9. Cr3'
    BY <1>4, <1>6, <2>1 DEF IInv, Cr3, SharesHalf
  <2> QED BY <1>7, <1>9, <2>5, <2>6, <2>7, <2>8, <2>9 DEF IInv
<1>15. CASE allocate_kernel
  <2>1. pc = "allocate_kernel" /\ pc' = "map_stack" /\ new' = new
    BY <1>15 DEF allocate_kernel
  <2>2. TypeOK'
    BY <1>1, <1>6, <1>7, <2>1, AfterMapValues DEF TypeOK
  <2>3. Calling'
    <3>1. Space(new.pd, Me)'
      BY <1>2, <1>10, <1>80, <2>1 DEF Space, SharesHalf, UserTable, UserFrame
    <3> QED BY <1>4, <1>6, <3>1 DEF Calling
  <2>4. f = new.stack + 1
    <3>1. /\ new.stack \in used /\ new.stack \in Low /\ new.stack \in Nat
          /\ \A g \in used : g <= new.stack
      BY <1>1, <1>11, <2>1 DEF IInv, StackFrames, UserFrame, TypeOK
    <3>2. new.stack < f /\ f \in Nat /\ f <= LowFrames /\ 1 <= f
      BY <1>11, <1>12, <3>1, AddressSpacesAssumption DEF Low
    <3>3. new.stack + 1 \in Low
      BY <3>1, <3>2, AddressSpacesAssumption DEF Low
    <3>4. new.stack + 1 \notin used
      BY <3>1
    <3>5. f <= new.stack + 1
      BY <1>5, <3>3, <3>4 DEF Takes, allocate_frame
    <3> QED BY <3>1, <3>2, <3>5
  <2>5. StackFrames'
    <3>1. UserFrame(new.stack, d, who)
      BY <1>2, <1>3, <2>1 DEF IInv, StackFrames
    <3>2. PICK g : g = new.stack
      OBVIOUS
    <3>3. UserFrame(g, d, who)'
      BY <1>80, <3>1, <3>2
    <3>4. UserFrame(new.stack, new.pd, Me)'
      BY <1>2, <1>10, <2>1, <3>2, <3>3 DEF UserFrame, UserTable
    <3>5. UserFrame(new.stack + 1, new.pd, Me)'
      BY <1>2, <1>8, <1>10, <2>1, <2>4 DEF UserFrame, UserTable
    <3> QED BY <2>1, <3>4, <3>5 DEF StackFrames
  <2>6. Booting' /\ SegmentFrame'
    BY <1>4, <2>1 DEF Booting, SegmentFrame
  <2>7. Cr3'
    BY <1>4, <1>6, <2>1 DEF IInv, Cr3, SharesHalf
  <2> QED BY <1>7, <1>9, <2>2, <2>3, <2>5, <2>6, <2>7 DEF IInv
<1>16. CASE allocate_segment
  <2>1. pc = "segment" /\ pc' = "map_segment" /\ new.segment <= Len(Head(todo).segments)
    BY <1>16 DEF allocate_segment
  <2>2. PICK g \in Low : Takes(g, Me) /\ new' = [new EXCEPT !.phys = g]
    BY <1>16 DEF allocate_segment
  <2>3. g = f
    BY <1>5, <1>11, <2>2 DEF Takes, allocate_frame
  <2>4. /\ new' \in [pd : Frames, stack : Frames, phys : Frames, segment : Nat]
        /\ new'.pd = d /\ new'.phys = f /\ new'.segment = new.segment
    BY <1>2, <1>11, <1>13, <2>2, <2>3
  <2>5. TypeOK'
    BY <1>1, <1>6, <1>7, <2>1, <2>4, AfterMapValues DEF TypeOK
  <2>6. Calling'
    <3>1. Space(new.pd, Me)'
      BY <1>10, <1>80, <2>4 DEF Space, SharesHalf, UserTable, UserFrame
    <3> QED BY <1>4, <1>6, <3>1 DEF Calling
  <2>7. SegmentFrame'
    <3>1. UserFrame(new.phys, new.pd, Me)'
      BY <1>8, <1>10, <2>4 DEF UserFrame, UserTable
    <3>2. new.segment \in DOMAIN Head(todo).segments
      BY <1>1, <1>4, <1>13, <2>1, HeadProgram
    <3>3. Segment.load
      BY <1>16 DEF allocate_segment
    <3>4. todo' = todo
      BY <1>16 DEF allocate_segment
    <3>5. Segment' = Segment
      BY <2>4, <3>4 DEF Segment
    <3> QED BY <1>4, <1>6, <2>4, <3>1, <3>2, <3>3, <3>5 DEF SegmentFrame
  <2>8. Booting' /\ StackFrames'
    BY <2>1 DEF Booting, StackFrames
  <2>9. Cr3'
    BY <1>2, <1>4, <1>6, <2>1, <2>4 DEF IInv, Cr3, SharesHalf
  <2> QED BY <1>7, <1>9, <2>5, <2>6, <2>7, <2>8, <2>9 DEF IInv
<1> QED BY <1>14, <1>15, <1>16

LEMMA StepCalloc == ASSUME IInv, calloc PROVE IInv'
<1>1. /\ TypeOK /\ Gapless /\ pc = "calloc" /\ pc' = "create_process" /\ todo # <<>>
      /\ Space(new.pd, Me) /\ new.pd \in Frames /\ cr3 = KernelPd /\ new.segment # 0
  BY DEF IInv, TypeOK, calloc, Calling, Making, Cr3, SegmentFrame
<1>2. /\ cr3' = cr3 /\ archive' = archive /\ tar' = tar /\ new' = new
      /\ todo' = Tail(todo) /\ malloc
      /\ procs' = Append(procs, [pd |-> new.pd, program |-> Head(todo)])
  BY DEF calloc
<1>3. /\ mem' \in MemType /\ used' \subseteq Low /\ owner' \in [Frames -> Nat] /\ Gapless'
      /\ used \subseteq used' /\ \A f \in used : owner'[f] = owner[f]
      /\ \A g \in Frames : (g \notin Low \/ g \in used) => SamePage(mem, mem', g)
  <2>1. \A g \in Frames : (g \notin Low \/ g \in used) => mem'[g] = mem[g]
    BY <1>1, <1>2, MallocStep
  <2>2. \A g \in Frames : (g \notin Low \/ g \in used) => SamePage(mem, mem', g)
    BY <2>1 DEF SamePage, Entry
  <2> QED BY <1>1, <1>2, <2>2, MallocStep
<1>4. /\ KernelTables'
      /\ \A i \in DOMAIN procs : \A d, who :
            d = procs[i].pd /\ who = Owner(i) => Space(d, who)'
  BY <1>3, OthersSpaces
<1>5. ASSUME NEW d, NEW who, d = new.pd, who = Me PROVE Space(d, who)'
  <2>1. d \in Frames /\ Space(d, who)
    BY <1>1, <1>5
  <2>2. SamePage(mem, mem', d) /\ \A t \in Frames : UserTable(t, d) => SamePage(mem, mem', t)
    BY <1>3, <2>1 DEF Space
  <2>3. \A i \in Index : i >= Half => Entry(mem', KernelPd, i) = Entry(mem, KernelPd, i)
    BY <1>3, Layout DEF SamePage
  <2> QED BY <1>3, <2>1, <2>2, <2>3, SpaceKept
<1>6. /\ procs' \in Seq([pd : Frames, program : Programs]) /\ Tail(todo) \in Seq(Programs)
      /\ DOMAIN procs' = 1 .. (Len(procs) + 1)
      /\ procs'[Len(procs) + 1].pd = new.pd
      /\ \A i \in 1 .. Len(procs) : procs'[i] = procs[i]
  <2>1. PICK P : P = [pd : Frames, program : Programs]
    OBVIOUS
  <2>2. PICK p : p = [pd |-> new.pd, program |-> Head(todo)]
    OBVIOUS
  <2>3. p \in P /\ p.pd = new.pd /\ Tail(todo) \in Seq(Programs)
    BY <1>1, <2>1, <2>2, HeadProgram
  <2>4. procs \in Seq(P)
    BY <1>1, <2>1 DEF TypeOK
  <2>5. procs' = Append(procs, p)
    BY <1>2, <2>2
  <2>6. /\ procs' \in Seq(P) /\ DOMAIN procs' = 1 .. (Len(procs) + 1)
        /\ procs'[Len(procs) + 1] = p
        /\ \A i \in 1 .. Len(procs) : procs'[i] = procs[i]
    BY <2>3, <2>4, <2>5
  <2> QED BY <2>1, <2>3, <2>6
<1>7. Spaces'
  <2> SUFFICES ASSUME NEW i \in DOMAIN procs' PROVE Space(procs[i].pd, Owner(i))'
    BY DEF Spaces
  <2>1. PICK d : d = procs'[i].pd
    OBVIOUS
  <2>2. PICK who : who = Owner(i)
    OBVIOUS
  <2>3. Space(d, who)'
    <3>1. Len(procs) \in Nat /\ DOMAIN procs = 1 .. Len(procs) /\ Me = Owner(Len(procs) + 1)
      BY <1>1, MeValue
    <3>2. CASE i \in 1 .. Len(procs)
      <4>1. d = procs[i].pd
        BY <1>6, <2>1, <3>2
      <4> QED BY <1>4, <2>2, <3>1, <3>2, <4>1
    <3>3. CASE i = Len(procs) + 1
      <4>1. d = new.pd /\ who = Me
        BY <1>6, <2>1, <2>2, <3>1, <3>3
      <4> QED BY <1>5, <4>1
    <3>4. i \in 1 .. Len(procs) \/ i = Len(procs) + 1
      BY <1>6, <3>1
    <3> QED BY <3>2, <3>3, <3>4
  <2> QED BY <2>1, <2>2, <2>3 DEF Owner, Space, SharesHalf, UserTable, UserFrame
<1>8. TypeOK'
  BY <1>1, <1>2, <1>3, <1>6 DEF TypeOK, Done, MemType
<1>9. Booting' /\ Calling' /\ StackFrames' /\ SegmentFrame' /\ Cr3'
  BY <1>1, <1>2 DEF Booting, Calling, Making, StackFrames, SegmentFrame, Cr3, SharesHalf
<1> QED BY <1>3, <1>4, <1>7, <1>8, <1>9 DEF IInv

LEMMA StepMemcpy == ASSUME IInv, memcpy, pc' # "kernel_half" PROVE IInv'
<1>1. /\ TypeOK /\ Gapless /\ pc = "memcpy" /\ pc' = "segment" /\ todo # <<>>
      /\ SegmentPages \subseteq UserPages
      /\ cr3 = new.pd /\ new.segment # 0 /\ new.segment \in DOMAIN Head(todo).segments
  BY DEF IInv, memcpy, Calling, Making, Cr3, SegmentFrame
<1>2. PICK d : d = new.pd
  OBVIOUS
<1>3. PICK who : who = Me
  OBVIOUS
<1>4. d \in Frames /\ who \in Nat /\ Space(d, who) /\ new.segment \in Nat
  BY <1>1, <1>2, <1>3, MeValue DEF TypeOK, IInv, Calling, Making
<1>5. /\ new' = [new EXCEPT !.segment = @ + 1]
      /\ UNCHANGED <<used, cr3, archive, tar, todo, procs, owner>>
  BY DEF memcpy
<1>6. PICK targets : targets = UNION {Walk(mem, cr3, v) : v \in SegmentPages}
  OBVIOUS
<1>7. PICK c : c = DataContent(IF SourceIntact THEN <<Me, new.segment>> ELSE NoData)
  OBVIOUS
<1>8. mem' = [f \in Frames |-> IF f \in targets THEN c ELSE mem[f]]
  BY <1>6, <1>7 DEF memcpy
<1>9. c \in [page : PageType, data : Seq(Nat)]
  <2>1. <<Me, new.segment>> \in Seq(Nat) /\ NoData \in Seq(Nat)
    BY <1>3, <1>4 DEF NoData
  <2> QED BY <1>7, <2>1, ZeroPageEmpty DEF DataContent
<1>10. \A f \in targets : UserFrame(f, d, who)
  <2> SUFFICES ASSUME NEW v \in SegmentPages, NEW f \in Walk(mem, d, v) PROVE UserFrame(f, d, who)
    BY <1>1, <1>2, <1>6
  <2>1. v \in UserPages
    BY <1>1
  <2> QED BY <1>1, <1>4, <2>1, UserWalk
<1>11. mem' \in MemType
  BY <1>1, <1>8, <1>9 DEF TypeOK, MemType
<1>12. \A g \in Frames : g \notin targets => SamePage(mem, mem', g)
  BY <1>8 DEF SamePage, Entry
<1>13. KernelTables' /\ Spaces'
  <2>1. \A g \in Frames : (g \notin Low \/ (g \in used /\ owner[g] # Me)) => SamePage(mem, mem', g)
    BY <1>1, <1>3, <1>10, <1>12 DEF UserFrame, TypeOK
  <2>2. used \subseteq used' /\ \A f \in used : owner'[f] = owner[f]
    BY <1>5
  <2> QED BY <1>5, <2>1, <2>2, OthersKept
<1>14. Space(d, who)'
  <2>1. SamePage(mem, mem', d) /\ \A t \in Frames : UserTable(t, d) => SamePage(mem, mem', t)
    BY <1>4, <1>10, <1>12 DEF UserFrame
  <2>2. \A i \in Index : i >= Half => Entry(mem', KernelPd, i) = Entry(mem, KernelPd, i)
    <3>1. KernelPd \in Frames /\ KernelPd \notin targets
      BY <1>1, <1>10, Layout DEF UserFrame, TypeOK
    <3> QED BY <1>12, <3>1 DEF SamePage
  <2>3. used \subseteq used' /\ \A f \in used : owner'[f] = owner[f]
    BY <1>5
  <2> QED BY <1>4, <2>1, <2>2, <2>3, SpaceKept
<1>15. /\ new' \in [pd : Frames, stack : Frames, phys : Frames, segment : Nat]
       /\ new'.pd = d /\ new'.segment # 0
  <2>1. new \in [pd : Frames, stack : Frames, phys : Frames, segment : Nat]
    BY <1>1 DEF TypeOK
  <2> QED BY <1>2, <1>5, <2>1
<1>16. who = Me'
  BY <1>3, <1>5 DEF Me
<1>17. Calling'
  <2>1. Space(new.pd, Me)'
    BY <1>14, <1>15, <1>16 DEF Space, SharesHalf, UserTable, UserFrame
  <2> QED BY <1>1, <1>5, <2>1 DEF Calling
<1>18. Gapless'
  BY <1>1, <1>5 DEF Gapless
<1>19. TypeOK'
  BY <1>1, <1>5, <1>11, <1>15 DEF TypeOK, MemType
<1>20. Cr3'
  <2>1. SharesHalf(d)'
    BY <1>14 DEF Space
  <2>2. cr3' = d
    BY <1>1, <1>2, <1>5
  <2> QED BY <1>1, <1>15, <2>1, <2>2 DEF Cr3, SharesHalf
<1>21. Booting' /\ StackFrames' /\ SegmentFrame'
  BY <1>1, <1>15 DEF Booting, StackFrames, SegmentFrame
<1> QED BY <1>13, <1>17, <1>18, <1>19, <1>20, <1>21 DEF IInv

\* map_page for the initrd.
LEMMA StepMapKernel ==
    ASSUME IInv, map_page_present \/ map_page_absent, pc \in {"map_initrd", "map_initrd_2"}
    PROVE  IInv'
<1>1. TypeOK /\ Gapless /\ KernelTables /\ cr3 = KernelPd /\ procs = <<>> /\ new.segment # 0
  BY DEF IInv, Cr3, Booting, SegmentFrame
<1>2. PICK p : p = IF pc = "map_initrd" THEN InitrdFrame ELSE InitrdFrame + 1
  OBVIOUS
<1>3. p \in Frames /\ (\A f \in Low : f < p) /\ KernelPd \in Frames
  <2>1. InitrdFrame \in Nat /\ \A f \in Low : f \in Nat /\ f < InitrdFrame
    BY Layout
  <2> QED BY <1>2, <2>1, Layout
<1>4. MapRequest = [dir |-> KernelPd, phys |-> p, virt |-> P2VPage(p), flags |-> 3, who |-> Kernel]
  BY <1>1, <1>2 DEF MapRequest
<1>5. /\ pc' \in {"map_initrd_2", "parse_tar"}
      /\ UNCHANGED <<cr3, archive, tar, todo, new, procs>>
  BY AfterMapValues DEF map_page_present, map_page_absent, MapEnds
<1>6. /\ mem' \in MemType /\ KernelTables' /\ used' \subseteq Low
      /\ owner' \in [Frames -> Nat] /\ Gapless'
  <2>1. CASE map_page_present
    <3>1. /\ HasTable(mem, KernelPd, P2VPage(p))
          /\ mem' = WithPage(mem, KernelPd, p, P2VPage(p), 3)
          /\ used' = used /\ owner' = owner
      BY <1>4, <2>1 DEF map_page_present
    <3>2. mem' \in MemType /\ KernelTables'
      BY <1>1, <1>3, <3>1, MapsKernelPresent
    <3> QED BY <1>1, <3>1, <3>2 DEF TypeOK, Gapless
  <2>2. CASE map_page_absent
    <3>1. PICK f \in Low :
            /\ ~HasTable(mem, KernelPd, P2VPage(p)) /\ Takes(f, Kernel)
            /\ mem' = WithPage(WithTable(mem, KernelPd, P2VPage(p), f),
                               KernelPd, p, P2VPage(p), 3)
      BY <1>4, <2>2 DEF map_page_absent
    <3>2. /\ f \notin used /\ used' = used \cup {f} /\ used' \subseteq Low
          /\ owner' \in [Frames -> Nat] /\ owner'[f] = Kernel
          /\ \A g \in used : owner'[g] = owner[g]
          /\ Gapless'
      <4>1. Kernel \in Nat
        BY DEF Kernel
      <4> QED BY <1>1, <3>1, <4>1, TakesFrame
    <3>3. mem' \in MemType /\ KernelTables'
      BY <1>1, <1>3, <3>1, <3>2, MapsKernelAbsent
    <3> QED BY <3>2, <3>3
  <2> QED BY <2>1, <2>2
<1>7. TypeOK'
  BY <1>1, <1>5, <1>6, AfterMapValues DEF TypeOK, MemType
<1>8. Spaces' /\ Booting' /\ Calling' /\ StackFrames' /\ SegmentFrame' /\ Cr3'
  BY <1>1, <1>5 DEF Spaces, Booting, Calling, Making, StackFrames, SegmentFrame, Cr3, SharesHalf
<1> QED BY <1>6, <1>7, <1>8 DEF IInv

\* map_page for the process in the making.
LEMMA StepMapUser ==
    ASSUME IInv, map_page_present \/ map_page_absent, pc' # "kernel_half",
           pc \in {"map_stack", "map_above", "map_segment"}
    PROVE  IInv'
<1>1. /\ TypeOK /\ Gapless /\ todo # <<>> /\ new.segment # 0
      /\ new \in [pd : Frames, stack : Frames, phys : Frames, segment : Nat]
  BY DEF IInv, TypeOK, Calling, Making, SegmentFrame
<1>2. PICK d : d = new.pd
  OBVIOUS
<1>3. PICK who : who = Me
  OBVIOUS
<1>4. d \in Frames /\ who \in Nat /\ Space(d, who)
  BY <1>1, <1>2, <1>3, MeValue DEF TypeOK, IInv, Calling, Making
<1>5. PICK phys : phys = CASE pc = "map_stack" -> new.stack
                           [] pc = "map_above" -> new.stack + 1
                           [] pc = "map_segment" -> new.phys
  OBVIOUS
<1>6. PICK v : v = CASE pc = "map_stack" -> StackPage
                     [] pc = "map_above" -> StackPage + 1
                     [] pc = "map_segment" -> Segment.page
  OBVIOUS
<1>7. UserFrame(phys, d, who) /\ phys \in Frames
  <2>1. UserFrame(phys, d, who)
    BY <1>2, <1>3, <1>5 DEF IInv, StackFrames, SegmentFrame
  <2> QED BY <1>1, <2>1, Layout DEF UserFrame, TypeOK
<1>8. v \in UserPages
  <2>1. CASE pc = "map_segment"
    BY <1>6, <2>1 DEF map_page_present, map_page_absent, MapEnds
  <2>2. CASE pc # "map_segment"
    BY <1>6, <2>2, AddressSpacesAssumption
  <2> QED BY <2>1, <2>2
<1>9. MapRequest = [dir |-> d, phys |-> phys, virt |-> v, flags |-> 7, who |-> who]
  BY <1>2, <1>3, <1>5, <1>6 DEF MapRequest, AboveStack
<1>10. /\ pc' = AfterMap[pc] /\ UNCHANGED <<cr3, archive, tar, todo, new, procs>>
  BY DEF map_page_present, map_page_absent, MapEnds
<1>100. 7 \in Flags
  BY DEF Flags
<1>11. /\ mem' \in MemType /\ Space(d, who)'
       /\ \A f : UserFrame(f, d, who) => UserFrame(f, d, who)'
       /\ used' \subseteq Low /\ owner' \in [Frames -> Nat] /\ Gapless'
       /\ used \subseteq used' /\ \A f \in used : owner'[f] = owner[f]
       /\ \A g \in Frames : (g \notin Low \/ (g \in used /\ owner[g] # who)) =>
                SamePage(mem, mem', g)
  <2>1. CASE map_page_present
    <3>1. /\ HasTable(mem, d, v) /\ mem' = WithPage(mem, d, phys, v, 7)
          /\ used' = used /\ owner' = owner
      BY <1>9, <2>1 DEF map_page_present
    <3>2. /\ Space(d, who)' /\ mem' \in MemType
          /\ \A f : UserFrame(f, d, who) => UserFrame(f, d, who)'
          /\ \A g \in Frames : SamePage(mem, mem', g) \/ (g \in used /\ owner[g] = who)
      BY <1>1, <1>4, <1>7, <1>8, <1>100, <3>1, MapsPresent
    <3>3. used' \subseteq Low /\ owner' \in [Frames -> Nat] /\ Gapless'
      BY <1>1, <3>1 DEF TypeOK, Gapless
    <3> QED BY <3>1, <3>2, <3>3
  <2>2. CASE map_page_absent
    <3>1. PICK f \in Low :
            /\ ~HasTable(mem, d, v) /\ Takes(f, who)
            /\ mem' = WithPage(WithTable(mem, d, v, f), d, phys, v, 7)
      BY <1>9, <2>2 DEF map_page_absent
    <3>2. /\ f \notin used /\ used' = used \cup {f} /\ used' \subseteq Low
          /\ owner' \in [Frames -> Nat] /\ owner'[f] = who
          /\ \A g \in used : owner'[g] = owner[g]
          /\ Gapless'
      BY <1>1, <1>4, <3>1, TakesFrame
    <3>3. /\ Space(d, who)' /\ mem' \in MemType
          /\ \A g : UserFrame(g, d, who) => UserFrame(g, d, who)'
          /\ \A g \in Frames : SamePage(mem, mem', g) \/ g = f \/ (g \in used /\ owner[g] = who)
      BY <1>1, <1>4, <1>7, <1>8, <1>100, <3>1, <3>2, MapsAbsent
    <3> QED BY <3>2, <3>3
  <2> QED BY <2>1, <2>2
<1>12. KernelTables' /\ Spaces'
  BY <1>3, <1>10, <1>11, OthersKept
<1>13. who = Me' /\ d = new'.pd
  BY <1>2, <1>3, <1>10 DEF Me
<1>14. Calling'
  <2>1. Space(new.pd, Me)'
    BY <1>11, <1>13 DEF Space, SharesHalf, UserTable, UserFrame
  <2> QED BY <1>1, <1>10, <2>1 DEF Calling
<1>15. /\ pc = "map_stack" => pc' = "map_above"
       /\ pc = "map_above" => pc' = "enter"
       /\ pc = "map_segment" => pc' = "memcpy"
  BY <1>10, AfterMapValues
<1>16. TypeOK'
  BY <1>1, <1>10, <1>11, <1>15, AfterMapValues DEF TypeOK, MemType
<1>17. StackFrames'
  <2>1. CASE pc = "map_stack"
    <3>1. UserFrame(new.stack, d, who) /\ UserFrame(new.stack + 1, d, who)
      BY <1>2, <1>3, <2>1 DEF IInv, StackFrames
    <3>2. PICK g : g = new.stack
      OBVIOUS
    <3>3. UserFrame(g, d, who)' /\ UserFrame(g + 1, d, who)'
      BY <1>11, <3>1, <3>2
    <3>4. UserFrame(new.stack, new.pd, Me)' /\ UserFrame(new.stack + 1, new.pd, Me)'
      BY <1>10, <1>13, <3>2, <3>3 DEF UserFrame, UserTable
    <3> QED BY <1>15, <2>1, <3>4 DEF StackFrames
  <2>2. CASE pc # "map_stack"
    BY <1>15, <2>2 DEF StackFrames
  <2> QED BY <2>1, <2>2
<1>18. Booting' /\ SegmentFrame'
  BY <1>1, <1>10, <1>15 DEF IInv, Booting, SegmentFrame, Segment
<1>19. Cr3'
  <2>1. CASE pc = "map_segment"
    <3>1. SharesHalf(d)'
      BY <1>11 DEF Space
    <3>2. cr3' = d /\ pc' = "memcpy"
      BY <1>2, <1>10, <1>15, <2>1 DEF IInv, Cr3
    <3> QED BY <1>13, <3>1, <3>2 DEF Cr3, SharesHalf
  <2>2. CASE pc # "map_segment"
    <3>1. cr3' = KernelPd /\ pc' \in {"map_above", "enter"}
      BY <1>10, <1>15, <2>2 DEF IInv, Cr3
    <3> QED BY <3>1 DEF Cr3, SharesHalf
  <2> QED BY <2>1, <2>2
<1> QED BY <1>11, <1>12, <1>14, <1>16, <1>17, <1>18, <1>19 DEF IInv

LEMMA InvNext == IInv /\ pc' # "kernel_half" /\ [Next]_vars => IInv'
<1> SUFFICES ASSUME IInv, pc' # "kernel_half", [Next]_vars PROVE IInv'
  OBVIOUS
<1>1. CASE map_page_present \/ map_page_absent
  <2>1. pc \in {"map_initrd", "map_initrd_2", "map_stack", "map_above", "map_segment"}
    BY <1>1, AfterMapValues DEF map_page_present, map_page_absent
  <2> QED BY <1>1, <2>1, StepMapKernel, StepMapUser
<1>2. CASE ParseHeader \/ ParseSize \/ ParseCopy \/ ParseEnds \/ ParseFault
  BY <1>2, StepParseMalloc, StepParseCopy, StepParse
<1>3. CASE skip_file \/ enter \/ leave \/ next_segment \/ PageFault \/ OutOfFrames
  BY <1>3, StepQuiet
<1>4. CASE copy
  BY <1>4, StepCopy
<1>5. CASE allocate_stack \/ allocate_kernel \/ allocate_segment
  BY <1>5, StepAllocate
<1>6. CASE calloc
  BY <1>6, StepCalloc
<1>7. CASE memcpy
  BY <1>7, StepMemcpy
<1>8. CASE UNCHANGED vars
  <2>1. UNCHANGED <<mem, used, owner, procs>>
        /\ UNCHANGED <<cr3, archive, tar, todo, new, pc>>
    BY <1>8 DEF vars
  <2>2. Gapless' /\ KernelTables' /\ Spaces'
    BY <2>1, QuietKept
  <2>3. TypeOK' /\ Booting'
    BY <2>1 DEF IInv, TypeOK, Booting
  <2>4. Calling'
    BY <2>1 DEF IInv, Calling, Me, Space, SharesHalf, UserTable, UserFrame
  <2>5. StackFrames' /\ SegmentFrame'
    BY <2>1 DEF IInv, StackFrames, SegmentFrame, Segment, Me, UserFrame, UserTable
  <2>6. Cr3'
    BY <2>1 DEF IInv, Cr3, SharesHalf
  <2> QED BY <2>2, <2>3, <2>4, <2>5, <2>6 DEF IInv
<1> QED BY <1>1, <1>2, <1>3, <1>4, <1>5, <1>6, <1>7, <1>8 DEF Next

\* A segment goes into the kernel's half only if its header says so.
LEMMA IntoKernelHalf ==
    ASSUME IInv, pc # "kernel_half", [Next]_vars, pc' = "kernel_half"
    PROVE  TypeOK' /\ ~BelowKernel(Head(todo))'
<1>1. \/ (map_page_present \/ map_page_absent) /\ pc = "map_segment" /\ Segment.page \notin UserPages
      \/ memcpy /\ ~(SegmentPages \subseteq UserPages)
  <2>1. CASE map_page_present \/ map_page_absent
    BY <2>1, AfterMapValues DEF map_page_present, map_page_absent, MapEnds
  <2>2. CASE memcpy
    BY <2>2 DEF memcpy
  <2>3. CASE ~(map_page_present \/ map_page_absent \/ memcpy)
    BY <2>3 DEF Next, vars, ParseHeader, ParseSize, ParseCopy, ParseEnds, ParseFault, skip_file,
                copy, allocate_stack, allocate_kernel, enter, leave, calloc, next_segment,
                allocate_segment, PageFault, OutOfFrames
  <2> QED BY <2>1, <2>2, <2>3
<1>2. /\ TypeOK /\ pc \in {"map_segment", "memcpy"} /\ todo # <<>> /\ Space(new.pd, Me)
      /\ new.segment \in DOMAIN Head(todo).segments /\ Segment.load
      /\ new \in [pd : Frames, stack : Frames, phys : Frames, segment : Nat]
  BY <1>1 DEF IInv, TypeOK, Calling, Making, SegmentFrame, memcpy
<1>3. UNCHANGED <<cr3, archive, tar, todo, procs>>
  BY <1>1 DEF map_page_present, map_page_absent, memcpy
<1>4. /\ Head(todo).segments[new.segment].page \in Nat
      /\ Head(todo).segments[new.segment].pages \in Nat \ {0}
      /\ Head(todo).segments[new.segment].page + Head(todo).segments[new.segment].pages
            <= ENTRIES * ENTRIES
  BY <1>2, HeadProgram
<1>5. PICK v : v = Segment.page
  OBVIOUS
<1>6. PICK n : n = Segment.pages
  OBVIOUS
<1>7. v \in Nat /\ n \in Nat \ {0} /\ v + n <= ENTRIES * ENTRIES
  BY <1>4, <1>5, <1>6 DEF Segment
<1>8. ~(v + n <= HIGHER_HALF)
  <2>1. ~(v .. (v + n - 1) \subseteq UserPages)
    <3>1. v \in v .. (v + n - 1)
      BY <1>7
    <3> QED BY <1>1, <1>5, <1>6, <3>1 DEF SegmentPages
  <2>2. PICK h : h = HIGHER_HALF
    OBVIOUS
  <2>3. h \in Nat /\ ~(v .. (v + n - 1) \subseteq 0 .. (h - 1))
    BY <2>1, <2>2, HalfValue DEF UserPages
  <2> QED BY <1>7, <2>2, <2>3
<1>9. ~BelowKernel(Head(todo))'
  <2>1. new.segment \in Loaded(Head(todo))
    BY <1>2 DEF Loaded, Segment
  <2>2. ~BelowKernel(Head(todo))
    BY <1>5, <1>6, <1>8, <2>1 DEF BelowKernel, Segment
  <2>3. todo' = todo
    BY <1>3
  <2> QED BY <2>2, <2>3 DEF BelowKernel, Loaded
<1>10. TypeOK'
  <2>1. CASE memcpy
    <3>1. PICK c : c = DataContent(IF SourceIntact THEN <<Me, new.segment>> ELSE NoData)
      OBVIOUS
    <3>2. PICK targets : mem' = [f \in Frames |-> IF f \in targets THEN c ELSE mem[f]]
      BY <2>1, <3>1 DEF memcpy
    <3>3. c \in [page : PageType, data : Seq(Nat)]
      <4>1. <<Me, new.segment>> \in Seq(Nat) /\ NoData \in Seq(Nat)
        BY <1>2, MeValue DEF NoData
      <4> QED BY <3>1, <4>1, ZeroPageEmpty DEF DataContent
    <3>4. mem' \in MemType
      BY <1>2, <3>2, <3>3 DEF TypeOK, MemType
    <3>5. new' \in [pd : Frames, stack : Frames, phys : Frames, segment : Nat]
      BY <1>2, <2>1 DEF memcpy
    <3>6. used' = used /\ owner' = owner
      BY <2>1 DEF memcpy
    <3> QED BY <1>2, <1>3, <3>4, <3>5, <3>6 DEF TypeOK, Done, MemType
  <2>2. CASE (map_page_present \/ map_page_absent) /\ pc = "map_segment"
    <3>1. PICK d : d = new.pd
      OBVIOUS
    <3>2. PICK phys : phys = new.phys
      OBVIOUS
    <3>3. /\ d \in Frames /\ phys \in Frames /\ mem \in MemType /\ 7 \in Flags /\ d \in used
          /\ Me \in Nat /\ Gapless
      BY <1>2, <3>1, <3>2, MeValue DEF TypeOK, MemType, Flags, Space, IInv
    <3>4. MapRequest = [dir |-> d, phys |-> phys, virt |-> v, flags |-> 7, who |-> Me]
      BY <1>5, <2>2, <3>1, <3>2 DEF MapRequest
    <3>5. pd_idx(v) \in Index /\ pt_idx(v) \in Index
      <4>1. ENTRIES \in Nat \ {0}
        BY EntriesAssumption
      <4>2. PICK q : q = v \div ENTRIES
        OBVIOUS
      <4>3. q \in Nat /\ v % ENTRIES \in 0 .. (ENTRIES - 1)
        BY <1>7, <4>1, <4>2, Division
      <4>4. q % ENTRIES \in 0 .. (ENTRIES - 1)
        BY <4>1, <4>3, Division
      <4> QED BY <4>2, <4>3, <4>4 DEF pd_idx, pt_idx, Index
    <3>6. mem' \in MemType /\ used' \subseteq Low /\ owner' \in [Frames -> Nat] /\ new' = new
      <4>1. CASE map_page_present
        <5>1. mem' = WithPage(mem, d, phys, v, 7) /\ used' = used /\ owner' = owner /\ new' = new
          BY <3>4, <4>1 DEF map_page_present
        <5> QED BY <1>2, <3>3, <3>5, <5>1, WithPageType DEF TypeOK
      <4>2. CASE map_page_absent
        <5>1. PICK f \in Low :
                /\ Takes(f, Me)
                /\ mem' = WithPage(WithTable(mem, d, v, f), d, phys, v, 7)
          BY <3>4, <4>2 DEF map_page_absent
        <5>2. f \notin used /\ used' \subseteq Low /\ owner' \in [Frames -> Nat]
          BY <1>2, <3>3, <5>1, TakesFrame
        <5>3. PICK w : w = WithTable(mem, d, v, f)
          OBVIOUS
        <5>4. w \in MemType
          BY <3>3, <3>5, <5>2, <5>3, Layout, WithTableEffect
        <5>5. mem' \in MemType
          BY <3>3, <3>5, <5>1, <5>3, <5>4, WithPageType
        <5> QED BY <4>2, <5>2, <5>5 DEF map_page_absent
      <4> QED BY <2>2, <4>1, <4>2
    <3> QED BY <1>2, <1>3, <3>6 DEF TypeOK, Done, MemType
  <2> QED BY <1>1, <2>1, <2>2
<1> QED BY <1>9, <1>10

\* There the model ends.
LEMMA KernelHalfEnds ==
    ASSUME pc = "kernel_half", [Next]_vars
    PROVE  UNCHANGED vars
<1>1. pc \notin DOMAIN AfterMap
  BY AfterMapValues
<1> QED BY <1>1 DEF Next, map_page_present, map_page_absent, ParseHeader, ParseSize, ParseCopy,
            ParseEnds, ParseFault, skip_file, copy, Called, allocate_stack, allocate_kernel, enter,
            leave, calloc, next_segment, allocate_segment, memcpy, PageFault, OutOfFrames,
            AsksForFrame

LEMMA HalfNext == HalfInv /\ [Next]_vars => HalfInv'
<1> SUFFICES ASSUME HalfInv, [Next]_vars PROVE HalfInv'
  OBVIOUS
<1>1. CASE pc = "kernel_half"
  <2>1. UNCHANGED <<mem, used, owner, procs>> /\ UNCHANGED <<cr3, archive, tar, todo, new, pc>>
    BY <1>1, KernelHalfEnds DEF vars
  <2>2. TypeOK' /\ ~BelowKernel(Head(todo))'
    BY <1>1, <2>1 DEF HalfInv, TypeOK, BelowKernel, Loaded
  <2> QED BY <1>1, <2>1, <2>2 DEF HalfInv
<1>2. CASE pc # "kernel_half" /\ pc' = "kernel_half"
  BY <1>2, IntoKernelHalf DEF HalfInv
<1>3. CASE pc # "kernel_half" /\ pc' # "kernel_half"
  <2>1. IInv'
    BY <1>3, InvNext DEF HalfInv
  <2>2. TypeOK'
    BY <2>1 DEF IInv
  <2> QED BY <1>3, <2>1, <2>2 DEF HalfInv
<1> QED BY <1>1, <1>2, <1>3
-----------------------------------------------------------------------------
(* What the invariant says of a state. *)

LEMMA ProcessSpace ==
    ASSUME IInv, NEW i \in DOMAIN procs
    PROVE  procs[i].pd \in Frames /\ Space(procs[i].pd, Owner(i)) /\ i \in Nat \ {0}
<1>1. procs \in Seq([pd : Frames, program : Programs])
  BY DEF IInv, TypeOK
<1>2. i \in 1 .. Len(procs) /\ Len(procs) \in Nat
  BY <1>1
<1>3. procs[i] \in [pd : Frames, program : Programs]
  BY <1>1, <1>2, ElementOfSeq, Zenon
<1> QED BY <1>2, <1>3 DEF IInv, Spaces

\* A frame that a process reaches below the higher half is no table of its
\* directory: not one of the lower half, by UserFrame, and not one of the
\* kernel's, which are the boot table or were allocated for the kernel.
LEMMA InvOwned == HalfInv => UserFramesOwned
<1> SUFFICES ASSUME IInv, NEW i \in DOMAIN procs, NEW v \in UserPages,
                    NEW f \in Walk(mem, procs[i].pd, v)
             PROVE  owner[f] = Owner(i) /\ f \notin TablesOf(procs[i].pd)
  BY DEF UserFramesOwned, HalfInv
<1>1. PICK d : d = procs[i].pd
  OBVIOUS
<1>2. PICK who : who = Owner(i)
  OBVIOUS
<1>3. TypeOK /\ d \in Frames /\ Space(d, who) /\ i \in Nat \ {0}
  BY <1>1, <1>2, ProcessSpace DEF IInv
<1>4. UserFrame(f, d, who)
  BY <1>1, <1>3, UserWalk
<1>5. ASSUME NEW k \in Index, present(Entry(mem, d, k)) PROVE f # Entry(mem, d, k).frame
  <2>1. CASE k < Half
    BY <1>4, <1>5, <2>1 DEF UserFrame, UserTable
  <2>2. CASE k = Half
    <3>1. Entry(mem, d, k) = PageEntry(KernelPd + 1, 3) /\ 3 \in Flags
      BY <1>3, <2>2, HalfValue DEF IInv, KernelTables, Space, SharesHalf, Flags, Index
    <3>2. Entry(mem, d, k).frame = KernelPd + 1
      BY <3>1, Layout, Entries
    <3> QED BY <1>3, <1>4, <3>2, Layout DEF UserFrame, TypeOK
  <2>3. CASE k > Half
    <3>1. k >= Half
      BY <2>3, HalfValue DEF Index
    <3>2. owner[Entry(mem, d, k).frame] = Kernel
      BY <1>3, <1>5, <2>3, <3>1 DEF IInv, KernelTables, Space, SharesHalf
    <3>3. who # Kernel
      BY <1>2, <1>3 DEF Owner, Kernel
    <3> QED BY <1>4, <3>2, <3>3 DEF UserFrame
  <2> QED BY <2>1, <2>2, <2>3, HalfValue DEF Index
<1>6. f \notin TablesOf(d)
  <2> SUFFICES ASSUME NEW e \in Range(mem[d].page), present(e), f = e.frame PROVE FALSE
    BY <1>4 DEF TablesOf, UserFrame
  <2>1. PICK k \in DOMAIN mem[d].page : e = mem[d].page[k]
    BY DEF Range
  <2>2. DOMAIN mem[d].page = Index
    BY <1>3 DEF TypeOK, PageType
  <2> QED BY <1>5, <2>1, <2>2 DEF Entry
<1> QED BY <1>1, <1>2, <1>4, <1>6 DEF UserFrame

\* Directories with the same higher half map it alike, and the boot table has
\* every frame that can be handed out at its place.
LEMMA InvHalf == HalfInv => KernelHalfKept
<1> SUFFICES ASSUME IInv, pc # "kernel_half" PROVE KernelHalfKept
  BY DEF HalfInv, KernelHalfKept
<1>1. ASSUME NEW d, SharesHalf(d), NEW v \in KernelPages
      PROVE  Walk(mem, d, v) = Walk(mem, KernelPd, v)
  <2>1. v \div ENTRIES \in Index /\ v \div ENTRIES >= Half
    <3>1. PICK f : v = P2VPage(f) /\ f \in Nat /\ f < ENTRIES * (ENTRIES \div 4)
      BY Layout DEF KernelPages
    <3> QED BY <3>1, KernelPage
  <2>2. mem[d].page[v \div ENTRIES] = mem[KernelPd].page[v \div ENTRIES]
    BY <1>1, <2>1 DEF SharesHalf, Entry
  <2> QED BY <2>2 DEF Walk
<1>2. \A d \in {cr3} \cup {procs[i].pd : i \in DOMAIN procs} : SharesHalf(d)
  <2>1. SharesHalf(cr3)
    BY DEF IInv, Cr3
  <2>2. \A i \in DOMAIN procs : SharesHalf(procs[i].pd)
    BY ProcessSpace DEF Space
  <2> QED BY <2>1, <2>2
<1>3. ASSUME NEW f \in used PROVE Walk(mem, KernelPd, P2VPage(f)) = {f}
  <2>1. f \in Low /\ f \in Nat /\ f < ENTRIES /\ f \in Frames /\ f < ENTRIES * (ENTRIES \div 4)
    BY Layout DEF IInv, TypeOK
  <2>2. f \div ENTRIES = 0 /\ f % ENTRIES = f
    BY <2>1, SmallFrame
  <2>3. P2VPage(f) \div ENTRIES = Half + 0 /\ P2VPage(f) % ENTRIES = f
    BY <2>1, <2>2, KernelPage
  <2>4. P2VPage(f) \div ENTRIES = Half
    BY <2>3, HalfValue DEF Index
  <2>5. mem[KernelPd].page[Half] = PageEntry(KernelPd + 1, 3)
        /\ mem[KernelPd + 1].page[f] = PageEntry(f, 3)
    BY <2>1 DEF IInv, KernelTables, Entry
  <2>6. /\ PageEntry(KernelPd + 1, 3).frame = KernelPd + 1 /\ PageEntry(f, 3).frame = f
        /\ present(PageEntry(KernelPd + 1, 3)) /\ present(PageEntry(f, 3))
    BY <2>1, Layout, Entries DEF Flags, present
  <2> QED BY <2>3, <2>4, <2>5, <2>6 DEF Walk
<1> QED BY <1>1, <1>2, <1>3 DEF KernelHalfKept
-----------------------------------------------------------------------------
(* Theorems. *)

LEMMA SpecInv == Spec => []HalfInv
<1>1. Init => HalfInv
  <2> SUFFICES ASSUME Init PROVE HalfInv
    OBVIOUS
  <2>1. IInv /\ pc = "map_initrd"
    BY InitInv DEF Init
  <2> QED BY <2>1 DEF HalfInv, IInv
<1>2. HalfInv /\ [Next]_vars => HalfInv'
  BY HalfNext
<1> QED BY <1>1, <1>2, PTL DEF Spec

\* The state keeps its type through load_initrd: map_page writes only entries
\* of frames that exist, and every program that is loaded came from the initrd.
THEOREM TypeCorrect == Spec => []TypeOK
<1>1. HalfInv => TypeOK
  BY DEF HalfInv
<1> QED BY <1>1, SpecInv, PTL

\* What a process reaches below the kernel was allocated for it and is none of
\* its tables, whatever the initrds, the layout of memory and the size of the
\* tables, until a segment is put into the kernel's half: also the page above
\* the stack, which create_process maps to a frame that it never asked
\* allocate_frame for.
THEOREM UserFramesOwnedHolds == Spec => []UserFramesOwned
BY InvOwned, SpecInv, PTL

\* Every directory that is loaded maps the higher half as the kernel's does,
\* and every frame that was handed out is found at its P2V address: copy is made
\* after the last table of the higher half was allocated.  Nothing ends that but
\* a segment that its header puts into the kernel's half, whatever the initrd.
THEOREM KernelHalfKeptHolds == Spec => []KernelHalfKept
BY InvHalf, SpecInv, PTL
=============================================================================
