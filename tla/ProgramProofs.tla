---------------------------- MODULE ProgramProofs ---------------------------
(***************************************************************************)
(* Proofs about what load_initrd makes of the initrd: the list of its      *)
(* files and the programs in memory, for every archive.  They rest on the  *)
(* invariant of AddressSpacesProofs, which says who owns the directories,  *)
(* tables and frames.                                                      *)
(***************************************************************************)
EXTENDS AddressSpacesProofs, WellFoundedInduction

-----------------------------------------------------------------------------
(* The inductive invariant. *)

\* In memory m, directory d maps the page of segment k to that segment's bytes.
HasSegment(m, d, who, program, k) ==
    \E f \in Walk(m, d, program.segments[k].page) : m[f].data = <<who, k>>

\* The segments before the n-th are loaded.
LoadedBefore(m, d, who, program, n) ==
    \A k \in Loaded(program) : k < n => HasSegment(m, d, who, program, k)

\* What Elf32::load can do right.
Fine(program) == WellLaid(program) /\ InOneFrame(program)

\* No table of the lower half has two entries of the directory.
TablesApart(m, d) ==
    \A i, j \in Index :
        (/\ i < Half /\ j < Half
         /\ present(Entry(m, d, i)) /\ present(Entry(m, d, j))
         /\ Entry(m, d, i).frame = Entry(m, d, j).frame) => i = j

\* The process in the making has its segments up to the one at hand.
MakingLoaded ==
    pc \in Making =>
        /\ TablesApart(mem, new.pd)
        /\ Fine(Head(todo)) => LoadedBefore(mem, new.pd, Me, Head(todo), new.segment)

\* How far the loop of Elf32::load is.
LoopPosition ==
    /\ pc \in {"allocate_stack", "allocate_kernel", "map_stack", "map_above", "enter"} =>
            new.segment = 1
    /\ pc \in {"leave", "calloc"} /\ Head(todo).valid =>
            new.segment > Len(Head(todo).segments)

\* The frame of a segment is mapped at the segment's page and nowhere else.
MappedOnce ==
    /\ pc = "map_segment" => \A v \in UserPages : new.phys \notin Walk(mem, new.pd, v)
    /\ pc = "memcpy" =>
            /\ Walk(mem, new.pd, Segment.page) = {new.phys}
            /\ \A v \in UserPages : v # Segment.page => new.phys \notin Walk(mem, new.pd, v)

\* Directory d of who has the segments of its program where they belong.
Whole(m, d, who, program) ==
    program.valid /\ Fine(program) =>
        \A k \in Loaded(program) : HasSegment(m, d, who, program, k)

Intact == \A i \in DOMAIN procs : Whole(mem, procs[i].pd, Owner(i), procs[i].program)

LoadInv == Intact /\ MakingLoaded /\ LoopPosition /\ MappedOnce

\* It holds until a segment is put into the kernel's half.
LoadUntilHalf == pc # "kernel_half" => LoadInv

\* There is a tail for every file of the list, and for every call to come.
TailInv == Len(tar.tails) = Len(tar.list) /\ Len(todo) <= 2 * Len(tar.tails)
-----------------------------------------------------------------------------
(* Walks through memory. *)

\* The segments of a program, and where those of a well-laid one are.
LEMMA ProgramPages ==
    ASSUME NEW program \in Programs
    PROVE  /\ DOMAIN program.segments = 1 .. Len(program.segments)
           /\ Len(program.segments) \in Nat
           /\ \A k \in DOMAIN program.segments :
                program.segments[k].page \in Nat /\ program.segments[k].upto \in Nat
           /\ WellLaid(program) =>
                \A k \in Loaded(program) : program.segments[k].page \in UserPages
<1>3. PICK s : s = program.segments
  OBVIOUS
<1> DEFINE H == {h \in Headers : h.page + h.pages <= ENTRIES * ENTRIES}
<1>4. s \in Seq(H)
  BY <1>3 DEF Programs
<1> HIDE DEF H
<1>5. DOMAIN s = 1 .. Len(s) /\ Len(s) \in Nat
  BY <1>4
<1>6. ASSUME NEW k \in DOMAIN s
      PROVE  s[k].page \in Nat /\ s[k].pages \in Nat \ {0} /\ s[k].upto \in Nat
  <2>1. s[k] \in H
    BY <1>4, <1>5, <1>6, ElementOfSeq, Zenon
  <2> QED BY <2>1 DEF H, Headers
<1>7. ASSUME WellLaid(program), NEW k \in Loaded(program)
      PROVE  s[k].page \in UserPages
  <2>1. k \in DOMAIN s /\ s[k].page + s[k].pages <= HIGHER_HALF
    BY <1>3, <1>7 DEF WellLaid, BelowKernel, Loaded
  <2>3. PICK a : a = s[k].page
    OBVIOUS
  <2>4. PICK n : n = s[k].pages
    OBVIOUS
  <2>5. PICK h : h = HIGHER_HALF
    OBVIOUS
  <2>6. a \in Nat /\ n \in Nat \ {0} /\ h \in Nat /\ a + n <= h
    BY <1>6, <2>1, <2>3, <2>4, <2>5, HalfValue
  <2>7. a \in 0 .. (h - 1)
    BY <2>6
  <2> QED BY <2>3, <2>5, <2>7 DEF UserPages
<1> QED BY <1>3, <1>5, <1>6, <1>7

\* The walk of the CPU, entry by entry.
LEMMA WalkIs ==
    ASSUME NEW m, NEW d, NEW v, NEW t, t = Entry(m, d, v \div ENTRIES).frame
    PROVE  Walk(m, d, v) =
             IF present(Entry(m, d, v \div ENTRIES)) /\ present(Entry(m, t, v % ENTRIES))
             THEN {Entry(m, t, v % ENTRIES).frame} ELSE {}
BY DEF Walk, Entry

\* A walk sees the directory and its tables.
LEMMA WalkSame ==
    ASSUME TypeOK, NEW d \in Frames, NEW n, NEW v \in UserPages,
           SamePage(mem, n, d), \A t \in Frames : UserTable(t, d) => SamePage(mem, n, t)
    PROVE  Walk(n, d, v) = Walk(mem, d, v)
<1> DEFINE i == v \div ENTRIES
           j == v % ENTRIES
           t == Entry(mem, d, i).frame
<1>1. i \in Index /\ i < Half /\ j \in Index
  BY UserPage
<1>2. Entry(n, d, i) = Entry(mem, d, i)
  BY <1>1 DEF SamePage
<1>3. t \in Frames
  BY <1>1 DEF TypeOK, PageType, Entry
<1> HIDE DEF i, j
<1>4. present(Entry(mem, d, i)) => Entry(n, t, j) = Entry(mem, t, j)
  <2> SUFFICES ASSUME present(Entry(mem, d, i)) PROVE Entry(n, t, j) = Entry(mem, t, j)
    OBVIOUS
  <2>1. UserTable(t, d)
    BY <1>1 DEF UserTable
  <2> QED BY <1>1, <1>3, <2>1 DEF SamePage
<1>5. t = Entry(n, d, i).frame
  BY <1>2
<1> HIDE DEF t
<1>6. Walk(mem, d, v) = IF present(Entry(mem, d, i)) /\ present(Entry(mem, t, j))
                        THEN {Entry(mem, t, j).frame} ELSE {}
  BY WalkIs DEF i, j, t
<1>7. Walk(n, d, v) = IF present(Entry(n, d, i)) /\ present(Entry(n, t, j))
                      THEN {Entry(n, t, j).frame} ELSE {}
  BY <1>5, WalkIs DEF i, j
<1> QED BY <1>2, <1>4, <1>6, <1>7

LEMMA IntactIs ==
    Intact' <=> \A i \in DOMAIN procs' : Whole(mem', procs'[i].pd, Owner(i), procs'[i].program)
BY Zenon DEF Intact, Whole, Fine, HasSegment, WellLaid, InOneFrame, BelowKernel, Loaded, Owner, Walk

\* Nothing that another process can reach has changed.
LEMMA OthersIntact ==
    ASSUME IInv, Intact,
           \A g \in Frames : g \in used /\ owner[g] # Me => mem'[g] = mem[g]
    PROVE  \A i \in DOMAIN procs : Whole(mem', procs[i].pd, Owner(i), procs[i].program)
<1> SUFFICES ASSUME NEW i \in DOMAIN procs, procs[i].program.valid, Fine(procs[i].program),
                    NEW k \in Loaded(procs[i].program)
             PROVE  HasSegment(mem', procs[i].pd, Owner(i), procs[i].program, k)
  BY DEF Whole
<1>1. PICK d : d = procs[i].pd
  OBVIOUS
<1>2. PICK who : who = Owner(i)
  OBVIOUS
<1>3. PICK v : v = procs[i].program.segments[k].page
  OBVIOUS
<1>4. /\ TypeOK /\ d \in Frames /\ Space(d, who) /\ i \in Nat
      /\ used \subseteq Frames /\ who # Me
  <2>1. i \in 1 .. Len(procs) /\ Len(procs) \in Nat
    BY MeValue DEF IInv
  <2>2. Owner(i) # Me
    BY <2>1 DEF Me, Owner
  <2> QED BY <1>1, <1>2, <2>2, ProcessSpace, Layout DEF IInv, TypeOK
<1>5. v \in UserPages
  <2>1. procs \in Seq([pd : Frames, program : Programs]) /\ i \in 1 .. Len(procs)
    BY <1>4, MeValue DEF TypeOK
  <2>2. procs[i] \in [pd : Frames, program : Programs]
    BY <2>1, ElementOfSeq, Zenon
  <2>3. procs[i].program \in Programs
    BY <2>2
  <2> QED BY <1>3, <2>3, ProgramPages DEF Fine
<1>6. SamePage(mem, mem', d) /\ \A t \in Frames : UserTable(t, d) => SamePage(mem, mem', t)
  <2>1. mem'[d] = mem[d]
    BY <1>4 DEF Space
  <2>2. \A t \in Frames : UserTable(t, d) => mem'[t] = mem[t]
    BY <1>4 DEF Space
  <2> QED BY <2>1, <2>2 DEF SamePage, Entry
<1>7. Walk(mem', d, v) = Walk(mem, d, v)
  BY <1>4, <1>5, <1>6, WalkSame
<1>8. PICK f \in Walk(mem, d, v) : mem[f].data = <<who, k>>
  <2>1. Whole(mem, procs[i].pd, Owner(i), procs[i].program)
    BY DEF Intact
  <2> QED BY <1>1, <1>2, <1>3, <2>1 DEF Whole, HasSegment
<1>9. f \in used /\ owner[f] = who
  BY <1>4, <1>5, UserWalk DEF UserFrame
<1>10. mem'[f] = mem[f]
  BY <1>4, <1>9
<1> QED BY <1>1, <1>2, <1>3, <1>7, <1>8, <1>10 DEF HasSegment

LEMMA IntactKept ==
    ASSUME IInv, Intact, procs' = procs,
           \A g \in Frames : g \in used /\ owner[g] # Me => mem'[g] = mem[g]
    PROVE  Intact'
<1>1. \A i \in DOMAIN procs : Whole(mem', procs[i].pd, Owner(i), procs[i].program)
  BY OthersIntact
<1> QED BY <1>1, IntactIs
-----------------------------------------------------------------------------
(* What map_page does to the walks. *)

LEMMA SamePlace ==
    ASSUME NEW u \in UserPages, NEW v \in UserPages,
           u \div ENTRIES = v \div ENTRIES, u % ENTRIES = v % ENTRIES
    PROVE  u = v
<1>1. ENTRIES \in Nat \ {0} /\ u \in Nat /\ v \in Nat
  BY EntriesAssumption, HalfValue DEF UserPages
<1>2. u = ENTRIES * (u \div ENTRIES) + (u % ENTRIES) /\ v = ENTRIES * (v \div ENTRIES) + (v % ENTRIES)
  BY <1>1, Division
<1> QED BY <1>2

\* map_page changes one frame, and two if it allocates the table.
LEMMA WithPageRest ==
    ASSUME NEW m \in MemType, NEW dir \in Frames, NEW phys, NEW flags, NEW v, NEW g \in Frames,
           g # TableOf(m, dir, v)
    PROVE  WithPage(m, dir, phys, v, flags)[g] = m[g]
<1>1. PICK t : t = TableOf(m, dir, v)
  OBVIOUS
<1>2. WithPage(m, dir, phys, v, flags) =
        [m EXCEPT ![t] = [m[t] EXCEPT !.page = [m[t].page EXCEPT ![pt_idx(v)] = PageEntry(phys, flags)]]]
  BY <1>1 DEF WithPage, TableOf, Entry
<1> QED BY <1>1, <1>2 DEF MemType

LEMMA WithTableRest ==
    ASSUME NEW m \in MemType, NEW dir \in Frames, NEW v, NEW f \in Frames, f # dir,
           NEW g \in Frames, g # f, g # dir
    PROVE  WithTable(m, dir, v, f)[g] = m[g]
<1>1. PICK z : z = PageContent(ZeroPage)
  OBVIOUS
<1>2. PICK e : e = [m[dir] EXCEPT !.page = [m[dir].page EXCEPT ![pd_idx(v)] = PageEntry(f, 7)]]
  OBVIOUS
<1>3. WithTable(m, dir, v, f) = [[m EXCEPT ![f] = z] EXCEPT ![dir] = e]
  BY <1>1, <1>2 DEF WithTable, MemType
<1> QED BY <1>3 DEF MemType

LEMMA WithBothRest ==
    ASSUME NEW m \in MemType, NEW dir \in Frames, NEW v, pd_idx(v) \in Index,
           NEW f \in Frames, f # dir, NEW phys, NEW flags,
           NEW g \in Frames, g # f, g # dir
    PROVE  WithPage(WithTable(m, dir, v, f), dir, phys, v, flags)[g] = m[g]
<1>1. PICK w : w = WithTable(m, dir, v, f)
  OBVIOUS
<1>2. w \in MemType /\ Entry(w, dir, pd_idx(v)) = PageEntry(f, 7) /\ 7 \in Flags
  BY <1>1, WithTableEffect DEF Flags
<1>3. TableOf(w, dir, v) = f
  BY <1>2, Entries DEF TableOf
<1>4. WithPage(w, dir, phys, v, flags)[g] = w[g]
  BY <1>2, <1>3, WithPageRest
<1>5. w[g] = m[g]
  BY <1>1, WithTableRest
<1> QED BY <1>1, <1>4, <1>5

\* n is m with page v of directory d mapped to phys.
MapsTo(m, n, d, v, phys) ==
    \A u \in UserPages : Walk(n, d, u) = IF u = v THEN {phys} ELSE Walk(m, d, u)

LEMMA MapWalksPresent ==
    ASSUME NEW m \in MemType, NEW d \in Frames, NEW phys \in Frames, NEW v \in UserPages,
           HasTable(m, d, v), TablesApart(m, d), TableOf(m, d, v) # d,
           NEW n, n = WithPage(m, d, phys, v, 7)
    PROVE  MapsTo(m, n, d, v, phys) /\ TablesApart(n, d)
<1>1. PICK t : t = TableOf(m, d, v)
  OBVIOUS
<1>2. PICK a : a = v \div ENTRIES
  OBVIOUS
<1>3. PICK b : b = v % ENTRIES
  OBVIOUS
<1>4. /\ a \in Index /\ a < Half /\ b \in Index /\ pd_idx(v) = a /\ pt_idx(v) = b /\ 7 \in Flags
      /\ present(Entry(m, d, a)) /\ t = Entry(m, d, a).frame /\ t # d
  BY <1>1, <1>2, <1>3, UserPage DEF pt_idx, Flags, HasTable, TableOf, Entry
<1>5. /\ t \in Frames
      /\ \A k \in Index : Entry(n, t, k) = IF k = b THEN PageEntry(phys, 7) ELSE Entry(m, t, k)
      /\ \A g \in Frames : g # t => SamePage(m, n, g)
  <2> DEFINE s == TableOf(m, d, v)
             w == WithPage(m, d, phys, v, 7)
  <2>1. pd_idx(v) \in Index /\ pt_idx(v) \in Index /\ 7 \in Flags
    BY <1>4
  <2>2. /\ s \in Frames
        /\ \A k \in Index : Entry(w, s, k) = IF k = pt_idx(v) THEN PageEntry(phys, 7)
                                           ELSE Entry(m, s, k)
        /\ \A g \in Frames : g # s => SamePage(m, w, g)
    BY <2>1, WithPageEffect
  <2>3. s = t /\ w = n /\ pt_idx(v) = b
    BY <1>1, <1>4
  <2> HIDE DEF s, w
  <2> QED BY <2>2, <2>3
<1>6. SamePage(m, n, d)
  BY <1>4, <1>5
<1>7. TablesApart(n, d)
  BY <1>6 DEF TablesApart, SamePage
<1>8. present(PageEntry(phys, 7)) /\ PageEntry(phys, 7).frame = phys
  BY <1>4, Entries DEF present
<1>9. ASSUME NEW u \in UserPages
      PROVE  Walk(n, d, u) = IF u = v THEN {phys} ELSE Walk(m, d, u)
  <2>1. PICK i : i = u \div ENTRIES
    OBVIOUS
  <2>2. PICK j : j = u % ENTRIES
    OBVIOUS
  <2>3. PICK s : s = Entry(m, d, i).frame
    OBVIOUS
  <2>4. i \in Index /\ i < Half /\ j \in Index
    BY <2>1, <2>2, UserPage
  <2>5. Entry(n, d, i) = Entry(m, d, i)
    BY <1>6, <2>4 DEF SamePage
  <2>6. s \in Frames
    BY <2>3, <2>4 DEF MemType, PageType, Entry
  <2>7. Walk(m, d, u) = IF present(Entry(m, d, i)) /\ present(Entry(m, s, j))
                        THEN {Entry(m, s, j).frame} ELSE {}
    BY <2>1, <2>2, <2>3, WalkIs
  <2>8. Walk(n, d, u) = IF present(Entry(n, d, i)) /\ present(Entry(n, s, j))
                        THEN {Entry(n, s, j).frame} ELSE {}
    BY <2>1, <2>2, <2>3, <2>5, WalkIs
  <2>9. CASE u = v
    <3>1. i = a /\ j = b /\ s = t
      BY <1>2, <1>3, <1>4, <2>1, <2>2, <2>3, <2>9
    <3>2. Entry(n, s, j) = PageEntry(phys, 7)
      BY <1>4, <1>5, <3>1
    <3> QED BY <1>4, <1>8, <2>5, <2>8, <2>9, <3>1, <3>2
  <2>10. CASE u # v
    <3>1. present(Entry(m, d, i)) => Entry(n, s, j) = Entry(m, s, j)
      <4> SUFFICES ASSUME present(Entry(m, d, i)) PROVE Entry(n, s, j) = Entry(m, s, j)
        OBVIOUS
      <4>1. CASE s = t
        <5>1. i = a
          BY <1>4, <2>3, <2>4, <4>1 DEF TablesApart
        <5>2. j # b
          BY <1>2, <1>3, <2>1, <2>2, <2>10, <5>1, SamePlace
        <5> QED BY <1>5, <2>4, <4>1, <5>2
      <4>2. CASE s # t
        BY <1>5, <2>4, <2>6, <4>2 DEF SamePage
      <4> QED BY <4>1, <4>2
    <3> QED BY <2>5, <2>7, <2>8, <2>10, <3>1
  <2> QED BY <2>9, <2>10
<1> QED BY <1>7, <1>9 DEF MapsTo

LEMMA MapWalksAbsent ==
    ASSUME NEW m \in MemType, NEW d \in Frames, NEW phys \in Frames, NEW v \in UserPages,
           NEW f \in Frames, f # d, ~HasTable(m, d, v), TablesApart(m, d),
           \A i \in Index : i < Half /\ present(Entry(m, d, i)) =>
                Entry(m, d, i).frame # d /\ Entry(m, d, i).frame # f,
           NEW n, n = WithPage(WithTable(m, d, v, f), d, phys, v, 7)
    PROVE  MapsTo(m, n, d, v, phys) /\ TablesApart(n, d)
<1>2. PICK a : a = v \div ENTRIES
  OBVIOUS
<1>3. PICK b : b = v % ENTRIES
  OBVIOUS
<1>4. /\ a \in Index /\ a < Half /\ b \in Index /\ pd_idx(v) = a /\ pt_idx(v) = b /\ 7 \in Flags
      /\ ~present(Entry(m, d, a))
  BY <1>2, <1>3, UserPage DEF pt_idx, Flags, HasTable, Entry
<1>5. /\ \A k \in Index : Entry(n, f, k) = IF k = b THEN PageEntry(phys, 7) ELSE Absent
      /\ \A k \in Index : Entry(n, d, k) = IF k = a THEN PageEntry(f, 7) ELSE Entry(m, d, k)
      /\ \A g \in Frames : g # f /\ g # d => SamePage(m, n, g)
  BY <1>4, WithBothEffect
<1>8. /\ present(PageEntry(phys, 7)) /\ PageEntry(phys, 7).frame = phys
      /\ present(PageEntry(f, 7)) /\ PageEntry(f, 7).frame = f /\ ~present(Absent)
  BY <1>4, Entries, ZeroPageEmpty DEF present
<1>7. TablesApart(n, d)
  <2> SUFFICES ASSUME NEW i \in Index, NEW j \in Index, i < Half, j < Half,
                      present(Entry(n, d, i)), present(Entry(n, d, j)),
                      Entry(n, d, i).frame = Entry(n, d, j).frame
               PROVE  i = j
    BY DEF TablesApart
  <2>1. CASE i = a /\ j = a
    BY <2>1
  <2>2. CASE i = a /\ j # a
    <3>1. Entry(n, d, i) = PageEntry(f, 7) /\ Entry(n, d, j) = Entry(m, d, j)
      BY <1>5, <2>2
    <3> QED BY <1>8, <3>1
  <2>3. CASE i # a /\ j = a
    <3>1. Entry(n, d, j) = PageEntry(f, 7) /\ Entry(n, d, i) = Entry(m, d, i)
      BY <1>5, <2>3
    <3> QED BY <1>8, <3>1
  <2>4. CASE i # a /\ j # a
    <3>1. Entry(n, d, j) = Entry(m, d, j) /\ Entry(n, d, i) = Entry(m, d, i)
      BY <1>5, <2>4
    <3> QED BY <3>1 DEF TablesApart
  <2> QED BY <2>1, <2>2, <2>3, <2>4
<1>9. ASSUME NEW u \in UserPages
      PROVE  Walk(n, d, u) = IF u = v THEN {phys} ELSE Walk(m, d, u)
  <2>1. PICK i : i = u \div ENTRIES
    OBVIOUS
  <2>2. PICK j : j = u % ENTRIES
    OBVIOUS
  <2>3. PICK s : s = Entry(m, d, i).frame
    OBVIOUS
  <2>4. i \in Index /\ i < Half /\ j \in Index
    BY <2>1, <2>2, UserPage
  <2>6. s \in Frames
    BY <2>3, <2>4 DEF MemType, PageType, Entry
  <2>7. Walk(m, d, u) = IF present(Entry(m, d, i)) /\ present(Entry(m, s, j))
                        THEN {Entry(m, s, j).frame} ELSE {}
    BY <2>1, <2>2, <2>3, WalkIs
  <2>9. CASE i = a
    <3>1. Entry(n, d, i) = PageEntry(f, 7)
      BY <1>5, <2>4, <2>9
    <3>2. f = Entry(n, d, i).frame
      BY <1>8, <3>1
    <3>3. Walk(n, d, u) = IF present(Entry(n, d, i)) /\ present(Entry(n, f, j))
                          THEN {Entry(n, f, j).frame} ELSE {}
      BY <2>1, <2>2, <3>2, WalkIs
    <3>4. Walk(m, d, u) = {}
      BY <1>4, <2>7, <2>9
    <3>5. CASE j = b
      <4>1. u = v
        BY <1>2, <1>3, <2>1, <2>2, <2>9, <3>5, SamePlace
      <4>2. Entry(n, f, j) = PageEntry(phys, 7)
        BY <1>5, <2>4, <3>5
      <4> QED BY <1>8, <3>1, <3>3, <4>1, <4>2
    <3>6. CASE j # b
      <4>1. u # v
        BY <1>3, <2>2, <3>6
      <4>2. Entry(n, f, j) = Absent
        BY <1>5, <2>4, <3>6
      <4> QED BY <1>8, <3>3, <3>4, <4>1, <4>2
    <3> QED BY <3>5, <3>6
  <2>10. CASE i # a
    <3>1. Entry(n, d, i) = Entry(m, d, i) /\ u # v
      BY <1>2, <1>5, <2>1, <2>4, <2>10
    <3>2. Walk(n, d, u) = IF present(Entry(n, d, i)) /\ present(Entry(n, s, j))
                          THEN {Entry(n, s, j).frame} ELSE {}
      BY <2>1, <2>2, <2>3, <3>1, WalkIs
    <3>3. present(Entry(m, d, i)) => Entry(n, s, j) = Entry(m, s, j)
      BY <1>5, <2>3, <2>4, <2>6 DEF SamePage
    <3> QED BY <2>7, <3>1, <3>2, <3>3
  <2> QED BY <2>9, <2>10
<1> QED BY <1>7, <1>9 DEF MapsTo

\* map_page for the process in the making.
LEMMA MapStep ==
    ASSUME IInv, map_page_present \/ map_page_absent, pc' # "kernel_half",
           pc \in {"map_stack", "map_above", "map_segment"},
           NEW d, d = new.pd, TablesApart(mem, d),
           NEW phys, phys = CASE pc = "map_stack" -> new.stack
                              [] pc = "map_above" -> new.stack + 1
                              [] pc = "map_segment" -> new.phys,
           NEW v, v = CASE pc = "map_stack" -> StackPage
                        [] pc = "map_above" -> StackPage + 1
                        [] pc = "map_segment" -> Segment.page
    PROVE  /\ v \in UserPages /\ d \in Frames
           /\ TablesApart(mem', d) /\ MapsTo(mem, mem', d, v, phys)
           /\ \A g \in used : owner[g] # Me \/ UserFrame(g, d, Me) => mem'[g] = mem[g]
           /\ pc' = AfterMap[pc] /\ UNCHANGED <<cr3, archive, tar, todo, new, procs>>
<1>1. /\ TypeOK /\ todo # <<>> /\ new \in [pd : Frames, stack : Frames, phys : Frames, segment : Nat]
  BY DEF IInv, TypeOK, Calling, Making
<1>3. PICK who : who = Me
  OBVIOUS
<1>4. d \in Frames /\ who \in Nat /\ Space(d, who) /\ mem \in MemType /\ used \subseteq Low
  BY <1>1, <1>3, MeValue DEF TypeOK, IInv, Calling, Making, MemType
<1>7. UserFrame(phys, d, who) /\ phys \in Frames
  <2>1. UserFrame(phys, d, who)
    BY <1>3 DEF IInv, StackFrames, SegmentFrame
  <2> QED BY <1>1, <2>1, Layout DEF UserFrame, TypeOK
<1>8. v \in UserPages
  <2>1. CASE pc = "map_segment"
    BY <2>1 DEF map_page_present, map_page_absent, MapEnds
  <2>2. CASE pc # "map_segment"
    BY <2>2, AddressSpacesAssumption
  <2> QED BY <2>1, <2>2
<1>9. MapRequest = [dir |-> d, phys |-> phys, virt |-> v, flags |-> 7, who |-> who]
  BY <1>3 DEF MapRequest, AboveStack
<1>10. /\ pc' = AfterMap[pc] /\ UNCHANGED <<cr3, archive, tar, todo, new, procs>>
  BY DEF map_page_present, map_page_absent, MapEnds
<1>11. /\ TablesApart(mem', d) /\ MapsTo(mem, mem', d, v, phys)
       /\ \A g \in used : owner[g] # who \/ UserFrame(g, d, who) => mem'[g] = mem[g]
  <2>1. CASE map_page_present
    <3>1. HasTable(mem, d, v) /\ mem' = WithPage(mem, d, phys, v, 7)
      BY <1>9, <2>1 DEF map_page_present
    <3>2. PICK t : t = TableOf(mem, d, v)
      OBVIOUS
    <3>3. UserTable(t, d) /\ t \in Frames
      <4>1. pd_idx(v) \in Index /\ pd_idx(v) < Half
        BY <1>8, UserPage
      <4>2. t \in Frames
        BY <1>4, <3>2, <4>1 DEF TableOf, Entry, MemType, PageType
      <4> QED BY <3>1, <3>2, <4>1, <4>2 DEF HasTable, UserTable, TableOf, Entry
    <3>4. t # d /\ owner[t] = who
      BY <1>4, <3>3 DEF Space
    <3>5. TablesApart(mem', d) /\ MapsTo(mem, mem', d, v, phys)
      BY <1>4, <1>7, <1>8, <3>1, <3>2, <3>4, MapWalksPresent
    <3>6. ASSUME NEW g \in used, owner[g] # who \/ UserFrame(g, d, who)
          PROVE  mem'[g] = mem[g]
      <4>1. g \in Frames /\ g # t
        BY <1>4, <3>3, <3>4, <3>6, Layout DEF UserFrame
      <4> QED BY <1>4, <3>1, <3>2, <4>1, WithPageRest
    <3> QED BY <3>5, <3>6
  <2>2. CASE map_page_absent
    <3>1. PICK f \in Low :
            /\ ~HasTable(mem, d, v) /\ Takes(f, who)
            /\ mem' = WithPage(WithTable(mem, d, v, f), d, phys, v, 7)
      BY <1>9, <2>2 DEF map_page_absent
    <3>2. f \notin used /\ f \in Frames /\ d \in used /\ f # d
      BY <1>4, <3>1, Layout DEF Takes, allocate_frame, Space
    <3>3. ASSUME NEW i \in Index, i < Half, present(Entry(mem, d, i))
          PROVE  Entry(mem, d, i).frame # d /\ Entry(mem, d, i).frame # f
      <4>1. PICK t : t = Entry(mem, d, i).frame
        OBVIOUS
      <4>2. t \in Frames
        BY <1>4, <4>1 DEF MemType, PageType, Entry
      <4>3. UserTable(t, d)
        BY <3>3, <4>1 DEF UserTable
      <4>4. t \in used /\ t # d
        BY <1>4, <4>2, <4>3 DEF Space
      <4> QED BY <3>2, <4>1, <4>4
    <3>4. TablesApart(mem', d) /\ MapsTo(mem, mem', d, v, phys)
      BY <1>4, <1>7, <1>8, <3>1, <3>2, <3>3, MapWalksAbsent
    <3>5. ASSUME NEW g \in used, owner[g] # who \/ UserFrame(g, d, who)
          PROVE  mem'[g] = mem[g]
      <4>1. g \in Frames /\ g # f /\ g # d
        BY <1>4, <3>2, <3>5, Layout DEF UserFrame, Space
      <4>2. pd_idx(v) \in Index
        BY <1>8, UserPage
      <4> QED BY <1>4, <3>1, <3>2, <4>1, <4>2, WithBothRest
    <3> QED BY <3>4, <3>5
  <2> QED BY <2>1, <2>2
<1> QED BY <1>3, <1>4, <1>8, <1>10, <1>11
-----------------------------------------------------------------------------
(* The steps. *)

\* What MakingLoaded says of the process in the making.
Loading(m, d, who, program, n) ==
    /\ TablesApart(m, d)
    /\ Fine(program) => LoadedBefore(m, d, who, program, n)

LEMMA LoadingIs ==
    /\ MakingLoaded <=>
         (pc \in Making => Loading(mem, new.pd, Me, Head(todo), new.segment))
    /\ MakingLoaded' <=>
         (pc' \in Making => Loading(mem', new'.pd, Me', Head(todo'), new'.segment))
<1>1. MakingLoaded <=>
         (pc \in Making => Loading(mem, new.pd, Me, Head(todo), new.segment))
  BY DEF MakingLoaded, Loading
<1>2. MakingLoaded' <=>
         (pc' \in Making => Loading(mem', new'.pd, Me', Head(todo'), new'.segment))
  BY Zenon DEF MakingLoaded, Loading, Making, TablesApart, Entry, present, Index, Half,
               Fine, WellLaid, InOneFrame, BelowKernel, Loaded, LoadedBefore, HasSegment, Walk,
               Me, Owner
<1> QED BY <1>1, <1>2

\* No process is in the making after the step.
LEMMA NoneMaking ==
    ASSUME pc' \notin Making
    PROVE  MakingLoaded' /\ LoopPosition' /\ MappedOnce'
<1>1. MakingLoaded'
  BY LoadingIs
<1>2. LoopPosition' /\ MappedOnce'
  BY DEF Making, LoopPosition, MappedOnce
<1> QED BY <1>1, <1>2

LEMMA LoadInit == Init => LoadInv
<1> SUFFICES ASSUME Init PROVE LoadInv
  OBVIOUS
<1>1. procs = <<>> /\ pc = "map_initrd"
  BY DEF Init
<1>2. Intact
  BY <1>1 DEF Intact
<1>3. MakingLoaded /\ LoopPosition /\ MappedOnce
  BY <1>1 DEF MakingLoaded, LoopPosition, MappedOnce, Making
<1> QED BY <1>2, <1>3 DEF LoadInv

\* parse_tar: there is no process yet.
LEMMA LoadParse ==
    ASSUME IInv, LoadInv, ParseHeader \/ ParseSize \/ ParseCopy
    PROVE  LoadInv'
<1>1. procs = <<>> /\ procs' = procs /\ pc' \notin Making
  BY DEF IInv, Booting, ParseHeader, ParseSize, ParseCopy, Making
<1>2. Intact'
  BY <1>1 DEF Intact
<1> QED BY <1>1, <1>2, NoneMaking DEF LoadInv

\* The steps outside create_process, and those that end it early.
LEMMA LoadOutside ==
    ASSUME IInv, LoadInv,
           ParseEnds \/ ParseFault \/ skip_file \/ PageFault \/ OutOfFrames
    PROVE  LoadInv'
<1>1. mem' = mem /\ procs' = procs /\ pc' \notin Making
  BY DEF ParseEnds, ParseFault, skip_file, PageFault, OutOfFrames, Making
<1>2. Intact'
  BY <1>1, IntactKept DEF LoadInv
<1> QED BY <1>1, <1>2, NoneMaking DEF LoadInv

\* A step that leaves memory and the position in the program alone.
LEMMA LoadingStays ==
    ASSUME IInv, LoadInv, pc \in Making, mem' = mem, procs' = procs, todo' = todo,
           new'.pd = new.pd, new'.segment = new.segment
    PROVE  Intact' /\ MakingLoaded'
<1>1. Intact'
  BY IntactKept DEF LoadInv
<1>2. Me' = Me
  BY DEF Me
<1>3. Loading(mem, new.pd, Me, Head(todo), new.segment)
  BY LoadingIs DEF LoadInv
<1> QED BY <1>1, <1>2, <1>3, LoadingIs

LEMMA LoadQuiet ==
    ASSUME IInv, LoadInv, enter \/ leave \/ allocate_stack \/ allocate_kernel
    PROVE  LoadInv'
<1>1. /\ pc \in Making /\ mem' = mem /\ procs' = procs /\ todo' = todo
      /\ new'.pd = new.pd /\ new'.segment = new.segment
  <2>1. new \in [pd : Frames, stack : Frames, phys : Frames, segment : Nat]
    BY DEF IInv, TypeOK
  <2> QED BY <2>1 DEF enter, leave, allocate_stack, allocate_kernel, Making
<1>2. Intact' /\ MakingLoaded'
  BY <1>1, LoadingStays
<1>3. LoopPosition'
  BY <1>1 DEF LoadInv, LoopPosition, enter, leave, allocate_stack, allocate_kernel
<1>4. MappedOnce'
  BY DEF MappedOnce, enter, leave, allocate_stack, allocate_kernel
<1> QED BY <1>2, <1>3, <1>4 DEF LoadInv

\* The loop passes over a header, or ends.
LEMMA LoadNext == ASSUME IInv, LoadInv, next_segment PROVE LoadInv'
<1>1. /\ pc = "segment" /\ mem' = mem /\ procs' = procs /\ todo' = todo /\ todo # <<>>
      /\ new \in [pd : Frames, stack : Frames, phys : Frames, segment : Nat]
  BY DEF IInv, TypeOK, Calling, next_segment, Making
<1>2. MappedOnce'
  BY <1>1 DEF next_segment, MappedOnce
<1>3. CASE new.segment > Len(Head(todo).segments)
  <2>1. pc' = "leave" /\ new' = new
    BY <1>1, <1>3, HeadProgram DEF next_segment, IInv
  <2>2. Intact' /\ MakingLoaded'
    BY <1>1, <2>1, LoadingStays DEF Making
  <2>3. LoopPosition'
    BY <1>1, <1>3, <2>1 DEF LoopPosition
  <2> QED BY <1>2, <2>2, <2>3 DEF LoadInv
<1>4. CASE new.segment <= Len(Head(todo).segments)
  <2>1. ~Segment.load /\ new' = [new EXCEPT !.segment = @ + 1] /\ pc' = "segment"
    BY <1>1, <1>4, HeadProgram DEF next_segment, IInv
  <2>2. Intact'
    BY <1>1, IntactKept DEF LoadInv
  <2>3. LoopPosition'
    BY <2>1 DEF LoopPosition
  <2>4. PICK n : n = new.segment
    OBVIOUS
  <2>5. new'.pd = new.pd /\ new'.segment = n + 1 /\ n \in Nat
    BY <1>1, <2>1, <2>4
  <2>6. Loading(mem, new.pd, Me, Head(todo), n)
    BY <1>1, <2>4, LoadingIs DEF LoadInv, Making
  <2>7. Loading(mem, new.pd, Me, Head(todo), n + 1)
    <3> SUFFICES ASSUME Fine(Head(todo)), NEW k \in Loaded(Head(todo)), k < n + 1
                 PROVE  HasSegment(mem, new.pd, Me, Head(todo), k)
      BY <2>6 DEF Loading, LoadedBefore
    <3>1. k # n
      BY <2>1, <2>4 DEF Segment, Loaded
    <3>2. k \in Nat
      BY <1>1, HeadProgram DEF IInv, Loaded
    <3>3. k < n
      BY <2>5, <3>1, <3>2
    <3> QED BY <2>6, <3>3 DEF Loading, LoadedBefore
  <2>8. MakingLoaded'
    <3>1. Me' = Me
      BY <1>1 DEF Me
    <3> QED BY <1>1, <2>5, <2>7, <3>1, LoadingIs
  <2> QED BY <1>2, <2>2, <2>3, <2>8 DEF LoadInv
<1> QED BY <1>1, <1>3, <1>4, HeadProgram DEF IInv

\* The frame of a segment is new, so no page is mapped to it.
LEMMA LoadAllocate == ASSUME IInv, LoadInv, allocate_segment PROVE LoadInv'
<1>1. /\ pc = "segment" /\ pc' = "map_segment" /\ mem' = mem /\ procs' = procs /\ todo' = todo
      /\ new \in [pd : Frames, stack : Frames, phys : Frames, segment : Nat] /\ Segment.load
  BY DEF IInv, TypeOK, allocate_segment
<1>2. PICK f \in Low : Takes(f, Me) /\ new' = [new EXCEPT !.phys = f]
  BY DEF allocate_segment
<1>3. new'.pd = new.pd /\ new'.segment = new.segment /\ new'.phys = f /\ f \notin used
  BY <1>1, <1>2 DEF Takes, allocate_frame
<1>4. Intact' /\ MakingLoaded'
  BY <1>1, <1>3, LoadingStays DEF Making
<1>5. LoopPosition'
  BY <1>1, <1>3 DEF LoopPosition
<1>6. PICK d : d = new.pd
  OBVIOUS
<1>7. TypeOK /\ d \in Frames /\ Space(d, Me)
  BY <1>1, <1>6 DEF IInv, Calling, Making
<1>8. ASSUME NEW v \in UserPages PROVE f \notin Walk(mem, d, v)
  BY <1>3, <1>7, UserWalk DEF UserFrame
<1>9. MappedOnce'
  <2>1. \A v \in UserPages : new'.phys \notin Walk(mem', new'.pd, v)
    BY <1>1, <1>3, <1>6, <1>8
  <2> QED BY <1>1, <2>1 DEF MappedOnce, Walk, UserPages
<1> QED BY <1>4, <1>5, <1>9 DEF LoadInv

\* The new directory has no table below the higher half.
LEMMA LoadCopy == ASSUME IInv, LoadInv, copy PROVE LoadInv'
<1>1. TypeOK /\ KernelTables /\ todo # <<>>
  BY DEF IInv, copy, Called
<1>2. PICK f \in Low : /\ Takes(f, Me)
                       /\ mem' = [mem EXCEPT ![f] = mem[KernelPd]]
                       /\ new' = [NoCall EXCEPT !.pd = f]
  BY DEF copy
<1>3. pc' = "allocate_stack" /\ todo' = todo /\ procs' = procs
  BY DEF copy
<1>4. f \notin used /\ f \in Frames /\ new'.pd = f /\ new'.segment = 1
  BY <1>2, Layout DEF Takes, allocate_frame, NoCall
<1>5. \A g \in Frames : g \in used => mem'[g] = mem[g]
  BY <1>1, <1>2, <1>4 DEF TypeOK
<1>6. Intact'
  BY <1>3, <1>5, IntactKept DEF LoadInv
<1>7. mem'[f] = mem[KernelPd]
  BY <1>1, <1>2, <1>4 DEF TypeOK
<1>8. TablesApart(mem', f)
  BY <1>1, <1>7 DEF TablesApart, KernelTables, Entry
<1>9. Loading(mem', f, Me', Head(todo), 1)
  <2>1. \A k \in Loaded(Head(todo)) : ~(k < 1)
    BY <1>1, HeadProgram DEF Loaded
  <2> QED BY <1>8, <2>1 DEF Loading, LoadedBefore
<1>10. MakingLoaded'
  BY <1>3, <1>4, <1>9, LoadingIs
<1>11. LoopPosition' /\ MappedOnce'
  BY <1>3, <1>4 DEF LoopPosition, MappedOnce
<1> QED BY <1>6, <1>10, <1>11 DEF LoadInv

\* The process is complete when it is put into the list.
LEMMA LoadCalloc == ASSUME IInv, LoadInv, calloc PROVE LoadInv'
<1>1. /\ TypeOK /\ pc = "calloc" /\ pc' = "create_process" /\ todo # <<>> /\ Gapless /\ malloc
      /\ new \in [pd : Frames, stack : Frames, phys : Frames, segment : Nat]
  BY DEF IInv, TypeOK, calloc, Calling, Making
<1>2. PICK p : p = [pd |-> new.pd, program |-> Head(todo)]
  OBVIOUS
<1>3. /\ DOMAIN procs' = 1 .. (Len(procs) + 1) /\ procs'[Len(procs) + 1] = p
      /\ \A i \in 1 .. Len(procs) : procs'[i] = procs[i]
  <2>1. procs \in Seq([pd : Frames, program : Programs])
    BY <1>1 DEF TypeOK
  <2>2. procs' = Append(procs, p)
    BY <1>2 DEF calloc
  <2> QED BY <2>1, <2>2
<1>4. Len(procs) \in Nat /\ DOMAIN procs = 1 .. Len(procs) /\ Me = Owner(Len(procs) + 1)
  BY <1>1, MeValue
<1>50. \A g \in used : mem'[g] = mem[g]
  <2>1. used \subseteq Frames
    BY <1>1, Layout DEF TypeOK
  <2>2. \A g \in Frames : (g \notin Low \/ g \in used) => mem'[g] = mem[g]
    BY <1>1, MallocStep
  <2> QED BY <2>1, <2>2
<1>5. \A i \in DOMAIN procs : Whole(mem', procs[i].pd, Owner(i), procs[i].program)
  BY <1>50, OthersIntact DEF LoadInv
<1>6. Whole(mem', new.pd, Me, Head(todo))
  <2> SUFFICES ASSUME Head(todo).valid, Fine(Head(todo)), NEW k \in Loaded(Head(todo))
               PROVE  HasSegment(mem', new.pd, Me, Head(todo), k)
    BY DEF Whole
  <2>1. Loading(mem, new.pd, Me, Head(todo), new.segment)
    BY <1>1, LoadingIs DEF LoadInv, Making
  <2>2. new.segment > Len(Head(todo).segments)
    BY <1>1 DEF LoadInv, LoopPosition
  <2>3. k < new.segment
    BY <1>1, <2>2, HeadProgram DEF Loaded
  <2>4. PICK d : d = new.pd
    OBVIOUS
  <2>5. PICK v : v = Head(todo).segments[k].page
    OBVIOUS
  <2>6. d \in Frames /\ Space(d, Me) /\ v \in UserPages
    BY <1>1, <2>4, <2>5, HeadProgram, ProgramPages DEF IInv, Calling, Making, Fine
  <2>7. PICK f \in Walk(mem, d, v) : mem[f].data = <<Me, k>>
    BY <2>1, <2>3, <2>4, <2>5 DEF Loading, LoadedBefore, HasSegment
  <2>8. SamePage(mem, mem', d) /\ \A t \in Frames : UserTable(t, d) => SamePage(mem, mem', t)
    BY <1>50, <2>6 DEF Space, SamePage, Entry
  <2>9. Walk(mem', d, v) = Walk(mem, d, v)
    BY <1>1, <2>6, <2>8, WalkSame
  <2>10. mem'[f] = mem[f]
    BY <1>1, <1>50, <2>6, <2>7, UserWalk DEF UserFrame
  <2> QED BY <2>4, <2>5, <2>7, <2>9, <2>10 DEF HasSegment
<1>7. ASSUME NEW i \in DOMAIN procs'
      PROVE  Whole(mem', procs'[i].pd, Owner(i), procs'[i].program)
  <2>1. CASE i \in 1 .. Len(procs)
    BY <1>3, <1>4, <1>5, <2>1
  <2>2. CASE i = Len(procs) + 1
    <3>1. procs'[i].pd = new.pd /\ procs'[i].program = Head(todo) /\ Owner(i) = Me
      BY <1>2, <1>3, <1>4, <2>2
    <3> QED BY <1>1, <1>6, <3>1
  <2> QED BY <1>3, <1>4, <2>1, <2>2
<1>8. Intact'
  BY <1>7, IntactIs
<1> QED BY <1>1, <1>8, NoneMaking DEF LoadInv, Making

\* map_page for the initrd: there is no process yet.
LEMMA LoadMapKernel ==
    ASSUME IInv, LoadInv, map_page_present \/ map_page_absent,
           pc \in {"map_initrd", "map_initrd_2"}
    PROVE  LoadInv'
<1>1. procs = <<>> /\ procs' = procs /\ pc' = AfterMap[pc]
  BY DEF IInv, Booting, map_page_present, map_page_absent, MapEnds
<1>2. pc' \notin Making
  BY <1>1, AfterMapValues DEF Making
<1>3. Intact'
  BY <1>1 DEF Intact
<1> QED BY <1>2, <1>3, NoneMaking DEF LoadInv

\* A page of its own is mapped, so the pages mapped before stay.
LEMMA LoadMapUser ==
    ASSUME IInv, LoadInv, map_page_present \/ map_page_absent, pc' # "kernel_half",
           pc \in {"map_stack", "map_above", "map_segment"}
    PROVE  LoadInv'
<1>1. PICK d : d = new.pd
  OBVIOUS
<1>2. PICK phys : phys = CASE pc = "map_stack" -> new.stack
                           [] pc = "map_above" -> new.stack + 1
                           [] pc = "map_segment" -> new.phys
  OBVIOUS
<1>3. PICK v : v = CASE pc = "map_stack" -> StackPage
                     [] pc = "map_above" -> StackPage + 1
                     [] pc = "map_segment" -> Segment.page
  OBVIOUS
<1>4. PICK n : n = new.segment
  OBVIOUS
<1>5. Loading(mem, d, Me, Head(todo), n)
  BY <1>1, <1>4, LoadingIs DEF LoadInv, Making
<1>6. TablesApart(mem, d)
  BY <1>5 DEF Loading
<1>7. /\ v \in UserPages /\ d \in Frames
      /\ TablesApart(mem', d) /\ MapsTo(mem, mem', d, v, phys)
      /\ \A g \in used : owner[g] # Me \/ UserFrame(g, d, Me) => mem'[g] = mem[g]
      /\ pc' = AfterMap[pc] /\ UNCHANGED <<cr3, archive, tar, todo, new, procs>>
  BY <1>1, <1>2, <1>3, <1>6, MapStep
<1>8. Intact'
  BY <1>7, IntactKept DEF LoadInv
<1>9. TypeOK /\ todo # <<>> /\ Space(d, Me) /\ n \in Nat
  BY <1>1, <1>4 DEF IInv, Calling, Making, TypeOK
<1>10. Loading(mem', d, Me, Head(todo), n)
  <2> SUFFICES ASSUME Fine(Head(todo)), NEW k \in Loaded(Head(todo)), k < n
               PROVE  HasSegment(mem', d, Me, Head(todo), k)
    BY <1>7 DEF Loading, LoadedBefore
  <2>1. k \in Nat \ {0}
    BY <1>9, HeadProgram DEF Loaded
  <2>2. pc = "map_segment"
    BY <1>4, <2>1 DEF LoadInv, LoopPosition
  <2>3. n \in Loaded(Head(todo)) /\ v = Head(todo).segments[n].page
    BY <1>3, <1>4, <2>2 DEF IInv, SegmentFrame, Segment, Loaded
  <2>4. PICK u : u = Head(todo).segments[k].page
    OBVIOUS
  <2>5. u # v
    BY <1>9, <2>1, <2>3, <2>4 DEF Fine, WellLaid
  <2>6. u \in UserPages
    BY <1>9, <2>4, HeadProgram, ProgramPages DEF Fine
  <2>7. PICK f \in Walk(mem, d, u) : mem[f].data = <<Me, k>>
    BY <1>5, <2>4 DEF Loading, LoadedBefore, HasSegment
  <2>8. Walk(mem', d, u) = Walk(mem, d, u)
    BY <1>7, <2>5, <2>6 DEF MapsTo
  <2>9. UserFrame(f, d, Me)
    BY <1>7, <1>9, <2>6, UserWalk
  <2>10. mem'[f] = mem[f]
    BY <1>7, <2>9 DEF UserFrame
  <2> QED BY <2>4, <2>7, <2>8, <2>10 DEF HasSegment
<1>11. MakingLoaded'
  <2>1. Me' = Me
    BY <1>7 DEF Me
  <2> QED BY <1>1, <1>4, <1>7, <1>10, <2>1, LoadingIs
<1>12. LoopPosition'
  <2>1. /\ pc' \in {"map_above", "enter"} => pc \in {"map_stack", "map_above"}
        /\ pc' \in {"map_above", "enter", "memcpy"}
        /\ pc' = "memcpy" => pc = "map_segment"
    BY <1>7, AfterMapValues
  <2> QED BY <1>7, <2>1 DEF LoadInv, LoopPosition
<1>13. MappedOnce'
  <2>1. pc' \in {"map_above", "enter", "memcpy"} /\ (pc' = "memcpy" => pc = "map_segment")
    BY <1>7, AfterMapValues
  <2>2. CASE pc' # "memcpy"
    BY <2>1, <2>2 DEF MappedOnce
  <2>3. CASE pc' = "memcpy"
    <3>1. phys = new.phys /\ v = Segment.page /\ \A u \in UserPages : phys \notin Walk(mem, d, u)
      BY <1>1, <1>2, <1>3, <2>1, <2>3 DEF LoadInv, MappedOnce
    <3>2. /\ Walk(mem', d, v) = {phys}
          /\ \A u \in UserPages : u # v => phys \notin Walk(mem', d, u)
      BY <1>7, <3>1 DEF MapsTo
    <3>3. phys = new'.phys /\ v = Segment'.page /\ d = new'.pd
      BY <1>1, <1>7, <3>1 DEF Segment
    <3> QED BY <2>3, <3>2, <3>3 DEF MappedOnce, Walk, UserPages
  <2> QED BY <2>2, <2>3
<1> QED BY <1>8, <1>11, <1>12, <1>13 DEF LoadInv

\* A segment that is well laid is one page, which is mapped to its frame.
LEMMA OnePage ==
    ASSUME IInv, LoadInv, pc = "memcpy", WellLaid(Head(todo))
    PROVE  /\ SegmentPages = {Segment.page} /\ Segment.page \in UserPages
           /\ Walk(mem, cr3, Segment.page) = {new.phys}
<1>1. /\ TypeOK /\ todo # <<>> /\ cr3 = new.pd /\ new.segment \in Loaded(Head(todo))
      /\ Walk(mem, new.pd, Segment.page) = {new.phys}
  BY DEF IInv, Calling, Making, Cr3, SegmentFrame, LoadInv, MappedOnce, Segment, Loaded
<1>2. PICK a : a = Segment.page
  OBVIOUS
<1>3. PICK n : n = Segment.pages
  OBVIOUS
<1>4. n = 1
  BY <1>1, <1>3 DEF WellLaid, Segment
<1>5. a \in Nat /\ a \in UserPages
  <2>1. a \in UserPages
    BY <1>1, <1>2, HeadProgram, ProgramPages DEF Segment
  <2> QED BY <2>1, HalfValue DEF UserPages
<1>6. a .. (a + n - 1) = {a}
  BY <1>4, <1>5
<1> QED BY <1>1, <1>2, <1>3, <1>5, <1>6 DEF SegmentPages

\* The block of a bucket with one slot starts in the first 32 bytes.
LEMMA BlockStartBound ==
    ASSUME NEW f \in Nat
    PROVE  BlockStart(f) \in Nat /\ BlockStart(f) <= 32
<1>1. PICK v : v = f * PAGE + 21
  OBVIOUS
<1>2. v \in Nat
  BY <1>1, SMT DEF PAGE
<1>3. v % 12 \in 0 .. 11
  BY <1>2, SMT
<1>4. BlockStart(f) = 21 + (IF v % 12 = 0 THEN 0 ELSE 12 - (v % 12))
  BY <1>1 DEF BlockStart
<1>5. PICK r : r = v % 12
  OBVIOUS
<1>6. r \in 0 .. 11 /\ BlockStart(f) = 21 + (IF r = 0 THEN 0 ELSE 12 - r)
  BY <1>3, <1>4, <1>5
<1> QED BY <1>6, SMT

\* What lies in the first 4064 bytes of a file is not in the tail of its copy.
LEMMA SourceKept ==
    ASSUME IInv, TailInv, pc = "memcpy", InOneFrame(Head(todo))
    PROVE  SourceIntact
<1>1. /\ TypeOK /\ todo # <<>> /\ new.segment \in Loaded(Head(todo))
  BY DEF IInv, Calling, Making, SegmentFrame, Segment, Loaded
<1>2. Segment.upto \in Nat /\ Segment.upto <= PAGE - 32
  <2>1. Segment.upto \in Nat
    BY <1>1, HeadProgram, ProgramPages DEF Segment, Loaded
  <2> QED BY <1>1, <2>1 DEF InOneFrame, OneFrame, Segment
<1>3. PICK l : l = Len(todo)
  OBVIOUS
<1>4. PICK n : n = Len(tar.tails)
  OBVIOUS
<1>5. l \in Nat \ {0} /\ n \in Nat /\ l <= 2 * n /\ tar.tails \in Seq(Frames)
  <2>1. todo \in Seq(Programs) /\ tar.tails \in Seq(Frames)
    BY <1>1 DEF TypeOK
  <2> QED BY <1>1, <1>3, <1>4, <2>1 DEF TailInv
<1>6. (l + 1) \div 2 \in 1 .. n
  BY <1>5
<1>7. PICK tail : tail = tar.tails[CurrentFile]
  OBVIOUS
<1>8. tail \in Frames
  <2>1. CurrentFile \in 1 .. Len(tar.tails)
    BY <1>3, <1>4, <1>6 DEF CurrentFile
  <2> QED BY <1>5, <1>7, <2>1, ElementOfSeq, Zenon
<1>9. CASE tail = 0
  BY <1>7, <1>9 DEF SourceIntact
<1>10. CASE tail # 0
  <2>1. tail - 1 \in Nat
    BY <1>8, <1>10, AddressSpacesAssumption DEF Frames
  <2>2. PICK b : b = BlockStart(tail - 1)
    OBVIOUS
  <2>3. b \in Nat /\ b <= 32
    BY <2>1, <2>2, BlockStartBound
  <2>4. PICK u : u = Segment.upto
    OBVIOUS
  <2>5. b + u <= PAGE
    BY <1>2, <2>3, <2>4, SMT DEF PAGE
  <2> QED BY <1>7, <2>2, <2>4, <2>5 DEF SourceIntact
<1> QED BY <1>9, <1>10

LEMMA LoadMemcpy ==
    ASSUME IInv, TailInv, LoadInv, memcpy, pc' # "kernel_half"
    PROVE  LoadInv'
<1>1. /\ TypeOK /\ pc = "memcpy" /\ pc' = "segment" /\ todo # <<>>
      /\ SegmentPages \subseteq UserPages
      /\ cr3 = new.pd /\ new.segment \in DOMAIN Head(todo).segments
      /\ new \in [pd : Frames, stack : Frames, phys : Frames, segment : Nat]
  BY DEF IInv, TypeOK, memcpy, Calling, Making, Cr3, SegmentFrame
<1>2. PICK d : d = new.pd
  OBVIOUS
<1>3. PICK n : n = new.segment
  OBVIOUS
<1>4. d \in Frames /\ Space(d, Me) /\ n \in Nat
  BY <1>1, <1>2, <1>3 DEF IInv, Calling, Making
<1>5. /\ new' = [new EXCEPT !.segment = @ + 1]
      /\ todo' = todo /\ procs' = procs
  BY DEF memcpy
<1>6. PICK targets : targets = UNION {Walk(mem, cr3, v) : v \in SegmentPages}
  OBVIOUS
<1>7. PICK c : c = DataContent(IF SourceIntact THEN <<Me, n>> ELSE NoData)
  OBVIOUS
<1>8. mem' = [f \in Frames |-> IF f \in targets THEN c ELSE mem[f]]
  BY <1>3, <1>6, <1>7 DEF memcpy
<1>9. \A f \in targets : UserFrame(f, d, Me)
  <2> SUFFICES ASSUME NEW v \in SegmentPages, NEW f \in Walk(mem, d, v) PROVE UserFrame(f, d, Me)
    BY <1>1, <1>2, <1>6
  <2>1. v \in UserPages
    BY <1>1
  <2> QED BY <1>1, <1>4, <2>1, UserWalk
<1>10. \A g \in Frames : g \notin targets => mem'[g] = mem[g]
  BY <1>8
<1>11. Intact'
  <2>1. \A g \in Frames : g \in used /\ owner[g] # Me => mem'[g] = mem[g]
    BY <1>9, <1>10 DEF UserFrame
  <2> QED BY <1>5, <2>1, IntactKept DEF LoadInv
<1>12. SamePage(mem, mem', d) /\ \A t \in Frames : UserTable(t, d) => SamePage(mem, mem', t)
  BY <1>4, <1>9, <1>10 DEF UserFrame, SamePage, Entry
<1>13. \A v \in UserPages : Walk(mem', d, v) = Walk(mem, d, v)
  BY <1>1, <1>4, <1>12, WalkSame
<1>14. Loading(mem, d, Me, Head(todo), n)
  BY <1>1, <1>2, <1>3, LoadingIs DEF LoadInv, Making
<1>15. TablesApart(mem', d)
  BY <1>12, <1>14 DEF Loading, TablesApart, SamePage
<1>16. Loading(mem', d, Me, Head(todo), n + 1)
  <2> SUFFICES ASSUME Fine(Head(todo)), NEW k \in Loaded(Head(todo)), k < n + 1
               PROVE  HasSegment(mem', d, Me, Head(todo), k)
    BY <1>15 DEF Loading, LoadedBefore
  <2>1. SegmentPages = {Segment.page} /\ Walk(mem, cr3, Segment.page) = {new.phys}
    BY <1>1, OnePage DEF Fine
  <2>2. targets = {new.phys}
    BY <1>6, <2>1
  <2>3. PICK p : p = new.phys
    OBVIOUS
  <2>4. p \in Frames
    BY <1>1, <2>3
  <2>5. PICK v : v = Head(todo).segments[k].page
    OBVIOUS
  <2>6. k \in Nat /\ v \in UserPages
    BY <1>1, <2>5, HeadProgram, ProgramPages DEF Fine, Loaded
  <2>7. CASE k = n
    <3>1. Walk(mem, d, v) = {p}
      BY <1>1, <1>2, <1>3, <2>1, <2>3, <2>5, <2>7 DEF Segment
    <3>2. Walk(mem', d, v) = {p}
      BY <1>13, <2>6, <3>1
    <3>3. mem'[p].data = <<Me, k>>
      <4>1. mem'[p] = c
        BY <1>8, <2>2, <2>3, <2>4
      <4>2. SourceIntact
        BY <1>1, SourceKept DEF Fine
      <4> QED BY <1>7, <2>7, <4>1, <4>2 DEF DataContent
    <3> QED BY <2>5, <3>2, <3>3 DEF HasSegment
  <2>8. CASE k # n
    <3>1. k < n
      BY <1>4, <2>6, <2>8
    <3>2. PICK f \in Walk(mem, d, v) : mem[f].data = <<Me, k>>
      BY <1>14, <2>5, <3>1 DEF Loading, LoadedBefore, HasSegment
    <3>3. v # Segment.page
      <4>1. n \in Loaded(Head(todo))
        BY <1>1, <1>3 DEF IInv, SegmentFrame, Segment, Loaded
      <4> QED BY <1>3, <2>5, <2>8, <4>1 DEF Fine, WellLaid, Segment
    <3>4. f # p
      BY <1>1, <1>2, <2>3, <2>6, <3>2, <3>3 DEF LoadInv, MappedOnce
    <3>5. f \in Frames
      <4>1. UserFrame(f, d, Me)
        BY <1>1, <1>4, <2>6, <3>2, UserWalk
      <4> QED BY <1>1, <4>1, Layout DEF UserFrame, TypeOK
    <3>6. mem'[f] = mem[f]
      BY <1>10, <2>2, <2>3, <3>4, <3>5
    <3>7. f \in Walk(mem', d, v)
      BY <1>13, <2>6, <3>2
    <3> QED BY <2>5, <3>2, <3>6, <3>7 DEF HasSegment
  <2> QED BY <2>7, <2>8
<1>17. MakingLoaded'
  <2>1. Me' = Me /\ new'.pd = d /\ new'.segment = n + 1
    BY <1>1, <1>2, <1>3, <1>5 DEF Me
  <2> QED BY <1>5, <1>16, <2>1, LoadingIs
<1>18. LoopPosition' /\ MappedOnce'
  BY <1>1 DEF LoopPosition, MappedOnce
<1> QED BY <1>11, <1>17, <1>18 DEF LoadInv

LEMMA LoadStutter == ASSUME IInv, LoadInv, UNCHANGED vars PROVE LoadInv'
<1>1. UNCHANGED <<mem, used, owner, procs>> /\ UNCHANGED <<cr3, archive, tar, todo, new, pc>>
  BY DEF vars
<1>2. Intact'
  BY <1>1, IntactKept DEF LoadInv
<1>3. MakingLoaded'
  <2>1. CASE pc \in Making
    BY <1>1, <2>1, LoadingStays
  <2>2. CASE pc \notin Making
    BY <1>1, <2>2, NoneMaking
  <2> QED BY <2>1, <2>2
<1>4. LoopPosition'
  BY <1>1 DEF LoadInv, LoopPosition
<1>5. MappedOnce'
  BY <1>1 DEF LoadInv, MappedOnce, Walk, UserPages, Segment
<1> QED BY <1>2, <1>3, <1>4, <1>5 DEF LoadInv

LEMMA LoadNextStep ==
    ASSUME IInv, TailInv, LoadInv, [Next]_vars, pc' # "kernel_half"
    PROVE  LoadInv'
<1>1. CASE map_page_present \/ map_page_absent
  <2>1. pc \in {"map_initrd", "map_initrd_2", "map_stack", "map_above", "map_segment"}
    BY <1>1, AfterMapValues DEF map_page_present, map_page_absent
  <2> QED BY <1>1, <2>1, LoadMapKernel, LoadMapUser
<1>2. CASE ParseEnds \/ ParseFault \/ skip_file \/ PageFault \/ OutOfFrames
  BY <1>2, LoadOutside
<1>3. CASE enter \/ leave \/ allocate_stack \/ allocate_kernel
  BY <1>3, LoadQuiet
<1>4. CASE next_segment
  BY <1>4, LoadNext
<1>5. CASE allocate_segment
  BY <1>5, LoadAllocate
<1>6. CASE copy
  BY <1>6, LoadCopy
<1>7. CASE calloc
  BY <1>7, LoadCalloc
<1>8. CASE memcpy
  BY <1>8, LoadMemcpy
<1>9. CASE UNCHANGED vars
  BY <1>9, LoadStutter
<1>10. CASE ParseHeader \/ ParseSize \/ ParseCopy
  BY <1>10, LoadParse
<1> QED BY <1>1, <1>2, <1>3, <1>4, <1>5, <1>6, <1>7, <1>8, <1>9, <1>10 DEF Next

\* The tails grow with the list, and the calls come from the list.
LEMMA TailInit == Init => TailInv
BY DEF Init, TailInv

LEMMA TailNext == ASSUME TypeOK, TailInv, [Next]_vars PROVE TailInv'
<1>1. PICK R : R = Range(archive)
  OBVIOUS
<1>2. /\ tar.list \in Seq(R) /\ tar.tails \in Seq(Frames) /\ todo \in Seq(Programs)
      /\ Len(tar.tails) = Len(tar.list) /\ Len(todo) <= 2 * Len(tar.tails)
      /\ Len(tar.tails) \in Nat /\ Len(todo) \in Nat
  BY <1>1 DEF TypeOK, TailInv
<1>3. CASE tar' = tar /\ todo' = todo
  BY <1>3 DEF TailInv
<1>4. CASE ParseSize
  <2>1. PICK f : tar' = [tar EXCEPT !.frame = f]
    BY <1>4 DEF ParseSize
  <2>2. tar'.list = tar.list /\ tar'.tails = tar.tails
    BY <2>1
  <2>3. todo' = todo
    BY <1>4 DEF ParseSize
  <2> QED BY <1>2, <2>2, <2>3 DEF TailInv
<1>5. CASE ParseCopy
  <2>0. PICK k \in Files :
          /\ tar'.list = <<archive[k]>> \o tar.list
          /\ tar'.tails = Append(tar.tails, TailFrame(getsize(SizeField(archive[k].size))))
    BY <1>5 DEF ParseCopy
  <2>1. PICK e, tail : /\ tar'.list = <<e>> \o tar.list
                       /\ tar'.tails = Append(tar.tails, tail)
    BY <2>0
  <2>2. Len(tar'.list) = Len(tar.list) + 1 /\ Len(tar'.tails) = Len(tar.tails) + 1
    <3>1. PICK l : l = tar.list
      OBVIOUS
    <3>2. PICK t : t = tar.tails
      OBVIOUS
    <3>3. Len(<<e>> \o l) = Len(l) + 1 /\ Len(Append(t, tail)) = Len(t) + 1
      BY <1>2, <3>1, <3>2
    <3> QED BY <2>1, <3>1, <3>2, <3>3
  <2>3. todo' = todo
    BY <1>5 DEF ParseCopy
  <2> QED BY <1>2, <2>2, <2>3 DEF TailInv
<1>6. CASE ParseEnds
  <2>1. todo' = Calls(tar.list) /\ tar' = tar
    BY <1>6 DEF ParseEnds
  <2>2. PICK n : n = 2 * Len(tar.list)
    OBVIOUS
  <2>3. n \in Nat /\ Len(Calls(tar.list)) = n
    BY <1>2, <2>2 DEF Calls
  <2> QED BY <1>2, <2>1, <2>2, <2>3 DEF TailInv
<1>7. CASE skip_file \/ calloc
  <2>1. todo' = Tail(todo) /\ tar' = tar
    BY <1>7 DEF skip_file, calloc
  <2>2. Len(Tail(todo)) <= Len(todo) /\ Len(Tail(todo)) \in Nat
    <3>1. CASE todo = <<>>
      BY <1>2, <3>1
    <3>2. CASE todo # <<>>
      BY <1>2, <3>2
    <3> QED BY <3>1, <3>2
  <2> QED BY <1>2, <2>1, <2>2 DEF TailInv
<1>8. CASE ~(ParseSize \/ ParseCopy \/ ParseEnds \/ skip_file \/ calloc)
  <2>1. tar' = tar /\ todo' = todo
    BY <1>8 DEF Next, vars, map_page_present, map_page_absent, ParseHeader, ParseFault, copy,
                allocate_stack, allocate_kernel, enter, leave, next_segment, allocate_segment,
                memcpy, PageFault, OutOfFrames
  <2> QED BY <1>3, <2>1
<1> QED BY <1>4, <1>5, <1>6, <1>7, <1>8

LEMMA SpecTail == Spec => []TailInv
<1>1. HalfInv /\ TailInv /\ [Next]_vars => TailInv'
  BY TailNext DEF HalfInv
<1> QED BY <1>1, TailInit, SpecInv, PTL DEF Spec

LEMMA SpecLoad == Spec => []LoadUntilHalf
<1>1. Init => LoadUntilHalf
  BY LoadInit DEF LoadUntilHalf
<1>2. HalfInv /\ TailInv /\ LoadUntilHalf /\ [Next]_vars => LoadUntilHalf'
  <2> SUFFICES ASSUME HalfInv, TailInv, LoadUntilHalf, [Next]_vars, pc' # "kernel_half"
               PROVE  LoadInv'
    BY DEF LoadUntilHalf
  <2>1. pc # "kernel_half"
    BY KernelHalfEnds DEF vars
  <2> QED BY <2>1, LoadNextStep DEF HalfInv, LoadUntilHalf
<1> QED BY <1>1, <1>2, SpecInv, SpecTail, PTL DEF Spec
-----------------------------------------------------------------------------
(* Where parse_tar is in the archive. *)

\* The digits of a size give it back.
LEMMA SizeRead ==
    ASSUME NEW size \in Nat, size < SizeLimit
    PROVE  getsize(SizeField(size)) = size
<1> DEFINE q(c) == size \div c
<1>1. size \in Nat /\ size < 1073741824
  BY SMT DEF SizeLimit
<1>2. /\ q(1073741824) = 0 /\ q(1) = size
      /\ q(1) = 8 * q(8) + (q(1) % 8)
      /\ q(8) = 8 * q(64) + (q(8) % 8)
      /\ q(64) = 8 * q(512) + (q(64) % 8)
      /\ q(512) = 8 * q(4096) + (q(512) % 8)
  BY <1>1, SMT
<1>3. /\ q(4096) = 8 * q(32768) + (q(4096) % 8)
      /\ q(32768) = 8 * q(262144) + (q(32768) % 8)
      /\ q(262144) = 8 * q(2097152) + (q(262144) % 8)
  BY <1>1, SMT
<1>4. /\ q(2097152) = 8 * q(16777216) + (q(2097152) % 8)
      /\ q(16777216) = 8 * q(134217728) + (q(16777216) % 8)
      /\ q(134217728) = 8 * q(1073741824) + (q(134217728) % 8)
  BY <1>1, SMT
<1>5. /\ Count[1] = 1073741824 /\ Count[2] = 134217728 /\ Count[3] = 16777216
      /\ Count[4] = 2097152 /\ Count[5] = 262144 /\ Count[6] = 32768
      /\ Count[7] = 4096 /\ Count[8] = 512 /\ Count[9] = 64 /\ Count[10] = 8 /\ Count[11] = 1
  BY SMT DEF Count
<1>6. PICK s : s = SizeField(size)
  OBVIOUS
<1>7. \A j \in 1 .. 11 : s[j] = q(Count[j]) % 8
  BY <1>6, SMT DEF SizeField, DIGITS
<1>8. /\ s[1] = q(1073741824) % 8 /\ s[2] = q(134217728) % 8 /\ s[3] = q(16777216) % 8
      /\ s[4] = q(2097152) % 8 /\ s[5] = q(262144) % 8 /\ s[6] = q(32768) % 8
      /\ s[7] = q(4096) % 8 /\ s[8] = q(512) % 8 /\ s[9] = q(64) % 8
      /\ s[10] = q(8) % 8 /\ s[11] = q(1) % 8
  BY <1>5, <1>7, SMT
<1>9. getsize(s) = s[11] * 1 + s[10] * 8 + s[9] * 64 + s[8] * 512 + s[7] * 4096
                   + s[6] * 32768 + s[5] * 262144 + s[4] * 2097152 + s[3] * 16777216
                   + s[2] * 134217728 + s[1] * 1073741824
  BY <1>5, SMT DEF getsize
<1>10. \A c \in Nat \ {0} : q(c) \in Nat /\ q(c) % 8 \in Nat
  BY <1>1, SMT
<1> HIDE DEF q
<1>11. /\ q(1) \in Nat /\ q(8) \in Nat /\ q(64) \in Nat /\ q(512) \in Nat /\ q(4096) \in Nat
       /\ q(32768) \in Nat /\ q(262144) \in Nat /\ q(2097152) \in Nat /\ q(16777216) \in Nat
       /\ q(134217728) \in Nat /\ q(1073741824) \in Nat
  BY <1>10, SMT
<1>12. s[1] = 0
  <2>1. 0 % 8 = 0
    BY SMT
  <2> QED BY <1>2, <1>8, <2>1, SMT
<1>13. s[11] \in Nat /\ s[10] \in Nat /\ s[9] \in Nat /\ s[8] \in Nat /\ s[7] \in Nat
       /\ s[6] \in Nat /\ s[5] \in Nat /\ s[4] \in Nat /\ s[3] \in Nat /\ s[2] \in Nat
  BY <1>8, <1>10, SMT
<1>14. /\ q(1) = 8 * q(8) + s[11] /\ q(8) = 8 * q(64) + s[10] /\ q(64) = 8 * q(512) + s[9]
       /\ q(512) = 8 * q(4096) + s[8] /\ q(4096) = 8 * q(32768) + s[7]
       /\ q(32768) = 8 * q(262144) + s[6] /\ q(262144) = 8 * q(2097152) + s[5]
       /\ q(2097152) = 8 * q(16777216) + s[4] /\ q(16777216) = 8 * q(134217728) + s[3]
       /\ q(134217728) = 8 * q(1073741824) + s[2]
  BY <1>2, <1>3, <1>4, <1>8, SMT
<1>15. size = s[11] + 8 * s[10] + 64 * s[9] + 512 * s[8] + 4096 * q(4096)
  <2>1. size \in Nat /\ size = 8 * q(8) + s[11]
    BY <1>1, <1>2, <1>14, SMT
  <2>2. q(8) = s[10] + 8 * s[9] + 64 * s[8] + 512 * q(4096)
    BY <1>11, <1>13, <1>14, SMT
  <2> QED BY <1>11, <1>13, <2>1, <2>2, SMT
<1>16. q(4096) = s[7] + 8 * s[6] + 64 * s[5] + 512 * q(2097152)
  BY <1>11, <1>13, <1>14, SMT
<1>17. q(2097152) = s[4] + 8 * s[3] + 64 * s[2]
  BY <1>2, <1>11, <1>13, <1>14, SMT
<1>18. getsize(s) = size
  <2>1. PICK a : a = s[11]
    OBVIOUS
  <2>2. PICK b : b = s[10]
    OBVIOUS
  <2>3. PICK c : c = s[9]
    OBVIOUS
  <2>4. PICK d : d = s[8]
    OBVIOUS
  <2>5. PICK e : e = s[7]
    OBVIOUS
  <2>6. PICK f : f = s[6]
    OBVIOUS
  <2>7. PICK g : g = s[5]
    OBVIOUS
  <2>8. PICK h : h = s[4]
    OBVIOUS
  <2>9. PICK i : i = s[3]
    OBVIOUS
  <2>10. PICK j : j = s[2]
    OBVIOUS
  <2>11. PICK k : k = s[1]
    OBVIOUS
  <2>12. PICK v : v = q(4096)
    OBVIOUS
  <2>13. PICK w : w = q(2097152)
    OBVIOUS
  <2>14. /\ a \in Nat /\ b \in Nat /\ c \in Nat /\ d \in Nat /\ e \in Nat /\ f \in Nat
         /\ g \in Nat /\ h \in Nat /\ i \in Nat /\ j \in Nat /\ k = 0 /\ v \in Nat /\ w \in Nat
    BY <1>11, <1>12, <1>13, <2>1, <2>2, <2>3, <2>4, <2>5, <2>6, <2>7, <2>8, <2>9, <2>10, <2>11,
       <2>12, <2>13, SMT
  <2>15. /\ size = a + 8 * b + 64 * c + 512 * d + 4096 * v
         /\ v = e + 8 * f + 64 * g + 512 * w
         /\ w = h + 8 * i + 64 * j
    BY <1>15, <1>16, <1>17, <2>1, <2>2, <2>3, <2>4, <2>5, <2>6, <2>7, <2>8, <2>9, <2>10, <2>12,
       <2>13, SMT
  <2>16. getsize(s) = a * 1 + b * 8 + c * 64 + d * 512 + e * 4096 + f * 32768 + g * 262144
                      + h * 2097152 + i * 16777216 + j * 134217728 + k * 1073741824
    BY <1>9, <2>1, <2>2, <2>3, <2>4, <2>5, <2>6, <2>7, <2>8, <2>9, <2>10, <2>11, SMT
  <2> QED BY <1>1, <2>14, <2>15, <2>16, SMT
<1> QED BY <1>6, <1>18

\* Every set of numbers has a least one, which is what induction needs.
LEMMA LeastNumber ==
    ASSUME NEW T, T \subseteq Nat, T # {}
    PROVE  \E m \in T : \A k \in T : m <= k
<1> DEFINE R == OpToRel(<, Nat)
<1>1. \A x, y \in Nat : <<y, x>> \in R <=> y < x
  BY DEF OpToRel
<1>2. IsWellFoundedOn(R, Nat)
  BY NatLessThanWellFounded
<1> HIDE DEF R
<1>3. PICK x \in T : \A y \in T : ~ (<<y, x>> \in R)
  BY <1>2, WFMin
<1>4. \A y \in T : y \in Nat /\ x \in Nat
  OBVIOUS
<1>5. \A y \in T : ~ (y < x)
  BY <1>1, <1>3, <1>4
<1> QED BY <1>4, <1>5

\* The size in blocks, as parse_tar and as the archive count it.
LEMMA Blocks ==
    ASSUME NEW b \in Nat, NEW size \in Nat
    PROVE  /\ next_address(b, size) = b + 1 + (size + BLOCK - 1) \div BLOCK
           /\ LastRead(b, size) = b + (size + BLOCK - 1) \div BLOCK
           /\ (size + BLOCK - 1) \div BLOCK \in Nat
BY SMT DEF next_address, LastRead, BLOCK

\* An archive, as Archives has them.
IsArchive(a) == DOMAIN a = 1 .. Len(a) /\ Len(a) \in Nat /\ WellFormed(a)

LEMMA FileTypes ==
    ASSUME NEW a, IsArchive(a), NEW k \in 1 .. Len(a)
    PROVE  /\ a[k].block \in Nat /\ a[k].size \in Nat /\ a[k].size < SizeLimit /\ a[k].name \in Nat
           /\ Behind(a[k]) \in Nat /\ a[k].block < Behind(a[k])
           /\ a[k].block = IF k = 1 THEN 0 ELSE Behind(a[k - 1])
<1>1. /\ a[k].block \in Nat /\ a[k].size \in Nat /\ a[k].size < SizeLimit /\ a[k].name \in Nat
      /\ a[k].block = IF k = 1 THEN 0 ELSE Behind(a[k - 1])
  BY DEF IsArchive, WellFormed
<1>2. PICK b : b = a[k].block
  OBVIOUS
<1>3. PICK n : n = (a[k].size + BLOCK - 1) \div BLOCK
  OBVIOUS
<1>4. b \in Nat /\ n \in Nat
  BY <1>1, <1>2, <1>3, Blocks
<1>5. Behind(a[k]) = b + 1 + n
  BY <1>2, <1>3 DEF Behind
<1> QED BY <1>1, <1>2, <1>4, <1>5

\* The headers come one behind the other.
LEMMA Ascending ==
    ASSUME NEW a, IsArchive(a), NEW k \in 1 .. Len(a), NEW l \in 1 .. Len(a), k < l
    PROVE  Behind(a[k]) <= a[l].block
<1> DEFINE T == {x \in 1 .. Len(a) : k < x /\ ~(Behind(a[k]) <= a[x].block)}
<1> SUFFICES ASSUME T # {} PROVE FALSE
  OBVIOUS
<1>1. Len(a) \in Nat
  BY DEF IsArchive
<1>2. T \subseteq Nat
  OBVIOUS
<1>3. PICK m \in T : \A x \in T : m <= x
  BY <1>2, LeastNumber
<1>4. m \in 1 .. Len(a) /\ k < m /\ ~(Behind(a[k]) <= a[m].block) /\ m \in Nat /\ k \in Nat
  OBVIOUS
<1>5. a[m].block = Behind(a[m - 1]) /\ m - 1 \in 1 .. Len(a)
  BY <1>1, <1>4, FileTypes
<1>6. CASE m - 1 = k
  BY <1>1, <1>4, <1>5, <1>6, FileTypes
<1>7. CASE m - 1 # k
  <2>1. m - 1 \notin T
    BY <1>3, <1>4
  <2>2. Behind(a[k]) <= a[m - 1].block
    BY <1>4, <1>5, <1>7, <2>1
  <2>3. a[m - 1].block < Behind(a[m - 1]) /\ a[m - 1].block \in Nat
        /\ Behind(a[m - 1]) \in Nat /\ Behind(a[k]) \in Nat
    BY <1>5, FileTypes
  <2> QED BY <1>4, <1>5, <2>2, <2>3
<1> QED BY <1>6, <1>7

\* The k-th header, or the zeros.
HeaderAt(a, k) == IF k \in 1 .. Len(a) THEN a[k].block ELSE End(a)

LEMMA Headers1 ==
    ASSUME NEW a, IsArchive(a)
    PROVE  HeaderAt(a, 1) = 0 /\ End(a) \in Nat
<1>1. Len(a) \in Nat
  BY DEF IsArchive
<1>2. CASE Len(a) = 0
  <2>1. a = <<>>
    BY <1>2 DEF IsArchive
  <2> QED BY <1>2, <2>1 DEF HeaderAt, End
<1>3. CASE Len(a) # 0
  <2>1. 1 \in 1 .. Len(a) /\ Len(a) \in 1 .. Len(a) /\ a # <<>>
    BY <1>1, <1>3
  <2>2. a[1].block = 0 /\ Behind(a[Len(a)]) \in Nat
    BY <2>1, FileTypes
  <2> QED BY <2>1, <2>2 DEF HeaderAt, End
<1> QED BY <1>2, <1>3

LEMMA HeaderNext ==
    ASSUME NEW a, IsArchive(a), NEW k \in 1 .. Len(a)
    PROVE  /\ HeaderAt(a, k) = a[k].block /\ HeaderAt(a, k + 1) = Behind(a[k])
           /\ Behind(a[k]) <= End(a) /\ End(a) \in Nat
<1>1. Len(a) \in Nat /\ k \in Nat /\ a # <<>> /\ Len(a) \in 1 .. Len(a)
  BY DEF IsArchive
<1>2. End(a) = Behind(a[Len(a)]) /\ End(a) \in Nat
  BY <1>1, FileTypes DEF End
<1>3. HeaderAt(a, k) = a[k].block
  BY DEF HeaderAt
<1>4. CASE k = Len(a)
  <2>1. HeaderAt(a, k + 1) = End(a)
    BY <1>1, <1>4 DEF HeaderAt
  <2> QED BY <1>2, <1>3, <1>4, <2>1
<1>5. CASE k # Len(a)
  <2>1. k + 1 \in 1 .. Len(a) /\ k < Len(a) /\ k + 1 # 1 /\ (k + 1) - 1 = k
    BY <1>1, <1>5
  <2>2. HeaderAt(a, k + 1) = a[k + 1].block
    BY <2>1 DEF HeaderAt
  <2>3. a[k + 1].block = Behind(a[k])
    BY <2>1, FileTypes
  <2>4. Behind(a[k]) <= a[Len(a)].block
    BY <1>1, <2>1, Ascending
  <2>5. a[Len(a)].block < End(a) /\ a[Len(a)].block \in Nat /\ Behind(a[k]) \in Nat
    BY <1>1, <1>2, FileTypes
  <2>6. Behind(a[k]) <= End(a)
    BY <1>2, <2>4, <2>5
  <2> QED BY <1>2, <1>3, <2>2, <2>3, <2>6
<1> QED BY <1>4, <1>5

\* A block is the header of at most one file, and the zeros are no header.
LEMMA HeaderUnique ==
    ASSUME NEW a, IsArchive(a), NEW k \in 1 .. (Len(a) + 1)
    PROVE  /\ \A l \in 1 .. Len(a) : a[l].block = HeaderAt(a, k) => l = k
           /\ HeaderAt(a, k) = End(a) => k = Len(a) + 1
           /\ HeaderAt(a, k) <= End(a) /\ HeaderAt(a, k) \in Nat
<1>1. Len(a) \in Nat /\ k \in Nat /\ End(a) \in Nat
  BY Headers1 DEF IsArchive
<1>2. \A l \in 1 .. Len(a) : a[l].block < End(a) /\ a[l].block \in Nat
  <2> SUFFICES ASSUME NEW l \in 1 .. Len(a) PROVE a[l].block < End(a) /\ a[l].block \in Nat
    OBVIOUS
  <2>1. a[l].block < Behind(a[l]) /\ a[l].block \in Nat /\ Behind(a[l]) \in Nat
    BY FileTypes
  <2>2. Behind(a[l]) <= End(a)
    BY HeaderNext
  <2> QED BY <1>1, <2>1, <2>2
<1>3. CASE k = Len(a) + 1
  <2>1. HeaderAt(a, k) = End(a)
    BY <1>1, <1>3 DEF HeaderAt
  <2>2. \A l \in 1 .. Len(a) : a[l].block # End(a)
    BY <1>1, <1>2
  <2> QED BY <1>1, <1>3, <2>1, <2>2
<1>4. CASE k # Len(a) + 1
  <2>1. k \in 1 .. Len(a)
    BY <1>1, <1>4
  <2>2. HeaderAt(a, k) = a[k].block
    BY <2>1 DEF HeaderAt
  <2>3. ASSUME NEW l \in 1 .. Len(a), a[l].block = a[k].block PROVE l = k
    <3>1. /\ a[l].block < Behind(a[l]) /\ a[l].block \in Nat /\ Behind(a[l]) \in Nat
          /\ a[k].block < Behind(a[k]) /\ a[k].block \in Nat /\ Behind(a[k]) \in Nat
      BY <2>1, FileTypes
    <3>2. l < k => Behind(a[l]) <= a[k].block
      BY <2>1, Ascending
    <3>3. k < l => Behind(a[k]) <= a[l].block
      BY <2>1, Ascending
    <3>4. ~(l < k) /\ ~(k < l)
      BY <2>3, <3>1, <3>2, <3>3
    <3> QED BY <1>1, <3>4
  <2>4. a[k].block < End(a) /\ a[k].block \in Nat
    BY <1>2, <2>1
  <2> QED BY <1>1, <2>2, <2>3, <2>4
<1> QED BY <1>3, <1>4

\* parse_tar has listed the first tar.i files, and their names were long enough.
Parsed ==
    /\ tar.i \in 0 .. Len(archive)
    /\ tar.block = HeaderAt(archive, tar.i + 1)
    /\ Len(tar.list) = tar.i
    /\ \A j \in 1 .. tar.i : tar.list[j] = archive[tar.i + 1 - j] /\ archive[j].name >= j

\* It ended behind the last file or at a short name.
ParseOver ==
    pc \notin {"map_initrd", "map_initrd_2", "parse_tar", "parse_size", "parse_copy",
               "fault", "null"} =>
        tar.i = Len(archive) \/ archive[tar.i + 1].name <= tar.i

\* In the body of the loop the end has not been seen.
InBody == pc \in {"parse_size", "parse_copy"} => ~EndSeen

TarInv == Parsed /\ ParseOver /\ InBody /\ FaultsOnlyIllLaid

\* EndSeen is about the archive and how far parse_tar is in it.
LEMMA EndSeenSame ==
    ASSUME archive' = archive, tar'.block = tar.block, tar'.i = tar.i
    PROVE  EndSeen' <=> EndSeen
BY DEF EndSeen, Files, End, Behind, BLOCK

LEMMA ParsedSame ==
    ASSUME Parsed, archive' = archive,
           tar'.block = tar.block, tar'.i = tar.i, tar'.list = tar.list
    PROVE  Parsed'
BY DEF Parsed, HeaderAt, End, Behind, BLOCK

LEMMA ArchiveIs == ASSUME TypeOK PROVE IsArchive(archive)
BY AddressSpacesAssumption DEF TypeOK, IsArchive

\* The file whose header is at hand.
LEMMA FileAtHand ==
    ASSUME TypeOK, Parsed
    PROVE  /\ IsArchive(archive) /\ Len(archive) \in Nat /\ tar.i \in Nat
           /\ \A k \in Files : k = tar.i + 1 /\ k \in 1 .. Len(archive)
           /\ tar.block = End(archive) => tar.i = Len(archive)
           /\ tar.i # Len(archive) => tar.i + 1 \in Files
           /\ tar.block \in Nat /\ tar.block <= End(archive)
<1>1. IsArchive(archive) /\ Len(archive) \in Nat /\ DOMAIN archive = 1 .. Len(archive)
  BY ArchiveIs DEF IsArchive
<1>2. PICK k : k = tar.i + 1
  OBVIOUS
<1>3. k \in 1 .. (Len(archive) + 1) /\ tar.block = HeaderAt(archive, k) /\ tar.i \in Nat
      /\ tar.i \in 0 .. Len(archive)
  BY <1>1, <1>2 DEF Parsed
<1>4. /\ \A l \in 1 .. Len(archive) : archive[l].block = HeaderAt(archive, k) => l = k
      /\ HeaderAt(archive, k) = End(archive) => k = Len(archive) + 1
      /\ HeaderAt(archive, k) <= End(archive) /\ HeaderAt(archive, k) \in Nat
  BY <1>1, <1>3, HeaderUnique
<1>5. \A l \in Files : l = k /\ l \in 1 .. Len(archive)
  BY <1>1, <1>3, <1>4 DEF Files
<1>6. tar.block = End(archive) => tar.i = Len(archive)
  BY <1>1, <1>2, <1>3, <1>4
<1>7. tar.i # Len(archive) => k \in Files
  <2> SUFFICES ASSUME tar.i # Len(archive) PROVE k \in Files
    OBVIOUS
  <2>1. k \in 1 .. Len(archive)
    BY <1>1, <1>2, <1>3
  <2>2. HeaderAt(archive, k) = archive[k].block
    BY <2>1 DEF HeaderAt
  <2> QED BY <1>1, <1>3, <2>1, <2>2 DEF Files
<1> QED BY <1>1, <1>2, <1>3, <1>4, <1>5, <1>6, <1>7

LEMMA TarInit == Init => TarInv
<1> SUFFICES ASSUME Init PROVE TarInv
  OBVIOUS
<1>1. IsArchive(archive) /\ Len(archive) \in Nat
  BY AddressSpacesAssumption DEF Init, IsArchive
<1>2. tar.i = 0 /\ tar.block = 0 /\ tar.list = <<>> /\ pc = "map_initrd"
  BY DEF Init
<1>3. Parsed
  BY <1>1, <1>2, Headers1 DEF Parsed
<1>4. ParseOver /\ InBody /\ FaultsOnlyIllLaid
  BY <1>2 DEF ParseOver, InBody, FaultsOnlyIllLaid
<1> QED BY <1>3, <1>4 DEF TarInv

\* The allocations leave the position in the archive alone.
LEMMA TarMalloc == ASSUME TypeOK, TarInv, ParseHeader \/ ParseSize PROVE TarInv'
<1>1. /\ archive' = archive /\ pc' \in {"parse_size", "parse_copy"}
      /\ tar'.block = tar.block /\ tar'.i = tar.i /\ tar'.list = tar.list
  <2>1. CASE ParseHeader
    BY <2>1 DEF ParseHeader
  <2>2. CASE ParseSize
    <3>1. PICK f : tar' = [tar EXCEPT !.frame = f]
      BY <2>2 DEF ParseSize
    <3>2. tar'.block = tar.block /\ tar'.i = tar.i /\ tar'.list = tar.list
      BY <3>1
    <3> QED BY <2>2, <3>2 DEF ParseSize
  <2> QED BY <2>1, <2>2
<1>2. Parsed'
  BY <1>1, ParsedSame DEF TarInv
<1>3. ~EndSeen
  BY DEF ParseHeader, ParseSize, TarInv, InBody
<1>4. InBody'
  BY <1>1, <1>3, EndSeenSame DEF InBody
<1>5. ParseOver' /\ FaultsOnlyIllLaid'
  BY <1>1 DEF ParseOver, FaultsOnlyIllLaid
<1> QED BY <1>2, <1>4, <1>5 DEF TarInv

LEMMA TarCopy == ASSUME TypeOK, TarInv, ParseCopy PROVE TarInv'
<1>1. TypeOK /\ pc = "parse_copy" /\ pc' = "parse_tar" /\ archive' = archive /\ ~EndSeen
  BY DEF ParseCopy, TarInv, InBody
<1>2. PICK k \in Files :
        /\ tar'.block = next_address(tar.block, getsize(SizeField(archive[k].size)))
        /\ tar'.i = tar.i + 1
        /\ tar'.list = <<archive[k]>> \o tar.list
  BY DEF ParseCopy
<1>3. /\ IsArchive(archive) /\ Len(archive) \in Nat /\ tar.i \in Nat
      /\ k = tar.i + 1 /\ k \in 1 .. Len(archive) /\ tar.block \in Nat
  BY <1>1, FileAtHand DEF TarInv
<1>4. /\ tar.block = archive[k].block /\ archive[k].size \in Nat /\ archive[k].size < SizeLimit
      /\ archive[k].name \in Nat
  BY <1>3, FileTypes DEF Files
<1>5. getsize(SizeField(archive[k].size)) = archive[k].size
  BY <1>4, SizeRead
<1>6. next_address(tar.block, archive[k].size) = Behind(archive[k])
  <2>1. PICK b : b = archive[k].block
    OBVIOUS
  <2>2. PICK z : z = archive[k].size
    OBVIOUS
  <2>3. next_address(b, z) = b + 1 + (z + BLOCK - 1) \div BLOCK
    BY <1>3, <1>4, <2>1, <2>2, Blocks
  <2>4. Behind(archive[k]) = b + 1 + (z + BLOCK - 1) \div BLOCK
    BY <2>1, <2>2 DEF Behind
  <2> QED BY <1>4, <2>1, <2>2, <2>3, <2>4
<1>7. HeaderAt(archive, k + 1) = Behind(archive[k])
  BY <1>3, HeaderNext
<1>8. /\ tar'.block = HeaderAt(archive, k + 1) /\ tar'.i = k
      /\ tar'.list = <<archive[k]>> \o tar.list
  BY <1>2, <1>3, <1>5, <1>6, <1>7
<1>9. archive[k].name >= k
  <2>1. ~(archive[k].name <= tar.i)
    BY <1>1 DEF EndSeen
  <2> QED BY <1>3, <1>4, <2>1
<1>10. Len(tar'.list) = k /\ \A j \in 1 .. k : tar'.list[j] = archive[k + 1 - j]
  <2>1. PICK l : l = tar.list
    OBVIOUS
  <2>2. PICK R : R = Range(archive)
    OBVIOUS
  <2>3. PICK e : e = archive[k]
    OBVIOUS
  <2>4. PICK i : i = tar.i
    OBVIOUS
  <2>5. l \in Seq(R) /\ Len(l) = i /\ i \in Nat /\ k = i + 1
        /\ \A j \in 1 .. i : l[j] = archive[i + 1 - j]
    BY <1>1, <1>3, <2>1, <2>2, <2>4 DEF TypeOK, TarInv, Parsed
  <2>6. tar'.list = <<e>> \o l
    BY <1>8, <2>1, <2>3
  <2>7. /\ Len(<<e>> \o l) = i + 1 /\ (<<e>> \o l)[1] = e
        /\ \A j \in 2 .. (i + 1) : (<<e>> \o l)[j] = l[j - 1]
    BY <2>5
  <2>8. ASSUME NEW j \in 1 .. k PROVE tar'.list[j] = archive[k + 1 - j]
    <3>1. CASE j = 1
      <4>1. k + 1 - j = k
        BY <2>5, <3>1
      <4> QED BY <2>3, <2>6, <2>7, <3>1, <4>1
    <3>2. CASE j # 1
      <4>1. j \in 2 .. (i + 1) /\ j - 1 \in 1 .. i /\ i + 1 - (j - 1) = k + 1 - j
        BY <2>5, <3>2
      <4> QED BY <2>5, <2>6, <2>7, <4>1
    <3> QED BY <3>1, <3>2
  <2> QED BY <2>5, <2>6, <2>7, <2>8
<1>11. \A j \in 1 .. k : archive[j].name >= j
  <2>1. \A j \in 1 .. tar.i : archive[j].name >= j
    BY DEF TarInv, Parsed
  <2>2. \A j \in 1 .. k : j = k \/ j \in 1 .. tar.i
    BY <1>3
  <2> QED BY <1>9, <2>1, <2>2
<1>12. Parsed'
  <2>1. archive' = archive /\ tar'.i = k /\ k \in 0 .. Len(archive)
    BY <1>1, <1>3, <1>8
  <2>2. tar'.block = HeaderAt(archive, tar.i + 1)'
    <3>1. HeaderAt(archive, tar.i + 1)' = HeaderAt(archive, k + 1)
      BY <2>1, Zenon DEF HeaderAt, End, Behind, BLOCK
    <3> QED BY <1>8, <3>1
  <2> QED BY <1>10, <1>11, <2>1, <2>2 DEF Parsed
<1>13. ParseOver' /\ InBody' /\ FaultsOnlyIllLaid'
  BY <1>1 DEF ParseOver, InBody, FaultsOnlyIllLaid
<1> QED BY <1>12, <1>13 DEF TarInv

LEMMA TarEnds == ASSUME TypeOK, TarInv, ParseEnds PROVE TarInv'
<1>1. TypeOK /\ pc = "parse_tar" /\ pc' = "create_process" /\ archive' = archive /\ tar' = tar
      /\ EndSeen
  BY DEF ParseEnds
<1>2. Parsed'
  BY <1>1, ParsedSame DEF TarInv
<1>3. FaultsOnlyIllLaid' /\ InBody'
  BY <1>1 DEF FaultsOnlyIllLaid, InBody
<1>4. tar.i = Len(archive) \/ archive[tar.i + 1].name <= tar.i
  BY <1>1, FileAtHand DEF TarInv, EndSeen
<1>5. ParseOver'
  BY <1>1, <1>4 DEF ParseOver
<1> QED BY <1>2, <1>3, <1>5 DEF TarInv

\* What is read beyond the mapped pages lies before the end of the archive.
LEMMA TarFault == ASSUME TypeOK, TarInv, ParseFault PROVE TarInv'
<1>1. /\ TypeOK /\ pc' = "fault" /\ archive' = archive /\ tar' = tar
      /\ \/ tar.block \notin Mapped
         \/ \E k \in Files : LastRead(tar.block, getsize(SizeField(archive[k].size))) \notin Mapped
  BY DEF ParseFault
<1>2. Parsed'
  BY <1>1, ParsedSame DEF TarInv
<1>3. ParseOver' /\ InBody'
  BY <1>1 DEF ParseOver, InBody
<1>4. IsArchive(archive) /\ tar.block \in Nat /\ tar.block <= End(archive) /\ End(archive) \in Nat
  BY <1>1, FileAtHand, Headers1 DEF TarInv
<1>5. End(archive) \notin Mapped
  <2>1. CASE tar.block \notin Mapped
    BY <1>4, <2>1 DEF Mapped
  <2>2. CASE tar.block \in Mapped
    <3>1. PICK k \in Files : LastRead(tar.block, getsize(SizeField(archive[k].size))) \notin Mapped
      BY <1>1, <2>2
    <3>2. k \in 1 .. Len(archive) /\ tar.block = archive[k].block
      BY <1>1, FileAtHand DEF TarInv, Files
    <3>3. PICK b : b = archive[k].block
      OBVIOUS
    <3>4. PICK z : z = archive[k].size
      OBVIOUS
    <3>5. z \in Nat /\ z < SizeLimit /\ b \in Nat
      BY <1>4, <3>2, <3>3, <3>4, FileTypes
    <3>6. PICK n : n = (z + BLOCK - 1) \div BLOCK
      OBVIOUS
    <3>7. getsize(SizeField(z)) = z /\ LastRead(b, z) = b + n /\ n \in Nat
      BY <3>5, <3>6, SizeRead, Blocks
    <3>8. b + n \notin Mapped
      BY <3>1, <3>2, <3>3, <3>4, <3>7
    <3>9. b + 1 + n <= End(archive)
      <4>1. Behind(archive[k]) = b + 1 + n
        BY <3>3, <3>4, <3>6 DEF Behind
      <4> QED BY <1>4, <3>2, <4>1, HeaderNext
    <3> QED BY <1>4, <3>5, <3>7, <3>8, <3>9 DEF Mapped
  <2> QED BY <2>1, <2>2
<1>6. FaultsOnlyIllLaid'
  BY <1>1, <1>5 DEF FaultsOnlyIllLaid, Mapped, End, Behind, BLOCK
<1> QED BY <1>2, <1>3, <1>6 DEF TarInv

\* memcpy faults only for a program that is ill laid.
LEMMA TarPageFault == ASSUME IInv, LoadInv, TarInv, PageFault PROVE TarInv'
<1>1. /\ pc = "memcpy" /\ pc' = "fault" /\ archive' = archive /\ tar' = tar /\ todo' = todo
      /\ todo # <<>>
  BY DEF IInv, Calling, Making, PageFault
<1>2. Parsed'
  BY <1>1, ParsedSame DEF TarInv
<1>3. ParseOver' /\ InBody'
  BY <1>1 DEF ParseOver, InBody
<1>4. ~WellLaid(Head(todo))
  <2> SUFFICES ASSUME WellLaid(Head(todo)) PROVE FALSE
    OBVIOUS
  <2>1. SegmentPages = {Segment.page} /\ Walk(mem, cr3, Segment.page) = {new.phys}
    BY <1>1, OnePage
  <2>2. PICK v \in SegmentPages \cap UserPages : Walk(mem, cr3, v) = {}
    BY DEF PageFault
  <2> QED BY <2>1, <2>2
<1>5. FaultsOnlyIllLaid'
  BY <1>1, <1>4 DEF FaultsOnlyIllLaid, WellLaid, BelowKernel, Loaded
<1> QED BY <1>2, <1>3, <1>5 DEF TarInv

\* No other step touches the list or ends in a fault.
LEMMA TarOther ==
    ASSUME TarInv, archive' = archive, tar' = tar, pc' # "fault",
           pc' \notin {"parse_size", "parse_copy"},
           \/ pc' \in {"map_initrd_2", "parse_tar", "null"}
           \/ pc \notin {"map_initrd", "map_initrd_2", "parse_tar", "parse_size", "parse_copy",
                         "fault", "null"}
    PROVE  TarInv'
<1>1. Parsed'
  BY ParsedSame DEF TarInv
<1>2. ParseOver' /\ InBody' /\ FaultsOnlyIllLaid'
  BY DEF TarInv, ParseOver, InBody, FaultsOnlyIllLaid
<1> QED BY <1>1, <1>2 DEF TarInv

LEMMA TarStutter == ASSUME TarInv, UNCHANGED vars PROVE TarInv'
<1>1. archive' = archive /\ tar' = tar /\ pc' = pc /\ todo' = todo
  BY DEF vars
<1>2. Parsed'
  BY <1>1, ParsedSame DEF TarInv
<1>3. ParseOver' /\ InBody'
  BY <1>1, EndSeenSame DEF TarInv, ParseOver, InBody
<1>4. FaultsOnlyIllLaid'
  BY <1>1 DEF TarInv, FaultsOnlyIllLaid, WellLaid, BelowKernel, Loaded, Mapped, End, Behind, BLOCK
<1> QED BY <1>2, <1>3, <1>4 DEF TarInv

LEMMA TarStep == ASSUME IInv, LoadInv, TarInv, [Next]_vars PROVE TarInv'
<1> TypeOK
  BY DEF IInv
<1>1. CASE map_page_present \/ map_page_absent
  <2>1. /\ pc \in {"map_initrd", "map_initrd_2", "map_stack", "map_above", "map_segment"}
        /\ archive' = archive /\ tar' = tar /\ pc' \in {AfterMap[pc], "kernel_half"}
        /\ pc # "map_segment" => pc' = AfterMap[pc]
    BY <1>1, AfterMapValues DEF map_page_present, map_page_absent, MapEnds
  <2>2. /\ pc' # "fault" /\ pc' \notin {"parse_size", "parse_copy"}
        /\ pc \in {"map_initrd", "map_initrd_2"} => pc' \in {"map_initrd_2", "parse_tar"}
    BY <2>1, AfterMapValues
  <2> QED BY <2>1, <2>2, TarOther
<1>2. CASE ParseHeader \/ ParseSize
  BY <1>2, TarMalloc
<1>20. CASE ParseCopy
  BY <1>20, TarCopy
<1>3. CASE ParseEnds
  BY <1>3, TarEnds
<1>4. CASE ParseFault
  BY <1>4, TarFault
<1>5. CASE PageFault
  BY <1>5, TarPageFault
<1>6. CASE skip_file \/ copy \/ allocate_stack \/ allocate_kernel \/ enter \/ leave \/ calloc
  <2>1. /\ pc \in {"create_process", "allocate_stack", "allocate_kernel", "enter", "leave", "calloc"}
        /\ archive' = archive /\ tar' = tar /\ pc' \notin {"fault", "parse_size", "parse_copy"}
    BY <1>6 DEF skip_file, copy, Called, allocate_stack, allocate_kernel, enter, leave, calloc
  <2> QED BY <2>1, TarOther
<1>7. CASE next_segment \/ allocate_segment \/ memcpy
  <2>1. /\ pc \in {"segment", "memcpy"} /\ archive' = archive /\ tar' = tar
        /\ pc' \notin {"fault", "parse_size", "parse_copy"}
    BY <1>7 DEF next_segment, allocate_segment, memcpy
  <2> QED BY <2>1, TarOther
<1>8. CASE OutOfFrames
  <2>1. pc' = "null" /\ archive' = archive /\ tar' = tar
    BY <1>8 DEF OutOfFrames
  <2> QED BY <2>1, TarOther
<1>9. CASE UNCHANGED vars
  BY <1>9, TarStutter
<1> QED BY <1>1, <1>2, <1>20, <1>3, <1>4, <1>5, <1>6, <1>7, <1>8, <1>9 DEF Next

LEMMA SpecTar == Spec => []TarInv
<1>1. HalfInv /\ LoadUntilHalf /\ TarInv /\ [Next]_vars => TarInv'
  <2> SUFFICES ASSUME HalfInv, LoadUntilHalf, TarInv, [Next]_vars PROVE TarInv'
    OBVIOUS
  <2>1. CASE pc = "kernel_half"
    BY <2>1, KernelHalfEnds, TarStutter
  <2>2. CASE pc # "kernel_half"
    BY <2>2, TarStep DEF HalfInv, LoadUntilHalf
  <2> QED BY <2>1, <2>2
<1> QED BY <1>1, TarInit, SpecLoad, SpecInv, PTL DEF Spec

\* The longest run of long names ends where parse_tar did.
LEMMA InvListed == TypeOK /\ TarInv => InitrdListed
<1> SUFFICES ASSUME TypeOK, TarInv PROVE InitrdListed
  OBVIOUS
<1>1. /\ IsArchive(archive) /\ Len(archive) \in Nat /\ tar.i \in Nat
      /\ DOMAIN archive = 1 .. Len(archive) /\ tar.i \in 0 .. Len(archive)
  BY FileAtHand DEF TarInv, IsArchive, Parsed
<1>2. ~Astray
  <2> SUFFICES ASSUME Astray PROVE FALSE
    OBVIOUS
  <2>1. ~EndSeen /\ Files = {}
    BY DEF Astray
  <2>2. tar.i = Len(archive)
    BY <2>1, FileAtHand DEF TarInv
  <2>3. tar.block = End(archive)
    BY <1>1, <2>2 DEF TarInv, Parsed, HeaderAt
  <2> QED BY <2>1, <2>3 DEF EndSeen
<1> DEFINE S == {n \in 0 .. Len(archive) : \A i \in 1 .. n : archive[i].name >= i}
<1>3. ASSUME pc \notin {"map_initrd", "map_initrd_2", "parse_tar", "parse_size", "parse_copy",
                         "fault", "null"}
      PROVE  tar.list = Reverse(SubSeq(archive, 1, Max(S)))
  <2>1. PICK i : i = tar.i
    OBVIOUS
  <2>2. i \in 0 .. Len(archive) /\ \A j \in 1 .. i : archive[j].name >= j
    BY <1>1, <2>1 DEF TarInv, Parsed
  <2>3. i = Len(archive) \/ archive[i + 1].name <= i
    BY <1>3, <2>1 DEF TarInv, ParseOver
  <2>4. i \in S
    BY <2>2
  <2>5. \A n \in S : n <= i
    <3> SUFFICES ASSUME NEW n \in S, n > i PROVE FALSE
      BY <1>1, <2>1
    <3>1. n \in 0 .. Len(archive) /\ \A j \in 1 .. n : archive[j].name >= j
      OBVIOUS
    <3>2. i + 1 \in 1 .. n /\ i # Len(archive) /\ i + 1 \in 1 .. Len(archive)
      BY <1>1, <2>1, <3>1
    <3>3. archive[i + 1].name >= i + 1 /\ archive[i + 1].name \in Nat
      BY <1>1, <3>1, <3>2, FileTypes
    <3> QED BY <1>1, <2>1, <2>3, <3>2, <3>3
  <2>6. \A x \in S : x \in Nat
    OBVIOUS
  <2> HIDE DEF S
  <2>7. Max(S) = i
    <3>1. \A y \in S : i >= y
      BY <2>4, <2>5, <2>6
    <3>2. Max(S) \in S /\ \A y \in S : Max(S) >= y
      BY <2>4, <3>1 DEF Max
    <3> QED BY <2>4, <2>6, <3>1, <3>2
  <2>8. tar.list = Reverse(SubSeq(archive, 1, i))
    <3>1. PICK l : l = tar.list
      OBVIOUS
    <3>2. PICK R : R = Range(archive)
      OBVIOUS
    <3>3. l \in Seq(R) /\ Len(l) = i /\ i \in Nat /\ \A j \in 1 .. i : l[j] = archive[i + 1 - j]
      BY <1>1, <2>1, <3>1, <3>2 DEF TypeOK, TarInv, Parsed
    <3>4. PICK a : a = archive
      OBVIOUS
    <3>5. PICK t : t = SubSeq(a, 1, i)
      OBVIOUS
    <3>6. t = [j \in 1 .. i |-> a[j]]
      BY <1>1, <2>1, <3>5
    <3>7. Len(t) = i
      BY <3>3, <3>6
    <3>8. Reverse(t) = [j \in 1 .. i |-> t[(i - j) + 1]]
      BY <3>7 DEF Reverse
    <3>9. l = [j \in 1 .. i |-> archive[i + 1 - j]]
      BY <3>3
    <3>10. \A j \in 1 .. i : t[(i - j) + 1] = archive[i + 1 - j]
      BY <3>3, <3>4, <3>6
    <3> QED BY <3>1, <3>4, <3>5, <3>8, <3>9, <3>10
  <2> QED BY <2>7, <2>8
<1> QED BY <1>2, <1>3 DEF InitrdListed

-----------------------------------------------------------------------------
(* Theorems. *)

\* A process whose program is well laid and comes from the first 4064 bytes of
\* its file finds every segment that Elf32::load copied on the page its header
\* names, through its own directory, for any initrd, memory layout and number
\* of processes, until a segment is put into the kernel's half: neither the
\* later segments of the program nor the processes made after it overwrite or
\* remap them, and the part of the heap's copy that lies in a frame of its own
\* is still the file's when the segment is copied.
THEOREM ProgramIntactHolds == Spec => []ProgramIntact
<1>1. LoadUntilHalf => ProgramIntact
  BY DEF LoadUntilHalf, LoadInv, Intact, ProgramIntact, Whole, Fine, HasSegment, SegmentsInPlace
<1> QED BY <1>1, SpecLoad, PTL

\* The boot thread faults only for a program that is ill laid or an initrd that
\* does not fit the two pages load_initrd maps: the reads of parse_tar stay
\* before the end of the archive, and memcpy finds the page of a well-laid
\* segment mapped.
THEOREM FaultsOnlyIllLaidHolds == Spec => []FaultsOnlyIllLaid
<1>1. TarInv => FaultsOnlyIllLaid
  BY DEF TarInv
<1> QED BY <1>1, SpecTar, PTL

\* parse_tar goes from header to header, whatever the sizes, and lists the files
\* up to the first whose name is shorter than its place in the archive.
THEOREM InitrdListedHolds == Spec => []InitrdListed
<1>1. HalfInv /\ TarInv => InitrdListed
  BY InvListed DEF HalfInv
<1> QED BY <1>1, SpecInv, SpecTar, PTL
=============================================================================
