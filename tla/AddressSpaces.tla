--------------------------- MODULE AddressSpaces ----------------------------
(***************************************************************************)
(* How the processes of the initrd get their memory: load_initrd           *)
(* (src/main.cpp), parse_tar, Process::create_process and Elf32::load over *)
(* Paging and the frame allocator.  All of it is run by the boot thread;   *)
(* no interrupt handler touches this state before enable_scheduling.       *)
(*                                                                         *)
(* Frames below the kernel are handed out from the lowest on (see Pmm) and *)
(* never freed.  The null answer of allocate_frame is tested nowhere here; *)
(* the model ends with it.  It also ends once a segment has been put into  *)
(* the kernel's half of an address space, which Elf32::load does not       *)
(* refuse: from then on a pointer of the kernel need not mean its frame.   *)
(***************************************************************************)
EXTENDS Paging, Tar, Sequences, SequencesExt

CONSTANTS
    LowFrames,    \* frames 1 .. LowFrames are usable memory below the kernel
    VgaFrame,     \* the VGA text buffer
    KernelPd,     \* boot_page_directory; boot_page_table1 is the next frame
    KernelLast,   \* the last frame of the kernel, with the allocator's bitmap
    InitrdFrame,  \* where the boot loader put the initrd
    LastFrame,    \* the last frame of the model
    StackPage,    \* page 0xbfff0
    Archives      \* initrds: sequences of files, see Tar

\* A program: is its magic valid, and its headers: is it a PT_LOAD with bytes
\* in the file, its first page, the number of pages those bytes touch, and how
\* far into the file they reach (p_offset + p_filesz).  The headers themselves
\* are at the front of the file.
Headers == [load : BOOLEAN, page : Nat, pages : Nat \ {0}, upto : Nat]
Programs ==
    [valid : BOOLEAN,
     segments : Seq({h \in Headers : h.page + h.pages <= ENTRIES * ENTRIES})]

NoProgram == [valid |-> FALSE, segments |-> <<>>]

Low == 1 .. LowFrames
Frames == 0 .. LastFrame
UserPages == 0 .. (HIGHER_HALF - 1)
KernelPages == {P2VPage(f) : f \in Frames} \cup {P2VPage(ENTRIES - 1)}

ASSUME AddressSpacesAssumption ==
    /\ LowFrames \in Nat \ {0} /\ {VgaFrame, KernelPd, KernelLast, InitrdFrame, LastFrame} \subseteq Nat
    /\ LowFrames < VgaFrame /\ VgaFrame < KernelPd
    /\ KernelPd + 1 < KernelLast /\ KernelLast < ENTRIES - 1
    /\ KernelLast < InitrdFrame /\ InitrdFrame < LastFrame
    /\ LastFrame < ENTRIES * (ENTRIES \div 4)
    /\ StackPage \in UserPages /\ (StackPage + 1) \in UserPages
    /\ \A a \in Archives :
        /\ DOMAIN a = 1 .. Len(a) /\ Len(a) \in Nat /\ WellFormed(a)
        /\ \A k \in DOMAIN a :
            /\ a[k].program \in Programs
            /\ \A j \in DOMAIN a[k].program.segments :
                a[k].program.segments[j].upto <= a[k].size

VARIABLES
    mem,      \* what the frames hold
    used,     \* the frames allocate_frame has given out
    cr3,      \* the frame of the directory in use
    archive,  \* the initrd
    tar,      \* parse_tar: the block, i, the list, the frame that the data's
              \* bucket took, the frames the copies run over into
    todo,     \* the programs create_process is still to be called for
    new,      \* the locals of the running call: pd, stack, phys, segment
    procs,    \* the processes created
    pc,       \* what the boot thread does next
    owner     \* history: what each frame was given out for

vars == <<mem, used, cr3, archive, tar, todo, new, procs, pc, owner>>

\* Owners: nobody, the kernel's tables, the heap, or the i-th process.
Nobody == 0
Kernel == 1
Heap == 2
Owner(i) == 2 + i

NoCall == [pd |-> 0, stack |-> 0, phys |-> 0, segment |-> 1]
-----------------------------------------------------------------------------
(* The state _start and PMM::init leave. *)

\* boot_page_table1: every frame up to the end of the kernel (the test against
\* kernel_start is a signed one and never skips a frame), the bitmap that
\* PMM::init maps behind it, and the VGA buffer in the last entry.
boot_page_table1 ==
    [i \in Index |-> IF i <= KernelLast THEN PageEntry(i, 3)
                     ELSE IF i = ENTRIES - 1 THEN PageEntry(VgaFrame, 3)
                     ELSE Absent]

\* The identity mapping is gone again; the higher half stays.
boot_page_directory ==
    [ZeroPage EXCEPT ![HIGHER_HALF \div ENTRIES] = PageEntry(KernelPd + 1, 3)]

Init ==
    /\ mem = [f \in Frames |->
                PageContent(IF f = KernelPd THEN boot_page_directory
                            ELSE IF f = KernelPd + 1 THEN boot_page_table1
                            ELSE ZeroPage)]
    /\ used = {} /\ cr3 = KernelPd
    /\ archive \in Archives /\ todo = <<>> /\ procs = <<>>
    /\ tar = [block |-> 0, i |-> 0, list |-> <<>>, frame |-> 0, tails |-> <<>>]
    /\ new = NoCall
    /\ pc = "map_initrd"
    /\ owner = [f \in Frames |-> Nobody]
-----------------------------------------------------------------------------
(* Frames and pages. *)

\* Mutant: the search runs from the top.
allocate_frame_Last(f) == f \in Low \ used /\ \A g \in Low \ used : g <= f

\* f is the answer of allocate_frame.
allocate_frame(f) == f \in Low \ used /\ \A g \in Low \ used : f <= g

Takes(f, who) ==
    /\ allocate_frame(f)
    /\ used' = used \cup {f}
    /\ owner' = [owner EXCEPT ![f] = who]

\* The process in the making.
Me == Owner(Len(procs) + 1)

Segment == Head(todo).segments[new.segment]

\* The page the stack's top lies in is given the frame behind the stack's.
AboveStack(stack) == stack + 1

\* The calls of map_page, by the place they are made from.
MapRequest ==
    LET req(dir, phys, virt, flags, who) ==
            [dir |-> dir, phys |-> phys, virt |-> virt, flags |-> flags, who |-> who]
    IN  CASE pc = "map_initrd" ->
               req(cr3, InitrdFrame, P2VPage(InitrdFrame), 3, Kernel)
          [] pc = "map_initrd_2" ->
               req(cr3, InitrdFrame + 1, P2VPage(InitrdFrame + 1), 3, Kernel)
          [] pc = "map_stack" -> req(new.pd, new.stack, StackPage, 7, Me)
          [] pc = "map_above" ->
               req(new.pd, AboveStack(new.stack), StackPage + 1, 7, Me)
          [] pc = "map_segment" -> req(new.pd, new.phys, Segment.page, 7, Me)

AfterMap ==
    [map_initrd |-> "map_initrd_2", map_initrd_2 |-> "parse_tar",
     map_stack |-> "map_above", map_above |-> "enter", map_segment |-> "memcpy"]

\* No address is refused, and p_vaddr may be the kernel's.
MapEnds ==
    pc' = IF pc = "map_segment" /\ Segment.page \notin UserPages
          THEN "kernel_half" ELSE AfterMap[pc]

\* map_page finds the table.
map_page_present ==
    /\ pc \in DOMAIN AfterMap
    /\ LET r == MapRequest IN
        /\ HasTable(mem, r.dir, r.virt)
        /\ mem' = WithPage(mem, r.dir, r.phys, r.virt, r.flags)
    /\ MapEnds
    /\ UNCHANGED <<used, cr3, archive, tar, todo, new, procs, owner>>

\* map_page allocates the table first.
map_page_absent ==
    /\ pc \in DOMAIN AfterMap
    /\ \E f \in Low : LET r == MapRequest IN
        /\ ~HasTable(mem, r.dir, r.virt)
        /\ Takes(f, r.who)
        /\ mem' = WithPage(WithTable(mem, r.dir, r.virt, f),
                           r.dir, r.phys, r.virt, r.flags)
    /\ MapEnds
    /\ UNCHANGED <<cr3, archive, tar, todo, new, procs>>
-----------------------------------------------------------------------------
(* The heap, as far as it takes frames; Kmalloc is about its buckets. *)

PAGE == 4096

\* A new bucket: its header and the data overwrite what is in the frame.
NewBucket(f) ==
    /\ Takes(f, Heap)
    /\ mem' = [mem EXCEPT ![f] = PageContent(ZeroPage)]

\* A block of at most half a frame: there is a free slot, or a bucket is added.
malloc ==
    \/ (\E f \in used : owner[f] = Heap) /\ UNCHANGED <<mem, used, owner>>
    \/ \E f \in Low : NewBucket(f)

\* Where the block of a bucket with one slot starts: behind the header and a
\* byte of the bitmap, aligned for a long double.  P2V adds a multiple of 12.
BlockStart(f) ==
    LET value == f * PAGE + 21
    IN  21 + (IF value % 12 = 0 THEN 0 ELSE 12 - (value % 12))
-----------------------------------------------------------------------------
(* load_initrd. *)

\* What create_process may be called for: twice for each entry of the list.
Calls(list) == [i \in 1 .. (2 * Len(list)) |-> list[(i + 1) \div 2].program]

\* The blocks of the two pages that load_initrd maps.
Mapped == 0 .. 15

\* The file whose header is in the block that parse_tar has come to.
Files == {k \in DOMAIN archive : archive[k].block = tar.block}

\* What the loop looks at: character i of the name in the header, which is
\* the terminating zero at the latest behind the name.
EndSeen ==
    \/ tar.block = End(archive)
    \/ \E k \in Files : archive[k].name <= tar.i

\* One turn of the loop of parse_tar: the list's element is allocated.
ParseHeader ==
    /\ pc = "parse_tar" /\ tar.block \in Mapped /\ ~EndSeen /\ Files # {}
    /\ malloc
    /\ pc' = "parse_size"
    /\ UNCHANGED <<cr3, archive, tar, todo, new, procs>>

\* malloc(size) for the data: a block of more than half a frame has a bucket of
\* its own, which takes one frame whatever its size.
ParseSize ==
    /\ pc = "parse_size"
    /\ \E k \in Files :
        \/ /\ getsize(SizeField(archive[k].size)) <= PAGE \div 2
           /\ malloc /\ tar' = [tar EXCEPT !.frame = 0]
        \/ /\ getsize(SizeField(archive[k].size)) > PAGE \div 2
           /\ \E f \in Low : NewBucket(f) /\ tar' = [tar EXCEPT !.frame = f]
    /\ pc' = "parse_copy"
    /\ UNCHANGED <<cr3, archive, todo, new, procs>>

\* The frame that a copy of this size runs over into: the one behind the frame
\* of the bucket, which nobody has asked for.
TailFrame(size) ==
    IF tar.frame # 0 /\ BlockStart(tar.frame) + size > PAGE THEN tar.frame + 1 ELSE 0

\* The data is copied, and the file goes before the others.
ParseCopy ==
    /\ pc = "parse_copy"
    /\ \E k \in Files :
        LET size == getsize(SizeField(archive[k].size))
            tail == TailFrame(size)
        IN
        /\ LastRead(tar.block, size) \in Mapped
        /\ mem' = [f \in Frames |-> IF tail # 0 /\ f = tail
                                    THEN DataContent(<<tar.i + 1>>) ELSE mem[f]]
        /\ tar' = [block |-> next_address(tar.block, size), i |-> tar.i + 1,
                   list |-> <<archive[k]>> \o tar.list, frame |-> 0,
                   tails |-> Append(tar.tails, tail)]
    /\ pc' = "parse_tar"
    /\ UNCHANGED <<used, cr3, archive, todo, new, procs, owner>>

ParseEnds ==
    /\ pc = "parse_tar" /\ tar.block \in Mapped /\ EndSeen
    /\ todo' = Calls(tar.list)
    /\ pc' = "create_process"
    /\ UNCHANGED <<mem, used, cr3, archive, tar, new, procs, owner>>

\* The header or the data lie beyond the two pages.
ParseFault ==
    /\ \/ pc = "parse_tar" /\ tar.block \notin Mapped
       \/ pc = "parse_copy" /\ \E k \in Files :
            LastRead(tar.block, getsize(SizeField(archive[k].size))) \notin Mapped
    /\ pc' = "fault"
    /\ UNCHANGED <<mem, used, cr3, archive, tar, todo, new, procs, owner>>

\* parse_tar takes something for a header that is none.
Astray == pc = "parse_tar" /\ tar.block \in Mapped /\ ~EndSeen /\ Files = {}
-----------------------------------------------------------------------------
(* Process::create_process. *)

\* The entry's name is none of the three that load_initrd knows.
skip_file ==
    /\ pc = "create_process" /\ todo # <<>> /\ Head(todo) = NoProgram
    /\ todo' = Tail(todo)
    /\ UNCHANGED <<mem, used, cr3, archive, tar, new, procs, pc, owner>>

\* create_process is called.
Called == pc = "create_process" /\ todo # <<>> /\ Head(todo) # NoProgram

\* Mutant: the new directory is cleared, not copied.
copy_Clears ==
    /\ Called
    /\ \E f \in Low :
        /\ Takes(f, Me)
        /\ mem' = [mem EXCEPT ![f] = PageContent(ZeroPage)]
        /\ new' = [NoCall EXCEPT !.pd = f]
    /\ pc' = "allocate_stack"
    /\ UNCHANGED <<cr3, archive, tar, todo, procs>>

\* kernel_pd->copy(): the entries, and with them the tables they point to.
copy ==
    /\ Called
    /\ \E f \in Low :
        /\ Takes(f, Me)
        /\ mem' = [mem EXCEPT ![f] = mem[KernelPd]]
        /\ new' = [NoCall EXCEPT !.pd = f]
    /\ pc' = "allocate_stack"
    /\ UNCHANGED <<cr3, archive, tar, todo, procs>>

allocate_stack ==
    /\ pc = "allocate_stack"
    /\ \E f \in Low : Takes(f, Me) /\ new' = [new EXCEPT !.stack = f]
    /\ pc' = "allocate_kernel"
    /\ UNCHANGED <<mem, cr3, archive, tar, todo, procs>>

\* kernel_ptr: nothing in the kernel ever uses this stack.
allocate_kernel ==
    /\ pc = "allocate_kernel"
    /\ \E f \in Low : Takes(f, Me)
    /\ pc' = "map_stack"
    /\ UNCHANGED <<mem, cr3, archive, tar, todo, new, procs>>

\* Mutant: the new directory is not loaded for elf->load.
enter_StaysOut ==
    /\ pc = "enter"
    /\ pc' = IF Head(todo).valid THEN "segment" ELSE "leave"
    /\ UNCHANGED <<mem, used, cr3, archive, tar, todo, new, procs, owner>>

\* pd->update_cr3() and the test of the magic in elf->load.
enter ==
    /\ pc = "enter"
    /\ cr3' = new.pd
    /\ pc' = IF Head(todo).valid THEN "segment" ELSE "leave"
    /\ UNCHANGED <<mem, used, archive, tar, todo, new, procs, owner>>

\* kernel_pd->update_cr3()
leave ==
    /\ pc = "leave"
    /\ cr3' = KernelPd
    /\ pc' = "calloc"
    /\ UNCHANGED <<mem, used, archive, tar, todo, new, procs, owner>>

\* calloc of the Process, which may take a frame for a bucket, the process is
\* put at the end of the list, and load_initrd goes on.
calloc ==
    /\ pc = "calloc"
    /\ malloc
    /\ procs' = Append(procs, [pd |-> new.pd, program |-> Head(todo)])
    /\ todo' = Tail(todo)
    /\ pc' = "create_process"
    /\ UNCHANGED <<cr3, archive, tar, new>>
-----------------------------------------------------------------------------
(* Elf32::load. *)

\* The loop is over, or a header has nothing to load.
next_segment ==
    /\ pc = "segment"
    /\ \/ /\ new.segment > Len(Head(todo).segments)
          /\ pc' = "leave" /\ UNCHANGED new
       \/ /\ new.segment <= Len(Head(todo).segments)
          /\ ~Segment.load
          /\ new' = [new EXCEPT !.segment = @ + 1] /\ UNCHANGED pc
    /\ UNCHANGED <<mem, used, cr3, archive, tar, todo, procs, owner>>

\* Mutant: one frame is allocated for all segments.
allocate_segment_Once ==
    /\ pc = "segment" /\ new.segment <= Len(Head(todo).segments) /\ Segment.load
    /\ \/ \E f \in Low : /\ new.phys = 0
                         /\ Takes(f, Me) /\ new' = [new EXCEPT !.phys = f]
       \/ new.phys # 0 /\ UNCHANGED <<used, owner, new>>
    /\ pc' = "map_segment"
    /\ UNCHANGED <<mem, cr3, archive, tar, todo, procs>>

\* One frame per segment, whatever its size.
allocate_segment ==
    /\ pc = "segment" /\ new.segment <= Len(Head(todo).segments) /\ Segment.load
    /\ \E f \in Low : Takes(f, Me) /\ new' = [new EXCEPT !.phys = f]
    /\ pc' = "map_segment"
    /\ UNCHANGED <<mem, cr3, archive, tar, todo, procs>>

SegmentPages == Segment.page .. (Segment.page + Segment.pages - 1)

\* The file of the running call, by its place in the archive.
CurrentFile == (Len(todo) + 1) \div 2

\* What the segment is copied from is still the file's: it does not reach into
\* the frame that the heap's copy ran over into, or nobody has used that frame.
SourceIntact ==
    LET tail == tar.tails[CurrentFile] IN
    \/ tail = 0
    \/ BlockStart(tail - 1) + Segment.upto <= PAGE
    \/ mem[tail].data = <<CurrentFile>>

\* memcpy to p_vaddr, through the directory in use.
memcpy ==
    /\ pc = "memcpy"
    /\ \A v \in SegmentPages \cap UserPages : Walk(mem, cr3, v) # {}
    /\ LET targets == UNION {Walk(mem, cr3, v) : v \in SegmentPages}
           bytes == IF SourceIntact THEN <<Me, new.segment>> ELSE NoData
       IN  mem' = [f \in Frames |-> IF f \in targets THEN DataContent(bytes) ELSE mem[f]]
    /\ new' = [new EXCEPT !.segment = @ + 1]
    /\ pc' = IF SegmentPages \subseteq UserPages THEN "segment" ELSE "kernel_half"
    /\ UNCHANGED <<used, cr3, archive, tar, todo, procs, owner>>
-----------------------------------------------------------------------------
(* The ends. *)

\* memcpy runs into a page that is not mapped: isr_handler loops for ever.
PageFault ==
    /\ pc = "memcpy"
    /\ \E v \in SegmentPages \cap UserPages : Walk(mem, cr3, v) = {}
    /\ pc' = "fault"
    /\ UNCHANGED <<mem, used, cr3, archive, tar, todo, new, procs, owner>>

AsksForFrame ==
    \/ pc \in {"allocate_stack", "allocate_kernel", "parse_size", "calloc"}
    \/ pc = "parse_tar" /\ tar.block \in Mapped /\ ~EndSeen
    \/ Called
    \/ pc = "segment" /\ new.segment <= Len(Head(todo).segments) /\ Segment.load
    \/ pc \in DOMAIN AfterMap /\ ~HasTable(mem, MapRequest.dir, MapRequest.virt)

\* allocate_frame returns null.
OutOfFrames ==
    /\ AsksForFrame /\ Low \subseteq used
    /\ pc' = "null"
    /\ UNCHANGED <<mem, used, cr3, archive, tar, todo, new, procs, owner>>

Next ==
    \/ map_page_present \/ map_page_absent
    \/ ParseHeader \/ ParseSize \/ ParseCopy \/ ParseEnds \/ ParseFault
    \/ skip_file \/ copy \/ allocate_stack \/ allocate_kernel \/ enter \/ leave \/ calloc
    \/ next_segment \/ allocate_segment \/ memcpy
    \/ PageFault \/ OutOfFrames

Spec == Init /\ [][Next]_vars
-----------------------------------------------------------------------------
(* Properties. *)

PageType == [Index -> [frame : Frames, flags : Flags]]

Done == {"create_process", "fault", "null", "kernel_half"}

TypeOK ==
    /\ mem \in [Frames -> [page : PageType, data : Seq(Nat)]]
    /\ used \subseteq Low
    /\ cr3 \in Frames
    /\ archive \in Archives
    /\ tar.list \in Seq(Range(archive)) /\ tar.frame \in {0} \cup Low
    /\ tar.tails \in Seq(Frames) /\ tar.i \in Nat
    /\ todo \in Seq(Programs)
    /\ new \in [pd : Frames, stack : Frames, phys : Frames, segment : Nat]
    /\ procs \in Seq([pd : Frames, program : Programs])
    /\ pc \in Done \cup DOMAIN AfterMap \cup {"parse_tar", "parse_size",
        "parse_copy", "allocate_stack", "allocate_kernel", "enter", "leave", "calloc", "segment", "memcpy"}
    /\ owner \in [Frames -> Nat]

\* The frames that directory dir uses for itself and its tables.
TablesOf(dir) == {dir} \cup {e.frame : e \in {x \in Range(mem[dir].page) : present(x)}}

\* What process i reaches below the kernel is memory allocated for process i,
\* none of it a directory or table: the program cannot get at another process,
\* the heap, the kernel or its own mappings.  That includes the page above the
\* stack, for which create_process allocates no frame: the frame behind the
\* stack's happens to be the one that allocate_frame returns next.
UserFramesOwned ==
    pc # "kernel_half" =>
        \A i \in DOMAIN procs : \A v \in UserPages :
            \A f \in Walk(mem, procs[i].pd, v) :
                owner[f] = Owner(i) /\ f \notin TablesOf(procs[i].pd)

Loaded(program) == {k \in DOMAIN program.segments : program.segments[k].load}

\* Segments that end below the kernel's half.
BelowKernel(program) ==
    \A k \in Loaded(program) :
        program.segments[k].page + program.segments[k].pages <= HIGHER_HALF

\* Whatever directory is loaded, while a process is made or when switch_process
\* changes to it, the higher half is the kernel's, and every frame handed out
\* is found at its P2V address: copy, map_page, the heap and the process list
\* are written and read through such pointers without a check.  Only a program
\* with a segment that reaches the kernel's half can end that.
KernelHalfKept ==
    IF pc = "kernel_half" THEN ~BelowKernel(Head(todo)) ELSE
    /\ \A d \in {cr3} \cup {procs[i].pd : i \in DOMAIN procs} :
        \A v \in KernelPages : Walk(mem, d, v) = Walk(mem, KernelPd, v)
    /\ \A f \in used : Walk(mem, KernelPd, P2VPage(f)) = {f}

\* Segments below the kernel that fit one page each, on pages of their own off
\* the stack's.
WellLaid(program) ==
    /\ BelowKernel(program)
    /\ \A k \in Loaded(program) :
        /\ program.segments[k].pages = 1
        /\ program.segments[k].page \notin {StackPage, StackPage + 1}
        /\ \A l \in Loaded(program) \ {k} :
            program.segments[l].page # program.segments[k].page

\* Each segment is at its page, in the address space of process i.
SegmentsInPlace(i) ==
    \A k \in Loaded(procs[i].program) :
        \E f \in Walk(mem, procs[i].pd, procs[i].program.segments[k].page) :
            mem[f].data = <<Owner(i), k>>

\* A part of a file of this size fits the frame of its bucket, wherever that is.
OneFrame == PAGE - 32

\* The segments come from the part of the file that fits a frame.
InOneFrame(program) == \A k \in Loaded(program) : program.segments[k].upto <= OneFrame

\* A process whose program is well laid finds each segment where its header
\* says, whatever has been loaded since, if the segments come from the first
\* 4064 bytes of the file.
ProgramIntact ==
    pc # "kernel_half" =>
        \A i \in DOMAIN procs :
            LET program == procs[i].program IN
            program.valid /\ WellLaid(program) /\ InOneFrame(program) => SegmentsInPlace(i)

\* The same of a file of any size that the initrd has room for: what the Tar
\* and the ELF parser are there for.
EveryProgramIntact ==
    pc # "kernel_half" =>
        \A i \in DOMAIN procs :
            LET program == procs[i].program IN
            program.valid /\ WellLaid(program) => SegmentsInPlace(i)

\* The boot thread stops in a page fault only if a program is ill laid or the
\* initrd does not fit the two pages that are mapped for it.
FaultsOnlyIllLaid ==
    pc = "fault" =>
        \/ todo # <<>> /\ ~WellLaid(Head(todo))
        \/ End(archive) \notin Mapped

\* parse_tar never takes a block of data for a header, whatever the sizes of
\* the files, and it finds every file if each name is longer than the number
\* of files before it: the end of the archive is looked for at character i of
\* the i-th name.  If one is not, the files before the first such are found.
InitrdListed ==
    LET long == Max({n \in 0 .. Len(archive) : \A i \in 1 .. n : archive[i].name >= i}) IN
    /\ ~Astray
    /\ pc \notin {"map_initrd", "map_initrd_2", "parse_tar", "parse_size", "parse_copy",
              "fault", "null"} =>
        tar.list = Reverse(SubSeq(archive, 1, long))
=============================================================================
