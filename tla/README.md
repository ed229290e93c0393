# A TLA+ model of lkd

lkd is a small 32-bit x86 kernel. This directory models the parts of it whose
correctness depends on sequences of calls, byte arithmetic or interrupts, checks
them with TLC on small instances and proves, with TLAPS and for instances of any
size, the frame allocator, the heap, the scheduler and the traps that implement it,
the keyboard, the isolation of address spaces, the loading of the initrd, and what is
printed on the serial line and the screen.

    tlc -config MCPmm.cfg MCPmm      # and so on, see "Runs"
    tlapm PmmProofs.tla              # also SchedulerProofs, TrapsProofs,
                                     # KeyboardProofs, AddressSpacesProofs, ProgramProofs,
                                     # KmallocProofs, ConsoleProofs

## Inventory

One CPU runs the boot thread (`boot.S`, `kmain`), then user programs. Interrupts
are on from the end of `idt_init`; every gate is an interrupt gate, so a handler
is never interrupted. There are no locks: code outside handlers can be
interrupted between any two instructions (the build is `-O0`).

| Component | State | Operations | Interaction |
|---|---|---|---|
| Frame allocator `pmm/` | `_nbFrames`, `_bm` | `init`, `allocate_frame`, `free_frame` | reads the multiboot map; called by heap, paging, loader, processes |
| Bitmap `utils/bitmap` | bytes, `_size` | get, set, clear, first free, is empty | used by frame allocator and heap |
| Heap `vmm/kmalloc`, `bucket`, `kmalloc_utils` | list of buckets, each one frame | `malloc`, `calloc`, `realloc`, `free` | takes and returns frames; called by tar parser and processes |
| Keyboard `devices/keyboard` | queue, `_idx`, `_read`, `_column`, `_init` | constructor, IRQ 1 handler, `getchar` | handler interleaves with the other two |
| Processes `userland/process` | list, `current`, saved registers, `_init` | `create_process`, `enable_scheduling`, `switch_process` | switched by the timer interrupt |
| Interrupts `interrupts/` | PIC, saved frame on the stack | stubs, `irq_handler`, `isr_handler`, EOI | call PIT, scheduler, keyboard, system calls |
| PIT `devices/timer` | divisor, `_ticks` | constructor, tick | source of IRQ 0 |
| Paging `vmm/paging`, `boot.S` | page directories and tables | `map_page`, `copy`, `update_cr3` | takes frames |
| ELF loader, tar parser, `load_initrd` | none of their own | `load`, `parse_tar` | heap, paging, processes |
| VGA `outputs/vga` | cursor, cells | `write_char`, `scroll_screen` | called by `kmain` |
| Serial `outputs/serial` | digit array and index, UART FIFO | `write_char`, `kprintf` | called from everywhere, handlers too |
| System calls `userland/syscalls` | table of calls | `syscall_handler` | called by `isr_handler` |
| GDT, TSS, IDT, PIC set-up | tables, initialisation words | written once | read by the processor at every trap |
| Strings `utils/string` | none | byte loops | - |

What is hard: interrupts between two accesses of `getchar` or of a constructor;
a tick at any instruction; the address arithmetic of buckets, whose bitmap, header
and data overlap in places; running out of frames in the middle of an operation;
physical and higher-half addresses for one frame; handlers that print while `kmain`
prints; one kernel stack for all, with frames of two lengths behind one struct; segment
registers that no frame holds; files copied into blocks that reach beyond their frame.
`PROJECT.json` lists these
hazards with the property that covers each.

What makes each component correct:

- frame allocator: a frame has one holder, none is lost, refusal only when all
  are held, and only usable memory is in the pool;
- heap: live blocks are disjoint, inside frames the heap owns, large enough;
  frames and buckets correspond; empty buckets are returned;
- keyboard: characters arrive in order, once; no stuck modifier; no byte left
  unread;
- address spaces: a process reaches its own memory and the kernel's half, nothing
  else, and finds its program there;
- scheduler: no context is lost, doubled or altered; a program runs in its own
  address space; everyone gets the CPU;
- traps: no word of a frame is lost or taken for another, whoever was interrupted;
  a handler learns the line that was raised;
- initrd: every file is found, data is never taken for a header;
- output: every character asked for comes out, once and in order; the screen shows
  the last ones.

## Plan

Done, in this order: `Bitmap`, `Address`, `Pmm` with its abstraction
`FrameAllocator` and `PmmProofs`; `Kmalloc`; `Keyboard`; `Pic` and `Scheduler`;
`Paging` and `AddressSpaces`; `Vga`, `Pit` and `Console`; `Setup` and `Traps`, which
implements `Scheduler`; `Tar`, used by `AddressSpaces`.

Proved, in this order: `Pmm`, `Scheduler`, `Keyboard`, the isolation part of
`AddressSpaces`, `Traps`, the timer of `Console`, `Kmalloc`, the loading part of
`AddressSpaces`, the log and the screen of `Console` (see "Proofs").

## Modules

`Bitmap` is `utils::Bitmap` as pure operators on a record of `_size` in bytes and
the set of bits that are 1. `IsFirstFree` keeps the code's loop bound: as many bits
as there are bytes.

`Address` has the address arithmetic. `QUARTER` is 2^30 in the kernel; the models
use 64 frames. `V2P` and `P2V` clear and set the two top bits, which is arithmetic
modulo `QUARTER`. Frames keep their real size, 4096.

`Pmm` is `pmm::PMM`. `PmmInit` builds the bitmap as `init` does, out of the memory
map in `mbd`; `AllocateFrame`/`AllocateFrameFails` are the two ways out of
`allocate_frame`, `FreeFrame`/`FreeIgnored` those of `free_frame`. `handouts` and
`pool` are history. Callers free only what they hold, through either address.
`FrameAllocator` is what callers may rely on. The pool contains the frame of the bitmap
itself, because `set_used` at `pmm.cpp:92` is given addresses outside the bitmap; that
the holder of that frame then writes over the bitmap is not modelled.

`Kmalloc` is the heap. `heap` holds the bucket list (a sequence), the buckets (power
and bitmap, at real byte offsets), the frames held, and whether the list has become
a loop. `malloc` and `free` are operators on that record, which `ReallocMove`
combines; `CallocCall` includes its memset, `ReallocMove` its memcpy. Frames are
taken as `FrameAllocator` allows: any free frame of the pool, or null. `UserWrites`
lets a holder fill its block with ones or zeroes, because for slots of up to 64
bytes the block lies on bitmap bytes that `is_empty` reads. `block` records what the
callers hold; its fields `frame` and `slot` are history.

`Keyboard` has one action per statement of the constructor, one per memory access of
`getchar`, one per way through the interrupt handler, and the PS/2 controller as
environment: one byte in the port, an interrupt when it arrives, no new byte before
it is read. A character is a pair of key and column. `typed`, `got`, `torn` and
`missed` are history.

`Pic` has the priorities and the in-service state of the two controllers.

`Scheduler` has processes, saved registers and interrupts. Registers are abstracted
to whose computation they hold, how far it has come and which stack it is on; the
frame of an interrupted kernel does not hold the latter (`Frame`, `Restored`). `TakeInterrupt` is the
acknowledge and the entry stub, `irq_handler` the handler, EOI and iret. No frame holds
`ds` and `es` either: `ds` says whether they select the kernel's data, a program's, or
nothing. An iret to a program clears them if they are the kernel's (`Returned`), a
program's instruction may load them with its own selector or with 0, and a handler that
is entered while they are null faults (`HandlerFaults`).
`create_process` is one step: it runs with interrupts on, but no handler looks at
the list before `enable_scheduling`. System calls and instructions are both
`ProgramStep`; exceptions other than 13 and 14 return to where they came from and
change nothing (in `Traps` each is a trap of its own). `_ticks` is left out, nobody reads it. `early` is history.

`Setup` has what `gdt_init`, `idt_init` and the constructor of `PIC` write, and how
the hardware reads it: which selectors iret accepts, which gates a program may use,
which vector a line gets. `Traps` is `Scheduler` in detail: the words on the one kernel
stack, pushed by the processor and the stubs, read and copied as `struct
interrupt_state`, popped by stub and iret. A word is named by register, computation
and progress. `Enter` is the processor and the stub, then `isr_handler` or
`irq_handler`, then `Leave`. A frame of the boot thread has 12 words, the struct 14,
so both copies of `switch_process` reach two words further: into the caller's stack.
A trap from a program starts at the top of the stack, where kmain's two arguments
lie, and so overwrites what the boot thread has there. In the `hlt` loop exactly these
two words are on the stack, and the copies save and restore them (`BootStackKept`).
Kmain interrupted before its return does lose its stack: the refinement keeps this
case (`early` in `Scheduler`). The stubs neither save nor set `ds` and `es`, which are
as in `Scheduler`; `fs` and `gs` are used by nobody and left out. `Detailed` is the refinement mapping: a step of the entry
or of `Leave` is a stutter, `irq_handler` is the switch.

`Vga` and `Pit` are pure. `Console` runs `kmain` as a script of what it prints and
does, with one action per step of `Serial`: an item of the format, a digit pushed, the
index moved, the element read, the transmitter tested, the character written. From
`sti` on a handler that prints can come between any two of them; handlers print when
the keyboard's queue is flushed, at a system call and at a fault, the latter two once
programs run. A line stands for all lines of its shape in a row, a text for a letter.
`owed` is history: the characters each caller should still write, by the positional
notation of `Rendering`, which does not use the digit array; each character is compared
with it when it is written to the transmitter. The FIFO keeps its order, so it is the
number of characters in it; one that finds it full is lost.

`Paging` has page entries, the two-level walk and the steps of `map_page` as operators
on physical memory (frame to content). `AddressSpaces` runs `load_initrd`: one action
per call that `create_process` and `Elf32::load` make, `pc` saying which is next.
`map_page_present` and `map_page_absent` are the two ways through `map_page`;
`MapRequest` gives its arguments at each place it is called from. `skip_file` is an
entry whose name `load_initrd` does not know. The initial state
is what `_start` and `PMM::init` leave. Note what `boot.S` does there: its comment
says "Only map the kernel" (`boot.S:56`), but the comparison with the higher-half
`kernel_start` is a signed one, so that all frames from 0 on are mapped; the rest of
the kernel depends on it, as every frame the allocator hands out first lies there
and is written at its `P2V` address (`KernelHalfKept`). `ParseHeader`, `ParseSize` and
`ParseCopy` are one turn of the loop of `parse_tar`, over an archive whose files have
names of given lengths and sizes in bytes: `malloc` for the element of the list, `malloc`
for the data, and the copy; `Tar` has the arithmetic, with the octal field and the
blocks. A file carries the block its header is in, and `WellFormed` says what a tar
archive is: each header right behind the data before it.

The copy of a file in the heap matters, because `Elf32::load` reads it. A block of more
than half a frame has a bucket of its own, and `allocate_bucket` takes one frame for it
whatever its size (`bucket.cpp:13-15`). `TailFrame` is the frame behind it that the data runs over into, if it
does; two mapped pages of initrd leave room for one. That frame has been given to nobody
yet, but it will be, and `SourceIntact` says of a segment whether it was copied from
bytes that were still the file's: it ends before that frame, or nobody has written to the
frame. A frame that the heap takes for another bucket counts as written to.

`p_vaddr` is whatever the file says, and `Elf32::load` maps and writes it without a
check. A segment that lies in the kernel's half or runs into it replaces entries of the
boot table, which all directories share, or adds a table to one directory only. The
model does the step and ends there (`pc = "kernel_half"`): from then on a pointer of the
kernel need not mean its frame. `KernelHalfKept` says that nothing else does this. Of
program headers it is assumed that they lie at the front of the file, that a segment's
bytes are within the file and that it ends within the address space.

The order low memory, VGA, kernel, bitmap, initrd is an assumption on the boot loader.
`PMM::init` writes its bitmap behind `kernel_end` whatever lies there (`pmm.cpp:50-63`);
`boot.S:26-28` warns that modules may. If the initrd is there, its first bytes are gone
before `parse_tar` reads them; no model covers that.

Frames are handed out from
the lowest on and none is freed; `UserFramesOwned` depends on that, because the page
above the stack is given the frame number after the stack's. The model uses the
frames of low memory only, and ends when they are used up (`pc = "null"`) or `memcpy`
faults; the code would go on with the frames of the VGA buffer, the BIOS and the kernel
(`pmm_unusable`). A heap allocation of at most half a frame may take a frame for a
bucket or find a slot, as soon as there is a bucket.

The modules named `XProofs` extend `X` with its inductive invariant, lemmas and
theorems; `ProgramProofs` extends `AddressSpacesProofs`.

Operators named `X_Something` with a comment "Mutant" are deliberately wrong forms
of `X`; no specification uses them. Each shows that a property notices such a bug.

## Runs

| Run | Result | What it shows |
|---|---|---|
| `pmm` | holds | `TypeOK`, `NoDoubleHandout`, `PoolConserved`, refinement of `FrameAllocator`, on four memory maps |
| `pmm_unusable` | violated | firmware memory is given out (so are, by the same comparison, the frames of the kernel and of the initrd) |
| `kmalloc` | holds | slots of 32 to 2048 bytes: blocks disjoint and backed, frames conserved; no idle bucket of 128-byte slots and more (in smaller ones data on the bitmap's tail can keep an empty bucket alive) |
| `keyboard` | holds | order, modifiers and draining of the port under every interleaving, outside the windows `Disturbs` names |
| `keyboard_race` | violated | a flush inside `_read++` |
| `address_spaces` | holds | isolation of user memory; the kernel's half in every directory until a program's own segment is put there; programs intact that come from the first 4064 bytes of their file; faults only for programs `WellLaid` excludes and archives beyond two pages; every file listed |
| `initrd_tail` | violated | a program with a segment further back in its file is loaded from a frame that has become something else |
| `console` | holds | the log is complete and readable under every interrupt, the screen shows the last letters, the timer's divisor, `kmain` ends |
| `scheduler` | holds | contexts, address spaces, nothing in service between handlers, round robin unless `Stopped` |
| `traps` | holds | registers word for word, and nothing resumed that was not interrupted; the `hlt` loop's stack; refinement of `Scheduler` |
| `scheduler_first` | violated | the first process never runs |
| `scheduler_ds` | violated | a tick in a program that has not loaded `ds` yet hangs the kernel |

The violated properties state what comments, log messages or the README say; the
`findings` of `PROJECT.json` quote them.

Bounds. `pmm`: 64 frames of address space, up to 8 managed frames, enough for
regions that end inside a frame, a bitmap with spare bits in its last byte, a region
above the kernel's addresses and a pool that runs out. `kmalloc`: two frames, three
holders, powers 32, 64, 128, 256 and 2048: a bucket of 256-byte slots (two) overflows
into a second one and the frames run out; once a second bucket is built in frame 0 the
list is a cycle, a walk may never end, and the model stops (hence no deadlock check).
Slots of 32 and 64 bytes are those where user data lies on the tail of the bucket's
bitmap. Frame numbers differ modulo 3, the cases of the
12-byte alignment. Powers up to 8192 are modelled. `keyboard`: queue of 2 (256 in the
code), counters modulo 5 (2^32), one letter, two modifiers, one byte kept back: the
queue fills, is flushed and filled again, and all positions relative to the reader
occur. `scheduler`: three processes (first, middle, last of the list), lines 0, 1
and 8, programs counted modulo 2; no deadlock check, because a fault handler loops
for ever by design. `address_spaces`: tables of 32 entries, 24 frames, which two files
(four processes) exhaust; programs with one, two and far apart segments, with headers
that are not loaded, with a wrong magic, and ill-laid ones (longer than a page, two
segments on one page); segments that end at, around and beyond what fits the frame of a
bucket, with the tail taken by a directory or by another bucket; segments in the
kernel's half where the boot table has an entry, where there is no table, and running
into it from below; twenty-one archives, with files of 0, 512 and more bytes, short
names, and ones longer than the two mapped pages; no deadlock check, as loading ends.
`scheduler_ds` has the timer's line only, for a short trace.
`console`: a screen of 2 lines of 3, which the announcements fill, wrap and scroll; a
FIFO of 2 (16 in the code, and one character per nesting is what it must hold);
numbers 0, 10 and 205 of 8 bits, so with inner and final zeros; an array of 9 digits;
three interrupts; 10 and 100 Hz; no deadlock check, as `kmain` ends and faults loop.
`traps`: three processes, lines 0, 1 and 8, software interrupts and exceptions 0, 13, 17
(with an error code), 32 (a line's gate) and 128; no deadlock check, as for `scheduler`.

Things that the passing runs rest on or leave out:

- `kmalloc` excludes requests of more than 2048 bytes: their buckets are of two pages
  and more but have one frame, and `BlocksBacked` fails. `initrd_tail` shows what
  that does to a program.
- `kmalloc` excludes requests of 16 bytes and less. `free` adds the
  bitmap's size in bytes (`kmalloc.cpp:60`) before it divides by the slot size. For
  the larger slots that is less than a slot and the division drops it; for 16-byte
  slots it is 32 bytes, the bit two slots further on is cleared and `BlocksDisjoint`
  fails. Nothing in the kernel calls `free` yet.
- Out of frames, `allocate_bucket` tests `P2V(nullptr)` for null (`bucket.cpp:15-20`),
  which it never is, and builds a bucket in frame 0; the runs go through this.
- `TickRate`: for kmain's 10 Hz the divisor is 119318, of which 16 bits are sent:
  53782, about 22 Hz; "at least as often" admits that. `ScreenShowsTail` rests on no announced line being empty:
  `write_char` returns at a newline before the test for the end of the screen.

- `OthersRun` leaves out the runs in which all scheduling has ended (`Stopped`): a fault
  of a program, whose handler loops; a handler that faulted because `ds` was null; a
  first switch between the assignment in `enable_scheduling` and kmain's return, which
  resumes kmain on a stack that is not its own.

A key pressed between `sti` (`idt.cpp:59`) and the keyboard's constructor is answered
without reading the port, and the controller sends nothing more; `PortDrains` is
stated for keyboards that were not `missed` in this way.

Fairness. `Keyboard`: a pending interrupt is taken, the controller delivers, `kmain`
goes on to build the keyboard; nobody has to type or read. `Scheduler`: the PIT is in
repeat mode and never stops raising line 0; the CPU takes what the PIC presents,
as only handlers turn interrupts off; handlers return or fault. No fairness among processes
is assumed. `Console`: the UART sends what it holds, a caller of `kprintf` and a
handler go on, and so does `kmain` when no handler runs; interrupts need not come.
`Traps` has none, it refines the safety part of `Scheduler`.

## Proofs

Each theorem is about the specification the runs check and holds for every value of
the constants that the assumption named with it admits. All follow one scheme: an
inductive invariant `IInv`, a lemma per action (or group of actions) that it is
preserved, a lemma that it implies the property. The runs' own instances are small;
the theorems are what extends their result to 256 characters, 1024 entries and any
number of processes.

### `PmmProofs`

For every set of memory maps of at most `QUARTER` bytes in all, every `kernel_start`
and `kernel_end`, and every `QUARTER` that is a multiple of the frame size
(`QuarterAssumption`, `PmmAssumption`):

- `TypeCorrect`, `NoDoubleHandoutHolds`, `PoolConservedHolds`;
- `PmmImplementsFrameAllocator`: the specification implements `FrameAllocator`.

`NoDoubleHandout` is not inductive: that the frame found has no holder follows from
`PoolConserved`, that in turn needs that held frames come from the pool
(`HeldFromPool`), that the bitmap covers all frames (`BitmapSized`), and that a free
through either address reaches the same bit (`V2PofP2V`). The refinement follows
action by action from `IInv`.

### `SchedulerProofs`

For any set of processes without the boot thread, any interrupt lines of 0 to 15 with
the timer's among them, programs of any length (`SchedulerAssumption`):

- `TypeCorrect`;
- `ContextIntactHolds`: nothing is lost, doubled or altered by switches;
- `OwnAddressSpaceHolds`: a program runs under its own directory;
- `NoLineBlockedHolds`: no line stays in service after its handler, on either
  controller.

`ContextIntact` compares contexts that are in use; to keep it one has to know where
each context is. The process list is a ring of slots. Slot i is for the i-th process,
but slot 1 for the boot thread: the first switch saves it there, over the first
process, which is why that one never runs (`scheduler_first`). `CurrentRuns` says the
current slot is on the CPU, `OthersSaved` that each other slot is in its process's
registers, and both need that the list has no process twice (`NoDuplicates`), or one
save would reach two slots. `NotStarted` is what makes a new process's initial
registers right. `DirectoryLoaded` and `InService` are the same for `cr3` and the PIC.
None of it depends on `ds`: a handler that faults changes nothing but `mode`.

### `TrapsProofs`

For any set of processes, any lines of 0 to 15 with the timer's, any vectors of 0 to
255 (`TrapsAssumption`):

- `TypeCorrect`;
- `RegistersIntactHolds`: word for word, stub, handler, switch and iret give back what
  was interrupted;
- `BootStackKeptHolds`: the `hlt` loop finds its stack as it left it;
- `TrapsImplementScheduler`: the specification implements the safety part of
  `Scheduler`.

The invariant has the slots of `SchedulerProofs`, but a context is now where its words
lie: in the processor between handlers, in the frame on the stack during one. That
frame can be two words shorter than the struct that is laid over it. `Beneath` names
the two words of the boot thread's stack that the struct then shows as `ss` and `esp`;
`Holds` says a struct has a computation's registers and, for the boot thread, these
two words. This is what makes the switch away from the boot thread and back harmless
although both copies have the wrong length. `StackShape` has the only depths that
occur: 14 words, or 16 while kmain has not returned and its two arguments lie below;
without it the copies could reach outside the stack. Frames are computed once
(`FrameWords`, from `PushedWords` and `StubWords`): which word lies in which field,
for entries from programs and from the kernel, with and without error code.

The refinement goes action by action. Entering (`SoftwareInterrupt`, `Exception`),
`Leave` and an `isr_handler` that returns are stutters: the mapping reads the
processor or, in a handler, the frame that will be popped. Taking a line's interrupt
is `Scheduler`'s `TakeInterrupt`, `isr_handler` for a fault its `Fault`, `irq_handler`
its handler with the switch. A handler that finds `ds` null is its `HandlerFaults` at an
interrupt and its `Fault` at a program's own trap. In `Scheduler` the handler also
returns, so that the mapped `ds` is already cleared between `irq_handler` and `Leave`;
that it is the real one otherwise is the invariant `DataSegment`, that a program never
runs with the kernel's. The stack pointer of the resumed computation is a
function of the depth after the pop, which is where a program's trap over kmain's
stack shows as `"top"` (`early`).

### `KeyboardProofs`

For any queue size, counters with room for two more values than the queue's size, any
letters and table of modifiers that do not overlap, any FIFO (`KeyboardAssumption`):

- `TypeCorrect`;
- `InOrderHolds`: outside the windows of `Disturbs`, `getchar` returns what was typed,
  in order, once;
- `NoStuckModifierHolds`: with all bytes read, a column other than 0 belongs to a
  modifier that is held.

`InOrder` needs what `getchar` knows at each of its memory accesses while the handler
may have run in between (`GetcharKnows`): the compared value may be stale, but `_idx`
only grows between flushes, so a character found there stays. `QueueHoldsTyped` ties
the queue to the history, `Constructing` says that nobody reads while the constructor
runs. `ColumnHeld` follows modifiers through controller and port to the column: it
talks about the last byte about a modifier still on its way.

### `AddressSpacesProofs`

For tables of any number of entries that is a multiple of 4, any layout of low memory,
VGA, kernel and initrd in that order with the kernel in the boot table's reach, any
archives, with segments anywhere in the address space (`EntriesAssumption`,
`AddressSpacesAssumption`):

- `TypeCorrect`;
- `UserFramesOwnedHolds`: what a process reaches below the higher half was allocated
  for it alone;
- `KernelHalfKeptHolds`: every directory has the kernel's half, and it maps all that
  the allocator hands out, until a program with a segment that reaches that half is
  loaded; nothing else ends it.

The invariant describes the trees that `map_page` builds: `Space` for a directory, its
tables and their pages, for every process and for the one being made (`Calling`), and
`KernelTables` for the kernel's. A user page must not be a directory or a table of the
same process, or a program could map memory for itself; `UserFrame` says so. That the
page above the stack is given the frame after the stack's without asking for it is
right because frames come without gaps (`Gapless`) and nothing is allocated between
the two (`StackFrames`). `Cr3` gives the directory in which the tables are
written. The lemmas `MapsPresent`, `MapsAbsent` and their kernel forms say what
`map_page` does to a tree; `UserPage` and `KernelPage` that a page number's directory
index is below or above `Half`, by division with remainder. `HalfInv` is `IInv` up to
the first segment in the kernel's half, and behind it what is left: the types, and that
the program at hand has such a segment (`IntoKernelHalf`). Data that runs over into a
frame nobody owns yet disturbs no tree, as all of a tree is in used frames.

### `ProgramProofs`

The rest of `AddressSpaces`, under the same assumptions, of which one is that every
archive is `WellFormed` with files of less than `SizeLimit`, the gigabyte that `P2V`
reaches:

- `ProgramIntactHolds`: a well-laid program whose segments come from the first 4064
  bytes of its file is in its process's memory as its headers say, whatever was loaded
  after it and whatever the heap lost of longer files;
- `FaultsOnlyIllLaidHolds`: kmain faults only at an ill-laid program or at an archive
  longer than the two pages mapped for it;
- `InitrdListedHolds`: the list has the files up to the first whose name is shorter
  than its position, and data is never read as a header.

`ProgramIntact` speaks of finished processes. `LoadInv` adds the one in the making:
the segments before the one at hand are there (`MakingLoaded`), `LoopPosition` says
which that is, and `MappedOnce` that the frame memcpy is about to fill is mapped at
the segment's page and at no other, or one copy would overwrite another segment. That
no later `map_page` moves a page is from the ownership in `AddressSpacesProofs`, and
from two entries of a directory never naming one table (`TablesApart`). That memcpy
reads the file's bytes is `SourceKept`: wherever the bucket lies, its block starts at most
32 bytes into the frame (`BlockStartBound`), so that 4064 bytes end in it; `TailInv` ties
the calls still to be made to the files. `LoadUntilHalf` is `LoadInv` up to the first
segment in the kernel's half.

`TarInv` says that the parser is at the header after as many files as it has listed
(`Parsed`). That needs `getsize` to give back the number that `SizeField` wrote
(`SizeRead`: eleven octal digits, by division with remainder) and the rounding
in `next_address` to be that of the layout. Headers at increasing blocks, for archives
of any length, are by induction (`Ascending`): the least file that is not behind its
predecessors cannot exist (`LeastNumber`, from the well-founded order of the naturals).

### `KmallocProofs`

`TypeCorrect` for every size of request, number of frames and holders. For requests of
17 to 2048 bytes (`Served`), so for slots of 32 to 2048:

- `BlocksDisjointHolds`, `BlocksBackedHolds`, `FramesConservedHolds`,
  `NoIdleBucketHolds`.

The conditions are where the code stops being right, not where the proof does: `free`
computes the wrong bit for 16-byte slots, and a slot of a page runs past its frame.
`NoIdleBucket` is about slots of 128 bytes and more: in smaller ones what a holder
writes reaches the bytes of the bitmap that `is_empty` looks at.

The theorems hold up to the first bucket that is built a second time in frame 0
(`heap.looped`). The invariant `LayoutInv` is about the heap together with the set of
blocks: each block is at the address of its slot, its bit is set, no two have the same
slot, buckets on the list have a known slot size and bitmap, and no frame is on the
list twice. Stated over a heap and a set rather than over the variables it can be
followed through the middle of `realloc`, where a new block exists and the old one
does, too. The arithmetic is done once: `free` finds the bit that `malloc` set, and
all slots of a bucket are inside its frame, for each of the seven sizes and wherever
the 12-byte alignment puts the first slot. `CoverInv` adds that every set bit of a bucket belongs to a block; with
slots of 128 bytes no holder can set another.

### `ConsoleProofs`

For numbers of any width with a digit array longer than it has bits, a FIFO of at least
two characters, a screen of at least two columns and one line, any frequencies from 1 Hz
to `CLOCK` and any number of interrupts (`ConsoleAssumption`, `VgaAssumption`; the code
has 32 bits, 256 digits, 16 characters, 80 columns and 25 lines):

- `TypeCorrect`: of this, that the index never leaves the digit array is what needs a
  proof;
- `LogReadableHolds`: every character is written as it was asked for and none is lost;
- `ScreenShowsTailHolds`: the screen shows the last letters, in order, and nothing is
  written past the page;
- `TickRateHolds`: the period is at most what was asked for, and exactly that if the
  divisor has 16 bits.

The log. `LogInv` says what every call still owes: the characters in `text`, the digits
on the stack from the top down, and the digits that the value not yet divided will give
(`JobOK`); `LogReadable` is the case in which nothing is left. One step of `push_digit`
keeps it because the numeral of v is that of `v \div base` and the digit `v % base`
(`NumeralStep`). Two callers share the array, and that this does no harm is not local to
`Serial`: the keyboard's handler prints no numbers (`TextOnly`), and the other handlers
that print serve programs, which run only after `kmain` has printed its last character
(`ScriptInv`, by `enable_scheduling` being its last step), so a call that deals with
digits is alone on the array (`AloneOnStack`). In the same way a handler may write
between boot's test of the transmitter and its write; `UartInv` has at most one
character in the FIFO then, because a handler tests before each of its own. This is
where the FIFO has to hold two, and where `init_serial` must have turned it on.

What the prover cannot do by itself is the powers of a base. `Power` is a recursive
function; that it exists, that it is unique and that it grows are proved by induction
(`PowersExist`, `PowerIs`, `PowerGrows`), where induction is the statement that a set of
numbers has a least element, from the library's well-founded order of the naturals. Of
this come the length of a numeral (`LengthIs`, `LengthUnique`, `LengthBound`) and its
digits (`QuotientTwice`, `NumeralStep`).

The screen. `ScreenInv` adds to `ScreenShowsTail` that no letter stands behind the
cursor, that the cursor is below the screen only in column 0, and that it is on the
screen when a line ends, because the line had a letter (`ScriptOK`); without the last,
two new lines in a row would take it past the line that a scroll brings back.
`LetterPlaced` is the argument for both ways a letter goes: it is put behind all others,
which stay (`PlacedBehind`) or move up by a line (`PlacedBelow`), and if some fall off at
the top they are the oldest, since letters are in order.

The timer. `TimerInv` says that what was written so far is the beginning of the
constructor's writes for one frequency, across interrupts between them; the rest is that
a number is its low byte plus 256 times the next, up to multiples of 2^16, and that 0
stands for 2^16.

### Only model-checked

Liveness (`PortDrains`, `OthersRun`, `AllPrinted`): the prover does not handle fairness.
Every invariant of a passing run is a theorem, and so is every refinement.

## Not modelled

- String helpers: byte loops without state.
- What nobody calls: `VGA::kprintf` with its own digit array, `VGA::write`,
  `clear_screen`, `Serial::write`, `Elf32::run_process`, `enter_userland`,
  `PageEntry::set_value` and `set_flags`. Colours.
- `fs`, `gs`, segment bases and limits, the TSS but for its stack; the
  registers the compiler picks for the inline assembly of `syscall_handler`; system
  call numbers outside the table.
- The TLB; memory beyond 1 GiB, where `P2V` is not injective; what happens after
  `allocate_frame` has returned null to paging or processes, where frame 0 becomes
  directory, table, heap and data at once.
- What the kernel does after a segment has been put into its half of an address space;
  a holder's writes to the allocator's bitmap; an initrd behind `kernel_end`, where the
  bitmap is written.
- The error line of `PMM::init` for a wrong multiboot flag, and the test byte that
  `init_serial` sends in loopback mode.
- Requests above 8192 bytes; above 2^31 `compute_power` does not end.
- Spurious interrupts and non-maskable ones.
