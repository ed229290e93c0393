----------------------------- MODULE Scheduler ------------------------------
(***************************************************************************)
(* Processes and their switching: user::Process (src/userland/process.cpp) *)
(* driven by the interrupt entry code and handlers of src/interrupts.      *)
(* Handlers run with interrupts off (every gate is an interrupt gate), so  *)
(* a handler is one step; between two handlers the CPU executes whatever   *)
(* its registers say.                                                      *)
(*                                                                         *)
(* The registers are abstracted to the computation they belong to and how  *)
(* far it has come.  There is a computation for the boot thread (kmain,    *)
(* then the hlt loop of boot.S) and one for the program of each process.   *)
(***************************************************************************)
EXTENDS Pic, Sequences, Functions

CONSTANTS
    Processes,  \* the processes load_initrd may create
    Boot,       \* the boot thread
    Lines,      \* the interrupt lines that devices raise; 0 is the timer
    STEPS       \* steps of a program are counted modulo this

ASSUME SchedulerAssumption ==
    /\ Boot \notin Processes
    /\ 0 \in Lines /\ Lines \subseteq 0 .. 15
    /\ STEPS \in Nat \ {0}

VARIABLES
    processes,  \* the list, in order of creation
    current,    \* position in that list, 0 for nullptr
    _init,
    regs,       \* the field regs of each process
    cpu,        \* the registers
    ds,         \* what ds and es select, which no frame has: the "kernel"'s
                \* data, a program's ("user"), or "null"
    cr3,        \* whose page directory is loaded; Boot for the kernel's
    handling,   \* the IRQ being handled (interrupts are off), or NoIrq
    pic,
    mode,       \* "running", or "hung" in a fault handler, or "lost"
    progress,   \* history: how far each computation has come
    early       \* history: the first switch fell before kmain had returned

vars == <<processes, current, _init, regs, cpu, ds, cr3, handling, pic, mode,
          progress, early>>

NoIrq == 16

\* How far the boot thread is, and where its stack pointer is: within the
\* frames of kmain, or at the top of the stack where the hlt loop runs.
Kmain == 0
Idle == 1

Context(who, at, sp) == [who |-> who, at |-> at, sp |-> sp]

Init ==
    /\ processes = <<>> /\ current = 0 /\ _init = FALSE
    /\ regs = [p \in Processes |-> Context(p, 0, "user")]
    /\ cpu = Context(Boot, Kmain, "kmain") /\ ds = "kernel" /\ cr3 = Boot
    /\ handling = NoIrq /\ pic = IdlePic /\ mode = "running"
    /\ progress = [w \in Processes \cup {Boot} |-> 0]
    /\ early = FALSE

\* The CPU executes w, with interrupts on.
Executes(w) == mode = "running" /\ handling = NoIrq /\ cpu.who = w
-----------------------------------------------------------------------------
(* The boot thread. *)

\* create_process, once per program of the initrd.  The process list is not
\* looked at by a tick before enable_scheduling, so this is one step.
create_process(p) ==
    /\ Executes(Boot) /\ ~_init
    /\ p \notin Range(processes)
    /\ processes' = Append(processes, p)
    /\ regs' = [regs EXCEPT ![p] = Context(p, 0, "user")]
    /\ current' = IF processes = <<>> THEN 1 ELSE current
    /\ UNCHANGED <<_init, cpu, ds, cr3, handling, pic, mode, progress, early>>

enable_scheduling ==
    /\ Executes(Boot) /\ ~_init
    /\ _init' = TRUE
    /\ UNCHANGED <<processes, current, regs, cpu, ds, cr3, handling, pic, mode,
                   progress, early>>

\* kmain returns to the hlt loop.  It needs its own stack for that; the frame
\* a switch restores does not hold the stack pointer of kernel code.
KmainReturns ==
    /\ Executes(Boot) /\ _init /\ cpu.at = Kmain
    /\ IF cpu.sp = "kmain"
       THEN /\ cpu' = Context(Boot, Idle, "top")
            /\ progress' = [progress EXCEPT ![Boot] = Idle]
            /\ UNCHANGED mode
       ELSE mode' = "lost" /\ UNCHANGED <<cpu, progress>>
    /\ UNCHANGED <<processes, current, _init, regs, ds, cr3, handling, pic, early>>
-----------------------------------------------------------------------------
(* The programs. *)

Advance(p) ==
    LET at == (cpu.at + 1) % STEPS IN
    /\ cpu' = [cpu EXCEPT !.at = at]
    /\ progress' = [progress EXCEPT ![p] = at]
    /\ UNCHANGED <<processes, current, _init, regs, cr3, handling, pic, mode, early>>

\* The program of p executes an instruction, which may load ds and es with the
\* selector of the programs' data or with 0.  Or, with a ds that isr_handler
\* can use, int 0x80: it calls the system call and returns to the program with
\* the result in its eax.
ProgramStep(p) == Executes(p) /\ Advance(p) /\ ds' \in {"null", "user"}

\* A general protection or page fault: isr_handler loops with interrupts off.
\* So does int 0x80 with a null ds, which isr_handler cannot use.
Fault(p) ==
    /\ Executes(p)
    /\ mode' = "hung"
    /\ UNCHANGED <<processes, current, _init, regs, cpu, ds, cr3, handling, pic,
                   progress, early>>
-----------------------------------------------------------------------------
(* Interrupts. *)

\* A device raises line n (external).
Raise(n) ==
    /\ mode = "running"
    /\ n \notin pic.irr
    /\ pic' = [pic EXCEPT !.irr = @ \cup {n}]
    /\ UNCHANGED <<processes, current, _init, regs, cpu, ds, cr3, handling, mode,
                   progress, early>>

\* Mutant: the stub pushes the vector, not the line.
TakeInterrupt_Vector(n) ==
    /\ mode = "running" /\ handling = NoIrq
    /\ Presents(pic, n)
    /\ handling' = n + 32
    /\ pic' = Acknowledged(pic, n)
    /\ UNCHANGED <<processes, current, _init, regs, cpu, ds, cr3, mode, progress, early>>

\* The CPU takes the interrupt; irq_common_stub saves the registers.
TakeInterrupt(n) ==
    /\ mode = "running" /\ handling = NoIrq
    /\ Presents(pic, n)
    /\ handling' = n
    /\ pic' = Acknowledged(pic, n)
    /\ UNCHANGED <<processes, current, _init, regs, cpu, ds, cr3, mode, progress, early>>

\* The frame that the stub made of the registers.  A frame of the kernel has
\* no stack pointer.
Frame == IF cpu.who = Boot THEN [cpu EXCEPT !.sp = "saved"] ELSE cpu

\* What iret makes of a frame: the boot thread goes on where the stack pointer
\* is, which is the top of the stack if a program was interrupted.
Restored(c) ==
    IF c.who = Boot
    THEN [c EXCEPT !.sp = IF cpu.who = Boot THEN cpu.sp ELSE "top"] ELSE c

\* Mutant: current moves on before the registers are saved.
switch_process_SavesLate ==
    IF ~_init \/ current = 0
    THEN UNCHANGED <<current, regs, cpu, cr3, early>>
    ELSE LET next == IF current < Len(processes) THEN current + 1 ELSE 1
             saved == [regs EXCEPT ![processes[next]] = Frame]
         IN  /\ regs' = saved
             /\ current' = next
             /\ cr3' = processes[next]
             /\ cpu' = Restored(saved[processes[next]])
             /\ UNCHANGED early

\* Mutant: the page directory of the process that is left is loaded.
switch_process_OldDirectory ==
    IF ~_init \/ current = 0
    THEN UNCHANGED <<current, regs, cpu, cr3, early>>
    ELSE LET next == IF current < Len(processes) THEN current + 1 ELSE 1
             saved == [regs EXCEPT ![processes[current]] = Frame]
         IN  /\ regs' = saved
             /\ current' = next
             /\ cr3' = processes[current]
             /\ cpu' = Restored(saved[processes[next]])
             /\ UNCHANGED early

\* switch_process: the registers go to the current process, whatever they
\* belong to, and those of the next one are restored.
switch_process ==
    IF ~_init \/ current = 0
    THEN UNCHANGED <<current, regs, cpu, cr3, early>>
    ELSE LET next == IF current < Len(processes) THEN current + 1 ELSE 1
             saved == [regs EXCEPT ![processes[current]] = Frame]
         IN  /\ regs' = saved
             /\ current' = next
             /\ cr3' = processes[next]
             /\ cpu' = Restored(saved[processes[next]])
             /\ early' = (early \/ (cpu.who = Boot /\ cpu.at = Kmain))

\* With a null ds the first thing the handler reads is a fault, the first thing
\* isr_handler reads of that fault is another, and so on.
HandlerFaults ==
    /\ mode = "running" /\ handling # NoIrq /\ ds = "null"
    /\ mode' = "hung"
    /\ UNCHANGED <<processes, current, _init, regs, cpu, ds, cr3, handling, pic,
                   progress, early>>

\* iret to a program clears ds and es if they are the kernel's.
Returned(who) == IF who # Boot /\ ds = "kernel" THEN "null" ELSE ds

\* irq_handler: the timer switches processes, the other lines do nothing here
\* (see Keyboard for line 1); then the controller is told.
irq_handler ==
    /\ mode = "running" /\ handling # NoIrq /\ ds # "null"
    /\ IF handling = 0 THEN switch_process
       ELSE UNCHANGED <<current, regs, cpu, cr3, early>>
    /\ pic' = pic_send_eoi(pic, handling)
    /\ handling' = NoIrq
    /\ ds' = Returned(cpu'.who)
    /\ UNCHANGED <<processes, _init, mode, progress>>
-----------------------------------------------------------------------------
TakesInterrupt == \E n \in Lines : TakeInterrupt(n)

Next ==
    \/ \E p \in Processes : create_process(p) \/ ProgramStep(p) \/ Fault(p)
    \/ enable_scheduling
    \/ KmainReturns
    \/ \E n \in Lines : Raise(n)
    \/ TakesInterrupt
    \/ irq_handler \/ HandlerFaults

\* The PIT is in repeat mode and ticks for ever; the CPU takes an interrupt
\* that is presented, since no code turns interrupts off but the handlers,
\* and handlers return or fault.
Fairness ==
    /\ WF_vars(Raise(0))
    /\ WF_vars(TakesInterrupt)
    /\ WF_vars(irq_handler \/ HandlerFaults)

SafetySpec == Init /\ [][Next]_vars

Spec == SafetySpec /\ Fairness
-----------------------------------------------------------------------------
(* Properties. *)

Computations == Processes \cup {Boot}

ContextType ==
    [who : Computations, at : 0 .. (STEPS + Idle), sp : {"user", "kmain", "top", "saved"}]

TypeOK ==
    /\ processes \in Seq(Processes)
    /\ current \in 0 .. Len(processes)
    /\ _init \in BOOLEAN /\ early \in BOOLEAN
    /\ regs \in [Processes -> ContextType]
    /\ cpu \in ContextType /\ ds \in {"kernel", "null", "user"}
    /\ cr3 \in Computations
    /\ handling \in Lines \cup {NoIrq}
    /\ pic \in [irr : SUBSET Lines, master : SUBSET (0 .. 7), slave : SUBSET (8 .. 15)]
    /\ mode \in {"running", "hung", "lost"}
    /\ progress \in [Computations -> 0 .. (STEPS + Idle)]

\* The boot thread and every program but the first: what the kernel keeps.
Kept == {Boot} \cup {processes[i] : i \in 2 .. Len(processes)}

\* The saved registers that will be restored some day: those of every process
\* but the current one, whose regs are overwritten when it is switched from.
Saved(w) ==
    {i \in DOMAIN processes : i # current /\ regs[processes[i]].who = w}

\* A computation is never lost, doubled or set back: it is on the CPU or in
\* the registers of exactly one process, as far as it had come.
ContextIntact ==
    \A w \in Kept :
        /\ cpu.who = w => cpu.at = progress[w] /\ Saved(w) = {}
        /\ cpu.who # w => \E i \in DOMAIN processes :
                            Saved(w) = {i} /\ regs[processes[i]].at = progress[w]

\* A program runs only in its own address space, and the first process's is
\* left to the boot thread.
OwnAddressSpace ==
    /\ cpu.who # Boot => cpu.who = cr3 /\ cpu.who \in Kept
    /\ cpu.who = Boot => cr3 \in {Boot} \cup {processes[i] : i \in DOMAIN processes \cap {1}}

\* Between two handlers nothing is in service, so that no line is shut out: the
\* end of interrupt takes back exactly what the acknowledge of the same line
\* put there, in both controllers, because handlers do not nest.
NoLineBlocked == handling = NoIrq => pic.master = {} /\ pic.slave = {}

\* What ends all scheduling: a fault of a program; an interrupt of a program
\* that has not loaded ds and es since it was first resumed, or has cleared
\* them; or a first switch that came between the assignment in
\* enable_scheduling and kmain's return to the hlt loop, so that kmain was
\* resumed on a stack that is not its own.
Stopped == mode = "hung" \/ (mode = "lost" /\ early)

\* Round robin: once scheduling is enabled every process but the first runs
\* again and again, whatever the other lines do, unless the kernel Stopped.
OthersRun ==
    \A p \in Processes :
        (_init /\ p \in Kept) ~> (cpu.who = p \/ Stopped)

\* README.md:6: a kernel "that will be able to run processes in userland";
\* load_initrd creates every process to be run: each one does.
EveryProcessRuns ==
    \A p \in Processes :
        (_init /\ p \in Range(processes)) ~> (cpu.who = p \/ Stopped)

\* README.md:6: a kernel "that will be able to run processes in userland", as
\* enter_userland.S:5-9 would, which gives a program its ds and es: an
\* interrupt in a program is handled, and only a fault of the program itself
\* hangs the kernel.
OnlyProgramsFault == mode = "hung" => handling = NoIrq
=============================================================================
