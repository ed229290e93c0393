------------------------------- MODULE Traps --------------------------------
(***************************************************************************)
(* Traps word by word: the frames that the processor, the stubs of isr.S   *)
(* and irq.S, isr_handler, irq_handler, switch_process and iret push, read *)
(* as struct interrupt_state, copy and pop.  Every process and the boot    *)
(* thread use one kernel stack, which begins anew at each trap from a      *)
(* program.  A frame of the boot thread is two words shorter than the      *)
(* struct, which then reaches into what lies on the stack above it.        *)
(*                                                                         *)
(* This is Scheduler in detail, with system calls and exceptions.  Init is *)
(* the state after idt_init.                                               *)
(***************************************************************************)
EXTENDS Pic, Setup, Functions

CONSTANTS Processes, Boot, Lines, STEPS,
    Vectors   \* the software interrupts and exceptions that programs cause

ASSUME TrapsAssumption ==
    /\ Boot \notin Processes /\ 0 \in Lines /\ Lines \subseteq 0 .. 15
    /\ STEPS \in Nat \ {0} /\ Vectors \subseteq 0 .. 255

VARIABLES
    processes, current, _init,
    regs,      \* the field regs of each process: a struct interrupt_state
    cpu,       \* the registers that frames have
    ds,        \* what ds and es select, as in Scheduler
    kstack,    \* the kernel stack in use, the word pushed last at its end
    stage,     \* "none", "isr" or "irq" before that handler, "leave" after it
    cr3, pic, mode,
    progress,  \* history: how far each computation has come
    awaits,    \* history: it has a system call's result in eax
    early      \* history: the first switch fell before kmain had returned

vars == <<processes, current, _init, regs, cpu, ds, kstack, stage, cr3, pic, mode,
          progress, awaits, early>>

Computations == Processes \cup {Boot}
Kmain == 0
Idle == 1
-----------------------------------------------------------------------------
(* Words.  A register's content is named by register, computation and how   *)
(* far the computation had come; selectors and numbers are what they are.   *)

Saved == <<"eax", "ebx", "ecx", "edx", "ebp", "esi", "edi">>
Registers == Range(Saved) \cup {"eip", "eflags", "esp", "cs", "ss"}

Number(n) == <<"number", Boot, n>>
Magic == <<"magic", Boot, 0>>
Mbd == <<"mbd", Boot, 0>>
Result == <<"result", Boot, 0>>
Beyond == <<"beyond", Boot, 0>>   \* whatever lies above stack_top

\* cs and ss of programs as create_process sets them, and of the kernel as
\* gdt_load does.
Selectors(w) == IF w = Boot THEN [cs |-> 8, ss |-> 16] ELSE [cs |-> 27, ss |-> 35]

\* The registers of w when it has come as far as at.
FileAt(w, at) ==
    [r \in Registers |->
        IF r \in {"cs", "ss"} THEN <<r, w, Selectors(w)[r]>> ELSE <<r, w, at>>]

\* The arguments of kmain, and the stack of its call.
BootStack == <<Magic, Mbd>>
KmainStack == BootStack \o <<<<"return", Boot, 0>>, <<"locals", Boot, 0>>>>

\* struct interrupt_state, from its last field to its first: the order in
\* which the fields are pushed.
Fields ==
    <<"ss", "esp", "eflags", "cs", "eip", "error_code", "interrupt_number">> \o Saved

\* The frame that a new process starts from; calloc has cleared the numbers.
NewRegs(p) ==
    [f \in Range(Fields) |-> IF f \in Registers THEN FileAt(p, 0)[f] ELSE Number(0)]

\* The struct that begins at the end of the stack.
StateAt(stack) ==
    LET base == Len(stack) - Len(Fields) IN
    [f \in Range(Fields) |->
        LET i == base + (CHOOSE k \in DOMAIN Fields : Fields[k] = f)
        IN  IF i \in DOMAIN stack THEN stack[i] ELSE Beyond]

\* Mutant: only the words that belong to a frame of the kernel are copied.
WithState_FrameOnly(stack, state) ==
    LET base == Len(stack) - Len(Fields)
        skip == IF Rpl(state["cs"][3]) = 3 THEN 0 ELSE 2
    IN  [i \in DOMAIN stack |-> IF i > base + skip THEN state[Fields[i - base]] ELSE stack[i]]

\* The stack after a struct is copied over the one at its end.
WithState(stack, state) ==
    LET base == Len(stack) - Len(Fields) IN
    [i \in DOMAIN stack |-> IF i > base THEN state[Fields[i - base]] ELSE stack[i]]

State == StateAt(kstack)
FromProgram(state) == Rpl(state["cs"][3]) = 3
-----------------------------------------------------------------------------
(* Entry and exit. *)

\* What the processor pushes, with the error code of an exception.
Pushed(from, code) ==
    (IF FromProgram(from) THEN <<from["ss"], from["esp"]>> ELSE <<>>)
        \o <<from["eflags"], from["cs"], from["eip"]>> \o code

\* Mutant: esi and edi are pushed in the other order.
stub_Swapped(stub) ==
    [i \in DOMAIN stub.pushes |-> Number(stub.pushes[i])]
        \o [i \in DOMAIN Saved |->
              cpu[IF i = 6 THEN Saved[7] ELSE IF i = 7 THEN Saved[6] ELSE Saved[i]]]

\* irq_common_stub and isr_common_stub.
stub_pushes(stub) ==
    [i \in DOMAIN stub.pushes |-> Number(stub.pushes[i])]
        \o [i \in DOMAIN Saved |-> cpu[Saved[i]]]

\* The processor goes through gate v.  It takes the kernel's stack if it was
\* executing a program.
Enter(v, code) ==
    LET onto == IF FromProgram(cpu) THEN esp0 ELSE kstack IN
    /\ kstack' = onto \o Pushed(cpu, code) \o stub_pushes(idt[v].stub)
    /\ stage' = idt[v].stub.handler

\* The stub pops and iret returns: to a program if the cs on the stack says
\* so, and then esp and ss are popped too, and ds and es are cleared if they
\* select data that programs must not use.
Pops(state) == IF FromProgram(state) THEN 14 ELSE 12

Leave ==
    /\ mode = "running" /\ stage = "leave"
    /\ stage' = "none"
    /\ LET valid == ValidCode(State["cs"][3])
                    /\ (FromProgram(State) => ValidStack(State["ss"][3], State["cs"][3]))
       IN  IF valid
           THEN /\ cpu' = [r \in Registers |->
                            IF r \in {"esp", "ss"} /\ ~FromProgram(State)
                            THEN FileAt(Boot, progress[Boot])[r] ELSE State[r]]
                /\ kstack' = SubSeq(kstack, 1, Len(kstack) - Pops(State))
                /\ ds' = IF FromProgram(State) /\ ds = "kernel" THEN "null" ELSE ds
                /\ UNCHANGED mode
           ELSE mode' = "lost" /\ UNCHANGED <<cpu, kstack, ds>>
    /\ UNCHANGED <<processes, current, _init, regs, cr3, pic, progress, awaits, early>>
-----------------------------------------------------------------------------
(* The boot thread. *)

Executes(w) == mode = "running" /\ stage = "none" /\ cpu["eip"][2] = w

create_process(p) ==
    /\ Executes(Boot) /\ ~_init
    /\ p \notin Range(processes)
    /\ processes' = Append(processes, p)
    /\ regs' = [regs EXCEPT ![p] = NewRegs(p)]
    /\ current' = IF processes = <<>> THEN 1 ELSE current
    /\ UNCHANGED <<_init, cpu, ds, kstack, stage, cr3, pic, mode, progress, awaits, early>>

enable_scheduling ==
    /\ Executes(Boot) /\ ~_init
    /\ _init' = TRUE
    /\ UNCHANGED <<processes, current, regs, cpu, ds, kstack, stage, cr3, pic, mode,
                   progress, awaits, early>>

\* kmain returns to the hlt loop, its arguments stay on the stack.
KmainReturns ==
    /\ Executes(Boot) /\ _init /\ cpu["eip"][3] = Kmain
    /\ IF kstack = KmainStack
       THEN /\ kstack' = BootStack
            /\ cpu' = FileAt(Boot, Idle)
            /\ progress' = [progress EXCEPT ![Boot] = Idle]
            /\ UNCHANGED mode
       ELSE mode' = "lost" /\ UNCHANGED <<kstack, cpu, progress>>
    /\ UNCHANGED <<processes, current, _init, regs, ds, stage, cr3, pic, awaits, early>>
-----------------------------------------------------------------------------
(* The programs. *)

ProgramStep(p) ==
    LET at == (progress[p] + 1) % STEPS IN
    /\ Executes(p)
    /\ cpu' = FileAt(p, at)
    /\ progress' = [progress EXCEPT ![p] = at]
    /\ awaits' = [awaits EXCEPT ![p] = FALSE]
    /\ ds' \in {"null", "user"}
    /\ UNCHANGED <<processes, current, _init, regs, kstack, stage, cr3, pic, mode, early>>

\* int v: a general protection fault unless the gate is open to programs.
SoftwareInterrupt(p, v) ==
    /\ Executes(p)
    /\ IF ProgramMayUse(idt[v]) THEN Enter(v, <<>>) ELSE Enter(13, <<Number(8 * v + 2)>>)
    /\ UNCHANGED <<processes, current, _init, regs, cpu, ds, cr3, pic, mode, progress,
                   awaits, early>>

\* An instruction of p causes exception v.
Exception(p, v) ==
    /\ Executes(p) /\ v < 32
    /\ Enter(v, IF v \in ErrorCodes THEN <<Number(0)>> ELSE <<>>)
    /\ UNCHANGED <<processes, current, _init, regs, cpu, ds, cr3, pic, mode, progress,
                   awaits, early>>

\* syscall_handler: function eax of syscalls_buffer is called with registers
\* of the frame (programs name the only one, syscall_test, which prints its
\* argument, see Console); eax becomes its result.
syscall_handler ==
    /\ kstack' = WithState(kstack, [State EXCEPT !["eax"] = Result])
    /\ awaits' = [awaits EXCEPT ![State["eip"][2]] = TRUE]

\* The stubs leave ds and es as they are.  With a null ds the first thing that
\* isr_handler or irq_handler reads is a fault, for which isr_handler is called
\* again.
HandlerFaults ==
    /\ mode = "running" /\ stage \in {"isr", "irq"} /\ ds = "null"
    /\ mode' = "hung"
    /\ UNCHANGED <<processes, current, _init, regs, cpu, ds, kstack, stage, cr3, pic,
                   progress, awaits, early>>

\* isr_handler: system calls, the two faults that it never returns from, and
\* the other exceptions, for which it does nothing.
isr_handler ==
    /\ mode = "running" /\ stage = "isr" /\ ds # "null"
    /\ LET int_num == State["interrupt_number"][3] IN
        \/ int_num = 128 /\ syscall_handler /\ stage' = "leave" /\ UNCHANGED mode
        \/ int_num \in {13, 14} /\ mode' = "hung" /\ UNCHANGED <<kstack, stage, awaits>>
        \/ int_num \notin {13, 14, 128} /\ stage' = "leave" /\ UNCHANGED <<kstack, mode, awaits>>
    /\ UNCHANGED <<processes, current, _init, regs, cpu, ds, cr3, pic, progress, early>>
-----------------------------------------------------------------------------
(* Interrupts. *)

Raise(n) ==
    /\ mode = "running"
    /\ n \notin pic.irr
    /\ pic' = [pic EXCEPT !.irr = @ \cup {n}]
    /\ UNCHANGED <<processes, current, _init, regs, cpu, ds, kstack, stage, cr3, mode,
                   progress, awaits, early>>

\* Mutant: a gate leaves interrupts on.
InterruptsOn_TrapGates == stage # "leave"

\* All gates are interrupt gates, a stub's sti takes effect after its iret,
\* and the interrupt flag is set in all frames.
InterruptsOn == stage = "none"

\* The CPU takes the interrupt and the stub runs.
TakeInterrupt(n) ==
    /\ mode = "running" /\ InterruptsOn
    /\ Presents(pic, n) /\ Reaches(n)
    /\ Enter(Vector(n), <<>>)
    /\ pic' = Acknowledged(pic, n)
    /\ UNCHANGED <<processes, current, _init, regs, cpu, ds, cr3, mode, progress, awaits, early>>

\* Process::switch_process(state): two memcpy of the whole struct.
switch_process ==
    IF ~_init \/ current = 0
    THEN UNCHANGED <<current, regs, kstack, cr3, early>>
    ELSE LET next == IF current < Len(processes) THEN current + 1 ELSE 1
             saved == [regs EXCEPT ![processes[current]] = State]
         IN  /\ regs' = saved
             /\ current' = next
             /\ cr3' = processes[next]
             /\ kstack' = WithState(kstack, saved[processes[next]])
             /\ early' = (early \/ (State["eip"][2] = Boot /\ progress[Boot] = Kmain))

\* irq_handler: the number is read once, before switch_process replaces it.
irq_handler ==
    /\ mode = "running" /\ stage = "irq" /\ ds # "null"
    /\ LET int_num == State["interrupt_number"][3] IN
        /\ IF int_num = 0 THEN switch_process
           ELSE UNCHANGED <<current, regs, kstack, cr3, early>>
        /\ pic' = pic_send_eoi(pic, int_num)
    /\ stage' = "leave"
    /\ UNCHANGED <<processes, _init, cpu, ds, mode, progress, awaits>>
-----------------------------------------------------------------------------
Init ==
    /\ processes = <<>> /\ current = 0 /\ _init = FALSE
    /\ regs = [p \in Processes |-> NewRegs(p)]
    /\ cpu = FileAt(Boot, Kmain) /\ kstack = KmainStack /\ stage = "none"
    /\ ds = "kernel" /\ cr3 = Boot /\ pic = IdlePic /\ mode = "running"
    /\ progress = [w \in Computations |-> 0]
    /\ awaits = [w \in Computations |-> FALSE]
    /\ early = FALSE

TakesInterrupt == \E n \in Lines : TakeInterrupt(n)

Next ==
    \/ \E p \in Processes :
        \/ create_process(p) \/ ProgramStep(p)
        \/ \E v \in Vectors : SoftwareInterrupt(p, v) \/ Exception(p, v)
    \/ enable_scheduling \/ KmainReturns
    \/ isr_handler \/ irq_handler \/ HandlerFaults \/ Leave
    \/ \E n \in Lines : Raise(n)
    \/ TakesInterrupt

Spec == Init /\ [][Next]_vars
-----------------------------------------------------------------------------
(* Properties. *)

Names == Registers \cup {"number", "magic", "mbd", "result", "beyond", "return", "locals"}
Words == Names \X Computations \X Nat

TypeOK ==
    /\ processes \in Seq(Processes) /\ current \in 0 .. Len(processes)
    /\ _init \in BOOLEAN /\ early \in BOOLEAN
    /\ cpu \in [Registers -> Words] /\ ds \in {"kernel", "null", "user"}
    /\ regs \in [Processes -> [Range(Fields) -> Words]]
    /\ kstack \in Seq(Words) /\ Len(kstack) <= Len(KmainStack) + Pops(FileAt(Boot, Kmain))
    /\ stage \in {"none", "isr", "irq", "leave"}
    /\ cr3 \in Computations
    /\ pic \in [irr : SUBSET Lines, master : SUBSET (0 .. 7), slave : SUBSET (8 .. 15)]
    /\ mode \in {"running", "hung", "lost"}
    /\ progress \in [Computations -> 0 .. (STEPS + Idle)]
    /\ awaits \in [Computations -> BOOLEAN]

\* The registers the processor has or will have when the handler returns.
Live == IF stage = "none" THEN cpu ELSE State

\* The computation a struct or register file belongs to.
WhoseIs(state) == state["eip"][2]

Kept == {Boot} \cup {processes[i] : i \in 2 .. Len(processes)}

\* What w must find in its registers when it goes on.
Expected(w) ==
    [FileAt(w, progress[w]) EXCEPT !["eax"] = IF awaits[w] THEN Result ELSE @]

\* A frame of the kernel holds neither esp nor ss.
InFrame(w) == IF w = Boot THEN Registers \ {"esp", "ss"} ELSE Registers

\* Every register of the frame, of every computation but the first program,
\* survives traps and switches word for word (ds, es, fs and gs are in no frame
\* and do not): whichever copy of them there is, on the stack, in a process or
\* in the processor, each register has the value the computation left in it,
\* eax the result if it made a system call.  No word
\* is taken for another by the fields of struct interrupt_state, and nothing
\* else is ever resumed.
RegistersIntact ==
    \A state \in {Live} \cup {regs[processes[i]] : i \in DOMAIN processes \ {current}} :
        /\ WhoseIs(state) \in Kept
        /\ \A r \in InFrame(WhoseIs(state)) : state[r] = Expected(WhoseIs(state))[r]

\* The hlt loop always finds the stack that kmain's return left, although
\* every trap from a program starts at its top and overwrites it: the two
\* words in it are the two that struct interrupt_state reaches beyond a frame
\* of the kernel, so that the switches save and restore them.
BootStackKept ==
    Executes(Boot) /\ progress[Boot] = Idle => kstack = BootStack

\* The registers as Scheduler has them, and where iret leaves the stack.
Context(state, sp) == [who |-> WhoseIs(state), at |-> state["eip"][3], sp |-> sp]
DepthAfter == IF stage = "none" THEN Len(kstack) ELSE Len(kstack) - Pops(State)
StackOf(state, depth) ==
    IF WhoseIs(state) # Boot THEN "user"
    ELSE IF depth = Len(BootStack) THEN "top" ELSE "kmain"

Detailed ==
    INSTANCE Scheduler WITH
        regs <- [p \in Processes |->
                    Context(regs[p], IF WhoseIs(regs[p]) = Boot THEN "saved" ELSE "user")],
        cpu <- Context(Live, StackOf(Live, DepthAfter)),
        ds <- IF WhoseIs(Live) # Boot /\ ds = "kernel" THEN "null" ELSE ds,
        handling <- IF stage = "irq" THEN State["interrupt_number"][3] ELSE 16

\* The machinery implements the scheduling that Scheduler describes: a handler
\* learns and acknowledges the line that was raised, through the vectors the
\* controllers were given, the table and the stubs; a program cannot start a
\* switch or any other handler of a line by itself; and what the two copies
\* make of the frames is a switch of registers.
ImplementsScheduler == Detailed!SafetySpec
=============================================================================
