-------------------------- MODULE SchedulerProofs ---------------------------
(***************************************************************************)
(* Proofs about Scheduler, for every number of processes, every set of     *)
(* interrupt lines and programs of any length.                             *)
(***************************************************************************)
EXTENDS Scheduler, TLAPS

-----------------------------------------------------------------------------
(* The inductive invariant.  The process list is a ring of slots: slot i     *)
(* belongs to the i-th process, but the first one to the boot thread, which  *)
(* was saved there by the first switch.  The current slot's computation is   *)
(* on the CPU, every other one in the registers of its slot's process.       *)

\* Whose computation slot i is for.
Slot(i) == IF i = 1 THEN Boot ELSE processes[i]

\* A process is in the list once.
NoDuplicates ==
    \A i, j \in DOMAIN processes : processes[i] = processes[j] => i = j

\* The CPU executes the current slot, the boot thread if there is none.
CurrentRuns ==
    /\ current = 0 <=> processes = <<>>
    /\ cpu.who = IF current = 0 THEN Boot ELSE Slot(current)
    /\ cpu.at = progress[cpu.who]

\* The other slots hold their computation, as far as it had come.
OthersSaved ==
    \A i \in DOMAIN processes : i # current =>
        /\ regs[processes[i]].who = Slot(i)
        /\ regs[processes[i]].at = progress[Slot(i)]

\* A program that has no process yet has not run.
NotStarted == \A p \in Processes \ Range(processes) : progress[p] = 0

\* The page directory is the current process's, or still the kernel's.
DirectoryLoaded ==
    \/ current > 0 /\ cr3 = processes[current]
    \/ current <= 1 /\ cr3 = Boot

\* While line n is handled it alone is in service.
InService ==
    /\ pic.master = {MasterLine(n) : n \in {handling} \ {NoIrq}}
    /\ pic.slave = {n \in {handling} \ {NoIrq} : n >= 8}

IInv ==
    /\ TypeOK
    /\ NoDuplicates
    /\ CurrentRuns
    /\ OthersSaved
    /\ NotStarted
    /\ DirectoryLoaded
    /\ InService
-----------------------------------------------------------------------------
(* Type correctness. *)

\* The boot thread's positions and those of every program are positions.
LEMMA Positions ==
    /\ 0 \in 0 .. (STEPS + Idle) /\ Idle \in 0 .. (STEPS + Idle)
    /\ \A n \in Nat : (n + 1) % STEPS \in 0 .. (STEPS + Idle)
BY SchedulerAssumption DEF Idle

\* The end of interrupt and the acknowledge keep the controllers' types.
LEMMA PicTypes ==
    ASSUME NEW c \in [irr : SUBSET Lines, master : SUBSET (0 .. 7), slave : SUBSET (8 .. 15)],
           NEW n \in Lines
    PROVE  /\ Acknowledged(c, n)
                \in [irr : SUBSET Lines, master : SUBSET (0 .. 7), slave : SUBSET (8 .. 15)]
           /\ pic_send_eoi(c, n)
                \in [irr : SUBSET Lines, master : SUBSET (0 .. 7), slave : SUBSET (8 .. 15)]
<1>1. n \in 0 .. 15 /\ MasterLine(n) \in 0 .. 7
  BY SchedulerAssumption DEF MasterLine
<1>2. {m \in {n} : m >= 8} \subseteq 8 .. 15
  BY <1>1
<1> QED BY <1>1, <1>2 DEF Acknowledged, pic_send_eoi, Eoi

LEMMA InitTypeOK == Init => TypeOK
<1> SUFFICES ASSUME Init PROVE TypeOK
  OBVIOUS
<1>1. regs \in [Processes -> ContextType] /\ cpu \in ContextType
  BY Positions DEF Init, ContextType, Context, Computations, Kmain
<1>2. processes \in Seq(Processes) /\ current \in 0 .. Len(processes)
  BY DEF Init
<1>3. pic \in [irr : SUBSET Lines, master : SUBSET (0 .. 7), slave : SUBSET (8 .. 15)]
  BY DEF Init, IdlePic
<1>4. progress \in [Computations -> 0 .. (STEPS + Idle)]
  BY Positions DEF Init, Computations
<1> QED BY <1>1, <1>2, <1>3, <1>4 DEF Init, TypeOK, Computations

LEMMA SwitchTypeOK ==
    ASSUME TypeOK, switch_process
    PROVE  /\ current' \in 0 .. Len(processes)
           /\ early' \in BOOLEAN
           /\ regs' \in [Processes -> ContextType]
           /\ cpu' \in ContextType
           /\ cr3' \in Computations
<1>1. CASE ~_init \/ current = 0
  BY <1>1 DEF TypeOK, switch_process
<1>2. CASE _init /\ current # 0
  <2> DEFINE next == IF current < Len(processes) THEN current + 1 ELSE 1
             saved == [regs EXCEPT ![processes[current]] = Frame]
  <2>1. next \in DOMAIN processes /\ current \in DOMAIN processes
    BY <1>2 DEF TypeOK
  <2>2. processes[next] \in Processes /\ processes[current] \in Processes
    BY <2>1 DEF TypeOK
  <2>3. Frame \in ContextType
    BY DEF TypeOK, Frame, ContextType
  <2>4. saved \in [Processes -> ContextType]
    BY <2>3 DEF TypeOK
  <2>5. \A c \in ContextType : Restored(c) \in ContextType
    BY DEF TypeOK, Restored, ContextType
  <2>6. /\ regs' = saved /\ current' = next /\ cr3' = processes[next]
        /\ cpu' = Restored(saved[processes[next]])
        /\ early' = (early \/ (cpu.who = Boot /\ cpu.at = Kmain))
    BY <1>2 DEF switch_process
  <2> HIDE DEF next, saved
  <2>7. cpu' \in ContextType
    BY <2>2, <2>4, <2>5, <2>6
  <2>8. current' \in 0 .. Len(processes)
    BY <2>1, <2>6 DEF TypeOK
  <2>9. early' \in BOOLEAN
    BY <2>6 DEF TypeOK
  <2> QED BY <2>2, <2>4, <2>6, <2>7, <2>8, <2>9 DEF Computations
<1> QED BY <1>1, <1>2

LEMMA NextTypeOK == TypeOK /\ [Next]_vars => TypeOK'
<1> SUFFICES ASSUME TypeOK, [Next]_vars PROVE TypeOK'
  OBVIOUS
<1>1. ASSUME NEW p \in Processes, create_process(p) PROVE TypeOK'
  <2>1. Context(p, 0, "user") \in ContextType
    BY Positions DEF ContextType, Context, Computations
  <2>2. processes' \in Seq(Processes) /\ Len(processes') = Len(processes) + 1
    BY <1>1 DEF TypeOK, create_process
  <2>3. current' \in 0 .. Len(processes')
    BY <1>1, <2>2 DEF TypeOK, create_process
  <2>4. regs' \in [Processes -> ContextType]
    BY <1>1, <2>1 DEF TypeOK, create_process
  <2> QED BY <1>1, <2>2, <2>3, <2>4 DEF TypeOK, create_process
<1>2. ASSUME NEW p \in Processes, ProgramStep(p) PROVE TypeOK'
  <2> DEFINE at == (cpu.at + 1) % STEPS
  <2>1. cpu.at \in Nat
    BY DEF TypeOK, ContextType
  <2>2. at \in 0 .. (STEPS + Idle)
    BY <2>1, Positions
  <2>3. cpu' = [cpu EXCEPT !.at = at] /\ progress' = [progress EXCEPT ![p] = at]
    BY <1>2 DEF ProgramStep, Advance
  <2> HIDE DEF at
  <2>4. cpu' \in ContextType
    BY <2>2, <2>3 DEF TypeOK, ContextType
  <2>5. progress' \in [Computations -> 0 .. (STEPS + Idle)]
    BY <2>2, <2>3 DEF TypeOK
  <2> QED BY <1>2, <2>4, <2>5 DEF TypeOK, ProgramStep, Advance
<1>3. ASSUME NEW p \in Processes, Fault(p) PROVE TypeOK'
  BY <1>3 DEF TypeOK, Fault
<1>4. CASE enable_scheduling
  BY <1>4 DEF TypeOK, enable_scheduling
<1>5. CASE KmainReturns
  <2>1. Context(Boot, Idle, "top") \in ContextType
    BY Positions DEF ContextType, Context, Computations
  <2>2. cpu' \in ContextType /\ mode' \in {"running", "hung", "lost"}
    BY <1>5, <2>1 DEF TypeOK, KmainReturns
  <2>3. progress' \in [Computations -> 0 .. (STEPS + Idle)]
    BY <1>5, Positions DEF TypeOK, KmainReturns
  <2> QED BY <1>5, <2>2, <2>3 DEF TypeOK, KmainReturns
<1>6. ASSUME NEW n \in Lines, Raise(n) PROVE TypeOK'
  BY <1>6 DEF TypeOK, Raise
<1>7. ASSUME NEW n \in Lines, TakeInterrupt(n) PROVE TypeOK'
  BY <1>7, PicTypes DEF TypeOK, TakeInterrupt
<1>8. CASE irq_handler
  <2>1. handling \in Lines
    BY <1>8 DEF TypeOK, irq_handler
  <2>2. pic' \in [irr : SUBSET Lines, master : SUBSET (0 .. 7), slave : SUBSET (8 .. 15)]
    BY <1>8, <2>1, PicTypes DEF TypeOK, irq_handler
  <2>3. ds' \in {"kernel", "null", "user"}
    BY <1>8 DEF TypeOK, irq_handler, Returned
  <2>4. CASE handling = 0
    BY <1>8, <2>2, <2>3, <2>4, SwitchTypeOK DEF TypeOK, irq_handler
  <2>5. CASE handling # 0
    BY <1>8, <2>2, <2>3, <2>5 DEF TypeOK, irq_handler
  <2> QED BY <2>4, <2>5
<1>9. CASE HandlerFaults
  BY <1>9 DEF TypeOK, HandlerFaults
<1>10. CASE UNCHANGED vars
  BY <1>10 DEF TypeOK, vars
<1> QED BY <1>1, <1>2, <1>3, <1>4, <1>5, <1>6, <1>7, <1>8, <1>9, <1>10 DEF Next, TakesInterrupt

\* The state of every slot, the controllers and the list keep their types.
THEOREM TypeCorrect == Spec => []TypeOK
<1>1. Init => TypeOK
  BY InitTypeOK
<1>2. TypeOK /\ [Next]_vars => TypeOK'
  BY NextTypeOK
<1> QED BY <1>1, <1>2, PTL DEF Spec, SafetySpec
-----------------------------------------------------------------------------
(* The invariant. *)

\* No computation is both the boot thread's and a process's.
LEMMA SlotsDiffer ==
    ASSUME TypeOK, NoDuplicates,
           NEW i \in DOMAIN processes, NEW j \in DOMAIN processes, i # j
    PROVE  Slot(i) # Slot(j)
BY SchedulerAssumption DEF TypeOK, NoDuplicates, Slot

LEMMA InitIInv == Init => IInv
<1> SUFFICES ASSUME Init PROVE IInv
  OBVIOUS
<1>1. TypeOK
  BY InitTypeOK
<1>2. NoDuplicates /\ OthersSaved
  BY DEF Init, NoDuplicates, OthersSaved
<1>3. CurrentRuns
  BY DEF Init, CurrentRuns, Context, Kmain
<1>4. NotStarted /\ DirectoryLoaded
  BY DEF Init, NotStarted, DirectoryLoaded
<1>5. InService
  BY DEF Init, InService, IdlePic
<1> QED BY <1>1, <1>2, <1>3, <1>4, <1>5 DEF IInv

LEMMA CreateIInv ==
    ASSUME IInv, NEW p \in Processes, create_process(p)
    PROVE  NoDuplicates' /\ CurrentRuns' /\ OthersSaved' /\ NotStarted' /\ DirectoryLoaded'
<1> DEFINE n == Len(processes)
<1>1. /\ processes \in Seq(Processes) /\ n \in Nat
      /\ DOMAIN processes = 1 .. n
      /\ processes' = Append(processes, p)
      /\ Len(processes') = n + 1 /\ DOMAIN processes' = 1 .. (n + 1)
      /\ \A i \in 1 .. n : processes'[i] = processes[i]
      /\ processes'[n + 1] = p
  BY DEF IInv, TypeOK, create_process
<1>2. /\ p \notin Range(processes)
      /\ \A i \in 1 .. n : processes[i] # p /\ processes[i] \in Processes
  BY <1>1 DEF create_process, Range
<1>3. /\ regs'[p] = Context(p, 0, "user")
      /\ \A i \in 1 .. n : regs'[processes[i]] = regs[processes[i]]
  BY <1>2 DEF IInv, TypeOK, create_process
<1>4. current' = IF n = 0 THEN 1 ELSE current
  BY <1>1 DEF create_process
<1>5. current \in 0 .. 1 /\ cpu.who = Boot /\ cpu' = cpu /\ cr3' = cr3 /\ progress' = progress
  BY <1>1, SchedulerAssumption DEF IInv, TypeOK, CurrentRuns, Slot, create_process, Executes
<1>6. progress[p] = 0
  BY <1>2 DEF IInv, NotStarted
<1>7. NoDuplicates'
  BY <1>1, <1>2 DEF IInv, NoDuplicates
<1>8. CurrentRuns'
  BY <1>1, <1>4, <1>5 DEF IInv, CurrentRuns, Slot
<1>9. OthersSaved'
  <2> SUFFICES ASSUME NEW i \in 1 .. (n + 1), i # current'
               PROVE  /\ regs'[processes'[i]].who = Slot(i)'
                      /\ regs'[processes'[i]].at = progress'[Slot(i)']
    BY <1>1 DEF OthersSaved
  <2>1. CASE i = n + 1
    <3>1. i # 1
      BY <1>4, <2>1 DEF IInv, TypeOK
    <3> QED BY <1>1, <1>3, <1>5, <1>6, <2>1, <3>1 DEF Slot, Context
  <2>2. CASE i \in 1 .. n
    <3>1. i # current
      BY <1>1, <1>4, <2>2
    <3> QED BY <1>1, <1>3, <1>5, <2>2, <3>1 DEF IInv, OthersSaved, Slot
  <2> QED BY <1>1, <2>1, <2>2
<1>10. NotStarted'
  BY <1>1, <1>5 DEF IInv, NotStarted, Range
<1>11. DirectoryLoaded'
  BY <1>1, <1>4, <1>5 DEF IInv, DirectoryLoaded, CurrentRuns
<1> QED BY <1>7, <1>8, <1>9, <1>10, <1>11

\* A step of the computation on the CPU leaves the other slots alone.
LEMMA RunsIInv ==
    ASSUME IInv, UNCHANGED <<processes, current, regs, cr3>>,
           cpu'.who = cpu.who, NEW at,
           cpu'.at = at, progress' = [progress EXCEPT ![cpu.who] = at]
    PROVE  NoDuplicates' /\ CurrentRuns' /\ OthersSaved' /\ NotStarted' /\ DirectoryLoaded'
<1>1. cpu.who \in Computations /\ progress'[cpu.who] = at
  BY DEF IInv, TypeOK, ContextType
<1>2. NoDuplicates' /\ DirectoryLoaded'
  BY DEF IInv, NoDuplicates, DirectoryLoaded
<1>3. CurrentRuns'
  BY <1>1 DEF IInv, CurrentRuns, Slot
<1>4. OthersSaved'
  <2> SUFFICES ASSUME NEW i \in DOMAIN processes, i # current
               PROVE  /\ regs[processes[i]].who = Slot(i)
                      /\ regs[processes[i]].at = progress'[Slot(i)]
    BY DEF OthersSaved, Slot
  <2>1. Slot(i) \in Computations /\ regs[processes[i]].who = Slot(i)
        /\ regs[processes[i]].at = progress[Slot(i)]
    BY DEF IInv, TypeOK, OthersSaved, Slot, Computations
  <2>2. current \in DOMAIN processes /\ cpu.who = Slot(current)
    BY DEF IInv, TypeOK, CurrentRuns
  <2>3. Slot(i) # cpu.who
    BY <2>2, SlotsDiffer DEF IInv
  <2> QED BY <2>1, <2>3 DEF IInv, TypeOK
<1>5. NotStarted'
  <2>1. cpu.who \notin Processes \ Range(processes)
    BY SchedulerAssumption DEF IInv, TypeOK, CurrentRuns, Slot, Range
  <2> QED BY <2>1 DEF IInv, TypeOK, NotStarted, Computations
<1> QED BY <1>2, <1>3, <1>4, <1>5

\* The switch turns the ring by one slot.
LEMMA SwitchIInv ==
    ASSUME IInv, switch_process, UNCHANGED <<processes, progress>>
    PROVE  NoDuplicates' /\ CurrentRuns' /\ OthersSaved' /\ NotStarted' /\ DirectoryLoaded'
<1>1. NoDuplicates' /\ NotStarted'
  BY DEF IInv, NoDuplicates, NotStarted
<1>2. CASE ~_init \/ current = 0
  BY <1>1, <1>2 DEF IInv, CurrentRuns, OthersSaved, DirectoryLoaded, Slot, switch_process
<1>3. CASE _init /\ current # 0
  <2> DEFINE next == IF current < Len(processes) THEN current + 1 ELSE 1
             saved == [regs EXCEPT ![processes[current]] = Frame]
  <2>1. /\ regs' = saved /\ current' = next /\ cr3' = processes[next]
        /\ cpu' = Restored(saved[processes[next]])
    BY <1>3 DEF switch_process
  <2>2. /\ next \in DOMAIN processes /\ current \in DOMAIN processes
        /\ \A i \in DOMAIN processes : processes[i] \in Processes
    BY <1>3 DEF IInv, TypeOK
  <2>3. Frame \in ContextType /\ Frame.who = Slot(current) /\ Frame.at = progress[Slot(current)]
    BY <1>3 DEF IInv, TypeOK, Frame, CurrentRuns, ContextType
  <2>4. saved[processes[current]] = Frame /\ saved \in [Processes -> ContextType]
    BY <2>2, <2>3 DEF IInv, TypeOK
  <2>5. \A i \in DOMAIN processes \ {current} : saved[processes[i]] = regs[processes[i]]
    BY <2>2 DEF IInv, TypeOK, NoDuplicates
  <2> HIDE DEF next, saved
  <2>6. \A i \in DOMAIN processes :
            saved[processes[i]].who = Slot(i) /\ saved[processes[i]].at = progress[Slot(i)]
    BY <2>2, <2>3, <2>4, <2>5 DEF IInv, OthersSaved
  <2>7. \A c \in ContextType : Restored(c).who = c.who /\ Restored(c).at = c.at
    BY DEF Restored, ContextType
  <2>8. cpu'.who = Slot(next) /\ cpu'.at = progress[Slot(next)]
    BY <2>1, <2>2, <2>4, <2>6, <2>7
  <2>9. CurrentRuns'
    BY <2>1, <2>2, <2>8, <1>3 DEF IInv, TypeOK, CurrentRuns, Slot
  <2>10. OthersSaved'
    BY <2>1, <2>6 DEF OthersSaved, Slot
  <2>11. DirectoryLoaded'
    BY <2>1, <2>2 DEF IInv, TypeOK, DirectoryLoaded
  <2> QED BY <1>1, <2>9, <2>10, <2>11
<1> QED BY <1>2, <1>3

\* Acknowledge and end of interrupt, for the one line that is handled.
LEMMA InServiceKept ==
    ASSUME IInv, NEW n \in Lines
    PROVE  /\ handling = NoIrq =>
                /\ Acknowledged(pic, n).master = {MasterLine(n)}
                /\ Acknowledged(pic, n).slave = {m \in {n} : m >= 8}
           /\ handling = n =>
                /\ pic_send_eoi(pic, n).master = {}
                /\ pic_send_eoi(pic, n).slave = {}
<1>1. n \in 0 .. 15 /\ n # NoIrq /\ MasterLine(n) \in 0 .. 7
  BY SchedulerAssumption DEF NoIrq, MasterLine
<1>2. CASE handling = NoIrq
  <2>1. pic.master = {} /\ pic.slave = {}
    BY <1>2 DEF IInv, InService
  <2> QED BY <1>1, <1>2, <2>1 DEF Acknowledged
<1>3. CASE handling = n
  <2>1. pic.master = {MasterLine(n)} /\ pic.slave = {m \in {n} : m >= 8}
    BY <1>1, <1>3 DEF IInv, InService
  <2>2. Eoi({MasterLine(n)}) = {} /\ Eoi({m \in {n} : m >= 8}) = {}
    BY <1>1 DEF Eoi
  <2>3. n < 8 => pic.slave = {}
    BY <1>1, <2>1
  <2> QED BY <1>1, <1>3, <2>1, <2>2, <2>3 DEF pic_send_eoi, IInv, TypeOK
<1> QED BY <1>1, <1>2, <1>3

LEMMA NextIInv == IInv /\ [Next]_vars => IInv'
<1> SUFFICES ASSUME IInv, [Next]_vars PROVE IInv'
  OBVIOUS
<1>1. TypeOK'
  BY NextTypeOK DEF IInv
<1>2. ASSUME NEW p \in Processes, create_process(p) PROVE IInv'
  BY <1>1, <1>2, CreateIInv DEF IInv, InService, create_process
<1>3. ASSUME NEW p \in Processes, ProgramStep(p) PROVE IInv'
  <2>1. InService'
    BY <1>3 DEF IInv, InService, ProgramStep, Advance
  <2>2. /\ cpu'.who = cpu.who /\ cpu'.at = (cpu.at + 1) % STEPS
        /\ progress' = [progress EXCEPT ![cpu.who] = (cpu.at + 1) % STEPS]
    BY <1>3 DEF IInv, TypeOK, ContextType, ProgramStep, Advance, Executes
  <2>3. UNCHANGED <<processes, current, regs, cr3>>
    BY <1>3 DEF ProgramStep, Advance
  <2> QED BY <1>1, <2>1, <2>2, <2>3, RunsIInv DEF IInv
<1>4. ASSUME NEW p \in Processes, Fault(p) PROVE IInv'
  BY <1>1, <1>4 DEF IInv, NoDuplicates, CurrentRuns, OthersSaved, NotStarted,
                    DirectoryLoaded, InService, Slot, Fault
<1>5. CASE enable_scheduling
  BY <1>1, <1>5 DEF IInv, NoDuplicates, CurrentRuns, OthersSaved, NotStarted,
                    DirectoryLoaded, InService, Slot, enable_scheduling
<1>6. CASE KmainReturns
  <2>1. InService' /\ UNCHANGED <<processes, current, regs, cr3>>
    BY <1>6 DEF IInv, InService, KmainReturns
  <2>2. CASE cpu.sp = "kmain"
    <3>1. /\ cpu'.who = cpu.who /\ cpu'.at = Idle
          /\ progress' = [progress EXCEPT ![cpu.who] = Idle]
      BY <1>6, <2>2 DEF KmainReturns, Executes, Context
    <3> QED BY <1>1, <2>1, <3>1, RunsIInv DEF IInv
  <2>3. CASE cpu.sp # "kmain"
    <3>1. UNCHANGED <<cpu, progress>>
      BY <1>6, <2>3 DEF KmainReturns
    <3> QED BY <1>1, <2>1, <3>1
               DEF IInv, NoDuplicates, CurrentRuns, OthersSaved, NotStarted,
                   DirectoryLoaded, Slot
  <2> QED BY <2>2, <2>3
<1>7. ASSUME NEW n \in Lines, Raise(n) PROVE IInv'
  <2>1. InService'
    BY <1>7 DEF IInv, TypeOK, InService, Raise
  <2> QED BY <1>1, <1>7, <2>1
             DEF IInv, NoDuplicates, CurrentRuns, OthersSaved, NotStarted,
                 DirectoryLoaded, Slot, Raise
<1>8. ASSUME NEW n \in Lines, TakeInterrupt(n) PROVE IInv'
  <2>1. n # NoIrq /\ handling' = n
    BY <1>8, SchedulerAssumption DEF NoIrq, TakeInterrupt
  <2>2. pic'.master = {MasterLine(n)} /\ pic'.slave = {m \in {n} : m >= 8}
    BY <1>8, InServiceKept DEF TakeInterrupt
  <2>3. InService'
    BY <2>1, <2>2 DEF InService
  <2> QED BY <1>1, <1>8, <2>3
             DEF IInv, NoDuplicates, CurrentRuns, OthersSaved, NotStarted,
                 DirectoryLoaded, Slot, TakeInterrupt
<1>9. CASE irq_handler
  <2>1. handling \in Lines /\ handling' = NoIrq
    BY <1>9 DEF IInv, TypeOK, irq_handler
  <2>2. pic'.master = {} /\ pic'.slave = {}
    BY <1>9, <2>1, InServiceKept DEF irq_handler
  <2>3. InService'
    BY <2>1, <2>2 DEF InService
  <2>4. CASE handling = 0
    <3>1. switch_process /\ UNCHANGED <<processes, progress>>
      BY <1>9, <2>4 DEF irq_handler
    <3> QED BY <1>1, <2>3, <3>1, SwitchIInv DEF IInv
  <2>5. CASE handling # 0
    BY <1>1, <1>9, <2>3, <2>5
       DEF IInv, NoDuplicates, CurrentRuns, OthersSaved, NotStarted,
           DirectoryLoaded, Slot, irq_handler
  <2> QED BY <2>4, <2>5
<1>11. CASE HandlerFaults
  BY <1>1, <1>11 DEF IInv, NoDuplicates, CurrentRuns, OthersSaved, NotStarted,
                     DirectoryLoaded, InService, Slot, HandlerFaults
<1>10. CASE UNCHANGED vars
  BY <1>1, <1>10 DEF IInv, NoDuplicates, CurrentRuns, OthersSaved, NotStarted,
                     DirectoryLoaded, InService, Slot, vars
<1> QED BY <1>2, <1>3, <1>4, <1>5, <1>6, <1>7, <1>8, <1>9, <1>10, <1>11 DEF Next, TakesInterrupt

LEMMA Invariant == Spec => []IInv
<1>1. Init => IInv
  BY InitIInv
<1>2. IInv /\ [Next]_vars => IInv'
  BY NextIInv
<1> QED BY <1>1, <1>2, PTL DEF Spec, SafetySpec
-----------------------------------------------------------------------------
(* What it implies. *)

LEMMA IInvContextIntact == IInv => ContextIntact
<1> SUFFICES ASSUME IInv, NEW w \in Kept
             PROVE  /\ cpu.who = w => cpu.at = progress[w] /\ Saved(w) = {}
                    /\ cpu.who # w => \E i \in DOMAIN processes :
                                        Saved(w) = {i} /\ regs[processes[i]].at = progress[w]
  BY DEF ContextIntact
<1>1. \A i \in DOMAIN processes : i \in Saved(w) <=> i # current /\ Slot(i) = w
  BY DEF IInv, OthersSaved, Saved
<1>2. Saved(w) \subseteq DOMAIN processes
  BY DEF Saved
<1>3. CASE cpu.who = w
  <2>1. CASE current = 0
    BY <1>2, <1>3, <2>1 DEF IInv, CurrentRuns
  <2>2. CASE current # 0
    <3>1. current \in DOMAIN processes /\ Slot(current) = w
      BY <1>3, <2>2 DEF IInv, TypeOK, CurrentRuns
    <3> QED BY <1>1, <1>2, <1>3, <3>1, SlotsDiffer DEF IInv, CurrentRuns
  <2> QED BY <2>1, <2>2
<1>4. CASE cpu.who # w
  <2>1. PICK i \in DOMAIN processes : Slot(i) = w
    <3>1. CASE w = Boot
      <4>1. 1 \in DOMAIN processes
        BY <1>4, <3>1 DEF IInv, TypeOK, CurrentRuns
      <4> QED BY <3>1, <4>1 DEF Slot
    <3>2. CASE w # Boot
      BY <3>2 DEF Kept, Slot, IInv, TypeOK
    <3> QED BY <3>1, <3>2
  <2>2. i # current
    BY <1>4, <2>1 DEF IInv, TypeOK, CurrentRuns
  <2>3. Saved(w) = {i}
    BY <1>1, <1>2, <2>1, <2>2, SlotsDiffer DEF IInv
  <2> QED BY <1>4, <2>1, <2>2, <2>3 DEF IInv, OthersSaved
<1> QED BY <1>3, <1>4

\* However many processes there are and whenever the ticks come, no context of
\* the boot thread or of a program but the first is lost, doubled or set back
\* by switch_process.
THEOREM ContextIntactHolds == Spec => []ContextIntact
BY Invariant, IInvContextIntact, PTL

\* A program only ever runs with the page directory of its own process.
THEOREM OwnAddressSpaceHolds == Spec => []OwnAddressSpace
<1>1. IInv => OwnAddressSpace
  <2> SUFFICES ASSUME IInv PROVE OwnAddressSpace
    OBVIOUS
  <2>1. CASE cpu.who # Boot
    <3>1. current \in 2 .. Len(processes) /\ cpu.who = processes[current]
      BY <2>1 DEF IInv, TypeOK, CurrentRuns, Slot
    <3>2. cr3 = processes[current]
      BY <3>1 DEF IInv, DirectoryLoaded
    <3> QED BY <2>1, <3>1, <3>2 DEF OwnAddressSpace, Kept
  <2>2. CASE cpu.who = Boot
    <3>1. current \in 0 .. 1
      BY <2>2, SchedulerAssumption DEF IInv, TypeOK, CurrentRuns, Slot
    <3>2. current = 1 => 1 \in DOMAIN processes
      BY DEF IInv, TypeOK
    <3> QED BY <2>2, <3>1, <3>2 DEF IInv, DirectoryLoaded, OwnAddressSpace
  <2> QED BY <2>1, <2>2
<1> QED BY <1>1, Invariant, PTL

\* The end of interrupt always frees the line that was handled, in both
\* controllers: no line is shut out between two handlers.
THEOREM NoLineBlockedHolds == Spec => []NoLineBlocked
<1>1. IInv => NoLineBlocked
  BY DEF IInv, InService, NoLineBlocked
<1> QED BY <1>1, Invariant, PTL
=============================================================================
