-------------------------------- MODULE Setup -------------------------------
(***************************************************************************)
(* What gdt_init, idt_init and the constructor of PIC leave in the tables  *)
(* and controllers, read the way the hardware reads them.                  *)
(***************************************************************************)
EXTENDS Naturals, Sequences, FiniteSets

Bit(n, i) == (n \div 2 ^ i) % 2
-----------------------------------------------------------------------------
(* src/gdt/gdt.cpp *)

\* The access bytes of the descriptors; the last one is the TSS.
gdt == <<0, 154, 146, 250, 242, 137>>

\* The stack a trap from a program starts on: nothing is on it.
esp0 == <<>>

Access(selector) == gdt[selector \div 8 + 1]
Dpl(access) == (access \div 32) % 4
Rpl(selector) == selector % 4

\* The processor accepts these as CS and SS of the privilege level in CS.
ValidCode(cs) ==
    /\ Bit(Access(cs), 7) = 1 /\ Bit(Access(cs), 4) = 1 /\ Bit(Access(cs), 3) = 1
    /\ Dpl(Access(cs)) = Rpl(cs)
ValidStack(ss, cs) ==
    /\ Bit(Access(ss), 7) = 1 /\ Bit(Access(ss), 3) = 0 /\ Bit(Access(ss), 1) = 1
    /\ Dpl(Access(ss)) = Rpl(cs) /\ Rpl(ss) = Rpl(cs)
-----------------------------------------------------------------------------
(* src/interrupts/isr.S, irq.S and idt.cpp *)

\* The exceptions whose stub is an ISR_ERR: it pushes no error code itself.
ISR_ERR == {8, 10, 11, 12, 13, 14, 17, 30}

\* The exceptions for which the processor pushes one (external).  So do 21 (#CP)
\* and 29 (#VC), whose stubs push another; neither feature that causes them is
\* ever turned on.
ErrorCodes == {8, 10, 11, 12, 13, 14, 17, 30}

\* What a stub pushes below the frame of the processor: error code, number.
isr(n) == [handler |-> "isr", pushes |-> IF n \in ISR_ERR THEN <<n>> ELSE <<0, n>>]
irq(n) == [handler |-> "irq", pushes |-> <<n, n>>]

\* idt_setup_entry
Gate(stub, flags) == [stub |-> stub, flags |-> flags]
NoGate == Gate(isr(0), 0)

\* Mutant: a program may enter through the gates of the lines.
idt_Open ==
    [v \in 0 .. 255 |->
        IF v < 32 THEN Gate(isr(v), 142)
        ELSE IF v < 48 THEN Gate(irq(v - 32), 238)
        ELSE IF v = 128 THEN Gate(isr(v), 238)
        ELSE NoGate]

\* idt_init: 0x8e are interrupt gates, 0xEE one that programs may use.
idt ==
    [v \in 0 .. 255 |->
        IF v < 32 THEN Gate(isr(v), 142)
        ELSE IF v < 48 THEN Gate(irq(v - 32), 142)
        ELSE IF v = 128 THEN Gate(isr(v), 238)
        ELSE NoGate]

Present(gate) == Bit(gate.flags, 7) = 1
ProgramMayUse(gate) == Present(gate) /\ Dpl(gate.flags) = 3
-----------------------------------------------------------------------------
(* src/interrupts/pic.cpp *)

Write(port, value) == [port |-> port, value |-> value]

\* The constructor: ICW1 to ICW4 of both controllers, then the masks.
PIC_Writes ==
    << Write("master_command", 17), Write("slave_command", 17),
       Write("master_data", 32), Write("slave_data", 40),
       Write("master_data", 4), Write("slave_data", 2),
       Write("master_data", 1), Write("slave_data", 1),
       Write("master_data", 0), Write("slave_data", 0) >>

\* A controller (external) takes what follows ICW1 on its data port as the
\* first vector, the cascade, the mode and the mask, in this order.
WritesTo(port) == {i \in DOMAIN PIC_Writes : PIC_Writes[i].port = port}
Nth(S, k) == CHOOSE i \in S : Cardinality({j \in S : j <= i}) = k
Received(port) == [k \in 1 .. 4 |-> PIC_Writes[Nth(WritesTo(port), k)].value]

Chip(data) == [offset |-> data[1], cascade |-> data[2], mode |-> data[3], mask |-> data[4]]
Master == Chip(Received("master_data"))
Slave == Chip(Received("slave_data"))

\* The slave is reached if both controllers agree on the line between them.
Reaches(n) ==
    IF n < 8 THEN Bit(Master.mask, n) = 0
    ELSE Bit(Slave.mask, n - 8) = 0 /\ Bit(Master.mask, Slave.cascade) = 0
         /\ Bit(Master.cascade, Slave.cascade) = 1

\* The vector the processor is given for line n.
Vector(n) == IF n < 8 THEN Master.offset + n ELSE Slave.offset + n - 8
=============================================================================
