-------------------------------- MODULE Pic ---------------------------------
(***************************************************************************)
(* The two cascaded interrupt controllers, external, as src/interrupts/    *)
(* pic.cpp programs them: fixed priorities, no line masked, an interrupt   *)
(* stays in service until an end-of-interrupt command is sent.  A PIC is a *)
(* record of the lines that wait (irr) and of what is in service in the    *)
(* master and in the slave.  The slave hangs on line 2 of the master.      *)
(***************************************************************************)
EXTENDS Naturals

IdlePic == [irr |-> {}, master |-> {}, slave |-> {}]

\* The line of the master that n arrives on.
MasterLine(n) == IF n >= 8 THEN 2 ELSE n

Above(n, m) ==
    \/ MasterLine(n) < MasterLine(m)
    \/ MasterLine(n) = MasterLine(m) /\ n < m

\* n is what the controllers present to the CPU: it waits, nothing that waits
\* has priority over it, and nothing in service blocks it.
Presents(pic, n) ==
    /\ n \in pic.irr
    /\ \A m \in pic.irr : m = n \/ Above(n, m)
    /\ \A m \in pic.master : MasterLine(n) < m
    /\ n >= 8 => \A m \in pic.slave : n < m

\* The CPU acknowledges n.
Acknowledged(pic, n) ==
    [irr    |-> pic.irr \ {n},
     master |-> pic.master \cup {MasterLine(n)},
     slave  |-> pic.slave \cup {m \in {n} : m >= 8}]

\* An end-of-interrupt command takes the first line out of service.
Eoi(lines) == {m \in lines : \E l \in lines : l < m}

\* Mutant: both commands are sent for the lines of the slave only.
pic_send_eoi_SlaveOnly(pic, irq) ==
    IF irq >= 8 THEN [pic EXCEPT !.slave = Eoi(@), !.master = Eoi(@)] ELSE pic

\* PIC::pic_send_eoi(irq).
pic_send_eoi(pic, irq) ==
    [pic EXCEPT !.slave = IF irq >= 8 THEN Eoi(@) ELSE @,
                !.master = Eoi(@)]
=============================================================================
