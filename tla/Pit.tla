--------------------------------- MODULE Pit --------------------------------
(***************************************************************************)
(* The programming of the interval timer by timer::PIT (src/devices/       *)
(* timer.cpp) and what the timer makes of it.                              *)
(***************************************************************************)
EXTENDS Naturals, Sequences

CLOCK == 1193180

Outb(port, value) == [port |-> port, value |-> value]

\* Mutant: the bytes of the divisor are sent in the other order.
PIT_Writes_HighFirst(freq_hz) ==
    LET divisor == CLOCK \div freq_hz IN
    << Outb("command", 54),
       Outb("channel0", (divisor \div 256) % 256), Outb("channel0", divisor % 256) >>

\* The constructor: repeat mode, then the divisor, a byte at a time.
PIT_Writes(freq_hz) ==
    LET divisor == CLOCK \div freq_hz IN
    << Outb("command", 54),
       Outb("channel0", divisor % 256), Outb("channel0", (divisor \div 256) % 256) >>

\* The clocks from tick to tick (external): the command 0x36 announces a low
\* and a high byte for channel 0; 0 stands for 2^16.
Period(writes) ==
    LET count == writes[2].value + 256 * writes[3].value
    IN  IF count = 0 THEN 65536 ELSE count
=============================================================================
