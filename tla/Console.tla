------------------------------ MODULE Console -------------------------------
(***************************************************************************)
(* What the kernel prints: serial::Serial (src/outputs/serial.cpp) and     *)
(* VGA as kmain and the interrupt handlers use them.  kmain prints logs on *)
(* the serial line and announcements on the line and on the screen.  From  *)
(* sti on a handler may interrupt it between any two steps and print too;  *)
(* a handler runs to its end with interrupts off.  Numbers go through one  *)
(* array of digits that all callers of print_dec and print_hex share.      *)
(* Of what else kmain does, the programming of the timer is here, too.     *)
(*                                                                         *)
(* A character is a letter, a new line or a digit; texts are shortened.    *)
(***************************************************************************)
EXTENDS Vga, Pit

CONSTANTS
    Values,      \* the numbers that are printed
    BITS,        \* width of %x, 32; twice that for %X
    STACK,       \* length of the digit array, 256
    FIFO,        \* characters the transmitter's FIFO takes, 16
    Frequencies, \* what the timer may be asked for, in Hz
    INTERRUPTS   \* bound on the interrupts taken

\* The powers of a base.
Power(base) == LET p[n \in Nat] == IF n = 0 THEN 1 ELSE base * p[n - 1] IN p

ASSUME ConsoleAssumption ==
    /\ BITS \in Nat /\ STACK \in Nat /\ STACK > BITS
    /\ FIFO \in Nat /\ FIFO > 1 /\ INTERRUPTS \in Nat
    /\ Values \subseteq 0 .. (Power(2)[BITS] - 1)
    /\ Frequencies \subseteq 1 .. CLOCK

VARIABLES
    uart,       \* Serial::_init, the FIFO's depth, and how many characters it holds
    stack, stack_idx,
    vga,
    pit,        \* the frequency the timer is to have, and what was sent to it
    script,     \* what kmain still has to do
    job,        \* the call of kprintf of the boot thread and of the handler
    serving,    \* what the running handler handles, or "none"
    sti,        \* interrupts are enabled
    _init,      \* Process::_init: programs run from the next tick on
    interrupts, \* interrupts taken so far
    owed,       \* history: the characters each job should still write
    garbled,    \* history: another character was written, or one was lost
    printed     \* history: letters printed on the screen

vars == <<uart, stack, stack_idx, vga, pit, script, job, serving, sti, _init,
          interrupts, owed, garbled, printed>>
-----------------------------------------------------------------------------
(* Characters, and what is to be printed. *)

Letter == <<"letter", 0>>
LineEnd == <<"newline", 0>>
Digit(d) == <<"digit", d>>
Text(ch) == [kind |-> "text", ch |-> ch]
Decimal == [kind |-> "dec", ch |-> Letter]
Hex == [kind |-> "hex", ch |-> Letter]
LongHex == [kind |-> "longhex", ch |-> Letter]

Line(items) == <<Text(Letter)>> \o items \o <<Text(LineEnd)>>
Log(items) == [op |-> "log", items |-> Line(items), letters |-> 0]
Announce(n) ==
    [op |-> "announce", letters |-> n,
     items |-> [i \in 1 .. (n + 1) |-> Text(IF i <= n THEN Letter ELSE LineEnd)]]
Step(op) == [op |-> op, items |-> <<>>, letters |-> 0]

\* What the functions that kmain calls print.  Lines of one shape that follow
\* each other are taken once.  The multiboot flags are right: PMM::init does not
\* print its error line and return.  Numbers of a %X have no more than BITS bits.
gdt_init == <<Log(<<Hex>>), Log(<<LongHex>>)>>
idt_init == <<Log(<<>>), Step("sti")>>
PMM_init ==
    <<Log(<<Hex, Hex>>), Log(<<Hex, LongHex>>), Log(<<Decimal>>), Log(<<Hex, Decimal, Decimal>>)>>
Elf32_load == <<Log(<<>>), Log(<<Hex>>)>>
load_initrd == <<Log(<<>>)>> \o Elf32_load

\* Mutant: scheduling is enabled before the initrd is loaded.
Kmain_EarlyScheduling ==
    gdt_init \o <<Announce(2)>> \o idt_init \o <<Announce(2)>>
        \o <<Step("pit"), Announce(4), Step("keyboard"), Step("enable_scheduling")>>
        \o load_initrd

\* kmain.
Kmain ==
    gdt_init \o <<Announce(2)>> \o idt_init \o <<Announce(2)>>
        \o PMM_init \o <<Announce(3), Step("pit"), Announce(4), Step("keyboard"), Announce(1)>>
        \o load_initrd \o <<Step("enable_scheduling")>>

\* kmain when the boot loader is not a multiboot one; it returns.
KmainBadMagic == << Log(<<Hex, Hex>>) >>

\* What the handlers print: keyboard_interrupt_handler when it flushes the
\* queue, isr_handler for a system call and for a fault.
KeyboardText == Line(<<>>)
SyscallText == Line(<<Decimal>>) \o Line(<<Decimal>>)
FaultText == Line(<<>>) \o Line(<<Hex>>) \o Line(<<Hex>>)
-----------------------------------------------------------------------------
(* Reference: a number in positional notation. *)

Length(v, base) ==
    CHOOSE n \in 0 .. v : v < Power(base)[n] /\ (n = 0 \/ v >= Power(base)[n - 1])

Numeral(v, base) ==
    LET n == Length(v, base)
    IN  [i \in 1 .. n |-> Digit((v \div Power(base)[n - i]) % base)]

Bits(item) == IF item.kind = "longhex" THEN 2 * BITS ELSE BITS

Rendering(item, v) ==
    CASE item.kind = "text" -> <<item.ch>>
      [] item.kind = "dec" -> IF v = 0 THEN <<Digit(0)>> ELSE Numeral(v, 10)
      [] OTHER -> <<Digit(0), Letter>>
                  \o [i \in 1 .. (Bits(item) \div 4 - Len(Numeral(v, 16))) |-> Digit(0)]
                  \o Numeral(v, 16)
-----------------------------------------------------------------------------
(* Serial. *)

\* A call of kprintf: the items left, the one in work, the value left to be
\* divided, the digits on the stack, the characters to be written now, and
\* whether the transmitter was seen empty, or the top of the stack was taken.
NoJob == [items |-> <<>>, item |-> Text(Letter), value |-> 0, digits |-> 0,
          text |-> <<>>, phase |-> "format"]

Jobs == {"boot", "handler"}
Running == IF serving = "none" THEN "boot" ELSE "handler"
Idle(w) == job[w].items = <<>> /\ job[w].phase = "format"

Steps(w, j) == job' = [job EXCEPT ![w] = j]
SerialOnly == UNCHANGED <<vga, pit, script, serving, sti, _init, interrupts, printed>>

Base(item) == IF item.kind = "dec" THEN 10 ELSE 16

\* kprintf turns to the next item of its format.
kprintf(w) ==
    LET j == job[w] item == Head(j.items) IN
    /\ w = Running /\ j.phase = "format" /\ j.items # <<>>
    /\ \E v \in Values :
        /\ item.kind = "text" => v = CHOOSE x \in Values : TRUE
        /\ owed' = [owed EXCEPT ![w] = @ \o Rendering(item, v)]
        /\ Steps(w, IF item.kind = "text" \/ (item.kind = "dec" /\ v = 0)
                    THEN [j EXCEPT !.items = Tail(@), !.item = item, !.phase = "poll",
                                   !.text = Rendering(item, v)]
                    ELSE [j EXCEPT !.items = Tail(@), !.item = item, !.phase = "push",
                                   !.value = v, !.digits = 0])
    /\ UNCHANGED <<uart, stack, stack_idx, garbled>> /\ SerialOnly

\* print_dec and print_hex: the digits are pushed, the last one first.
push_digit(w) ==
    LET j == job[w] IN
    /\ w = Running /\ j.phase = "push" /\ j.value > 0
    /\ stack' = [stack EXCEPT ![stack_idx] = j.value % Base(j.item)]
    /\ stack_idx' = stack_idx + 1
    /\ Steps(w, [j EXCEPT !.value = @ \div Base(j.item), !.digits = @ + 1])
    /\ UNCHANGED <<uart, owed, garbled>> /\ SerialOnly

\* The digits are on the stack; print_hex writes 0x and the leading zeros.
pushed(w) ==
    LET j == job[w]
        prefix == IF j.item.kind = "dec" THEN <<>>
                  ELSE <<Digit(0), Letter>>
                       \o [i \in 1 .. (Bits(j.item) \div 4 - j.digits) |-> Digit(0)]
    IN
    /\ w = Running /\ j.phase = "push" /\ j.value = 0
    /\ Steps(w, [j EXCEPT !.text = prefix, !.phase = IF prefix = <<>> THEN "pop" ELSE "poll"])
    /\ UNCHANGED <<uart, stack, stack_idx, owed, garbled>> /\ SerialOnly

\* Mutant: the index is not moved back.
pop_digit_Stays(w) ==
    LET j == job[w] IN
    /\ w = Running /\ j.phase = "pop" /\ j.digits > 0
    /\ Steps(w, [j EXCEPT !.phase = "read"])
    /\ UNCHANGED <<uart, stack, stack_idx, owed, garbled>> /\ SerialOnly

\* --stack_idx; the element is read one instruction later.
pop_digit(w) ==
    LET j == job[w] IN
    /\ w = Running /\ j.phase = "pop" /\ j.digits > 0
    /\ stack_idx' = stack_idx - 1
    /\ Steps(w, [j EXCEPT !.phase = "read"])
    /\ UNCHANGED <<uart, stack, owed, garbled>> /\ SerialOnly

read_digit(w) ==
    LET j == job[w] IN
    /\ w = Running /\ j.phase = "read"
    /\ Steps(w, [j EXCEPT !.phase = "poll", !.digits = @ - 1,
                          !.text = <<Digit(stack[stack_idx])>>])
    /\ UNCHANGED <<uart, stack, stack_idx, owed, garbled>> /\ SerialOnly

\* Mutant: the FIFO stays off; there is a single holding register.
init_serial_NoFifo(u) == [u EXCEPT !._init = TRUE]

\* The write of 0xC7 to COM1 + 2 turns the FIFO on.  The test byte 0xAE, sent
\* in loopback mode and never on the line, is left out.
init_serial(u) == [u EXCEPT !._init = TRUE, !.depth = FIFO]

\* Bit 5 of the line status: the FIFO, or the holding register, is empty.
is_transmit_empty(u) == u.fifo = 0

\* write_char: the port is initialized, the loop sees the transmitter empty ...
write_char_polls(w) ==
    LET j == job[w]
        u == IF uart._init THEN uart ELSE init_serial(uart)
    IN
    /\ w = Running /\ j.phase = "poll"
    /\ is_transmit_empty(u)
    /\ uart' = u
    /\ Steps(w, [j EXCEPT !.phase = "out"])
    /\ UNCHANGED <<stack, stack_idx, owed, garbled>> /\ SerialOnly

\* ... and the character is sent; it is lost if there is no room any more.
write_char_sends(w) ==
    LET j == job[w]
        rest == Tail(j.text)
        room == uart.fifo < uart.depth
        right == owed[w] # <<>> /\ Head(owed[w]) = Head(j.text)
    IN
    /\ w = Running /\ j.phase = "out"
    /\ uart' = IF room THEN [uart EXCEPT !.fifo = @ + 1] ELSE uart
    /\ garbled' = (garbled \/ ~room \/ ~right)
    /\ owed' = IF right THEN [owed EXCEPT ![w] = Tail(@)] ELSE owed
    /\ Steps(w, [j EXCEPT !.text = rest,
                          !.phase = IF rest # <<>> THEN "poll"
                                    ELSE IF j.digits > 0 THEN "pop" ELSE "format"])
    /\ UNCHANGED <<stack, stack_idx>> /\ SerialOnly

\* The transmitter puts the next character on the wire (external).
Drain ==
    /\ uart.fifo > 0
    /\ uart' = [uart EXCEPT !.fifo = @ - 1]
    /\ UNCHANGED <<stack, stack_idx, job, owed, garbled>> /\ SerialOnly
-----------------------------------------------------------------------------
(* The boot thread. *)

SerialIdle == UNCHANGED <<uart, stack, stack_idx, owed, garbled>>

BootReady(op) ==
    /\ serving = "none" /\ Idle("boot")
    /\ script # <<>> /\ Head(script).op = op

\* A line is given to kprintf or write_str; the VGA's turn comes after it.
BeginLine(op) ==
    /\ BootReady(op)
    /\ Steps("boot", [NoJob EXCEPT !.items = Head(script).items])
    /\ script' = IF op = "announce"
                 THEN <<[Head(script) EXCEPT !.op = "screen"]>> \o Tail(script)
                 ELSE Tail(script)
    /\ UNCHANGED <<vga, pit, serving, sti, _init, interrupts, printed>> /\ SerialIdle

log == BeginLine("log")
announce == BeginLine("announce")

\* v.write_str of the same line, a character at a time; letters are numbered.
announce_screen ==
    /\ BootReady("screen")
    /\ LET n == Head(script).letters IN
        \/ /\ n > 0
           /\ vga' = write_char(vga, Character(printed + 1))
           /\ printed' = printed + 1
           /\ script' = <<[Head(script) EXCEPT !.letters = n - 1]>> \o Tail(script)
        \/ /\ n = 0
           /\ vga' = write_char(vga, NewLine)
           /\ script' = Tail(script) /\ UNCHANGED printed
    /\ UNCHANGED <<pit, job, serving, sti, _init, interrupts>> /\ SerialIdle

enable_interrupts ==
    /\ BootReady("sti")
    /\ sti' = TRUE /\ script' = Tail(script)
    /\ UNCHANGED <<vga, pit, job, serving, _init, interrupts, printed>> /\ SerialIdle

\* timer_pit's constructor, a write at a time.
program_pit ==
    /\ BootReady("pit")
    /\ \E f \in Frequencies :
        LET n == Len(pit.writes) + 1 IN
        /\ n > 1 => f = pit.freq
        /\ pit' = [freq |-> f, writes |-> SubSeq(PIT_Writes(f), 1, n)]
        /\ script' = IF n = Len(PIT_Writes(f)) THEN Tail(script) ELSE script
    /\ UNCHANGED <<vga, job, serving, sti, _init, interrupts, printed>> /\ SerialIdle

\* The keyboard's constructor, see Keyboard.
keyboard ==
    /\ BootReady("keyboard")
    /\ script' = Tail(script)
    /\ UNCHANGED <<vga, pit, job, serving, sti, _init, interrupts, printed>> /\ SerialIdle

enable_scheduling ==
    /\ BootReady("enable_scheduling")
    /\ _init' = TRUE /\ script' = Tail(script)
    /\ UNCHANGED <<vga, pit, job, serving, sti, interrupts, printed>> /\ SerialIdle
-----------------------------------------------------------------------------
(* The handlers. *)

Interrupted(what, text) ==
    /\ serving = "none" /\ sti /\ interrupts < INTERRUPTS
    /\ serving' = what
    /\ interrupts' = interrupts + 1
    /\ Steps("handler", [NoJob EXCEPT !.items = text])
    /\ UNCHANGED <<vga, pit, script, sti, _init, printed>> /\ SerialIdle

\* IRQ 1 with a full queue; nothing is printed before the constructor has run.
keyboard_interrupt ==
    /\ \A i \in DOMAIN script : script[i].op # "keyboard"
    /\ Interrupted("keyboard", KeyboardText)

\* int 0x80 and faults come from programs, which run once scheduling is on.
syscall == _init /\ Interrupted("syscall", SyscallText)
fault == _init /\ Interrupted("fault", FaultText)

\* iret; after a fault isr_handler loops for ever.
HandlerReturns ==
    /\ serving \in {"keyboard", "syscall"} /\ Idle("handler")
    /\ serving' = "none"
    /\ UNCHANGED <<vga, pit, script, job, sti, _init, interrupts, printed>> /\ SerialIdle
-----------------------------------------------------------------------------
Init ==
    /\ uart = [_init |-> FALSE, depth |-> 1, fifo |-> 0]
    /\ stack = [i \in 0 .. (STACK - 1) |-> 0] /\ stack_idx = 0
    /\ vga = OffScreen
    /\ pit = [freq |-> 0, writes |-> <<>>]
    /\ script \in {Kmain, KmainBadMagic}
    /\ job = [w \in Jobs |-> NoJob]
    /\ serving = "none" /\ sti = FALSE /\ _init = FALSE /\ interrupts = 0
    /\ owed = [w \in Jobs |-> <<>>] /\ garbled = FALSE /\ printed = 0

Prints(w) ==
    \/ kprintf(w) \/ push_digit(w) \/ pushed(w) \/ pop_digit(w) \/ read_digit(w)
    \/ write_char_polls(w) \/ write_char_sends(w)

Boots == log \/ announce \/ announce_screen \/ enable_interrupts
         \/ program_pit \/ keyboard \/ enable_scheduling

Next ==
    \/ \E w \in Jobs : Prints(w)
    \/ Drain
    \/ Boots
    \/ keyboard_interrupt \/ syscall \/ fault \/ HandlerReturns

\* The transmitter sends what it holds; handlers run to their end; the boot
\* thread runs whenever no handler does.
Fairness ==
    /\ WF_vars(Drain)
    /\ \A w \in Jobs : WF_vars(Prints(w))
    /\ WF_vars(Boots)
    /\ WF_vars(HandlerReturns)

Spec == Init /\ [][Next]_vars /\ Fairness
-----------------------------------------------------------------------------
(* Properties. *)

TypeOK ==
    /\ stack \in [0 .. (STACK - 1) -> 0 .. 15] /\ stack_idx \in 0 .. (STACK - 1)
    /\ uart \in [_init : BOOLEAN, depth : {1, FIFO}, fifo : 0 .. FIFO]
    /\ uart.fifo <= uart.depth
    /\ serving \in {"none", "keyboard", "syscall", "fault"}
    /\ \A w \in Jobs : job[w].phase \in {"format", "push", "poll", "out", "pop", "read"}
    /\ sti \in BOOLEAN /\ _init \in BOOLEAN /\ garbled \in BOOLEAN

\* What is written to the serial line is, for kmain and for the handlers, what
\* they asked for: no character is lost between the poll of the transmitter
\* and the write that follows it, although a handler may print in between, and
\* every number is read back from the shared digit array as it was put there,
\* so that it has its value, its width and no leading zero in decimal.
LogReadable ==
    /\ ~garbled
    /\ \A w \in Jobs : Idle(w) => owed[w] = <<>>

\* The screen shows the last letters that were announced, in order and without
\* a gap, and no letter was written off it.  write_char returns at a new line
\* before it tests for the end of the screen, so this rests on no announcement
\* holding an empty line.
ScreenShowsTail ==
    /\ ~vga.fault
    /\ InReadingOrder(vga)
    /\ printed > 0 => \E k \in 1 .. printed : Shown(vga) = {Character(n) : n \in k .. printed}

\* kmain gets to its end and all it printed comes out, whatever interrupts
\* come: a program's fault, after which nothing more is executed, comes later.
\* (Faults of kmain itself: see FaultsOnlyIllLaid of AddressSpaces.)
AllPrinted == <>(script = <<>> /\ Idle("boot") /\ uart.fifo = 0)

\* The timer ticks at least as often as it was asked to, and exactly as often
\* if the divisor fits the sixteen bits that are sent of it; for the 10 Hz of
\* kmain it does not.
TickRate ==
    Len(pit.writes) = 3 =>
        LET asked == CLOCK \div pit.freq IN
        /\ Period(pit.writes) <= asked
        /\ asked <= 65535 => Period(pit.writes) = asked
=============================================================================
