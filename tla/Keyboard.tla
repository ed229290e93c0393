------------------------------ MODULE Keyboard ------------------------------
(***************************************************************************)
(* keyboard::Keyboard (src/devices/keyboard.cpp): IRQ 1 puts characters    *)
(* into a queue, getchar takes them out.  The handler runs with interrupts *)
(* off and is one step; the constructor and getchar run with interrupts on *)
(* and the handler can fall between any two of their accesses to memory    *)
(* (the build is -O0: each access is made, in program order).              *)
(*                                                                         *)
(* External: the PS/2 controller holds one byte for port 0x60 and raises   *)
(* IRQ 1 when it puts it there; the keyboard keeps later bytes back until  *)
(* the port has been read.                                                 *)
(***************************************************************************)
EXTENDS Naturals, Sequences

CONSTANTS
    Letters,              \* keys with a character
    special_keys,         \* the modifier keys, each with its column (not 0)
    KEYBOARD_QUEUE_SIZE,
    UINT_MODULUS,         \* 2^32: _read and _idx are uint32_t
    FIFO                  \* bytes the keyboard keeps back

ASSUME KeyboardAssumption ==
    /\ KEYBOARD_QUEUE_SIZE \in Nat \ {0}
    /\ UINT_MODULUS \in Nat /\ UINT_MODULUS > KEYBOARD_QUEUE_SIZE + 1
    /\ FIFO \in Nat \ {0}
    /\ Letters \cap DOMAIN special_keys = {}   \* process_special comes first

Modifiers == DOMAIN special_keys
Keys == Letters \cup Modifiers

VARIABLES
    _init, _idx, _read, _column, _queue,
    ctor,     \* the next statement of the constructor
    pc, reg,  \* the next access of getchar, and the register it works with
    held,     \* external: the keys that are down
    fifo,     \* external: scancodes the keyboard keeps back
    port,     \* external: scancodes in the port, at most one
    irq,      \* external: IRQ 1 is pending
    typed,    \* history: the characters queued since the last flush
    got,      \* history: the characters getchar returned since then
    torn,     \* history: a handler ran where it is not harmless, see Disturbs
    missed    \* history: IRQ 1 was taken before the constructor ran

driver == <<_init, _idx, _read, _column, _queue>>
device == <<held, fifo, port, irq>>
vars == <<driver, ctor, pc, reg, device, typed, got, torn, missed>>

\* A scancode: a key goes down (below 0x80) or up (above 0x80).
Scancode(key, down) == [key |-> key, down |-> down]

\* scancode_columns[scancode][_column]; a character is its place in the table.
Char(key, column) == <<key, column>>

Zero == <<"zero", 0>>          \* what memset leaves in the queue
Garbage == <<"garbage", 0>>    \* a read past the end of the queue

Init ==
    /\ _init = FALSE /\ _idx = 0 /\ _read = 0 /\ _column = 0
    /\ _queue = [i \in 0 .. (KEYBOARD_QUEUE_SIZE - 1) |-> Zero]
    /\ ctor = "start" /\ pc = "none" /\ reg = 0
    /\ held = {} /\ fifo = <<>> /\ port = <<>> /\ irq = FALSE
    /\ typed = <<>> /\ got = <<>> /\ torn = FALSE /\ missed = FALSE
-----------------------------------------------------------------------------
(* The keyboard and its controller (external). *)

KeyDown(k) ==
    /\ k \notin held /\ Len(fifo) < FIFO
    /\ held' = held \cup {k}
    /\ fifo' = Append(fifo, Scancode(k, TRUE))
    /\ UNCHANGED <<driver, ctor, pc, reg, port, irq, typed, got, torn, missed>>

KeyUp(k) ==
    /\ k \in held /\ Len(fifo) < FIFO
    /\ held' = held \ {k}
    /\ fifo' = Append(fifo, Scancode(k, FALSE))
    /\ UNCHANGED <<driver, ctor, pc, reg, port, irq, typed, got, torn, missed>>

\* The next byte moves into the empty port: the edge that raises IRQ 1.
PortFills ==
    /\ port = <<>> /\ fifo # <<>>
    /\ port' = <<Head(fifo)>> /\ fifo' = Tail(fifo)
    /\ irq' = TRUE
    /\ UNCHANGED <<driver, ctor, pc, reg, held, typed, got, torn, missed>>
-----------------------------------------------------------------------------
(* The constructor, statement by statement. *)

ConstructorStep(from, to) ==
    /\ ctor = from /\ ctor' = to
    /\ UNCHANGED <<pc, reg, device, torn, missed>>

ctor_init ==
    /\ ConstructorStep("start", "idx") /\ _init' = TRUE
    /\ UNCHANGED <<_idx, _read, _column, _queue, typed, got>>

ctor_idx ==
    /\ ConstructorStep("idx", "read") /\ _idx' = 0
    /\ typed' = <<>> /\ got' = <<>>
    /\ UNCHANGED <<_init, _read, _column, _queue>>

ctor_read ==
    /\ ConstructorStep("read", "column") /\ _read' = 0
    /\ UNCHANGED <<_init, _idx, _column, _queue, typed, got>>

ctor_column ==
    /\ ConstructorStep("column", "memset") /\ _column' = 0
    /\ UNCHANGED <<_init, _idx, _read, _queue, typed, got>>

ctor_memset ==
    /\ ConstructorStep("memset", "done")
    /\ _queue' = [i \in DOMAIN _queue |-> Zero]
    /\ UNCHANGED <<_init, _idx, _read, _column, typed, got>>
-----------------------------------------------------------------------------
(* keyboard_interrupt_handler. *)

\* A handler disturbs the code it interrupts when it queues a character that
\* the constructor is about to wipe, or flushes between the moment getchar
\* has read _read and the moment it has fetched the character.
Disturbs(flush) ==
    \/ ctor \in {"idx", "read", "column", "memset"}
    \/ flush /\ pc \in {"store", "fetch"}

\* Before the constructor has run the handler does not read the port.
IrqBeforeInit ==
    /\ irq /\ ~_init
    /\ irq' = FALSE /\ missed' = TRUE
    /\ UNCHANGED <<driver, ctor, pc, reg, held, fifo, port, typed, got, torn>>

\* Mutant: the port is left unread when a key goes up.
TakesByte_DownOnly ==
    /\ irq /\ _init
    /\ irq' = FALSE /\ port' = IF port[1].down THEN <<>> ELSE port
    /\ UNCHANGED <<_init, ctor, pc, reg, held, fifo, missed>>

\* inb empties the port.
TakesByte ==
    /\ irq /\ _init
    /\ irq' = FALSE /\ port' = <<>>
    /\ UNCHANGED <<_init, ctor, pc, reg, held, fifo, missed>>

\* Mutant: a modifier that goes up leaves the column as it is.
IrqModifier_Sticks ==
    /\ TakesByte
    /\ port[1].key \in Modifiers
    /\ _column' = IF port[1].down THEN special_keys[port[1].key] ELSE _column
    /\ UNCHANGED <<_idx, _read, _queue, typed, got, torn>>

\* process_special: any modifier that goes up clears the column.
IrqModifier ==
    /\ TakesByte
    /\ port[1].key \in Modifiers
    /\ _column' = IF port[1].down THEN special_keys[port[1].key] ELSE 0
    /\ UNCHANGED <<_idx, _read, _queue, typed, got, torn>>

IrqLetterUp ==
    /\ TakesByte
    /\ port[1].key \in Letters /\ ~port[1].down
    /\ UNCHANGED <<_idx, _read, _column, _queue, typed, got, torn>>

\* Mutant: ">" for ">=".
Full_Late == _idx > KEYBOARD_QUEUE_SIZE

\* Mutant: the flush forgets _read.
FlushedRead_Kept == _read

\* The queue has no room.
Full == _idx >= KEYBOARD_QUEUE_SIZE

\* keyboard_flush starts both counters over.
FlushedRead == IF Full THEN 0 ELSE _read

\* A full queue is flushed, then the character is stored at _idx.
IrqLetterDown ==
    LET at == IF Full THEN 0 ELSE _idx
        c  == Char(port[1].key, _column)
    IN
    /\ TakesByte
    /\ port[1].key \in Letters /\ port[1].down
    /\ _queue' = [_queue EXCEPT ![at] = c]
    /\ _idx' = at + 1
    /\ _read' = FlushedRead
    /\ typed' = IF Full THEN <<c>> ELSE Append(typed, c)
    /\ got' = IF Full THEN <<>> ELSE got
    /\ torn' = (torn \/ Disturbs(Full))
    /\ UNCHANGED _column
-----------------------------------------------------------------------------
(* getchar, access by access. *)

GetcharStep(from, to) ==
    /\ pc = from /\ pc' = to
    /\ UNCHANGED <<_init, _idx, _column, _queue, ctor, device, typed, torn, missed>>

\* Called once the constructor is done.
getchar_call ==
    /\ ctor = "done"
    /\ GetcharStep("none", "load")
    /\ UNCHANGED <<_read, reg, got>>

\* while (_read == _idx): load _read, compare it with _idx.
getchar_load ==
    /\ GetcharStep("load", "compare") /\ reg' = _read
    /\ UNCHANGED <<_read, got>>

getchar_compare ==
    /\ GetcharStep("compare", IF reg = _idx THEN "load" ELSE "reload")
    /\ UNCHANGED <<_read, reg, got>>

\* _queue[_read++]: load _read, store it plus one, fetch the character.
getchar_reload ==
    /\ GetcharStep("reload", "store") /\ reg' = _read
    /\ UNCHANGED <<_read, got>>

getchar_store ==
    /\ GetcharStep("store", "fetch")
    /\ _read' = (reg + 1) % UINT_MODULUS
    /\ UNCHANGED <<reg, got>>

\* The history is kept as long as nothing was torn.
getchar_fetch ==
    /\ GetcharStep("fetch", "none")
    /\ got' = IF torn THEN got
              ELSE Append(got, IF reg \in DOMAIN _queue THEN _queue[reg] ELSE Garbage)
    /\ reg' = 0
    /\ UNCHANGED _read
-----------------------------------------------------------------------------
Handler == IrqBeforeInit \/ IrqModifier \/ IrqLetterUp \/ IrqLetterDown

Constructor == ctor_init \/ ctor_idx \/ ctor_read \/ ctor_column \/ ctor_memset

Getchar ==
    \/ getchar_call \/ getchar_load \/ getchar_compare
    \/ getchar_reload \/ getchar_store \/ getchar_fetch

Next ==
    \/ \E k \in Keys : KeyDown(k) \/ KeyUp(k)
    \/ PortFills
    \/ Handler
    \/ Constructor
    \/ Getchar

\* A pending interrupt is taken, the controller passes bytes on, and kmain
\* goes on to build the keyboard.  Nothing makes anyone type or read.
Spec ==
    /\ Init /\ [][Next]_vars
    /\ WF_vars(Handler) /\ WF_vars(PortFills) /\ WF_vars(Constructor)
-----------------------------------------------------------------------------
(* Properties. *)

Columns == {0} \cup {special_keys[m] : m \in Modifiers}

Chars == (Letters \X Columns) \cup {Zero, Garbage}

Scancodes == [key : Keys, down : BOOLEAN]

TypeOK ==
    /\ _init \in BOOLEAN /\ torn \in BOOLEAN /\ missed \in BOOLEAN /\ irq \in BOOLEAN
    /\ _idx \in 0 .. KEYBOARD_QUEUE_SIZE
    /\ _read \in 0 .. (UINT_MODULUS - 1) /\ reg \in 0 .. (UINT_MODULUS - 1)
    /\ _column \in Columns
    /\ _queue \in [0 .. (KEYBOARD_QUEUE_SIZE - 1) -> Chars]
    /\ ctor \in {"start", "idx", "read", "column", "memset", "done"}
    /\ pc \in {"none", "load", "compare", "reload", "store", "fetch"}
    /\ held \subseteq Keys
    /\ fifo \in Seq(Scancodes) /\ Len(fifo) <= FIFO
    /\ port \in Seq(Scancodes) /\ Len(port) <= 1
    /\ typed \in Seq(Chars) /\ got \in Seq(Chars)

\* Unless a handler hit one of the two windows of Disturbs, getchar returns
\* the characters typed since the last flush, in order, each once: interrupts
\* anywhere else in getchar do no harm.
InOrder ==
    ~torn =>
        /\ Len(typed) = _idx
        /\ Len(got) + (IF pc = "fetch" THEN 1 ELSE 0) = _read
        /\ _read <= _idx
        /\ \A i \in 1 .. Len(got) : got[i] = typed[i]

\* A column other than 0 means that a modifier of that column is down, as soon
\* as the kernel has seen every byte: no modifier sticks after its release.
NoStuckModifier ==
    port = <<>> /\ fifo = <<>> /\ _column # 0 =>
        \E m \in held \cap Modifiers : special_keys[m] = _column

\* Every byte that reaches the port is read, unless an interrupt was taken
\* before the constructor ran.
PortDrains == port # <<>> ~> (port = <<>> \/ missed)

\* After "Queue has been flushed!" (keyboard.cpp:164) the queue is empty and
\* filled from the start: getchar never reads beyond what was typed.
NeverReadsPastEnd == ctor = "done" => _read <= _idx
=============================================================================
