--------------------------- MODULE KeyboardProofs ---------------------------
(***************************************************************************)
(* Proofs about Keyboard, for every queue size, width of the counters, set *)
(* of letters and table of modifiers.                                      *)
(***************************************************************************)
EXTENDS Keyboard, SequenceTheorems, TLAPS

-----------------------------------------------------------------------------
(* The inductive invariant. *)

\* A pending interrupt has its byte in the port.
IrqHasByte == irq => port # <<>>

\* getchar is called only when the constructor is done; until then nothing is
\* queued unless it was torn.
Constructing ==
    /\ ctor # "done" => pc = "none"
    /\ ctor = "start" => ~_init
    /\ ctor # "done" /\ ~torn => typed = <<>> /\ got = <<>> /\ _idx = 0 /\ _read = 0

\* The queue holds what was typed since the last flush.
QueueHoldsTyped ==
    ~torn => /\ Len(typed) = _idx
             /\ \A i \in 1 .. Len(typed) : _queue[i - 1] = typed[i]

\* What getchar knows at each of its accesses: _read moves past a character
\* only if there is one, however stale the value it compared was.
GetcharKnows ==
    ~torn =>
        /\ Len(got) + (IF pc = "fetch" THEN 1 ELSE 0) = _read
        /\ _read <= _idx
        /\ \A i \in 1 .. Len(got) : got[i] = typed[i]
        /\ pc = "compare" => reg = _read \/ _read < _idx
        /\ pc = "reload" => _read < _idx
        /\ pc = "store" => reg = _read /\ reg < _idx
        /\ pc = "fetch" => reg + 1 = _read

\* The bytes of a sequence that are about modifiers.
ModifierAt(s, i) == s[i].key \in Modifiers
HasModifier(s) == \E i \in DOMAIN s : ModifierAt(s, i)
LastModifier(s, i) == ModifierAt(s, i) /\ \A j \in DOMAIN s : j > i => ~ModifierAt(s, j)

\* A modifier whose press is the last thing to be told about modifiers is down.
PressesHeld(s) == \A i \in DOMAIN s : LastModifier(s, i) /\ s[i].down => s[i].key \in held

\* The column is right as soon as nothing is to be told about modifiers.
ColumnHeld ==
    /\ PressesHeld(fifo)
    /\ ~HasModifier(fifo) => PressesHeld(port)
    /\ ~HasModifier(fifo) /\ ~HasModifier(port) /\ _column # 0 =>
            \E m \in held \cap Modifiers : special_keys[m] = _column

IInv ==
    /\ TypeOK
    /\ IrqHasByte
    /\ Constructing
    /\ QueueHoldsTyped
    /\ GetcharKnows
    /\ ColumnHeld
-----------------------------------------------------------------------------
(* Type correctness. *)

LEMMA InitTypeOK == Init => TypeOK
<1> SUFFICES ASSUME Init PROVE TypeOK
  OBVIOUS
<1>1. _queue \in [0 .. (KEYBOARD_QUEUE_SIZE - 1) -> Chars]
  BY DEF Init, Chars
<1>2. _idx \in 0 .. KEYBOARD_QUEUE_SIZE /\ _read \in 0 .. (UINT_MODULUS - 1)
      /\ reg \in 0 .. (UINT_MODULUS - 1)
  BY KeyboardAssumption DEF Init
<1>3. Len(fifo) <= FIFO /\ Len(port) <= 1
  BY KeyboardAssumption DEF Init
<1>4. /\ fifo \in Seq(Scancodes) /\ port \in Seq(Scancodes)
      /\ typed \in Seq(Chars) /\ got \in Seq(Chars)
  BY DEF Init
<1>5. _column \in Columns /\ held \subseteq Keys
  BY DEF Init, Columns
<1>6. /\ _init \in BOOLEAN /\ torn \in BOOLEAN /\ missed \in BOOLEAN /\ irq \in BOOLEAN
      /\ ctor = "start" /\ pc = "none"
  BY DEF Init
<1> QED BY <1>1, <1>2, <1>3, <1>4, <1>5, <1>6 DEF TypeOK

\* What is in the port is a scancode, and the only one.
LEMMA PortByte ==
    ASSUME TypeOK, IrqHasByte, irq
    PROVE  port = <<port[1]>> /\ port[1] \in Scancodes /\ DOMAIN port = {1}
<1>1. port \in Seq(Scancodes) /\ Len(port) <= 1 /\ port # <<>>
  BY DEF TypeOK, IrqHasByte
<1>2. Len(port) = 1
  BY <1>1, EmptySeq
<1> QED BY <1>1, <1>2

LEMMA NextTypeOK == TypeOK /\ IrqHasByte /\ [Next]_vars => TypeOK'
<1> SUFFICES ASSUME TypeOK, IrqHasByte, [Next]_vars PROVE TypeOK'
  OBVIOUS
<1>1. ASSUME NEW k \in Keys, NEW down \in BOOLEAN, Len(fifo) < FIFO
      PROVE  /\ Append(fifo, Scancode(k, down)) \in Seq(Scancodes)
             /\ Len(Append(fifo, Scancode(k, down))) <= FIFO
  <2>1. Scancode(k, down) \in Scancodes
    BY DEF Scancode, Scancodes
  <2> QED BY <1>1, <2>1, KeyboardAssumption DEF TypeOK
<1>2. ASSUME NEW k \in Keys, KeyDown(k) \/ KeyUp(k) PROVE TypeOK'
  BY <1>1, <1>2 DEF TypeOK, KeyDown, KeyUp, driver
<1>3. CASE PortFills
  <2>1. fifo' \in Seq(Scancodes) /\ Len(fifo') <= FIFO
    BY <1>3, KeyboardAssumption DEF TypeOK, PortFills
  <2>2. port' \in Seq(Scancodes) /\ Len(port') <= 1
    BY <1>3 DEF TypeOK, PortFills
  <2> QED BY <1>3, <2>1, <2>2 DEF TypeOK, PortFills, driver
<1>4. CASE IrqBeforeInit
  BY <1>4 DEF TypeOK, IrqBeforeInit, driver
<1>5. CASE IrqModifier
  <2>1. _column' \in Columns
    BY <1>5 DEF IrqModifier, Columns
  <2>2. port' \in Seq(Scancodes) /\ Len(port') <= 1
    BY <1>5 DEF IrqModifier, TakesByte
  <2> QED BY <1>5, <2>1, <2>2 DEF TypeOK, IrqModifier, TakesByte
<1>6. CASE IrqLetterUp
  <2>1. port' \in Seq(Scancodes) /\ Len(port') <= 1
    BY <1>6 DEF IrqLetterUp, TakesByte
  <2> QED BY <1>6, <2>1 DEF TypeOK, IrqLetterUp, TakesByte
<1>7. CASE IrqLetterDown
  <2> DEFINE at == IF Full THEN 0 ELSE _idx
             c == Char(port[1].key, _column)
  <2>1. port' \in Seq(Scancodes) /\ Len(port') <= 1
    BY <1>7 DEF IrqLetterDown, TakesByte
  <2>2. c \in Chars
    BY <1>7 DEF TypeOK, IrqLetterDown, Char, Chars
  <2>3. at \in 0 .. (KEYBOARD_QUEUE_SIZE - 1)
    BY KeyboardAssumption DEF TypeOK, Full
  <2>4. /\ _queue' = [_queue EXCEPT ![at] = c] /\ _idx' = at + 1
        /\ typed' = IF Full THEN <<c>> ELSE Append(typed, c)
        /\ got' = IF Full THEN <<>> ELSE got
        /\ _read' = IF Full THEN 0 ELSE _read
        /\ torn' = (torn \/ Disturbs(Full))
    BY <1>7 DEF IrqLetterDown, FlushedRead
  <2> HIDE DEF at, c
  <2>5. _queue' \in [0 .. (KEYBOARD_QUEUE_SIZE - 1) -> Chars]
    BY <2>2, <2>3, <2>4 DEF TypeOK
  <2>6. _idx' \in 0 .. KEYBOARD_QUEUE_SIZE /\ _read' \in 0 .. (UINT_MODULUS - 1)
    BY <2>3, <2>4, KeyboardAssumption DEF TypeOK
  <2>7. typed' \in Seq(Chars) /\ got' \in Seq(Chars)
    BY <2>2, <2>4 DEF TypeOK
  <2>8. torn' \in BOOLEAN
    BY <2>4 DEF TypeOK, Disturbs
  <2> QED BY <1>7, <2>1, <2>5, <2>6, <2>7, <2>8 DEF TypeOK, IrqLetterDown, TakesByte
<1>8. CASE Constructor
  <2>1. _column' \in Columns /\ _idx' \in 0 .. KEYBOARD_QUEUE_SIZE
        /\ _read' \in 0 .. (UINT_MODULUS - 1)
    BY <1>8, KeyboardAssumption
       DEF TypeOK, Columns, Constructor, ctor_init, ctor_idx, ctor_read, ctor_column,
           ctor_memset
  <2>2. _queue' \in [0 .. (KEYBOARD_QUEUE_SIZE - 1) -> Chars]
    BY <1>8 DEF TypeOK, Chars, Constructor, ctor_init, ctor_idx, ctor_read, ctor_column,
                ctor_memset
  <2>3. typed' \in Seq(Chars) /\ got' \in Seq(Chars)
    <3>1. CASE ctor_idx
      BY <3>1 DEF ctor_idx
    <3>2. CASE UNCHANGED <<typed, got>>
      BY <3>2 DEF TypeOK
    <3> QED BY <1>8, <3>1, <3>2
               DEF Constructor, ctor_init, ctor_read, ctor_column, ctor_memset
  <2>4. ctor' \in {"start", "idx", "read", "column", "memset", "done"} /\ _init' \in BOOLEAN
        /\ UNCHANGED <<pc, reg, device, torn, missed>>
    BY <1>8 DEF TypeOK, Constructor, ctor_init, ctor_idx, ctor_read, ctor_column,
                ctor_memset, ConstructorStep
  <2> QED BY <2>1, <2>2, <2>3, <2>4 DEF TypeOK, device
<1>9. CASE Getchar
  <2>1. pc' \in {"none", "load", "compare", "reload", "store", "fetch"}
        /\ UNCHANGED <<_init, _idx, _column, _queue, ctor, device, typed, torn, missed>>
    BY <1>9 DEF Getchar, getchar_call, getchar_load, getchar_compare, getchar_reload,
                getchar_store, getchar_fetch, GetcharStep
  <2>2. reg' \in 0 .. (UINT_MODULUS - 1) /\ _read' \in 0 .. (UINT_MODULUS - 1)
    BY <1>9, KeyboardAssumption
       DEF TypeOK, Getchar, getchar_call, getchar_load, getchar_compare, getchar_reload,
           getchar_store, getchar_fetch
  <2>3. got' \in Seq(Chars)
    <3>1. (IF reg \in DOMAIN _queue THEN _queue[reg] ELSE Garbage) \in Chars
      BY DEF TypeOK, Chars
    <3>2. CASE getchar_fetch
      BY <3>1, <3>2 DEF TypeOK, getchar_fetch
    <3>3. CASE UNCHANGED got
      BY <3>3 DEF TypeOK
    <3> QED BY <1>9, <3>2, <3>3
               DEF Getchar, getchar_call, getchar_load, getchar_compare, getchar_reload,
                   getchar_store
  <2> QED BY <2>1, <2>2, <2>3 DEF TypeOK, device
<1>10. CASE UNCHANGED vars
  BY <1>10 DEF TypeOK, vars, driver, device
<1> QED BY <1>2, <1>3, <1>4, <1>5, <1>6, <1>7, <1>8, <1>9, <1>10 DEF Next, Handler
-----------------------------------------------------------------------------
(* The constructor, the handler and getchar. *)

LEMMA NextIrqHasByte == TypeOK /\ IrqHasByte /\ [Next]_vars => IrqHasByte'
<1> SUFFICES ASSUME TypeOK, IrqHasByte, [Next]_vars PROVE IrqHasByte'
  OBVIOUS
<1>1. CASE PortFills
  BY <1>1 DEF PortFills, IrqHasByte
<1>2. CASE Handler
  BY <1>2 DEF Handler, IrqBeforeInit, IrqModifier, IrqLetterUp, IrqLetterDown, TakesByte,
              IrqHasByte
<1>3. CASE UNCHANGED <<port, irq>>
  BY <1>3 DEF IrqHasByte
<1> QED
  BY <1>1, <1>2, <1>3
     DEF Next, KeyDown, KeyUp, Constructor, ctor_init, ctor_idx, ctor_read, ctor_column,
         ctor_memset, ConstructorStep, Getchar, getchar_call, getchar_load,
         getchar_compare, getchar_reload, getchar_store, getchar_fetch, GetcharStep,
         vars, device

LEMMA NextConstructing == IInv /\ [Next]_vars => Constructing'
<1> SUFFICES ASSUME IInv, [Next]_vars PROVE Constructing'
  OBVIOUS
<1> USE DEF IInv, Constructing
<1>1. CASE IrqLetterDown
  BY <1>1 DEF IrqLetterDown, TakesByte, Disturbs, TypeOK
<1>2. CASE Constructor
  BY <1>2 DEF Constructor, ctor_init, ctor_idx, ctor_read, ctor_column, ctor_memset,
              ConstructorStep
<1>3. CASE Getchar
  BY <1>3 DEF Getchar, getchar_call, getchar_load, getchar_compare, getchar_reload,
              getchar_store, getchar_fetch, GetcharStep
<1>4. CASE UNCHANGED <<ctor, pc, _init, torn, typed, got, _idx, _read>>
  BY <1>4
<1> QED
  BY <1>1, <1>2, <1>3, <1>4
     DEF Next, Handler, KeyDown, KeyUp, PortFills, IrqBeforeInit, IrqModifier,
         IrqLetterUp, TakesByte, vars, driver

LEMMA NextQueueHoldsTyped == IInv /\ [Next]_vars => QueueHoldsTyped'
<1> SUFFICES ASSUME IInv, [Next]_vars, ~torn'
             PROVE  /\ Len(typed') = _idx'
                    /\ \A i \in 1 .. Len(typed') : _queue'[i - 1] = typed'[i]
  BY DEF QueueHoldsTyped
<1>1. CASE IrqLetterDown
  <2> DEFINE c == Char(port[1].key, _column)
  <2>0. /\ ~torn /\ ctor \in {"start", "done"} /\ _init
        /\ Len(typed) = _idx /\ typed \in Seq(Chars)
        /\ \A i \in 1 .. Len(typed) : _queue[i - 1] = typed[i]
        /\ DOMAIN _queue = 0 .. (KEYBOARD_QUEUE_SIZE - 1)
        /\ _idx \in 0 .. KEYBOARD_QUEUE_SIZE
    BY <1>1 DEF IrqLetterDown, TakesByte, Disturbs, IInv, TypeOK, QueueHoldsTyped
  <2>1. CASE Full
    <3>1. _queue' = [_queue EXCEPT ![0] = c] /\ typed' = <<c>> /\ _idx' = 1
      BY <1>1, <2>1 DEF IrqLetterDown
    <3> HIDE DEF c
    <3> QED BY <2>0, <3>1, KeyboardAssumption
  <2>2. CASE ~Full
    <3>1. _queue' = [_queue EXCEPT ![_idx] = c] /\ typed' = Append(typed, c)
          /\ _idx' = _idx + 1
      BY <1>1, <2>2 DEF IrqLetterDown
    <3>2. _idx \in 0 .. (KEYBOARD_QUEUE_SIZE - 1)
      BY <2>0, <2>2, KeyboardAssumption DEF Full
    <3> HIDE DEF c
    <3>3. Len(typed') = _idx + 1 /\ typed'[_idx + 1] = c
      BY <2>0, <3>1
    <3>4. ASSUME NEW i \in 1 .. Len(typed), i # _idx + 1
          PROVE  _queue'[i - 1] = typed'[i]
      <4>1. i - 1 \in 0 .. (KEYBOARD_QUEUE_SIZE - 1) /\ i - 1 # _idx
        BY <2>0, <3>2, <3>4, KeyboardAssumption
      <4>2. typed'[i] = typed[i]
        BY <2>0, <3>1, <3>4
      <4> QED BY <2>0, <3>1, <3>4, <4>1, <4>2
    <3>5. _queue'[_idx] = c
      BY <2>0, <3>1, <3>2
    <3>6. ASSUME NEW i \in 1 .. Len(typed')
          PROVE  _queue'[i - 1] = typed'[i]
      <4>1. CASE i = _idx + 1
        <5>1. i - 1 = _idx
          BY <2>0, <4>1
        <5> QED BY <3>3, <3>5, <4>1, <5>1
      <4>2. CASE i # _idx + 1
        <5>1. i \in 1 .. Len(typed)
          BY <2>0, <3>3, <4>2
        <5> QED BY <3>4, <4>2, <5>1
      <4> QED BY <4>1, <4>2
    <3> QED BY <3>1, <3>3, <3>6
  <2> QED BY <2>1, <2>2
<1>2. CASE ctor_idx \/ ctor_memset
  <2>1. ~torn /\ typed = <<>> /\ _idx = 0
    BY <1>2 DEF ctor_idx, ctor_memset, ConstructorStep, IInv, Constructing
  <2>2. typed' = <<>> /\ _idx' = 0
    BY <1>2, <2>1 DEF ctor_idx, ctor_memset
  <2> QED BY <2>2
<1>3. CASE UNCHANGED <<_queue, typed, _idx, torn>>
  BY <1>3 DEF IInv, QueueHoldsTyped
<1> QED
  BY <1>1, <1>2, <1>3
     DEF Next, Handler, KeyDown, KeyUp, PortFills, IrqBeforeInit, IrqModifier,
         IrqLetterUp, TakesByte, Constructor, ctor_init, ctor_read, ctor_column,
         ConstructorStep, Getchar, getchar_call, getchar_load, getchar_compare,
         getchar_reload, getchar_store, getchar_fetch, GetcharStep, vars, driver

LEMMA NextGetcharKnows == IInv /\ [Next]_vars => GetcharKnows'
<1> SUFFICES ASSUME IInv, [Next]_vars, ~torn' PROVE GetcharKnows'
  BY DEF GetcharKnows
<1>0. /\ _idx \in 0 .. KEYBOARD_QUEUE_SIZE
      /\ _read \in 0 .. (UINT_MODULUS - 1) /\ reg \in 0 .. (UINT_MODULUS - 1)
      /\ typed \in Seq(Chars) /\ got \in Seq(Chars)
      /\ DOMAIN _queue = 0 .. (KEYBOARD_QUEUE_SIZE - 1)
  BY DEF IInv, TypeOK
<1>00. ASSUME ~torn
       PROVE  /\ Len(typed) = _idx
              /\ \A i \in 1 .. Len(typed) : _queue[i - 1] = typed[i]
              /\ Len(got) + (IF pc = "fetch" THEN 1 ELSE 0) = _read
              /\ _read <= _idx
              /\ \A i \in 1 .. Len(got) : got[i] = typed[i]
              /\ pc = "compare" => reg = _read \/ _read < _idx
              /\ pc = "reload" => _read < _idx
              /\ pc = "store" => reg = _read /\ reg < _idx
              /\ pc = "fetch" => reg + 1 = _read
  BY <1>00 DEF IInv, QueueHoldsTyped, GetcharKnows
<1>1. CASE IrqLetterDown
  <2> DEFINE c == Char(port[1].key, _column)
  <2>1. ~torn /\ UNCHANGED <<pc, reg>> /\ (Full => pc \notin {"store", "fetch"})
    BY <1>1 DEF IrqLetterDown, TakesByte, Disturbs
  <2>2. CASE Full
    <3>1. typed' = <<c>> /\ got' = <<>> /\ _idx' = 1 /\ _read' = 0
      BY <1>1, <2>2 DEF IrqLetterDown, FlushedRead
    <3> HIDE DEF c
    <3> QED BY <2>1, <2>2, <3>1 DEF GetcharKnows
  <2>3. CASE ~Full
    <3>1. typed' = Append(typed, c) /\ got' = got /\ _idx' = _idx + 1 /\ _read' = _read
      BY <1>1, <2>3 DEF IrqLetterDown, FlushedRead
    <3> HIDE DEF c
    <3>2. \A i \in 1 .. Len(got) : got'[i] = typed'[i]
      <4>1. \A i \in 1 .. Len(typed) : typed'[i] = typed[i]
        BY <1>0, <3>1
      <4>2. 1 .. Len(got) \subseteq 1 .. Len(typed)
        BY <1>0, <1>00, <2>1
      <4> QED BY <1>00, <2>1, <3>1, <4>1, <4>2
    <3>3. /\ pc' = "compare" => reg' = _read' \/ _read' < _idx'
          /\ pc' = "reload" => _read' < _idx'
          /\ pc' = "store" => reg' = _read' /\ reg' < _idx'
          /\ pc' = "fetch" => reg' + 1 = _read'
          /\ _read' <= _idx'
      BY <1>0, <1>00, <2>1, <3>1
    <3> QED BY <1>00, <2>1, <3>1, <3>2, <3>3 DEF GetcharKnows
  <2> QED BY <2>2, <2>3
<1>2. CASE Constructor
  <2>1. /\ ~torn /\ pc = "none" /\ typed = <<>> /\ got = <<>> /\ _idx = 0 /\ _read = 0
        /\ pc' = "none"
    BY <1>2 DEF Constructor, ctor_init, ctor_idx, ctor_read, ctor_column, ctor_memset,
                ConstructorStep, IInv, Constructing
  <2>2. got' = <<>> /\ typed' = <<>> /\ _idx' = 0 /\ _read' = 0
    BY <1>2, <2>1 DEF Constructor, ctor_init, ctor_idx, ctor_read, ctor_column, ctor_memset
  <2> QED BY <2>1, <2>2 DEF GetcharKnows
<1>3. CASE getchar_call
  BY <1>00, <1>3 DEF getchar_call, GetcharStep, GetcharKnows
<1>4. CASE getchar_load
  BY <1>00, <1>4 DEF getchar_load, GetcharStep, GetcharKnows
<1>5. CASE getchar_compare
  <2>1. ~torn /\ pc = "compare" /\ UNCHANGED <<_idx, typed, _read, reg, got>>
        /\ pc' = IF reg = _idx THEN "load" ELSE "reload"
    BY <1>5 DEF getchar_compare, GetcharStep
  <2>2. pc' = "reload" => _read < _idx
    BY <1>0, <1>00, <2>1
  <2> QED BY <1>00, <2>1, <2>2 DEF GetcharKnows
<1>6. CASE getchar_reload
  BY <1>00, <1>6 DEF getchar_reload, GetcharStep, GetcharKnows
<1>7. CASE getchar_store
  <2>1. ~torn /\ pc = "store" /\ pc' = "fetch" /\ UNCHANGED <<_idx, typed, reg, got>>
        /\ _read' = (reg + 1) % UINT_MODULUS
    BY <1>7 DEF getchar_store, GetcharStep
  <2>2. (reg + 1) % UINT_MODULUS = reg + 1
    <3>1. reg + 1 \in 0 .. (UINT_MODULUS - 1)
      BY <1>0, <1>00, <2>1, KeyboardAssumption
    <3> QED BY <3>1, KeyboardAssumption
  <2>3. _read' = reg + 1 /\ _read' <= _idx /\ Len(got) + 1 = _read'
    BY <1>0, <1>00, <2>1, <2>2
  <2> QED BY <1>00, <2>1, <2>3 DEF GetcharKnows
<1>8. CASE getchar_fetch
  <2>1. ~torn /\ pc = "fetch" /\ pc' = "none" /\ UNCHANGED <<_idx, typed, _read>>
        /\ got' = Append(got, IF reg \in DOMAIN _queue THEN _queue[reg] ELSE Garbage)
    BY <1>8 DEF getchar_fetch, GetcharStep
  <2>2. reg = Len(got) /\ reg \in 0 .. (KEYBOARD_QUEUE_SIZE - 1)
        /\ Len(got) + 1 \in 1 .. Len(typed) /\ _read = Len(got) + 1
    BY <1>0, <1>00, <2>1, KeyboardAssumption
  <2>3. _queue[reg] = typed[Len(got) + 1]
    <3>1. (Len(got) + 1) - 1 = reg
      BY <1>0, <2>2
    <3> QED BY <1>00, <2>1, <2>2, <3>1
  <2>4. got' = Append(got, typed[Len(got) + 1])
    BY <1>0, <2>1, <2>2, <2>3
  <2>5. Len(got') = Len(got) + 1
    BY <1>0, <2>4
  <2>6. \A i \in 1 .. Len(got') : got'[i] = typed[i]
    BY <1>0, <1>00, <2>1, <2>4, <2>5
  <2> QED BY <1>00, <2>1, <2>2, <2>5, <2>6 DEF GetcharKnows
<1>9. CASE UNCHANGED <<torn, typed, got, pc, reg, _idx, _read>>
  BY <1>9 DEF IInv, GetcharKnows
<1> QED
  BY <1>1, <1>2, <1>3, <1>4, <1>5, <1>6, <1>7, <1>8, <1>9
     DEF Next, Handler, KeyDown, KeyUp, PortFills, IrqBeforeInit, IrqModifier,
         IrqLetterUp, TakesByte, Getchar, vars, driver
-----------------------------------------------------------------------------
(* The modifiers. *)

LEMMA NextColumnHeld == IInv /\ [Next]_vars => ColumnHeld'
<1> SUFFICES ASSUME IInv, [Next]_vars PROVE ColumnHeld'
  OBVIOUS
<1>0. fifo \in Seq(Scancodes) /\ port \in Seq(Scancodes)
  BY DEF IInv, TypeOK
<1>00. /\ PressesHeld(fifo)
       /\ ~HasModifier(fifo) => PressesHeld(port)
       /\ ~HasModifier(fifo) /\ ~HasModifier(port) /\ _column # 0 =>
            \E m \in held \cap Modifiers : special_keys[m] = _column
  BY DEF IInv, ColumnHeld
<1>1. ASSUME NEW k \in Keys, NEW down \in BOOLEAN,
             fifo' = Append(fifo, Scancode(k, down)),
             held' = IF down THEN held \cup {k} ELSE held \ {k},
             UNCHANGED <<port, _column>>
      PROVE  ColumnHeld'
  <2>1. /\ Len(fifo') = Len(fifo) + 1 /\ Len(fifo) \in Nat
        /\ DOMAIN fifo = 1 .. Len(fifo) /\ DOMAIN fifo' = 1 .. (Len(fifo) + 1)
        /\ fifo'[Len(fifo) + 1].key = k /\ fifo'[Len(fifo) + 1].down = down
        /\ \A i \in DOMAIN fifo : fifo'[i] = fifo[i]
    BY <1>0, <1>1 DEF Scancode
  <2>2. CASE k \in Modifiers
    <3>1. HasModifier(fifo')
      BY <2>1, <2>2 DEF HasModifier, ModifierAt
    <3>2. ASSUME NEW i \in DOMAIN fifo', LastModifier(fifo', i) PROVE i = Len(fifo) + 1
      <4>1. ModifierAt(fifo', Len(fifo) + 1)
        BY <2>1, <2>2 DEF ModifierAt
      <4>2. ~ (Len(fifo) + 1 > i)
        BY <2>1, <3>2, <4>1 DEF LastModifier
      <4> QED BY <2>1, <3>2, <4>2
    <3>3. PressesHeld(fifo)'
      BY <1>1, <2>1, <3>2 DEF PressesHeld
    <3> QED BY <3>1, <3>3 DEF ColumnHeld
  <2>3. CASE k \notin Modifiers
    <3>1. HasModifier(fifo') <=> HasModifier(fifo)
      BY <2>1, <2>3 DEF HasModifier, ModifierAt
    <3>2. held' \cap Modifiers = held \cap Modifiers
      BY <1>1, <2>3
    <3>3. ASSUME NEW i \in DOMAIN fifo', LastModifier(fifo', i), fifo'[i].down
          PROVE  fifo'[i].key \in held'
      <4>1. i \in DOMAIN fifo /\ fifo'[i] = fifo[i] /\ fifo'[i].key \in Modifiers
        BY <2>1, <2>3, <3>3 DEF LastModifier, ModifierAt
      <4>2. LastModifier(fifo, i)
        BY <2>1, <3>3, <4>1 DEF LastModifier, ModifierAt
      <4>3. fifo[i].key \in held
        BY <1>00, <3>3, <4>1, <4>2 DEF PressesHeld
      <4> QED BY <3>2, <4>1, <4>3
    <3>4. PressesHeld(fifo)'
      BY <3>3 DEF PressesHeld
    <3>5. ~HasModifier(fifo') => PressesHeld(port)'
      <4> SUFFICES ASSUME ~HasModifier(fifo'), NEW i \in DOMAIN port, LastModifier(port, i),
                          port[i].down
                   PROVE  port[i].key \in held'
        BY <1>1 DEF PressesHeld
      <4>1. port[i].key \in held /\ port[i].key \in Modifiers
        BY <1>00, <3>1 DEF PressesHeld, LastModifier, ModifierAt
      <4> QED BY <3>2, <4>1
    <3> QED BY <1>00, <1>1, <3>1, <3>2, <3>4, <3>5 DEF ColumnHeld
  <2> QED BY <2>2, <2>3
<1>2. ASSUME NEW k \in Keys, KeyDown(k) PROVE ColumnHeld'
  <2>1. fifo' = Append(fifo, Scancode(k, TRUE)) /\ held' = held \cup {k}
        /\ UNCHANGED <<port, _column>>
    BY <1>2 DEF KeyDown, driver
  <2> QED BY <1>1, <2>1
<1>3. ASSUME NEW k \in Keys, KeyUp(k) PROVE ColumnHeld'
  <2>1. fifo' = Append(fifo, Scancode(k, FALSE)) /\ held' = held \ {k}
        /\ UNCHANGED <<port, _column>>
    BY <1>3 DEF KeyUp, driver
  <2> QED BY <1>1, <2>1
<1>4. CASE PortFills
  <2>1. /\ port = <<>> /\ fifo # <<>> /\ port' = <<Head(fifo)>> /\ fifo' = Tail(fifo)
        /\ UNCHANGED <<held, _column>>
    BY <1>4 DEF PortFills, driver
  <2>2. Len(fifo) \in Nat \ {0} /\ DOMAIN fifo = 1 .. Len(fifo)
    BY <1>0, <2>1, EmptySeq
  <2>3. /\ DOMAIN fifo' = 1 .. (Len(fifo) - 1)
        /\ \A i \in 1 .. (Len(fifo) - 1) : fifo'[i] = fifo[i + 1]
        /\ DOMAIN port' = {1} /\ port'[1] = fifo[1]
    BY <1>0, <2>1, <2>2
  <2> HIDE DEF HasModifier, PressesHeld, LastModifier, ModifierAt
  <2>4. PressesHeld(fifo)'
    <3> SUFFICES ASSUME NEW i \in 1 .. (Len(fifo) - 1), LastModifier(fifo', i), fifo'[i].down
                 PROVE  fifo'[i].key \in held
      BY <2>1, <2>3 DEF PressesHeld
    <3>1. i + 1 \in DOMAIN fifo /\ fifo'[i] = fifo[i + 1]
      BY <2>2, <2>3
    <3>2. ASSUME NEW j \in DOMAIN fifo, j > i + 1 PROVE ~ModifierAt(fifo, j)
      <4>1. j - 1 \in 1 .. (Len(fifo) - 1) /\ j - 1 > i /\ (j - 1) + 1 = j
        BY <2>2, <3>2
      <4>2. fifo'[j - 1] = fifo[j]
        BY <2>3, <4>1
      <4> QED BY <2>3, <4>1, <4>2 DEF LastModifier, ModifierAt
    <3>3. LastModifier(fifo, i + 1)
      BY <3>1, <3>2 DEF LastModifier, ModifierAt
    <3> QED BY <1>00, <3>1, <3>3 DEF PressesHeld
  <2>5. ASSUME ~HasModifier(fifo') PROVE \A j \in DOMAIN fifo : j > 1 => ~ModifierAt(fifo, j)
    <3> SUFFICES ASSUME NEW j \in DOMAIN fifo, j > 1 PROVE ~ModifierAt(fifo, j)
      OBVIOUS
    <3>1. j - 1 \in 1 .. (Len(fifo) - 1) /\ (j - 1) + 1 = j
      BY <2>2
    <3>2. fifo'[j - 1] = fifo[j]
      BY <2>3, <3>1
    <3> QED BY <2>3, <2>5, <3>1, <3>2 DEF HasModifier, ModifierAt
  <2>6. ASSUME ~HasModifier(fifo') PROVE PressesHeld(port)'
    <3> SUFFICES ASSUME LastModifier(port', 1), port'[1].down PROVE port'[1].key \in held
      BY <2>1, <2>3 DEF PressesHeld
    <3>1. LastModifier(fifo, 1) /\ 1 \in DOMAIN fifo
      BY <2>2, <2>3, <2>5, <2>6 DEF LastModifier, ModifierAt
    <3> QED BY <1>00, <2>3, <3>1 DEF PressesHeld
  <2>7. ASSUME ~HasModifier(fifo'), ~HasModifier(port')
        PROVE  ~HasModifier(fifo) /\ ~HasModifier(port)
    <3>1. ~ModifierAt(fifo, 1)
      BY <2>3, <2>7 DEF HasModifier, ModifierAt
    <3>2. ~HasModifier(fifo)
      BY <2>2, <2>5, <2>7, <3>1 DEF HasModifier
    <3> QED BY <2>1, <3>2 DEF HasModifier
  <2> QED BY <1>00, <2>1, <2>4, <2>6, <2>7 DEF ColumnHeld
<1>5. ASSUME TakesByte PROVE port = <<port[1]>> /\ DOMAIN port = {1} /\ port' = <<>>
                             /\ UNCHANGED <<held, fifo>>
  BY <1>5, PortByte DEF TakesByte, IInv
<1>6. CASE IrqModifier
  <2>1. TakesByte /\ port[1].key \in Modifiers
        /\ _column' = IF port[1].down THEN special_keys[port[1].key] ELSE 0
    BY <1>6 DEF IrqModifier
  <2>2. PressesHeld(fifo)' /\ PressesHeld(port)'
    BY <1>00, <1>5, <2>1 DEF PressesHeld
  <2>3. ASSUME ~HasModifier(fifo'), _column' # 0
        PROVE  \E m \in held' \cap Modifiers : special_keys[m] = _column'
    <3>1. PressesHeld(port) /\ port[1].down
      BY <1>00, <1>5, <2>1, <2>3
    <3>2. LastModifier(port, 1)
      BY <1>5, <2>1 DEF LastModifier, ModifierAt
    <3>3. port[1].key \in held
      BY <1>5, <2>1, <3>1, <3>2 DEF PressesHeld
    <3> QED BY <1>5, <2>1, <3>1, <3>3
  <2> QED BY <2>2, <2>3 DEF ColumnHeld
<1>7. CASE IrqLetterUp \/ IrqLetterDown
  <2>1. TakesByte /\ port[1].key \in Letters /\ _column' = _column
    BY <1>7 DEF IrqLetterUp, IrqLetterDown
  <2>2. ~HasModifier(port)
    BY <1>5, <2>1, KeyboardAssumption DEF HasModifier, ModifierAt, Modifiers
  <2>3. PressesHeld(fifo)' /\ PressesHeld(port)'
    BY <1>00, <1>5, <2>1 DEF PressesHeld
  <2> QED BY <1>00, <1>5, <2>1, <2>2, <2>3 DEF ColumnHeld
<1>8. CASE ctor_column
  <2>1. _column' = 0 /\ UNCHANGED <<held, fifo, port>>
    BY <1>8 DEF ctor_column, ConstructorStep, device
  <2> QED BY <1>00, <2>1 DEF ColumnHeld, PressesHeld
<1>9. CASE UNCHANGED <<held, fifo, port, _column>>
  BY <1>00, <1>9 DEF ColumnHeld, PressesHeld
<1> QED
  BY <1>2, <1>3, <1>4, <1>6, <1>7, <1>8, <1>9
     DEF Next, Handler, IrqBeforeInit, Constructor, ctor_init, ctor_idx, ctor_read,
         ctor_memset, ConstructorStep, Getchar, getchar_call, getchar_load,
         getchar_compare, getchar_reload, getchar_store, getchar_fetch, GetcharStep,
         vars, driver, device
-----------------------------------------------------------------------------
(* The theorems. *)

LEMMA InitIInv == Init => IInv
<1> SUFFICES ASSUME Init PROVE IInv
  OBVIOUS
<1>1. TypeOK
  BY InitTypeOK
<1>2. IrqHasByte /\ Constructing
  BY DEF Init, IrqHasByte, Constructing
<1>3. QueueHoldsTyped /\ GetcharKnows
  BY DEF Init, QueueHoldsTyped, GetcharKnows
<1>4. ColumnHeld
  BY DEF Init, ColumnHeld, PressesHeld, HasModifier
<1> QED BY <1>1, <1>2, <1>3, <1>4 DEF IInv

\* Everything of IInv is kept together: TypeOK needs IrqHasByte (the handler
\* reads the port without looking whether a byte is there), and each later
\* conjunct needs the ones before it.
LEMMA Inductive == Spec => []IInv
<1>1. IInv /\ [Next]_vars => IInv'
  BY NextTypeOK, NextIrqHasByte, NextConstructing, NextQueueHoldsTyped, NextGetcharKnows,
     NextColumnHeld DEF IInv
<1> QED BY InitIInv, <1>1, PTL DEF Spec

\* Every variable keeps its type; in particular _idx never passes the end of
\* _queue, and a handler that runs finds a scancode in the port.
THEOREM TypeCorrect == Spec => []TypeOK
<1>1. IInv => TypeOK
  BY DEF IInv
<1> QED BY Inductive, <1>1, PTL

\* Whatever the size of the queue and wherever the handler falls in getchar,
\* outside the two windows of Disturbs getchar returns the characters typed
\* since the last flush, in order and each once.
THEOREM InOrderHolds == Spec => []InOrder
<1>1. IInv => InOrder
  BY DEF IInv, InOrder, QueueHoldsTyped, GetcharKnows
<1> QED BY Inductive, <1>1, PTL

\* Whatever the table of modifiers and however far the kernel lags behind the
\* keys, once it has read every byte the column is 0 or that of a modifier
\* that is down.
THEOREM NoStuckModifierHolds == Spec => []NoStuckModifier
<1>1. IInv => NoStuckModifier
  BY DEF IInv, NoStuckModifier, ColumnHeld, HasModifier
<1> QED BY Inductive, <1>1, PTL
=============================================================================
