---------------------------- MODULE TrapsProofs -----------------------------
(***************************************************************************)
(* Proofs about Traps, for every number of processes, all interrupt lines  *)
(* and all vectors.                                                        *)
(***************************************************************************)
EXTENDS Traps, FiniteSetTheorems, SequenceTheorems, TLAPS

-----------------------------------------------------------------------------
(* The inductive invariant. *)

\* Whose computation slot i is for, and whose is being executed: see
\* SchedulerProofs.
Slot(i) == IF i = 1 THEN Boot ELSE processes[i]
Runs == IF current = 0 THEN Boot ELSE Slot(current)

\* The two words above a frame of the boot thread, which the struct has in the
\* fields ss and esp: kmain's call, or its arguments once it has returned.
Beneath(r) ==
    IF progress[Boot] = Idle THEN (IF r = "ss" THEN Magic ELSE Mbd)
    ELSE IF r = "ss" THEN <<"return", Boot, 0>> ELSE <<"locals", Boot, 0>>

\* What a struct interrupt_state of w has in the registers' fields.
InStruct(w, r) == IF w = Boot /\ r \in {"ss", "esp"} THEN Beneath(r) ELSE Expected(w)[r]
Holds(s, w) == \A r \in Registers : s[r] = InStruct(w, r)

NoDuplicates ==
    \A i, j \in DOMAIN processes : processes[i] = processes[j] => i = j

\* The processor, or the frame of the running handler, is the current slot's.
CurrentRuns ==
    /\ current = 0 <=> processes = <<>>
    /\ stage = "none" => \A r \in Registers : cpu[r] = Expected(Runs)[r]
    /\ stage # "none" => Holds(State, Runs)

\* The other slots hold their computation.
OthersSaved ==
    \A i \in DOMAIN processes : i # current => Holds(regs[processes[i]], Slot(i))

\* A program that has no process yet has not run; kmain calls nothing.
NotStarted ==
    /\ \A p \in Processes \ Range(processes) : progress[p] = 0 /\ ~awaits[p]
    /\ ~awaits[Boot] /\ progress[Boot] \in {Kmain, Idle}

\* The stack in use: when the boot thread executes, kmain's or two words; in a
\* handler, a struct, and below it kmain's arguments if they were not part of it.
StackShape ==
    /\ stage = "none" /\ Runs = Boot =>
        \/ Len(kstack) = 2 /\ kstack[1] = Beneath("ss") /\ kstack[2] = Beneath("esp")
        \/ progress[Boot] = Kmain /\ kstack = KmainStack
    /\ stage # "none" => Len(kstack) \in {14, 16}
    /\ stage # "none" /\ Len(kstack) = 16 =>
        progress[Boot] = Kmain /\ kstack[1] = Magic /\ kstack[2] = Mbd
    /\ stage \in {"isr", "irq"} /\ Runs # Boot => Len(kstack) = 14
    /\ stage = "isr" => Runs # Boot
    /\ stage = "irq" => State["interrupt_number"][3] \in Lines

IInv ==
    /\ TypeOK
    /\ NoDuplicates
    /\ CurrentRuns
    /\ OthersSaved
    /\ NotStarted
    /\ StackShape
-----------------------------------------------------------------------------
(* The fields of struct interrupt_state. *)

LEMMA Concat ==
    ASSUME NEW S, NEW a \in Seq(S), NEW b \in Seq(S)
    PROVE  /\ a \o b \in Seq(S) /\ Len(a \o b) = Len(a) + Len(b)
           /\ \A i \in 1 .. Len(a) : (a \o b)[i] = a[i]
           /\ \A i \in 1 .. Len(b) : (a \o b)[Len(a) + i] = b[i]
OBVIOUS

\* The same for words.  (Lengths are filled in in steps of their own.)
LEMMA Join ==
    ASSUME NEW a \in Seq(Words), NEW b \in Seq(Words)
    PROVE  /\ a \o b \in Seq(Words) /\ Len(a \o b) = Len(a) + Len(b)
           /\ \A i \in 1 .. Len(a) : (a \o b)[i] = a[i]
           /\ \A i \in (Len(a) + 1) .. (Len(a) + Len(b)) : (a \o b)[i] = b[i - Len(a)]
OBVIOUS

FieldNames == {"ss", "esp", "eflags", "cs", "eip", "error_code", "interrupt_number",
               "eax", "ebx", "ecx", "edx", "ebp", "esi", "edi"}

LEMMA SavedValue ==
    /\ Len(Saved) = 7 /\ DOMAIN Saved = 1 .. 7
    /\ Saved[1] = "eax" /\ Saved[2] = "ebx" /\ Saved[3] = "ecx" /\ Saved[4] = "edx"
    /\ Saved[5] = "ebp" /\ Saved[6] = "esi" /\ Saved[7] = "edi"
    /\ Saved \in Seq(FieldNames)
BY DEF Saved, FieldNames

LEMMA FieldsValue ==
    /\ Len(Fields) = 14 /\ DOMAIN Fields = 1 .. 14 /\ Fields \in Seq(FieldNames)
    /\ Fields[1] = "ss" /\ Fields[2] = "esp" /\ Fields[3] = "eflags" /\ Fields[4] = "cs"
    /\ Fields[5] = "eip" /\ Fields[6] = "error_code" /\ Fields[7] = "interrupt_number"
    /\ Fields[8] = "eax" /\ Fields[9] = "ebx" /\ Fields[10] = "ecx" /\ Fields[11] = "edx"
    /\ Fields[12] = "ebp" /\ Fields[13] = "esi" /\ Fields[14] = "edi"
<1> DEFINE head == <<"ss", "esp", "eflags", "cs", "eip", "error_code", "interrupt_number">>
<1>1. /\ head \in Seq(FieldNames) /\ Len(head) = 7
      /\ head[1] = "ss" /\ head[2] = "esp" /\ head[3] = "eflags" /\ head[4] = "cs"
      /\ head[5] = "eip" /\ head[6] = "error_code" /\ head[7] = "interrupt_number"
  BY DEF FieldNames
<1>2. Fields = head \o Saved
  BY DEF Fields
<1> HIDE DEF head
<1>3. /\ Len(Fields) = 14 /\ Fields \in Seq(FieldNames)
      /\ \A i \in 1 .. 7 : Fields[i] = head[i] /\ Fields[7 + i] = Saved[i]
  <2>1. head \in Seq(FieldNames) /\ Saved \in Seq(FieldNames) /\ Len(head) = 7 /\ Len(Saved) = 7
    BY <1>1, SavedValue
  <2>2. /\ head \o Saved \in Seq(FieldNames) /\ Len(head \o Saved) = 7 + 7
        /\ \A i \in 1 .. 7 : (head \o Saved)[i] = head[i]
        /\ \A i \in 1 .. 7 : (head \o Saved)[7 + i] = Saved[i]
    <3>1. /\ head \o Saved \in Seq(FieldNames) /\ Len(head \o Saved) = Len(head) + Len(Saved)
          /\ \A i \in 1 .. Len(head) : (head \o Saved)[i] = head[i]
          /\ \A i \in 1 .. Len(Saved) : (head \o Saved)[Len(head) + i] = Saved[i]
      <4>1. PICK a : a = head
        OBVIOUS
      <4>2. PICK b : b = Saved
        OBVIOUS
      <4>3. a \in Seq(FieldNames) /\ b \in Seq(FieldNames)
        BY <2>1, <4>1, <4>2
      <4> QED BY <4>1, <4>2, <4>3, Concat
    <3> QED BY <2>1, <3>1, Zenon
  <2>3. 7 + 7 = 14
    OBVIOUS
  <2> QED BY <1>2, <2>2, <2>3, Zenon
<1>4. DOMAIN Fields = 1 .. 14
  BY <1>3
<1>5. /\ Fields[1] = head[1] /\ Fields[2] = head[2] /\ Fields[3] = head[3]
      /\ Fields[4] = head[4] /\ Fields[5] = head[5] /\ Fields[6] = head[6]
      /\ Fields[7] = head[7]
  BY <1>3
<1>6. /\ Fields[8] = Saved[1] /\ Fields[9] = Saved[2] /\ Fields[10] = Saved[3]
      /\ Fields[11] = Saved[4] /\ Fields[12] = Saved[5] /\ Fields[13] = Saved[6]
      /\ Fields[14] = Saved[7]
  <2>1. \A i \in 1 .. 7 : Fields[7 + i] = Saved[i]
    BY <1>3
  <2>2. /\ Fields[7 + 1] = Saved[1] /\ Fields[7 + 2] = Saved[2] /\ Fields[7 + 3] = Saved[3]
        /\ Fields[7 + 4] = Saved[4] /\ Fields[7 + 5] = Saved[5] /\ Fields[7 + 6] = Saved[6]
        /\ Fields[7 + 7] = Saved[7]
    BY <2>1
  <2> QED BY <2>2
<1> QED BY <1>1, <1>3, <1>4, <1>5, <1>6, SavedValue

LEMMA RangeFields ==
    /\ Range(Fields) = {Fields[k] : k \in 1 .. 14}
    /\ Range(Fields) = FieldNames
<1>1. Range(Fields) = {Fields[k] : k \in 1 .. 14}
  BY FieldsValue DEF Range
<1>2. \A k \in 1 .. 14 : k = 1 \/ k = 2 \/ k = 3 \/ k = 4 \/ k = 5 \/ k = 6 \/ k = 7
        \/ k = 8 \/ k = 9 \/ k = 10 \/ k = 11 \/ k = 12 \/ k = 13 \/ k = 14
  OBVIOUS
<1> QED BY <1>1, <1>2, FieldsValue DEF FieldNames

LEMMA RegistersValue ==
    /\ Registers = {"eax", "ebx", "ecx", "edx", "ebp", "esi", "edi",
                    "eip", "eflags", "esp", "cs", "ss"}
    /\ Registers \subseteq Range(Fields)
<1>1. Range(Saved) = {"eax", "ebx", "ecx", "edx", "ebp", "esi", "edi"}
  <2>1. Range(Saved) = {Saved[k] : k \in 1 .. 7}
    BY SavedValue DEF Range
  <2>2. \A k \in 1 .. 7 : k = 1 \/ k = 2 \/ k = 3 \/ k = 4 \/ k = 5 \/ k = 6 \/ k = 7
    OBVIOUS
  <2> QED BY <2>1, <2>2, SavedValue
<1> QED BY <1>1, RangeFields DEF Registers, FieldNames

\* No field is twice in the struct.
LEMMA FieldOnce ==
    ASSUME NEW k \in 1 .. 14, NEW l \in 1 .. 14, Fields[k] = Fields[l]
    PROVE  k = l
BY FieldsValue

\* Field k of the struct at the end of a stack.
LEMMA StateAtField ==
    ASSUME NEW stack \in Seq(Words), Len(stack) >= 14, NEW k \in 1 .. 14
    PROVE  /\ StateAt(stack)[Fields[k]] = stack[Len(stack) - 14 + k]
           /\ Len(stack) - 14 + k \in DOMAIN stack
<1> DEFINE pos(f) == CHOOSE l \in DOMAIN Fields : Fields[l] = f
<1>1. pos(Fields[k]) = k
  BY FieldsValue, FieldOnce
<1>2. Fields[k] \in Range(Fields) /\ Len(Fields) = 14
  BY RangeFields, FieldsValue
<1>3. Len(stack) - 14 + k \in DOMAIN stack
  OBVIOUS
<1>4. StateAt(stack) =
        [f \in Range(Fields) |->
            IF Len(stack) - 14 + pos(f) \in DOMAIN stack THEN stack[Len(stack) - 14 + pos(f)]
            ELSE Beyond]
  BY <1>2 DEF StateAt
<1> HIDE DEF pos
<1>5. StateAt(stack)[Fields[k]] =
        IF Len(stack) - 14 + pos(Fields[k]) \in DOMAIN stack
        THEN stack[Len(stack) - 14 + pos(Fields[k])] ELSE Beyond
  BY <1>2, <1>4
<1> QED BY <1>1, <1>3, <1>5

LEMMA StateAtType ==
    ASSUME NEW stack \in Seq(Words), Len(stack) >= 14
    PROVE  StateAt(stack) \in [Range(Fields) -> Words]
<1>1. \A k \in 1 .. 14 : StateAt(stack)[Fields[k]] \in Words
  <2> SUFFICES ASSUME NEW k \in 1 .. 14 PROVE StateAt(stack)[Fields[k]] \in Words
    OBVIOUS
  <2>1. Len(stack) - 14 + k \in 1 .. Len(stack)
    OBVIOUS
  <2>2. stack[Len(stack) - 14 + k] \in Words
    BY <2>1, ElementOfSeq
  <2> QED BY <2>2, StateAtField
<1>2. \A f \in Range(Fields) : StateAt(stack)[f] \in Words
  BY <1>1, RangeFields
<1> QED BY <1>2 DEF StateAt

\* What a copy over the struct at the end of a stack leaves there.
LEMMA WithStateEffect ==
    ASSUME NEW stack \in Seq(Words), Len(stack) >= 14,
           NEW s \in [Range(Fields) -> Words]
    PROVE  LET w == WithState(stack, s)
           IN  /\ w \in Seq(Words) /\ Len(w) = Len(stack)
               /\ \A i \in 1 .. (Len(stack) - 14) : w[i] = stack[i]
               /\ StateAt(w) = s
<1> DEFINE w == WithState(stack, s)
           n == Len(stack)
<1>1. n \in Nat /\ n >= 14 /\ DOMAIN stack = 1 .. n /\ Len(Fields) = 14
  BY FieldsValue
<1>2. w = [i \in 1 .. n |-> IF i > n - 14 THEN s[Fields[i - (n - 14)]] ELSE stack[i]]
  BY <1>1 DEF WithState
<1> HIDE DEF w, n
<1>3. \A i \in 1 .. n : w[i] \in Words
  <2> SUFFICES ASSUME NEW i \in 1 .. n PROVE w[i] \in Words
    OBVIOUS
  <2>1. CASE i > n - 14
    <3>1. i - (n - 14) \in 1 .. 14
      BY <1>1, <2>1
    <3>2. Fields[i - (n - 14)] \in Range(Fields)
      BY <3>1, RangeFields
    <3> QED BY <1>2, <2>1, <3>2
  <2>2. CASE ~(i > n - 14)
    <3>1. stack[i] \in Words
      BY ElementOfSeq DEF n
    <3> QED BY <1>2, <2>2, <3>1
  <2> QED BY <2>1, <2>2
<1>4. w \in [1 .. n -> Words]
  BY <1>2, <1>3
<1>5. w \in Seq(Words) /\ Len(w) = n
  BY <1>1, <1>4, SeqDef
<1>6. \A i \in 1 .. (n - 14) : w[i] = stack[i]
  BY <1>1, <1>2
<1>7. \A k \in 1 .. 14 : StateAt(w)[Fields[k]] = s[Fields[k]]
  <2> SUFFICES ASSUME NEW k \in 1 .. 14 PROVE StateAt(w)[Fields[k]] = s[Fields[k]]
    OBVIOUS
  <2>1. StateAt(w)[Fields[k]] = w[n - 14 + k]
    BY <1>1, <1>5, StateAtField
  <2>2. PICK i : i = n - 14 + k
    OBVIOUS
  <2>3. i \in 1 .. n /\ i > n - 14 /\ i - (n - 14) = k
    BY <1>1, <2>2
  <2>4. w[i] = s[Fields[i - (n - 14)]]
    BY <1>2, <2>3
  <2> QED BY <2>1, <2>2, <2>3, <2>4
<1>8. StateAt(w) = s
  <2>1. StateAt(w) \in [Range(Fields) -> Words]
    BY <1>1, <1>5, StateAtType
  <2>2. \A f \in Range(Fields) : StateAt(w)[f] = s[f]
    BY <1>7, RangeFields
  <2> QED BY <2>1, <2>2
<1> QED BY <1>5, <1>6, <1>8 DEF w, n
-----------------------------------------------------------------------------
(* The tables. *)

\* What the selectors of the two kinds of computations say to the processor.
LEMMA SelectorFacts ==
    /\ Rpl(8) = 0 /\ Rpl(27) = 3
    /\ ValidCode(8) /\ ValidCode(27) /\ ValidStack(35, 27)
<1>1. gdt[2] = 154 /\ gdt[4] = 250 /\ gdt[5] = 242
  BY DEF gdt
<1>2. Access(8) = 154 /\ Access(27) = 250 /\ Access(35) = 242
  BY <1>1 DEF Access
<1>3. Rpl(8) = 0 /\ Rpl(27) = 3 /\ Rpl(35) = 3
  BY DEF Rpl
<1>4. Dpl(154) = 0 /\ Dpl(250) = 3 /\ Dpl(242) = 3
  BY DEF Dpl
<1>5. /\ Bit(154, 7) = 1 /\ Bit(154, 4) = 1 /\ Bit(154, 3) = 1
      /\ Bit(250, 7) = 1 /\ Bit(250, 4) = 1 /\ Bit(250, 3) = 1
      /\ Bit(242, 7) = 1 /\ Bit(242, 3) = 0 /\ Bit(242, 1) = 1
  BY DEF Bit
<1> QED BY <1>2, <1>3, <1>4, <1>5 DEF ValidCode, ValidStack

\* The stub behind each gate that is used, and the only gate for programs.
LEMMA Gates ==
    ASSUME NEW v \in 0 .. 255
    PROVE  /\ v < 32 \/ v = 128 => idt[v].stub = isr(v)
           /\ v \in 32 .. 47 => idt[v].stub = irq(v - 32)
           /\ ProgramMayUse(idt[v]) => v = 128
<1>1. idt[v] = IF v < 32 THEN Gate(isr(v), 142)
               ELSE IF v < 48 THEN Gate(irq(v - 32), 142)
               ELSE IF v = 128 THEN Gate(isr(v), 238)
               ELSE NoGate
  BY DEF idt
<1>2. Dpl(142) = 0 /\ Dpl(0) = 0
  BY DEF Dpl
<1>3. v < 32 \/ v = 128 => idt[v].stub = isr(v)
  BY <1>1 DEF Gate
<1>4. v \in 32 .. 47 => idt[v].stub = irq(v - 32)
  BY <1>1 DEF Gate
<1>5. ASSUME v # 128 PROVE idt[v].flags \in {142, 0}
  BY <1>1, <1>5 DEF Gate, NoGate
<1> QED BY <1>2, <1>3, <1>4, <1>5 DEF ProgramMayUse

\* The controllers were given the vectors from 32 on.
LEMMA Vectors32 ==
    ASSUME NEW n \in 0 .. 15
    PROVE  Vector(n) = 32 + n
<1> DEFINE S(port) == WritesTo(port)
<1>1. /\ DOMAIN PIC_Writes = 1 .. 10
      /\ PIC_Writes[1].port = "master_command" /\ PIC_Writes[2].port = "slave_command"
      /\ PIC_Writes[3].port = "master_data" /\ PIC_Writes[4].port = "slave_data"
      /\ PIC_Writes[5].port = "master_data" /\ PIC_Writes[6].port = "slave_data"
      /\ PIC_Writes[7].port = "master_data" /\ PIC_Writes[8].port = "slave_data"
      /\ PIC_Writes[9].port = "master_data" /\ PIC_Writes[10].port = "slave_data"
      /\ PIC_Writes[3].value = 32 /\ PIC_Writes[4].value = 40
  BY DEF PIC_Writes, Write
<1>2. \A i \in 1 .. 10 : i = 1 \/ i = 2 \/ i = 3 \/ i = 4 \/ i = 5 \/ i = 6 \/ i = 7
        \/ i = 8 \/ i = 9 \/ i = 10
  OBVIOUS
<1>3. S("master_data") = {3, 5, 7, 9} /\ S("slave_data") = {4, 6, 8, 10}
  BY <1>1, <1>2 DEF WritesTo
<1>4. ASSUME NEW T, NEW a \in Nat, NEW b \in Nat, NEW c \in Nat, NEW d \in Nat,
             T = {a, b, c, d}, a < b, b < c, c < d
      PROVE  Nth(T, 1) = a
  <2>1. {j \in T : j <= a} = {a}
    BY <1>4
  <2>2. Cardinality({j \in T : j <= a}) = 1
    BY <2>1, FS_Singleton
  <2>3. ASSUME NEW i \in T, Cardinality({j \in T : j <= i}) = 1 PROVE i = a
    <3>1. IsFiniteSet({j \in T : j <= i})
      <4>1. T = {a} \cup {b} \cup {c} \cup {d}
        BY <1>4
      <4>2. IsFiniteSet(T)
        BY <4>1, FS_Singleton, FS_Union
      <4> QED BY <4>2, FS_Subset
    <3>2. PICK x : {j \in T : j <= i} = {x}
      BY <2>3, <3>1, FS_Singleton
    <3>3. a \in {j \in T : j <= i} /\ i \in {j \in T : j <= i}
      BY <1>4
    <3> QED BY <3>2, <3>3
  <2> QED BY <1>4, <2>2, <2>3 DEF Nth
<1>5. Nth(WritesTo("master_data"), 1) = 3 /\ Nth(WritesTo("slave_data"), 1) = 4
  BY <1>3, <1>4
<1>6. Master.offset = 32 /\ Slave.offset = 40
  BY <1>1, <1>5 DEF Master, Slave, Chip, Received
<1> QED BY <1>6 DEF Vector
-----------------------------------------------------------------------------
(* Entry. *)

LEMMA WordFacts ==
    /\ \A n \in Nat : Number(n) \in Words /\ Number(n)[3] = n
    /\ {Magic, Mbd, Result, Beyond, <<"return", Boot, 0>>, <<"locals", Boot, 0>>} \subseteq Words
    /\ \A w \in Computations, n \in Nat : \A r \in Registers :
            FileAt(w, n)[r] \in Words
BY DEF Number, Words, Names, Computations, Magic, Mbd, Result, Beyond, FileAt, Selectors

LEMMA KmainStackValue ==
    /\ KmainStack \in Seq(Words) /\ Len(KmainStack) = 4
    /\ KmainStack[1] = Magic /\ KmainStack[2] = Mbd
    /\ KmainStack[3] = <<"return", Boot, 0>> /\ KmainStack[4] = <<"locals", Boot, 0>>
    /\ BootStack \in Seq(Words) /\ Len(BootStack) = 2
    /\ BootStack[1] = Magic /\ BootStack[2] = Mbd
<1>1. PICK a : a = <<"return", Boot, 0>>
  OBVIOUS
<1>2. PICK b : b = <<"locals", Boot, 0>>
  OBVIOUS
<1>3. Magic \in Words /\ Mbd \in Words /\ a \in Words /\ b \in Words
  BY <1>1, <1>2, WordFacts
<1>4. BootStack \in Seq(Words)
  BY <1>3 DEF BootStack
<1>5. Len(BootStack) = 2 /\ BootStack[1] = Magic /\ BootStack[2] = Mbd
  BY DEF BootStack
<1>6. PICK t : t = <<a, b>>
  OBVIOUS
<1>7. t \in Seq(Words)
  BY <1>3, <1>6
<1>8. Len(t) = 2 /\ t[1] = a /\ t[2] = b
  BY <1>6
<1>9. KmainStack = BootStack \o t
  BY <1>1, <1>2, <1>6 DEF KmainStack
<1>10. PICK k : k = KmainStack
  OBVIOUS
<1>11. /\ k \in Seq(Words) /\ Len(k) = Len(BootStack) + Len(t)
       /\ \A i \in 1 .. Len(BootStack) : k[i] = BootStack[i]
       /\ \A i \in (Len(BootStack) + 1) .. (Len(BootStack) + Len(t)) : k[i] = t[i - Len(BootStack)]
  BY <1>4, <1>7, <1>9, <1>10, Join
<1>12. Len(k) = 4 /\ k[1] = Magic /\ k[2] = Mbd /\ k[3] = a /\ k[4] = b
  BY <1>5, <1>8, <1>11
<1> QED BY <1>1, <1>2, <1>4, <1>5, <1>10, <1>11, <1>12, Zenon

\* The words that the processor pushes.
LEMMA PushedWords ==
    ASSUME NEW from \in [Registers -> Words], NEW code \in Seq(Words)
    PROVE  /\ Pushed(from, code) \in Seq(Words)
           /\ FromProgram(from) =>
                /\ Len(Pushed(from, code)) = 5 + Len(code)
                /\ Pushed(from, code)[1] = from["ss"] /\ Pushed(from, code)[2] = from["esp"]
                /\ Pushed(from, code)[3] = from["eflags"] /\ Pushed(from, code)[4] = from["cs"]
                /\ Pushed(from, code)[5] = from["eip"]
           /\ ~FromProgram(from) =>
                /\ Len(Pushed(from, code)) = 3 + Len(code)
                /\ Pushed(from, code)[1] = from["eflags"] /\ Pushed(from, code)[2] = from["cs"]
                /\ Pushed(from, code)[3] = from["eip"]
<1>1. PICK a : a = IF FromProgram(from) THEN <<from["ss"], from["esp"]>> ELSE <<>>
  OBVIOUS
<1>2. PICK b : b = <<from["eflags"], from["cs"], from["eip"]>>
  OBVIOUS
<1>3. /\ from["ss"] \in Words /\ from["esp"] \in Words /\ from["eflags"] \in Words
      /\ from["cs"] \in Words /\ from["eip"] \in Words
  BY RegistersValue
<1>4. b \in Seq(Words) /\ a \in Seq(Words)
  BY <1>1, <1>2, <1>3
<1>5. Len(b) = 3 /\ b[1] = from["eflags"] /\ b[2] = from["cs"] /\ b[3] = from["eip"]
  BY <1>2
<1>6. PICK c : c = a \o b
  OBVIOUS
<1>7. PICK p : p = c \o code
  OBVIOUS
<1>8. Pushed(from, code) = p
  BY <1>1, <1>2, <1>6, <1>7 DEF Pushed
<1>9. /\ c \in Seq(Words) /\ Len(c) = Len(a) + Len(b)
      /\ \A i \in 1 .. Len(a) : c[i] = a[i]
      /\ \A i \in (Len(a) + 1) .. (Len(a) + Len(b)) : c[i] = b[i - Len(a)]
  BY <1>4, <1>6, Join
<1>10. /\ p \in Seq(Words) /\ Len(p) = Len(c) + Len(code)
       /\ \A i \in 1 .. Len(c) : p[i] = c[i]
  BY <1>7, <1>9, Join
<1>11. CASE FromProgram(from)
  <2>1. Len(a) = 2 /\ a[1] = from["ss"] /\ a[2] = from["esp"]
    BY <1>1, <1>11
  <2>2. /\ Len(c) = 5 /\ c[1] = from["ss"] /\ c[2] = from["esp"]
        /\ c[3] = from["eflags"] /\ c[4] = from["cs"] /\ c[5] = from["eip"]
    BY <1>5, <1>9, <2>1
  <2>3. /\ Len(p) = 5 + Len(code) /\ p[1] = from["ss"] /\ p[2] = from["esp"]
        /\ p[3] = from["eflags"] /\ p[4] = from["cs"] /\ p[5] = from["eip"]
    BY <1>10, <2>2
  <2> QED BY <1>8, <1>10, <1>11, <2>3, Zenon
<1>12. CASE ~FromProgram(from)
  <2>1. Len(a) = 0
    BY <1>1, <1>12
  <2>2. Len(c) = 3 /\ c[1] = from["eflags"] /\ c[2] = from["cs"] /\ c[3] = from["eip"]
    BY <1>5, <1>9, <2>1
  <2>3. /\ Len(p) = 3 + Len(code)
        /\ p[1] = from["eflags"] /\ p[2] = from["cs"] /\ p[3] = from["eip"]
    BY <1>10, <2>2
  <2> QED BY <1>8, <1>10, <1>12, <2>3, Zenon
<1> QED BY <1>11, <1>12

\* A function on an initial segment is a sequence.
LEMMA IsSequence ==
    ASSUME NEW n \in Nat, NEW f \in [1 .. n -> Words]
    PROVE  f \in Seq(Words) /\ Len(f) = n
OBVIOUS

\* The words that a stub pushes.
LEMMA StubWords ==
    ASSUME cpu \in [Registers -> Words], NEW stub, stub.pushes \in Seq(Nat)
    PROVE  LET q == stub_pushes(stub)
               c == Len(stub.pushes)
           IN  /\ q \in Seq(Words) /\ Len(q) = c + 7
               /\ \A i \in 1 .. c : q[i] = Number(stub.pushes[i])
               /\ \A i \in (c + 1) .. (c + 7) : q[i] = cpu[Saved[i - c]]
<1>1. PICK pushes : pushes = stub.pushes
  OBVIOUS
<1>2. PICK c : c = Len(pushes)
  OBVIOUS
<1>3. pushes \in Seq(Nat) /\ c \in Nat /\ DOMAIN pushes = 1 .. c /\ \A i \in 1 .. c : pushes[i] \in Nat
  BY <1>1, <1>2
<1>4. PICK a : a = [i \in 1 .. c |-> Number(pushes[i])]
  OBVIOUS
<1>5. PICK b : b = [i \in 1 .. 7 |-> cpu[Saved[i]]]
  OBVIOUS
<1>6. a \in Seq(Words) /\ Len(a) = c
  <2>1. a \in [1 .. c -> Words]
    BY <1>3, <1>4, WordFacts
  <2> QED BY <1>3, <2>1, IsSequence
<1>7. b \in Seq(Words) /\ Len(b) = 7
  <2>1. \A i \in 1 .. 7 : Saved[i] \in Registers
    BY SavedValue, RegistersValue
  <2>2. b \in [1 .. 7 -> Words]
    BY <1>5, <2>1
  <2>3. PICK n : n = 7
    OBVIOUS
  <2>4. n \in Nat
    BY <2>3
  <2>5. b \in [1 .. n -> Words]
    BY <2>2, <2>3
  <2>6. b \in Seq(Words) /\ Len(b) = n
    BY <2>4, <2>5, IsSequence
  <2> QED BY <2>3, <2>6
<1>8. stub_pushes(stub) = a \o b
  BY <1>1, <1>3, <1>4, <1>5, SavedValue DEF stub_pushes
<1>9. PICK q : q = a \o b
  OBVIOUS
<1>10. a \in Seq(Words) /\ b \in Seq(Words)
  BY <1>6, <1>7
<1>11. /\ q \in Seq(Words) /\ Len(q) = Len(a) + Len(b)
       /\ \A i \in 1 .. Len(a) : q[i] = a[i]
       /\ \A i \in (Len(a) + 1) .. (Len(a) + Len(b)) : q[i] = b[i - Len(a)]
  BY <1>9, <1>10, Join
<1>12. Len(a) = c /\ Len(b) = 7
  BY <1>6, <1>7
<1>13. /\ Len(q) = c + 7 /\ \A i \in 1 .. c : q[i] = a[i]
       /\ \A i \in (c + 1) .. (c + 7) : q[i] = b[i - c]
  BY <1>11, <1>12, Zenon
<1>14. \A i \in 1 .. c : q[i] = Number(pushes[i])
  BY <1>4, <1>13
<1>15. \A i \in (c + 1) .. (c + 7) : q[i] = cpu[Saved[i - c]]
  <2> SUFFICES ASSUME NEW i \in (c + 1) .. (c + 7) PROVE q[i] = cpu[Saved[i - c]]
    OBVIOUS
  <2>1. i - c \in 1 .. 7
    BY <1>3
  <2> QED BY <1>5, <1>13, <2>1
<1> QED BY <1>1, <1>2, <1>8, <1>9, <1>11, <1>13, <1>14, <1>15, Zenon

\* The stack k after entry on top of onto: a struct at its end, whose fields
\* have the registers and the number, and which reaches into what was there if
\* the kernel was interrupted.
Framed(k, onto, number) ==
    /\ k \in Seq(Words)
    /\ Len(k) = IF FromProgram(cpu) THEN 14 ELSE Len(onto) + 12
    /\ \A i \in 1 .. Len(onto) : k[i] = onto[i]
    /\ \A r \in Registers \ {"ss", "esp"} : StateAt(k)[r] = cpu[r]
    /\ StateAt(k)["interrupt_number"] = Number(number)
    /\ FromProgram(cpu) => StateAt(k)["ss"] = cpu["ss"] /\ StateAt(k)["esp"] = cpu["esp"]
    /\ ~FromProgram(cpu) =>
        StateAt(k)["ss"] = onto[Len(onto) - 1] /\ StateAt(k)["esp"] = onto[Len(onto)]

LEMMA FrameWords ==
    ASSUME cpu \in [Registers -> Words], NEW onto \in Seq(Words), NEW code \in Seq(Words),
           NEW stub, stub.pushes \in Seq(Nat), Len(code) + Len(stub.pushes) = 2,
           Len(stub.pushes) >= 1,
           FromProgram(cpu) => Len(onto) = 0, ~FromProgram(cpu) => Len(onto) >= 2
    PROVE  Framed(onto \o Pushed(cpu, code) \o stub_pushes(stub), onto,
                  stub.pushes[Len(stub.pushes)])
<1>1. PICK p : p = Pushed(cpu, code)
  OBVIOUS
<1>2. PICK q : q = stub_pushes(stub)
  OBVIOUS
<1>3. PICK c : c = Len(stub.pushes)
  OBVIOUS
<1>4. PICK m : m = Len(onto)
  OBVIOUS
<1>5. PICK t : t = onto \o p
  OBVIOUS
<1>6. PICK k : k = t \o q
  OBVIOUS
<1>7. c \in {1, 2} /\ Len(code) = 2 - c /\ m \in Nat
  <2>1. PICK x : x = Len(code)
    OBVIOUS
  <2>3. x \in Nat /\ m \in Nat
    BY <1>4, <2>1, LenProperties
  <2>4. c \in Nat
    BY <1>3, LenProperties
  <2>5. x + c = 2 /\ c >= 1
    BY <1>3, <2>1
  <2>6. c \in {1, 2} /\ x = 2 - c
    BY <2>3, <2>4, <2>5
  <2> QED BY <2>1, <2>3, <2>6
<1>8. p \in Seq(Words) /\ q \in Seq(Words)
  BY <1>1, <1>2, PushedWords, StubWords
<1>9. Len(q) = c + 7 /\ q[c] = Number(stub.pushes[c])
      /\ \A i \in (c + 1) .. (c + 7) : q[i] = cpu[Saved[i - c]]
  <2>1. /\ Len(q) = c + 7 /\ \A i \in 1 .. c : q[i] = Number(stub.pushes[i])
        /\ \A i \in (c + 1) .. (c + 7) : q[i] = cpu[Saved[i - c]]
    BY <1>2, <1>3, StubWords
  <2> QED BY <1>7, <2>1
<1>10. /\ t \in Seq(Words) /\ Len(t) = m + Len(p)
       /\ \A i \in 1 .. m : t[i] = onto[i]
       /\ \A i \in (m + 1) .. (m + Len(p)) : t[i] = p[i - m]
  BY <1>4, <1>5, <1>8, Join
<1>11. /\ k \in Seq(Words) /\ Len(k) = Len(t) + Len(q)
       /\ \A i \in 1 .. Len(t) : k[i] = t[i]
       /\ \A i \in (Len(t) + 1) .. (Len(t) + Len(q)) : k[i] = q[i - Len(t)]
  <2>1. t \in Seq(Words) /\ q \in Seq(Words)
    BY <1>8, <1>10
  <2> QED BY <1>6, <2>1, Join
<1>12. k = onto \o Pushed(cpu, code) \o stub_pushes(stub)
  BY <1>1, <1>2, <1>5, <1>6
<1>13. \A i \in 1 .. m : k[i] = onto[i]
  <2>1. Len(p) \in Nat
    BY <1>8
  <2> QED BY <1>7, <1>10, <1>11, <2>1
<1> DEFINE d == IF FromProgram(cpu) THEN 5 ELSE 3
<1>14. d \in {3, 5} /\ Len(p) = d + 2 - c
  <2>1. CASE FromProgram(cpu)
    <3>1. Len(p) = 5 + Len(code) /\ d = 5
      BY <1>1, <2>1, PushedWords
    <3> HIDE DEF d
    <3> QED BY <1>7, <3>1
  <2>2. CASE ~FromProgram(cpu)
    <3>1. Len(p) = 3 + Len(code) /\ d = 3
      BY <1>1, <2>2, PushedWords
    <3> HIDE DEF d
    <3> QED BY <1>7, <3>1
  <2> QED BY <2>1, <2>2
<1>15. /\ p[d - 2] = cpu["eflags"] /\ p[d - 1] = cpu["cs"] /\ p[d] = cpu["eip"]
       /\ FromProgram(cpu) => p[1] = cpu["ss"] /\ p[2] = cpu["esp"]
  <2>1. CASE FromProgram(cpu)
    <3>1. d = 5 /\ d - 2 = 3 /\ d - 1 = 4
      BY <2>1
    <3> HIDE DEF d
    <3>2. /\ p[1] = cpu["ss"] /\ p[2] = cpu["esp"] /\ p[3] = cpu["eflags"] /\ p[4] = cpu["cs"]
          /\ p[5] = cpu["eip"]
      BY <1>1, <2>1, PushedWords
    <3> QED BY <3>1, <3>2, Zenon
  <2>2. CASE ~FromProgram(cpu)
    <3>1. d = 3 /\ d - 2 = 1 /\ d - 1 = 2
      BY <2>2
    <3> HIDE DEF d
    <3>2. p[1] = cpu["eflags"] /\ p[2] = cpu["cs"] /\ p[3] = cpu["eip"]
      BY <1>1, <2>2, PushedWords
    <3> QED BY <2>2, <3>1, <3>2, Zenon
  <2> QED BY <2>1, <2>2
<1>16. m + d >= 5 /\ (FromProgram(cpu) => m + d = 5)
  BY <1>4, <1>7
<1> HIDE DEF d
<1>17. Len(t) = m + d + 2 - c /\ Len(k) = m + d + 9
  BY <1>7, <1>9, <1>10, <1>11, <1>14
<1>18. /\ k[m + d - 2] = cpu["eflags"] /\ k[m + d - 1] = cpu["cs"] /\ k[m + d] = cpu["eip"]
       /\ FromProgram(cpu) => k[m + 1] = cpu["ss"] /\ k[m + 2] = cpu["esp"]
  <2>1. ASSUME NEW j \in 1 .. d PROVE k[m + j] = p[j]
    <3>1. m + j \in (m + 1) .. (m + Len(p)) /\ m + j \in 1 .. Len(t) /\ (m + j) - m = j
      BY <1>7, <1>14, <1>17
    <3>2. k[m + j] = t[m + j]
      BY <1>11, <3>1
    <3>3. t[m + j] = p[(m + j) - m]
      BY <1>10, <3>1
    <3> QED BY <3>1, <3>2, <3>3
  <2>2. /\ 1 \in 1 .. d /\ 2 \in 1 .. d /\ d \in 1 .. d /\ d - 1 \in 1 .. d /\ d - 2 \in 1 .. d
        /\ m + d - 2 = m + (d - 2) /\ m + d - 1 = m + (d - 1)
    BY <1>7, <1>14
  <2>3. k[m + (d - 2)] = p[d - 2] /\ k[m + (d - 1)] = p[d - 1] /\ k[m + d] = p[d]
        /\ k[m + 1] = p[1] /\ k[m + 2] = p[2]
    BY <2>1, <2>2
  <2> QED BY <1>15, <2>2, <2>3
<1>19. \A j \in 1 .. (c + 7) : k[m + d + 2 - c + j] = q[j]
  <2> SUFFICES ASSUME NEW j \in 1 .. (c + 7) PROVE k[m + d + 2 - c + j] = q[j]
    OBVIOUS
  <2>1. PICK i : i = m + d + 2 - c + j
    OBVIOUS
  <2>2. i \in (Len(t) + 1) .. (Len(t) + Len(q)) /\ i - Len(t) = j
    <3>1. PICK x : x = m + d + 2 - c
      OBVIOUS
    <3>2. Len(t) = x /\ Len(q) = c + 7
      BY <1>9, <1>17, <3>1
    <3>3. i \in (x + 1) .. (x + (c + 7)) /\ i - x = j
      BY <1>7, <1>14, <2>1, <3>1
    <3> QED BY <3>2, <3>3, Zenon
  <2>3. k[i] = q[i - Len(t)]
    BY <1>11, <2>2
  <2> QED BY <2>1, <2>2, <2>3
<1>20. k[m + d + 2] = Number(stub.pushes[c])
  <2>1. c \in 1 .. (c + 7) /\ m + d + 2 - c + c = m + d + 2
    BY <1>7, <1>14
  <2> QED BY <1>9, <1>19, <2>1
<1>21. \A j \in 1 .. 7 : k[m + d + 2 + j] = cpu[Saved[j]]
  <2> SUFFICES ASSUME NEW j \in 1 .. 7 PROVE k[m + d + 2 + j] = cpu[Saved[j]]
    OBVIOUS
  <2>1. PICK i : i = c + j
    OBVIOUS
  <2>2. i \in 1 .. (c + 7) /\ i \in (c + 1) .. (c + 7) /\ i - c = j
        /\ m + d + 2 - c + i = m + d + 2 + j
    BY <1>7, <1>14, <2>1
  <2>3. k[m + d + 2 - c + i] = q[i] /\ q[i] = cpu[Saved[i - c]]
    BY <1>9, <1>19, <2>2
  <2> QED BY <2>2, <2>3
<1>22. \A j \in 1 .. 14 : StateAt(k)[Fields[j]] = k[m + d - 5 + j]
  <2> SUFFICES ASSUME NEW j \in 1 .. 14 PROVE StateAt(k)[Fields[j]] = k[m + d - 5 + j]
    OBVIOUS
  <2>1. k \in Seq(Words) /\ Len(k) >= 14
    <3>1. Len(k) = m + d + 9
      BY <1>17
    <3>2. PICK x : x = m + d + 9
      OBVIOUS
    <3>3. x >= 14
      BY <1>7, <1>14, <1>16, <3>2
    <3>4. Len(k) >= 14
      BY <3>1, <3>2, <3>3, Zenon
    <3> QED BY <1>11, <3>4
  <2>2. Len(k) - 14 + j = m + d - 5 + j
    BY <1>7, <1>14, <1>17
  <2>3. StateAt(k)[Fields[j]] = k[Len(k) - 14 + j]
    BY <2>1, StateAtField
  <2> QED BY <2>2, <2>3
<1>23. /\ StateAt(k)["eflags"] = cpu["eflags"] /\ StateAt(k)["cs"] = cpu["cs"]
       /\ StateAt(k)["eip"] = cpu["eip"] /\ StateAt(k)["interrupt_number"] = Number(stub.pushes[c])
  <2>1. /\ m + d - 5 + 3 = m + d - 2 /\ m + d - 5 + 4 = m + d - 1
        /\ m + d - 5 + 5 = m + d /\ m + d - 5 + 7 = m + d + 2
    BY <1>7, <1>14
  <2>2. /\ StateAt(k)[Fields[3]] = k[m + d - 5 + 3] /\ StateAt(k)[Fields[4]] = k[m + d - 5 + 4]
        /\ StateAt(k)[Fields[5]] = k[m + d - 5 + 5] /\ StateAt(k)[Fields[7]] = k[m + d - 5 + 7]
    BY <1>22
  <2> QED BY <1>18, <1>20, <2>1, <2>2, FieldsValue
<1>24. \A j \in 1 .. 7 : StateAt(k)[Saved[j]] = cpu[Saved[j]]
  <2> SUFFICES ASSUME NEW j \in 1 .. 7 PROVE StateAt(k)[Saved[j]] = cpu[Saved[j]]
    OBVIOUS
  <2>1. j = 1 \/ j = 2 \/ j = 3 \/ j = 4 \/ j = 5 \/ j = 6 \/ j = 7
    OBVIOUS
  <2>2. Fields[7 + j] = Saved[j]
    <3>1. /\ 7 + 1 = 8 /\ 7 + 2 = 9 /\ 7 + 3 = 10 /\ 7 + 4 = 11 /\ 7 + 5 = 12
          /\ 7 + 6 = 13 /\ 7 + 7 = 14
      OBVIOUS
    <3> QED BY <2>1, <3>1, FieldsValue, SavedValue, Zenon
  <2>3. 7 + j \in 1 .. 14 /\ m + d - 5 + (7 + j) = m + d + 2 + j
    BY <1>7, <1>14
  <2>4. StateAt(k)[Fields[7 + j]] = k[m + d - 5 + (7 + j)]
    BY <1>22, <2>3
  <2> QED BY <1>21, <2>2, <2>3, <2>4
<1>25. \A r \in Registers \ {"ss", "esp"} : StateAt(k)[r] = cpu[r]
  <2>1. /\ StateAt(k)["eax"] = cpu["eax"] /\ StateAt(k)["ebx"] = cpu["ebx"]
        /\ StateAt(k)["ecx"] = cpu["ecx"] /\ StateAt(k)["edx"] = cpu["edx"]
        /\ StateAt(k)["ebp"] = cpu["ebp"] /\ StateAt(k)["esi"] = cpu["esi"]
        /\ StateAt(k)["edi"] = cpu["edi"]
    BY <1>24, SavedValue
  <2> QED BY <1>23, <2>1, RegistersValue
<1>26. /\ StateAt(k)["ss"] = k[m + d - 5 + 1] /\ StateAt(k)["esp"] = k[m + d - 5 + 2]
  BY <1>22, FieldsValue
<1>27. ASSUME FromProgram(cpu)
       PROVE  /\ StateAt(k)["ss"] = cpu["ss"] /\ StateAt(k)["esp"] = cpu["esp"] /\ Len(k) = 14
  <2>1. m = 0 /\ d = 5
    BY <1>4, <1>7, <1>27 DEF d
  <2>2. m + d - 5 + 1 = m + 1 /\ m + d - 5 + 2 = m + 2 /\ m + d + 9 = 14
    BY <2>1
  <2> QED BY <1>17, <1>18, <1>26, <1>27, <2>2
<1>28. ASSUME ~FromProgram(cpu)
       PROVE  /\ StateAt(k)["ss"] = onto[m - 1] /\ StateAt(k)["esp"] = onto[m] /\ Len(k) = m + 12
  <2>1. m >= 2 /\ d = 3
    BY <1>4, <1>28 DEF d
  <2>2. m + d - 5 + 1 = m - 1 /\ m + d - 5 + 2 = m /\ m + d + 9 = m + 12
        /\ m - 1 \in 1 .. m /\ m \in 1 .. m
    BY <1>7, <2>1
  <2> QED BY <1>13, <1>17, <1>26, <2>2
<1> QED BY <1>3, <1>4, <1>11, <1>12, <1>13, <1>23, <1>25, <1>27, <1>28, Zenon DEF Framed
-----------------------------------------------------------------------------
(* Who runs, and what the registers are. *)

LEMMA Positions ==
    /\ 0 \in 0 .. (STEPS + Idle) /\ Idle \in 0 .. (STEPS + Idle)
    /\ \A n \in Nat : (n + 1) % STEPS \in 0 .. (STEPS + Idle)
BY TrapsAssumption DEF Idle

LEMMA FileAtValue ==
    ASSUME NEW w \in Computations, NEW n \in Nat
    PROVE  /\ FileAt(w, n) \in [Registers -> Words]
           /\ FileAt(w, n)["eip"] = <<"eip", w, n>>
           /\ FileAt(w, n)["cs"] = <<"cs", w, IF w = Boot THEN 8 ELSE 27>>
           /\ FileAt(w, n)["ss"] = <<"ss", w, IF w = Boot THEN 16 ELSE 35>>
<1>1. FileAt(w, n) \in [Registers -> Words]
  BY WordFacts DEF FileAt
<1> QED BY <1>1, RegistersValue DEF FileAt, Selectors

LEMMA ExpectedValue ==
    ASSUME TypeOK, NEW w \in Computations
    PROVE  /\ Expected(w) \in [Registers -> Words]
           /\ awaits[w] => Expected(w)["eax"] = Result
           /\ \A r \in Registers : r # "eax" \/ ~awaits[w] => Expected(w)[r] = FileAt(w, progress[w])[r]
<1>1. progress[w] \in Nat
  BY TrapsAssumption DEF TypeOK, Idle
<1>2. FileAt(w, progress[w]) \in [Registers -> Words]
  BY <1>1, FileAtValue
<1>3. "eax" \in Registers /\ Result \in Words
  BY RegistersValue, WordFacts
<1> QED BY <1>2, <1>3 DEF Expected

\* The registers that say who runs and where.
LEMMA ExpectedFacts ==
    ASSUME TypeOK, NEW w \in Computations
    PROVE  /\ Expected(w)["eip"] = <<"eip", w, progress[w]>>
           /\ Expected(w)["cs"] = <<"cs", w, IF w = Boot THEN 8 ELSE 27>>
           /\ Expected(w)["ss"] = <<"ss", w, IF w = Boot THEN 16 ELSE 35>>
<1>1. progress[w] \in Nat
  BY TrapsAssumption DEF TypeOK, Idle
<1>2. /\ Expected(w)["eip"] = FileAt(w, progress[w])["eip"]
      /\ Expected(w)["cs"] = FileAt(w, progress[w])["cs"]
      /\ Expected(w)["ss"] = FileAt(w, progress[w])["ss"]
  BY ExpectedValue, RegistersValue
<1> QED BY <1>1, <1>2, FileAtValue, Zenon

\* What the registers say depends on history only.
LEMMA SameExpected ==
    ASSUME UNCHANGED <<progress, awaits>>
    PROVE  \A w : /\ Expected(w)' = Expected(w)
                  /\ \A r : InStruct(w, r)' = InStruct(w, r)
BY DEF Expected, InStruct, Beneath

LEMMA SlotType ==
    ASSUME TypeOK
    PROVE  /\ \A i \in DOMAIN processes : Slot(i) \in Computations
           /\ Runs \in Computations
           /\ \A i \in DOMAIN processes : i # 1 => Slot(i) # Boot
<1>1. \A i \in DOMAIN processes : processes[i] \in Processes
  BY DEF TypeOK
<1>2. \A i \in DOMAIN processes : Slot(i) \in Computations
  BY <1>1 DEF Slot, Computations
<1>3. current # 0 => current \in DOMAIN processes
  BY DEF TypeOK
<1> QED BY <1>1, <1>2, <1>3, TrapsAssumption DEF Runs, Slot, Computations

\* What the struct says of the computation that runs.
LEMMA StructFacts ==
    ASSUME TypeOK, NEW w \in Computations, NEW s, Holds(s, w)
    PROVE  /\ s["eip"] = <<"eip", w, progress[w]>>
           /\ s["cs"] = <<"cs", w, IF w = Boot THEN 8 ELSE 27>>
           /\ w # Boot => s["ss"] = <<"ss", w, 35>>
           /\ FromProgram(s) <=> w # Boot
<1>1. /\ s["eip"] = Expected(w)["eip"] /\ s["cs"] = Expected(w)["cs"]
      /\ w # Boot => s["ss"] = Expected(w)["ss"]
  BY RegistersValue DEF Holds, InStruct
<1>2. /\ s["eip"] = <<"eip", w, progress[w]>>
      /\ s["cs"] = <<"cs", w, IF w = Boot THEN 8 ELSE 27>>
      /\ w # Boot => s["ss"] = <<"ss", w, 35>>
  BY <1>1, ExpectedFacts
<1>3. s["cs"][3] = IF w = Boot THEN 8 ELSE 27
  BY <1>2
<1>4. FromProgram(s) <=> w # Boot
  BY <1>3, SelectorFacts DEF FromProgram
<1> QED BY <1>2, <1>4

LEMMA CpuFacts ==
    ASSUME TypeOK, CurrentRuns, stage = "none"
    PROVE  /\ cpu["eip"] = <<"eip", Runs, progress[Runs]>>
           /\ FromProgram(cpu) <=> Runs # Boot
<1>1. Runs \in Computations
  BY SlotType
<1>2. cpu["eip"] = Expected(Runs)["eip"] /\ cpu["cs"] = Expected(Runs)["cs"]
  BY RegistersValue DEF CurrentRuns
<1>3. /\ cpu["eip"] = <<"eip", Runs, progress[Runs]>>
      /\ cpu["cs"] = <<"cs", Runs, IF Runs = Boot THEN 8 ELSE 27>>
  BY <1>1, <1>2, ExpectedFacts
<1>4. cpu["cs"][3] = IF Runs = Boot THEN 8 ELSE 27
  BY <1>3
<1>5. FromProgram(cpu) <=> Runs # Boot
  BY <1>4, SelectorFacts DEF FromProgram
<1> QED BY <1>3, <1>5

LEMMA WhoExecutes ==
    ASSUME TypeOK, CurrentRuns, NEW w, Executes(w)
    PROVE  w = Runs /\ stage = "none" /\ mode = "running"
<1>1. stage = "none" /\ mode = "running" /\ cpu["eip"][2] = w
  BY DEF Executes
<1>2. cpu["eip"] = <<"eip", Runs, progress[Runs]>>
  BY <1>1, CpuFacts
<1> QED BY <1>1, <1>2
-----------------------------------------------------------------------------
(* Entry preserves the invariant. *)

\* The stubs of the gates that are used: with the error code they make two words.
LEMMA StubPushes ==
    ASSUME NEW n \in Nat
    PROVE  /\ isr(n).pushes \in Seq(Nat) /\ irq(n).pushes \in Seq(Nat)
           /\ n \in ErrorCodes => Len(isr(n).pushes) = 1 /\ isr(n).pushes[1] = n
           /\ n \notin ErrorCodes => Len(isr(n).pushes) = 2 /\ isr(n).pushes[2] = n
           /\ Len(irq(n).pushes) = 2 /\ irq(n).pushes[2] = n
           /\ isr(n).handler = "isr" /\ irq(n).handler = "irq"
<1>1. ISR_ERR = ErrorCodes
  BY DEF ISR_ERR, ErrorCodes
<1>2. isr(n).pushes = (IF n \in ErrorCodes THEN <<n>> ELSE <<0, n>>) /\ irq(n).pushes = <<n, n>>
  BY <1>1 DEF isr, irq
<1>3. isr(n).handler = "isr" /\ irq(n).handler = "irq"
  BY DEF isr, irq
<1> QED BY <1>2, <1>3

LEMMA EnterEffect ==
    ASSUME IInv, stage = "none", NEW stub, NEW code \in Seq(Words),
           stub.pushes \in Seq(Nat), Len(code) + Len(stub.pushes) = 2, Len(stub.pushes) >= 1,
           kstack' = (IF FromProgram(cpu) THEN esp0 ELSE kstack) \o Pushed(cpu, code)
                        \o stub_pushes(stub)
    PROVE  /\ kstack' \in Seq(Words)
           /\ Len(kstack') = IF Runs = Boot THEN Len(kstack) + 12 ELSE 14
           /\ Len(kstack') \in {14, 16}
           /\ Len(kstack') = 16 => progress[Boot] = Kmain /\ kstack'[1] = Magic /\ kstack'[2] = Mbd
           /\ Holds(StateAt(kstack'), Runs)
           /\ StateAt(kstack')["interrupt_number"] = Number(stub.pushes[Len(stub.pushes)])
<1> DEFINE onto == IF FromProgram(cpu) THEN esp0 ELSE kstack
           k == onto \o Pushed(cpu, code) \o stub_pushes(stub)
           m == Len(onto)
<1>1. cpu \in [Registers -> Words] /\ kstack \in Seq(Words)
  BY DEF IInv, TypeOK
<1>2. FromProgram(cpu) <=> Runs # Boot
  BY CpuFacts DEF IInv
<1>3. onto \in Seq(Words)
  BY <1>1 DEF esp0
<1>4. FromProgram(cpu) => m = 0
  BY DEF esp0
<1>5. ASSUME ~FromProgram(cpu)
      PROVE  /\ onto = kstack
             /\ m \in {2, 4} /\ onto[m - 1] = Beneath("ss") /\ onto[m] = Beneath("esp")
             /\ m = 4 => progress[Boot] = Kmain /\ onto[1] = Magic /\ onto[2] = Mbd
  <2>1. onto = kstack /\ Runs = Boot
    BY <1>2, <1>5
  <2>2. \/ Len(kstack) = 2 /\ kstack[1] = Beneath("ss") /\ kstack[2] = Beneath("esp")
        \/ progress[Boot] = Kmain /\ kstack = KmainStack
    BY <2>1 DEF IInv, StackShape
  <2>3. 2 - 1 = 1 /\ 4 - 1 = 3 /\ 2 # 4
    OBVIOUS
  <2>4. CASE Len(kstack) = 2 /\ kstack[1] = Beneath("ss") /\ kstack[2] = Beneath("esp")
    BY <2>1, <2>3, <2>4, Zenon
  <2>5. CASE progress[Boot] = Kmain /\ kstack = KmainStack
    <3>1. Beneath("ss") = <<"return", Boot, 0>> /\ Beneath("esp") = <<"locals", Boot, 0>>
      BY <2>5 DEF Beneath, Kmain, Idle
    <3>2. /\ Len(kstack) = 4 /\ kstack[1] = Magic /\ kstack[2] = Mbd
          /\ kstack[3] = Beneath("ss") /\ kstack[4] = Beneath("esp")
      BY <2>5, <3>1, KmainStackValue, Zenon
    <3> QED BY <2>1, <2>3, <2>5, <3>2, Zenon
  <2> QED BY <2>2, <2>4, <2>5
<1>6. ~FromProgram(cpu) => m >= 2
  <2>1. ASSUME NEW x \in {2, 4} PROVE x >= 2
    OBVIOUS
  <2> HIDE DEF m
  <2> QED BY <1>5, <2>1
<1>7. /\ k \in Seq(Words)
      /\ Len(k) = IF FromProgram(cpu) THEN 14 ELSE m + 12
      /\ \A i \in 1 .. m : k[i] = onto[i]
      /\ \A r \in Registers \ {"ss", "esp"} : StateAt(k)[r] = cpu[r]
      /\ StateAt(k)["interrupt_number"] = Number(stub.pushes[Len(stub.pushes)])
      /\ FromProgram(cpu) => StateAt(k)["ss"] = cpu["ss"] /\ StateAt(k)["esp"] = cpu["esp"]
      /\ ~FromProgram(cpu) => StateAt(k)["ss"] = onto[m - 1] /\ StateAt(k)["esp"] = onto[m]
  <2> HIDE DEF onto
  <2>1. /\ Len(code) + Len(stub.pushes) = 2 /\ Len(stub.pushes) >= 1
        /\ stub.pushes \in Seq(Nat) /\ code \in Seq(Words)
    OBVIOUS
  <2>2. Framed(k, onto, stub.pushes[Len(stub.pushes)])
    BY <1>1, <1>3, <1>4, <1>6, <2>1, FrameWords
  <2> HIDE DEF k
  <2> QED BY <2>2, Zenon DEF Framed
<1>8. kstack' = k
  OBVIOUS
<1> HIDE DEF k, m
<1>9. /\ Len(k) = IF Runs = Boot THEN Len(kstack) + 12 ELSE 14
      /\ Len(k) \in {14, 16}
      /\ Len(k) = 16 => progress[Boot] = Kmain /\ k[1] = Magic /\ k[2] = Mbd
  <2>1. CASE FromProgram(cpu)
    <3>1. Len(k) = 14 /\ Runs # Boot
      BY <1>2, <1>7, <2>1
    <3> QED BY <3>1
  <2>2. CASE ~FromProgram(cpu)
    <3>1. Len(k) = m + 12 /\ m \in {2, 4} /\ Runs = Boot /\ m = Len(kstack)
      BY <1>2, <1>5, <1>7, <2>2 DEF m
    <3>2. Len(k) \in {14, 16} /\ (Len(k) = 16 => m = 4)
      <4>1. PICK n : n = Len(k)
        OBVIOUS
      <4>2. n = m + 12 /\ m \in {2, 4}
        BY <3>1, <4>1
      <4>3. n \in {14, 16} /\ (n = 16 => m = 4)
        BY <4>2
      <4> QED BY <4>1, <4>3
    <3>3. ASSUME m = 4 PROVE progress[Boot] = Kmain /\ k[1] = Magic /\ k[2] = Mbd
      <4>1. 1 \in 1 .. m /\ 2 \in 1 .. m
        BY <3>3
      <4> QED BY <1>5, <1>7, <2>2, <3>3, <4>1
    <3> QED BY <3>1, <3>2, <3>3
  <2> QED BY <2>1, <2>2
<1>10. Holds(StateAt(k), Runs)
  <2>1. \A r \in Registers : cpu[r] = Expected(Runs)[r]
    BY DEF IInv, CurrentRuns
  <2>2. CASE FromProgram(cpu)
    <3>1. \A r \in Registers : StateAt(k)[r] = cpu[r]
      BY <1>7, <2>2
    <3> QED BY <1>2, <2>1, <2>2, <3>1 DEF Holds, InStruct
  <2>3. CASE ~FromProgram(cpu)
    <3>1. StateAt(k)["ss"] = Beneath("ss") /\ StateAt(k)["esp"] = Beneath("esp")
      BY <1>5, <1>7, <2>3
    <3>2. \A r \in Registers \ {"ss", "esp"} : StateAt(k)[r] = Expected(Runs)[r]
      BY <1>7, <2>1
    <3> QED BY <1>2, <2>3, <3>1, <3>2 DEF Holds, InStruct
  <2> QED BY <2>2, <2>3
<1> QED BY <1>7, <1>8, <1>9, <1>10, Zenon

LEMMA SameSlots ==
    ASSUME UNCHANGED <<processes, current>>
    PROVE  Runs' = Runs /\ \A i : Slot(i)' = Slot(i)
BY DEF Runs, Slot

\* What steps that leave the processes and their history alone preserve.
LEMMA SameHistory ==
    ASSUME IInv, UNCHANGED <<processes, current, regs, progress, awaits>>
    PROVE  NoDuplicates' /\ OthersSaved' /\ NotStarted'
<1>1. NoDuplicates' /\ NotStarted'
  BY DEF IInv, NoDuplicates, NotStarted
<1>2. OthersSaved'
  <2>1. \A i \in DOMAIN processes : i # current =>
            \A r \in Registers : regs[processes[i]][r] = InStruct(Slot(i), r)
    BY DEF IInv, OthersSaved, Holds
  <2>2. \A i \in DOMAIN processes : i # current =>
            \A r \in Registers : regs[processes[i]][r] = InStruct(Slot(i), r)'
    BY <2>1, SameExpected, SameSlots
  <2> QED BY <2>2 DEF OthersSaved, Holds
<1> QED BY <1>1, <1>2

StackBound == Len(KmainStack) + Pops(FileAt(Boot, Kmain))

LEMMA StackBoundValue == StackBound = 16
<1>1. FileAt(Boot, Kmain)["cs"] = <<"cs", Boot, 8>>
  BY FileAtValue DEF Computations, Kmain
<1>2. FileAt(Boot, Kmain)["cs"][3] = 8
  BY <1>1
<1>3. ~FromProgram(FileAt(Boot, Kmain))
  BY <1>2, SelectorFacts DEF FromProgram
<1>4. Pops(FileAt(Boot, Kmain)) = 12 /\ Len(KmainStack) = 4
  BY <1>3, KmainStackValue DEF Pops
<1> QED BY <1>4 DEF StackBound

LEMMA EntryPreserves ==
    ASSUME IInv, stage = "none", NEW stub, NEW code \in Seq(Words),
           stub.pushes \in Seq(Nat), Len(code) + Len(stub.pushes) = 2, Len(stub.pushes) >= 1,
           kstack' = (IF FromProgram(cpu) THEN esp0 ELSE kstack) \o Pushed(cpu, code)
                        \o stub_pushes(stub),
           stage' = stub.handler,
           \/ stub.handler = "isr" /\ Runs # Boot
           \/ stub.handler = "irq" /\ stub.pushes[Len(stub.pushes)] \in Lines,
           pic' \in [irr : SUBSET Lines, master : SUBSET (0 .. 7), slave : SUBSET (8 .. 15)],
           UNCHANGED <<processes, current, _init, regs, cpu, ds, cr3, mode, progress, awaits, early>>
    PROVE  IInv'
<1>1. /\ kstack' \in Seq(Words)
      /\ Len(kstack') = IF Runs = Boot THEN Len(kstack) + 12 ELSE 14
      /\ Len(kstack') \in {14, 16}
      /\ Len(kstack') = 16 => progress[Boot] = Kmain /\ kstack'[1] = Magic /\ kstack'[2] = Mbd
      /\ Holds(StateAt(kstack'), Runs)
      /\ StateAt(kstack')["interrupt_number"] = Number(stub.pushes[Len(stub.pushes)])
  BY EnterEffect
<1>2. State' = StateAt(kstack')
  BY DEF State
<1>3. stage' \in {"isr", "irq"}
  OBVIOUS
<1>4. TypeOK'
  <2>1. Len(kstack') <= 16
    <3>1. ASSUME NEW x \in {14, 16} PROVE x <= 16
      OBVIOUS
    <3> QED BY <1>1, <3>1
  <2>2. (Len(kstack) <= StackBound)'
    BY <2>1, StackBoundValue
  <2> QED BY <1>1, <1>3, <2>2 DEF IInv, TypeOK, StackBound
<1>5. CurrentRuns'
  <2>1. \A r \in Registers : State'[r] = InStruct(Runs, r)
    BY <1>1, <1>2 DEF Holds
  <2>2. \A r \in Registers : State'[r] = InStruct(Runs, r)'
    BY <2>1, SameExpected, SameSlots
  <2>3. Holds(State, Runs)'
    BY <2>2 DEF Holds
  <2> QED BY <1>3, <2>3 DEF IInv, CurrentRuns
<1>6. NoDuplicates' /\ OthersSaved' /\ NotStarted'
  BY SameHistory
<1>7. stage' = "irq" => State'["interrupt_number"][3] \in Lines
  <2> SUFFICES ASSUME stage' = "irq" PROVE State'["interrupt_number"][3] \in Lines
    OBVIOUS
  <2>1. PICK n : n = stub.pushes[Len(stub.pushes)]
    OBVIOUS
  <2>2. n \in Lines /\ n \in Nat
    BY <2>1, TrapsAssumption
  <2>3. State'["interrupt_number"][3] = n
    BY <1>1, <1>2, <2>1, <2>2, WordFacts
  <2> QED BY <2>2, <2>3
<1>8. StackShape'
  <2>1. Runs' = Runs
    BY SameSlots
  <2> QED BY <1>1, <1>3, <1>7, <2>1 DEF StackShape
<1> QED BY <1>4, <1>5, <1>6, <1>8 DEF IInv

\* A gate that pushes the error code or has the stub do so.
LEMMA IsrEntry ==
    ASSUME IInv, NEW p \in Processes, Executes(p), NEW v \in 0 .. 255, v < 32 \/ v = 128,
           NEW code \in Seq(Words), Len(code) = IF v \in ErrorCodes THEN 1 ELSE 0,
           Enter(v, code),
           UNCHANGED <<processes, current, _init, regs, cpu, ds, cr3, pic, mode, progress, awaits, early>>
    PROVE  IInv'
<1>1. PICK stub : stub = idt[v].stub
  OBVIOUS
<1>2. stub = isr(v) /\ v \in Nat
  <2>1. v \in Nat
    OBVIOUS
  <2>2. v < 32 \/ v = 128 => idt[v].stub = isr(v)
    BY Gates, Zenon
  <2> QED BY <1>1, <2>1, <2>2, Zenon
<1>3. /\ stub.pushes \in Seq(Nat) /\ stub.handler = "isr"
      /\ Len(stub.pushes) = IF v \in ErrorCodes THEN 1 ELSE 2
  BY <1>2, StubPushes
<1>4. Len(code) + Len(stub.pushes) = 2 /\ Len(stub.pushes) >= 1
  <2>1. CASE v \in ErrorCodes
    BY <1>3, <2>1
  <2>2. CASE v \notin ErrorCodes
    BY <1>3, <2>2
  <2> QED BY <2>1, <2>2
<1>5. p = Runs /\ stage = "none" /\ Runs # Boot
  BY WhoExecutes, TrapsAssumption DEF IInv
<1>6. /\ kstack' = (IF FromProgram(cpu) THEN esp0 ELSE kstack) \o Pushed(cpu, code)
                        \o stub_pushes(stub)
      /\ stage' = stub.handler
  BY <1>1 DEF Enter
<1>7. pic' \in [irr : SUBSET Lines, master : SUBSET (0 .. 7), slave : SUBSET (8 .. 15)]
  BY DEF IInv, TypeOK
<1> QED BY <1>3, <1>4, <1>5, <1>6, <1>7, EntryPreserves

LEMMA SoftwareInterruptInv ==
    ASSUME IInv, NEW p \in Processes, NEW v \in Vectors, SoftwareInterrupt(p, v)
    PROVE  IInv'
<1>1. v \in 0 .. 255
  BY TrapsAssumption
<1>2. Executes(p)
  BY DEF SoftwareInterrupt
<1>3. UNCHANGED <<processes, current, _init, regs, cpu, ds, cr3, pic, mode, progress, awaits, early>>
  BY DEF SoftwareInterrupt
<1>4. CASE ProgramMayUse(idt[v])
  <2>1. v = 128
    BY <1>1, <1>4, Gates
  <2>2. v \notin ErrorCodes
    BY <2>1 DEF ErrorCodes
  <2>3. Enter(v, <<>>)
    BY <1>4 DEF SoftwareInterrupt
  <2>4. PICK code : code = <<>>
    OBVIOUS
  <2>5. code \in Seq(Words) /\ Len(code) = 0 /\ Enter(v, code)
    BY <2>3, <2>4
  <2> QED BY <1>1, <1>2, <1>3, <2>1, <2>2, <2>5, IsrEntry
<1>5. CASE ~ProgramMayUse(idt[v])
  <2>1. 13 \in 0 .. 255 /\ 13 < 32 /\ 13 \in ErrorCodes
    BY DEF ErrorCodes
  <2>2. Enter(13, <<Number(8 * v + 2)>>)
    BY <1>5 DEF SoftwareInterrupt
  <2>3. PICK code : code = <<Number(8 * v + 2)>>
    OBVIOUS
  <2>4. Number(8 * v + 2) \in Words
    BY <1>1, WordFacts
  <2>5. code \in Seq(Words) /\ Len(code) = 1 /\ Enter(13, code)
    BY <2>2, <2>3, <2>4
  <2> QED BY <1>2, <1>3, <2>1, <2>5, IsrEntry
<1> QED BY <1>4, <1>5

LEMMA ExceptionInv ==
    ASSUME IInv, NEW p \in Processes, NEW v \in Vectors, Exception(p, v)
    PROVE  IInv'
<1>1. v \in 0 .. 255 /\ v < 32
  BY TrapsAssumption DEF Exception
<1>2. Executes(p)
  BY DEF Exception
<1>3. UNCHANGED <<processes, current, _init, regs, cpu, ds, cr3, pic, mode, progress, awaits, early>>
  BY DEF Exception
<1>4. PICK code : code = IF v \in ErrorCodes THEN <<Number(0)>> ELSE <<>>
  OBVIOUS
<1>5. Number(0) \in Words
  BY WordFacts
<1>6. code \in Seq(Words) /\ Len(code) = IF v \in ErrorCodes THEN 1 ELSE 0
  BY <1>4, <1>5
<1>7. Enter(v, code)
  BY <1>4 DEF Exception
<1> QED BY <1>1, <1>2, <1>3, <1>6, <1>7, IsrEntry

LEMMA PicTypes ==
    ASSUME NEW c \in [irr : SUBSET Lines, master : SUBSET (0 .. 7), slave : SUBSET (8 .. 15)],
           NEW n \in Lines
    PROVE  /\ Acknowledged(c, n)
                \in [irr : SUBSET Lines, master : SUBSET (0 .. 7), slave : SUBSET (8 .. 15)]
           /\ pic_send_eoi(c, n)
                \in [irr : SUBSET Lines, master : SUBSET (0 .. 7), slave : SUBSET (8 .. 15)]
<1>1. n \in 0 .. 15 /\ MasterLine(n) \in 0 .. 7
  BY TrapsAssumption DEF MasterLine
<1>2. {m \in {n} : m >= 8} \subseteq 8 .. 15
  BY <1>1
<1> QED BY <1>1, <1>2 DEF Acknowledged, pic_send_eoi, Eoi

\* The stub of line n is what its vector leads to.
LEMMA LineStub ==
    ASSUME NEW n \in Lines
    PROVE  /\ idt[Vector(n)].stub = irq(n) /\ n \in Nat
           /\ irq(n).pushes \in Seq(Nat) /\ irq(n).handler = "irq"
           /\ Len(irq(n).pushes) = 2 /\ irq(n).pushes[2] = n
<1>1. n \in 0 .. 15 /\ n \in Nat
  BY TrapsAssumption
<1>2. PICK v : v = Vector(n)
  OBVIOUS
<1>3. v = 32 + n
  BY <1>1, <1>2, Vectors32
<1>4. v \in 0 .. 255 /\ v \in 32 .. 47 /\ v - 32 = n
  BY <1>1, <1>3
<1>5. idt[v].stub = irq(n)
  BY <1>4, Gates
<1> QED BY <1>1, <1>2, <1>5, StubPushes

LEMMA TakeInterruptInv ==
    ASSUME IInv, NEW n \in Lines, TakeInterrupt(n)
    PROVE  IInv'
<1>1. PICK stub : stub = irq(n)
  OBVIOUS
<1>2. PICK code : code = <<>>
  OBVIOUS
<1>3. code \in Seq(Words) /\ Len(code) = 0
  BY <1>2
<1>4. /\ stub.pushes \in Seq(Nat) /\ stub.handler = "irq"
      /\ Len(stub.pushes) = 2 /\ stub.pushes[2] = n
  BY <1>1, LineStub
<1>5. Len(code) + Len(stub.pushes) = 2 /\ Len(stub.pushes) >= 1 /\ stub.pushes[Len(stub.pushes)] \in Lines
  BY <1>3, <1>4
<1>6. /\ kstack' = (IF FromProgram(cpu) THEN esp0 ELSE kstack) \o Pushed(cpu, code)
                        \o stub_pushes(stub)
      /\ stage' = stub.handler
  BY <1>1, <1>2, LineStub DEF TakeInterrupt, Enter
<1>7. pic' \in [irr : SUBSET Lines, master : SUBSET (0 .. 7), slave : SUBSET (8 .. 15)]
  BY PicTypes DEF IInv, TypeOK, TakeInterrupt
<1>8. stage = "none"
  BY DEF TakeInterrupt, InterruptsOn
<1>9. UNCHANGED <<processes, current, _init, regs, cpu, ds, cr3, mode, progress, awaits, early>>
  BY DEF TakeInterrupt
<1> QED BY <1>3, <1>4, <1>5, <1>6, <1>7, <1>8, <1>9, EntryPreserves
-----------------------------------------------------------------------------
(* The handlers preserve the invariant. *)

LEMMA StackTall ==
    ASSUME IInv, stage # "none"
    PROVE  /\ kstack \in Seq(Words) /\ Len(kstack) >= 14
           /\ State \in [Range(Fields) -> Words]
<1>1. kstack \in Seq(Words) /\ Len(kstack) \in {14, 16}
  BY DEF IInv, TypeOK, StackShape
<1>2. ASSUME NEW x \in {14, 16} PROVE x >= 14
  OBVIOUS
<1>3. Len(kstack) >= 14
  BY <1>1, <1>2
<1> QED BY <1>1, <1>3, StateAtType DEF State

\* A handler that copies a struct of the right computation into place.
LEMMA CopyIntoPlace ==
    ASSUME IInv, stage # "none", NEW s \in [Range(Fields) -> Words],
           kstack' = WithState(kstack, s)
    PROVE  /\ kstack' \in Seq(Words) /\ Len(kstack') = Len(kstack) /\ State' = s
           /\ Len(kstack') = 16 => kstack'[1] = Magic /\ kstack'[2] = Mbd
<1>1. PICK k : k = kstack'
  OBVIOUS
<1>2. /\ k \in Seq(Words) /\ Len(k) = Len(kstack)
      /\ \A i \in 1 .. (Len(kstack) - 14) : k[i] = kstack[i]
      /\ StateAt(k) = s
  BY <1>1, StackTall, WithStateEffect
<1>3. ASSUME Len(k) = 16 PROVE k[1] = Magic /\ k[2] = Mbd
  <2>1. kstack[1] = Magic /\ kstack[2] = Mbd /\ Len(kstack) = 16
    BY <1>2, <1>3 DEF IInv, StackShape
  <2>2. 1 \in 1 .. (16 - 14) /\ 2 \in 1 .. (16 - 14)
    OBVIOUS
  <2> QED BY <1>2, <2>1, <2>2
<1> QED BY <1>1, <1>2, <1>3 DEF State

LEMMA SyscallInv ==
    ASSUME IInv, stage = "isr", syscall_handler, stage' = "leave",
           UNCHANGED <<processes, current, _init, regs, cpu, ds, cr3, pic, mode, progress, early>>
    PROVE  IInv'
<1> DEFINE s == [State EXCEPT !["eax"] = Result]
<1>1. Runs \in Computations /\ Runs # Boot /\ Holds(State, Runs)
  BY SlotType DEF IInv, StackShape, CurrentRuns
<1>2. State["eip"][2] = Runs
  <2>1. State["eip"] = <<"eip", Runs, progress[Runs]>>
    BY <1>1, StructFacts DEF IInv
  <2> QED BY <2>1
<1>3. awaits' = [awaits EXCEPT ![Runs] = TRUE]
  BY <1>2 DEF syscall_handler
<1>4. awaits \in [Computations -> BOOLEAN]
  BY DEF IInv, TypeOK
<1>5. s \in [Range(Fields) -> Words] /\ \A r \in Registers : s[r] = IF r = "eax" THEN Result ELSE State[r]
  BY StackTall, WordFacts, RegistersValue
<1>6. kstack' = WithState(kstack, s)
  BY DEF syscall_handler
<1> HIDE DEF s
<1>7. /\ kstack' \in Seq(Words) /\ Len(kstack') = Len(kstack) /\ State' = s
      /\ Len(kstack') = 16 => kstack'[1] = Magic /\ kstack'[2] = Mbd
  BY <1>5, <1>6, CopyIntoPlace
<1>8. TypeOK'
  BY <1>3, <1>4, <1>7 DEF IInv, TypeOK
<1>9. Runs' = Runs /\ \A i : Slot(i)' = Slot(i)
  BY SameSlots
\* Only what Runs must find changes, and only eax of it.
<1>10. /\ \A w \in Computations \ {Runs} : \A r \in Registers : InStruct(w, r)' = InStruct(w, r)
       /\ \A r \in Registers : InStruct(Runs, r)' = IF r = "eax" THEN Result ELSE InStruct(Runs, r)
  <2>1. ASSUME NEW w \in Computations \ {Runs} PROVE Expected(w)' = Expected(w)
    <3>1. awaits'[w] = awaits[w]
      BY <1>3, <1>4
    <3> QED BY <3>1 DEF Expected
  <2>2. \A r : Beneath(r)' = Beneath(r)
    BY DEF Beneath
  <2>3. awaits'[Runs] = TRUE
    BY <1>1, <1>3, <1>4
  <2>4. PICK w : w = Runs
    OBVIOUS
  <2>5. w \in Computations /\ awaits'[w]
    BY <1>1, <2>3, <2>4
  <2>6. progress[w] \in Nat
    BY <2>5, TrapsAssumption DEF IInv, TypeOK, Idle
  <2>7. \A r \in Registers : Expected(w)'[r] = IF r = "eax" THEN Result ELSE FileAt(w, progress[w])[r]
    <3>1. FileAt(w, progress[w]) \in [Registers -> Words] /\ "eax" \in Registers
      BY <2>5, <2>6, FileAtValue, RegistersValue
    <3>2. Expected(w)' = [FileAt(w, progress[w]) EXCEPT !["eax"] = Result]
      BY <2>5 DEF Expected
    <3> QED BY <3>1, <3>2
  <2>8. \A r \in Registers : r # "eax" => Expected(w)[r] = FileAt(w, progress[w])[r]
    BY <2>5, ExpectedValue DEF IInv
  <2>9. \A r \in Registers : Expected(w)'[r] = IF r = "eax" THEN Result ELSE Expected(w)[r]
    BY <2>7, <2>8
  <2>10. \A r \in Registers : InStruct(w, r)' = IF r = "eax" THEN Result ELSE InStruct(w, r)
    BY <1>1, <2>4, <2>9 DEF InStruct
  <2>11. ASSUME NEW x \in Computations \ {Runs}, NEW r \in Registers
         PROVE  InStruct(x, r)' = InStruct(x, r)
    <3>1. Expected(x)' = Expected(x)
      BY <2>1
    <3> QED BY <2>2, <3>1 DEF InStruct
  <2>12. \A r \in Registers : InStruct(Runs, r)' = IF r = "eax" THEN Result ELSE InStruct(Runs, r)
    BY <1>9, <2>4, <2>10
  <2> QED BY <2>11, <2>12
<1>11. CurrentRuns'
  <2>1. \A r \in Registers : State'[r] = InStruct(Runs, r)'
    BY <1>1, <1>5, <1>7, <1>10 DEF Holds
  <2>2. Holds(State, Runs)'
    BY <2>1 DEF Holds
  <2> QED BY <2>2 DEF IInv, CurrentRuns
<1>12. OthersSaved'
  <2> SUFFICES ASSUME NEW i \in DOMAIN processes, i # current, NEW r \in Registers
               PROVE  regs[processes[i]][r] = InStruct(Slot(i), r)'
    BY DEF OthersSaved, Holds
  <2>1. Slot(i) # Runs /\ Slot(i) \in Computations
    <3>1. current \in DOMAIN processes
      BY DEF IInv, TypeOK, CurrentRuns
    <3>2. Runs = Slot(current) /\ current # 1
      BY <1>1 DEF Runs, Slot
    <3>3. processes[i] # processes[current]
      BY <3>1 DEF IInv, NoDuplicates
    <3>4. i = 1 => Slot(i) = Boot
      BY DEF Slot
    <3> QED BY <1>1, <3>2, <3>3, <3>4, SlotType DEF Slot, IInv
  <2>2. regs[processes[i]][r] = InStruct(Slot(i), r)
    BY DEF IInv, OthersSaved, Holds
  <2>3. PICK w : w = Slot(i)
    OBVIOUS
  <2>4. InStruct(w, r)' = InStruct(w, r)
    BY <1>10, <2>1, <2>3
  <2> QED BY <1>9, <2>2, <2>3, <2>4
<1>13. NotStarted'
  <2>1. \A p \in Processes \ Range(processes) : p # Runs
    <3>1. current # 0 /\ current \in DOMAIN processes /\ Runs = processes[current]
      BY <1>1 DEF Runs, Slot, IInv, TypeOK
    <3> QED BY <3>1 DEF Range
  <2>2. \A w \in Computations : w # Runs => awaits'[w] = awaits[w]
    BY <1>3, <1>4
  <2>3. Boot \in Computations /\ Processes \subseteq Computations
    BY DEF Computations
  <2> QED BY <1>1, <2>1, <2>2, <2>3 DEF IInv, NotStarted
<1>14. NoDuplicates'
  BY DEF IInv, NoDuplicates
<1>15. StackShape'
  BY <1>7, <1>9 DEF IInv, StackShape
<1> QED BY <1>8, <1>11, <1>12, <1>13, <1>14, <1>15 DEF IInv

\* Steps that leave the stack, the registers and the processes alone.
LEMMA QuietInv ==
    ASSUME IInv, stage' = stage \/ (stage # "none" /\ stage' = "leave"),
           pic' \in [irr : SUBSET Lines, master : SUBSET (0 .. 7), slave : SUBSET (8 .. 15)],
           mode' \in {"running", "hung", "lost"}, _init' \in BOOLEAN,
           UNCHANGED <<processes, current, regs, cpu, ds, kstack, cr3, progress, awaits, early>>
    PROVE  IInv'
<1>1. NoDuplicates' /\ OthersSaved' /\ NotStarted'
  BY SameHistory
<1>2. TypeOK'
  BY DEF IInv, TypeOK
<1>3. Runs' = Runs /\ State' = State /\ progress' = progress /\ kstack' = kstack
  BY SameSlots DEF State
<1>4. CurrentRuns'
  <2>1. ASSUME stage' = "none" PROVE \A r \in Registers : cpu'[r] = Expected(Runs)'[r]
    <3>1. stage = "none"
      BY <2>1
    <3>2. \A r \in Registers : cpu[r] = Expected(Runs)[r]
      BY <3>1 DEF IInv, CurrentRuns
    <3>3. Expected(Runs)' = Expected(Runs)
      BY <1>3 DEF Expected
    <3> QED BY <3>2, <3>3
  <2>2. ASSUME stage' # "none" PROVE Holds(State, Runs)'
    <3>1. stage # "none"
      BY <2>2
    <3>2. \A r \in Registers : State[r] = InStruct(Runs, r)
      BY <3>1 DEF IInv, CurrentRuns, Holds
    <3>3. \A r \in Registers : State'[r] = InStruct(Runs, r)'
      BY <1>3, <3>2, SameExpected
    <3> QED BY <3>3 DEF Holds
  <2> QED BY <2>1, <2>2 DEF IInv, CurrentRuns
<1>5. StackShape'
  <2>1. \A r : Beneath(r)' = Beneath(r)
    BY DEF Beneath
  <2> QED BY <1>3, <2>1 DEF IInv, StackShape
<1> QED BY <1>1, <1>2, <1>4, <1>5 DEF IInv

LEMMA IsrHandlerInv ==
    ASSUME IInv, isr_handler
    PROVE  IInv'
<1>1. stage = "isr" /\ mode = "running"
      /\ UNCHANGED <<processes, current, _init, regs, cpu, ds, cr3, pic, progress, early>>
  BY DEF isr_handler
<1>2. pic' \in [irr : SUBSET Lines, master : SUBSET (0 .. 7), slave : SUBSET (8 .. 15)]
      /\ _init' \in BOOLEAN
  BY <1>1 DEF IInv, TypeOK
<1>3. CASE syscall_handler /\ stage' = "leave" /\ UNCHANGED mode
  BY <1>1, <1>3, SyscallInv
<1>4. CASE mode' = "hung" /\ UNCHANGED <<kstack, stage, awaits>>
  BY <1>1, <1>2, <1>4, QuietInv
<1>5. CASE stage' = "leave" /\ UNCHANGED <<kstack, mode, awaits>>
  BY <1>1, <1>2, <1>5, QuietInv
<1> QED BY <1>3, <1>4, <1>5 DEF isr_handler

\* switch_process, when it switches: the struct on the stack becomes the next
\* process's, or is kept if there is one process only.
LEMMA SwitchEffect ==
    ASSUME IInv, stage = "irq", switch_process, _init, current # 0
    PROVE  LET next == IF current < Len(processes) THEN current + 1 ELSE 1
           IN  /\ current \in DOMAIN processes /\ next \in DOMAIN processes
               /\ current' = next /\ cr3' = processes[next]
               /\ regs' = [regs EXCEPT ![processes[current]] = State]
               /\ regs' \in [Processes -> [Range(Fields) -> Words]]
               /\ kstack' \in Seq(Words) /\ Len(kstack') = Len(kstack)
               /\ Len(kstack') = 16 => kstack'[1] = Magic /\ kstack'[2] = Mbd
               /\ State' = regs'[processes[next]]
               /\ Holds(State', Slot(next))
               /\ early' = (early \/ (State["eip"][2] = Boot /\ progress[Boot] = Kmain))
<1> DEFINE next == IF current < Len(processes) THEN current + 1 ELSE 1
           saved == [regs EXCEPT ![processes[current]] = State]
<1>1. current \in DOMAIN processes /\ next \in DOMAIN processes
  BY DEF IInv, TypeOK
<1>2. processes[current] \in Processes /\ processes[next] \in Processes
  BY <1>1 DEF IInv, TypeOK
<1>3. /\ regs' = saved /\ current' = next /\ cr3' = processes[next]
      /\ kstack' = WithState(kstack, saved[processes[next]])
      /\ early' = (early \/ (State["eip"][2] = Boot /\ progress[Boot] = Kmain))
  BY DEF switch_process
<1>4. saved \in [Processes -> [Range(Fields) -> Words]]
  <2>1. State \in [Range(Fields) -> Words]
    BY StackTall
  <2> QED BY <2>1 DEF IInv, TypeOK
<1>5. saved[processes[next]] = IF next = current THEN State ELSE regs[processes[next]]
  <2>1. next # current => processes[next] # processes[current]
    BY <1>1 DEF IInv, NoDuplicates
  <2> HIDE DEF next
  <2> QED BY <1>2, <2>1 DEF IInv, TypeOK
<1>6. Holds(saved[processes[next]], Slot(next))
  <2>1. CASE next = current
    <3>1. Holds(State, Slot(current))
      BY DEF IInv, CurrentRuns, Runs
    <3> HIDE DEF next, saved
    <3> QED BY <1>5, <2>1, <3>1
  <2>2. CASE next # current
    <3> HIDE DEF next, saved
    <3>1. Holds(regs[processes[next]], Slot(next))
      BY <1>1, <2>2 DEF IInv, OthersSaved
    <3> QED BY <1>5, <2>2, <3>1
  <2> QED BY <2>1, <2>2
<1>7. saved[processes[next]] \in [Range(Fields) -> Words]
  <2> HIDE DEF next, saved
  <2> QED BY <1>2, <1>4
<1> HIDE DEF next, saved
<1>8. /\ kstack' \in Seq(Words) /\ Len(kstack') = Len(kstack) /\ State' = saved[processes[next]]
      /\ Len(kstack') = 16 => kstack'[1] = Magic /\ kstack'[2] = Mbd
  <2>1. PICK s : s = saved[processes[next]]
    OBVIOUS
  <2>2. s \in [Range(Fields) -> Words] /\ kstack' = WithState(kstack, s)
    BY <1>3, <1>7, <2>1
  <2>3. stage # "none"
    OBVIOUS
  <2>4. /\ kstack' \in Seq(Words) /\ Len(kstack') = Len(kstack) /\ State' = s
        /\ Len(kstack') = 16 => kstack'[1] = Magic /\ kstack'[2] = Mbd
    BY <2>2, <2>3, CopyIntoPlace
  <2> QED BY <2>1, <2>4
<1>9. Holds(State', Slot(next))
  BY <1>6, <1>8
<1>10. State' = regs'[processes[next]]
  BY <1>3, <1>8
<1> QED BY <1>1, <1>3, <1>4, <1>8, <1>9, <1>10, Zenon DEF next, saved

LEMMA SwitchInv ==
    ASSUME IInv, stage = "irq", switch_process, _init, current # 0, stage' = "leave",
           pic' \in [irr : SUBSET Lines, master : SUBSET (0 .. 7), slave : SUBSET (8 .. 15)],
           UNCHANGED <<processes, _init, cpu, ds, mode, progress, awaits>>
    PROVE  IInv'
<1> DEFINE next == IF current < Len(processes) THEN current + 1 ELSE 1
<1>1. /\ current \in DOMAIN processes /\ next \in DOMAIN processes
      /\ current' = next /\ cr3' = processes[next]
      /\ regs' = [regs EXCEPT ![processes[current]] = State]
      /\ regs' \in [Processes -> [Range(Fields) -> Words]]
      /\ kstack' \in Seq(Words) /\ Len(kstack') = Len(kstack)
      /\ Len(kstack') = 16 => kstack'[1] = Magic /\ kstack'[2] = Mbd
      /\ State' = regs'[processes[next]]
      /\ Holds(State', Slot(next))
      /\ early' = (early \/ (State["eip"][2] = Boot /\ progress[Boot] = Kmain))
  BY SwitchEffect
<1> HIDE DEF next
<1>2. \A i : Slot(i)' = Slot(i)
  BY DEF Slot
<1>3. \A w : \A r : InStruct(w, r)' = InStruct(w, r)
  BY SameExpected
<1>4. Runs' = Slot(next)
  <2>1. next # 0
    BY <1>1 DEF IInv, TypeOK
  <2> QED BY <1>1, <1>2, <2>1 DEF Runs
<1>5. TypeOK'
  <2>1. current' \in 0 .. Len(processes')
    <3>1. processes \in Seq(Processes) /\ processes' = processes
      BY DEF IInv, TypeOK
    <3>2. current' \in DOMAIN processes
      BY <1>1
    <3> QED BY <3>1, <3>2
  <2>2. cr3' \in Computations
    BY <1>1 DEF IInv, TypeOK, Computations
  <2>3. early' \in BOOLEAN
    BY <1>1 DEF IInv, TypeOK
  <2> QED BY <1>1, <2>1, <2>2, <2>3 DEF IInv, TypeOK
<1>6. CurrentRuns'
  <2>1. \A r \in Registers : State'[r] = InStruct(Slot(next), r)
    BY <1>1 DEF Holds
  <2>2. PICK w : w = Slot(next)
    OBVIOUS
  <2>3. \A r \in Registers : State'[r] = InStruct(w, r)'
    BY <1>3, <2>1, <2>2
  <2>4. Holds(State, Runs)'
    BY <1>4, <2>2, <2>3 DEF Holds
  <2>5. current' # 0 /\ processes # <<>>
    BY <1>1 DEF IInv, TypeOK
  <2> QED BY <2>4, <2>5 DEF CurrentRuns
<1>7. OthersSaved'
  <2> SUFFICES ASSUME NEW i \in DOMAIN processes, i # next, NEW r \in Registers
               PROVE  regs'[processes[i]][r] = InStruct(Slot(i), r)'
    BY <1>1 DEF OthersSaved, Holds
  <2>1. PICK w : w = Slot(i)
    OBVIOUS
  <2>2. InStruct(Slot(i), r)' = InStruct(w, r)
    BY <1>2, <1>3, <2>1
  <2>3. CASE i = current
    <3>1. regs'[processes[i]] = State
      BY <1>1, <2>3 DEF IInv, TypeOK
    <3>2. Holds(State, Slot(current))
      BY DEF IInv, CurrentRuns, Runs
    <3> QED BY <2>1, <2>2, <2>3, <3>1, <3>2 DEF Holds
  <2>4. CASE i # current
    <3>1. processes[i] # processes[current]
      BY <1>1, <2>4 DEF IInv, NoDuplicates
    <3>2. regs'[processes[i]] = regs[processes[i]]
      BY <1>1, <3>1 DEF IInv, TypeOK
    <3>3. Holds(regs[processes[i]], Slot(i))
      BY <2>4 DEF IInv, OthersSaved
    <3> QED BY <2>1, <2>2, <3>2, <3>3 DEF Holds
  <2> QED BY <2>3, <2>4
<1>8. NoDuplicates' /\ NotStarted'
  BY DEF IInv, NoDuplicates, NotStarted
<1>9. StackShape'
  BY <1>1 DEF IInv, StackShape
<1> QED BY <1>5, <1>6, <1>7, <1>8, <1>9 DEF IInv

LEMMA IrqHandlerInv ==
    ASSUME IInv, irq_handler
    PROVE  IInv'
<1>1. stage = "irq" /\ stage' = "leave" /\ UNCHANGED <<processes, _init, cpu, ds, mode, progress, awaits>>
  BY DEF irq_handler
<1>2. State["interrupt_number"][3] \in Lines
  BY <1>1 DEF IInv, StackShape
<1>3. pic' = pic_send_eoi(pic, State["interrupt_number"][3])
  BY DEF irq_handler
<1>4. pic' \in [irr : SUBSET Lines, master : SUBSET (0 .. 7), slave : SUBSET (8 .. 15)]
  BY <1>2, <1>3, PicTypes DEF IInv, TypeOK
<1>5. CASE switch_process /\ _init /\ current # 0
  BY <1>1, <1>4, <1>5, SwitchInv
<1>6. CASE UNCHANGED <<current, regs, kstack, cr3, early>>
  <2>1. mode' \in {"running", "hung", "lost"} /\ _init' \in BOOLEAN
    BY <1>1 DEF IInv, TypeOK
  <2> QED BY <1>1, <1>4, <1>6, <2>1, QuietInv
<1>7. \/ switch_process
      \/ UNCHANGED <<current, regs, kstack, cr3, early>>
  BY DEF irq_handler
<1>8. ASSUME switch_process, ~(_init /\ current # 0) PROVE UNCHANGED <<current, regs, kstack, cr3, early>>
  BY <1>8 DEF switch_process
<1> QED BY <1>5, <1>6, <1>7, <1>8
-----------------------------------------------------------------------------
(* Leaving preserves the invariant. *)

LEMMA Popped ==
    ASSUME NEW s \in Seq(Words), NEW m \in 0 .. Len(s)
    PROVE  /\ SubSeq(s, 1, m) \in Seq(Words) /\ Len(SubSeq(s, 1, m)) = m
           /\ \A i \in 1 .. m : SubSeq(s, 1, m)[i] = s[i]
OBVIOUS

\* iret accepts every frame there is, and goes to who Runs.
LEMMA LeaveEffect ==
    ASSUME IInv, Leave
    PROVE  /\ mode = "running" /\ stage = "leave" /\ stage' = "none"
           /\ UNCHANGED <<processes, current, _init, regs, cr3, pic, mode, progress, awaits, early>>
           /\ cpu' = [r \in Registers |->
                        IF r \in {"esp", "ss"} /\ Runs = Boot
                        THEN FileAt(Boot, progress[Boot])[r] ELSE State[r]]
           /\ Pops(State) = IF Runs = Boot THEN 12 ELSE 14
           /\ ds' = IF Runs # Boot /\ ds = "kernel" THEN "null" ELSE ds
           /\ kstack' = SubSeq(kstack, 1, Len(kstack) - Pops(State))
           /\ Len(kstack') = Len(kstack) - Pops(State)
           /\ kstack' \in Seq(Words)
           /\ \A i \in 1 .. (Len(kstack) - Pops(State)) : kstack'[i] = kstack[i]
<1>1. mode = "running" /\ stage = "leave" /\ stage' = "none"
  BY DEF Leave
<1>2. Runs \in Computations /\ Holds(State, Runs)
  BY <1>1, SlotType DEF IInv, CurrentRuns
<1>3. /\ State["cs"] = <<"cs", Runs, IF Runs = Boot THEN 8 ELSE 27>>
      /\ Runs # Boot => State["ss"] = <<"ss", Runs, 35>>
      /\ FromProgram(State) <=> Runs # Boot
  BY <1>2, StructFacts DEF IInv
<1>4. /\ State["cs"][3] = IF Runs = Boot THEN 8 ELSE 27
      /\ Runs # Boot => State["ss"][3] = 35
  BY <1>3
<1>5. ValidCode(State["cs"][3])
  BY <1>4, SelectorFacts
<1>6. FromProgram(State) => ValidStack(State["ss"][3], State["cs"][3])
  BY <1>3, <1>4, SelectorFacts
<1>7. /\ cpu' = [r \in Registers |->
                    IF r \in {"esp", "ss"} /\ ~FromProgram(State)
                    THEN FileAt(Boot, progress[Boot])[r] ELSE State[r]]
      /\ kstack' = SubSeq(kstack, 1, Len(kstack) - Pops(State))
      /\ ds' = IF FromProgram(State) /\ ds = "kernel" THEN "null" ELSE ds
      /\ UNCHANGED mode
  BY <1>5, <1>6 DEF Leave
<1>8. cpu' = [r \in Registers |->
                IF r \in {"esp", "ss"} /\ Runs = Boot
                THEN FileAt(Boot, progress[Boot])[r] ELSE State[r]]
  BY <1>3, <1>7
<1>9. Pops(State) = IF Runs = Boot THEN 12 ELSE 14
  BY <1>3 DEF Pops
<1>10. PICK m : m = Len(kstack) - Pops(State)
  OBVIOUS
<1>11. kstack \in Seq(Words) /\ Len(kstack) >= 14
  BY <1>1, StackTall
<1>12. m \in 0 .. Len(kstack)
  <2>1. PICK n : n = Len(kstack)
    OBVIOUS
  <2>2. PICK d : d = Pops(State)
    OBVIOUS
  <2>3. n \in Nat /\ n >= 14 /\ d \in {12, 14}
    BY <1>9, <1>11, <2>1, <2>2
  <2>4. n - d \in 0 .. n
    BY <2>3
  <2> QED BY <1>10, <2>1, <2>2, <2>4
<1>13. /\ kstack' \in Seq(Words) /\ Len(kstack') = m
       /\ \A i \in 1 .. m : kstack'[i] = kstack[i]
  BY <1>7, <1>10, <1>11, <1>12, Popped
<1>14. UNCHANGED <<processes, current, _init, regs, cr3, pic, progress, awaits, early>>
  BY DEF Leave
<1>15. ds' = IF Runs # Boot /\ ds = "kernel" THEN "null" ELSE ds
  BY <1>3, <1>7
<1> QED BY <1>1, <1>7, <1>8, <1>9, <1>10, <1>13, <1>14, <1>15

LEMMA LeaveInv ==
    ASSUME IInv, Leave
    PROVE  IInv'
<1>1. /\ mode = "running" /\ stage = "leave" /\ stage' = "none"
      /\ UNCHANGED <<processes, current, _init, regs, cr3, pic, mode, progress, awaits, early>>
      /\ cpu' = [r \in Registers |->
                    IF r \in {"esp", "ss"} /\ Runs = Boot
                    THEN FileAt(Boot, progress[Boot])[r] ELSE State[r]]
      /\ Pops(State) = IF Runs = Boot THEN 12 ELSE 14
      /\ ds' = IF Runs # Boot /\ ds = "kernel" THEN "null" ELSE ds
      /\ Len(kstack') = Len(kstack) - Pops(State)
      /\ kstack' \in Seq(Words)
      /\ \A i \in 1 .. (Len(kstack) - Pops(State)) : kstack'[i] = kstack[i]
  BY LeaveEffect
<1>2. NoDuplicates' /\ OthersSaved' /\ NotStarted'
  BY <1>1, SameHistory
<1>3. Runs' = Runs /\ Runs \in Computations /\ Boot \in Computations
  BY <1>1, SameSlots, SlotType DEF IInv, Computations
<1>4. progress[Boot] \in Nat
  BY <1>3, TrapsAssumption DEF IInv, TypeOK, Idle
<1>5. \A r \in Registers : cpu'[r] = Expected(Runs)[r]
  <2>1. \A r \in Registers : State[r] = InStruct(Runs, r)
    BY <1>1 DEF IInv, CurrentRuns, Holds
  <2>2. CASE Runs # Boot
    BY <1>1, <2>1, <2>2 DEF InStruct
  <2>3. CASE Runs = Boot
    <3>1. ~awaits[Boot]
      BY DEF IInv, NotStarted
    <3>2. \A r \in Registers : Expected(Boot)[r] = FileAt(Boot, progress[Boot])[r]
      BY <1>3, <3>1, ExpectedValue DEF IInv
    <3> QED BY <1>1, <2>1, <2>3, <3>2 DEF InStruct
  <2> QED BY <2>2, <2>3
<1>6. cpu' \in [Registers -> Words]
  <2>1. \A r \in Registers : Expected(Runs)[r] \in Words
    BY <1>3, ExpectedValue DEF IInv
  <2> QED BY <1>1, <1>5, <2>1
<1>7. Len(kstack') <= 16
  <2>1. PICK n : n = Len(kstack)
    OBVIOUS
  <2>2. PICK d : d = Pops(State)
    OBVIOUS
  <2>3. n \in {14, 16} /\ d \in {12, 14}
    BY <1>1, <2>1, <2>2 DEF IInv, StackShape
  <2>4. n - d <= 16
    BY <2>3
  <2> QED BY <1>1, <2>1, <2>2, <2>4
<1>8. TypeOK'
  <2>1. (Len(kstack) <= StackBound)'
    BY <1>7, StackBoundValue
  <2>2. ds' \in {"kernel", "null", "user"}
    BY <1>1 DEF IInv, TypeOK
  <2> QED BY <1>1, <1>6, <2>1, <2>2 DEF IInv, TypeOK, StackBound
<1>9. CurrentRuns'
  <2>1. Expected(Runs)' = Expected(Runs)
    BY <1>1, <1>3 DEF Expected
  <2> QED BY <1>1, <1>5, <2>1 DEF IInv, CurrentRuns
<1>10. ASSUME Runs = Boot
       PROVE  \/ Len(kstack') = 2 /\ kstack'[1] = Beneath("ss") /\ kstack'[2] = Beneath("esp")
              \/ progress[Boot] = Kmain /\ kstack' = KmainStack
  <2>1. State["ss"] = Beneath("ss") /\ State["esp"] = Beneath("esp")
    BY <1>1, <1>10, RegistersValue DEF IInv, CurrentRuns, Holds, InStruct
  <2>2. kstack \in Seq(Words) /\ Len(kstack) >= 14
    BY <1>1, StackTall
  <2>3. 1 \in 1 .. 14 /\ 2 \in 1 .. 14
    OBVIOUS
  <2>4. State["ss"] = kstack[Len(kstack) - 14 + 1] /\ State["esp"] = kstack[Len(kstack) - 14 + 2]
    <3>1. /\ StateAt(kstack)[Fields[1]] = kstack[Len(kstack) - 14 + 1]
          /\ StateAt(kstack)[Fields[2]] = kstack[Len(kstack) - 14 + 2]
      BY <2>2, <2>3, StateAtField
    <3> QED BY <3>1, FieldsValue DEF State
  <2>5. Len(kstack') = Len(kstack) - 12 /\ \A i \in 1 .. (Len(kstack) - 12) : kstack'[i] = kstack[i]
    BY <1>1, <1>10
  <2>6. Len(kstack) \in {14, 16}
    BY <1>1 DEF IInv, StackShape
  <2>7. CASE Len(kstack) = 14
    <3>1. kstack[1] = Beneath("ss") /\ kstack[2] = Beneath("esp")
      <4>1. 14 - 14 + 1 = 1 /\ 14 - 14 + 2 = 2
        OBVIOUS
      <4> QED BY <2>1, <2>4, <2>7, <4>1, Zenon
    <3>2. 14 - 12 = 2 /\ 1 \in 1 .. 2 /\ 2 \in 1 .. 2
      OBVIOUS
    <3>3. Len(kstack') = 2 /\ kstack'[1] = kstack[1] /\ kstack'[2] = kstack[2]
      BY <2>5, <2>7, <3>2, Zenon
    <3> QED BY <3>1, <3>3, Zenon
  <2>8. CASE Len(kstack) = 16
    <3>1. progress[Boot] = Kmain /\ kstack[1] = Magic /\ kstack[2] = Mbd
      BY <1>1, <2>8 DEF IInv, StackShape
    <3>2. kstack[3] = Beneath("ss") /\ kstack[4] = Beneath("esp")
      <4>1. 16 - 14 + 1 = 3 /\ 16 - 14 + 2 = 4
        OBVIOUS
      <4> QED BY <2>1, <2>4, <2>8, <4>1, Zenon
    <3>3. Beneath("ss") = <<"return", Boot, 0>> /\ Beneath("esp") = <<"locals", Boot, 0>>
      BY <3>1 DEF Beneath, Kmain, Idle
    <3>4. 16 - 12 = 4 /\ 1 \in 1 .. 4 /\ 2 \in 1 .. 4 /\ 3 \in 1 .. 4 /\ 4 \in 1 .. 4
      OBVIOUS
    <3>5. /\ Len(kstack') = 4 /\ kstack'[1] = kstack[1] /\ kstack'[2] = kstack[2]
          /\ kstack'[3] = kstack[3] /\ kstack'[4] = kstack[4]
      BY <2>5, <2>8, <3>4, Zenon
    <3>6. /\ Len(kstack') = Len(KmainStack)
          /\ kstack'[1] = KmainStack[1] /\ kstack'[2] = KmainStack[2]
          /\ kstack'[3] = KmainStack[3] /\ kstack'[4] = KmainStack[4]
      BY <3>1, <3>2, <3>3, <3>5, KmainStackValue, Zenon
    <3>7. \A i \in 1 .. 4 : i = 1 \/ i = 2 \/ i = 3 \/ i = 4
      OBVIOUS
    <3>8. \A i \in 1 .. Len(kstack') : kstack'[i] = KmainStack[i]
      BY <3>5, <3>6, <3>7, Zenon
    <3>9. KmainStack \in Seq(Words) /\ kstack' \in Seq(Words)
      BY <1>1, KmainStackValue
    <3>10. Len(kstack') = Len(KmainStack)
      BY <3>6
    <3>11. kstack' = KmainStack
      BY <3>8, <3>9, <3>10, SeqEqual
    <3> QED BY <3>1, <3>11
  <2> QED BY <2>6, <2>7, <2>8
<1>11. StackShape'
  <2>1. \A r : Beneath(r)' = Beneath(r)
    BY <1>1 DEF Beneath
  <2> QED BY <1>1, <1>3, <1>10, <2>1 DEF StackShape
<1> QED BY <1>2, <1>8, <1>9, <1>11 DEF IInv
-----------------------------------------------------------------------------
(* The boot thread and the programs preserve the invariant. *)

\* A new process's frame.
LEMMA NewRegsValue ==
    ASSUME NEW p \in Processes
    PROVE  /\ NewRegs(p) \in [Range(Fields) -> Words]
           /\ \A r \in Registers : NewRegs(p)[r] = FileAt(p, 0)[r]
<1>1. p \in Computations
  BY DEF Computations
<1>2. FileAt(p, 0) \in [Registers -> Words] /\ Number(0) \in Words
  BY <1>1, FileAtValue, WordFacts
<1>3. NewRegs(p) = [f \in Range(Fields) |-> IF f \in Registers THEN FileAt(p, 0)[f] ELSE Number(0)]
  BY DEF NewRegs
<1>4. Registers \subseteq Range(Fields)
  BY RegistersValue
<1> QED BY <1>2, <1>3, <1>4, Zenon

LEMMA InitInv == Init => IInv
<1> SUFFICES ASSUME Init PROVE IInv
  OBVIOUS
<1>1. Boot \in Computations /\ Processes \subseteq Computations
  BY DEF Computations
<1>2. /\ processes = <<>> /\ current = 0 /\ _init = FALSE /\ early = FALSE
      /\ regs = [p \in Processes |-> NewRegs(p)]
      /\ cpu = FileAt(Boot, Kmain) /\ kstack = KmainStack /\ stage = "none"
      /\ ds = "kernel" /\ cr3 = Boot /\ pic = IdlePic /\ mode = "running"
      /\ progress = [w \in Computations |-> 0] /\ awaits = [w \in Computations |-> FALSE]
  BY DEF Init
<1>3. DOMAIN processes = {} /\ Runs = Boot /\ progress[Boot] = Kmain /\ ~awaits[Boot]
  BY <1>1, <1>2 DEF Runs, Kmain
<1>4. TypeOK
  <2>1. regs \in [Processes -> [Range(Fields) -> Words]]
    BY <1>2, NewRegsValue
  <2>2. cpu \in [Registers -> Words]
    BY <1>1, <1>2, FileAtValue DEF Kmain
  <2>3. kstack \in Seq(Words) /\ Len(kstack) = 4
    BY <1>2, KmainStackValue, Zenon
  <2>4. Len(kstack) <= StackBound
    BY <2>3, StackBoundValue
  <2>5. processes \in Seq(Processes) /\ current \in 0 .. Len(processes)
    BY <1>2
  <2>6. pic \in [irr : SUBSET Lines, master : SUBSET (0 .. 7), slave : SUBSET (8 .. 15)]
    BY <1>2 DEF IdlePic
  <2>7. progress \in [Computations -> 0 .. (STEPS + Idle)] /\ awaits \in [Computations -> BOOLEAN]
    BY <1>2, Positions
  <2> QED BY <1>1, <1>2, <2>1, <2>2, <2>3, <2>4, <2>5, <2>6, <2>7 DEF TypeOK, StackBound
<1>5. CurrentRuns
  <2>1. \A r \in Registers : Expected(Boot)[r] = FileAt(Boot, progress[Boot])[r]
    BY <1>1, <1>3, <1>4, ExpectedValue
  <2> QED BY <1>2, <1>3, <2>1 DEF CurrentRuns
<1>6. NoDuplicates /\ OthersSaved
  BY <1>3 DEF NoDuplicates, OthersSaved
<1>7. NotStarted
  BY <1>1, <1>2 DEF NotStarted, Kmain
<1>8. StackShape
  BY <1>2, <1>3 DEF StackShape
<1> QED BY <1>4, <1>5, <1>6, <1>7, <1>8 DEF IInv

LEMMA CreateProcessInv ==
    ASSUME IInv, NEW p \in Processes, create_process(p)
    PROVE  IInv'
<1>1. /\ processes' = Append(processes, p) /\ p \notin Range(processes)
      /\ regs' = [regs EXCEPT ![p] = NewRegs(p)]
      /\ current' = IF processes = <<>> THEN 1 ELSE current
      /\ UNCHANGED <<_init, cpu, ds, kstack, stage, cr3, pic, mode, progress, awaits, early>>
  BY DEF create_process
<1>2. Runs = Boot /\ stage = "none" /\ stage' = "none"
  BY <1>1, WhoExecutes DEF IInv, create_process
<1>3. processes \in Seq(Processes) /\ current \in 0 .. Len(processes)
      /\ regs \in [Processes -> [Range(Fields) -> Words]]
  BY DEF IInv, TypeOK
<1>4. PICK n : n = Len(processes)
  OBVIOUS
<1>5. /\ processes' \in Seq(Processes) /\ n \in Nat
      /\ DOMAIN processes = 1 .. n /\ DOMAIN processes' = 1 .. (n + 1) /\ Len(processes') = n + 1
      /\ \A i \in 1 .. n : processes'[i] = processes[i]
      /\ processes'[n + 1] = p
  BY <1>1, <1>3, <1>4
<1>6. \A i \in 1 .. n : processes[i] # p /\ processes[i] \in Processes
  BY <1>1, <1>3, <1>5 DEF Range
<1>7. current \in {0, 1} /\ current' \in {1} /\ (current = 0 <=> n = 0)
  <2>1. current = 0 <=> processes = <<>>
    BY DEF IInv, CurrentRuns
  <2>2. processes = <<>> <=> n = 0
    BY <1>3, <1>4
  <2>3. current # 0 => current = 1
    <3>1. \A i \in DOMAIN processes : i # 1 => Slot(i) # Boot
      BY SlotType DEF IInv
    <3>2. current # 0 => current \in DOMAIN processes /\ Runs = Slot(current)
      BY <1>3 DEF Runs
    <3> QED BY <1>2, <3>1, <3>2
  <2> QED BY <1>1, <2>1, <2>2, <2>3
<1>8. Runs' = Boot
  BY <1>7 DEF Runs, Slot
<1>9. TypeOK'
  <2>1. current' \in 0 .. Len(processes')
    BY <1>5, <1>7
  <2>2. regs' \in [Processes -> [Range(Fields) -> Words]]
    BY <1>1, <1>3, NewRegsValue
  <2> QED BY <1>1, <1>5, <2>1, <2>2 DEF IInv, TypeOK
<1>10. NoDuplicates'
  <2>1. \A i, j \in 1 .. n : processes[i] = processes[j] => i = j
    BY <1>5 DEF IInv, NoDuplicates
  <2>2. \A i \in 1 .. (n + 1) : i \in 1 .. n \/ i = n + 1
    BY <1>5
  <2>3. \A i, j \in 1 .. (n + 1) : processes'[i] = processes'[j] => i = j
    BY <1>5, <1>6, <2>1, <2>2
  <2> QED BY <1>5, <2>3 DEF NoDuplicates
<1>11. CurrentRuns'
  <2>1. \A r \in Registers : cpu[r] = Expected(Boot)[r]
    BY <1>2 DEF IInv, CurrentRuns
  <2>2. Expected(Boot)' = Expected(Boot)
    BY <1>1 DEF Expected
  <2>3. \A r \in Registers : cpu'[r] = Expected(Runs)'[r]
    BY <1>1, <1>8, <2>1, <2>2 DEF Expected
  <2>4. current' # 0 /\ processes' # <<>>
    BY <1>5, <1>7
  <2> QED BY <1>2, <2>3, <2>4 DEF CurrentRuns
<1>12. OthersSaved'
  <2> SUFFICES ASSUME NEW i \in 1 .. (n + 1), i # 1, NEW r \in Registers
               PROVE  regs'[processes'[i]][r] = InStruct(Slot(i), r)'
    BY <1>5, <1>7 DEF OthersSaved, Holds
  <2>1. PICK w : w = processes'[i]
    OBVIOUS
  <2>2. w \in Processes /\ Slot(i)' = w
    BY <1>5, <2>1 DEF Slot
  <2>3. InStruct(Slot(i), r)' = InStruct(w, r)
    <3>1. InStruct(w, r)' = InStruct(w, r)
      BY <1>1, SameExpected
    <3> QED BY <2>2, <3>1
  <2>4. CASE i \in 1 .. n
    <3>1. w = processes[i] /\ w # p /\ regs'[w] = regs[w]
      BY <1>1, <1>3, <1>5, <1>6, <2>1, <2>4
    <3>2. i # current
      BY <1>7
    <3>3. regs[processes[i]][r] = InStruct(Slot(i), r) /\ Slot(i) = processes[i]
      BY <1>5, <2>4, <3>2 DEF IInv, OthersSaved, Holds, Slot
    <3> QED BY <2>1, <2>3, <3>1, <3>3
  <2>5. CASE i = n + 1
    <3>1. w = p /\ regs'[w] = NewRegs(p)
      BY <1>1, <1>3, <1>5, <2>1, <2>5
    <3>2. progress[p] = 0 /\ ~awaits[p] /\ p \in Computations /\ p # Boot
      BY <1>1, TrapsAssumption DEF IInv, NotStarted, Computations
    <3>3. Expected(p)[r] = FileAt(p, 0)[r]
      BY <3>2, ExpectedValue DEF IInv
    <3>4. InStruct(p, r) = Expected(p)[r]
      BY <3>2 DEF InStruct
    <3>5. NewRegs(p)[r] = FileAt(p, 0)[r]
      BY NewRegsValue
    <3> QED BY <2>1, <2>3, <3>1, <3>3, <3>4, <3>5
  <2> QED BY <1>5, <2>4, <2>5
<1>13. NotStarted'
  <2>1. Range(processes) \subseteq Range(processes')
    BY <1>5 DEF Range
  <2> QED BY <1>1, <2>1 DEF IInv, NotStarted
<1>14. StackShape'
  <2>1. \A r : Beneath(r)' = Beneath(r)
    BY <1>1 DEF Beneath
  <2> QED BY <1>1, <1>2, <2>1 DEF IInv, StackShape
<1> QED BY <1>9, <1>10, <1>11, <1>12, <1>13, <1>14 DEF IInv

\* A step of the computation that runs leaves what the others must find.
LEMMA OnlyRunsMoves ==
    ASSUME IInv, NEW x, NEW b,
           progress' = [progress EXCEPT ![Runs] = x], awaits' = [awaits EXCEPT ![Runs] = b],
           UNCHANGED <<processes, current, regs>>
    PROVE  NoDuplicates' /\ OthersSaved'
<1>1. NoDuplicates'
  BY DEF IInv, NoDuplicates
<1>2. /\ progress \in [Computations -> 0 .. (STEPS + Idle)] /\ awaits \in [Computations -> BOOLEAN]
      /\ Runs \in Computations /\ Boot \in Computations
  BY SlotType DEF IInv, TypeOK, Computations
<1>3. ASSUME NEW w \in Computations, w # Runs, NEW r \in Registers
      PROVE  InStruct(w, r)' = InStruct(w, r)
  <2>1. progress'[w] = progress[w] /\ awaits'[w] = awaits[w]
    BY <1>2, <1>3
  <2>2. Expected(w)' = Expected(w)
    BY <2>1 DEF Expected
  <2>3. w = Boot => Beneath(r)' = Beneath(r)
    BY <2>1 DEF Beneath
  <2> QED BY <2>2, <2>3 DEF InStruct
<1>4. OthersSaved'
  <2> SUFFICES ASSUME NEW i \in DOMAIN processes, i # current, NEW r \in Registers
               PROVE  regs[processes[i]][r] = InStruct(Slot(i), r)'
    BY DEF OthersSaved, Holds
  <2>1. PICK w : w = Slot(i)
    OBVIOUS
  <2>2. w \in Computations
    BY <2>1, SlotType DEF IInv
  <2>3. w # Runs
    <3>1. current \in DOMAIN processes /\ current # 0
      BY DEF IInv, TypeOK, CurrentRuns
    <3>2. Runs = Slot(current)
      BY <3>1 DEF Runs
    <3>3. processes[i] # processes[current]
      BY <3>1 DEF IInv, NoDuplicates
    <3>4. \A j \in DOMAIN processes : j # 1 => Slot(j) # Boot
      BY SlotType DEF IInv
    <3> QED BY <2>1, <3>1, <3>2, <3>3, <3>4 DEF Slot
  <2>4. Slot(i)' = w
    BY <2>1, SameSlots
  <2>5. InStruct(Slot(i), r)' = InStruct(w, r)
    BY <1>3, <2>2, <2>3, <2>4
  <2>6. regs[processes[i]][r] = InStruct(w, r)
    BY <2>1 DEF IInv, OthersSaved, Holds
  <2> QED BY <2>5, <2>6
<1> QED BY <1>1, <1>4

LEMMA KmainReturnsInv ==
    ASSUME IInv, KmainReturns
    PROVE  IInv'
<1>1. Runs = Boot /\ stage = "none" /\ mode = "running"
      /\ UNCHANGED <<processes, current, _init, regs, ds, stage, cr3, pic, awaits, early>>
  BY WhoExecutes DEF IInv, KmainReturns
<1>2. CASE kstack = KmainStack
  <2>1. /\ kstack' = BootStack /\ cpu' = FileAt(Boot, Idle) /\ mode' = mode
        /\ progress' = [progress EXCEPT ![Boot] = Idle]
    BY <1>2 DEF KmainReturns
  <2>2. Boot \in Computations /\ awaits \in [Computations -> BOOLEAN] /\ ~awaits[Boot]
        /\ progress \in [Computations -> 0 .. (STEPS + Idle)]
    BY DEF IInv, TypeOK, NotStarted, Computations
  <2>3. NoDuplicates' /\ OthersSaved'
    <3>1. awaits' = [awaits EXCEPT ![Runs] = FALSE]
      BY <1>1, <2>2
    <3>2. progress' = [progress EXCEPT ![Runs] = Idle]
      BY <1>1, <2>1
    <3> QED BY <1>1, <3>1, <3>2, OnlyRunsMoves
  <2>4. Runs' = Boot /\ progress'[Boot] = Idle
    BY <1>1, <2>1, <2>2, SameSlots
  <2>5. TypeOK'
    <3>1. cpu' \in [Registers -> Words]
      BY <2>1, <2>2, FileAtValue DEF Idle
    <3>2. kstack' \in Seq(Words) /\ Len(kstack') = 2
      BY <2>1, KmainStackValue, Zenon
    <3>3. (Len(kstack) <= StackBound)'
      BY <3>2, StackBoundValue
    <3>4. progress' \in [Computations -> 0 .. (STEPS + Idle)]
      BY <2>1, <2>2, Positions
    <3> QED BY <1>1, <2>1, <3>1, <3>2, <3>3, <3>4 DEF IInv, TypeOK, StackBound
  <2>6. CurrentRuns'
    <3>1. Expected(Boot)' = [FileAt(Boot, Idle) EXCEPT !["eax"] = @]
      BY <1>1, <2>2, <2>4 DEF Expected
    <3>2. FileAt(Boot, Idle) \in [Registers -> Words]
      BY <2>2, FileAtValue DEF Idle
    <3>3. \A r \in Registers : cpu'[r] = Expected(Boot)'[r]
      BY <2>1, <3>1, <3>2
    <3>4. Expected(Runs)' = Expected(Boot)'
      BY <2>4 DEF Expected
    <3> QED BY <1>1, <3>3, <3>4 DEF IInv, CurrentRuns
  <2>7. NotStarted'
    <3>1. \A p \in Processes : p \in Computations /\ p # Boot
      BY TrapsAssumption DEF Computations
    <3>2. \A p \in Processes : progress'[p] = progress[p]
      BY <2>1, <2>2, <3>1
    <3> QED BY <1>1, <2>2, <2>4, <3>2 DEF IInv, NotStarted
  <2>8. StackShape'
    <3>1. Beneath("ss")' = Magic /\ Beneath("esp")' = Mbd
      BY <2>4 DEF Beneath
    <3>2. Len(kstack') = 2 /\ kstack'[1] = Magic /\ kstack'[2] = Mbd
      BY <2>1, KmainStackValue, Zenon
    <3> QED BY <1>1, <3>1, <3>2 DEF StackShape
  <2> QED BY <2>3, <2>5, <2>6, <2>7, <2>8 DEF IInv
<1>3. CASE kstack # KmainStack
  <2>1. mode' = "lost" /\ UNCHANGED <<kstack, cpu, progress>>
    BY <1>3 DEF KmainReturns
  <2>2. pic' \in [irr : SUBSET Lines, master : SUBSET (0 .. 7), slave : SUBSET (8 .. 15)]
        /\ _init' \in BOOLEAN
    BY <1>1 DEF IInv, TypeOK
  <2> QED BY <1>1, <2>1, <2>2, QuietInv
<1> QED BY <1>2, <1>3

LEMMA ProgramStepInv ==
    ASSUME IInv, NEW p \in Processes, ProgramStep(p)
    PROVE  IInv'
<1> DEFINE at == (progress[p] + 1) % STEPS
<1>1. /\ cpu' = FileAt(p, at) /\ progress' = [progress EXCEPT ![p] = at]
      /\ awaits' = [awaits EXCEPT ![p] = FALSE] /\ ds' \in {"null", "user"}
      /\ UNCHANGED <<processes, current, _init, regs, kstack, stage, cr3, pic, mode, early>>
  BY DEF ProgramStep
<1>2. p = Runs /\ stage = "none" /\ p # Boot
  BY WhoExecutes, TrapsAssumption DEF IInv, ProgramStep
<1>3. p \in Computations /\ awaits \in [Computations -> BOOLEAN]
      /\ progress \in [Computations -> 0 .. (STEPS + Idle)]
  BY DEF IInv, TypeOK, Computations
<1>4. at \in 0 .. (STEPS + Idle) /\ at \in Nat
  <2>1. progress[p] \in Nat
    BY <1>3, TrapsAssumption DEF Idle
  <2>2. at \in 0 .. (STEPS + Idle)
    BY <2>1, Positions
  <2> QED BY <2>2
<1> HIDE DEF at
<1>5. NoDuplicates' /\ OthersSaved'
  BY <1>1, <1>2, OnlyRunsMoves
<1>6. TypeOK'
  <2>1. cpu' \in [Registers -> Words]
    BY <1>1, <1>3, <1>4, FileAtValue
  <2>2. progress' \in [Computations -> 0 .. (STEPS + Idle)] /\ awaits' \in [Computations -> BOOLEAN]
    BY <1>1, <1>3, <1>4
  <2> QED BY <1>1, <2>1, <2>2 DEF IInv, TypeOK
<1>7. Runs' = p
  BY <1>1, <1>2, SameSlots
<1>8. CurrentRuns'
  <2>1. progress'[p] = at /\ awaits'[p] = FALSE
    BY <1>1, <1>3
  <2>2. Expected(p)' = [FileAt(p, at) EXCEPT !["eax"] = @]
    BY <2>1 DEF Expected
  <2>3. FileAt(p, at) \in [Registers -> Words]
    BY <1>3, <1>4, FileAtValue
  <2>4. \A r \in Registers : cpu'[r] = Expected(p)'[r]
    BY <1>1, <2>2, <2>3
  <2>5. Expected(Runs)' = Expected(p)'
    BY <1>7 DEF Expected
  <2> QED BY <1>1, <1>2, <2>4, <2>5 DEF IInv, CurrentRuns
<1>9. NotStarted'
  <2>1. p \in Range(processes)
    <3>1. current # 0 /\ current # 1 /\ p = processes[current]
      BY <1>2 DEF Runs, Slot
    <3>2. current \in DOMAIN processes
      BY <3>1 DEF IInv, TypeOK
    <3> QED BY <3>1, <3>2 DEF Range
  <2>2. \A w \in Computations : w # p => progress'[w] = progress[w] /\ awaits'[w] = awaits[w]
    BY <1>1, <1>3
  <2>3. Boot \in Computations /\ Processes \subseteq Computations
    BY DEF Computations
  <2> QED BY <1>1, <1>2, <2>1, <2>2, <2>3 DEF IInv, NotStarted
<1>10. StackShape'
  BY <1>1, <1>2, <1>7 DEF StackShape
<1> QED BY <1>5, <1>6, <1>8, <1>9, <1>10 DEF IInv

LEMMA NextInv == IInv /\ [Next]_vars => IInv'
<1> SUFFICES ASSUME IInv, [Next]_vars PROVE IInv'
  OBVIOUS
<1>1. pic \in [irr : SUBSET Lines, master : SUBSET (0 .. 7), slave : SUBSET (8 .. 15)]
      /\ mode \in {"running", "hung", "lost"} /\ _init \in BOOLEAN
  BY DEF IInv, TypeOK
<1>2. ASSUME NEW p \in Processes, create_process(p) PROVE IInv'
  BY <1>2, CreateProcessInv
<1>3. ASSUME NEW p \in Processes, ProgramStep(p) PROVE IInv'
  BY <1>3, ProgramStepInv
<1>4. ASSUME NEW p \in Processes, NEW v \in Vectors, SoftwareInterrupt(p, v) PROVE IInv'
  BY <1>4, SoftwareInterruptInv
<1>5. ASSUME NEW p \in Processes, NEW v \in Vectors, Exception(p, v) PROVE IInv'
  BY <1>5, ExceptionInv
<1>6. CASE enable_scheduling
  <2>1. _init' \in BOOLEAN
        /\ UNCHANGED <<processes, current, regs, cpu, ds, kstack, stage, cr3, pic, mode,
                       progress, awaits, early>>
    BY <1>6 DEF enable_scheduling
  <2> QED BY <1>1, <2>1, QuietInv
<1>7. CASE KmainReturns
  BY <1>7, KmainReturnsInv
<1>8. CASE isr_handler
  BY <1>8, IsrHandlerInv
<1>9. CASE irq_handler
  BY <1>9, IrqHandlerInv
<1>10. CASE Leave
  BY <1>10, LeaveInv
<1>11. ASSUME NEW n \in Lines, Raise(n) PROVE IInv'
  <2>1. pic' \in [irr : SUBSET Lines, master : SUBSET (0 .. 7), slave : SUBSET (8 .. 15)]
    BY <1>1, <1>11 DEF Raise
  <2>2. UNCHANGED <<processes, current, _init, regs, cpu, ds, kstack, stage, cr3, mode,
                    progress, awaits, early>>
    BY <1>11 DEF Raise
  <2> QED BY <1>1, <2>1, <2>2, QuietInv
<1>12. ASSUME NEW n \in Lines, TakeInterrupt(n) PROVE IInv'
  BY <1>12, TakeInterruptInv
<1>13. CASE UNCHANGED vars
  <2>1. UNCHANGED <<processes, current, _init, regs, cpu, ds, kstack, stage, cr3, pic, mode,
                    progress, awaits, early>>
    BY <1>13 DEF vars
  <2> QED BY <1>1, <2>1, QuietInv
<1>14. CASE HandlerFaults
  <2>1. mode' = "hung"
        /\ UNCHANGED <<processes, current, _init, regs, cpu, ds, kstack, stage, cr3, pic,
                       progress, awaits, early>>
    BY <1>14 DEF HandlerFaults
  <2> QED BY <1>1, <2>1, QuietInv
<1> QED BY <1>2, <1>3, <1>4, <1>5, <1>6, <1>7, <1>8, <1>9, <1>10, <1>11, <1>12, <1>13,
        <1>14 DEF Next, TakesInterrupt

LEMMA Invariant == Spec => []IInv
BY InitInv, NextInv, PTL DEF Spec
-----------------------------------------------------------------------------
(* What follows from the invariant. *)

\* Type correctness: every word on the kernel stack, in the saved structs and in
\* the registers is a word, and the stack that one trap or the boot thread uses
\* never grows beyond kmain's call and one frame: traps do not pile up.
THEOREM TypeCorrect == Spec => []TypeOK
<1>1. IInv => TypeOK
  BY DEF IInv
<1> QED BY <1>1, Invariant, PTL

\* Whatever is resumed is the boot thread or a program other than the first, and
\* has all its registers, through stubs, both copies of switch_process and iret,
\* for every number of processes and every mix of lines, system calls and
\* exceptions.
THEOREM RegistersIntactHolds == Spec => []RegistersIntact
<1>1. ASSUME IInv PROVE RegistersIntact
  <2> SUFFICES ASSUME NEW state \in {Live} \cup {regs[processes[i]] : i \in DOMAIN processes \ {current}}
               PROVE  /\ WhoseIs(state) \in Kept
                      /\ \A r \in InFrame(WhoseIs(state)) :
                            state[r] = Expected(WhoseIs(state))[r]
    BY DEF RegistersIntact
  <2>1. ASSUME NEW w \in Computations \cap Kept, Holds(state, w)
        PROVE  /\ WhoseIs(state) \in Kept
               /\ \A r \in InFrame(WhoseIs(state)) :
                    state[r] = Expected(WhoseIs(state))[r]
    <3>1. state["eip"] = <<"eip", w, progress[w]>>
      BY <1>1, <2>1, StructFacts DEF IInv
    <3>2. WhoseIs(state) = w
      BY <3>1 DEF WhoseIs
    <3> QED BY <2>1, <3>2 DEF Holds, InStruct, InFrame
  <2>2. Runs \in Computations \cap Kept
        /\ \A i \in DOMAIN processes : Slot(i) \in Computations \cap Kept
    <3>1. Runs \in Computations /\ \A i \in DOMAIN processes : Slot(i) \in Computations
      BY <1>1, SlotType DEF IInv
    <3>2. \A i \in DOMAIN processes : i = 1 \/ i \in 2 .. Len(processes)
      BY <1>1 DEF IInv, TypeOK
    <3>3. \A i \in DOMAIN processes : Slot(i) \in Kept
      BY <3>2 DEF Slot, Kept
    <3>4. current # 0 => current \in DOMAIN processes
      BY <1>1 DEF IInv, TypeOK
    <3>5. Runs \in Kept
      BY <3>3, <3>4 DEF Runs, Kept
    <3> QED BY <3>1, <3>3, <3>5
  <2>3. CASE state = Live /\ stage = "none"
    <3>1. state = cpu
      BY <2>3 DEF Live
    <3>2. cpu["eip"] = <<"eip", Runs, progress[Runs]>>
      BY <1>1, <2>3, CpuFacts DEF IInv
    <3>3. WhoseIs(state) = Runs
      BY <3>1, <3>2 DEF WhoseIs
    <3>4. \A r \in Registers : state[r] = Expected(Runs)[r]
      BY <1>1, <2>3, <3>1 DEF IInv, CurrentRuns
    <3> QED BY <2>2, <3>3, <3>4 DEF InFrame
  <2>4. CASE state = Live /\ stage # "none"
    <3>1. Holds(state, Runs)
      BY <1>1, <2>4 DEF IInv, CurrentRuns, Live
    <3> QED BY <2>1, <2>2, <3>1
  <2>5. CASE state # Live
    <3>1. PICK i \in DOMAIN processes : i # current /\ state = regs[processes[i]]
      BY <2>5
    <3>2. Holds(state, Slot(i))
      BY <1>1, <3>1 DEF IInv, OthersSaved
    <3> QED BY <2>1, <2>2, <3>2
  <2> QED BY <2>3, <2>4, <2>5
<1> QED BY <1>1, Invariant, PTL

\* The hlt loop finds kmain's two arguments and nothing else on its stack, though
\* every trap from a program overwrites them.
THEOREM BootStackKeptHolds == Spec => []BootStackKept
<1>1. ASSUME IInv PROVE BootStackKept
  <2> SUFFICES ASSUME Executes(Boot), progress[Boot] = Idle PROVE kstack = BootStack
    BY DEF BootStackKept
  <2>1. Runs = Boot /\ stage = "none"
    BY <1>1, WhoExecutes DEF IInv
  <2>2. progress[Boot] # Kmain
    BY DEF Kmain, Idle
  <2>3. Len(kstack) = 2 /\ kstack[1] = Beneath("ss") /\ kstack[2] = Beneath("esp")
    BY <1>1, <2>1, <2>2 DEF IInv, StackShape
  <2>4. Beneath("ss") = Magic /\ Beneath("esp") = Mbd
    BY DEF Beneath
  <2>5. Len(kstack) = Len(BootStack) /\ kstack[1] = BootStack[1] /\ kstack[2] = BootStack[2]
    BY <2>3, <2>4, KmainStackValue, Zenon
  <2>6. \A i \in 1 .. 2 : i = 1 \/ i = 2
    OBVIOUS
  <2>7. \A i \in 1 .. Len(kstack) : kstack[i] = BootStack[i]
    BY <2>3, <2>5, <2>6, Zenon
  <2>8. kstack \in Seq(Words) /\ BootStack \in Seq(Words)
    BY <1>1, KmainStackValue DEF IInv, TypeOK
  <2>9. Len(kstack) = Len(BootStack)
    BY <2>5
  <2> QED BY <2>7, <2>8, <2>9, SeqEqual
<1> QED BY <1>1, Invariant, PTL
-----------------------------------------------------------------------------
(* The refinement of Scheduler. *)

\* Where the stack of the computation that runs will be.
Sp == IF Runs # Boot THEN "user" ELSE IF DepthAfter = 2 THEN "top" ELSE "kmain"

\* The values the mapping gives to the variables of Scheduler that differ.
AbsRegs ==
    [p \in Processes |->
        Context(regs[p], IF WhoseIs(regs[p]) = Boot THEN "saved" ELSE "user")]
AbsCpu == Context(Live, StackOf(Live, DepthAfter))
AbsHandling == IF stage = "irq" THEN State["interrupt_number"][3] ELSE 16
AbsDs == IF WhoseIs(Live) # Boot /\ ds = "kernel" THEN "null" ELSE ds

\* The registers of the mapping are who runs, how far it has come and where its
\* stack is.
AbstractCpu ==
    /\ AbsCpu = [who |-> Runs, at |-> progress[Runs], sp |-> Sp]
    /\ Live["eip"][2] = Runs /\ Live["eip"][3] = progress[Runs]
    /\ AbsDs = IF Runs # Boot /\ ds = "kernel" THEN "null" ELSE ds
    /\ Pops(Live) = IF Runs = Boot THEN 12 ELSE 14

LEMMA CpuMapped == IInv => AbstractCpu
<1> SUFFICES ASSUME IInv PROVE AbstractCpu
  OBVIOUS
<1>1. Runs \in Computations
  BY SlotType DEF IInv
<1>2. Live["eip"] = <<"eip", Runs, progress[Runs]>> /\ (FromProgram(Live) <=> Runs # Boot)
  <2>1. CASE stage = "none"
    BY <2>1, CpuFacts DEF IInv, Live
  <2>2. CASE stage # "none"
    <3>1. Holds(State, Runs)
      BY <2>2 DEF IInv, CurrentRuns
    <3> QED BY <1>1, <2>2, <3>1, StructFacts DEF IInv, Live
  <2> QED BY <2>1, <2>2
<1>3. Live["eip"][2] = Runs /\ Live["eip"][3] = progress[Runs]
  BY <1>2
<1>4. StackOf(Live, DepthAfter) = Sp
  <2>1. Len(BootStack) = 2
    BY KmainStackValue
  <2> QED BY <1>3, <2>1 DEF StackOf, WhoseIs, Sp
<1>5. AbsDs = IF Runs # Boot /\ ds = "kernel" THEN "null" ELSE ds
  BY <1>3 DEF AbsDs, WhoseIs
<1> QED BY <1>2, <1>3, <1>4, <1>5 DEF AbstractCpu, AbsCpu, Context, WhoseIs, Pops

LEMMA CpuMappedNext == IInv' => AbstractCpu'
BY CpuMapped, PTL

\* iret has cleared the kernel's ds when a program runs: a handler finds it
\* null or the program's.
DataSegment == stage # "leave" /\ Runs # Boot => ds # "kernel"

LEMMA DataSegmentInit == Init => DataSegment
BY DEF Init, DataSegment, Runs

LEMMA DataSegmentNext == IInv /\ IInv' /\ DataSegment /\ [Next]_vars => DataSegment'
<1> SUFFICES ASSUME IInv, IInv', DataSegment, [Next]_vars, stage' # "leave", Runs' # Boot
             PROVE  ds' # "kernel"
  BY DEF DataSegment
<1>1. Live["eip"][2] = Runs /\ Live'["eip"][2] = Runs'
  BY CpuMapped, CpuMappedNext DEF AbstractCpu
<1>2. ASSUME stage # "leave", ds' = ds, Runs' = Runs PROVE ds' # "kernel"
  BY <1>2 DEF DataSegment
<1>3. ASSUME NEW p \in Processes, create_process(p) PROVE ds' # "kernel"
  <2>1. stage = "none" /\ UNCHANGED <<ds, stage, cpu>>
    BY <1>3 DEF create_process, Executes
  <2>2. Live' = Live
    BY <2>1 DEF Live
  <2> QED BY <1>1, <1>2, <2>1, <2>2
<1>4. ASSUME NEW p \in Processes, ProgramStep(p) PROVE ds' # "kernel"
  BY <1>4 DEF ProgramStep
<1>5. ASSUME NEW p \in Processes, NEW v \in Vectors, SoftwareInterrupt(p, v) \/ Exception(p, v)
      PROVE  ds' # "kernel"
  BY <1>2, <1>5, SameSlots DEF SoftwareInterrupt, Exception, Executes
<1>6. CASE enable_scheduling \/ KmainReturns
  BY <1>2, <1>6, SameSlots DEF enable_scheduling, KmainReturns, Executes
<1>7. CASE isr_handler \/ HandlerFaults
  BY <1>2, <1>7, SameSlots DEF isr_handler, HandlerFaults
<1>8. CASE irq_handler
  BY <1>8 DEF irq_handler
<1>9. CASE Leave
  <2>1. UNCHANGED <<processes, current>> /\ ds' = IF Runs # Boot /\ ds = "kernel" THEN "null" ELSE ds
    BY <1>9, LeaveEffect
  <2>2. Runs' = Runs
    BY <2>1, SameSlots
  <2> QED BY <2>1, <2>2
<1>10. ASSUME NEW n \in Lines, Raise(n) PROVE ds' # "kernel"
  <2>1. UNCHANGED <<processes, current, ds, stage>>
    BY <1>10 DEF Raise
  <2> QED BY <1>2, <2>1, SameSlots
<1>11. ASSUME NEW n \in Lines, TakeInterrupt(n) PROVE ds' # "kernel"
  <2>1. UNCHANGED <<processes, current, ds>> /\ stage = "none"
    BY <1>11 DEF TakeInterrupt, InterruptsOn
  <2> QED BY <1>2, <2>1, SameSlots
<1>12. CASE UNCHANGED vars
  <2>1. UNCHANGED <<processes, current, ds, stage>>
    BY <1>12 DEF vars
  <2> QED BY <1>2, <2>1, SameSlots
<1> QED BY <1>3, <1>4, <1>5, <1>6, <1>7, <1>8, <1>9, <1>10, <1>11, <1>12
        DEF Next, TakesInterrupt

LEMMA DataSegmentHolds == Spec => []DataSegment
BY DataSegmentInit, DataSegmentNext, Invariant, PTL DEF Spec

\* The mapping's ds stays as it is if neither who runs nor ds changes.
LEMMA SameDs ==
    ASSUME IInv, IInv', Runs' = Runs, ds' = ds
    PROVE  AbsDs' = AbsDs
BY CpuMapped, CpuMappedNext DEF AbstractCpu

\* The mapping's controllers are the same.
LEMMA SamePic ==
    ASSUME NEW c, NEW n
    PROVE  /\ Detailed!Presents(c, n) <=> Presents(c, n)
           /\ Detailed!Acknowledged(c, n) = Acknowledged(c, n)
           /\ Detailed!pic_send_eoi(c, n) = pic_send_eoi(c, n)
           /\ Detailed!IdlePic = IdlePic
<1>1. \A m : Detailed!MasterLine(m) = MasterLine(m)
  BY DEF Detailed!MasterLine, MasterLine
<1>2. \A l, m : Detailed!Above(l, m) <=> Above(l, m)
  BY <1>1 DEF Detailed!Above, Above
<1>3. \A S : Detailed!Eoi(S) = Eoi(S)
  BY DEF Detailed!Eoi, Eoi
<1>4. Detailed!Presents(c, n) <=> Presents(c, n)
  BY <1>1, <1>2 DEF Detailed!Presents, Presents
<1>5. Detailed!Acknowledged(c, n) = Acknowledged(c, n)
  BY <1>1 DEF Detailed!Acknowledged, Acknowledged
<1>6. Detailed!pic_send_eoi(c, n) = pic_send_eoi(c, n)
  BY <1>3 DEF Detailed!pic_send_eoi, pic_send_eoi
<1>7. Detailed!IdlePic = IdlePic
  BY DEF Detailed!IdlePic, IdlePic
<1> QED BY <1>4, <1>5, <1>6, <1>7

\* The registers stay as they are if neither who runs nor its stack changes.
LEMMA SameCpu ==
    ASSUME IInv, IInv', UNCHANGED <<processes, current, progress>>,
           Runs = Boot => DepthAfter' = DepthAfter
    PROVE  AbsCpu' = AbsCpu
<1>1. AbsCpu = [who |-> Runs, at |-> progress[Runs], sp |-> Sp]
  BY CpuMapped DEF AbstractCpu
<1>2. AbsCpu' = [who |-> Runs', at |-> progress'[Runs'], sp |-> Sp']
  BY CpuMappedNext DEF AbstractCpu
<1>3. Runs' = Runs
  BY SameSlots
<1>4. Sp' = Sp
  BY <1>3 DEF Sp
<1> QED BY <1>1, <1>2, <1>3, <1>4

LEMMA Stutters ==
    ASSUME IInv, IInv',
           UNCHANGED <<processes, current, _init, regs, cr3, pic, mode, progress, early>>,
           ds' = IF Runs # Boot /\ ds = "kernel" /\ stage' = "none" THEN "null" ELSE ds,
           stage # "irq", stage' # "irq", Runs = Boot => DepthAfter' = DepthAfter
    PROVE  UNCHANGED Detailed!vars
<1>1. AbsCpu' = AbsCpu
  BY SameCpu
<1>2. AbsRegs' = AbsRegs
  BY DEF AbsRegs
<1>3. AbsHandling' = AbsHandling
  BY DEF AbsHandling
<1>4. AbsDs' = AbsDs
  <2>1. Runs' = Runs
    BY SameSlots
  <2> QED BY <2>1, CpuMapped, CpuMappedNext DEF AbstractCpu
<1> QED BY <1>1, <1>2, <1>3, <1>4 DEF Detailed!vars, AbsCpu, AbsRegs, AbsHandling, AbsDs

\* Who executes, in both.
LEMMA SameExecutes ==
    ASSUME IInv, NEW w
    PROVE  /\ Executes(w) => Detailed!Executes(w)
           /\ mode = "running" /\ stage = "isr" => Detailed!Executes(Runs)
<1>1. AbsCpu.who = Runs
  BY CpuMapped DEF AbstractCpu
<1>2. Executes(w) => w = Runs /\ stage = "none" /\ mode = "running"
  BY WhoExecutes DEF IInv
<1>3. stage # "irq" => AbsHandling = 16
  BY DEF AbsHandling
<1>4. \A x : mode = "running" /\ AbsHandling = 16 /\ AbsCpu.who = x => Detailed!Executes(x)
  BY DEF Detailed!Executes, Detailed!NoIrq, AbsHandling, AbsCpu
<1> QED BY <1>1, <1>2, <1>3, <1>4

LEMMA InitRefines == Init => Detailed!Init
<1> SUFFICES ASSUME Init PROVE Detailed!Init
  OBVIOUS
<1>1. IInv
  BY InitInv
<1>2. /\ processes = <<>> /\ current = 0 /\ _init = FALSE /\ early = FALSE
      /\ regs = [p \in Processes |-> NewRegs(p)]
      /\ kstack = KmainStack /\ stage = "none"
      /\ ds = "kernel" /\ cr3 = Boot /\ pic = IdlePic /\ mode = "running"
      /\ progress = [w \in Computations |-> 0]
  BY DEF Init
<1>3. AbsCpu = Detailed!Context(Boot, Kmain, "kmain")
  <2>1. Runs = Boot /\ progress[Boot] = Kmain
    BY <1>2 DEF Runs, Computations, Kmain
  <2>2. DepthAfter = 4
    BY <1>2, KmainStackValue DEF DepthAfter
  <2>3. Sp = "kmain"
    BY <2>1, <2>2 DEF Sp
  <2>4. AbsCpu = [who |-> Boot, at |-> Kmain, sp |-> "kmain"]
    BY <1>1, <2>1, <2>3, CpuMapped DEF AbstractCpu
  <2> QED BY <2>4 DEF Detailed!Context
<1>4. AbsRegs = [p \in Processes |-> Detailed!Context(p, 0, "user")]
  <2>1. ASSUME NEW p \in Processes
        PROVE  Context(regs[p], IF WhoseIs(regs[p]) = Boot THEN "saved" ELSE "user")
                    = Detailed!Context(p, 0, "user")
    <3>1. regs[p]["eip"] = <<"eip", p, 0>> /\ p # Boot
      <4>1. regs[p]["eip"] = FileAt(p, 0)["eip"]
        BY <1>2, NewRegsValue, RegistersValue
      <4>2. p \in Computations /\ p # Boot
        BY TrapsAssumption DEF Computations
      <4> QED BY <4>1, <4>2, FileAtValue
    <3>2. WhoseIs(regs[p]) = p /\ regs[p]["eip"][3] = 0
      BY <3>1 DEF WhoseIs
    <3> QED BY <3>1, <3>2 DEF Context, Detailed!Context
  <2> QED BY <2>1 DEF AbsRegs
<1>5. AbsHandling = 16
  BY <1>2 DEF AbsHandling
<1>6. pic = Detailed!IdlePic /\ Kmain = Detailed!Kmain
  BY <1>2, SamePic DEF Kmain, Detailed!Kmain
<1>7. AbsDs = "kernel"
  BY <1>1, <1>2, CpuMapped DEF AbstractCpu, Runs
<1> QED BY <1>2, <1>3, <1>4, <1>5, <1>6, <1>7
        DEF Detailed!Init, Detailed!NoIrq, AbsCpu, AbsRegs, AbsHandling, AbsDs, Computations

LEMMA CreateProcessRefines ==
    ASSUME IInv, IInv', NEW p \in Processes, create_process(p)
    PROVE  Detailed!create_process(p)
<1>1. /\ Executes(Boot) /\ ~_init /\ processes' = Append(processes, p) /\ p \notin Range(processes)
      /\ regs' = [regs EXCEPT ![p] = NewRegs(p)]
      /\ current' = IF processes = <<>> THEN 1 ELSE current
      /\ UNCHANGED <<_init, cpu, ds, kstack, stage, cr3, pic, mode, progress, awaits, early>>
  BY DEF create_process
<1>2. Runs = Boot /\ stage = "none"
  BY <1>1, WhoExecutes DEF IInv
<1>3. AbsCpu' = AbsCpu /\ AbsHandling' = AbsHandling /\ AbsDs' = AbsDs
  BY <1>1, <1>2 DEF AbsCpu, AbsHandling, AbsDs, Live, DepthAfter
<1>4. AbsRegs' = [AbsRegs EXCEPT ![p] = Detailed!Context(p, 0, "user")]
  <2>1. regs \in [Processes -> [Range(Fields) -> Words]]
    BY DEF IInv, TypeOK
  <2>2. Context(NewRegs(p), IF WhoseIs(NewRegs(p)) = Boot THEN "saved" ELSE "user")
            = Detailed!Context(p, 0, "user")
    <3>1. NewRegs(p)["eip"] = <<"eip", p, 0>> /\ p # Boot
      <4>1. NewRegs(p)["eip"] = FileAt(p, 0)["eip"]
        BY NewRegsValue, RegistersValue
      <4>2. p \in Computations /\ p # Boot
        BY TrapsAssumption DEF Computations
      <4> QED BY <4>1, <4>2, FileAtValue
    <3>2. WhoseIs(NewRegs(p)) = p /\ NewRegs(p)["eip"][3] = 0
      BY <3>1 DEF WhoseIs
    <3> QED BY <3>1, <3>2 DEF Context, Detailed!Context
  <2>3. \A x \in Processes : regs'[x] = IF x = p THEN NewRegs(p) ELSE regs[x]
    BY <1>1, <2>1
  <2> QED BY <2>2, <2>3 DEF AbsRegs
<1>5. p \notin Detailed!Range(processes)
  BY <1>1 DEF Range, Detailed!Range
<1>6. Detailed!Executes(Boot)
  BY <1>1, SameExecutes
<1> QED BY <1>1, <1>3, <1>4, <1>5, <1>6 DEF Detailed!create_process, AbsCpu, AbsRegs, AbsHandling,
        AbsDs

LEMMA EnableRefines ==
    ASSUME IInv, enable_scheduling
    PROVE  Detailed!enable_scheduling
<1>1. /\ Executes(Boot) /\ ~_init /\ _init' = TRUE
      /\ UNCHANGED <<processes, current, regs, cpu, ds, kstack, stage, cr3, pic, mode,
                     progress, awaits, early>>
  BY DEF enable_scheduling
<1>2. AbsCpu' = AbsCpu /\ AbsHandling' = AbsHandling /\ AbsRegs' = AbsRegs /\ AbsDs' = AbsDs
  BY <1>1 DEF AbsCpu, AbsHandling, AbsRegs, AbsDs, Live, DepthAfter, State
<1>3. Detailed!Executes(Boot)
  BY <1>1, SameExecutes
<1> QED BY <1>1, <1>2, <1>3 DEF Detailed!enable_scheduling, AbsCpu, AbsRegs, AbsHandling, AbsDs

LEMMA KmainReturnsRefines ==
    ASSUME IInv, IInv', KmainReturns
    PROVE  Detailed!KmainReturns
<1>1. /\ Executes(Boot) /\ _init /\ cpu["eip"][3] = Kmain
      /\ UNCHANGED <<processes, current, _init, regs, ds, stage, cr3, pic, awaits, early>>
  BY DEF KmainReturns
<1>2. Runs = Boot /\ stage = "none" /\ Runs' = Boot
  BY <1>1, WhoExecutes, SameSlots DEF IInv
<1>3. AbsRegs' = AbsRegs /\ AbsHandling' = AbsHandling /\ Detailed!Executes(Boot)
  BY <1>1, <1>2, SameExecutes DEF AbsRegs, AbsHandling
<1>4. AbsCpu = [who |-> Boot, at |-> progress[Boot], sp |-> Sp] /\ AbsCpu.at = Kmain
      /\ AbsCpu' = [who |-> Boot, at |-> progress'[Boot], sp |-> Sp']
  <2>1. AbsCpu = [who |-> Boot, at |-> progress[Boot], sp |-> Sp] /\ Live["eip"][3] = progress[Boot]
    BY <1>2, CpuMapped DEF AbstractCpu
  <2>2. AbsCpu' = [who |-> Boot, at |-> progress'[Boot], sp |-> Sp']
    BY <1>2, CpuMappedNext DEF AbstractCpu
  <2>3. Live = cpu
    BY <1>2 DEF Live
  <2> QED BY <1>1, <2>1, <2>2, <2>3
<1>5. Sp = (IF Len(kstack) = 2 THEN "top" ELSE "kmain")
      /\ Sp' = (IF Len(kstack') = 2 THEN "top" ELSE "kmain")
  BY <1>1, <1>2 DEF Sp, DepthAfter
<1>6. AbsCpu.sp = "kmain" <=> kstack = KmainStack
  <2>1. Len(kstack) = 2 \/ kstack = KmainStack
    BY <1>2 DEF IInv, StackShape
  <2>2. Len(KmainStack) # 2
    BY KmainStackValue
  <2>3. kstack = KmainStack <=> Len(kstack) # 2
    BY <2>1, <2>2
  <2> QED BY <1>4, <1>5, <2>3
<1>7. AbsDs' = AbsDs
  BY <1>1, <1>2, SameDs
<1>8. CASE kstack = KmainStack
  <2>1. /\ kstack' = BootStack /\ progress' = [progress EXCEPT ![Boot] = Idle] /\ mode' = mode
    BY <1>8 DEF KmainReturns
  <2>2. progress'[Boot] = Idle
    BY <2>1 DEF IInv, TypeOK, Computations
  <2>3. Len(kstack') = 2
    BY <2>1, KmainStackValue
  <2>4. AbsCpu' = Detailed!Context(Boot, Idle, "top")
    BY <1>4, <1>5, <2>2, <2>3 DEF Detailed!Context
  <2> QED BY <1>1, <1>3, <1>4, <1>6, <1>7, <1>8, <2>1, <2>4
          DEF Detailed!KmainReturns, Detailed!Kmain, Detailed!Idle, Kmain, Idle,
              AbsCpu, AbsRegs, AbsHandling, AbsDs
<1>9. CASE kstack # KmainStack
  <2>1. mode' = "lost" /\ UNCHANGED <<kstack, cpu, progress>>
    BY <1>9 DEF KmainReturns
  <2>2. AbsCpu' = AbsCpu
    BY <1>4, <1>5, <2>1
  <2> QED BY <1>1, <1>3, <1>4, <1>6, <1>7, <1>9, <2>1, <2>2
          DEF Detailed!KmainReturns, Detailed!Kmain, Kmain, AbsCpu, AbsRegs, AbsHandling, AbsDs
<1> QED BY <1>8, <1>9

LEMMA ProgramStepRefines ==
    ASSUME IInv, IInv', NEW p \in Processes, ProgramStep(p)
    PROVE  Detailed!ProgramStep(p)
<1> DEFINE at == (progress[p] + 1) % STEPS
<1>1. /\ Executes(p) /\ progress' = [progress EXCEPT ![p] = at] /\ ds' \in {"null", "user"}
      /\ UNCHANGED <<processes, current, _init, regs, kstack, stage, cr3, pic, mode, early>>
  BY DEF ProgramStep
<1>2. Runs = p /\ stage = "none" /\ Runs' = p /\ p # Boot
  BY <1>1, WhoExecutes, SameSlots, TrapsAssumption DEF IInv
<1>3. AbsRegs' = AbsRegs /\ AbsHandling' = AbsHandling /\ Detailed!Executes(p)
  BY <1>1, <1>2, SameExecutes DEF AbsRegs, AbsHandling
<1>4. AbsCpu = [who |-> p, at |-> progress[p], sp |-> "user"]
      /\ AbsCpu' = [who |-> p, at |-> progress'[p], sp |-> "user"]
  BY <1>2, CpuMapped, CpuMappedNext DEF AbstractCpu, Sp
<1>5. progress'[p] = at
  BY <1>1 DEF IInv, TypeOK, Computations
<1>6. AbsCpu' = [AbsCpu EXCEPT !.at = at] /\ at = (AbsCpu.at + 1) % STEPS
  BY <1>4, <1>5
<1>7. AbsDs' \in {"null", "user"}
  BY <1>1 DEF AbsDs
<1> HIDE DEF at
<1> QED BY <1>1, <1>3, <1>6, <1>7
        DEF Detailed!ProgramStep, Detailed!Advance, AbsCpu, AbsRegs, AbsHandling, AbsDs

LEMMA RaiseRefines ==
    ASSUME IInv, NEW n \in Lines, Raise(n)
    PROVE  Detailed!Raise(n)
<1>1. /\ mode = "running" /\ n \notin pic.irr /\ pic' = [pic EXCEPT !.irr = @ \cup {n}]
      /\ UNCHANGED <<processes, current, _init, regs, cpu, ds, kstack, stage, cr3, mode,
                     progress, awaits, early>>
  BY DEF Raise
<1>2. AbsCpu' = AbsCpu /\ AbsHandling' = AbsHandling /\ AbsRegs' = AbsRegs /\ AbsDs' = AbsDs
  BY <1>1 DEF AbsCpu, AbsHandling, AbsRegs, AbsDs, Live, DepthAfter, State
<1> QED BY <1>1, <1>2 DEF Detailed!Raise, AbsCpu, AbsRegs, AbsHandling, AbsDs

LEMMA TakeInterruptRefines ==
    ASSUME IInv, IInv', NEW n \in Lines, TakeInterrupt(n)
    PROVE  Detailed!TakeInterrupt(n)
<1>1. /\ mode = "running" /\ stage = "none" /\ Presents(pic, n) /\ pic' = Acknowledged(pic, n)
      /\ UNCHANGED <<processes, current, _init, regs, cpu, ds, cr3, mode, progress, awaits, early>>
  BY DEF TakeInterrupt, InterruptsOn
<1>2. PICK stub : stub = irq(n)
  OBVIOUS
<1>3. PICK code : code = <<>>
  OBVIOUS
<1>4. code \in Seq(Words) /\ Len(code) = 0
  BY <1>3
<1>5. /\ stub.pushes \in Seq(Nat) /\ stub.handler = "irq" /\ n \in Nat
      /\ Len(stub.pushes) = 2 /\ stub.pushes[2] = n
  BY <1>2, LineStub
<1>6. Len(code) + Len(stub.pushes) = 2 /\ Len(stub.pushes) >= 1 /\ stub.pushes[Len(stub.pushes)] = n
  BY <1>4, <1>5
<1>7. /\ kstack' = (IF FromProgram(cpu) THEN esp0 ELSE kstack) \o Pushed(cpu, code)
                        \o stub_pushes(stub)
      /\ stage' = "irq"
  BY <1>2, <1>3, <1>5, LineStub DEF TakeInterrupt, Enter
<1>8. /\ Len(kstack') = IF Runs = Boot THEN Len(kstack) + 12 ELSE 14
      /\ StateAt(kstack')["interrupt_number"] = Number(n)
  <2>1. /\ Len(kstack') = IF Runs = Boot THEN Len(kstack) + 12 ELSE 14
        /\ StateAt(kstack')["interrupt_number"] = Number(stub.pushes[Len(stub.pushes)])
    BY <1>1, <1>4, <1>5, <1>6, <1>7, EnterEffect
  <2> QED BY <1>6, <2>1, Zenon
<1>9. AbsHandling = 16 /\ AbsHandling' = n
  <2>1. State'["interrupt_number"] = Number(n)
    BY <1>8 DEF State
  <2>2. State'["interrupt_number"][3] = n
    BY <1>5, <2>1, WordFacts
  <2> QED BY <1>1, <1>7, <2>2 DEF AbsHandling
<1>10. Runs = Boot => DepthAfter' = DepthAfter
  <2> SUFFICES ASSUME Runs = Boot PROVE DepthAfter' = DepthAfter
    OBVIOUS
  <2>1. Runs' = Boot
    BY <1>1, SameSlots
  <2>2. Pops(State') = 12
    BY <1>7, <2>1, CpuMappedNext DEF AbstractCpu, Live
  <2>3. DepthAfter' = Len(kstack') - 12
    BY <1>7, <2>2 DEF DepthAfter
  <2>4. DepthAfter = Len(kstack)
    BY <1>1 DEF DepthAfter
  <2>5. PICK m : m = Len(kstack)
    OBVIOUS
  <2>6. m \in Nat
    BY <2>5, LenProperties DEF IInv, TypeOK
  <2>7. (m + 12) - 12 = m
    BY <2>6
  <2>8. Len(kstack') = m + 12
    BY <1>8, <2>5
  <2> QED BY <2>3, <2>4, <2>5, <2>7, <2>8, Zenon
<1>11. AbsCpu' = AbsCpu
  BY <1>1, <1>10, SameCpu
<1>12. AbsRegs' = AbsRegs
  BY <1>1 DEF AbsRegs
<1>13. Detailed!Presents(pic, n) /\ pic' = Detailed!Acknowledged(pic, n)
  BY <1>1, SamePic
<1>14. AbsDs' = AbsDs
  BY <1>1, SameSlots, SameDs
<1> QED BY <1>1, <1>9, <1>11, <1>12, <1>13, <1>14
        DEF Detailed!TakeInterrupt, Detailed!NoIrq, AbsCpu, AbsRegs, AbsHandling, AbsDs

\* The two copies of switch_process are a switch of registers.
LEMMA SwitchRefines ==
    ASSUME IInv, IInv', stage = "irq", stage' = "leave", switch_process, _init, current # 0,
           UNCHANGED <<processes, progress>>
    PROVE  Detailed!switch_process
<1> DEFINE next == IF current < Len(processes) THEN current + 1 ELSE 1
<1>1. /\ current \in DOMAIN processes /\ next \in DOMAIN processes
      /\ current' = next /\ cr3' = processes[next]
      /\ regs' = [regs EXCEPT ![processes[current]] = State]
      /\ Len(kstack') = Len(kstack)
      /\ State' = regs'[processes[next]]
      /\ early' = (early \/ (State["eip"][2] = Boot /\ progress[Boot] = Kmain))
  BY SwitchEffect
<1> HIDE DEF next
<1>2. processes[current] \in Processes /\ processes[next] \in Processes
  BY <1>1 DEF IInv, TypeOK
<1>3. Live = State /\ Live' = State'
  BY DEF Live
<1>4. /\ AbsCpu = [who |-> Runs, at |-> progress[Runs], sp |-> Sp]
      /\ State["eip"][2] = Runs /\ State["eip"][3] = progress[Runs]
      /\ Pops(State) = IF Runs = Boot THEN 12 ELSE 14
  BY <1>3, CpuMapped DEF AbstractCpu
<1>5. /\ AbsCpu' = [who |-> Runs', at |-> progress[Runs'], sp |-> Sp']
      /\ State'["eip"][2] = Runs' /\ State'["eip"][3] = progress[Runs']
      /\ Pops(State') = IF Runs' = Boot THEN 12 ELSE 14
  BY <1>3, CpuMappedNext DEF AbstractCpu
<1>6. Context(State, IF WhoseIs(State) = Boot THEN "saved" ELSE "user") = Detailed!Frame
  <2>1. Detailed!Frame = IF AbsCpu.who = Boot THEN [AbsCpu EXCEPT !.sp = "saved"] ELSE AbsCpu
    BY DEF Detailed!Frame, AbsCpu
  <2>2. Runs # Boot => Sp = "user"
    BY DEF Sp
  <2> QED BY <1>4, <2>1, <2>2 DEF Context, WhoseIs
<1>7. AbsRegs' = [AbsRegs EXCEPT ![processes[current]] = Detailed!Frame]
  <2>1. regs \in [Processes -> [Range(Fields) -> Words]]
    BY DEF IInv, TypeOK
  <2>2. \A x \in Processes : regs'[x] = IF x = processes[current] THEN State ELSE regs[x]
    BY <1>1, <1>2, <2>1
  <2> QED BY <1>2, <1>6, <2>2 DEF AbsRegs
<1>8. AbsRegs'[processes[next]] =
        [who |-> Runs', at |-> progress[Runs'], sp |-> IF Runs' = Boot THEN "saved" ELSE "user"]
  <2>1. AbsRegs'[processes[next]] =
            Context(State', IF WhoseIs(State') = Boot THEN "saved" ELSE "user")
    BY <1>1, <1>2 DEF AbsRegs
  <2> QED BY <1>5, <2>1 DEF Context, WhoseIs
<1>9. Sp' = IF Runs' # Boot THEN "user" ELSE IF Runs = Boot THEN Sp ELSE "top"
  <2>1. DepthAfter = Len(kstack) - Pops(State) /\ DepthAfter' = Len(kstack) - Pops(State')
    BY <1>1 DEF DepthAfter
  <2>2. CASE Runs' # Boot
    BY <2>2 DEF Sp
  <2>3. CASE Runs' = Boot /\ Runs = Boot
    <3>1. DepthAfter' = DepthAfter
      BY <1>4, <1>5, <2>1, <2>3
    <3> QED BY <2>3, <3>1 DEF Sp
  <2>4. CASE Runs' = Boot /\ Runs # Boot
    <3>1. Len(kstack) = 14
      BY <2>4 DEF IInv, StackShape
    <3>2. DepthAfter' = 14 - 12 /\ 14 - 12 = 2
      BY <1>5, <2>1, <2>4, <3>1
    <3> QED BY <2>4, <3>2 DEF Sp
  <2> QED BY <2>2, <2>3, <2>4
<1>10. AbsCpu' = Detailed!Restored(AbsRegs'[processes[next]])
  <2>1. \A c : Detailed!Restored(c) =
            IF c.who = Boot THEN [c EXCEPT !.sp = IF AbsCpu.who = Boot THEN AbsCpu.sp ELSE "top"]
            ELSE c
    BY DEF Detailed!Restored, AbsCpu
  <2>2. AbsCpu.who = Runs /\ AbsCpu.sp = Sp
    BY <1>4
  <2> QED BY <1>5, <1>8, <1>9, <2>1, <2>2
<1>11. early' = (early \/ (AbsCpu.who = Boot /\ AbsCpu.at = Kmain))
  BY <1>1, <1>4
<1>12. AbsCpu' = Detailed!Restored([AbsRegs EXCEPT ![processes[current]] = Detailed!Frame][processes[next]])
  BY <1>7, <1>10
<1> QED BY <1>1, <1>7, <1>11, <1>12
        DEF Detailed!switch_process, Detailed!Kmain, Kmain, AbsCpu, AbsRegs, next

LEMMA IrqHandlerRefines ==
    ASSUME IInv, IInv', DataSegment, irq_handler
    PROVE  Detailed!irq_handler
<1>1. /\ mode = "running" /\ stage = "irq" /\ stage' = "leave" /\ ds # "null"
      /\ UNCHANGED <<processes, _init, cpu, ds, mode, progress, awaits>>
  BY DEF irq_handler
<1>2. AbsHandling = State["interrupt_number"][3] /\ AbsHandling' = 16
  BY <1>1 DEF AbsHandling
<1>3. AbsHandling \in Lines /\ AbsHandling # 16
  <2>1. AbsHandling \in Lines
    BY <1>1, <1>2 DEF IInv, StackShape
  <2> QED BY <2>1, TrapsAssumption
<1>4. pic' = Detailed!pic_send_eoi(pic, AbsHandling)
  BY <1>2, SamePic DEF irq_handler
<1>5. IF AbsHandling = 0 THEN switch_process ELSE UNCHANGED <<current, regs, kstack, cr3, early>>
  BY <1>2 DEF irq_handler
<1>6. ASSUME UNCHANGED <<current, regs, kstack, cr3, early>>
      PROVE  AbsCpu' = AbsCpu /\ AbsRegs' = AbsRegs
  BY <1>1, <1>6 DEF AbsCpu, AbsRegs, Live, DepthAfter, State
<1>7. IF AbsHandling = 0 THEN Detailed!switch_process
      ELSE UNCHANGED <<current, cr3, early>> /\ AbsCpu' = AbsCpu /\ AbsRegs' = AbsRegs
  <2>1. CASE AbsHandling # 0
    BY <1>5, <1>6, <2>1
  <2>2. CASE AbsHandling = 0 /\ _init /\ current # 0
    BY <1>1, <1>5, <2>2, SwitchRefines
  <2>3. CASE AbsHandling = 0 /\ (~_init \/ current = 0)
    <3>1. UNCHANGED <<current, regs, kstack, cr3, early>>
      BY <1>5, <2>3 DEF switch_process
    <3> QED BY <1>6, <2>3, <3>1 DEF Detailed!switch_process, AbsCpu, AbsRegs
  <2> QED BY <2>1, <2>2, <2>3
<1>8. AbsDs # "null" /\ AbsDs' = Detailed!Returned(AbsCpu'.who)
  <2>1. AbsDs = ds
    BY <1>1, CpuMapped DEF AbstractCpu, DataSegment
  <2>2. AbsDs' = (IF Runs' # Boot /\ ds = "kernel" THEN "null" ELSE ds) /\ AbsCpu'.who = Runs'
    BY <1>1, CpuMappedNext DEF AbstractCpu
  <2>3. \A w : Detailed!Returned(w) = IF w # Boot /\ AbsDs = "kernel" THEN "null" ELSE AbsDs
    BY DEF Detailed!Returned, AbsDs
  <2> QED BY <1>1, <2>1, <2>2, <2>3
<1> QED BY <1>1, <1>2, <1>3, <1>4, <1>7, <1>8
        DEF Detailed!irq_handler, Detailed!NoIrq, AbsCpu, AbsRegs, AbsHandling, AbsDs

LEMMA IsrHandlerRefines ==
    ASSUME IInv, IInv', isr_handler
    PROVE  Detailed!Next \/ UNCHANGED Detailed!vars
<1>1. /\ mode = "running" /\ stage = "isr"
      /\ UNCHANGED <<processes, current, _init, regs, cpu, ds, cr3, pic, progress, early>>
  BY DEF isr_handler
<1>2. Runs # Boot /\ Runs \in Processes
  BY <1>1, SlotType DEF IInv, StackShape, Computations
<1>3. CASE stage' = "leave" /\ UNCHANGED mode
  BY <1>1, <1>2, <1>3, Stutters
<1>4. CASE mode' = "hung" /\ UNCHANGED <<kstack, stage, awaits>>
  <2>1. AbsCpu' = AbsCpu /\ AbsHandling' = AbsHandling /\ AbsRegs' = AbsRegs /\ AbsDs' = AbsDs
    BY <1>1, <1>4 DEF AbsCpu, AbsHandling, AbsRegs, AbsDs, Live, DepthAfter, State
  <2>2. Detailed!Executes(Runs)
    BY <1>1, SameExecutes
  <2>3. Detailed!Fault(Runs)
    BY <1>1, <1>4, <2>1, <2>2 DEF Detailed!Fault, AbsCpu, AbsRegs, AbsHandling, AbsDs
  <2> QED BY <1>2, <2>3 DEF Detailed!Next
<1> QED BY <1>3, <1>4 DEF isr_handler

\* A handler that faults is the end: in a program's trap, of the program; in an
\* interrupt, of the handler.
LEMMA HandlerFaultsRefines ==
    ASSUME IInv, DataSegment, HandlerFaults
    PROVE  Detailed!Next
<1>1. /\ mode = "running" /\ stage \in {"isr", "irq"} /\ ds = "null" /\ mode' = "hung"
      /\ UNCHANGED <<processes, current, _init, regs, cpu, ds, kstack, stage, cr3, pic,
                     progress, awaits, early>>
  BY DEF HandlerFaults
<1>2. AbsCpu' = AbsCpu /\ AbsHandling' = AbsHandling /\ AbsRegs' = AbsRegs /\ AbsDs' = AbsDs
  BY <1>1 DEF AbsCpu, AbsHandling, AbsRegs, AbsDs, Live, DepthAfter, State
<1>3. CASE stage = "isr"
  <2>1. Runs \in Processes /\ Detailed!Executes(Runs)
    BY <1>1, <1>3, SlotType, SameExecutes DEF IInv, StackShape, Computations
  <2>2. Detailed!Fault(Runs)
    BY <1>1, <1>2, <2>1 DEF Detailed!Fault, AbsCpu, AbsRegs, AbsHandling, AbsDs
  <2> QED BY <2>1, <2>2 DEF Detailed!Next
<1>4. CASE stage = "irq"
  <2>1. AbsHandling \in Lines
    BY <1>4 DEF IInv, StackShape, AbsHandling
  <2>2. AbsHandling # 16
    BY <2>1, TrapsAssumption
  <2>3. AbsDs = "null"
    BY <1>1 DEF AbsDs
  <2>4. Detailed!HandlerFaults
    BY <1>1, <1>2, <2>2, <2>3
       DEF Detailed!HandlerFaults, Detailed!NoIrq, AbsCpu, AbsRegs, AbsHandling, AbsDs
  <2> QED BY <2>4 DEF Detailed!Next
<1> QED BY <1>1, <1>3, <1>4

\* The entry of a program's trap is a stutter.
LEMMA EntryRefines ==
    ASSUME IInv, IInv', NEW p \in Processes, Executes(p), NEW v \in 0 .. 255, v < 32 \/ v = 128,
           NEW code, Enter(v, code),
           UNCHANGED <<processes, current, _init, regs, cpu, ds, cr3, pic, mode, progress, awaits, early>>
    PROVE  UNCHANGED Detailed!vars
<1>1. Runs # Boot /\ stage = "none"
  BY WhoExecutes, TrapsAssumption DEF IInv
<1>2. v \in Nat /\ idt[v].stub = isr(v)
  BY Gates
<1>3. stage' = "isr"
  BY <1>2, StubPushes DEF Enter
<1>4. ds' = ds /\ stage' # "none"
  BY <1>3
<1> QED BY <1>1, <1>3, <1>4, Stutters

LEMMA LeaveRefines ==
    ASSUME IInv, IInv', Leave
    PROVE  UNCHANGED Detailed!vars
<1>1. /\ stage = "leave" /\ stage' = "none"
      /\ UNCHANGED <<processes, current, _init, regs, cr3, pic, mode, progress, awaits, early>>
      /\ Len(kstack') = Len(kstack) - Pops(State)
      /\ ds' = IF Runs # Boot /\ ds = "kernel" THEN "null" ELSE ds
  BY LeaveEffect
<1>2. DepthAfter' = DepthAfter
  BY <1>1 DEF DepthAfter
<1> QED BY <1>1, <1>2, Stutters

LEMMA StepRefines ==
    IInv /\ IInv' /\ DataSegment /\ [Next]_vars => [Detailed!Next]_(Detailed!vars)
<1> SUFFICES ASSUME IInv, IInv', DataSegment, [Next]_vars
             PROVE  Detailed!Next \/ UNCHANGED Detailed!vars
  OBVIOUS
<1>1. ASSUME NEW p \in Processes, create_process(p) PROVE Detailed!Next
  BY <1>1, CreateProcessRefines DEF Detailed!Next
<1>2. ASSUME NEW p \in Processes, ProgramStep(p) PROVE Detailed!Next
  BY <1>2, ProgramStepRefines DEF Detailed!Next
<1>3. ASSUME NEW p \in Processes, NEW v \in Vectors, SoftwareInterrupt(p, v)
      PROVE  UNCHANGED Detailed!vars
  <2>1. Executes(p) /\ v \in 0 .. 255
        /\ UNCHANGED <<processes, current, _init, regs, cpu, ds, cr3, pic, mode, progress, awaits, early>>
    BY <1>3, TrapsAssumption DEF SoftwareInterrupt
  <2>2. CASE ProgramMayUse(idt[v])
    <3>1. v = 128 /\ Enter(v, <<>>)
      BY <1>3, <2>1, <2>2, Gates DEF SoftwareInterrupt
    <3> QED BY <2>1, <3>1, EntryRefines
  <2>3. CASE ~ProgramMayUse(idt[v])
    <3>1. Enter(13, <<Number(8 * v + 2)>>)
      BY <1>3, <2>3 DEF SoftwareInterrupt
    <3>2. 13 \in 0 .. 255 /\ 13 < 32
      OBVIOUS
    <3> QED BY <2>1, <3>1, <3>2, EntryRefines
  <2> QED BY <2>2, <2>3
<1>4. ASSUME NEW p \in Processes, NEW v \in Vectors, Exception(p, v)
      PROVE  UNCHANGED Detailed!vars
  <2>1. /\ Executes(p) /\ v \in 0 .. 255 /\ v < 32
        /\ Enter(v, IF v \in ErrorCodes THEN <<Number(0)>> ELSE <<>>)
        /\ UNCHANGED <<processes, current, _init, regs, cpu, ds, cr3, pic, mode, progress, awaits, early>>
    BY <1>4, TrapsAssumption DEF Exception
  <2> QED BY <2>1, EntryRefines
<1>5. CASE enable_scheduling
  BY <1>5, EnableRefines DEF Detailed!Next
<1>6. CASE KmainReturns
  BY <1>6, KmainReturnsRefines DEF Detailed!Next
<1>7. CASE isr_handler
  BY <1>7, IsrHandlerRefines
<1>8. CASE irq_handler
  BY <1>8, IrqHandlerRefines DEF Detailed!Next
<1>9. CASE Leave
  BY <1>9, LeaveRefines
<1>10. ASSUME NEW n \in Lines, Raise(n) PROVE Detailed!Next
  BY <1>10, RaiseRefines DEF Detailed!Next
<1>11. ASSUME NEW n \in Lines, TakeInterrupt(n) PROVE Detailed!Next
  BY <1>11, TakeInterruptRefines DEF Detailed!Next, Detailed!TakesInterrupt
<1>12. CASE UNCHANGED vars
  BY <1>12 DEF vars, Detailed!vars, Live, DepthAfter, State
<1>13. CASE HandlerFaults
  BY <1>13, HandlerFaultsRefines
<1> QED BY <1>1, <1>2, <1>3, <1>4, <1>5, <1>6, <1>7, <1>8, <1>9, <1>10, <1>11, <1>12, <1>13
        DEF Next, TakesInterrupt

\* What the stubs, the handlers and the processor do with words on one stack is
\* what Scheduler says of computations.
THEOREM TrapsImplementScheduler == Spec => ImplementsScheduler
BY InitRefines, StepRefines, Invariant, DataSegmentHolds, PTL DEF Spec, ImplementsScheduler, Detailed!SafetySpec
=============================================================================
