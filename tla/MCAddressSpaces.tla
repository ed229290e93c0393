-------------------------- MODULE MCAddressSpaces ---------------------------
(***************************************************************************)
(* Tables of 32 entries: the boot table covers 32 frames, the higher half  *)
(* is directory entries 24 to 31, and the stack is below entry 24.         *)
(***************************************************************************)
EXTENDS AddressSpaces

Reaching(page, pages, upto) == [load |-> TRUE, page |-> page, pages |-> pages, upto |-> upto]
At(page, pages) == Reaching(page, pages, 500)
Other(page) == [load |-> FALSE, page |-> page, pages |-> 1, upto |-> 100]
Program(segments) == [valid |-> TRUE, segments |-> segments]
File(length, size, program) == [name |-> length, size |-> size, program |-> program]

MC_StackPage == 24 * 32 - 16

Text == Program(<<At(40, 1)>>)
TextAndData == Program(<<Other(0), At(40, 1), At(41, 1)>>)
Apart == Program(<<At(3, 1), At(70, 1)>>)
Long == Program(<<At(40, 2)>>)
LongBehind == Program(<<At(41, 1), At(40, 2)>>)
Same == Program(<<At(40, 1), At(40, 1)>>)
BadMagic == [valid |-> FALSE, segments |-> <<At(40, 1)>>]

\* Segments at the end of what fits a frame, around it and beyond it.
Fits == Program(<<At(40, 1), Reaching(41, 1, 4064)>>)
Around == Program(<<Reaching(40, 1, 4070)>>)
Beyond == Program(<<At(40, 1), Reaching(41, 1, 5000)>>)

\* Segments in the kernel's half: where the boot table has an entry, where
\* there is no table, and running into it from below.
AtKernel == Program(<<At(40, 1), At(HIGHER_HALF + 5, 1)>>)
NoTable == Program(<<At(HIGHER_HALF + 70, 2)>>)
IntoKernel == Program(<<At(HIGHER_HALF - 1, 3)>>)
BelowMissing == Program(<<At(HIGHER_HALF - 2, 3)>>)

\* The files one behind the other.
Archive(files) ==
    [k \in DOMAIN files |->
        [name |-> files[k].name, size |-> files[k].size, program |-> files[k].program,
         block |-> MapThenSumSet(LAMBDA j : 1 + (files[j].size + BLOCK - 1) \div BLOCK,
                                 1 .. (k - 1))]]

MC_Contents == {
    <<>>,
    <<File(8, 513, Text)>>,
    <<File(13, 1024, Text), File(13, 1025, TextAndData)>>,
    <<File(13, 2047, TextAndData), File(6, 0, NoProgram)>>,
    <<File(13, 512, Apart), File(1, 600, Text)>>,
    <<File(2, 1, NoProgram), File(2, 0, NoProgram), File(13, 511, BadMagic), File(13, 600, Text)>>,
    <<File(2, 1, NoProgram), File(2, 0, NoProgram), File(2, 5, NoProgram), File(13, 600, Text)>>,
    <<File(13, 700, Text), File(13, 7000, Text)>>,
    <<File(13, 700, Text), File(13, 6000, NoProgram)>>,
    <<File(13, 5000, Fits)>>, <<File(13, 5000, Beyond), File(13, 500, Text)>>,
    <<File(13, 4070, Around), File(13, 2500, Text)>>, <<File(2, 5, NoProgram), File(13, 4070, Around)>>,
    <<File(13, 4070, Around), File(13, 4, NoProgram)>>,
    <<File(13, 600, AtKernel), File(13, 500, Text)>>, <<File(13, 600, NoTable)>>,
    <<File(13, 600, IntoKernel), File(13, 500, Text)>>, <<File(13, 600, BelowMissing)>>,
    <<File(13, 600, Long)>>, <<File(13, 600, LongBehind)>>, <<File(13, 600, Same)>> }

MC_Archives == {Archive(files) : files \in MC_Contents}
=============================================================================
