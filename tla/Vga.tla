--------------------------------- MODULE Vga --------------------------------
(***************************************************************************)
(* vga::VGA (src/outputs/vga.cpp) as operators on a record: _init, the     *)
(* cursor (x, y), and the cells of the page the text buffer is mapped to.  *)
(* Only the boot thread writes to the screen.  Colours are left out.       *)
(***************************************************************************)
EXTENDS Naturals, Sequences

CONSTANTS
    WIDTH, HEIGHT,  \* 80 and 25
    PAGE_CELLS      \* cells of the mapped page, 2048; what follows is unmapped

ASSUME VgaAssumption ==
    /\ WIDTH \in Nat /\ WIDTH > 1 /\ HEIGHT \in Nat \ {0}
    /\ PAGE_CELLS \in Nat /\ PAGE_CELLS >= WIDTH * HEIGHT

\* Cells: a blank, what the firmware left, or the n-th printed character.
Blank == 0
Firmware == 1
Character(n) == 1 + n
NewLine == 0

Cells == 0 .. (PAGE_CELLS - 1)

\* The state before the first character; fault is a write past the page.
OffScreen == [init |-> FALSE, x |-> 0, y |-> 0, fault |-> FALSE,
              cells |-> [c \in Cells |-> Firmware]]

init_vga(v) == [v EXCEPT !.init = TRUE, !.x = 0, !.y = 0]

insert_char(v, ch, x, y) ==
    IF WIDTH * y + x \in Cells THEN [v EXCEPT !.cells[WIDTH * y + x] = ch]
    ELSE [v EXCEPT !.fault = TRUE]

\* Mutant: the last line is not cleared.
scroll_screen_Uncleared(v) ==
    [v EXCEPT !.cells = [c \in Cells |->
                            IF c < WIDTH * (HEIGHT - 1) THEN v.cells[c + WIDTH]
                            ELSE v.cells[c]],
              !.y = @ - 1, !.x = 0]

\* Every line moves up by one, the last one is cleared.
scroll_screen(v) ==
    [v EXCEPT !.cells = [c \in Cells |->
                            IF c < WIDTH * (HEIGHT - 1) THEN v.cells[c + WIDTH]
                            ELSE IF c < WIDTH * HEIGHT THEN Blank ELSE v.cells[c]],
              !.y = @ - 1, !.x = 0]

\* The cursor moves on first, so that a line begins in column 1 unless it is
\* reached by wrapping or scrolling; a new line returns before the scroll test.
write_char(v, ch) ==
    LET started == IF v.init THEN v ELSE init_vga(v)
        wraps   == started.x + 1 >= WIDTH \/ ch = NewLine
        moved   == IF wraps THEN [started EXCEPT !.x = 0, !.y = @ + 1]
                   ELSE [started EXCEPT !.x = @ + 1]
        ready   == IF moved.y >= HEIGHT THEN scroll_screen(moved) ELSE moved
    IN  IF ch = NewLine THEN moved ELSE insert_char(ready, ch, ready.x, ready.y)

\* The letters on the screen, and that each is greater than those before it.
Screen == 0 .. (WIDTH * HEIGHT - 1)
Showing(v) == {c \in Screen : v.cells[c] \notin {Blank, Firmware}}
Shown(v) == {v.cells[c] : c \in Showing(v)}
InReadingOrder(v) == \A c, d \in Showing(v) : c < d => v.cells[c] < v.cells[d]
=============================================================================
