------------------------------ MODULE Terminal ------------------------------
(***************************************************************************)
(* The text terminal of vgatty.c: cells, a cursor, and what one character  *)
(* does to them.  Every operator takes and returns a screen, a record of    *)
(* cells (the lines one after the other), row and column.                   *)
(***************************************************************************)
EXTENDS Integers, Sequences, SequencesExt

CONSTANTS VGA_WIDTH, VGA_HEIGHT   \* 80 and 25 in the code

ASSUME ScreenAssumption == VGA_WIDTH \in Nat \ {0} /\ VGA_HEIGHT \in Nat \ {0}

Cells == 0 .. VGA_WIDTH * VGA_HEIGHT - 1

\* terminal_initialize and terminal_clear
Cleared == [cells |-> [i \in Cells |-> " "], row |-> 0, column |-> 0]

Cursor(s) == s.row * VGA_WIDTH + s.column

\* A screen whose cursor is on it.
IsScreen(s) ==
  /\ s = [cells |-> [i \in Cells |-> s.cells[i]], row |-> s.row, column |-> s.column]
  /\ s.row \in 0 .. VGA_HEIGHT - 1
  /\ s.column \in 0 .. VGA_WIDTH - 1

\* terminal_putentryat; a write beside the cells is a write beside the cells'
\* memory, and the cells keep what they have.
terminal_putentryat(s, c) ==
  [s.cells EXCEPT ![Cursor(s)] = c]

\* The character itself.  A step back from the first column erases nothing.
Put(s, c) ==
  CASE c = "nl" -> [s EXCEPT !.row = @ + 1, !.column = 0]
    [] c = "bs" /\ s.column = 0 -> [s EXCEPT !.row = @ - 1, !.column = VGA_WIDTH - 1]
    [] c = "bs" /\ s.column > 0 ->
         LET back == [s EXCEPT !.column = @ - 1]
         IN  [back EXCEPT !.cells = terminal_putentryat(back, "nul")]
    [] OTHER -> [s EXCEPT !.cells = terminal_putentryat(s, c), !.column = @ + 1]

\* Past the last column the cursor goes to the next row.
Wrapped(s) ==
  IF s.column = VGA_WIDTH THEN [s EXCEPT !.column = 0, !.row = @ + 1] ELSE s

\* terminal_scroll
terminal_scroll(s) ==
  [i \in Cells |-> IF i + VGA_WIDTH \in Cells THEN s.cells[i + VGA_WIDTH] ELSE " "]

\* Past the last row the screen scrolls.
Scrolled(s) ==
  IF s.row = VGA_HEIGHT
  THEN [cells |-> terminal_scroll(s), row |-> s.row - 1, column |-> 0]
  ELSE s

\* Faulty variant: the scroll is looked at before the wrap.
PutcharScrollsFirst(s, c) == Wrapped(Scrolled(Put(s, c)))

terminal_putchar(s, c) == Scrolled(Wrapped(Put(s, c)))

terminal_write(s, text) == FoldLeft(terminal_putchar, s, text)

=============================================================================
