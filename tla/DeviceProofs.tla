---------------------------- MODULE DeviceProofs ----------------------------
(***************************************************************************)
(* The console and the discs.                                              *)
(*                                                                         *)
(* For every size of the screen, of the shell's line and of the ring, and  *)
(* for all keys: the line of the shell is what stands on the screen, a     *)
(* reader never sleeps over a character, and the ring holds the characters *)
(* that were typed.                                                        *)
(*                                                                         *)
(* For every set of drives with whatever disc, every size of a sector and  *)
(* every number of reads that fail: the tree that is mounted is the one on *)
(* the disc, the RAM disk and what programs read are the bytes of its      *)
(* files, and a boot that crashes has met one of three causes.             *)
(***************************************************************************)
EXTENDS Console, Boot, TLAPS, FiniteSetTheorems, SequenceTheorems, WellFoundedInduction

IsSequence(s) == \E S : s \in Seq(S)

-----------------------------------------------------------------------------
(* Who sleeps.                                                             *)

\* The thread is suspended for interrupt 1 alone, and what that interrupt
\* handles finds it awake.
SleeperWaits ==
  /\ shell = "suspended" => wait = 1
  /\ handling = 1 => shell # "suspended"

\* Until the boot is done no interrupt comes and no shell runs.
BootFirst == ~Up => keybuf = <<>> /\ shell = "prompt" /\ handling = 0

PortsInv == obf.port \in 0 .. 2 /\ handling \in 0 .. 2

SleepInv ==
  SleeperWaits /\ BootFirst /\ PortsInv /\ IsSequence(keybuf) /\ SleepsOnlyWhenEmpty

-----------------------------------------------------------------------------
(* What is on the screen.                                                  *)

\* The character d cells before the cursor.
Before(s, d) == s.cells[Cursor(s) - d]

\* The prompt and the line stand before the cursor.
Shows(s, l) ==
  /\ Len(l) + 1 <= Cursor(s)
  /\ Before(s, Len(l) + 1) = "$"
  /\ \A i \in 1 .. Len(l) : Before(s, Len(l) + 1 - i) = l[i]

Edits == {"read", "suspended", "echo"}

ScreenInv ==
  /\ IsScreen(screen)
  /\ IsSequence(line)
  /\ shell \in Edits => Len(line) <= MAX_BUF - 2 /\ Shows(screen, line)

-----------------------------------------------------------------------------
(* The terminal.                                                           *)

\* More rows take more cells.
LEMMA RowsMonotone ==
  ASSUME NEW a \in Nat, NEW b \in Nat, NEW w \in Nat, a <= b
  PROVE  a * w <= b * w
<1>1. PICK d \in Nat : b = a + d
  BY SMT
<1>2. b * w = a * w + d * w
  BY <1>1, SMT
<1>3. d * w \in Nat /\ a * w \in Nat
  BY SMT
<1> QED BY <1>2, <1>3, SMT

\* One row more or less is a width more or less.
LEMMA RowAdded ==
  ASSUME NEW a \in Int, NEW w \in Nat
  PROVE  (a + 1) * w = a * w + w /\ (a - 1) * w = a * w - w
BY SMT

\* The constants of the screen.
LEMMA ScreenSizes ==
  /\ VGA_WIDTH \in Nat /\ VGA_WIDTH >= 1 /\ VGA_HEIGHT \in Nat /\ VGA_HEIGHT >= 2
  /\ VGA_HEIGHT * VGA_WIDTH \in Nat /\ VGA_WIDTH * VGA_HEIGHT = VGA_HEIGHT * VGA_WIDTH
  /\ (VGA_HEIGHT - 1) * VGA_WIDTH = VGA_HEIGHT * VGA_WIDTH - VGA_WIDTH
  /\ MAX_BUF \in Nat /\ MAX_BUF >= 2
  /\ MAX_BUF - 1 <= VGA_HEIGHT * VGA_WIDTH - VGA_WIDTH
<1>1. VGA_WIDTH \in Nat /\ VGA_WIDTH >= 1 /\ VGA_HEIGHT \in Nat /\ VGA_HEIGHT >= 1
  BY ScreenAssumption
<1>2. VGA_HEIGHT * VGA_WIDTH \in Nat /\ VGA_WIDTH * VGA_HEIGHT = VGA_HEIGHT * VGA_WIDTH
  BY <1>1, SMT
<1>3. (VGA_HEIGHT - 1) * VGA_WIDTH = VGA_HEIGHT * VGA_WIDTH - VGA_WIDTH
  BY <1>1, RowAdded, SMT
<1>4. /\ MAX_BUF \in Nat /\ MAX_BUF >= 2
      /\ MAX_BUF - 1 <= VGA_HEIGHT * VGA_WIDTH - VGA_WIDTH
  BY <1>3, ConsoleAssumption
<1>5. VGA_HEIGHT # 1
  <2>1. SUFFICES ASSUME VGA_HEIGHT = 1 PROVE FALSE
    OBVIOUS
  <2>2. (VGA_HEIGHT - 1) * VGA_WIDTH = 0
    BY <1>1, <2>1, SMT
  <2> QED BY <1>3, <1>4, <2>2, <1>1, <1>2, SMT
<1> QED BY <1>1, <1>2, <1>3, <1>4, <1>5

\* The cursor of a screen is on it, and it is in the last row when one more row
\* would be too much.
LEMMA CursorOnScreen ==
  ASSUME NEW s, IsScreen(s)
  PROVE  /\ s.row \in Nat /\ s.column \in Nat
         /\ s.row < VGA_HEIGHT /\ s.column < VGA_WIDTH
         /\ s.row * VGA_WIDTH \in Nat
         /\ s.row * VGA_WIDTH <= VGA_HEIGHT * VGA_WIDTH - VGA_WIDTH
         /\ Cursor(s) = s.row * VGA_WIDTH + s.column
         /\ Cursor(s) \in Cells
<1>1. s.row \in Nat /\ s.column \in Nat /\ s.row < VGA_HEIGHT /\ s.column < VGA_WIDTH
  BY ScreenSizes DEF IsScreen
<1>2. s.row * VGA_WIDTH \in Nat
  BY <1>1, ScreenSizes, SMT
<1>3. s.row * VGA_WIDTH <= (VGA_HEIGHT - 1) * VGA_WIDTH
  BY <1>1, ScreenSizes, RowsMonotone
<1> HIDE DEF IsScreen
<1>4. s.row * VGA_WIDTH <= VGA_HEIGHT * VGA_WIDTH - VGA_WIDTH
  BY <1>3, ScreenSizes
<1> QED BY <1>1, <1>2, <1>4, ScreenSizes, SMT DEF Cursor, Cells

\* By how many cells the screen scrolls when the cursor came to the place c.
Scrolls(c) == IF c < VGA_HEIGHT * VGA_WIDTH THEN 0 ELSE VGA_WIDTH

\* The parts of a screen.
Whole(s) ==
  s = [cells |-> [i \in Cells |-> s.cells[i]], row |-> s.row, column |-> s.column]

\* A cursor past the last column is the cursor at the next row.
LEMMA WrapKeeps ==
  ASSUME NEW s, Whole(s), s.row \in 0 .. VGA_HEIGHT, s.column \in 0 .. VGA_WIDTH,
         s.row = VGA_HEIGHT => s.column = 0
  PROVE  /\ Whole(Wrapped(s))
         /\ Wrapped(s).cells = s.cells
         /\ Cursor(Wrapped(s)) = Cursor(s)
         /\ Wrapped(s).row \in 0 .. VGA_HEIGHT
         /\ Wrapped(s).column \in 0 .. VGA_WIDTH - 1
         /\ Wrapped(s).row = VGA_HEIGHT => Wrapped(s).column = 0
<1>1. CASE s.column # VGA_WIDTH
  <2>1. Wrapped(s) = s
    BY <1>1 DEF Wrapped
  <2> QED BY <1>1, <2>1, ScreenSizes
<1>2. CASE s.column = VGA_WIDTH
  <2>0. Wrapped(s) = [s EXCEPT !.column = 0, !.row = @ + 1]
    BY <1>2 DEF Wrapped
  <2>2. s.cells = [i \in Cells |-> s.cells[i]] /\ Whole(s)
    BY DEF Whole
  <2>1. Wrapped(s) = [cells |-> [i \in Cells |-> s.cells[i]], row |-> s.row + 1, column |-> 0]
    BY <2>0, <2>2 DEF Whole
  <2>3. Wrapped(s).cells = s.cells /\ Wrapped(s).row = s.row + 1 /\ Wrapped(s).column = 0
    BY <2>1, <2>2
  <2>4. Whole(Wrapped(s))
    BY <2>1, <2>2, <2>3 DEF Whole
  <2>5. (s.row + 1) * VGA_WIDTH = s.row * VGA_WIDTH + VGA_WIDTH
    BY RowAdded, ScreenSizes
  <2>6. s.row * VGA_WIDTH \in Int
    BY ScreenSizes, SMT
  <2>7. Cursor(Wrapped(s)) = Cursor(s)
    BY <1>2, <2>3, <2>5, <2>6, ScreenSizes DEF Cursor
  <2> QED BY <1>2, <2>3, <2>4, <2>7, ScreenSizes
<1> QED BY <1>1, <1>2

\* A cursor past the last row takes the screen up by one.
LEMMA ScrollKeeps ==
  ASSUME NEW s, Whole(s), s.row \in 0 .. VGA_HEIGHT, s.column \in 0 .. VGA_WIDTH - 1,
         s.row = VGA_HEIGHT => s.column = 0
  PROVE  /\ IsScreen(Scrolled(s))
         /\ Cursor(Scrolled(s)) = Cursor(s) - Scrolls(Cursor(s))
         /\ \A i \in Cells : i - Scrolls(Cursor(s)) \in Cells =>
              Scrolled(s).cells[i - Scrolls(Cursor(s))] = s.cells[i]
<1>1. CASE s.row # VGA_HEIGHT
  <2>1. Scrolled(s) = s
    BY <1>1 DEF Scrolled
  <2>2. s.row \in 0 .. VGA_HEIGHT - 1
    BY <1>1, ScreenSizes
  <2>3. IsScreen(s)
    BY <2>2 DEF IsScreen, Whole
  <2>4. Cursor(s) < VGA_HEIGHT * VGA_WIDTH /\ Cursor(s) \in Nat
    BY <2>3, CursorOnScreen, ScreenSizes DEF Cells
  <2>5. Scrolls(Cursor(s)) = 0
    BY <2>4 DEF Scrolls
  <2>6. \A i \in Cells : i - 0 = i
    BY ScreenSizes DEF Cells
  <2> QED BY <2>1, <2>3, <2>4, <2>5, <2>6
<1>2. CASE s.row = VGA_HEIGHT
  <2>1. Scrolled(s) = [cells |-> terminal_scroll(s), row |-> VGA_HEIGHT - 1, column |-> 0]
    BY <1>2 DEF Scrolled
  <2>2. /\ Scrolled(s).cells = terminal_scroll(s)
        /\ Scrolled(s).row = VGA_HEIGHT - 1 /\ Scrolled(s).column = 0
    BY <2>1
  <2>3. terminal_scroll(s) = [i \in Cells |-> terminal_scroll(s)[i]]
    BY DEF terminal_scroll
  <2>4. IsScreen(Scrolled(s))
    BY <2>1, <2>2, <2>3, ScreenSizes DEF IsScreen
  <2>5. Cursor(s) = VGA_HEIGHT * VGA_WIDTH
    BY <1>2, ScreenSizes DEF Cursor
  <2>6. Scrolls(Cursor(s)) = VGA_WIDTH
    BY <2>5, ScreenSizes DEF Scrolls
  <2>7. Cursor(Scrolled(s)) = VGA_HEIGHT * VGA_WIDTH - VGA_WIDTH
    BY <2>2, ScreenSizes DEF Cursor
  <2>8. ASSUME NEW i \in Cells, i - VGA_WIDTH \in Cells
        PROVE  Scrolled(s).cells[i - VGA_WIDTH] = s.cells[i]
    <3>1. (i - VGA_WIDTH) + VGA_WIDTH = i
      BY ScreenSizes DEF Cells
    <3> QED BY <2>2, <2>8, <3>1 DEF terminal_scroll
  <2> QED BY <2>4, <2>5, <2>6, <2>7, <2>8
<1> QED BY <1>1, <1>2

\* Both tests.
LEMMA Settles ==
  ASSUME NEW s, Whole(s), s.row \in 0 .. VGA_HEIGHT, s.column \in 0 .. VGA_WIDTH,
         s.row = VGA_HEIGHT => s.column = 0
  PROVE  /\ IsScreen(Scrolled(Wrapped(s)))
         /\ Cursor(Scrolled(Wrapped(s))) = Cursor(s) - Scrolls(Cursor(s))
         /\ \A i \in Cells : i - Scrolls(Cursor(s)) \in Cells =>
              Scrolled(Wrapped(s)).cells[i - Scrolls(Cursor(s))] = s.cells[i]
BY WrapKeeps, ScrollKeeps

\* A character that is neither a newline nor a backspace.
LEMMA PutsCharacter ==
  ASSUME NEW s, IsScreen(s), NEW c, c # "nl", c # "bs"
  PROVE  /\ IsScreen(terminal_putchar(s, c))
         /\ Cursor(terminal_putchar(s, c)) = (Cursor(s) + 1) - Scrolls(Cursor(s) + 1)
         /\ \A i \in Cells : i - Scrolls(Cursor(s) + 1) \in Cells =>
              terminal_putchar(s, c).cells[i - Scrolls(Cursor(s) + 1)] =
                IF i = Cursor(s) THEN c ELSE s.cells[i]
<1>1. Put(s, c) = [s EXCEPT !.cells = [s.cells EXCEPT ![Cursor(s)] = c], !.column = @ + 1]
  BY DEF Put, terminal_putentryat
<1>2. Whole(s)
  BY DEF IsScreen, Whole
<1>3. /\ Put(s, c).cells = [s.cells EXCEPT ![Cursor(s)] = c]
      /\ Put(s, c).row = s.row /\ Put(s, c).column = s.column + 1
  BY <1>1, <1>2 DEF Whole
<1>4. s.cells = [i \in Cells |-> s.cells[i]]
  BY <1>2 DEF Whole
<1>5. Put(s, c).cells = [i \in Cells |-> Put(s, c).cells[i]]
  BY <1>3, <1>4
<1>6. Put(s, c) = [cells |-> Put(s, c).cells, row |-> s.row, column |-> s.column + 1]
  BY <1>1, <1>2, <1>3 DEF Whole
<1>7. Whole(Put(s, c))
  BY <1>3, <1>5, <1>6 DEF Whole
<1>8. /\ Put(s, c).row \in 0 .. VGA_HEIGHT /\ Put(s, c).row # VGA_HEIGHT
      /\ Put(s, c).column \in 0 .. VGA_WIDTH
  BY <1>3, CursorOnScreen, ScreenSizes
<1>9. Cursor(Put(s, c)) = Cursor(s) + 1
  BY <1>3, CursorOnScreen, ScreenSizes DEF Cursor
<1>10. \A i \in Cells : Put(s, c).cells[i] = IF i = Cursor(s) THEN c ELSE s.cells[i]
  BY <1>3, <1>4
<1>11. terminal_putchar(s, c) = Scrolled(Wrapped(Put(s, c)))
  BY DEF terminal_putchar
<1>12. /\ IsScreen(Scrolled(Wrapped(Put(s, c))))
       /\ Cursor(Scrolled(Wrapped(Put(s, c)))) = Cursor(Put(s, c)) - Scrolls(Cursor(Put(s, c)))
       /\ \A i \in Cells : i - Scrolls(Cursor(Put(s, c))) \in Cells =>
            Scrolled(Wrapped(Put(s, c))).cells[i - Scrolls(Cursor(Put(s, c)))] = Put(s, c).cells[i]
  BY <1>7, <1>8, Settles
<1>13. /\ IsScreen(terminal_putchar(s, c))
       /\ Cursor(terminal_putchar(s, c)) = (Cursor(s) + 1) - Scrolls(Cursor(s) + 1)
  BY <1>9, <1>11, <1>12, Zenon
<1>14. ASSUME NEW i \in Cells, i - Scrolls(Cursor(s) + 1) \in Cells
       PROVE  terminal_putchar(s, c).cells[i - Scrolls(Cursor(s) + 1)] = Put(s, c).cells[i]
  BY <1>9, <1>11, <1>12, <1>14
<1> QED BY <1>10, <1>13, <1>14

\* A newline leaves the cursor on the screen.
LEMMA PutsNewline ==
  ASSUME NEW s, IsScreen(s)
  PROVE  IsScreen(terminal_putchar(s, "nl"))
<1>1. Put(s, "nl") = [s EXCEPT !.row = @ + 1, !.column = 0]
  BY DEF Put
<1>3. s.cells = [i \in Cells |-> s.cells[i]] /\ Whole(s)
  BY DEF IsScreen, Whole
<1>2. Put(s, "nl") = [cells |-> [i \in Cells |-> s.cells[i]], row |-> s.row + 1, column |-> 0]
  BY <1>1, <1>3 DEF Whole
<1>4. /\ Put(s, "nl").cells = s.cells
      /\ Put(s, "nl").row = s.row + 1 /\ Put(s, "nl").column = 0
  BY <1>2, <1>3
<1>5. Whole(Put(s, "nl"))
  BY <1>2, <1>3, <1>4 DEF Whole
<1>6. Put(s, "nl").row \in 0 .. VGA_HEIGHT /\ 0 \in 0 .. VGA_WIDTH
  BY <1>4, CursorOnScreen, ScreenSizes
<1> QED BY <1>4, <1>5, <1>6, Settles DEF terminal_putchar

\* A backspace behind the first cell of the screen.
LEMMA PutsBackspace ==
  ASSUME NEW s, IsScreen(s), Cursor(s) >= 1
  PROVE  /\ IsScreen(terminal_putchar(s, "bs"))
         /\ Cursor(terminal_putchar(s, "bs")) = Cursor(s) - 1
         /\ \A i \in Cells : i # Cursor(s) - 1 =>
              terminal_putchar(s, "bs").cells[i] = s.cells[i]
<1>1. s.cells = [i \in Cells |-> s.cells[i]] /\ Whole(s)
  BY DEF IsScreen, Whole
<1>2. /\ Whole(Put(s, "bs"))
      /\ Cursor(Put(s, "bs")) = Cursor(s) - 1
      /\ Put(s, "bs").row \in 0 .. VGA_HEIGHT - 1
      /\ Put(s, "bs").column \in 0 .. VGA_WIDTH - 1
      /\ \A i \in Cells : i # Cursor(s) - 1 => Put(s, "bs").cells[i] = s.cells[i]
  <2>1. CASE s.column = 0
    <3>1. Put(s, "bs") = [s EXCEPT !.row = @ - 1, !.column = VGA_WIDTH - 1]
      BY <2>1 DEF Put
    <3>2. Put(s, "bs") =
            [cells |-> [i \in Cells |-> s.cells[i]], row |-> s.row - 1, column |-> VGA_WIDTH - 1]
      BY <3>1, <1>1 DEF Whole
    <3>3. /\ Put(s, "bs").cells = s.cells
          /\ Put(s, "bs").row = s.row - 1 /\ Put(s, "bs").column = VGA_WIDTH - 1
      BY <3>2, <1>1
    <3>4. Whole(Put(s, "bs"))
      BY <3>2, <3>3, <1>1 DEF Whole
    <3>5. s.row # 0
      <4>1. s.row = 0 => s.row * VGA_WIDTH = 0
        BY ScreenSizes
      <4> QED BY <2>1, <4>1, CursorOnScreen
    <3>6. (s.row - 1) * VGA_WIDTH = s.row * VGA_WIDTH - VGA_WIDTH
      BY RowAdded, CursorOnScreen, ScreenSizes
    <3>7. Cursor(Put(s, "bs")) = Cursor(s) - 1
      BY <3>3, <3>6, <2>1, CursorOnScreen, ScreenSizes DEF Cursor
    <3>8. /\ Put(s, "bs").row \in 0 .. VGA_HEIGHT - 1
          /\ Put(s, "bs").column \in 0 .. VGA_WIDTH - 1
      BY <3>3, <3>5, CursorOnScreen, ScreenSizes
    <3> QED BY <3>3, <3>4, <3>7, <3>8
  <2>2. CASE s.column # 0
    <3> DEFINE back == [s EXCEPT !.column = @ - 1]
    <3>1. s.column > 0
      BY <2>2, CursorOnScreen
    <3>2. Put(s, "bs") = [back EXCEPT !.cells = [back.cells EXCEPT ![Cursor(back)] = "nul"]]
      BY <3>1 DEF Put, terminal_putentryat
    <3>3. back = [cells |-> s.cells, row |-> s.row, column |-> s.column - 1]
      BY <1>1 DEF Whole
    <3>4. back.cells = s.cells /\ back.row = s.row /\ back.column = s.column - 1
      BY <3>3
    <3> HIDE DEF back
    <3>a. Cursor(back) = s.row * VGA_WIDTH + (s.column - 1)
      BY <3>4 DEF Cursor
    <3>5. Cursor(back) = Cursor(s) - 1
      BY <3>a, CursorOnScreen
    <3>6. Put(s, "bs") = [cells |-> [s.cells EXCEPT ![Cursor(s) - 1] = "nul"],
                          row |-> s.row, column |-> s.column - 1]
      BY <3>2, <3>3, <3>4, <3>5
    <3>7. /\ Put(s, "bs").cells = [s.cells EXCEPT ![Cursor(s) - 1] = "nul"]
          /\ Put(s, "bs").row = s.row /\ Put(s, "bs").column = s.column - 1
      BY <3>6
    <3>8. Put(s, "bs").cells = [i \in Cells |-> Put(s, "bs").cells[i]]
      BY <3>7, <1>1
    <3>9. Whole(Put(s, "bs"))
      BY <3>6, <3>7, <3>8 DEF Whole
    <3>10. Cursor(Put(s, "bs")) = Cursor(s) - 1
      BY <3>7, CursorOnScreen, ScreenSizes DEF Cursor
    <3>11. /\ Put(s, "bs").row \in 0 .. VGA_HEIGHT - 1
           /\ Put(s, "bs").column \in 0 .. VGA_WIDTH - 1
      BY <3>1, <3>7, CursorOnScreen, ScreenSizes
    <3>12. \A i \in Cells : i # Cursor(s) - 1 => Put(s, "bs").cells[i] = s.cells[i]
      BY <3>7, <1>1
    <3> QED BY <3>9, <3>10, <3>11, <3>12
  <2> QED BY <2>1, <2>2
<1>3. Scrolled(Wrapped(Put(s, "bs"))) = Put(s, "bs")
  <2>1. Put(s, "bs").column # VGA_WIDTH /\ Put(s, "bs").row # VGA_HEIGHT
    BY <1>2, ScreenSizes
  <2> QED BY <2>1 DEF Scrolled, Wrapped
<1>4. IsScreen(Put(s, "bs"))
  BY <1>2 DEF Whole, IsScreen
<1> QED BY <1>2, <1>3, <1>4 DEF terminal_putchar

-----------------------------------------------------------------------------
(* The line on the screen.                                                 *)

\* A sequence is one over every larger set.
LEMMA SequenceWidens ==
  ASSUME NEW S, NEW T, NEW l \in Seq(S), S \subseteq T
  PROVE  l \in Seq(T)
BY SMT

\* The line with one more character.
LEMMA LineAppended ==
  ASSUME NEW l, IsSequence(l), NEW c
  PROVE  /\ IsSequence(Append(l, c))
         /\ Len(l) \in Nat
         /\ Len(Append(l, c)) = Len(l) + 1
         /\ Append(l, c)[Len(l) + 1] = c
         /\ \A i \in 1 .. Len(l) : Append(l, c)[i] = l[i]
<1>1. PICK S : l \in Seq(S)
  BY DEF IsSequence
<1>2. l \in Seq(S \cup {c}) /\ c \in S \cup {c}
  BY <1>1, SequenceWidens
<1>3. Append(l, c) \in Seq(S \cup {c})
  BY <1>2, AppendProperties
<1> QED BY <1>2, <1>3, AppendProperties, LenProperties DEF IsSequence

\* The line without its last character.
LEMMA LineShortened ==
  ASSUME NEW l, IsSequence(l), l # <<>>
  PROVE  /\ IsSequence(Front(l))
         /\ Len(l) \in Nat \ {0}
         /\ Len(Front(l)) = Len(l) - 1
         /\ \A i \in 1 .. Len(l) - 1 : Front(l)[i] = l[i]
<1>1. PICK S : l \in Seq(S)
  BY DEF IsSequence
<1>2. Len(l) \in Nat /\ Len(l) # 0
  BY <1>1, EmptySeq, LenProperties
<1>3. Front(l) = SubSeq(l, 1, Len(l) - 1)
  BY DEF Front
<1>4. Front(l) \in Seq(S) /\ Len(Front(l)) = Len(l) - 1
  <2>1. \A i \in 1 .. Len(l) - 1 : l[i] \in S
    BY <1>1, <1>2, SMT
  <2>2. SubSeq(l, 1, Len(l) - 1) \in Seq(S)
    BY <1>2, <2>1, SubSeqProperties
  <2>3. Len(SubSeq(l, 1, Len(l) - 1)) = IF 1 <= Len(l) - 1 THEN (Len(l) - 1) - 1 + 1 ELSE 0
    BY <1>2, <2>1, SubSeqProperties
  <2>4. \A n \in Nat \ {0} : (IF 1 <= n - 1 THEN (n - 1) - 1 + 1 ELSE 0) = n - 1
    OBVIOUS
  <2> QED BY <1>2, <1>3, <2>2, <2>3, <2>4
<1>5. ASSUME NEW i \in 1 .. Len(l) - 1
      PROVE  Front(l)[i] = l[i]
  <2>1. SubSeq(l, 1, Len(l) - 1)[i] = l[1 + i - 1]
    BY <1>1, <1>2, SubSeqProperties
  <2>2. 1 + i - 1 = i
    OBVIOUS
  <2> QED BY <1>3, <2>1, <2>2
<1> QED BY <1>2, <1>4, <1>5 DEF IsSequence

\* A character that is put on the screen stands before the cursor, and what
\* stood there, no farther away than a line may be long, stands before it.
LEMMA CharacterBefore ==
  ASSUME NEW s, IsScreen(s), NEW c, c # "nl", c # "bs",
         NEW d \in Nat, d <= Cursor(s), d <= MAX_BUF - 2
  PROVE  /\ d + 1 <= Cursor(terminal_putchar(s, c))
         /\ Before(terminal_putchar(s, c), d + 1) = IF d = 0 THEN c ELSE Before(s, d)
<1> DEFINE t == terminal_putchar(s, c)
           at == Cursor(s)
           up == Scrolls(at + 1)
<1>1. at \in Nat /\ at < VGA_HEIGHT * VGA_WIDTH /\ at - d \in Cells
  BY CursorOnScreen, ScreenSizes DEF Cells
<1>2. up \in Nat /\ (up # 0 => up = VGA_WIDTH /\ at + 1 = VGA_HEIGHT * VGA_WIDTH)
  BY <1>1, ScreenSizes DEF Scrolls
<1>3. Cursor(t) = (at + 1) - up
  BY PutsCharacter
<1>4. \A i \in Cells : i - up \in Cells => t.cells[i - up] = IF i = at THEN c ELSE s.cells[i]
  BY PutsCharacter
<1> HIDE DEF t, at, up
<1>5. d + 1 <= Cursor(t) /\ (at - d) - up \in Cells
  BY <1>1, <1>2, <1>3, ScreenSizes DEF Cells
<1>6. t.cells[(at - d) - up] = IF at - d = at THEN c ELSE s.cells[at - d]
  BY <1>1, <1>4, <1>5
<1>7. Cursor(t) - (d + 1) = (at - d) - up
  BY <1>1, <1>2, <1>3
<1>8. at - d = at <=> d = 0
  BY <1>1
<1>9. Before(t, d + 1) = IF d = 0 THEN c ELSE s.cells[at - d]
  BY <1>6, <1>7, <1>8 DEF Before
<1> QED BY <1>5, <1>9 DEF Before, at, t

\* The prompt.
LEMMA PromptShown ==
  ASSUME NEW s, IsScreen(s)
  PROVE  IsScreen(terminal_putchar(s, "$")) /\ Shows(terminal_putchar(s, "$"), <<>>)
<1>1. Len(<<>>) = 0
  OBVIOUS
<1>2. /\ 1 <= Cursor(terminal_putchar(s, "$"))
      /\ Before(terminal_putchar(s, "$"), 1) = "$"
  BY CharacterBefore, CursorOnScreen, ScreenSizes DEF Cells
<1>3. IsScreen(terminal_putchar(s, "$"))
  BY PutsCharacter
<1> QED BY <1>1, <1>2, <1>3 DEF Shows

\* A character at the end of the line.
LEMMA AppendedShown ==
  ASSUME NEW s, IsScreen(s), NEW l, IsSequence(l), Len(l) + 1 <= MAX_BUF - 2, Shows(s, l),
         NEW c, c # "nl", c # "bs"
  PROVE  Shows(terminal_putchar(s, c), Append(l, c))
<1> DEFINE t == terminal_putchar(s, c)
           more == Append(l, c)
           n == Len(l)
<1>1. n \in Nat /\ Len(more) = n + 1 /\ more[n + 1] = c /\ \A i \in 1 .. n : more[i] = l[i]
  BY LineAppended
<1>2. Cursor(s) \in Nat
  BY CursorOnScreen, ScreenSizes DEF Cells
<1>3. n + 1 <= Cursor(s) /\ Before(s, n + 1) = "$" /\ \A i \in 1 .. n : Before(s, n + 1 - i) = l[i]
  BY DEF Shows
<1>4. \A d \in Nat : d <= n + 1 =>
        d + 1 <= Cursor(t) /\ Before(t, d + 1) = IF d = 0 THEN c ELSE Before(s, d)
  BY <1>1, <1>2, <1>3, CharacterBefore, ScreenSizes
<1> HIDE DEF t, more, n
<1>5. (n + 1) + 1 <= Cursor(t) /\ Before(t, (n + 1) + 1) = "$"
  BY <1>1, <1>3, <1>4
<1>6. ASSUME NEW i \in 1 .. n + 1
      PROVE  Before(t, (n + 1) + 1 - i) = more[i]
  <2>1. CASE i = n + 1
    <3>1. (n + 1) + 1 - i = 0 + 1
      BY <1>1, <2>1
    <3> QED BY <1>1, <1>4, <2>1, <3>1
  <2>2. CASE i # n + 1
    <3>1. i \in 1 .. n /\ n + 1 - i \in Nat \ {0} /\ n + 1 - i <= n + 1
      BY <1>1, <2>2
    <3>2. (n + 1) + 1 - i = (n + 1 - i) + 1
      BY <1>1
    <3>3. Before(t, (n + 1 - i) + 1) = Before(s, n + 1 - i)
      BY <1>4, <3>1
    <3> QED BY <1>1, <1>3, <3>1, <3>2, <3>3
  <2> QED BY <2>1, <2>2
<1> QED BY <1>1, <1>5, <1>6 DEF Shows, t, more

\* A backspace at the end of the line.
LEMMA ShortenedShown ==
  ASSUME NEW s, IsScreen(s), NEW l, IsSequence(l), l # <<>>, Shows(s, l)
  PROVE  /\ IsScreen(terminal_putchar(s, "bs"))
         /\ Shows(terminal_putchar(s, "bs"), Front(l))
<1> DEFINE t == terminal_putchar(s, "bs")
           less == Front(l)
           n == Len(l)
<1>1. n \in Nat /\ n >= 1 /\ Len(less) = n - 1 /\ \A i \in 1 .. n - 1 : less[i] = l[i]
  BY LineShortened
<1>2. Cursor(s) \in Nat /\ Cursor(s) < VGA_HEIGHT * VGA_WIDTH
  BY CursorOnScreen, ScreenSizes DEF Cells
<1>3. n + 1 <= Cursor(s) /\ Before(s, n + 1) = "$" /\ \A i \in 1 .. n : Before(s, n + 1 - i) = l[i]
  BY DEF Shows
<1>4. /\ IsScreen(t)
      /\ Cursor(t) = Cursor(s) - 1
      /\ \A i \in Cells : i # Cursor(s) - 1 => t.cells[i] = s.cells[i]
  BY <1>1, <1>2, <1>3, PutsBackspace
<1> HIDE DEF t, less, n
<1>5. ASSUME NEW d \in 1 .. n
      PROVE  Before(t, d) = Before(s, d + 1)
  <2>1. Cursor(s) - (d + 1) \in Cells /\ Cursor(s) - (d + 1) # Cursor(s) - 1
    BY <1>1, <1>2, <1>3, ScreenSizes DEF Cells
  <2>2. Cursor(t) - d = Cursor(s) - (d + 1)
    BY <1>2, <1>4
  <2> QED BY <1>4, <2>1, <2>2 DEF Before
<1>6. (n - 1) + 1 <= Cursor(t) /\ Before(t, (n - 1) + 1) = "$"
  <2>1. (n - 1) + 1 = n /\ n \in 1 .. n
    BY <1>1
  <2> QED BY <1>1, <1>2, <1>3, <1>4, <1>5, <2>1
<1>7. ASSUME NEW i \in 1 .. n - 1
      PROVE  Before(t, (n - 1) + 1 - i) = less[i]
  <2>1. i \in 1 .. n /\ n - i \in 1 .. n
    BY <1>1
  <2>2. (n - 1) + 1 - i = n - i /\ (n - i) + 1 = n + 1 - i
    BY <1>1
  <2> QED BY <1>1, <1>3, <1>5, <2>1, <2>2
<1> QED BY <1>1, <1>4, <1>6, <1>7 DEF Shows, t, less

-----------------------------------------------------------------------------
(* The screen in every step.                                               *)

\* A step that leaves the shell, the line and the screen alone, or takes the
\* shell from one edit to another.
LEMMA ScreenKept ==
  ASSUME ScreenInv, UNCHANGED <<line, screen>>, shell' = shell \/ shell \in Edits
  PROVE  ScreenInv'
<1>1. shell' \in Edits => shell \in Edits
  BY DEF Edits
<1> QED BY <1>1 DEF ScreenInv, Shows, Before, Cursor

\* An interrupt wakes the shell or leaves it.
LEMMA IrqScreen ==
  ASSUME ScreenInv, NEW irq, EnterIrq(irq)
  PROVE  ScreenInv'
<1>1. UNCHANGED <<line, screen>> /\ (shell' = shell \/ shell \in Edits)
  BY DEF EnterIrq, Edits
<1> QED BY <1>1, ScreenKept

\* The prompt stands before an empty line.
LEMMA PromptScreen ==
  ASSUME ScreenInv, Prompt
  PROVE  ScreenInv'
<1>1. screen' = terminal_putchar(screen, "$") /\ line' = <<>> /\ shell' = "read"
  BY DEF Prompt
<1>2. IsScreen(screen') /\ Shows(screen', <<>>)
  BY <1>1, PromptShown DEF ScreenInv
<1>3. IsSequence(<<>>) /\ Len(<<>>) <= MAX_BUF - 2
  BY ScreenSizes, EmptySeq DEF IsSequence
<1>4. IsScreen(screen)' /\ Shows(screen, line)' /\ IsSequence(line)' /\ Len(line') <= MAX_BUF - 2
  BY <1>1, <1>2, <1>3
<1> QED BY <1>4 DEF ScreenInv

\* A character that is read, or waited for, changes nothing on the screen.
LEMMA ReadScreen ==
  ASSUME ScreenInv, syscall_read
  PROVE  ScreenInv'
<1>1. UNCHANGED <<line, screen>> /\ shell \in Edits
  BY DEF syscall_read, Runs, Edits
<1> QED BY <1>1, ScreenKept

\* An echo puts the character on the screen and into the line, or takes one
\* from both.
LEMMA EchoScreen ==
  ASSUME ScreenInv, Echo
  PROVE  ScreenInv'
<1>1. IsScreen(screen) /\ IsSequence(line) /\ Len(line) <= MAX_BUF - 2 /\ Shows(screen, line)
  BY DEF ScreenInv, Echo, Runs, Edits
<1>2. CASE ch = "bs" /\ line = <<>>
  <2>1. UNCHANGED <<line, screen>> /\ shell \in Edits
    BY <1>2 DEF Echo, Runs, Edits
  <2> QED BY <2>1, ScreenKept
<1>3. CASE ch = "bs" /\ line # <<>>
  <2>1. screen' = terminal_putchar(screen, "bs") /\ line' = Front(line)
    BY <1>3 DEF Echo
  <2>2. IsScreen(screen') /\ Shows(screen', line')
    BY <1>1, <1>3, <2>1, ShortenedShown
  <2>3. IsSequence(line') /\ Len(line') = Len(line) - 1 /\ Len(line) \in Nat
    BY <1>1, <1>3, <2>1, LineShortened
  <2>4. Len(line') <= MAX_BUF - 2
    BY <1>1, <2>3, ScreenSizes
  <2> QED BY <2>2, <2>3, <2>4 DEF ScreenInv
<1>4. CASE ch = "nl"
  <2>1. screen' = terminal_putchar(screen, "nl") /\ line' = line /\ shell' = "run"
    BY <1>4 DEF Echo
  <2>2. IsScreen(screen')
    BY <1>1, <2>1, PutsNewline
  <2>3. shell' \notin Edits
    BY <2>1 DEF Edits
  <2> QED BY <1>1, <2>1, <2>2, <2>3 DEF ScreenInv
<1>5. CASE ch # "bs" /\ ch # "nl"
  <2>1. /\ screen' = terminal_putchar(screen, ch) /\ line' = Append(line, ch)
        /\ shell' = IF Len(line') = MAX_BUF - 1 THEN "run" ELSE "read"
    BY <1>5 DEF Echo
  <2>2. IsScreen(screen')
    BY <1>1, <1>5, <2>1, PutsCharacter
  <2>3. IsSequence(line') /\ Len(line') = Len(line) + 1 /\ Len(line) \in Nat
    BY <1>1, <2>1, LineAppended
  <2>4. CASE Len(line') = MAX_BUF - 1
    <3>1. shell' \notin Edits
      BY <2>1, <2>4 DEF Edits
    <3> QED BY <2>2, <2>3, <3>1 DEF ScreenInv
  <2>5. CASE Len(line') # MAX_BUF - 1
    <3>1. Len(line') <= MAX_BUF - 2 /\ Len(line) + 1 <= MAX_BUF - 2
      BY <1>1, <2>3, <2>5, ScreenSizes
    <3>2. Shows(screen', line')
      BY <1>1, <1>5, <2>1, <3>1, AppendedShown
    <3> QED BY <2>2, <2>3, <3>1, <3>2 DEF ScreenInv
  <2> QED BY <2>4, <2>5
<1> QED BY <1>2, <1>3, <1>4, <1>5

\* What a command prints leaves a screen; its line is no longer edited.
LEMMA OutputScreen ==
  ASSUME ScreenInv, Output
  PROVE  ScreenInv'
<1>1. PICK c \in Printable : screen' = terminal_putchar(screen, c)
  BY DEF Output
<1>2. line' = line /\ shell' = "run" /\ c # "bs"
  BY ConsoleAssumption DEF Output, Runs
<1>3. IsScreen(screen')
  <2>1. CASE c = "nl"
    BY <1>1, <2>1, PutsNewline DEF ScreenInv
  <2>2. CASE c # "nl"
    BY <1>1, <1>2, <2>2, PutsCharacter DEF ScreenInv
  <2> QED BY <2>1, <2>2
<1>4. shell' \notin Edits
  BY <1>2 DEF Edits
<1> QED BY <1>2, <1>3, <1>4 DEF ScreenInv

\* So does its end.
LEMMA RunScreen ==
  ASSUME ScreenInv, Run
  PROVE  ScreenInv'
<1>1. UNCHANGED <<line, screen>> /\ shell' \notin Edits
  BY DEF Run, Edits
<1> QED BY <1>1 DEF ScreenInv

\* Together: every step keeps the screen and the line.
LEMMA NextScreen ==
  ASSUME ScreenInv, [Next]_vars
  PROVE  ScreenInv'
<1>1. CASE UNCHANGED <<line, screen, shell>>
  BY <1>1, ScreenKept
<1>2. CASE SetUp \/ Device \/ Typist \/ UNCHANGED vars
  BY <1>1, <1>2 DEF SetUp, Device, Typist, KeepConsole, consoleVars, vars
<1>3. CASE KeyboardIrq \/ TimerIrq
  BY <1>3, IrqScreen DEF KeyboardIrq, TimerIrq
<1>4. CASE ps2kb_handler
  BY <1>1, <1>4 DEF ps2kb_handler
<1>5. CASE Shell
  BY <1>5, PromptScreen, ReadScreen, EchoScreen, OutputScreen, RunScreen DEF Shell
<1> QED BY <1>2, <1>3, <1>4, <1>5 DEF Next

\* The invariant of the screen.
THEOREM ScreenInvariant == Spec => []ScreenInv
<1>1. Init => ScreenInv
  <2>1. IsSequence(<<>>)
    BY EmptySeq DEF IsSequence
  <2> QED BY <2>1, ConsoleAssumption DEF Init, ScreenInv, Edits
<1>2. ScreenInv /\ [Next]_vars => ScreenInv'
  BY NextScreen
<1> QED BY <1>1, <1>2, PTL DEF Spec

\* The line the shell will run is what stands on the screen between its prompt
\* and the cursor, for every size of the screen (terminal_putchar, vgatty.c:110;
\* the shell's loop, gsh/main.c:96).
THEOREM LineShown == Spec => []LineIsOnScreen
<1>1. ScreenInv => LineIsOnScreen
  <2>1. SUFFICES ASSUME ScreenInv, shell \in {"read", "suspended"}
                 PROVE  LET first == Cursor(screen) - Len(line)
                        IN  /\ Cursor(screen) \in Cells
                            /\ first - 1 \in Cells /\ screen.cells[first - 1] = "$"
                            /\ \A i \in DOMAIN line : screen.cells[first + i - 1] = line[i]
    BY DEF LineIsOnScreen
  <2>2. IsScreen(screen) /\ IsSequence(line) /\ Shows(screen, line)
    BY <2>1 DEF ScreenInv, Edits
  <2>3. Cursor(screen) \in Cells /\ Cursor(screen) \in Nat
    BY <2>2, CursorOnScreen, ScreenSizes DEF Cells
  <2>4. Len(line) \in Nat /\ DOMAIN line = 1 .. Len(line)
    BY <2>2, LenProperties DEF IsSequence
  <2> DEFINE n == Len(line)
             at == Cursor(screen)
  <2>5. n + 1 <= at /\ screen.cells[at - (n + 1)] = "$"
        /\ \A i \in 1 .. n : screen.cells[at - (n + 1 - i)] = line[i]
    BY <2>2 DEF Shows, Before
  <2> HIDE DEF n, at
  <2>6. at \in Cells /\ at \in Nat /\ n \in Nat
    BY <2>3, <2>4 DEF n, at
  <2>7. (at - n) - 1 \in Cells /\ (at - n) - 1 = at - (n + 1)
    BY <2>5, <2>6, ScreenSizes DEF Cells
  <2>8. \A i \in 1 .. n : (at - n) + i - 1 = at - (n + 1 - i)
    BY <2>6
  <2>9. \A i \in 1 .. n : screen.cells[(at - n) + i - 1] = line[i]
    BY <2>5, <2>8
  <2> QED BY <2>3, <2>4, <2>5, <2>7, <2>9 DEF n, at
<1> QED BY <1>1, ScreenInvariant, PTL

-----------------------------------------------------------------------------
(* Who sleeps.                                                             *)

\* The ring stays a sequence, whatever is put into it.
LEMMA WithCharSequence ==
  ASSUME NEW buf, IsSequence(buf), NEW char
  PROVE  IsSequence(WithChar(buf, char))
<1>1. IsSequence(<<>>)
  BY EmptySeq DEF IsSequence
<1>2. IsSequence(Append(buf, char))
  BY LineAppended
<1> QED BY <1>1, <1>2 DEF WithChar

\* While the boot goes on.
LEMMA SetUpSleeps ==
  ASSUME SleepInv, SetUp
  PROVE  SleepInv'
<1>1. ~Up
  <2>1. CASE ps2_controller
    BY <2>1 DEF ps2_controller, Up
  <2>2. CASE ps2kb_init
    BY <2>2 DEF ps2kb_init, Up
  <2>3. ASSUME NEW p \in Ports, ps2_reset(p) PROVE ~Up
    BY <2>3 DEF ps2_reset, Up
  <2>4. ASSUME NEW p \in Ports, ps2_identify(p) PROVE ~Up
    BY <2>4 DEF ps2_identify, Up
  <2> QED BY <2>1, <2>2, <2>3, <2>4 DEF SetUp
<1>2. UNCHANGED <<handling, shell, wait, keybuf>>
  BY DEF SetUp, KeepConsole, consoleVars, ps2_controller, ps2kb_init, ps2_reset, ps2_identify,
         decoderVars
<1>3. obf'.port \in 0 .. 2
  <2>1. obf' = obf \/ obf' = Empty
    BY DEF SetUp, ps2_controller, ps2kb_init, ps2_reset, ps2_identify, ps2_recieve_data, wireVars
  <2>2. Empty.port = 0
    BY DEF Empty
  <2> QED BY <2>1, <2>2 DEF SleepInv, PortsInv
<1> QED BY <1>1, <1>2, <1>3 DEF SleepInv, SleeperWaits, BootFirst, PortsInv, SleepsOnlyWhenEmpty

\* A step that leaves the shell, the ring and the driver's port alone.
LEMMA SleepKept ==
  ASSUME SleepInv, UNCHANGED <<ps2pc, port, handling, shell, wait, keybuf>>,
         obf'.port \in 0 .. 2
  PROVE  SleepInv'
BY DEF SleepInv, SleeperWaits, BootFirst, PortsInv, SleepsOnlyWhenEmpty, Up

\* A byte that arrives wakes nobody yet.
LEMMA DeviceSleeps ==
  ASSUME SleepInv, Device
  PROVE  SleepInv'
<1>1. PICK p \in Ports : DeviceSends(p)
  BY DEF Device
<1>2. obf'.port = p
  BY <1>1 DEF DeviceSends
<1>3. UNCHANGED <<ps2pc, port, handling, shell, wait, keybuf>>
  BY <1>1 DEF Device, DeviceSends, KeepConsole, consoleVars, setupVars, decoderVars
<1> QED BY <1>2, <1>3, SleepKept DEF Ports

\* Nor does a key that goes down.
LEMMA TypistSleeps ==
  ASSUME SleepInv, Typist
  PROVE  SleepInv'
<1>1. UNCHANGED <<ps2pc, port, handling, shell, wait, keybuf, obf>>
  BY DEF Typist, Press, Repeat, Release, Types, KeepConsole, consoleVars, setupVars, decoderVars
<1> QED BY <1>1, SleepKept DEF SleepInv, PortsInv

\* An interrupt wakes a thread that sleeps for it before it is handled.
LEMMA KeyboardIrqSleeps ==
  ASSUME SleepInv, KeyboardIrq
  PROVE  SleepInv'
<1>1. /\ Up /\ handling' = obf.port /\ UNCHANGED <<ps2pc, port, wait, keybuf, obf>>
      /\ shell' = IF shell = "suspended" /\ wait = IrqOf(obf.port) THEN "read" ELSE shell
  BY DEF KeyboardIrq, EnterIrq, setupVars, decoderVars
<1>2. obf.port = 1 => shell' # "suspended"
  BY <1>1 DEF IrqOf, SleepInv, SleeperWaits
<1>3. shell' = "suspended" => shell = "suspended"
  BY <1>1
<1> QED BY <1>1, <1>2, <1>3
        DEF SleepInv, SleeperWaits, BootFirst, PortsInv, SleepsOnlyWhenEmpty, Up

\* The timer wakes only who sleeps for interrupt 0.
LEMMA TimerIrqSleeps ==
  ASSUME SleepInv, TimerIrq
  PROVE  SleepInv'
<1>1. /\ Up /\ UNCHANGED <<ps2pc, port, wait, keybuf, obf, handling>>
      /\ shell' = IF shell = "suspended" /\ wait = 0 THEN "read" ELSE shell
  BY DEF TimerIrq, EnterIrq, setupVars, decoderVars
<1> QED BY <1>1 DEF SleepInv, SleeperWaits, BootFirst, PortsInv, SleepsOnlyWhenEmpty, Up

\* Only the handler puts characters into the ring, while its port is handled.
LEMMA HandlerSleeps ==
  ASSUME SleepInv, ps2kb_handler
  PROVE  SleepInv'
<1>1. handling # 0 /\ handling' = 0 /\ UNCHANGED <<ps2pc, port, shell, wait>>
  BY DEF ps2kb_handler, setupVars
<1>2. obf'.port \in 0 .. 2
  <2>1. obf' = obf \/ obf' = Empty
    BY DEF ps2kb_handler, wireVars
  <2>2. Empty.port = 0
    BY DEF Empty
  <2> QED BY <2>1, <2>2 DEF SleepInv, PortsInv
<1>3. IsSequence(keybuf')
  BY WithCharSequence DEF ps2kb_handler, ps2kb_decode, decoderVars, SleepInv
<1>4. keybuf' # keybuf => port = handling
  BY DEF ps2kb_handler, decoderVars
<1>5. handling = 1 \/ handling = 2
  BY <1>1 DEF SleepInv, PortsInv
<1> QED BY <1>1, <1>2, <1>3, <1>4, <1>5
        DEF SleepInv, SleeperWaits, BootFirst, PortsInv, SleepsOnlyWhenEmpty, Up

\* A reader sleeps only after it has found the ring empty.
LEMMA ReadSleeps ==
  ASSUME SleepInv, syscall_read
  PROVE  SleepInv'
<1>1. Up /\ handling = 0 /\ UNCHANGED <<ps2pc, port, obf, handling>>
  BY DEF syscall_read, Runs, setupVars, wireVars
<1>2. PICK S : keybuf \in Seq(S)
  BY DEF SleepInv, IsSequence
<1>3. CASE ps2kb_read_chars(1) = <<>>
  <2>1. shell' = "suspended" /\ wait' = 1 /\ keybuf' = keybuf
    BY <1>3 DEF syscall_read, ReadIrq
  <2>2. keybuf = <<>>
    <3>1. SUFFICES ASSUME keybuf # <<>> PROVE FALSE
      OBVIOUS
    <3>2. Len(keybuf) \in Nat /\ Len(keybuf) # 0
      BY <1>2, <3>1, EmptySeq, LenProperties
    <3>3. ps2kb_read_chars(1) = SubSeq(keybuf, 1, 1)
      BY <3>2 DEF ps2kb_read_chars
    <3>4. keybuf[1] \in S
      BY <1>2, <3>2, ElementOfSeq
    <3>5. Len(SubSeq(keybuf, 1, 1)) = 1
      BY <3>4, SubSeqProperties
    <3> QED BY <1>3, <3>3, <3>5
  <2> QED BY <1>1, <2>1, <2>2
          DEF SleepInv, SleeperWaits, BootFirst, PortsInv, SleepsOnlyWhenEmpty, Up
<1>4. CASE ps2kb_read_chars(1) # <<>>
  <2>1. shell' = "echo" /\ wait' = wait /\ keybuf' = Tail(keybuf)
    BY <1>4 DEF syscall_read
  <2>2. keybuf # <<>>
    <3>1. SUFFICES ASSUME keybuf = <<>> PROVE FALSE
      OBVIOUS
    <3>2. ps2kb_read_chars(1) = SubSeq(<<>>, 1, 0)
      BY <3>1 DEF ps2kb_read_chars
    <3> QED BY <1>4, <3>2
  <2>3. IsSequence(Tail(keybuf))
    BY <1>2, <2>2, HeadTailProperties DEF IsSequence
  <2> QED BY <1>1, <2>1, <2>3
          DEF SleepInv, SleeperWaits, BootFirst, PortsInv, SleepsOnlyWhenEmpty, Up
<1> QED BY <1>3, <1>4

\* Of the shell's steps only the read can suspend it.
LEMMA ShellSleeps ==
  ASSUME SleepInv, Shell
  PROVE  SleepInv'
<1>1. CASE syscall_read
  BY <1>1, ReadSleeps
<1>2. CASE Prompt \/ Echo \/ Output \/ Run
  <2>1. UNCHANGED <<ps2pc, port, wait, keybuf, obf, handling>> /\ shell' # "suspended" /\ Up
    BY <1>2 DEF Prompt, Echo, Output, Run, Runs, KeepPs2, ps2Vars, setupVars, decoderVars, wireVars
  <2> QED BY <2>1 DEF SleepInv, SleeperWaits, BootFirst, PortsInv, SleepsOnlyWhenEmpty, Up
<1> QED BY <1>1, <1>2 DEF Shell

\* The invariant of the sleepers.
THEOREM SleepInvariant == Spec => []SleepInv
<1>1. Init => SleepInv
  <2>1. SUFFICES ASSUME Init PROVE SleepInv
    OBVIOUS
  <2>2. IsSequence(<<>>)
    BY EmptySeq DEF IsSequence
  <2>3. handling = 0 /\ shell = "prompt" /\ keybuf = <<>> /\ obf.port = 0
    BY <2>1 DEF Init, Ps2Init, Empty
  <2> QED BY <2>2, <2>3 DEF SleepInv, SleeperWaits, BootFirst, PortsInv, SleepsOnlyWhenEmpty
<1>2. SleepInv /\ [Next]_vars => SleepInv'
  <2>1. CASE UNCHANGED vars
    BY <2>1, SleepKept DEF vars, ps2Vars, consoleVars, setupVars, decoderVars, wireVars, SleepInv, PortsInv
  <2> QED BY <2>1, SetUpSleeps, DeviceSleeps, TypistSleeps, KeyboardIrqSleeps, TimerIrqSleeps,
             HandlerSleeps, ShellSleeps DEF Next
<1> QED BY <1>1, <1>2, PTL DEF Spec

\* A thread that found no character never sleeps over one when the keyboard is
\* on port 1, in any order of interrupts and reads (syscall_read, syscall.c:161;
\* irq_handler, irq.c:103).
THEOREM NobodySleepsOverCharacters == Spec => []SleepsOnlyWhenEmpty
<1>1. SleepInv => SleepsOnlyWhenEmpty
  BY DEF SleepInv
<1> QED BY <1>1, SleepInvariant, PTL

-----------------------------------------------------------------------------
(* The bytes on their way.                                                 *)

\* The decoder after a byte.  Acknowledgements do not reach it.
Acks == {"FA", "FE"}
Escapes == {"F0", "E0"}

KeysAfter(keys, byte) ==
  CASE byte = CapsLock -> IF byte \in keys THEN keys \ {byte} ELSE keys \cup {byte}
    [] byte = Shift -> keys \cup {byte}
    [] OTHER -> keys

After(d, byte) ==
  CASE byte \in Acks -> d
    [] byte \notin Acks /\ d.state = 0 /\ byte = "F0" -> [state |-> 1, keydown |-> d.keydown]
    [] byte \notin Acks /\ d.state = 0 /\ byte = "E0" -> [state |-> 2, keydown |-> d.keydown]
    [] byte \notin Acks /\ d.state = 0 /\ byte \notin Escapes ->
         [state |-> 0, keydown |-> KeysAfter(d.keydown, byte)]
    [] byte \notin Acks /\ d.state = 1 ->
         [state |-> 0, keydown |-> IF byte = CapsLock THEN d.keydown ELSE d.keydown \ {byte}]
    [] OTHER -> [state |-> 0, keydown |-> d.keydown]

\* The character it makes of a byte.
Character(d, byte) ==
  IF d.state = 0 /\ byte \in DOMAIN scancodelower
  THEN CharOf(byte, KeysAfter(d.keydown, byte) # {}) ELSE "none"

\* It makes of a byte what the typist meant.
Understands(d, x) ==
  /\ d.state \in 0 .. 2
  /\ x.byte \in Acks \cup Escapes \cup DOMAIN scancodelower
  /\ x.char = Character(d, x.byte)

\* It understands all of a box and is another decoder then.
Understood(box, from, to) ==
  \E run : /\ run[1] = from
           /\ run[Len(box) + 1] = to
           /\ \A i \in 1 .. Len(box) :
                Understands(run[i], box[i]) /\ run[i + 1] = After(run[i], box[i].byte)

Decoder == [state |-> state, keydown |-> keydown]

\* Once the byte in the buffer is handled.
AfterBuffer == IF obf.port = port THEN After(Decoder, obf.byte) ELSE Decoder

\* The modifiers that are down or locked when h are the keys held.
Mods(h, locked) ==
  (IF \E k \in h : k.code = Shift /\ ~k.ext THEN {Shift} ELSE {})
  \cup (IF locked THEN {CapsLock} ELSE {})

Ready(h, locked) == [state |-> 0, keydown |-> Mods(h, locked)]

KeyboardAt(p) == plugged[p] \in Keyboards /\ p \in usable

\* What is on its way from the keyboard makes of the decoder one that has the
\* modifiers as the typist has them.
WireInv ==
  /\ \A q \in Ports : q # port => outbox[q] = <<>> /\ ~KeyboardAt(q)
  /\ obf.port \in {0, port}
  /\ obf.port = port => Understands(Decoder, obf)
  /\ Understood(outbox[port], AfterBuffer, Ready(held, caps))

-----------------------------------------------------------------------------
(* The set-up takes all answers of the devices.                            *)

\* What a device that was reset has still to say in each stage.
Answers ==
  [ack |-> ResetAnswer,
   bat |-> [keyboard |-> <<"AA">>, mf2 |-> <<"AA", "AB", "83">>, mouse |-> <<"AA", "00">>],
   id |-> [keyboard |-> <<>>, mf2 |-> <<"AB", "83">>, mouse |-> <<"00">>],
   kind |-> [mf2 |-> <<"83">>]]

Owes(p, bytes) ==
  /\ \A q \in Ports : q # p => outbox[q] = <<>>
  /\ \/ obf = Empty /\ outbox[p] = Say(bytes)
     \/ /\ bytes # <<>>
        /\ obf = [port |-> p, byte |-> Head(bytes), char |-> "none"]
        /\ outbox[p] = Say(Tail(bytes))

Idle == obf = Empty /\ \A p \in Ports : outbox[p] = <<>>

\* A port that has been looked at, or need not be.
Looked(p) == KeyboardAt(p) => device[p] = "keyboard"

Stages == DOMAIN Answers

StageInv ==
  /\ ps2pc[1] \in {"controller", "halted", "reset", "ps2kb"} => Idle
  /\ ps2pc[1] \in Stages =>
       /\ ps2pc[2] \in usable
       /\ plugged[ps2pc[2]] \in DOMAIN Answers[ps2pc[1]]
       /\ Owes(ps2pc[2], Answers[ps2pc[1]][plugged[ps2pc[2]]])
  /\ ps2pc[1] = "kind" => device[ps2pc[2]] = "keyboard"
  /\ ps2pc[2] = 2 => Looked(1)
  /\ ps2pc[1] = "ps2kb" => Looked(1) /\ Looked(2)

Places ==
  ({"controller", "halted", "ps2kb", "done"} \X {0}) \cup (({"reset"} \cup Stages) \X Ports)

\* Before the driver is up nothing is typed and nothing decoded.
BlankInv ==
  /\ state = 0 /\ keydown = {} /\ keybuf = <<>> /\ meant = <<>>
  /\ held = {} /\ caps = FALSE /\ handling = 0

OrderInv ==
  /\ ps2pc \in Places
  /\ plugged \in Plugged
  /\ outbox = [p \in Ports |-> outbox[p]] /\ \A p \in Ports : IsSequence(outbox[p])
  /\ device = [p \in Ports |-> device[p]]
  /\ state \in 0 .. 2
  /\ handling # 0 => obf.port = handling
  /\ held \subseteq Keys /\ caps \in BOOLEAN
  /\ ~Up => BlankInv
  /\ ~Up /\ ~late => StageInv
  /\ Up /\ port \in Ports /\ ~odd /\ ~late => WireInv
  /\ KeysInOrder

-----------------------------------------------------------------------------
(* Boxes of bytes.                                                         *)

\* Two sequences after each other.
LEMMA Joined ==
  ASSUME NEW a, NEW b, IsSequence(a), IsSequence(b)
  PROVE  /\ IsSequence(a \o b)
         /\ Len(a) \in Nat /\ Len(b) \in Nat /\ Len(a \o b) = Len(a) + Len(b)
         /\ \A i \in 1 .. Len(a) : (a \o b)[i] = a[i]
         /\ \A i \in 1 .. Len(b) : (a \o b)[Len(a) + i] = b[i]
<1>1. PICK S, T : a \in Seq(S) /\ b \in Seq(T)
  BY DEF IsSequence
<1>2. a \in Seq(S \cup T) /\ b \in Seq(S \cup T)
  BY <1>1, SequenceWidens
<1>3. a \o b \in Seq(S \cup T) /\ Len(a \o b) = Len(a) + Len(b)
  BY <1>2, ConcatProperties
<1>4. Len(a) \in Nat /\ Len(b) \in Nat
  BY <1>1, LenProperties
<1>5. \A i \in 1 .. Len(a) + Len(b) : (a \o b)[i] = IF i <= Len(a) THEN a[i] ELSE b[i - Len(a)]
  BY <1>2, ConcatProperties
<1>6. ASSUME NEW i \in 1 .. Len(b)
      PROVE  (a \o b)[Len(a) + i] = b[i]
  <2>1. Len(a) + i \in 1 .. Len(a) + Len(b) /\ ~(Len(a) + i <= Len(a)) /\ (Len(a) + i) - Len(a) = i
    BY <1>4
  <2> QED BY <1>5, <2>1
<1>7. ASSUME NEW i \in 1 .. Len(a)
      PROVE  (a \o b)[i] = a[i]
  <2>1. i \in 1 .. Len(a) + Len(b) /\ i <= Len(a)
    BY <1>4
  <2> QED BY <1>5, <2>1
<1> QED BY <1>3, <1>4, <1>6, <1>7 DEF IsSequence

\* One item.
LEMMA Single ==
  ASSUME NEW x
  PROVE  IsSequence(<<x>>) /\ Len(<<x>>) = 1 /\ <<x>>[1] = x /\ <<x>> \o <<>> = <<x>>
<1>1. <<x>> \in Seq({x})
  OBVIOUS
<1>2. <<x>> \o <<>> = <<x>>
  BY <1>1, ConcatEmptySeq
<1> QED BY <1>1, <1>2 DEF IsSequence

\* The first item and the others.
LEMMA Unboxed ==
  ASSUME NEW a, IsSequence(a), a # <<>>
  PROVE  /\ IsSequence(Tail(a))
         /\ Len(a) \in Nat \ {0} /\ Len(Tail(a)) = Len(a) - 1
         /\ Head(a) = a[1]
         /\ \A i \in 1 .. Len(a) - 1 : Tail(a)[i] = a[i + 1]
<1>1. PICK S : a \in Seq(S)
  BY DEF IsSequence
<1>2. Len(a) \in Nat /\ Len(a) # 0
  BY <1>1, EmptySeq, LenProperties
<1>3. Tail(a) \in Seq(S) /\ Len(Tail(a)) = Len(a) - 1
  BY <1>1, HeadTailProperties
<1>4. \A i \in 1 .. Len(Tail(a)) : Tail(a)[i] = a[i + 1]
  BY <1>1, HeadTailProperties
<1>5. Head(a) = a[1]
  BY <1>1, <1>2
<1> QED BY <1>2, <1>3, <1>4, <1>5 DEF IsSequence

\* An empty box makes nothing of a decoder.
LEMMA ReadsNothing ==
  ASSUME NEW d, NEW e
  PROVE  Understood(<<>>, d, e) <=> d = e
<1>1. Len(<<>>) + 1 = 1 /\ 1 .. Len(<<>>) = {}
  OBVIOUS
<1>2. ASSUME Understood(<<>>, d, e) PROVE d = e
  BY <1>1, <1>2 DEF Understood
<1>3. ASSUME d = e PROVE Understood(<<>>, d, e)
  <2> DEFINE run == [i \in {1} |-> d]
  <2>1. run[1] = d
    OBVIOUS
  <2> HIDE DEF run
  <2> QED BY <1>1, <1>3, <2>1 DEF Understood
<1> QED BY <1>2, <1>3

\* The first item of a box.
LEMMA ReadsHead ==
  ASSUME NEW box, IsSequence(box), box # <<>>, NEW d, NEW e, Understood(box, d, e)
  PROVE  Understands(d, Head(box)) /\ Understood(Tail(box), After(d, Head(box).byte), e)
<1>1. PICK run : /\ run[1] = d
                 /\ run[Len(box) + 1] = e
                 /\ \A i \in 1 .. Len(box) :
                      Understands(run[i], box[i]) /\ run[i + 1] = After(run[i], box[i].byte)
  BY DEF Understood
<1> DEFINE n == Len(box)
<1>2. /\ n \in Nat \ {0} /\ Len(Tail(box)) = n - 1 /\ Head(box) = box[1]
      /\ \A i \in 1 .. n - 1 : Tail(box)[i] = box[i + 1]
  BY Unboxed
<1> DEFINE rest == [i \in 1 .. n |-> run[i + 1]]
<1>3. Understands(d, Head(box)) /\ run[2] = After(d, Head(box).byte)
  BY <1>1, <1>2
<1>4. rest[1] = After(d, Head(box).byte)
  BY <1>2, <1>3
<1>5. rest[(n - 1) + 1] = e
  BY <1>1, <1>2
<1>6. ASSUME NEW i \in 1 .. n - 1
      PROVE  Understands(rest[i], Tail(box)[i]) /\ rest[i + 1] = After(rest[i], Tail(box)[i].byte)
  <2>1. i + 1 \in 1 .. n /\ i \in 1 .. n
    BY <1>2
  <2>2. rest[i] = run[i + 1] /\ rest[i + 1] = run[(i + 1) + 1] /\ Tail(box)[i] = box[i + 1]
    BY <1>2, <2>1
  <2> QED BY <1>1, <2>1, <2>2
<1> HIDE DEF rest
<1> QED BY <1>2, <1>3, <1>4, <1>5, <1>6 DEF Understood

\* An item before a box.
LEMMA ReadsBefore ==
  ASSUME NEW box, IsSequence(box), NEW d, NEW e, NEW x,
         Understands(d, x), Understood(box, After(d, x.byte), e)
  PROVE  Understood(<<x>> \o box, d, e)
<1>1. PICK run : /\ run[1] = After(d, x.byte)
                 /\ run[Len(box) + 1] = e
                 /\ \A i \in 1 .. Len(box) :
                      Understands(run[i], box[i]) /\ run[i + 1] = After(run[i], box[i].byte)
  BY DEF Understood
<1> DEFINE n == Len(box)
           more == <<x>> \o box
           longer == [i \in 1 .. n + 2 |-> IF i = 1 THEN d ELSE run[i - 1]]
<1>2. /\ n \in Nat /\ Len(more) = n + 1 /\ more[1] = x
      /\ \A i \in 1 .. n : more[1 + i] = box[i]
  BY Single, Joined
<1> HIDE DEF more
<1>3. longer[1] = d /\ longer[2] = After(d, x.byte)
  BY <1>1, <1>2
<1>4. longer[(n + 1) + 1] = e
  <2>1. (n + 1) + 1 \in 1 .. n + 2 /\ (n + 1) + 1 # 1 /\ ((n + 1) + 1) - 1 = n + 1
    BY <1>2
  <2> QED BY <1>1, <2>1
<1>5. ASSUME NEW i \in 1 .. n + 1
      PROVE  Understands(longer[i], more[i]) /\ longer[i + 1] = After(longer[i], more[i].byte)
  <2>1. CASE i = 1
    BY <1>2, <1>3, <2>1
  <2>2. CASE i # 1
    <3>1. i - 1 \in 1 .. n /\ 1 + (i - 1) = i /\ i \in 1 .. n + 2 /\ i + 1 \in 1 .. n + 2
          /\ i + 1 # 1 /\ (i + 1) - 1 = (i - 1) + 1
      BY <1>2, <2>2
    <3>2. longer[i] = run[i - 1] /\ longer[i + 1] = run[(i - 1) + 1] /\ more[i] = box[i - 1]
      BY <1>2, <2>2, <3>1
    <3> QED BY <1>1, <3>1, <3>2
  <2> QED BY <2>1, <2>2
<1> HIDE DEF longer
<1> QED BY <1>2, <1>3, <1>4, <1>5 DEF Understood, more

\* An item behind a box.
LEMMA ReadsBehind ==
  ASSUME NEW box, IsSequence(box), NEW d, NEW e, NEW x,
         Understood(box, d, e), Understands(e, x)
  PROVE  Understood(box \o <<x>>, d, After(e, x.byte))
<1>1. PICK run : /\ run[1] = d
                 /\ run[Len(box) + 1] = e
                 /\ \A i \in 1 .. Len(box) :
                      Understands(run[i], box[i]) /\ run[i + 1] = After(run[i], box[i].byte)
  BY DEF Understood
<1> DEFINE n == Len(box)
           more == box \o <<x>>
           longer == [i \in 1 .. n + 2 |-> IF i = n + 2 THEN After(e, x.byte) ELSE run[i]]
<1>2. /\ n \in Nat /\ Len(more) = n + 1 /\ more[n + 1] = x
      /\ \A i \in 1 .. n : more[i] = box[i]
  BY Single, Joined
<1> HIDE DEF more
<1>3. longer[1] = d /\ longer[n + 1] = e
  BY <1>1, <1>2
<1>4. longer[(n + 1) + 1] = After(e, x.byte)
  BY <1>2
<1>5. ASSUME NEW i \in 1 .. n + 1
      PROVE  Understands(longer[i], more[i]) /\ longer[i + 1] = After(longer[i], more[i].byte)
  <2>1. CASE i = n + 1
    BY <1>2, <1>3, <1>4, <2>1
  <2>2. CASE i # n + 1
    <3>1. i \in 1 .. n /\ i \in 1 .. n + 2 /\ i + 1 \in 1 .. n + 2 /\ i # n + 2 /\ i + 1 # n + 2
      BY <1>2, <2>2
    <3>2. longer[i] = run[i] /\ longer[i + 1] = run[i + 1] /\ more[i] = box[i]
      BY <1>2, <3>1
    <3> QED BY <1>1, <3>1, <3>2
  <2> QED BY <2>1, <2>2
<1> HIDE DEF longer
<1> QED BY <1>2, <1>3, <1>4, <1>5 DEF Understood, more

-----------------------------------------------------------------------------
(* What devices and the typist put into a box.                             *)

Item(byte, char) == [byte |-> byte, char |-> char]

\* What a device says, one byte after the other.
LEMMA Said ==
  /\ Say(<<>>) = <<>>
  /\ \A b : Say(<<b>>) = <<Item(b, "none")>>
  /\ \A b, c : Say(<<b, c>>) = <<Item(b, "none")>> \o <<Item(c, "none")>>
<1>1. Say(<<>>) = <<>>
  BY DEF Say
<1>2. ASSUME NEW b PROVE Say(<<b>>) = <<Item(b, "none")>>
  BY DEF Say, Item
<1>3. ASSUME NEW b, NEW c PROVE Say(<<b, c>>) = <<Item(b, "none")>> \o <<Item(c, "none")>>
  <2>1. Say(<<b, c>>) = <<Item(b, "none"), Item(c, "none")>>
    BY DEF Say, Item
  <2>2. \A x, y : <<x>> \o <<y>> = <<x, y>>
    <3>1. SUFFICES ASSUME NEW x, NEW y PROVE <<x>> \o <<y>> = <<x, y>>
      OBVIOUS
    <3>2. <<x>> \in Seq({x, y}) /\ <<y>> \in Seq({x, y}) /\ <<x, y>> \in Seq({x, y})
      OBVIOUS
    <3>3. Len(<<x>>) = 1 /\ Len(<<y>>) = 1 /\ Len(<<x, y>>) = 2
      OBVIOUS
    <3>4. <<x>> \o <<y>> \in Seq({x, y}) /\ Len(<<x>> \o <<y>>) = 2
      BY <3>2, <3>3, ConcatProperties
    <3>5. (<<x>> \o <<y>>)[1] = x /\ (<<x>> \o <<y>>)[2] = y
      BY <3>2, <3>3, ConcatProperties
    <3>6. \A i \in 1 .. 2 : (<<x>> \o <<y>>)[i] = <<x, y>>[i]
      BY <3>5
    <3> QED BY <3>2, <3>3, <3>4, <3>6, SeqEqual
  <2> QED BY <2>1, <2>2
<1> QED BY <1>1, <1>2, <1>3

\* The rest of what a device says.
LEMMA SaidOn ==
  ASSUME NEW bytes, IsSequence(bytes)
  PROVE  /\ IsSequence(Say(bytes))
         /\ bytes # <<>> => /\ Say(bytes) # <<>>
                            /\ Head(Say(bytes)) = Item(Head(bytes), "none")
                            /\ Tail(Say(bytes)) = Say(Tail(bytes))
<1>1. PICK S : bytes \in Seq(S)
  BY DEF IsSequence
<1>2. DOMAIN bytes = 1 .. Len(bytes) /\ Len(bytes) \in Nat
  BY <1>1, LenProperties
<1> DEFINE T == {Item(b, "none") : b \in S}
<1>3. Say(bytes) = [i \in 1 .. Len(bytes) |-> Item(bytes[i], "none")]
  BY <1>2 DEF Say, Item
<1>4. Say(bytes) \in Seq(T)
  <2>1. \A i \in 1 .. Len(bytes) : bytes[i] \in S
    BY <1>1, ElementOfSeq
  <2>2. \A i \in 1 .. Len(bytes) : Item(bytes[i], "none") \in T
    BY <2>1
  <2> HIDE DEF T
  <2> QED BY <1>2, <1>3, <2>2, IsASeq
<1>5. Len(Say(bytes)) = Len(bytes)
  BY <1>2, <1>3, <1>4, LenProperties
<1>6. ASSUME bytes # <<>>
      PROVE  /\ Say(bytes) # <<>>
             /\ Head(Say(bytes)) = Item(Head(bytes), "none")
             /\ Tail(Say(bytes)) = Say(Tail(bytes))
  <2>1. IsSequence(Say(bytes))
    BY <1>4 DEF IsSequence
  <2>2. /\ IsSequence(Tail(bytes)) /\ Len(bytes) \in Nat \ {0}
        /\ Len(Tail(bytes)) = Len(bytes) - 1 /\ Head(bytes) = bytes[1]
        /\ \A i \in 1 .. Len(bytes) - 1 : Tail(bytes)[i] = bytes[i + 1]
    BY <1>6, Unboxed
  <2>3. Say(bytes) # <<>>
    BY <1>5, <2>2, EmptySeq
  <2>4. /\ IsSequence(Tail(Say(bytes)))
        /\ Len(Tail(Say(bytes))) = Len(bytes) - 1 /\ Head(Say(bytes)) = Say(bytes)[1]
        /\ \A i \in 1 .. Len(bytes) - 1 : Tail(Say(bytes))[i] = Say(bytes)[i + 1]
    BY <1>5, <2>1, <2>3, Unboxed
  <2>5. Head(Say(bytes)) = Item(Head(bytes), "none")
    BY <1>3, <2>2, <2>4
  <2>6. Say(Tail(bytes)) = [i \in 1 .. Len(bytes) - 1 |-> Item(Tail(bytes)[i], "none")]
    <3>1. DOMAIN Tail(bytes) = 1 .. Len(bytes) - 1
      BY <2>2, LenProperties DEF IsSequence
    <3> QED BY <3>1 DEF Say, Item
  <2>7. Tail(Say(bytes)) = [i \in 1 .. Len(bytes) - 1 |-> Tail(Say(bytes))[i]]
    BY <2>4, LenProperties DEF IsSequence
  <2>8. ASSUME NEW i \in 1 .. Len(bytes) - 1
        PROVE  Tail(Say(bytes))[i] = Item(Tail(bytes)[i], "none")
    <3>1. i + 1 \in 1 .. Len(bytes)
      BY <2>2
    <3> QED BY <1>3, <2>2, <2>4, <3>1
  <2>9. Tail(Say(bytes)) = Say(Tail(bytes))
    BY <2>6, <2>7, <2>8
  <2> QED BY <2>3, <2>5, <2>9
<1> QED BY <1>4, <1>6 DEF IsSequence

\* The tables.
LEMMA Tables ==
  /\ DOMAIN scancodelower = {"1C", "5A", "66", "75", Shift, CapsLock}
  /\ DOMAIN scancodelower \cap (Acks \cup Escapes) = {}
  /\ Shift \in DOMAIN scancodelower /\ CapsLock \in DOMAIN scancodelower /\ Shift # CapsLock
  /\ \A upper \in BOOLEAN : CharOf(Shift, upper) = "none" /\ CharOf(CapsLock, upper) = "none"
  /\ Acks \cap Escapes = {}
BY DEF scancodelower, scancodeupper, CharOf, Shift, CapsLock, Acks, Escapes

\* A decoder stays one.
LEMMA AfterState ==
  ASSUME NEW d, d.state \in 0 .. 2, NEW byte
  PROVE  After(d, byte).state \in 0 .. 2
BY DEF After

\* An acknowledgement is nothing to the decoder.
LEMMA AckUnderstood ==
  ASSUME NEW d, d.state \in 0 .. 2, NEW byte \in Acks
  PROVE  Understands(d, Item(byte, "none")) /\ After(d, byte) = d
<1>1. Item(byte, "none").byte = byte /\ Item(byte, "none").char = "none"
  BY DEF Item
<1>2. byte \notin DOMAIN scancodelower
  BY Tables
<1> QED BY <1>1, <1>2 DEF Understands, Character, After

\* A box with an acknowledgement more.
LEMMA AckReads ==
  ASSUME NEW box, IsSequence(box), NEW d, NEW e, d.state \in 0 .. 2, e.state \in 0 .. 2,
         Understood(box, d, e), NEW bytes \in {<<>>, <<"FA">>, <<"FE">>}
  PROVE  /\ Understood(Say(bytes) \o box, d, e) /\ Understood(box \o Say(bytes), d, e)
         /\ IsSequence(Say(bytes) \o box) /\ IsSequence(box \o Say(bytes))
<1>1. CASE bytes = <<>>
  <2>1. Say(bytes) \o box = box /\ box \o Say(bytes) = box
    BY <1>1, Said, ConcatEmptySeq DEF IsSequence
  <2> QED BY <2>1
<1>2. ASSUME NEW byte \in Acks, bytes = <<byte>>
      PROVE  /\ Understood(Say(bytes) \o box, d, e) /\ Understood(box \o Say(bytes), d, e)
             /\ IsSequence(Say(bytes) \o box) /\ IsSequence(box \o Say(bytes))
  <2> DEFINE x == Item(byte, "none")
  <2>1. Say(bytes) = <<x>>
    BY <1>2, Said
  <2>2. Understands(d, x) /\ After(d, byte) = d /\ Understands(e, x) /\ After(e, byte) = e
    BY AckUnderstood
  <2>3. x.byte = byte
    BY DEF Item
  <2> HIDE DEF x
  <2>4. Understood(<<x>> \o box, d, e)
    BY <2>2, <2>3, ReadsBefore
  <2>5. Understood(box \o <<x>>, d, e)
    BY <2>2, <2>3, ReadsBehind
  <2>6. IsSequence(<<x>> \o box) /\ IsSequence(box \o <<x>>)
    BY Single, Joined
  <2> QED BY <2>1, <2>4, <2>5, <2>6
<1> QED BY <1>1, <1>2 DEF Acks

\* What the driver's commands do to the box of its port.
LEMMA CommandReads ==
  ASSUME port \in Ports, ps2kb_resend_command \/ UNCHANGED outbox,
         outbox = [p \in Ports |-> outbox[p]], \A p \in Ports : IsSequence(outbox[p]),
         NEW d, NEW e, d.state \in 0 .. 2, e.state \in 0 .. 2,
         Understood(outbox[port], d, e)
  PROVE  /\ Understood(outbox'[port], d, e)
         /\ \A q \in Ports : q # port => outbox'[q] = outbox[q]
<1>1. CASE UNCHANGED outbox
  BY <1>1
<1>2. CASE ps2kb_resend_command
  <2>1. \A byte : Answer(port, byte) \in {<<>>, <<"FA">>, <<"FE">>}
    BY DEF Answer
  <2>2. \/ UNCHANGED outbox
        \/ \E bytes \in {<<>>, <<"FA">>, <<"FE">>} :
             \/ outbox' = [outbox EXCEPT ![port] = Say(bytes) \o @]
             \/ outbox' = [outbox EXCEPT ![port] = @ \o Say(bytes)]
    BY <1>2, <2>1 DEF ps2kb_resend_command
  <2>3. ASSUME NEW bytes \in {<<>>, <<"FA">>, <<"FE">>},
               \/ outbox' = [outbox EXCEPT ![port] = Say(bytes) \o @]
               \/ outbox' = [outbox EXCEPT ![port] = @ \o Say(bytes)]
        PROVE  /\ Understood(outbox'[port], d, e)
               /\ \A q \in Ports : q # port => outbox'[q] = outbox[q]
    <3>1. Understood(Say(bytes) \o outbox[port], d, e) /\ Understood(outbox[port] \o Say(bytes), d, e)
      BY AckReads
    <3>2. outbox'[port] = Say(bytes) \o outbox[port] \/ outbox'[port] = outbox[port] \o Say(bytes)
      BY <2>3
    <3>3. \A q \in Ports : q # port => outbox'[q] = outbox[q]
      BY <2>3
    <3> QED BY <3>1, <3>2, <3>3
  <2> QED BY <1>1, <2>2, <2>3
<1> QED BY <1>1, <1>2

\* ... and to the type of the boxes.
LEMMA CommandBoxes ==
  ASSUME ps2kb_resend_command \/ UNCHANGED outbox,
         outbox = [p \in Ports |-> outbox[p]], \A p \in Ports : IsSequence(outbox[p])
  PROVE  outbox' = [p \in Ports |-> outbox'[p]] /\ \A p \in Ports : IsSequence(outbox'[p])
<1>1. CASE UNCHANGED outbox
  BY <1>1
<1>2. CASE ps2kb_resend_command
  <2>1. \A byte : Answer(port, byte) \in {<<>>, <<"FA">>, <<"FE">>}
    BY DEF Answer
  <2>2. \/ UNCHANGED outbox
        \/ port \in Ports /\ \E bytes \in {<<>>, <<"FA">>, <<"FE">>} :
             \/ outbox' = [outbox EXCEPT ![port] = Say(bytes) \o @]
             \/ outbox' = [outbox EXCEPT ![port] = @ \o Say(bytes)]
    BY <1>2, <2>1 DEF ps2kb_resend_command
  <2>3. ASSUME port \in Ports, NEW bytes \in {<<>>, <<"FA">>, <<"FE">>},
               \/ outbox' = [outbox EXCEPT ![port] = Say(bytes) \o @]
               \/ outbox' = [outbox EXCEPT ![port] = @ \o Say(bytes)]
        PROVE  outbox' = [p \in Ports |-> outbox'[p]] /\ \A p \in Ports : IsSequence(outbox'[p])
    <3>1. IsSequence(bytes)
      BY Single, EmptySeq DEF IsSequence
    <3>2. IsSequence(Say(bytes))
      BY <3>1, SaidOn
    <3>3. IsSequence(Say(bytes) \o outbox[port]) /\ IsSequence(outbox[port] \o Say(bytes))
      BY <2>3, <3>2, Joined
    <3>4. outbox'[port] = Say(bytes) \o outbox[port] \/ outbox'[port] = outbox[port] \o Say(bytes)
      BY <2>3
    <3>5. \A q \in Ports : q # port => outbox'[q] = outbox[q]
      BY <2>3
    <3>6. outbox' = [p \in Ports |-> outbox'[p]]
      BY <2>3
    <3> QED BY <3>3, <3>4, <3>5, <3>6
  <2> QED BY <1>1, <2>2, <2>3
<1> QED BY <1>1, <1>2

\* What announces another byte.
LEMMA AfterEscape ==
  ASSUME NEW d, d.state = 0
  PROVE  /\ After(d, "F0") = [state |-> 1, keydown |-> d.keydown]
         /\ After(d, "E0") = [state |-> 2, keydown |-> d.keydown]
<1>1. "F0" \notin Acks /\ "E0" \notin Acks /\ "F0" \in Escapes /\ "E0" \in Escapes /\ "E0" # "F0"
  BY DEF Acks, Escapes
<1>2. After(d, "F0") = [state |-> 1, keydown |-> d.keydown]
  BY <1>1 DEF After
<1>3. After(d, "E0") = [state |-> 2, keydown |-> d.keydown]
  BY <1>1 DEF After
<1> QED BY <1>2, <1>3

\* What a key without a modifier's code leaves of the modifiers.
LEMMA ModsPlain ==
  ASSUME NEW h, NEW locked \in BOOLEAN, NEW k, k.code # Shift \/ k.ext
  PROVE  Mods(h \cup {k}, locked) = Mods(h, locked) /\ Mods(h \ {k}, locked) = Mods(h, locked)
<1>1. (\E x \in h \cup {k} : x.code = Shift /\ ~x.ext) <=> \E x \in h : x.code = Shift /\ ~x.ext
  OBVIOUS
<1>2. (\E x \in h \ {k} : x.code = Shift /\ ~x.ext) <=> \E x \in h : x.code = Shift /\ ~x.ext
  OBVIOUS
<1> QED BY <1>1, <1>2 DEF Mods

\* There is one shift key.
LEMMA ModsShift ==
  ASSUME NEW h, h \subseteq Keys, NEW locked \in BOOLEAN, NEW k \in Keys, k.code = Shift, ~k.ext
  PROVE  /\ Mods(h \cup {k}, locked) = Mods(h, locked) \cup {Shift}
         /\ Mods(h \ {k}, locked) = Mods(h, locked) \ {Shift}
<1>1. \E x \in h \cup {k} : x.code = Shift /\ ~x.ext
  OBVIOUS
<1>2. ~\E x \in h \ {k} : x.code = Shift /\ ~x.ext
  <2>1. SUFFICES ASSUME NEW x \in h \ {k}, x.code = Shift, ~x.ext PROVE FALSE
    OBVIOUS
  <2>2. k \in [code : DOMAIN scancodelower, ext : BOOLEAN] /\ x \in [code : DOMAIN scancodelower, ext : BOOLEAN]
    BY <2>1, KeyboardAssumption
  <2>3. k = [code |-> k.code, ext |-> k.ext] /\ x = [code |-> x.code, ext |-> x.ext]
    BY <2>2
  <2>4. k.ext = FALSE /\ x.ext = FALSE
    BY <2>1, <2>2
  <2> QED BY <2>1, <2>3, <2>4
<1>3. Shift # CapsLock
  BY Tables
<1> QED BY <1>1, <1>2, <1>3 DEF Mods

\* Modifiers are none of the other keys, and there are some when capitals are on.
LEMMA ModsAre ==
  ASSUME NEW h, NEW locked \in BOOLEAN
  PROVE  /\ Mods(h, locked) \subseteq {Shift, CapsLock}
         /\ (Mods(h, locked) # {}) <=> (locked \/ \E k \in h : k.code = Shift /\ ~k.ext)
         /\ (CapsLock \in Mods(h, locked)) <=> locked
         /\ Mods(h, ~locked) = KeysAfter(Mods(h, locked), CapsLock)
<1>1. Shift # CapsLock
  BY Tables
<1> QED BY <1>1 DEF Mods, KeysAfter

\* Both keys of the typist and the decoder's after one press.
LEMMA Modified ==
  ASSUME NEW h, h \subseteq Keys, NEW locked \in BOOLEAN, NEW k \in Keys, ~k.ext
  PROVE  KeysAfter(Mods(h, locked), k.code) =
           Mods(h \cup {k}, IF k.code = CapsLock THEN ~locked ELSE locked)
<1>1. Shift # CapsLock
  BY Tables
<1>2. CASE k.code = Shift
  BY <1>1, <1>2, ModsShift DEF KeysAfter
<1>3. CASE k.code = CapsLock
  <2>1. Mods(h \cup {k}, ~locked) = Mods(h, ~locked)
    BY <1>1, <1>3, ModsPlain
  <2> QED BY <1>3, <2>1, ModsAre
<1>4. CASE k.code \notin {Shift, CapsLock}
  BY <1>4, ModsPlain DEF KeysAfter
<1> QED BY <1>2, <1>3, <1>4

\* A key that goes down, or repeats.
LEMMA MakeReads ==
  ASSUME held \subseteq Keys, caps \in BOOLEAN, NEW k \in Keys,
         NEW locked, locked = IF IsCaps(k) THEN ~caps ELSE caps
  PROVE  /\ Understood(Make(k, Meaning(k)), Ready(held, caps), Ready(held \cup {k}, locked))
         /\ IsSequence(Make(k, Meaning(k)))
<1> DEFINE d == Ready(held, caps)
           e == Ready(held \cup {k}, locked)
<1>1. k.code \in DOMAIN scancodelower /\ k.ext \in BOOLEAN
  BY KeyboardAssumption
<1>2. d.state = 0 /\ d.keydown = Mods(held, caps)
  BY DEF Ready
<1>3. CASE ~k.ext
  <2> DEFINE x == Item(k.code, Meaning(k))
  <2>1. Make(k, Meaning(k)) = <<x>> /\ x.byte = k.code /\ x.char = CharOf(k.code, Capitals)
    BY <1>3 DEF Make, Item, Meaning
  <2>2. k.code \notin Acks \cup Escapes
    BY <1>1, Tables
  <2>3. After(d, k.code) = e
    <3>1. After(d, k.code) = [state |-> 0, keydown |-> KeysAfter(Mods(held, caps), k.code)]
      BY <1>2, <2>2 DEF After, Escapes
    <3>2. locked = IF k.code = CapsLock THEN ~caps ELSE caps
      BY <1>3 DEF IsCaps
    <3> QED BY <1>3, <3>1, <3>2, Modified DEF Ready
  <2>4. Character(d, k.code) = CharOf(k.code, KeysAfter(Mods(held, caps), k.code) # {})
    BY <1>1, <1>2 DEF Character
  <2>5. CharOf(k.code, KeysAfter(Mods(held, caps), k.code) # {}) = CharOf(k.code, Capitals)
    <3>1. CASE k.code \in {Shift, CapsLock}
      BY <3>1, Tables DEF Capitals
    <3>2. CASE k.code \notin {Shift, CapsLock}
      <4>1. KeysAfter(Mods(held, caps), k.code) = Mods(held, caps)
        BY <3>2 DEF KeysAfter
      <4>2. (Mods(held, caps) # {}) <=> Capitals
        BY ModsAre DEF Capitals
      <4>3. Capitals \in BOOLEAN
        BY DEF Capitals
      <4>4. (Mods(held, caps) # {}) = Capitals
        BY <4>2, <4>3
      <4> QED BY <4>1, <4>4
    <3> QED BY <3>1, <3>2
  <2>6. Understands(d, x)
    BY <1>1, <1>2, <2>1, <2>4, <2>5 DEF Understands
  <2> HIDE DEF x, d, e
  <2>7. Understood(<<>>, After(d, x.byte), e)
    BY <2>1, <2>3, ReadsNothing
  <2>8. Understood(<<x>> \o <<>>, d, e)
    BY <2>6, <2>7, ReadsBefore, EmptySeq DEF IsSequence
  <2>9. Understood(<<x>>, d, e) /\ IsSequence(<<x>>)
    BY <2>8, Single
  <2> QED BY <2>1, <2>9 DEF d, e
<1>4. CASE k.ext
  <2> DEFINE x == Item("E0", "none")
             y == Item(k.code, "none")
             m == [state |-> 2, keydown |-> Mods(held, caps)]
  <2>1. Make(k, Meaning(k)) = <<x, y>> /\ x.byte = "E0" /\ x.char = "none"
        /\ y.byte = k.code /\ y.char = "none"
    BY <1>4 DEF Make, Item, Meaning
  <2>2. <<x, y>> = <<x>> \o <<y>>
    <3>1. Say(<<"E0", k.code>>) = <<x, y>>
      BY DEF Say, Item
    <3> QED BY <3>1, Said
  <2>3. e = d
    BY <1>4, ModsPlain DEF IsCaps, Ready
  <2>4. After(d, "E0") = m
    BY <1>2, AfterEscape
  <2>5. Understands(d, x)
    <3>1. "E0" \notin DOMAIN scancodelower /\ "E0" \in Escapes
      BY Tables DEF Escapes
    <3> QED BY <1>2, <2>1, <3>1 DEF Understands, Character
  <2>6. After(m, k.code) = d
    <3>1. k.code \notin Acks
      BY <1>1, Tables
    <3> QED BY <3>1 DEF After, Ready
  <2>7. Understands(m, y)
    BY <1>1, <2>1 DEF Understands, Character
  <2> HIDE DEF x, y, d, e, m
  <2>8. Understood(<<>>, After(m, y.byte), d)
    BY <2>1, <2>6, ReadsNothing
  <2>9. Understood(<<y>>, m, d) /\ IsSequence(<<y>>)
    <3>1. Understood(<<y>> \o <<>>, m, d)
      BY <2>7, <2>8, ReadsBefore, EmptySeq DEF IsSequence
    <3> QED BY <3>1, Single
  <2>10. Understood(<<x>> \o <<y>>, d, e)
    BY <2>1, <2>3, <2>4, <2>5, <2>9, ReadsBefore
  <2>11. IsSequence(<<x>> \o <<y>>)
    BY Single, Joined
  <2> QED BY <2>1, <2>2, <2>10, <2>11 DEF d, e
<1> QED BY <1>1, <1>3, <1>4

\* A key that is let go.
LEMMA BreakReads ==
  ASSUME held \subseteq Keys, caps \in BOOLEAN, NEW k \in Keys, ~k.ext
  PROVE  Understood(Break(k), Ready(held, caps), Ready(held \ {k}, caps))
<1> DEFINE d == Ready(held, caps)
           e == Ready(held \ {k}, caps)
           x == Item("F0", "none")
           y == Item(k.code, "none")
           m == [state |-> 1, keydown |-> Mods(held, caps)]
<1>1. k.code \in DOMAIN scancodelower
  BY KeyboardAssumption
<1>2. d.state = 0 /\ d.keydown = Mods(held, caps)
  BY DEF Ready
<1>3. Break(k) = <<x>> \o <<y>>
  <2>1. <<>> \o <<"F0", k.code>> = <<"F0", k.code>>
    <3>1. <<"F0", k.code>> \in Seq({"F0", k.code})
      OBVIOUS
    <3> QED BY <3>1, ConcatEmptySeq
  <2>2. Break(k) = Say(<<"F0", k.code>>)
    BY <2>1 DEF Break
  <2> QED BY <2>2, Said
<1>4. x.byte = "F0" /\ x.char = "none" /\ y.byte = k.code /\ y.char = "none"
  BY DEF Item
<1>5. After(d, "F0") = m
  BY <1>2, AfterEscape
<1>6. Understands(d, x)
  <2>1. "F0" \notin DOMAIN scancodelower /\ "F0" \in Escapes
    BY Tables DEF Escapes
  <2> QED BY <1>2, <1>4, <2>1 DEF Understands, Character
<1>7. After(m, k.code) = e
  <2>1. k.code \notin Acks
    BY <1>1, Tables
  <2>2. After(m, k.code) = [state |-> 0, keydown |-> IF k.code = CapsLock THEN m.keydown
                                                    ELSE m.keydown \ {k.code}]
    BY <2>1 DEF After
  <2>3. CASE k.code = Shift
    <3>1. Shift # CapsLock
      BY Tables
    <3> QED BY <2>2, <2>3, <3>1, ModsShift DEF Ready
  <2>4. CASE k.code = CapsLock
    <3>1. Shift # CapsLock
      BY Tables
    <3> QED BY <2>2, <2>4, <3>1, ModsPlain DEF Ready
  <2>5. CASE k.code \notin {Shift, CapsLock}
    <3>1. Mods(held, caps) \ {k.code} = Mods(held, caps)
      BY <2>5, ModsAre
    <3> QED BY <2>2, <2>5, <3>1, ModsPlain DEF Ready
  <2> QED BY <2>3, <2>4, <2>5
<1>8. Understands(m, y)
  BY <1>1, <1>4 DEF Understands, Character
<1> HIDE DEF x, y, d, e, m
<1>9. Understood(<<>>, After(m, y.byte), e)
  BY <1>4, <1>7, ReadsNothing
<1>10. Understood(<<y>>, m, e) /\ IsSequence(<<y>>)
  <2>1. Understood(<<y>> \o <<>>, m, e)
    BY <1>8, <1>9, ReadsBefore, EmptySeq DEF IsSequence
  <2> QED BY <2>1, Single
<1>11. Understood(<<x>> \o <<y>>, d, e)
  BY <1>4, <1>5, <1>6, <1>10, ReadsBefore
<1> QED BY <1>3, <1>11 DEF d, e

\* The bytes of a key are a sequence.
LEMMA BreakSequence ==
  ASSUME NEW k
  PROVE  IsSequence(Break(k))
<1>1. IsSequence(<<"E0">>) /\ IsSequence(<<>>)
  BY Single, EmptySeq DEF IsSequence
<1>2. <<"F0", k.code>> \in Seq({"F0", k.code})
  OBVIOUS
<1>3. IsSequence((IF k.ext THEN <<"E0">> ELSE <<>>) \o <<"F0", k.code>>)
  BY <1>1, <1>2, Joined DEF IsSequence
<1> QED BY <1>3, SaidOn DEF Break

-----------------------------------------------------------------------------
(* The set-up.                                                             *)

\* The stages and what devices owe in them.
LEMMA AnswerTable ==
  /\ Stages = {"ack", "bat", "id", "kind"}
  /\ Answers["ack"] = ResetAnswer
  /\ DOMAIN ResetAnswer = {"none", "keyboard", "mf2", "mouse", "broken"}
  /\ ResetAnswer["none"] = <<>> /\ ResetAnswer["keyboard"] = <<"FA", "AA">>
  /\ ResetAnswer["mf2"] = <<"FA", "AA", "AB", "83">>
  /\ ResetAnswer["mouse"] = <<"FA", "AA", "00">> /\ ResetAnswer["broken"] = <<"FC">>
  /\ DOMAIN Answers["bat"] = {"keyboard", "mf2", "mouse"}
  /\ Answers["bat"]["keyboard"] = <<"AA">> /\ Answers["bat"]["mf2"] = <<"AA", "AB", "83">>
  /\ Answers["bat"]["mouse"] = <<"AA", "00">>
  /\ DOMAIN Answers["id"] = {"keyboard", "mf2", "mouse"}
  /\ Answers["id"]["keyboard"] = <<>> /\ Answers["id"]["mf2"] = <<"AB", "83">>
  /\ Answers["id"]["mouse"] = <<"00">>
  /\ DOMAIN Answers["kind"] = {"mf2"} /\ Answers["kind"]["mf2"] = <<"83">>
BY DEF Stages, Answers, ResetAnswer

\* All of them are sequences.
LEMMA AnswersAreSequences ==
  ASSUME NEW stage \in Stages, NEW kind \in DOMAIN Answers[stage]
  PROVE  IsSequence(Answers[stage][kind])
<1> DEFINE S == {"FA", "AA", "AB", "83", "00", "FC"}
<1>1. /\ <<>> \in Seq(S) /\ <<"FA", "AA">> \in Seq(S) /\ <<"FA", "AA", "AB", "83">> \in Seq(S)
      /\ <<"FA", "AA", "00">> \in Seq(S) /\ <<"FC">> \in Seq(S)
  OBVIOUS
<1>2. /\ <<"AA">> \in Seq(S) /\ <<"AA", "AB", "83">> \in Seq(S) /\ <<"AA", "00">> \in Seq(S)
      /\ <<"AB", "83">> \in Seq(S) /\ <<"00">> \in Seq(S) /\ <<"83">> \in Seq(S)
  OBVIOUS
<1> HIDE DEF S
<1>3. Answers[stage][kind] \in Seq(S)
  BY <1>1, <1>2, AnswerTable
<1> QED BY <1>3 DEF IsSequence

\* A device that owes nothing has sent nothing that was not taken.
LEMMA OwesNothing ==
  ASSUME NEW p \in Ports
  PROVE  Owes(p, <<>>) <=> Idle
BY Said DEF Owes, Idle

\* An empty buffer is of no port.
LEMMA EmptyPort == Empty.port = 0
BY DEF Empty

\* With nothing in the buffer all is still to be sent.
LEMMA InBuffer ==
  ASSUME NEW p \in Ports, NEW bytes, Owes(p, bytes), obf = Empty
  PROVE  outbox[p] = Say(bytes)
<1>1. Empty.port = 0 /\ p # 0
  BY EmptyPort DEF Ports
<1>2. [port |-> p, byte |-> Head(bytes), char |-> "none"].port = p
  OBVIOUS
<1> QED BY <1>1, <1>2 DEF Owes

\* A poll that does not give up takes the next byte, or finds that there is none.
LEMMA Receives ==
  ASSUME NEW p \in Ports, NEW bytes, IsSequence(bytes), Owes(p, bytes),
         NEW byte, ps2_recieve_data(p, byte), UNCHANGED outbox, ~late'
  PROVE  /\ ~late
         /\ bytes = <<>> => byte = "none" /\ Idle'
         /\ bytes # <<>> => byte = Head(bytes) /\ Owes(p, Tail(bytes))'
<1>1. Empty.port = 0 /\ p # 0
  BY DEF Empty, Ports
<1>2. ~late
  BY DEF ps2_recieve_data
<1>3. CASE bytes = <<>>
  <2>1. Idle
    BY <1>3, OwesNothing
  <2>2. byte = "none" /\ obf' = obf
    BY <2>1 DEF ps2_recieve_data, Idle
  <2> QED BY <1>2, <1>3, <2>1, <2>2 DEF Idle
<1>4. CASE bytes # <<>>
  <2>1. Say(bytes) # <<>>
    BY <1>4, SaidOn
  <2>2. obf # Empty
    <3>1. SUFFICES ASSUME obf = Empty PROVE FALSE
      OBVIOUS
    <3>2. outbox[p] = Say(bytes)
      BY <1>1, <3>1, InBuffer
    <3> QED BY <2>1, <3>1, <3>2 DEF ps2_recieve_data
  <2>3. /\ obf = [port |-> p, byte |-> Head(bytes), char |-> "none"]
        /\ outbox[p] = Say(Tail(bytes))
    BY <2>2 DEF Owes
  <2>4. byte = Head(bytes) /\ obf' = Empty
    BY <2>2, <2>3 DEF ps2_recieve_data
  <2> QED BY <1>2, <1>4, <2>3, <2>4 DEF Owes
<1> QED BY <1>3, <1>4

\* A byte that moves into the buffer is still owed.
LEMMA SendsOwed ==
  ASSUME NEW p \in Ports, NEW bytes, IsSequence(bytes), Owes(p, bytes),
         NEW q \in Ports, DeviceSends(q), outbox = [r \in Ports |-> outbox[r]]
  PROVE  Owes(p, bytes)'
<1>1. q = p /\ outbox[p] = Say(bytes)
  <2>1. obf = Empty /\ outbox[q] # <<>>
    BY DEF DeviceSends
  <2>2. outbox[p] = Say(bytes)
    BY <2>1, InBuffer
  <2> QED BY <2>1, <2>2 DEF Owes
<1>2. bytes # <<>>
  BY <1>1, Said DEF DeviceSends
<1>3. Head(Say(bytes)) = Item(Head(bytes), "none") /\ Tail(Say(bytes)) = Say(Tail(bytes))
  BY <1>2, SaidOn
<1>4. obf' = [port |-> p, byte |-> Head(bytes), char |-> "none"]
  BY <1>1, <1>3 DEF DeviceSends, Item
<1>5. outbox'[p] = Say(Tail(bytes)) /\ \A r \in Ports : r # p => outbox'[r] = outbox[r]
  BY <1>1, <1>3 DEF DeviceSends
<1> QED BY <1>2, <1>4, <1>5 DEF Owes

\* On to the next port, or to the driver.
LEMMA NextStage ==
  ASSUME NEW p \in Ports, NextPort(p), Idle', Looked(p)', p = 2 => Looked(1)'
  PROVE  StageInv'
<1>1. CASE p = 1
  <2>1. ps2pc' = <<"reset", 2>>
    BY <1>1 DEF NextPort
  <2>2. ps2pc'[1] = "reset" /\ ps2pc'[2] = 2
    BY <2>1
  <2> QED BY <1>1, <2>2, AnswerTable DEF StageInv
<1>2. CASE p = 2
  <2>1. ps2pc' = <<"ps2kb", 0>>
    BY <1>2 DEF NextPort
  <2>2. ps2pc'[1] = "ps2kb" /\ ps2pc'[2] = 0
    BY <2>1
  <2> QED BY <1>2, <2>2, AnswerTable DEF StageInv
<1> QED BY <1>1, <1>2 DEF Ports

\* Both end in a place of the set-up.
LEMMA NextPlace ==
  ASSUME NEW p \in Ports, NextPort(p)
  PROVE  ps2pc' \in Places
BY DEF NextPort, Places, Ports

\* What a step of the set-up has to keep.
LEMMA SetUpKeeps ==
  ASSUME OrderInv, SetUp, ~Up,
         ps2pc' \in Places,
         outbox' = [p \in Ports |-> outbox'[p]] /\ \A p \in Ports : IsSequence(outbox'[p]),
         device' = [p \in Ports |-> device'[p]],
         ~Up' /\ ~late' => StageInv',
         Up' /\ port' \in Ports /\ ~odd' /\ ~late' => WireInv'
  PROVE  OrderInv'
<1>1. UNCHANGED <<plugged, state, keydown, keybuf, meant, held, caps, odd, handling>>
  BY DEF SetUp, KeepConsole, consoleVars, ps2_controller, ps2_reset, ps2_identify, ps2kb_init,
         wireVars, decoderVars, typistVars
<1>2. BlankInv
  BY DEF OrderInv
<1>3. BlankInv' /\ KeysInOrder'
  BY <1>1, <1>2 DEF BlankInv, KeysInOrder
<1> QED BY <1>1, <1>2, <1>3 DEF OrderInv, BlankInv

\* The set-up has no step after its end.
LEMMA SetUpBeforeUp ==
  ASSUME SetUp
  PROVE  ~Up
<1>1. CASE ps2_controller
  BY <1>1 DEF ps2_controller, Up
<1>2. CASE ps2kb_init
  BY <1>2 DEF ps2kb_init, Up
<1>3. ASSUME NEW p \in Ports, ps2_reset(p) PROVE ~Up
  BY <1>3 DEF ps2_reset, Up
<1>4. ASSUME NEW p \in Ports, ps2_identify(p) PROVE ~Up
  BY <1>4 DEF ps2_identify, Up
<1> QED BY <1>1, <1>2, <1>3, <1>4 DEF SetUp

\* The controller is tested before any device is spoken to.
LEMMA ControllerOrder ==
  ASSUME OrderInv, KeepConsole, ps2_controller
  PROVE  OrderInv'
<1>1. SetUp /\ ~Up
  BY SetUpBeforeUp DEF SetUp
<1>2. UNCHANGED <<outbox, obf, device, late>>
  BY DEF ps2_controller, wireVars, ghostVars
<1>3. ps2pc' = <<"reset", 1>> \/ ps2pc' = <<"halted", 0>>
  BY DEF ps2_controller
<1>4. ps2pc' \in Places /\ ~Up'
  BY <1>3 DEF Places, Ports, Up
<1>5. ASSUME ~late' PROVE StageInv'
  <2>1. Idle'
    BY <1>1, <1>2, <1>5 DEF OrderInv, StageInv, ps2_controller, Idle
  <2>2. ps2pc'[1] \in {"reset", "halted"} /\ ps2pc'[2] \in {0, 1}
    BY <1>3
  <2> QED BY <2>1, <2>2, AnswerTable DEF StageInv
<1> QED BY <1>1, <1>2, <1>4, <1>5, SetUpKeeps DEF OrderInv

\* The kind of device at a port is one of the table.
LEMMA PluggedKind ==
  ASSUME plugged \in Plugged, NEW p \in Ports
  PROVE  plugged[p] \in DOMAIN ResetAnswer
BY KeyboardAssumption DEF Ports

\* A reset makes the device owe its whole answer, or leaves the port aside.
LEMMA ResetOrder ==
  ASSUME OrderInv, KeepConsole, NEW p \in Ports, ps2_reset(p)
  PROVE  OrderInv'
<1>1. SetUp /\ ~Up
  BY SetUpBeforeUp DEF SetUp
<1>2. UNCHANGED <<obf, device, late, plugged, usable>> /\ ps2pc = <<"reset", p>>
  BY DEF ps2_reset, ghostVars
<1>3. ps2pc[1] = "reset" /\ ps2pc[2] = p
  BY <1>2
<1>4. ASSUME ~late PROVE Idle /\ (p = 2 => Looked(1))
  BY <1>1, <1>3, <1>4 DEF OrderInv, StageInv
<1>5. CASE p \in usable
  <2>1. outbox' = [outbox EXCEPT ![p] = @ \o Say(ResetAnswer[plugged[p]])] /\ ps2pc' = <<"ack", p>>
    BY <1>5 DEF ps2_reset
  <2>2. plugged[p] \in DOMAIN ResetAnswer
    BY PluggedKind DEF OrderInv
  <2>3. IsSequence(ResetAnswer[plugged[p]])
    BY <2>2, AnswerTable, AnswersAreSequences
  <2>4. IsSequence(Say(ResetAnswer[plugged[p]]))
    BY <2>3, SaidOn
  <2>5. /\ outbox'[p] = outbox[p] \o Say(ResetAnswer[plugged[p]])
        /\ \A q \in Ports : q # p => outbox'[q] = outbox[q]
        /\ outbox' = [q \in Ports |-> outbox'[q]]
    BY <2>1 DEF OrderInv
  <2>6. IsSequence(outbox[p] \o Say(ResetAnswer[plugged[p]]))
    BY <2>4, Joined DEF OrderInv
  <2>7. \A q \in Ports : IsSequence(outbox'[q])
    BY <2>5, <2>6 DEF OrderInv
  <2>8. ps2pc' \in Places /\ ~Up'
    BY <2>1, AnswerTable DEF Places, Up
  <2>9. ASSUME ~late' PROVE StageInv'
    <3>1. Idle /\ (p = 2 => Looked(1))
      BY <1>2, <1>4, <2>9
    <3>2. outbox'[p] = Say(ResetAnswer[plugged[p]])
      BY <2>4, <2>5, <3>1, ConcatEmptySeq DEF Idle, IsSequence
    <3>3. Owes(p, ResetAnswer[plugged[p]])'
      BY <1>2, <2>5, <3>1, <3>2 DEF Owes, Idle
    <3>4. ps2pc'[1] = "ack" /\ ps2pc'[2] = p
      BY <2>1
    <3>5. (p = 2 => Looked(1)')
      BY <1>2, <3>1 DEF Looked, KeyboardAt
    <3>6. Owes(ps2pc[2], Answers[ps2pc[1]][plugged[ps2pc[2]]])'
      BY <3>3, <3>4, AnswerTable
    <3>7. plugged'[p] \in DOMAIN Answers["ack"] /\ p \in usable'
      BY <1>2, <1>5, <2>2, AnswerTable
    <3> QED BY <3>4, <3>5, <3>6, <3>7, AnswerTable DEF StageInv
  <2> QED BY <1>1, <1>2, <2>5, <2>7, <2>8, <2>9, SetUpKeeps DEF OrderInv
<1>6. CASE p \notin usable
  <2>1. NextPort(p) /\ outbox' = outbox
    BY <1>6 DEF ps2_reset
  <2>2. ps2pc' \in Places /\ ~Up'
    BY <2>1, NextPlace DEF NextPort, Up
  <2>3. ASSUME ~late' PROVE StageInv'
    <3>1. Idle' /\ Looked(p)' /\ (p = 2 => Looked(1)')
      BY <1>2, <1>4, <1>6, <2>1, <2>3 DEF Idle, Looked, KeyboardAt
    <3> QED BY <2>1, <3>1, NextStage
  <2> QED BY <1>1, <1>2, <2>1, <2>2, <2>3, SetUpKeeps DEF OrderInv
<1> QED BY <1>5, <1>6

\* Nothing is owed when the last byte was taken, and what is owed has many names.
LEMMA NothingOwed ==
  ASSUME NEW p \in Ports, NEW bytes, bytes = <<>>, Owes(p, bytes)'
  PROVE  Idle'
BY Said DEF Owes, Idle

\* Equal answers are owed alike.
LEMMA SameOwed ==
  ASSUME NEW p \in Ports, NEW a, NEW b, a = b, Owes(p, a)'
  PROVE  Owes(p, b)'
BY DEF Owes

\* What is left after the first byte is what is owed in the next stage.
LEMMA AckBat ==
  \A kind \in {"keyboard", "mf2", "mouse"} :
    /\ Answers["ack"][kind] # <<>> /\ Head(Answers["ack"][kind]) = "FA"
    /\ Tail(Answers["ack"][kind]) = Answers["bat"][kind]
<1>1. /\ Tail(<<"FA", "AA">>) = <<"AA">>
      /\ Tail(<<"FA", "AA", "AB", "83">>) = <<"AA", "AB", "83">>
      /\ Tail(<<"FA", "AA", "00">>) = <<"AA", "00">>
  OBVIOUS
<1>2. /\ Answers["ack"]["keyboard"] # <<>> /\ Head(Answers["ack"]["keyboard"]) = "FA"
      /\ Tail(Answers["ack"]["keyboard"]) = Answers["bat"]["keyboard"]
  BY <1>1, AnswerTable
<1>3. /\ Answers["ack"]["mf2"] # <<>> /\ Head(Answers["ack"]["mf2"]) = "FA"
      /\ Tail(Answers["ack"]["mf2"]) = Answers["bat"]["mf2"]
  BY <1>1, AnswerTable
<1>4. /\ Answers["ack"]["mouse"] # <<>> /\ Head(Answers["ack"]["mouse"]) = "FA"
      /\ Tail(Answers["ack"]["mouse"]) = Answers["bat"]["mouse"]
  BY <1>1, AnswerTable
<1> QED BY <1>2, <1>3, <1>4

\* The same between the self test and the identification.
LEMMA BatId ==
  \A kind \in DOMAIN Answers["bat"] :
    Answers["bat"][kind] # <<>> /\ Tail(Answers["bat"][kind]) = Answers["id"][kind]
<1>1. /\ Tail(<<"AA">>) = <<>>
      /\ Tail(<<"AA", "AB", "83">>) = <<"AB", "83">>
      /\ Tail(<<"AA", "00">>) = <<"00">>
  OBVIOUS
<1>2. /\ Answers["bat"]["keyboard"] # <<>>
      /\ Tail(Answers["bat"]["keyboard"]) = Answers["id"]["keyboard"]
  BY <1>1, AnswerTable
<1>3. Answers["bat"]["mf2"] # <<>> /\ Tail(Answers["bat"]["mf2"]) = Answers["id"]["mf2"]
  BY <1>1, AnswerTable
<1>4. Answers["bat"]["mouse"] # <<>> /\ Tail(Answers["bat"]["mouse"]) = Answers["id"]["mouse"]
  BY <1>1, AnswerTable
<1> QED BY <1>2, <1>3, <1>4, AnswerTable

\* Each poll takes what the device owes in the stage and leaves what it owes in
\* the next one.
LEMMA AckPolled ==
  ASSUME NEW p \in Ports, NEW kind \in DOMAIN Answers["ack"], Owes(p, Answers["ack"][kind]),
         NEW byte, ps2_recieve_data(p, byte), UNCHANGED outbox, ~late'
  PROVE  IF kind \in {"none", "broken"} THEN byte \in {"none", "FC"} /\ Idle'
         ELSE /\ kind \in DOMAIN Answers["bat"] /\ byte = "FA"
              /\ Owes(p, Answers["bat"][kind])'
<1> DEFINE bytes == Answers["ack"][kind]
<1>1. IsSequence(bytes)
  BY AnswerTable, AnswersAreSequences
<1> HIDE DEF bytes
<1>2. Owes(p, bytes)
  BY DEF bytes
<1>3. /\ bytes = <<>> => byte = "none" /\ Idle'
      /\ bytes # <<>> => byte = Head(bytes) /\ Owes(p, Tail(bytes))'
  BY <1>1, <1>2, Receives
<1>4. CASE kind = "none"
  BY <1>3, <1>4, AnswerTable DEF bytes
<1>5. CASE kind = "broken"
  <2>1. bytes = <<"FC">>
    BY <1>5, AnswerTable DEF bytes
  <2>2. bytes # <<>> /\ Head(bytes) = "FC" /\ Tail(bytes) = <<>>
    BY <2>1
  <2>3. byte = "FC" /\ Owes(p, Tail(bytes))'
    BY <1>3, <2>2
  <2>4. Idle'
    BY <2>2, <2>3, NothingOwed
  <2> QED BY <1>5, <2>3, <2>4
<1>6. CASE kind \in {"keyboard", "mf2", "mouse"}
  <2>1. bytes # <<>> /\ Head(bytes) = "FA" /\ Tail(bytes) = Answers["bat"][kind]
    BY <1>6, AckBat DEF bytes
  <2>2. byte = "FA" /\ Owes(p, Tail(bytes))'
    BY <1>3, <2>1
  <2>3. Owes(p, Answers["bat"][kind])'
    BY <2>1, <2>2, SameOwed
  <2> QED BY <1>6, <2>2, <2>3, AnswerTable
<1> QED BY <1>4, <1>5, <1>6, AnswerTable

\* After the result of the self test the identification is owed.
LEMMA BatPolled ==
  ASSUME NEW p \in Ports, NEW kind \in DOMAIN Answers["bat"], Owes(p, Answers["bat"][kind]),
         NEW byte, ps2_recieve_data(p, byte), UNCHANGED outbox, ~late'
  PROVE  kind \in DOMAIN Answers["id"] /\ Owes(p, Answers["id"][kind])'
<1> DEFINE bytes == Answers["bat"][kind]
<1>1. IsSequence(bytes)
  BY AnswerTable, AnswersAreSequences
<1>2. bytes # <<>> /\ Tail(bytes) = Answers["id"][kind]
  BY BatId
<1> HIDE DEF bytes
<1>3. Owes(p, bytes)
  BY DEF bytes
<1>4. Owes(p, Tail(bytes))'
  BY <1>1, <1>2, <1>3, Receives
<1>5. Owes(p, Answers["id"][kind])'
  BY <1>2, <1>4, SameOwed
<1> QED BY <1>5, AnswerTable

\* The first byte of the identification: none, the mouse's, or the first of two.
LEMMA IdPolled ==
  ASSUME NEW p \in Ports, NEW kind \in DOMAIN Answers["id"], Owes(p, Answers["id"][kind]),
         NEW byte, ps2_recieve_data(p, byte), UNCHANGED outbox, ~late'
  PROVE  /\ kind = "keyboard" => byte = "none" /\ Idle'
         /\ kind = "mouse" => byte = "00" /\ Idle'
         /\ kind = "mf2" => /\ kind \in DOMAIN Answers["kind"] /\ byte = "AB"
                            /\ Owes(p, Answers["kind"][kind])'
<1> DEFINE bytes == Answers["id"][kind]
<1>1. IsSequence(bytes)
  BY AnswerTable, AnswersAreSequences
<1> HIDE DEF bytes
<1>2. Owes(p, bytes)
  BY DEF bytes
<1>3. /\ bytes = <<>> => byte = "none" /\ Idle'
      /\ bytes # <<>> => byte = Head(bytes) /\ Owes(p, Tail(bytes))'
  BY <1>1, <1>2, Receives
<1>4. ASSUME kind = "keyboard" PROVE byte = "none" /\ Idle'
  <2>1. bytes = <<>>
    BY <1>4, AnswerTable DEF bytes
  <2> QED BY <1>3, <2>1
<1>5. ASSUME kind = "mouse" PROVE byte = "00" /\ Idle'
  <2>1. bytes = <<"00">>
    BY <1>5, AnswerTable DEF bytes
  <2>2. bytes # <<>> /\ Head(bytes) = "00" /\ Tail(bytes) = <<>>
    BY <2>1
  <2>3. byte = "00" /\ Owes(p, Tail(bytes))'
    BY <1>3, <2>2
  <2>4. Idle'
    BY <2>2, <2>3, NothingOwed
  <2> QED BY <2>3, <2>4
<1>6. ASSUME kind = "mf2"
      PROVE  byte = "AB" /\ Owes(p, Answers["kind"][kind])'
  <2>1. bytes # <<>> /\ Head(bytes) = "AB" /\ Tail(bytes) = Answers["kind"][kind]
    BY <1>6, AnswerTable DEF bytes
  <2>2. byte = "AB" /\ Owes(p, Tail(bytes))'
    BY <1>3, <2>1
  <2>3. Owes(p, Answers["kind"][kind])'
    BY <2>1, <2>2, SameOwed
  <2> QED BY <2>2, <2>3
<1> QED BY <1>4, <1>5, <1>6, AnswerTable

\* The second byte is the last.
LEMMA KindPolled ==
  ASSUME NEW p \in Ports, NEW kind \in DOMAIN Answers["kind"], Owes(p, Answers["kind"][kind]),
         NEW byte, ps2_recieve_data(p, byte), UNCHANGED outbox, ~late'
  PROVE  Idle'
<1> DEFINE bytes == Answers["kind"][kind]
<1>1. IsSequence(bytes)
  BY AnswerTable, AnswersAreSequences
<1>2. bytes = <<"83">>
  BY AnswerTable
<1>3. bytes # <<>> /\ Tail(bytes) = <<>>
  BY <1>2
<1> HIDE DEF bytes
<1>4. Owes(p, bytes)
  BY DEF bytes
<1>5. Owes(p, Tail(bytes))'
  BY <1>1, <1>3, <1>4, Receives
<1> QED BY <1>3, <1>5, NothingOwed

\* To the next stage of the port.
LEMMA SamePort ==
  ASSUME NEW p \in Ports, NEW to \in {"bat", "id", "kind"}, ps2pc' = <<to, p>>,
         NEW kind, kind = plugged'[p], kind \in DOMAIN Answers[to], p \in usable',
         Owes(p, Answers[to][kind])', to = "kind" => device'[p] = "keyboard",
         p = 2 => Looked(1)'
  PROVE  StageInv'
<1>1. ps2pc'[1] = to /\ ps2pc'[2] = p
  OBVIOUS
<1>2. Answers[ps2pc'[1]][plugged'[ps2pc'[2]]] = Answers[to][kind]
  BY <1>1
<1>3. Owes(ps2pc[2], Answers[ps2pc[1]][plugged[ps2pc[2]]])'
  BY <1>1, <1>2 DEF Owes
<1>4. to \notin {"controller", "halted", "reset", "ps2kb"}
  OBVIOUS
<1> QED BY <1>1, <1>3, <1>4 DEF StageInv

\* A poll in any stage keeps the invariant.
LEMMA IdentifyOrder ==
  ASSUME SleepInv, OrderInv, KeepConsole, NEW p \in Ports, ps2_identify(p)
  PROVE  OrderInv'
<1>1. SetUp /\ ~Up
  BY SetUpBeforeUp DEF SetUp
<1>2. UNCHANGED <<outbox, plugged, usable>> /\ ps2pc[1] \in Stages /\ ps2pc[2] = p
  BY AnswerTable DEF ps2_identify
<1> PICK kind : kind = plugged[p]
  OBVIOUS
<1> DEFINE SetsDevice(d) == device' = [device EXCEPT ![p] = d]
\* What comes after each stage.
<1>3. PICK byte :
        /\ ps2_recieve_data(p, byte)
        /\ \/ ps2pc[1] = "ack" /\ byte \in {"none", "FC"} /\ NextPort(p) /\ UNCHANGED device
           \/ ps2pc[1] = "ack" /\ byte \notin {"none", "FC"} /\ ps2pc' = <<"bat", p>> /\ UNCHANGED device
           \/ ps2pc[1] = "bat" /\ ps2pc' = <<"id", p>> /\ UNCHANGED device
           \/ ps2pc[1] = "id" /\ byte = "AB" /\ ps2pc' = <<"kind", p>> /\ SetsDevice("keyboard")
           \/ ps2pc[1] = "id" /\ byte = "AC" /\ ps2pc' = <<"kind", p>> /\ SetsDevice("keyboard")
           \/ ps2pc[1] = "id" /\ byte = "none" /\ NextPort(p) /\ SetsDevice("keyboard")
           \/ ps2pc[1] = "id" /\ byte \notin {"AB", "AC", "none"} /\ NextPort(p) /\ \E d : SetsDevice(d)
           \/ ps2pc[1] = "kind" /\ NextPort(p) /\ UNCHANGED device
  BY DEF ps2_identify, Identified
<1>4. /\ device' = [q \in Ports |-> device'[q]]
      /\ \A q \in Ports : q # p => device'[q] = device[q]
      /\ SetsDevice("keyboard") => device'[p] = "keyboard"
  <2>1. UNCHANGED device \/ \E d : SetsDevice(d)
    BY <1>3
  <2>2. device = [q \in Ports |-> device[q]]
    BY DEF OrderInv
  <2> QED BY <2>1, <2>2
<1>5. ps2pc' \in Places /\ ~Up'
  <2>1. NextPort(p) \/ \E to \in Stages : ps2pc' = <<to, p>>
    BY <1>3, AnswerTable
  <2>2. ASSUME NextPort(p) PROVE ps2pc' \in Places /\ ~Up'
    BY <2>2, NextPlace DEF NextPort, Up
  <2>3. ASSUME NEW to \in Stages, ps2pc' = <<to, p>> PROVE ps2pc' \in Places /\ ~Up'
    BY <2>3, AnswerTable DEF Places, Up
  <2> QED BY <2>1, <2>2, <2>3
<1>6. ASSUME ~late' PROVE StageInv'
  <2>1. ~late
    BY <1>3, <1>6 DEF ps2_recieve_data
  <2>2. /\ p \in usable' /\ kind = plugged'[p] /\ kind \in DOMAIN Answers[ps2pc[1]]
        /\ Owes(p, Answers[ps2pc[1]][kind])
        /\ (ps2pc[1] = "kind" => device[p] = "keyboard") /\ (p = 2 => Looked(1))
    BY <1>1, <1>2, <2>1 DEF OrderInv, StageInv
  <2>3. p = 2 => Looked(1)'
    BY <1>2, <1>4, <2>2 DEF Looked, KeyboardAt, Ports
  <2>4. ASSUME NextPort(p), Idle', kind \in Keyboards => device'[p] = "keyboard"
        PROVE  StageInv'
    <3>1. Looked(p)'
      BY <2>2, <2>4 DEF Looked, KeyboardAt
    <3> QED BY <2>3, <2>4, <3>1, NextStage
  <2>5. "mouse" \notin Keyboards /\ "none" \notin Keyboards /\ "broken" \notin Keyboards
    BY DEF Keyboards
  <2>6. CASE ps2pc[1] = "ack"
    <3>1. kind \in DOMAIN Answers["ack"] /\ Owes(p, Answers["ack"][kind])
      BY <2>2, <2>6
    <3>2. IF kind \in {"none", "broken"} THEN byte \in {"none", "FC"} /\ Idle'
          ELSE kind \in DOMAIN Answers["bat"] /\ byte = "FA" /\ Owes(p, Answers["bat"][kind])'
      BY <1>2, <1>3, <1>6, <3>1, AckPolled
    <3>3. CASE kind \in {"none", "broken"}
      <4>1. NextPort(p) /\ Idle'
        BY <1>3, <2>6, <3>2, <3>3
      <4> QED BY <2>4, <2>5, <3>3, <4>1
    <3>4. CASE kind \notin {"none", "broken"}
      <4>1. ps2pc' = <<"bat", p>>
        BY <1>3, <2>6, <3>2, <3>4
      <4> QED BY <2>2, <2>3, <3>2, <3>4, <4>1, SamePort
    <3> QED BY <3>3, <3>4
  <2>7. CASE ps2pc[1] = "bat"
    <3>1. kind \in DOMAIN Answers["bat"] /\ Owes(p, Answers["bat"][kind])
      BY <2>2, <2>7
    <3>2. kind \in DOMAIN Answers["id"] /\ Owes(p, Answers["id"][kind])'
      BY <1>2, <1>3, <1>6, <3>1, BatPolled
    <3>3. ps2pc' = <<"id", p>>
      BY <1>3, <2>7
    <3> QED BY <2>2, <2>3, <3>2, <3>3, SamePort
  <2>8. CASE ps2pc[1] = "id"
    <3>1. kind \in DOMAIN Answers["id"] /\ Owes(p, Answers["id"][kind])
      BY <2>2, <2>8
    <3>2. /\ kind = "keyboard" => byte = "none" /\ Idle'
          /\ kind = "mouse" => byte = "00" /\ Idle'
          /\ kind = "mf2" => /\ kind \in DOMAIN Answers["kind"] /\ byte = "AB"
                             /\ Owes(p, Answers["kind"][kind])'
      BY <1>2, <1>3, <1>6, <3>1, IdPolled
    <3>3. kind \in {"keyboard", "mf2", "mouse"}
      BY <3>1, AnswerTable
    <3>4. CASE kind = "keyboard"
      <4>1. NextPort(p) /\ device'[p] = "keyboard"
        BY <1>3, <1>4, <2>8, <3>2, <3>4
      <4> QED BY <2>4, <3>2, <3>4, <4>1
    <3>5. CASE kind = "mouse"
      <4>1. NextPort(p)
        BY <1>3, <2>8, <3>2, <3>5
      <4> QED BY <2>4, <2>5, <3>2, <3>5, <4>1
    <3>6. CASE kind = "mf2"
      <4>1. ps2pc' = <<"kind", p>> /\ device'[p] = "keyboard"
        BY <1>3, <1>4, <2>8, <3>2, <3>6
      <4> QED BY <2>2, <2>3, <3>2, <3>6, <4>1, SamePort
    <3> QED BY <3>3, <3>4, <3>5, <3>6
  <2>9. CASE ps2pc[1] = "kind"
    <3>1. kind \in DOMAIN Answers["kind"] /\ Owes(p, Answers["kind"][kind])
      BY <2>2, <2>9
    <3>2. Idle'
      BY <1>2, <1>3, <1>6, <3>1, KindPolled
    <3>3. NextPort(p) /\ device'[p] = "keyboard"
      BY <1>3, <2>2, <2>9
    <3> QED BY <2>4, <3>2, <3>3
  <2> QED BY <1>2, <2>6, <2>7, <2>8, <2>9, AnswerTable
<1>7. /\ outbox' = [q \in Ports |-> outbox'[q]] /\ \A q \in Ports : IsSequence(outbox'[q])
  BY <1>2 DEF OrderInv
<1> QED BY <1>1, <1>4, <1>5, <1>6, <1>7, SetUpKeeps

\* The driver starts with nothing on the wire.
LEMMA DriverOrder ==
  ASSUME OrderInv, KeepConsole, ps2kb_init
  PROVE  OrderInv'
<1>1. SetUp /\ ~Up
  BY SetUpBeforeUp DEF SetUp
<1>2. /\ UNCHANGED <<outbox, obf, device, late, plugged, usable, state, keydown, held, caps>>
      /\ ps2pc = <<"ps2kb", 0>> /\ ps2pc' = <<"done", 0>>
      /\ port' = (IF device[1] = "keyboard" THEN 1 ELSE 0)
                 + (IF device[2] = "keyboard" THEN 2 ELSE 0)
  BY DEF ps2kb_init, ghostVars, wireVars, decoderVars, typistVars
<1>3. ps2pc' \in Places
  BY <1>2 DEF Places
<1>4. ASSUME Up', port' \in Ports, ~odd', ~late' PROVE WireInv'
  <2>1. Idle /\ Looked(1) /\ Looked(2)
    <3>1. ps2pc[1] = "ps2kb"
      BY <1>2
    <3> QED BY <1>1, <1>2, <1>4, <3>1 DEF OrderInv, StageInv
  <2>2. \A q \in Ports : device[q] = "keyboard" => port' = q \/ port' \notin Ports
    BY <1>2 DEF Ports
  <2>3. \A q \in Ports : q # port' => ~KeyboardAt(q)
    BY <1>4, <2>1, <2>2 DEF Looked, Ports
  <2>4. obf.port = 0 /\ obf.port # port'
    BY <1>4, <2>1, EmptyPort DEF Idle, Ports
  <2>5. AfterBuffer' = [state |-> 0, keydown |-> {}]
    BY <1>1, <1>2, <2>4 DEF AfterBuffer, Decoder, OrderInv, BlankInv
  <2>6. Ready(held, caps)' = [state |-> 0, keydown |-> {}]
    BY <1>1, <1>2 DEF Ready, Mods, OrderInv, BlankInv
  <2>7. outbox'[port'] = <<>>
    BY <1>2, <1>4, <2>1 DEF Idle
  <2>8. Understood(<<>>, AfterBuffer', Ready(held, caps)')
    BY <2>5, <2>6, ReadsNothing
  <2>9. Understood(outbox[port], AfterBuffer, Ready(held, caps))'
    BY <2>7, <2>8
  <2>10. \A q \in Ports : q # port' => outbox'[q] = <<>> /\ ~KeyboardAt(q)'
    BY <1>2, <2>1, <2>3 DEF Idle, KeyboardAt
  <2> QED BY <1>2, <2>4, <2>9, <2>10 DEF WireInv
<1>5. Up'
  BY <1>2 DEF Up
<1> QED BY <1>1, <1>2, <1>3, <1>4, <1>5, SetUpKeeps DEF OrderInv


-----------------------------------------------------------------------------
(* The bytes after the set-up.                                             *)

\* What every later step has to keep.
LEMMA Kept ==
  ASSUME OrderInv, UNCHANGED <<plugged, setupVars>>,
         outbox' = [p \in Ports |-> outbox'[p]] /\ \A p \in Ports : IsSequence(outbox'[p]),
         state' \in 0 .. 2, handling' # 0 => obf'.port = handling',
         held' \subseteq Keys /\ caps' \in BOOLEAN,
         ~Up => BlankInv',
         ~Up /\ ~late' => StageInv',
         Up /\ port \in Ports /\ ~odd' /\ ~late' => WireInv',
         KeysInOrder'
  PROVE  OrderInv'
<1>1. ps2pc' = ps2pc /\ port' = port /\ device' = device /\ plugged' = plugged
  BY DEF setupVars
<1>2. Up' <=> Up
  BY <1>1 DEF Up
<1> QED BY <1>1, <1>2 DEF OrderInv

\* A step beside the wire.
LEMMA WireKept ==
  ASSUME WireInv, UNCHANGED <<plugged, outbox, obf, usable, port, state, keydown, held, caps>>
  PROVE  WireInv'
BY DEF WireInv, KeyboardAt, Understands, AfterBuffer, Decoder, Ready, Mods

\* The stage, of a step that leaves the wire alone.
LEMMA StageKept ==
  ASSUME StageInv, UNCHANGED <<plugged, outbox, obf, usable, device, ps2pc>>
  PROVE  StageInv'
BY DEF StageInv, Owes, Idle, Looked, KeyboardAt

\* The keyboard goes on with what it has to say.
LEMMA DeviceOrder ==
  ASSUME OrderInv, KeepConsole, NEW p \in Ports, DeviceSends(p)
  PROVE  OrderInv'
<1>1. /\ UNCHANGED <<plugged, setupVars>> /\ UNCHANGED <<usable, device, ps2pc, port>>
      /\ UNCHANGED <<state, keydown, keybuf, meant, held, caps, odd, late, handling>>
  BY DEF DeviceSends, KeepConsole, consoleVars, setupVars, decoderVars, typistVars, ghostVars
<1>2. obf = Empty /\ obf.port = 0 /\ outbox[p] # <<>>
  BY EmptyPort DEF DeviceSends
<1>3. /\ obf' = [port |-> p, byte |-> Head(outbox[p]).byte, char |-> Head(outbox[p]).char]
      /\ outbox' = [outbox EXCEPT ![p] = Tail(@)]
  BY DEF DeviceSends
<1>4. handling = 0
  BY <1>2 DEF OrderInv, Ports
<1>5. outbox'[p] = Tail(outbox[p]) /\ \A q \in Ports : q # p => outbox'[q] = outbox[q]
  BY <1>3 DEF OrderInv
<1>6. IsSequence(outbox[p]) /\ IsSequence(Tail(outbox[p]))
  BY <1>2, Unboxed DEF OrderInv
<1>7. outbox' = [q \in Ports |-> outbox'[q]] /\ \A q \in Ports : IsSequence(outbox'[q])
  <2>1. outbox' = [q \in Ports |-> outbox'[q]]
    BY <1>3 DEF OrderInv
  <2> QED BY <1>5, <1>6, <2>1 DEF OrderInv
<1>8. ASSUME ~Up, ~late' PROVE StageInv'
  <2>1. StageInv
    BY <1>1, <1>8 DEF OrderInv
  <2>2. ~Idle
    BY <1>2 DEF Idle
  <2>3. ps2pc[1] \notin {"controller", "halted", "reset", "ps2kb"}
    BY <2>1, <2>2 DEF StageInv
  <2>4. ASSUME ps2pc[1] \in Stages
        PROVE  Owes(ps2pc[2], Answers[ps2pc[1]][plugged[ps2pc[2]]])'
    <3>1. PICK q : q = ps2pc[2]
      OBVIOUS
    <3>2. PICK stage : stage = ps2pc[1]
      OBVIOUS
    <3>3. PICK kind : kind = plugged[q]
      OBVIOUS
    <3>4. PICK bytes : bytes = Answers[stage][kind]
      OBVIOUS
    <3>5. stage \in Stages /\ kind \in DOMAIN Answers[stage] /\ Owes(q, bytes)
      BY <2>1, <2>4, <3>1, <3>2, <3>3, <3>4 DEF StageInv
    <3>6. q \in Ports
      BY <2>4, <3>1, AnswerTable DEF OrderInv, Places
    <3>7. IsSequence(bytes)
      BY <3>4, <3>5, AnswersAreSequences
    <3>8. Owes(q, bytes)'
      BY <3>5, <3>6, <3>7, SendsOwed DEF OrderInv
    <3>9. ps2pc'[2] = q /\ Answers[ps2pc'[1]][plugged'[ps2pc'[2]]] = bytes
      BY <1>1, <3>1, <3>2, <3>3, <3>4
    <3> QED BY <3>8, <3>9 DEF Owes
  <2> QED BY <1>1, <2>1, <2>3, <2>4 DEF StageInv, Looked, KeyboardAt
<1>9. ASSUME Up, port \in Ports, ~odd', ~late' PROVE WireInv'
  <2>1. WireInv
    BY <1>1, <1>9 DEF OrderInv
  <2>2. p = port
    BY <1>2, <2>1 DEF WireInv
  <2>3. AfterBuffer = Decoder
    BY <1>2, <1>9 DEF AfterBuffer, Ports
  <2>4. Understood(outbox[port], Decoder, Ready(held, caps))
    BY <2>1, <2>3 DEF WireInv
  <2>5. /\ Understands(Decoder, Head(outbox[p]))
        /\ Understood(Tail(outbox[p]), After(Decoder, Head(outbox[p]).byte), Ready(held, caps))
    BY <1>2, <1>6, <2>2, <2>4, ReadsHead
  <2>6. obf'.port = p /\ obf'.byte = Head(outbox[p]).byte /\ obf'.char = Head(outbox[p]).char
    BY <1>3
  <2>7. Understands(Decoder, obf')
    BY <2>5, <2>6 DEF Understands
  <2>8. Decoder' = Decoder /\ Ready(held, caps)' = Ready(held, caps)
    BY <1>1 DEF Decoder, Ready, Mods
  <2>9. AfterBuffer' = After(Decoder, Head(outbox[p]).byte)
    BY <1>1, <2>2, <2>6, <2>8 DEF AfterBuffer
  <2>10. Understands(Decoder, obf)'
    BY <2>7, <2>8 DEF Understands
  <2>11. Understood(outbox[port], AfterBuffer, Ready(held, caps))'
    BY <1>1, <1>5, <2>2, <2>5, <2>8, <2>9
  <2>12. \A q \in Ports : q # port' => outbox'[q] = <<>> /\ ~KeyboardAt(q)'
    BY <1>1, <1>5, <2>1, <2>2 DEF WireInv, KeyboardAt
  <2> QED BY <1>1, <2>2, <2>6, <2>10, <2>11, <2>12 DEF WireInv
<1> QED BY <1>1, <1>4, <1>7, <1>8, <1>9, Kept DEF OrderInv, BlankInv, KeysInOrder

\* The typist's keys.
LEMMA TypedOrder ==
  ASSUME OrderInv, KeepConsole, NEW p \in Ports, NEW bytes, IsSequence(bytes), Types(p, bytes),
         held' \subseteq Keys /\ caps' \in BOOLEAN,
         ~odd' => ~odd /\ Understood(bytes, Ready(held, caps), Ready(held', caps'))
  PROVE  OrderInv'
<1>1. /\ UNCHANGED <<plugged, setupVars>> /\ UNCHANGED <<usable, device, ps2pc, port>>
      /\ UNCHANGED <<obf, state, keydown, keybuf, meant, late, handling>>
      /\ Up /\ KeyboardAt(p) /\ outbox[p] = <<>>
  BY DEF Types, KeepConsole, consoleVars, setupVars, decoderVars, ghostVars, KeyboardAt, Up
<1>2. outbox' = [outbox EXCEPT ![p] = @ \o bytes]
  BY DEF Types
<1>3. outbox[p] \o bytes = bytes
  BY <1>1, ConcatEmptySeq DEF IsSequence
<1>4. outbox'[p] = bytes /\ \A q \in Ports : q # p => outbox'[q] = outbox[q]
  BY <1>2, <1>3 DEF OrderInv
<1>5. outbox' = [q \in Ports |-> outbox'[q]] /\ \A q \in Ports : IsSequence(outbox'[q])
  <2>1. outbox' = [q \in Ports |-> outbox'[q]]
    BY <1>2 DEF OrderInv
  <2> QED BY <1>4, <2>1 DEF OrderInv
<1>6. ASSUME port \in Ports, ~odd', ~late' PROVE WireInv'
  <2>1. WireInv
    BY <1>1, <1>6 DEF OrderInv
  <2>2. p = port
    BY <1>1, <2>1 DEF WireInv
  <2>3. Understood(<<>>, AfterBuffer, Ready(held, caps))
    BY <1>1, <2>1, <2>2 DEF WireInv
  <2>4. AfterBuffer = Ready(held, caps)
    BY <2>3, ReadsNothing
  <2>5. Decoder' = Decoder /\ AfterBuffer' = AfterBuffer
    BY <1>1 DEF Decoder, AfterBuffer
  <2>6. Ready(held, caps)' = Ready(held', caps')
    BY DEF Ready, Mods
  <2>7. Understood(bytes, AfterBuffer', Ready(held', caps'))
    BY <1>6, <2>4, <2>5
  <2>8. Understood(outbox[port], AfterBuffer, Ready(held, caps))'
    BY <1>1, <1>4, <2>2, <2>6, <2>7
  <2>9. Understands(Decoder, obf)' <=> Understands(Decoder, obf)
    BY <1>1, <2>5 DEF Understands
  <2>10. \A q \in Ports : q # port' => outbox'[q] = <<>> /\ ~KeyboardAt(q)'
    BY <1>1, <1>4, <2>1, <2>2 DEF WireInv, KeyboardAt
  <2> QED BY <1>1, <2>1, <2>8, <2>9, <2>10 DEF WireInv
<1> QED BY <1>1, <1>5, <1>6, Kept DEF OrderInv, KeysInOrder

\* Every key makes of the decoder one that has the typist's modifiers.
LEMMA TypistOrder ==
  ASSUME OrderInv, Typist
  PROVE  OrderInv'
<1>1. PICK p \in Ports, k \in Keys : Press(p, k) \/ Repeat(p, k) \/ Release(p, k)
  BY DEF Typist
<1>2. KeepConsole /\ held \subseteq Keys /\ caps \in BOOLEAN
  BY DEF Typist, OrderInv
<1>3. PICK down : down = Make(k, Meaning(k))
  OBVIOUS
<1>4. PICK up : up = Break(k)
  OBVIOUS
<1>5. CASE Press(p, k)
  <2>1. /\ held' = held \cup {k} /\ caps' = (IF IsCaps(k) THEN ~caps ELSE caps)
        /\ odd' = odd /\ Types(p, down)
    BY <1>3, <1>5 DEF Press
  <2>2. Understood(down, Ready(held, caps), Ready(held', caps')) /\ IsSequence(down)
    BY <1>2, <1>3, <2>1, MakeReads
  <2>3. held' \subseteq Keys /\ caps' \in BOOLEAN
    BY <1>2, <2>1
  <2> QED BY <1>2, <2>1, <2>2, <2>3, TypedOrder
<1>6. CASE Repeat(p, k)
  <2>1. /\ k \in held /\ held' = held /\ caps' = caps
        /\ odd' = (odd \/ IsCaps(k)) /\ Types(p, down)
    BY <1>3, <1>6 DEF Repeat
  <2>2. IsSequence(down)
    BY <1>2, <1>3, MakeReads
  <2>3. ASSUME ~odd' PROVE ~odd /\ Understood(down, Ready(held, caps), Ready(held', caps'))
    <3>1. ~odd /\ ~IsCaps(k)
      BY <2>1, <2>3
    <3>2. Understood(down, Ready(held, caps), Ready(held \cup {k}, caps))
      BY <1>2, <1>3, <3>1, MakeReads
    <3>3. held \cup {k} = held'
      BY <2>1
    <3> QED BY <2>1, <3>1, <3>2, <3>3
  <2> QED BY <1>2, <2>1, <2>2, <2>3, TypedOrder
<1>7. CASE Release(p, k)
  <2>1. /\ held' = held \ {k} /\ caps' = caps
        /\ odd' = (odd \/ k.ext) /\ Types(p, up)
    BY <1>4, <1>7 DEF Release
  <2>2. IsSequence(up)
    BY <1>4, BreakSequence
  <2>3. ASSUME ~odd' PROVE ~odd /\ Understood(up, Ready(held, caps), Ready(held', caps'))
    <3>1. ~odd /\ ~k.ext
      BY <2>1, <2>3
    <3>2. Understood(up, Ready(held, caps), Ready(held \ {k}, caps))
      BY <1>2, <1>4, <3>1, BreakReads
    <3> QED BY <2>1, <3>1, <3>2
  <2>4. held' \subseteq Keys /\ caps' \in BOOLEAN
    BY <1>2, <2>1
  <2> QED BY <1>2, <2>1, <2>2, <2>3, <2>4, TypedOrder
<1> QED BY <1>1, <1>5, <1>6, <1>7

\* The driver's commands, at each interrupt.
LEMMA IrqOrder ==
  ASSUME OrderInv, KeyboardIrq \/ TimerIrq
  PROVE  OrderInv'
<1>1. /\ UNCHANGED <<plugged, setupVars>> /\ UNCHANGED <<usable, device, ps2pc, port>>
      /\ UNCHANGED <<obf, state, keydown, keybuf, meant, held, caps, odd, late>>
      /\ Up /\ (handling' = obf.port \/ handling' = handling)
  BY DEF KeyboardIrq, TimerIrq, EnterIrq, setupVars, decoderVars, typistVars
<1>2. ps2kb_resend_command \/ UNCHANGED outbox
  BY DEF KeyboardIrq, TimerIrq, EnterIrq, ps2kb_loop
<1>3. outbox' = [p \in Ports |-> outbox'[p]] /\ \A p \in Ports : IsSequence(outbox'[p])
  BY <1>2, CommandBoxes DEF OrderInv
<1>4. ASSUME port \in Ports, ~odd', ~late' PROVE WireInv'
  <2>1. WireInv
    BY <1>1, <1>4 DEF OrderInv
  <2>2. AfterBuffer.state \in 0 .. 2 /\ Ready(held, caps).state \in 0 .. 2
    <3>1. Decoder.state \in 0 .. 2
      BY DEF Decoder, OrderInv
    <3> QED BY <3>1, AfterState DEF AfterBuffer, Ready
  <2>3. /\ Understood(outbox'[port], AfterBuffer, Ready(held, caps))
        /\ \A q \in Ports : q # port => outbox'[q] = outbox[q]
    BY <1>2, <1>4, <2>1, <2>2, CommandReads DEF OrderInv, WireInv
  <2>4. /\ Decoder' = Decoder /\ AfterBuffer' = AfterBuffer
        /\ Ready(held, caps)' = Ready(held, caps)
    BY <1>1 DEF Decoder, AfterBuffer, Ready, Mods
  <2>5. Understood(outbox[port], AfterBuffer, Ready(held, caps))'
    BY <1>1, <2>3, <2>4
  <2>6. Understands(Decoder, obf)' <=> Understands(Decoder, obf)
    BY <1>1, <2>4 DEF Understands
  <2>7. \A q \in Ports : q # port' => outbox'[q] = <<>> /\ ~KeyboardAt(q)'
    BY <1>1, <2>1, <2>3 DEF WireInv, KeyboardAt
  <2> QED BY <1>1, <2>1, <2>5, <2>6, <2>7 DEF WireInv
<1> QED BY <1>1, <1>3, <1>4, Kept DEF OrderInv, KeysInOrder

\* The driver's decoder is the one above, where it understands the byte.
LEMMA DecodeIs ==
  ASSUME NEW x, Understands(Decoder, x), x.byte \notin Acks, ps2kb_decode(x.byte)
  PROVE  Decoder' = After(Decoder, x.byte) /\ keybuf' = WithChar(keybuf, x.char)
<1> DEFINE byte == x.byte
<1>1. /\ state \in 0 .. 2 /\ byte \in Escapes \cup DOMAIN scancodelower
      /\ x.char = IF state = 0 /\ byte \in DOMAIN scancodelower
                  THEN CharOf(byte, KeysAfter(keydown, byte) # {}) ELSE "none"
  BY DEF Understands, Decoder, Character
<1>2. Decoder' = [state |-> state', keydown |-> keydown']
  BY DEF Decoder
<1>3. \A buf : WithChar(buf, "none") = buf
  BY DEF WithChar
<1>4. CASE state = 0 /\ byte \in Escapes
  <2>1. /\ state' = (IF byte = "F0" THEN 1 ELSE 2) /\ keydown' = keydown /\ keybuf' = keybuf
    BY <1>4 DEF ps2kb_decode, Escapes
  <2>2. byte \notin DOMAIN scancodelower
    BY <1>4, Tables
  <2>3. After(Decoder, byte) = [state |-> state', keydown |-> keydown]
    BY <1>4, <2>1, AfterEscape DEF Decoder, Escapes
  <2> QED BY <1>1, <1>2, <1>3, <2>1, <2>2, <2>3
<1>5. CASE state = 0 /\ byte \notin Escapes
  <2>1. byte \in DOMAIN scancodelower
    BY <1>1, <1>5
  <2>2. /\ state' = state
        /\ keydown' = KeysAfter(keydown, byte)
        /\ \E char \in Chars(byte, keydown' # {}) : keybuf' = WithChar(keybuf, char)
    <3>1. /\ state' = state
          /\ keydown' = CASE byte = CapsLock -> Toggled(byte)
                          [] byte = Shift -> keydown \cup {byte}
                          [] OTHER -> keydown
          /\ \E char \in Chars(byte, keydown' # {}) : keybuf' = WithChar(keybuf, char)
      BY <1>5 DEF ps2kb_decode, Escapes
    <3>2. keydown' = KeysAfter(keydown, byte)
      BY <3>1 DEF KeysAfter, Toggled
    <3> QED BY <3>1, <3>2
  <2>3. Chars(byte, keydown' # {}) = {CharOf(byte, keydown' # {})}
    BY <2>1 DEF Chars
  <2>4. keybuf' = WithChar(keybuf, CharOf(byte, KeysAfter(keydown, byte) # {}))
    BY <2>2, <2>3
  <2>5. After(Decoder, byte) = [state |-> 0, keydown |-> KeysAfter(keydown, byte)]
    BY <1>5 DEF After, Decoder, Escapes
  <2> QED BY <1>1, <1>2, <1>5, <2>1, <2>2, <2>4, <2>5
<1>6. CASE state = 1
  <2>1. /\ state' = 0 /\ keydown' = (IF byte = CapsLock THEN keydown ELSE keydown \ {byte})
        /\ keybuf' = keybuf
    BY <1>6 DEF ps2kb_decode
  <2>2. After(Decoder, byte) = [state |-> 0, keydown |-> IF byte = CapsLock THEN keydown
                                                        ELSE keydown \ {byte}]
    BY <1>6 DEF After, Decoder
  <2> QED BY <1>1, <1>2, <1>3, <1>6, <2>1, <2>2
<1>7. CASE state = 2
  <2>1. state' = 0 /\ keydown' = keydown /\ keybuf' = keybuf
    BY <1>7 DEF ps2kb_decode
  <2>2. After(Decoder, byte) = [state |-> 0, keydown |-> keydown]
    BY <1>7 DEF After, Decoder
  <2> QED BY <1>1, <1>2, <1>3, <1>7, <2>1, <2>2
<1> QED BY <1>1, <1>4, <1>5, <1>6, <1>7

\* The handler takes the byte of the port that interrupted.
LEMMA HandlerOrder ==
  ASSUME SleepInv, OrderInv, ps2kb_handler
  PROVE  OrderInv'
<1>1. /\ UNCHANGED <<plugged, setupVars>> /\ UNCHANGED <<usable, device, ps2pc, port>>
      /\ UNCHANGED <<held, caps, odd, late>> /\ handling # 0 /\ handling' = 0
  BY DEF ps2kb_handler, setupVars, typistVars
<1>2. Up /\ obf.port = handling /\ handling \in Ports
  BY <1>1 DEF OrderInv, BlankInv, SleepInv, PortsInv, Ports
<1>3. CASE port # handling
  <2>1. UNCHANGED <<outbox, obf, state, keydown, keybuf, meant>>
    BY <1>3 DEF ps2kb_handler, wireVars, decoderVars
  <2>2. ASSUME port \in Ports, ~odd', ~late' PROVE WireInv'
    <3>1. WireInv
      BY <1>1, <1>2, <2>2 DEF OrderInv
    <3> QED BY <1>1, <2>1, <3>1, WireKept
  <2> QED BY <1>1, <1>2, <2>1, <2>2, Kept DEF OrderInv, KeysInOrder
<1>4. CASE port = handling
  <2> DEFINE box == outbox[port]
             d == After(Decoder, obf.byte)
             e == Ready(held, caps)
  <2>1. /\ obf' = Empty
        /\ meant' = IF obf.char = "none" THEN meant ELSE WithChar(meant, obf.char)
    BY <1>4 DEF ps2kb_handler
  <2>2. /\ obf.byte = "FA" => UNCHANGED <<outbox, state, keydown, keybuf>>
        /\ obf.byte = "FE" => ps2kb_resend_command /\ UNCHANGED <<state, keydown, keybuf>>
        /\ obf.byte \notin Acks => ps2kb_decode(obf.byte) /\ UNCHANGED outbox
    BY <1>4 DEF ps2kb_handler, Acks
  <2>3. ps2kb_resend_command \/ UNCHANGED outbox
    BY <2>2 DEF Acks
  <2>4. outbox' = [p \in Ports |-> outbox'[p]] /\ \A p \in Ports : IsSequence(outbox'[p])
    BY <2>3, CommandBoxes DEF OrderInv
  <2>5. state' \in 0 .. 2
    <3>1. CASE obf.byte \in Acks
      BY <2>2, <3>1 DEF OrderInv, Acks
    <3>2. CASE obf.byte \notin Acks
      BY <2>2, <3>2 DEF OrderInv, ps2kb_decode
    <3> QED BY <3>1, <3>2
  <2>6. ASSUME ~odd', ~late' PROVE WireInv' /\ keybuf' = meant'
    <3>1. WireInv /\ keybuf = meant
      BY <1>1, <1>2, <1>4, <2>6 DEF OrderInv, KeysInOrder
    <3>2. Understands(Decoder, obf) /\ Understood(box, d, e)
      BY <1>2, <1>4, <3>1 DEF WireInv, AfterBuffer
    <3>3. meant' = WithChar(meant, obf.char)
      BY <2>1 DEF WithChar
    <3>4. Decoder' = d /\ keybuf' = WithChar(keybuf, obf.char)
      <4>1. CASE obf.byte \in Acks
        <5>1. obf.byte \notin DOMAIN scancodelower
          BY <4>1, Tables
        <5>2. obf.char = "none"
          BY <3>2, <5>1 DEF Understands, Character
        <5>3. d = Decoder
          BY <4>1 DEF After
        <5>4. UNCHANGED <<state, keydown, keybuf>>
          BY <2>2, <4>1 DEF Acks
        <5>5. Decoder' = Decoder
          BY <5>4 DEF Decoder
        <5>6. WithChar(keybuf, obf.char) = keybuf
          BY <5>2 DEF WithChar
        <5> QED BY <5>3, <5>4, <5>5, <5>6
      <4>2. CASE obf.byte \notin Acks
        <5>1. PICK x : x = obf
          OBVIOUS
        <5>2. Decoder' = After(Decoder, x.byte) /\ keybuf' = WithChar(keybuf, x.char)
          BY <2>2, <3>2, <4>2, <5>1, DecodeIs
        <5> QED BY <5>1, <5>2
      <4> QED BY <4>1, <4>2
    <3>5. keybuf' = meant'
      BY <3>1, <3>3, <3>4
    <3>6. d.state \in 0 .. 2 /\ e.state \in 0 .. 2
      <4>1. Decoder.state \in 0 .. 2
        BY DEF Decoder, OrderInv
      <4> QED BY <4>1, AfterState DEF Ready
    <3> HIDE DEF box, d, e
    <3>7. /\ Understood(outbox'[port], d, e)
          /\ \A q \in Ports : q # port => outbox'[q] = outbox[q]
      BY <1>2, <1>4, <2>3, <3>2, <3>6, CommandReads DEF OrderInv, box
    <3>8. obf'.port = 0 /\ obf'.port # port
      BY <1>2, <1>4, <2>1, EmptyPort DEF Ports
    <3>9. AfterBuffer' = d
      BY <1>1, <3>4, <3>8 DEF AfterBuffer
    <3>10. Ready(held, caps)' = e
      BY <1>1 DEF Ready, Mods, e
    <3>11. Understood(outbox[port], AfterBuffer, Ready(held, caps))'
      BY <1>1, <3>7, <3>9, <3>10
    <3>12. \A q \in Ports : q # port' => outbox'[q] = <<>> /\ ~KeyboardAt(q)'
      BY <1>1, <3>1, <3>7 DEF WireInv, KeyboardAt
    <3>13. WireInv'
      BY <1>1, <3>8, <3>11, <3>12 DEF WireInv
    <3> QED BY <3>5, <3>13
  <2> QED BY <1>1, <1>2, <2>4, <2>5, <2>6, Kept DEF OrderInv, KeysInOrder
<1> QED BY <1>3, <1>4

\* The shell takes the first of the characters.
LEMMA ReadOrder ==
  ASSUME SleepInv, OrderInv, syscall_read
  PROVE  OrderInv'
<1>1. /\ UNCHANGED <<plugged, setupVars>>
      /\ UNCHANGED <<outbox, obf, usable, device, ps2pc, port, state, keydown, held, caps>>
      /\ UNCHANGED <<odd, late, handling>> /\ Up
  BY DEF syscall_read, Runs, wireVars, setupVars, typistVars, ghostVars
<1>2. KeysInOrder'
  <2>1. SUFFICES ASSUME keybuf = meant PROVE keybuf' = meant'
    BY <1>1 DEF OrderInv, KeysInOrder
  <2>2. CASE ps2kb_read_chars(1) = <<>>
    BY <2>1, <2>2 DEF syscall_read
  <2>3. CASE ps2kb_read_chars(1) # <<>>
    <3>1. /\ keybuf' = Tail(keybuf)
          /\ meant' = IF meant = <<>> THEN <<>> ELSE Tail(meant)
      BY <2>3 DEF syscall_read
    <3>2. keybuf # <<>>
      <4>1. SUFFICES ASSUME keybuf = <<>> PROVE FALSE
        OBVIOUS
      <4>2. ps2kb_read_chars(1) = SubSeq(<<>>, 1, 0)
        BY <4>1 DEF ps2kb_read_chars
      <4> QED BY <2>3, <4>2
    <3> QED BY <2>1, <3>1, <3>2
  <2> QED BY <2>2, <2>3
<1>3. ASSUME port \in Ports, ~odd', ~late' PROVE WireInv'
  <2>1. WireInv
    BY <1>1, <1>3 DEF OrderInv
  <2> QED BY <1>1, <2>1, WireKept
<1> QED BY <1>1, <1>2, <1>3, Kept DEF OrderInv

\* A step that leaves the keyboard alone.
LEMMA BesideOrder ==
  ASSUME OrderInv, UNCHANGED ps2Vars, handling' = handling
  PROVE  OrderInv'
<1>1. /\ UNCHANGED <<plugged, setupVars>>
      /\ UNCHANGED <<outbox, obf, usable, device, ps2pc, port, state, keydown, keybuf, meant>>
      /\ UNCHANGED <<held, caps, odd, late>>
  BY DEF ps2Vars, wireVars, setupVars, decoderVars, typistVars, ghostVars
<1>2. ASSUME ~Up PROVE BlankInv'
  BY <1>1, <1>2 DEF OrderInv, BlankInv
<1>3. ASSUME ~Up, ~late' PROVE StageInv'
  BY <1>1, <1>3, StageKept DEF OrderInv
<1>4. ASSUME Up, port \in Ports, ~odd', ~late' PROVE WireInv'
  BY <1>1, <1>4, WireKept DEF OrderInv
<1> QED BY <1>1, <1>2, <1>3, <1>4, Kept DEF OrderInv, KeysInOrder

\* The invariant of the bytes on their way.
THEOREM OrderInvariant == Spec => []OrderInv
<1>1. Init => OrderInv
  <2>1. SUFFICES ASSUME Init PROVE OrderInv
    OBVIOUS
  <2>2. /\ plugged \in Plugged /\ outbox = [p \in Ports |-> <<>>] /\ obf = Empty
        /\ device = [p \in Ports |-> "none"] /\ ps2pc = <<"controller", 0>>
        /\ state = 0 /\ keydown = {} /\ keybuf = <<>> /\ meant = <<>>
        /\ held = {} /\ caps = FALSE /\ handling = 0
    BY <2>1 DEF Init, Ps2Init
  <2>3. IsSequence(<<>>)
    BY EmptySeq DEF IsSequence
  <2>4. ps2pc[1] = "controller" /\ ps2pc[2] = 0
    BY <2>2
  <2>5. StageInv
    BY <2>2, <2>4, AnswerTable DEF StageInv, Idle
  <2>6. ps2pc \in Places /\ ~Up
    BY <2>2 DEF Places, Up
  <2>7. outbox = [p \in Ports |-> outbox[p]] /\ \A p \in Ports : IsSequence(outbox[p])
    BY <2>2, <2>3
  <2>8. device = [p \in Ports |-> device[p]]
    BY <2>2
  <2>9. BlankInv /\ KeysInOrder /\ held \subseteq Keys /\ caps \in BOOLEAN
    BY <2>2, Zenon DEF BlankInv, KeysInOrder
  <2>10. state \in 0 .. 2
    BY <2>2
  <2> QED BY <2>2, <2>5, <2>6, <2>7, <2>8, <2>9, <2>10 DEF OrderInv
<1>2. SleepInv /\ OrderInv /\ [Next]_vars => OrderInv'
  <2>1. SUFFICES ASSUME SleepInv, OrderInv, [Next]_vars PROVE OrderInv'
    OBVIOUS
  <2>2. CASE SetUp
    BY <2>1, <2>2, ControllerOrder, DriverOrder, ResetOrder, IdentifyOrder DEF SetUp
  <2>3. CASE Device
    BY <2>1, <2>3, DeviceOrder DEF Device
  <2>4. CASE Typist
    BY <2>1, <2>4, TypistOrder
  <2>5. CASE KeyboardIrq \/ TimerIrq
    BY <2>1, <2>5, IrqOrder
  <2>6. CASE ps2kb_handler
    BY <2>1, <2>6, HandlerOrder
  <2>7. CASE syscall_read
    BY <2>1, <2>7, ReadOrder
  <2>8. CASE Prompt \/ Echo \/ Output \/ Run
    <3>1. UNCHANGED ps2Vars /\ handling' = handling
      BY <2>8 DEF Prompt, Echo, Output, Run, KeepPs2
    <3> QED BY <2>1, <3>1, BesideOrder
  <2>9. CASE UNCHANGED vars
    <3>1. UNCHANGED ps2Vars /\ handling' = handling
      BY <2>9 DEF vars, consoleVars
    <3> QED BY <2>1, <3>1, BesideOrder
  <2> QED BY <2>1, <2>2, <2>3, <2>4, <2>5, <2>6, <2>7, <2>8, <2>9 DEF Next, Shell
<1> QED BY <1>1, <1>2, SleepInvariant, PTL DEF Spec

\* The driver's ring holds the characters that were typed and not read, in their
\* order and in their case, whatever interrupts, acknowledgements and garbled
\* commands come between the bytes of a key, for every keyboard and every size
\* of the ring (ps2kb_handler, ps2kb.c:149).
THEOREM CharactersInOrder == Spec => []KeysInOrder
<1>1. OrderInv => KeysInOrder
  BY DEF OrderInv
<1> QED BY <1>1, OrderInvariant, PTL

-----------------------------------------------------------------------------
(* Discs: the invariant.                                                    *)

\* The disc in the drive that is mounted, and the volume on it.
Disc == Medium(Volume)
OnDrive == Volume + 1 \in DOMAIN blockdevices
HasVolume == Disc # NoDisc /\ PvdSector \in DOMAIN Disc /\ IsoValid(Disc[PvdSector])

Records == [name : STRING, dir : BOOLEAN, loc : Nat, size : Nat]
Entries == [name : STRING, parent : Nat]
Files == [name : STRING, parent : Nat, size : Nat, id : Nat]
Searches == [dir : Nat, names : Seq(STRING), loc : Nat, size : Nat]

\* What a read may leave in memory.
Readable(x) == x = Junk \/ (Disc # NoDisc /\ \E l \in DOMAIN Disc : x = Disc[l])

\* The drives, and what was read of the disc.
DriveInv ==
  /\ drives \in Machines
  /\ blockdevices \in Seq(Slots) /\ Len(blockdevices) <= 4
  /\ atapiDisc = Len(blockdevices) - 1
  /\ errors \in 0 .. MaxErrors
  /\ reads \in 0 .. MaxReads
  /\ \A x \in seen : Readable(x)

\* How far the boot is, and what there is by then.
PhaseInv ==
  /\ \/ OnDrive /\ phase \notin {"detect", "init", "volume"}
     \/ /\ phase \in {"detect", "init", "volume", "panic"}
        /\ mount = "none" /\ errors = 0 /\ seen = {}
  /\ phase \in {"detect", "init", "volume", "vfat", "iso", "mount", "image", "ramdisk", "booted", "panic"}
  /\ mount \in {"none", "directories", "files", "mounted", "refused", "lost"}
  /\ phase \in {"vfat", "iso"} => mount \in {"none", "lost"}
  /\ phase \in {"image", "ramdisk", "booted"} => mount = "mounted"
  /\ mount # "mounted" => ramdisk = <<>> /\ answer = NoAnswer

\* A directory stands behind its parent.
IsTree(d) == \A k \in DOMAIN d : d[k].parent \in IF k = Root THEN {0} ELSE 1 .. k - 1

\* The tree and the table of records.
TreeInv ==
  /\ dirs \in Seq(Entries) /\ IsTree(dirs)
  /\ files \in Seq(Files) /\ \A f \in DOMAIN files : files[f].parent \in DOMAIN dirs
  /\ fentriesLoc \in Nat /\ fentriesSize \in Nat
  /\ search \in Searches
  /\ mount \in {"none", "directories"} => dirs = <<>> /\ files = <<>> /\ fentries = <<>>
  /\ mount \in {"directories", "files"} => pvd.root \in [loc : Nat, size : Nat] /\ pvd.table.loc \in Nat
  /\ mount \in {"files", "mounted"} => dirs # <<>>
  /\ mount = "files" => search.dir \in DOMAIN dirs

\* Where the directories lie, and the files of one.
Layout == CHOOSE extents \in [1..Len(PathTable(Disc)) -> ExtentsOn(Disc)] : IsLaidOut(Disc, extents)
RecordsOf(k) == RecordsOn(Disc, Layout[k])
FilesOf(k) == {r \in ToSet(RecordsOf(k)) : ~r.dir}
FilesUpTo(m) == {p \in (1 .. m) \X Records : p[2] \in FilesOf(p[1])}

\* A file of the tree for each of some pairs of directory and record, and no
\* other; the ids are the places in the table.
IsFile(t, f, p) ==
  /\ t.files[f].parent = p[1] /\ t.files[f].name = p[2].name /\ t.files[f].size = p[2].size
  /\ t.fentries[t.files[f].id] = p[2].loc
HasFiles(t, P) ==
  /\ \A f \in DOMAIN t.files : \E p \in P : IsFile(t, f, p)
  /\ \A p \in P : \E f \in DOMAIN t.files : IsFile(t, f, p)
  /\ \A f, g \in DOMAIN t.files :
       t.files[f].parent = t.files[g].parent /\ t.files[f].name = t.files[g].name => f = g
  /\ \A f \in DOMAIN t.files :
       t.files[f].id = (t.loc - Len(t.files)) + (f - 1) /\ t.files[f].id \in DOMAIN t.fentries

\* The table has grown far enough, unless its index was far off from the start.
TableSound(t) ==
  t.loc - Len(t.files) < 2 * TableStep =>
    ~t.overrun /\ IF t.files = <<>> THEN t.size = TableStep ELSE t.loc <= t.size

\* The directories that the search is still to go through.
IsWay(way, names, k) ==
  /\ way \in Seq(DOMAIN dirs) /\ Len(way) = Len(names) + 1
  /\ way[Len(way)] = k
  /\ \A i \in 1 .. Len(names) :
       way[i + 1] # Root /\ dirs[way[i + 1]].parent = way[i] /\ dirs[way[i + 1]].name = names[i]

OnTheWay ==
  \E way : /\ IsWay(way, search.names, search.dir)
           /\ Layout[way[1]] = [loc |-> search.loc, size |-> search.size]

\* What was mounted is on the disc, if no read has failed.
Mounting == errors = 0 /\ OnDrive /\ mount \in {"directories", "files", "mounted"}
DiscInv ==
  Mounting =>
    /\ HasVolume /\ pvd = Disc[PvdSector]
    /\ mount # "directories" =>
         /\ dirs = Directories(PathTable(Disc))
         /\ TableSound(EntryTable)
         /\ HasFiles(EntryTable, FilesUpTo(IF mount = "mounted" THEN Len(dirs) ELSE search.dir - 1))
    /\ mount = "files" => OnTheWay

BootInv == DriveInv /\ PhaseInv /\ TreeInv /\ DiscInv /\ LostForCause

-----------------------------------------------------------------------------
(* Numbers and sequences.                                                   *)

\* Induction over the natural numbers, for a set of them.
LEMMA AllNumbers ==
  ASSUME NEW T, 0 \in T, \A n \in Nat : n \in T => n + 1 \in T
  PROVE  Nat \subseteq T
<1> SUFFICES ASSUME Nat \ T # {} PROVE FALSE
  OBVIOUS
<1>1. Nat \ T \subseteq Nat
  OBVIOUS
<1>2. PICK x \in Nat \ T : \A y \in Nat \ T : ~(<<y, x>> \in OpToRel(<, Nat))
  BY <1>1, NatLessThanWellFounded, WFMin, Zenon
<1>3. \A y \in Nat \ T : ~(y < x)
  BY <1>2 DEF OpToRel
<1>4. x # 0 /\ x - 1 \in Nat /\ x - 1 < x /\ x = (x - 1) + 1
  OBVIOUS
<1>5. x - 1 \in T
  BY <1>3, <1>4
<1> QED BY <1>4, <1>5


\* One more item.
LEMMA ItemAdded ==
  ASSUME NEW S, NEW s \in Seq(S), NEW x \in S
  PROVE  /\ Append(s, x) \in Seq(S)
         /\ Len(s) \in Nat /\ Len(Append(s, x)) = Len(s) + 1
         /\ Append(s, x)[Len(s) + 1] = x
         /\ \A i \in 1 .. Len(s) : Append(s, x)[i] = s[i]
BY AppendProperties, LenProperties

\* What FlattenSeq makes of the first parts.
Flat(f, parts, i) == IF i = 1 THEN parts[i] ELSE f[i - 1] \o parts[i]
IsFlatUpTo(f, parts, m) == f = [i \in 1 .. m |-> Flat(f, parts, i)]
IsFlat(f, parts) ==
  f = [i \in 1..Len(parts) |-> IF i = 1 THEN parts[i] ELSE f[i-1] \o parts[i]]

LEMMA FlatExists ==
  ASSUME NEW parts, Len(parts) \in Nat
  PROVE  \E f : IsFlat(f, parts)
<1> DEFINE T == {m \in Nat : \E f : IsFlatUpTo(f, parts, m)}
<1>1. 0 \in T
  <2>1. PICK f : f = [i \in 1 .. 0 |-> <<>>]
    OBVIOUS
  <2>2. \A i : i \notin 1 .. 0
    OBVIOUS
  <2>3. IsFlatUpTo(f, parts, 0)
    BY <2>1, <2>2 DEF IsFlatUpTo
  <2> QED BY <2>3
<1>2. ASSUME NEW m \in Nat, m \in T PROVE m + 1 \in T
  <2>1. PICK f : f = [i \in 1 .. m |-> Flat(f, parts, i)]
    BY <1>2 DEF IsFlatUpTo
  <2>2. PICK x : x = Flat(f, parts, m + 1)
    OBVIOUS
  <2>3. PICK g : g = [i \in 1 .. m + 1 |-> IF i = m + 1 THEN x ELSE f[i]]
    OBVIOUS
  <2>4. \A i \in 1 .. m : i \in 1 .. m + 1 /\ i # m + 1 /\ g[i] = f[i]
    BY <2>3
  <2>5. ASSUME NEW i \in 1 .. m + 1 PROVE Flat(g, parts, i) = Flat(f, parts, i)
    <3>1. CASE i = 1
      BY <3>1 DEF Flat
    <3>2. CASE i # 1
      <4>1. i - 1 \in 1 .. m
        BY <3>2
      <4>2. g[i - 1] = f[i - 1]
        BY <2>4, <4>1
      <4> QED BY <4>2 DEF Flat
    <3> QED BY <3>1, <3>2
  <2>6. ASSUME NEW i \in 1 .. m + 1 PROVE g[i] = Flat(g, parts, i)
    <3>1. CASE i = m + 1
      BY <2>2, <2>3, <2>5, <3>1
    <3>2. CASE i # m + 1
      <4>1. i \in 1 .. m
        BY <3>2
      <4>2. f[i] = Flat(f, parts, i)
        BY <2>1, <4>1
      <4> QED BY <2>4, <2>5, <4>1, <4>2
    <3> QED BY <3>1, <3>2
  <2>7. IsFlatUpTo(g, parts, m + 1)
    BY <2>3, <2>6 DEF IsFlatUpTo
  <2> QED BY <2>7
<1>3. Len(parts) \in T
  <2> HIDE DEF T
  <2> QED BY <1>1, <1>2, AllNumbers
<1>4. PICK f : IsFlatUpTo(f, parts, Len(parts))
  BY <1>3
<1> QED BY <1>4, Zenon DEF IsFlatUpTo, IsFlat, Flat


\* A sequence has the items of two others.
Unites(c, a, b) == \A x : x \in ToSet(c) <=> x \in ToSet(a) \/ x \in ToSet(b)

LEMMA ConcatUnites ==
  ASSUME NEW S, NEW a \in Seq(S), NEW b \in Seq(S)
  PROVE  a \o b \in Seq(S) /\ Unites(a \o b, a, b)
<1>1. PICK c : c = a \o b
  OBVIOUS
<1>2. /\ c \in Seq(S) /\ Len(c) = Len(a) + Len(b)
      /\ \A i \in 1 .. Len(a) + Len(b) : c[i] = IF i <= Len(a) THEN a[i] ELSE b[i - Len(a)]
  BY <1>1, ConcatProperties
<1>3. /\ Len(a) \in Nat /\ Len(b) \in Nat
      /\ DOMAIN a = 1 .. Len(a) /\ DOMAIN b = 1 .. Len(b) /\ DOMAIN c = 1 .. Len(c)
  BY <1>2, LenProperties
<1>4. ASSUME NEW i \in 1 .. Len(a) PROVE i \in DOMAIN c /\ c[i] = a[i]
  BY <1>2, <1>3
<1>5. ASSUME NEW i \in 1 .. Len(b) PROVE i + Len(a) \in DOMAIN c /\ c[i + Len(a)] = b[i]
  <2>1. i + Len(a) \in 1 .. Len(a) + Len(b) /\ ~(i + Len(a) <= Len(a)) /\ (i + Len(a)) - Len(a) = i
    BY <1>3
  <2> QED BY <1>2, <1>3, <2>1
<1>6. ASSUME NEW i \in DOMAIN c
      PROVE  c[i] \in ToSet(a) \/ c[i] \in ToSet(b)
  <2>1. CASE i <= Len(a)
    <3>1. i \in DOMAIN a /\ c[i] = a[i]
      BY <1>2, <1>3, <2>1
    <3> QED BY <3>1 DEF ToSet
  <2>2. CASE ~(i <= Len(a))
    <3>1. i - Len(a) \in DOMAIN b /\ c[i] = b[i - Len(a)]
      BY <1>2, <1>3, <2>2
    <3> QED BY <3>1 DEF ToSet
  <2> QED BY <2>1, <2>2
<1>7. ASSUME NEW x PROVE x \in ToSet(c) <=> x \in ToSet(a) \/ x \in ToSet(b)
  <2>1. x \in ToSet(a) => x \in ToSet(c)
    BY <1>3, <1>4 DEF ToSet
  <2>2. x \in ToSet(b) => x \in ToSet(c)
    BY <1>3, <1>5 DEF ToSet
  <2>3. x \in ToSet(c) => x \in ToSet(a) \/ x \in ToSet(b)
    BY <1>6 DEF ToSet
  <2> QED BY <2>1, <2>2, <2>3
<1> QED BY <1>1, <1>2, <1>7 DEF Unites

\* FlattenSeq keeps what is in the parts, and has nothing else.
LEMMA FlatHas ==
  ASSUME NEW S, NEW n \in Nat, NEW parts \in [1 .. n -> Seq(S)]
  PROVE  /\ FlattenSeq(parts) \in Seq(S)
         /\ \A x : x \in ToSet(FlattenSeq(parts)) <=> \E i \in 1 .. n : x \in ToSet(parts[i])
<1>1. parts \in Seq(Seq(S)) /\ Len(parts) = n
  OBVIOUS
<1>2. CASE n = 0
  <2>1. FlattenSeq(parts) = parts
    BY <1>1, <1>2 DEF FlattenSeq
  <2>2. parts = <<>> /\ parts \in Seq(S)
    BY <1>1, <1>2
  <2>3. ToSet(parts) = {}
    BY <2>2 DEF ToSet
  <2> QED BY <1>2, <2>1, <2>2, <2>3
<1>3. CASE n # 0
  <2>1. PICK f : f = CHOOSE x : IsFlat(x, parts)
    OBVIOUS
  <2>2. IsFlat(f, parts)
    BY <1>1, <2>1, FlatExists
  <2>3. FlattenSeq(parts) = f[n]
    <3>1. FlattenSeq(parts) = f[Len(parts)]
      BY <1>1, <1>3, <2>1, Zenon DEF FlattenSeq, IsFlat
    <3> QED BY <1>1, <3>1
  <2>4. \A i \in 1 .. n : f[i] = IF i = 1 THEN parts[i] ELSE f[i - 1] \o parts[i]
    BY <1>1, <2>2 DEF IsFlat
  <2> DEFINE T == {m \in Nat : m + 1 <= n =>
                     /\ f[m + 1] \in Seq(S)
                     /\ \A x : x \in ToSet(f[m + 1]) <=> \E i \in 1 .. m + 1 : x \in ToSet(parts[i])}
  <2>5. 0 \in T
    <3>1. f[1] = parts[1] /\ parts[1] \in Seq(S)
      BY <1>3, <2>4
    <3>2. \A i : i \in 1 .. 1 <=> i = 1
      OBVIOUS
    <3> QED BY <3>1, <3>2
  <2>6. ASSUME NEW m \in Nat, m \in T PROVE m + 1 \in T
    <3>1. SUFFICES ASSUME (m + 1) + 1 <= n
                   PROVE  /\ f[(m + 1) + 1] \in Seq(S)
                          /\ \A x : x \in ToSet(f[(m + 1) + 1]) <=>
                                   \E i \in 1 .. (m + 1) + 1 : x \in ToSet(parts[i])
      OBVIOUS
    <3>2. PICK k : k = m + 1
      OBVIOUS
    <3>3. k \in Nat /\ k + 1 \in 1 .. n /\ k + 1 # 1 /\ (k + 1) - 1 = k /\ k <= n
      BY <3>1, <3>2
    <3>4. f[k] \in Seq(S) /\ \A x : x \in ToSet(f[k]) <=> \E i \in 1 .. k : x \in ToSet(parts[i])
      BY <2>6, <3>2, <3>3
    <3>5. f[k + 1] = f[k] \o parts[k + 1]
      BY <2>4, <3>3
    <3>6. parts[k + 1] \in Seq(S)
      BY <3>3
    <3>7. f[k + 1] \in Seq(S) /\ Unites(f[k + 1], f[k], parts[k + 1])
      BY <3>4, <3>5, <3>6, ConcatUnites
    <3>8. \A i : i \in 1 .. k + 1 <=> i \in 1 .. k \/ i = k + 1
      BY <3>3
    <3>9. ASSUME NEW x PROVE x \in ToSet(f[k + 1]) <=> \E i \in 1 .. k + 1 : x \in ToSet(parts[i])
      BY <3>4, <3>7, <3>8, Zenon DEF Unites
    <3> QED BY <3>2, <3>7, <3>9
  <2>7. n - 1 \in T
    <3>1. n - 1 \in Nat
      BY <1>3
    <3> HIDE DEF T
    <3> QED BY <2>5, <2>6, <3>1, AllNumbers
  <2>8. (n - 1) + 1 = n /\ n <= n
    OBVIOUS
  <2> QED BY <2>3, <2>7, <2>8
<1> QED BY <1>2, <1>3

-----------------------------------------------------------------------------
(* Drives and discs.                                                        *)

\* What a read gives: sectors of the disc, or what memory held.
LEMMA ReadGives ==
  ASSUME NEW bd, NEW lba, NEW n \in Nat, errors \in 0 .. MaxErrors, NEW read \in Reads(bd, lba, n)
  PROVE  /\ DOMAIN read.buf = 1 .. n
         /\ read.failed \in Nat
         /\ \A s \in 1 .. n :
              \/ read.buf[s] \in seen \cup {Junk}
              \/ Medium(bd) # NoDisc /\ lba + s - 1 \in DOMAIN Medium(bd) /\ read.buf[s] = Medium(bd)[lba + s - 1]
         /\ Medium(bd) # NoDisc => errors + read.failed \in 0 .. MaxErrors
         /\ Medium(bd) # NoDisc /\ read.failed = 0 =>
              \A s \in 1 .. n : lba + s - 1 \in DOMAIN Medium(bd) /\ read.buf[s] = Medium(bd)[lba + s - 1]
<1>1. PICK disc : disc = Medium(bd)
  OBVIOUS
<1>2. PICK good \in GoodSectors(bd, lba, n) : \E kept \in [(1 .. n) \ good -> seen \cup {Junk}] :
        read = Transfer(bd, lba, n, good, kept)
  BY Zenon DEF Reads
<1> PICK kept \in [(1 .. n) \ good -> seen \cup {Junk}] : read = Transfer(bd, lba, n, good, kept)
  BY <1>2
<1>3. read = [buf |-> [s \in 1 .. n |-> IF s \in good THEN disc[lba + s - 1] ELSE kept[s]],
              failed |-> Cardinality((1 .. n) \ good)]
  BY <1>1 DEF Transfer
<1>4. /\ good \subseteq 1 .. n
      /\ \A s \in good : disc # NoDisc /\ lba + s - 1 \in DOMAIN disc
      /\ disc # NoDisc => n - Cardinality(good) + errors <= MaxErrors
  BY <1>1 DEF GoodSectors
<1>5. IsFiniteSet(1 .. n) /\ Cardinality(1 .. n) = n
  BY FS_Interval
<1>6. IsFiniteSet(good) /\ Cardinality(good) \in Nat
  BY <1>4, <1>5, FS_Subset, FS_CardinalityType
<1>7. Cardinality((1 .. n) \ good) = n - Cardinality(good) /\ Cardinality((1 .. n) \ good) \in Nat
  <2>1. (1 .. n) \cap good = good
    BY <1>4
  <2>2. Cardinality((1 .. n) \ good) = Cardinality(1 .. n) - Cardinality((1 .. n) \cap good)
    BY <1>5, FS_Difference
  <2>3. IsFiniteSet((1 .. n) \ good)
    BY <1>5, FS_Difference
  <2> QED BY <1>5, <2>1, <2>2, <2>3, FS_CardinalityType
<1>8. read.failed = n - Cardinality(good) /\ read.failed \in Nat
  BY <1>3, <1>7
<1>9. ASSUME read.failed = 0
      PROVE  \A s \in 1 .. n : s \in good
  <2>1. Cardinality((1 .. n) \ good) = 0
    BY <1>3, <1>9
  <2>2. (1 .. n) \ good = {}
    BY <1>5, <2>1, FS_Difference, FS_EmptySet
  <2> QED BY <2>2
<1>10. disc # NoDisc => errors + read.failed \in 0 .. MaxErrors
  BY <1>4, <1>6, <1>8, AtapiAssumption
<1>11. ASSUME NEW s \in 1 .. n
       PROVE  read.buf[s] = IF s \in good THEN disc[lba + s - 1] ELSE kept[s]
  BY <1>3
<1>12. DOMAIN read.buf = 1 .. n
  BY <1>3
<1> QED BY <1>1, <1>4, <1>8, <1>9, <1>10, <1>11, <1>12

\* The slot of a drive, and its disc.
LEMMA DiscKnown ==
  ASSUME DriveInv, OnDrive, Disc # NoDisc
  PROVE  IsDisc(Disc)
<1>1. SlotOf(Volume) \in Slots
  <2>1. blockdevices[Volume + 1] \in Slots
    BY LenProperties DEF DriveInv, OnDrive
  <2> QED BY <2>1 DEF SlotOf
<1> QED BY <1>1, IsoAssumption DEF DriveInv, Disc, Medium

LEMMA JunkIs == Junk.kind = "junk" /\ ~IsoValid(Junk)
BY DEF Junk, IsoValid

\* What memory holds is junk or a sector.
LEMMA ReadableIs ==
  ASSUME DriveInv, OnDrive, NEW x, Readable(x)
  PROVE  x = Junk \/ (Disc # NoDisc /\ IsSector(x))
<1>1. CASE Disc # NoDisc /\ \E l \in DOMAIN Disc : x = Disc[l]
  <2>1. IsDisc(Disc)
    BY <1>1, DiscKnown
  <2> QED BY <1>1, <2>1 DEF IsDisc
<1> QED BY <1>1 DEF Readable

-----------------------------------------------------------------------------
(* Directories and their names.                                             *)

\* The path names of the first directories.
NameAt(ns, k) == IF k = Root THEN <<>> ELSE Append(ns[dirs[k].parent], dirs[k].name)
AreNamesUpTo(ns, m) == ns = [k \in 1 .. m |-> NameAt(ns, k)]
AreNames(ns) ==
  ns = [d \in DOMAIN dirs |->
          IF d = Root THEN <<>> ELSE Append(ns[dirs[d].parent], dirs[d].name)]

LEMMA NamesExist ==
  ASSUME dirs \in Seq(Entries), IsTree(dirs)
  PROVE  \E ns : AreNames(ns)
<1>1. PICK n : n = Len(dirs)
  OBVIOUS
<1>2. n \in Nat /\ DOMAIN dirs = 1 .. n
  BY <1>1, LenProperties
<1>3. \A k \in 1 .. n : k # Root => dirs[k].parent \in 1 .. k - 1
  BY <1>2 DEF IsTree
<1> DEFINE T == {m \in Nat : m <= n => \E ns : AreNamesUpTo(ns, m)}
<1>4. 0 \in T
  <2>1. PICK ns : ns = [k \in 1 .. 0 |-> <<>>]
    OBVIOUS
  <2>2. \A k : k \notin 1 .. 0
    OBVIOUS
  <2>3. AreNamesUpTo(ns, 0)
    BY <2>1, <2>2 DEF AreNamesUpTo
  <2> QED BY <2>3
<1>5. ASSUME NEW m \in Nat, m \in T PROVE m + 1 \in T
  <2>0. SUFFICES ASSUME m + 1 <= n PROVE \E ns : AreNamesUpTo(ns, m + 1)
    OBVIOUS
  <2>1. PICK ns : ns = [k \in 1 .. m |-> NameAt(ns, k)]
    BY <1>2, <1>5, <2>0 DEF AreNamesUpTo
  <2>2. PICK x : x = NameAt(ns, m + 1)
    OBVIOUS
  <2>3. PICK g : g = [k \in 1 .. m + 1 |-> IF k = m + 1 THEN x ELSE ns[k]]
    OBVIOUS
  <2>4. \A k \in 1 .. m : k \in 1 .. m + 1 /\ k # m + 1 /\ g[k] = ns[k]
    BY <2>3
  <2>5. ASSUME NEW k \in 1 .. m + 1 PROVE NameAt(g, k) = NameAt(ns, k)
    <3>1. CASE k = Root
      BY <3>1 DEF NameAt
    <3>2. CASE k # Root
      <4>1. dirs[k].parent \in 1 .. m
        BY <1>2, <1>3, <2>0, <3>2
      <4>2. g[dirs[k].parent] = ns[dirs[k].parent]
        BY <2>4, <4>1
      <4> QED BY <4>2 DEF NameAt
    <3> QED BY <3>1, <3>2
  <2>6. ASSUME NEW k \in 1 .. m + 1 PROVE g[k] = NameAt(g, k)
    <3>1. CASE k = m + 1
      BY <2>2, <2>3, <2>5, <3>1
    <3>2. CASE k # m + 1
      <4>1. k \in 1 .. m
        BY <3>2
      <4>2. ns[k] = NameAt(ns, k)
        BY <2>1, <4>1
      <4> QED BY <2>4, <2>5, <4>1, <4>2
    <3> QED BY <3>1, <3>2
  <2>7. AreNamesUpTo(g, m + 1)
    BY <2>3, <2>6 DEF AreNamesUpTo
  <2> QED BY <2>7
<1>6. n \in T
  <2> HIDE DEF T
  <2> QED BY <1>2, <1>4, <1>5, AllNumbers
<1>7. PICK ns : AreNamesUpTo(ns, n)
  BY <1>2, <1>6
<1>8. ns = [k \in DOMAIN dirs |-> NameAt(ns, k)]
  BY <1>2, <1>7 DEF AreNamesUpTo
<1> QED BY <1>8, Zenon DEF AreNames, NameAt

\* The names down to a directory are those down to its parent and its own.
LEMMA NamesDown ==
  ASSUME dirs \in Seq(Entries), IsTree(dirs), NEW k \in DOMAIN dirs
  PROVE  NamesTo(k) = IF k = Root THEN <<>> ELSE Append(NamesTo(dirs[k].parent), dirs[k].name)
<1>1. PICK ns : ns = CHOOSE x : AreNames(x)
  OBVIOUS
<1>2. AreNames(ns)
  BY <1>1, NamesExist
<1>3. \A d : NamesTo(d) = ns[d]
  BY <1>1, Zenon DEF NamesTo, AreNames
<1>4. ns[k] = IF k = Root THEN <<>> ELSE Append(ns[dirs[k].parent], dirs[k].name)
  BY <1>2 DEF AreNames
<1> QED BY <1>3, <1>4

\* Induction from the root of the tree.
LEMMA TreeInduction ==
  ASSUME dirs \in Seq(Entries), IsTree(dirs), NEW S,
         \A k \in DOMAIN dirs : k = Root \/ dirs[k].parent \in S => k \in S
  PROVE  DOMAIN dirs \subseteq S
<1>1. DOMAIN dirs = 1 .. Len(dirs) /\ Len(dirs) \in Nat
  BY LenProperties
<1> DEFINE T == {m \in Nat : \A k \in DOMAIN dirs : k <= m => k \in S}
<1>2. 0 \in T
  BY <1>1
<1>3. ASSUME NEW m \in Nat, m \in T PROVE m + 1 \in T
  <2>1. ASSUME NEW k \in DOMAIN dirs, k <= m + 1 PROVE k \in S
    <3>1. CASE k = Root
      BY <3>1
    <3>2. CASE k # Root
      <4>1. dirs[k].parent \in 1 .. k - 1
        BY <3>2 DEF IsTree
      <4>2. dirs[k].parent \in DOMAIN dirs /\ dirs[k].parent <= m
        BY <1>1, <2>1, <4>1
      <4> QED BY <1>3, <4>2
    <3> QED BY <3>1, <3>2
  <2> QED BY <2>1
<1>4. Len(dirs) \in T
  <2> HIDE DEF T
  <2> QED BY <1>1, <1>2, <1>3, AllNumbers
<1> QED BY <1>1, <1>4

LEMMA NamesTyped ==
  ASSUME dirs \in Seq(Entries), IsTree(dirs), NEW k \in DOMAIN dirs
  PROVE  NamesTo(k) \in Seq(STRING)
<1> DEFINE S == {d \in DOMAIN dirs : NamesTo(d) \in Seq(STRING)}
<1>1. ASSUME NEW d \in DOMAIN dirs, d = Root \/ dirs[d].parent \in S PROVE d \in S
  <2>1. CASE d = Root
    <3>1. NamesTo(d) = <<>>
      BY <2>1, NamesDown
    <3> QED BY <3>1
  <2>2. CASE d # Root
    <3>1. NamesTo(d) = Append(NamesTo(dirs[d].parent), dirs[d].name)
      BY <2>2, NamesDown
    <3>2. NamesTo(dirs[d].parent) \in Seq(STRING)
      BY <1>1, <2>2
    <3>3. dirs[d].name \in STRING
      <4>1. dirs[d] \in Entries
        BY LenProperties
      <4> QED BY <4>1 DEF Entries
    <3> QED BY <3>1, <3>2, <3>3, AppendProperties
  <2> QED BY <2>1, <2>2
<1>2. DOMAIN dirs \subseteq S
  <2> HIDE DEF S
  <2> QED BY <1>1, TreeInduction
<1> QED BY <1>2

\* The names of a directory lead down to it from the root.
LEMMA WayDown ==
  ASSUME dirs \in Seq(Entries), IsTree(dirs), NEW k \in DOMAIN dirs
  PROVE  \E way : IsWay(way, NamesTo(k), k) /\ way[1] = Root
<1> DEFINE S == {d \in DOMAIN dirs : \E way : IsWay(way, NamesTo(d), d) /\ way[1] = Root}
<1>1. ASSUME NEW d \in DOMAIN dirs, d = Root \/ dirs[d].parent \in S PROVE d \in S
  <2>1. CASE d = Root
    <3>1. NamesTo(d) = <<>> /\ Len(<<>>) = 0
      BY <2>1, NamesDown
    <3>2. PICK way : way = <<d>>
      OBVIOUS
    <3>3. way \in Seq(DOMAIN dirs) /\ Len(way) = 1 /\ way[1] = d
      BY <3>2
    <3>4. IsWay(way, NamesTo(d), d)
      BY <3>1, <3>3 DEF IsWay
    <3> QED BY <2>1, <3>3, <3>4
  <2>2. CASE d # Root
    <3>1. PICK e : e = dirs[d].parent
      OBVIOUS
    <3>2. e \in DOMAIN dirs /\ NamesTo(d) = Append(NamesTo(e), dirs[d].name)
      BY <1>1, <2>2, <3>1, NamesDown
    <3>3. PICK way : IsWay(way, NamesTo(e), e) /\ way[1] = Root
      BY <1>1, <2>2, <3>1
    <3>4. PICK names : names = NamesTo(e)
      OBVIOUS
    <3>5. names \in Seq(STRING) /\ dirs[d].name \in STRING
      BY <3>2, <3>4, NamesTyped, LenProperties DEF Entries
    <3>6. PICK more : more = Append(names, dirs[d].name)
      OBVIOUS
    <3>7. /\ Len(names) \in Nat /\ Len(more) = Len(names) + 1 /\ more[Len(names) + 1] = dirs[d].name
          /\ \A i \in 1 .. Len(names) : more[i] = names[i]
      BY <3>5, <3>6, ItemAdded
    <3>8. /\ way \in Seq(DOMAIN dirs) /\ Len(way) = Len(names) + 1 /\ way[Len(way)] = e
          /\ \A i \in 1 .. Len(names) :
               way[i + 1] # Root /\ dirs[way[i + 1]].parent = way[i] /\ dirs[way[i + 1]].name = names[i]
      BY <3>3, <3>4 DEF IsWay
    <3>9. PICK w : w = Append(way, d)
      OBVIOUS
    <3>10. /\ w \in Seq(DOMAIN dirs) /\ Len(w) = Len(way) + 1 /\ w[Len(way) + 1] = d
           /\ \A i \in 1 .. Len(way) : w[i] = way[i]
      BY <3>8, <3>9, ItemAdded
    <3>11. ASSUME NEW i \in 1 .. Len(more)
           PROVE  w[i + 1] # Root /\ dirs[w[i + 1]].parent = w[i] /\ dirs[w[i + 1]].name = more[i]
      <4>1. CASE i = Len(names) + 1
        <5>1. i \in 1 .. Len(way) /\ i = Len(way)
          BY <3>7, <3>8, <4>1
        <5> QED BY <2>2, <3>1, <3>7, <3>8, <3>10, <4>1, <5>1
      <4>2. CASE i # Len(names) + 1
        <5>1. i \in 1 .. Len(names) /\ i \in 1 .. Len(way) /\ i + 1 \in 1 .. Len(way)
          BY <3>7, <3>8, <4>2
        <5> QED BY <3>7, <3>8, <3>10, <5>1
      <4> QED BY <4>1, <4>2
    <3>12. IsWay(w, more, d)
      BY <3>7, <3>8, <3>10, <3>11 DEF IsWay
    <3>13. 1 \in 1 .. Len(way)
      BY <3>7, <3>8
    <3> QED BY <3>2, <3>3, <3>4, <3>6, <3>10, <3>12, <3>13
  <2> QED BY <2>1, <2>2
<1>2. DOMAIN dirs \subseteq S
  <2> HIDE DEF S
  <2> QED BY <1>1, TreeInduction
<1> QED BY <1>2

-----------------------------------------------------------------------------
(* Steps that leave the tree alone.                                         *)

\* The drive stays the same as long as its registration does.
LEMMA SameDrive ==
  ASSUME UNCHANGED <<drives, atapiDisc, blockdevices, cmdline>>
  PROVE  Volume' = Volume /\ Disc' = Disc /\ (OnDrive' <=> OnDrive) /\ \A x : Readable(x)' <=> Readable(x)
<1>1. Volume' = Volume
  BY DEF Volume, SelectInSeq
<1>2. Disc' = Disc
  BY <1>1 DEF Disc, Medium, SlotOf
<1>3. OnDrive' <=> OnDrive
  BY <1>1 DEF OnDrive
<1>4. \A x : Readable(x)' <=> Readable(x)
  BY <1>2 DEF Readable
<1> QED BY <1>1, <1>2, <1>3, <1>4

\* The same disc has the same files in the same places.
LEMMA SameFiles ==
  ASSUME Disc' = Disc, NEW m
  PROVE  (HasVolume' <=> HasVolume) /\ Layout' = Layout /\ FilesUpTo(m)' = FilesUpTo(m)
<1>1. HasVolume' <=> HasVolume
  BY DEF HasVolume
<1>2. Layout' = Layout
  BY Zenon DEF Layout
<1>3. \A k : RecordsOf(k)' = RecordsOf(k)
  BY <1>2 DEF RecordsOf
<1>4. \A k : FilesOf(k)' = FilesOf(k)
  BY <1>3, Zenon DEF FilesOf
<1>5. FilesUpTo(m)' = FilesUpTo(m)
  BY <1>4, Zenon DEF FilesUpTo
<1> QED BY <1>1, <1>2, <1>5

LEMMA SameWay ==
  ASSUME Disc' = Disc, UNCHANGED <<dirs, search>>
  PROVE  OnTheWay' <=> OnTheWay
<1>1. Layout' = Layout
  BY SameFiles
<1>2. \A way, names, k : IsWay(way, names, k)' <=> IsWay(way, names, k)
  BY DEF IsWay
<1> QED BY <1>1, <1>2 DEF OnTheWay

\* Nothing of the tree changes, on the same disc.
LEMMA TreeKept ==
  ASSUME BootInv, UNCHANGED isoVars, Disc' = Disc, OnDrive' => OnDrive, errors' = 0 => errors = 0,
         errors > 0 => errors' > 0
  PROVE  TreeInv' /\ DiscInv' /\ LostForCause'
<1>1. UNCHANGED <<mount, pvd, dirs, files, fentries, fentriesLoc, fentriesSize, search>>
  BY DEF isoVars
<1>2. TreeInv'
  BY <1>1 DEF BootInv, TreeInv, IsTree
<1>3. DiscInv'
  <2>1. Mounting' => Mounting
    BY <1>1 DEF Mounting
  <2>2. PICK m : m = IF mount = "mounted" THEN Len(dirs) ELSE search.dir - 1
    OBVIOUS
  <2>3. (HasVolume' <=> HasVolume) /\ FilesUpTo(m)' = FilesUpTo(m) /\ (OnTheWay' <=> OnTheWay)
    BY <1>1, SameFiles, SameWay
  <2>4. m = IF mount' = "mounted" THEN Len(dirs') ELSE search'.dir - 1
    BY <1>1, <2>2
  <2>5. EntryTable' = EntryTable
    BY <1>1 DEF EntryTable
  <2>6. (FilesUpTo(IF mount = "mounted" THEN Len(dirs) ELSE search.dir - 1))' = FilesUpTo(m)
    BY <2>3, <2>4, Zenon DEF FilesUpTo
  <2>7. ASSUME Mounting'
        PROVE  /\ HasVolume' /\ pvd' = Disc'[PvdSector]
               /\ mount' # "directories" =>
                    /\ dirs' = Directories(PathTable(Disc'))
                    /\ TableSound(EntryTable')
                    /\ HasFiles(EntryTable', FilesUpTo(IF mount = "mounted" THEN Len(dirs) ELSE search.dir - 1)')
               /\ mount' = "files" => OnTheWay'
    BY <1>1, <2>1, <2>2, <2>3, <2>5, <2>6, <2>7 DEF BootInv, DiscInv
  <2> QED BY <2>7, Zenon DEF DiscInv
<1>4. LostForCause'
  BY <1>1 DEF BootInv, LostForCause, Disc
<1> QED BY <1>2, <1>3, <1>4

\* The loop of atapi_init registers at most the four devices there are.
RegisteredAt(r, n) ==
  IF n = 0 THEN <<>>
  ELSE IF atadevices[n - 1] = ATA_TYPE_ATAPI THEN Append(r[n - 1], n - 1)
  ELSE r[n - 1]
AreRegistered(r) ==
  r = [n \in 0..4 |-> IF n = 0 THEN <<>>
                      ELSE IF atadevices[n - 1] = ATA_TYPE_ATAPI THEN Append(r[n - 1], n - 1)
                      ELSE r[n - 1]]

LEMMA RegisteredExist == \E r : AreRegistered(r)
<1> DEFINE With(s, i) == IF atadevices[i] = ATA_TYPE_ATAPI THEN Append(s, i) ELSE s
<1>1. PICK r0, r1, r2, r3, r4 :
        /\ r0 = <<>> /\ r1 = With(r0, 0) /\ r2 = With(r1, 1) /\ r3 = With(r2, 2) /\ r4 = With(r3, 3)
  OBVIOUS
<1>2. PICK r : r = [n \in 0 .. 4 |-> IF n = 0 THEN r0 ELSE IF n = 1 THEN r1 ELSE IF n = 2 THEN r2
                                     ELSE IF n = 3 THEN r3 ELSE r4]
  OBVIOUS
<1>3. r[0] = r0 /\ r[1] = r1 /\ r[2] = r2 /\ r[3] = r3 /\ r[4] = r4
  BY <1>2
<1>4. ASSUME NEW n \in 0 .. 3, r[n + 1] = With(r[n], n) PROVE r[n + 1] = RegisteredAt(r, n + 1)
  <2>1. n + 1 # 0 /\ (n + 1) - 1 = n
    OBVIOUS
  <2> QED BY <1>4, <2>1, Zenon DEF RegisteredAt
<1>5. r[0] = RegisteredAt(r, 0)
  BY <1>1, <1>3 DEF RegisteredAt
<1>6. ASSUME NEW n \in 0 .. 3 PROVE r[n + 1] = With(r[n], n)
  <2> HIDE DEF With
  <2>1. (0 + 1 = 1 /\ 1 + 1 = 2) /\ 2 + 1 = 3 /\ 3 + 1 = 4
    OBVIOUS
  <2>2. (n = 0 \/ n = 1) \/ n = 2 \/ n = 3
    OBVIOUS
  <2> QED BY <1>1, <1>3, <2>1, <2>2
<1>7. \A n \in 0 .. 4 : n = 0 \/ (n - 1 \in 0 .. 3 /\ (n - 1) + 1 = n)
  OBVIOUS
<1>8. ASSUME NEW n \in 0 .. 4 PROVE r[n] = RegisteredAt(r, n)
  <2> HIDE DEF With
  <2> QED BY <1>4, <1>5, <1>6, <1>7, Zenon
<1>9. r = [n \in 0..4 |-> RegisteredAt(r, n)]
  BY <1>2, <1>8
<1> QED BY <1>9, Zenon DEF AreRegistered, RegisteredAt

LEMMA Registered ==
  ASSUME AtapiInit
  PROVE  blockdevices' \in Seq(Slots) /\ Len(blockdevices') <= 4 /\ atapiDisc' = Len(blockdevices') - 1
<1>1. PICK r : r = CHOOSE x : AreRegistered(x)
  OBVIOUS
<1>2. AreRegistered(r)
  BY <1>1, RegisteredExist
<1>3. blockdevices' = r[4]
  BY <1>1, Zenon DEF AtapiInit, AreRegistered
<1>4. \A n \in 0 .. 4 : r[n] = RegisteredAt(r, n)
  <2>1. r = [n \in 0..4 |-> RegisteredAt(r, n)]
    BY <1>2, Zenon DEF AreRegistered, RegisteredAt
  <2> QED BY <2>1
<1>5. r[0] \in Seq(Slots) /\ Len(r[0]) <= 0
  <2>1. r[0] = <<>>
    BY <1>4 DEF RegisteredAt
  <2> QED BY <2>1
<1>6. ASSUME NEW n \in 0 .. 3, r[n] \in Seq(Slots), Len(r[n]) <= n
      PROVE  r[n + 1] \in Seq(Slots) /\ Len(r[n + 1]) <= n + 1
  <2>1. n + 1 \in 0 .. 4 /\ n + 1 # 0 /\ (n + 1) - 1 = n /\ n \in Slots
    BY DEF Slots
  <2>2. r[n + 1] = Append(r[n], n) \/ r[n + 1] = r[n]
    BY <1>4, <2>1 DEF RegisteredAt
  <2>3. Len(r[n]) \in Nat
    BY <1>6, LenProperties
  <2>4. Append(r[n], n) \in Seq(Slots) /\ Len(Append(r[n], n)) = Len(r[n]) + 1
    BY <1>6, <2>1, ItemAdded
  <2>5. CASE r[n + 1] = Append(r[n], n)
    BY <1>6, <2>3, <2>4, <2>5
  <2>6. CASE r[n + 1] = r[n]
    <3>1. Len(r[n]) <= n + 1
      BY <1>6, <2>3
    <3> QED BY <1>6, <2>6, <3>1
  <2> QED BY <2>2, <2>5, <2>6
<1>7. r[1] \in Seq(Slots) /\ Len(r[1]) <= 1
  BY <1>5, <1>6
<1>8. r[2] \in Seq(Slots) /\ Len(r[2]) <= 2
  <2>1. 1 \in 0 .. 3 /\ 1 + 1 = 2
    OBVIOUS
  <2> QED BY <1>6, <1>7, <2>1
<1>9. r[3] \in Seq(Slots) /\ Len(r[3]) <= 3
  <2>1. 2 \in 0 .. 3 /\ 2 + 1 = 3
    OBVIOUS
  <2> QED BY <1>6, <1>8, <2>1
<1>10. r[4] \in Seq(Slots) /\ Len(r[4]) <= 4
  <2>1. 3 \in 0 .. 3 /\ 3 + 1 = 4
    OBVIOUS
  <2> QED BY <1>6, <1>9, <2>1
<1> QED BY <1>3, <1>10 DEF AtapiInit

\* A read from the disc: what it may give, and what it gives as long as no read
\* has failed.
LEMMA DiscRead ==
  ASSUME BootInv, OnDrive, NEW lba, NEW n \in Nat, NEW read \in Reads(Volume, lba, n),
         HasRead(Volume, read), UNCHANGED <<cmdline>>, reads' \in 0 .. MaxReads
  PROVE  /\ DriveInv' /\ Volume' = Volume /\ Disc' = Disc /\ (OnDrive' <=> OnDrive)
         /\ errors' = 0 => errors = 0
         /\ errors > 0 => errors' > 0
         /\ DOMAIN read.buf = 1 .. n
         /\ \A s \in 1 .. n : read.buf[s] = Junk \/ (Disc # NoDisc /\ IsSector(read.buf[s]))
         /\ errors' = 0 /\ Disc # NoDisc =>
              \A s \in 1 .. n : lba + s - 1 \in DOMAIN Disc /\ read.buf[s] = Disc[lba + s - 1]
<1>1. /\ errors' = IF Disc = NoDisc THEN errors ELSE errors + read.failed
      /\ seen' = seen \cup {x \in ToSet(read.buf) : x.kind # "data"}
      /\ UNCHANGED <<drives, atadevices, atapiDisc, blockdevices>>
  BY DEF HasRead, Disc
<1>2. DriveInv
  BY DEF BootInv
<1>3. errors \in 0 .. MaxErrors /\ errors \in Nat
  BY <1>2, AtapiAssumption DEF DriveInv
<1>4. /\ DOMAIN read.buf = 1 .. n
      /\ read.failed \in Nat
      /\ \A s \in 1 .. n :
           \/ read.buf[s] \in seen \cup {Junk}
           \/ Disc # NoDisc /\ lba + s - 1 \in DOMAIN Disc /\ read.buf[s] = Disc[lba + s - 1]
      /\ Disc # NoDisc => errors + read.failed \in 0 .. MaxErrors
      /\ Disc # NoDisc /\ read.failed = 0 =>
           \A s \in 1 .. n : lba + s - 1 \in DOMAIN Disc /\ read.buf[s] = Disc[lba + s - 1]
  BY <1>3, ReadGives DEF Disc
<1>5. Volume' = Volume /\ Disc' = Disc /\ (OnDrive' <=> OnDrive) /\ \A x : Readable(x)' <=> Readable(x)
  BY <1>1, SameDrive
<1>6. ASSUME NEW s \in 1 .. n PROVE Readable(read.buf[s])
  BY <1>2, <1>4 DEF DriveInv, Readable
<1>7. \A x \in seen' : Readable(x)
  <2>1. ASSUME NEW x \in ToSet(read.buf) PROVE Readable(x)
    BY <1>4, <1>6 DEF ToSet
  <2> QED BY <1>1, <1>2, <2>1 DEF DriveInv
<1>8. errors' \in 0 .. MaxErrors
  BY <1>1, <1>3, <1>4
<1>9. DriveInv'
  BY <1>1, <1>2, <1>5, <1>7, <1>8 DEF DriveInv
<1>10. (errors' = 0 => errors = 0) /\ (errors > 0 => errors' > 0)
  BY <1>1, <1>3, <1>4
<1>11. errors' = 0 /\ Disc # NoDisc => read.failed = 0
  BY <1>1, <1>3, <1>4
<1>12. \A s \in 1 .. n : read.buf[s] = Junk \/ (Disc # NoDisc /\ IsSector(read.buf[s]))
  BY <1>2, <1>6, ReadableIs
<1> QED BY <1>4, <1>5, <1>9, <1>10, <1>11, <1>12

\* Detecting the drives and registering them.
LEMMA DetectSteps ==
  ASSUME BootInv, Detect \/ InitDrives
  PROVE  BootInv'
<1>1. /\ phase \in {"detect", "init"} /\ phase' \in {"init", "volume"}
      /\ UNCHANGED isoVars /\ UNCHANGED <<cmdline, drives, errors, seen, ramdisk, answer, reads>>
  BY DEF Detect, InitDrives, DetectDisks, AtapiInit, Goto, KeepIso, KeepRest
<1>2. mount = "none" /\ errors = 0 /\ seen = {}
  BY <1>1 DEF BootInv, PhaseInv
<1>3. UNCHANGED <<mount, pvd, dirs, files, fentries, fentriesLoc, fentriesSize, search>>
  BY <1>1 DEF isoVars
<1>4. blockdevices' \in Seq(Slots) /\ Len(blockdevices') <= 4 /\ atapiDisc' = Len(blockdevices') - 1
  <2>1. CASE Detect
    BY <2>1 DEF Detect, DetectDisks, BootInv, DriveInv
  <2>2. CASE InitDrives
    BY <2>2, Registered DEF InitDrives, AtapiInit
  <2> QED BY <2>1, <2>2
<1>5. DriveInv'
  BY <1>1, <1>2, <1>4 DEF BootInv, DriveInv
<1>6. PhaseInv'
  BY <1>1, <1>2, <1>3 DEF BootInv, PhaseInv
<1>7. TreeInv'
  BY <1>3 DEF BootInv, TreeInv, IsTree
<1>8. DiscInv' /\ LostForCause'
  BY <1>2, <1>3 DEF DiscInv, Mounting, LostForCause
<1> QED BY <1>5, <1>6, <1>7, <1>8 DEF BootInv

-----------------------------------------------------------------------------
(* What a volume has.                                                       *)

\* The least and the greatest of some numbers.
LEMMA FirstNumber ==
  ASSUME NEW I \in SUBSET Nat, I # {}
  PROVE  Min(I) \in I /\ \A y \in I : Min(I) <= y
<1>1. PICK x \in I : \A y \in I : ~(<<y, x>> \in OpToRel(<, Nat))
  BY NatLessThanWellFounded, WFMin, Zenon
<1>2. ASSUME NEW y \in I PROVE x <= y
  <2>1. x \in Nat /\ y \in Nat
    OBVIOUS
  <2>2. ~(y < x)
    BY <1>1, <2>1 DEF OpToRel
  <2> QED BY <2>1, <2>2
<1> QED BY <1>2 DEF Min

LEMMA LastNumber ==
  ASSUME NEW n \in Nat, NEW I \in SUBSET (0 .. n), I # {}
  PROVE  Max(I) \in I
<1>1. PICK J : J = {n - i : i \in I}
  OBVIOUS
<1>2. J \in SUBSET Nat /\ J # {}
  <2>1. \A j \in J : j \in Nat
    BY <1>1
  <2>2. PICK x : x \in I
    OBVIOUS
  <2>3. n - x \in J
    BY <1>1, <2>2
  <2> QED BY <2>1, <2>3
<1>3. PICK i \in I : Min(J) = n - i
  BY <1>1, <1>2, FirstNumber
<1>4. ASSUME NEW y \in I PROVE i >= y
  <2>1. n - y \in J
    BY <1>1
  <2>2. n - i <= n - y
    BY <1>2, <1>3, <2>1, FirstNumber
  <2> QED BY <2>2
<1> QED BY <1>4 DEF Max

LEMMA VolumeFound ==
  ASSUME DriveInv, cmdline # CD, cmdline \in ToSet(blockdevices)
  PROVE  OnDrive
<1>1. PICK I : I = {i \in 1..Len(blockdevices) : blockdevices[i] = cmdline}
  OBVIOUS
<1>2. DOMAIN blockdevices = 1 .. Len(blockdevices) /\ Len(blockdevices) \in Nat
  BY LenProperties DEF DriveInv
<1>3. I \in SUBSET Nat /\ I # {}
  BY <1>1, <1>2 DEF ToSet
<1>4. Min(I) \in I
  BY <1>3, FirstNumber
<1>5. Volume = Min(I) - 1
  BY <1>1, <1>3 DEF Volume, SelectInSeq
<1>6. Min(I) \in 1 .. Len(blockdevices)
  BY <1>1, <1>4
<1>7. Volume + 1 = Min(I)
  BY <1>5, <1>6
<1> QED BY <1>2, <1>6, <1>7 DEF OnDrive

\* The path table makes a tree.
LEMMA TableIsTree ==
  ASSUME NEW x, IsSector(x), x.kind = "table"
  PROVE  /\ x.entries \in Seq(Entries) /\ x.entries # <<>>
         /\ Directories(x.entries) \in Seq(Entries) /\ Directories(x.entries) # <<>>
         /\ Len(Directories(x.entries)) = Len(x.entries)
         /\ IsTree(Directories(x.entries))
<1>1. PICK table : table = x.entries
  OBVIOUS
<1>2. table \in Seq(Entries) /\ table # <<>> /\ \A k \in 2..Len(table) : table[k].parent \in 1..(k - 1)
  BY <1>1 DEF IsSector, Entries
<1>3. DOMAIN table = 1 .. Len(table) /\ Len(table) \in Nat /\ Len(table) # 0
  BY <1>2, LenProperties, EmptySeq
<1>4. PICK d : d = Directories(table)
  OBVIOUS
<1>5. d = [k \in 1 .. Len(table) |->
             [name |-> table[k].name, parent |-> IF k = Root THEN 0 ELSE table[k].parent]]
  BY <1>3, <1>4 DEF Directories
<1>6. ASSUME NEW k \in 1 .. Len(table) PROVE d[k] \in Entries
  <2>1. table[k] \in Entries
    BY <1>2, <1>3
  <2>2. (IF k = Root THEN 0 ELSE table[k].parent) \in Nat
    BY <2>1 DEF Entries
  <2> QED BY <1>5, <2>1, <2>2 DEF Entries
<1>7. d \in [1 .. Len(table) -> Entries]
  BY <1>5, <1>6
<1>8. d \in Seq(Entries) /\ Len(d) = Len(table) /\ DOMAIN d = 1 .. Len(table)
  BY <1>3, <1>7
<1>9. IsTree(d)
  <2>1. ASSUME NEW k \in DOMAIN d PROVE d[k].parent \in IF k = Root THEN {0} ELSE 1 .. k - 1
    <3>1. d[k].parent = IF k = Root THEN 0 ELSE table[k].parent
      BY <1>5, <1>8
    <3>2. CASE k = Root
      BY <3>1, <3>2
    <3>3. CASE k # Root
      <4>1. k \in 2 .. Len(table)
        BY <1>3, <1>8, <3>3 DEF Root
      <4> QED BY <1>2, <3>1, <3>3, <4>1
    <3> QED BY <3>2, <3>3
  <2> QED BY <2>1 DEF IsTree
<1> QED BY <1>1, <1>2, <1>3, <1>4, <1>8, <1>9

\* What a volume descriptor says, and where the path table is.
LEMMA VolumeKnown ==
  ASSUME DriveInv, OnDrive, HasVolume
  PROVE  /\ Disc[PvdSector].root \in [loc : Nat, size : Nat]
         /\ Disc[PvdSector].table.loc \in Nat
         /\ Disc[PvdSector].table.loc \in DOMAIN Disc
         /\ IsSector(Disc[Disc[PvdSector].table.loc]) /\ Disc[Disc[PvdSector].table.loc].kind = "table"
         /\ PathTable(Disc) \in Seq(Entries) /\ PathTable(Disc) # <<>>
         /\ Layout \in [1..Len(PathTable(Disc)) -> ExtentsOn(Disc)]
         /\ IsLaidOut(Disc, Layout)
<1>1. IsDisc(Disc)
  BY DiscKnown DEF HasVolume
<1>2. IsSector(Disc[PvdSector]) /\ Disc[PvdSector].kind = "pvd"
  BY <1>1 DEF IsDisc, HasVolume, IsoValid
<1>3. Disc[PvdSector].root \in [loc : Nat, size : Nat] /\ Disc[PvdSector].table.loc \in Nat
  BY <1>2 DEF IsSector
<1>4. PICK l : l = Disc[PvdSector].table.loc
  OBVIOUS
<1>5. /\ AreOf("table", Disc, l, 1)
      /\ \E extents \in [1..Len(PathTable(Disc)) -> ExtentsOn(Disc)] : IsLaidOut(Disc, extents)
  BY <1>1, <1>4 DEF IsDisc, HasVolume
<1>6. l \in l .. l + 1 - 1
  BY <1>3, <1>4
<1>7. l \in DOMAIN Disc /\ Disc[l].kind = "table" /\ IsSector(Disc[l])
  BY <1>1, <1>5, <1>6 DEF AreOf, IsDisc
<1>8. PathTable(Disc) = Disc[l].entries
  BY <1>4 DEF PathTable
<1>9. Layout \in [1..Len(PathTable(Disc)) -> ExtentsOn(Disc)] /\ IsLaidOut(Disc, Layout)
  BY <1>5, Zenon DEF Layout
<1> QED BY <1>3, <1>4, <1>7, <1>8, <1>9, TableIsTree

\* Where a directory lies.
LEMMA LayoutTyped ==
  ASSUME DriveInv, OnDrive, HasVolume, NEW k \in 1 .. Len(PathTable(Disc))
  PROVE  Layout[k] \in [loc : Nat, size : Nat]
<1>1. IsDisc(Disc)
  BY DiscKnown DEF HasVolume
<1>2. Layout[k] \in ExtentsOn(Disc)
  BY VolumeKnown
<1>3. CASE Layout[k] = Disc[PvdSector].root
  BY <1>3, VolumeKnown
<1>4. CASE Layout[k] # Disc[PvdSector].root
  <2>1. PICK l \in DOMAIN Disc : Disc[l].kind = "dir" /\ \E r \in ToSet(Disc[l].records) : Layout[k] = Extent(r)
    BY <1>2, <1>4 DEF ExtentsOn
  <2>2. Disc[l].records \in Seq(Records)
    BY <1>1, <2>1 DEF IsDisc, IsSector, Records
  <2>3. PICK r \in ToSet(Disc[l].records) : Layout[k] = Extent(r)
    BY <2>1
  <2>4. r \in Records
    BY <2>2, LenProperties DEF ToSet
  <2> QED BY <2>3, <2>4 DEF Extent, Records
<1> QED BY <1>3, <1>4

\* The records of sectors of directories.
LEMMA RecordsTyped ==
  ASSUME NEW n \in Nat, NEW buf, DOMAIN buf = 1 .. n,
         \A s \in 1 .. n : buf[s].kind = "dir" /\ IsSector(buf[s])
  PROVE  /\ RecordsIn(buf) \in Seq(Records)
         /\ \A x : x \in ToSet(RecordsIn(buf)) <=> \E s \in 1 .. n : x \in ToSet(buf[s].records)
<1>1. PICK parts : parts = [s \in 1 .. n |-> buf[s].records]
  OBVIOUS
<1>2. \A s \in 1 .. n : parts[s] = buf[s].records /\ buf[s].records \in Seq(Records)
  BY <1>1 DEF IsSector, Records
<1>3. parts \in [1 .. n -> Seq(Records)]
  BY <1>1, <1>2
<1>4. RecordsIn(buf) = FlattenSeq(parts)
  BY <1>1, Zenon DEF RecordsIn
<1>5. /\ FlattenSeq(parts) \in Seq(Records)
      /\ \A x : x \in ToSet(FlattenSeq(parts)) <=> \E i \in 1 .. n : x \in ToSet(parts[i])
  BY <1>3, FlatHas
<1> QED BY <1>2, <1>4, <1>5

\* The sectors of a directory on the disc.
LEMMA SectorsOfDirectory ==
  ASSUME DriveInv, OnDrive, HasVolume, NEW k \in 1 .. Len(PathTable(Disc)),
         NEW s \in 1 .. Layout[k].size
  PROVE  /\ Layout[k].loc + s - 1 \in DOMAIN Disc
         /\ Disc[Layout[k].loc + s - 1].kind = "dir" /\ IsSector(Disc[Layout[k].loc + s - 1])
<1>1. IsDisc(Disc)
  BY DiscKnown DEF HasVolume
<1>2. Layout[k].loc \in Nat /\ Layout[k].size \in Nat
  BY LayoutTyped
<1>3. AreOf("dir", Disc, Layout[k].loc, Layout[k].size)
  BY VolumeKnown DEF IsLaidOut
<1>4. Layout[k].loc + s - 1 \in Layout[k].loc .. Layout[k].loc + Layout[k].size - 1
  BY <1>2
<1> QED BY <1>1, <1>3, <1>4 DEF AreOf, IsDisc

LEMMA RecordsOfTyped ==
  ASSUME DriveInv, OnDrive, HasVolume, NEW k \in 1 .. Len(PathTable(Disc))
  PROVE  /\ RecordsOf(k) \in Seq(Records)
         /\ ToSet(RecordsOf(k)) = OnDisc(Disc, Layout[k].loc, Layout[k].size)
<1>1. Layout[k].loc \in Nat /\ Layout[k].size \in Nat
  BY LayoutTyped
<1>2. PICK buf : buf = [s \in 1..Layout[k].size |-> Disc[Layout[k].loc + s - 1]]
  OBVIOUS
<1>3. DOMAIN buf = 1 .. Layout[k].size /\ \A s \in 1 .. Layout[k].size : buf[s] = Disc[Layout[k].loc + s - 1]
  BY <1>2
<1>4. \A s \in 1 .. Layout[k].size : buf[s].kind = "dir" /\ IsSector(buf[s])
  BY <1>3, SectorsOfDirectory
<1>5. RecordsOf(k) = RecordsIn(buf)
  BY <1>2, Zenon DEF RecordsOf, RecordsOn
<1>6. /\ RecordsIn(buf) \in Seq(Records)
      /\ \A x : x \in ToSet(RecordsIn(buf)) <=> \E s \in 1 .. Layout[k].size : x \in ToSet(buf[s].records)
  BY <1>1, <1>3, <1>4, RecordsTyped
<1>7. ASSUME NEW x
      PROVE  x \in ToSet(RecordsOf(k)) <=> x \in OnDisc(Disc, Layout[k].loc, Layout[k].size)
  <2>1. ASSUME NEW s \in 1 .. Layout[k].size, x \in ToSet(buf[s].records)
        PROVE  x \in OnDisc(Disc, Layout[k].loc, Layout[k].size)
    <3>1. Layout[k].loc + s - 1 \in Layout[k].loc..(Layout[k].loc + Layout[k].size - 1)
      BY <1>1
    <3> QED BY <1>3, <2>1, <3>1 DEF OnDisc
  <2>2. ASSUME NEW l \in Layout[k].loc..(Layout[k].loc + Layout[k].size - 1), x \in ToSet(Disc[l].records)
        PROVE  \E s \in 1 .. Layout[k].size : x \in ToSet(buf[s].records)
    <3>1. l - Layout[k].loc + 1 \in 1 .. Layout[k].size /\ Layout[k].loc + (l - Layout[k].loc + 1) - 1 = l
      BY <1>1
    <3>2. buf[l - Layout[k].loc + 1] = Disc[l]
      BY <1>3, <3>1
    <3> QED BY <2>2, <3>1, <3>2
  <2>3. x \in OnDisc(Disc, Layout[k].loc, Layout[k].size) <=>
          \E l \in Layout[k].loc..(Layout[k].loc + Layout[k].size - 1) : x \in ToSet(Disc[l].records)
    BY DEF OnDisc
  <2> QED BY <1>5, <1>6, <2>1, <2>2, <2>3
<1>8. ToSet(RecordsOf(k)) = OnDisc(Disc, Layout[k].loc, Layout[k].size)
  BY <1>7
<1> QED BY <1>5, <1>6, <1>8

\* Sectors as they are on the disc have the records of the directory.
LEMMA SameRecords ==
  ASSUME NEW k, NEW buf, DOMAIN buf = 1 .. Layout[k].size,
         \A s \in 1 .. Layout[k].size : buf[s] = Disc[Layout[k].loc + s - 1]
  PROVE  RecordsIn(buf) = RecordsOf(k)
<1>1. PICK b : b = [s \in 1..Layout[k].size |-> Disc[Layout[k].loc + s - 1]]
  OBVIOUS
<1>2. DOMAIN b = DOMAIN buf /\ \A s \in DOMAIN buf : b[s].records = buf[s].records
  BY <1>1
<1>3. [s \in DOMAIN b |-> b[s].records] = [s \in DOMAIN buf |-> buf[s].records]
  BY <1>2
<1>4. RecordsOf(k) = RecordsIn(b)
  BY <1>1, Zenon DEF RecordsOf, RecordsOn
<1> QED BY <1>3, <1>4 DEF RecordsIn

-----------------------------------------------------------------------------
(* Steps before the directories are searched.                               *)

LEMMA FindVolumeStep ==
  ASSUME BootInv, FindVolume
  PROVE  BootInv'
<1>1. /\ phase = "volume" /\ UNCHANGED <<drives, atadevices, atapiDisc, blockdevices, errors, seen>>
      /\ UNCHANGED isoVars /\ UNCHANGED <<cmdline, ramdisk, answer, reads>>
  BY DEF FindVolume, KeepIso, driveVars
<1>2. /\ phase' = "panic" \/ (phase' = "vfat" /\ cmdline = CD /\ DiscCount = 1)
         \/ (phase' = "vfat" /\ cmdline # CD /\ cmdline \in ToSet(blockdevices))
  BY DEF FindVolume, Goto, Panic
<1>3. UNCHANGED <<mount, pvd, dirs, files, fentries, fentriesLoc, fentriesSize, search>>
  BY <1>1 DEF isoVars
<1>4. DriveInv /\ PhaseInv /\ TreeInv
  BY DEF BootInv
<1>5. mount = "none" /\ errors = 0 /\ seen = {} /\ ramdisk = <<>> /\ answer = NoAnswer
  BY <1>1, <1>4 DEF PhaseInv
<1>6. DriveInv'
  BY <1>1, <1>4, <1>5 DEF DriveInv
<1>7. phase' = "vfat" => OnDrive
  <2>1. CASE phase' = "vfat" /\ cmdline = CD /\ DiscCount = 1
    <3>1. Len(blockdevices) = 1 /\ atapiDisc = Len(blockdevices) - 1 /\ blockdevices \in Seq(Slots)
      BY <1>4, <2>1 DEF DiscCount, DriveInv
    <3>2. Volume + 1 = 1
      BY <2>1, <3>1 DEF Volume
    <3> QED BY <3>1, <3>2, LenProperties DEF OnDrive
  <2>2. CASE phase' = "vfat" /\ cmdline # CD /\ cmdline \in ToSet(blockdevices)
    BY <1>4, <2>2, VolumeFound
  <2> QED BY <1>2, <2>1, <2>2
<1>8. OnDrive' <=> OnDrive
  BY <1>1, SameDrive
<1>9. PhaseInv'
  BY <1>1, <1>2, <1>3, <1>5, <1>7, <1>8 DEF PhaseInv
<1>10. TreeInv'
  BY <1>3, <1>4 DEF TreeInv, IsTree
<1>11. DiscInv' /\ LostForCause'
  BY <1>3, <1>5 DEF DiscInv, Mounting, LostForCause
<1> QED BY <1>6, <1>9, <1>10, <1>11 DEF BootInv

\* A crash has a cause.
LEMMA LostStep ==
  ASSUME BootInv, OnDrive', DriveInv', Lost, Disc' = Disc,
         mount # "mounted", phase' \in {"vfat", "iso", "mount"}, UNCHANGED <<ramdisk, answer>>,
         \/ errors' > 0
         \/ Disc = NoDisc \/ Disc[PvdSector].kind # "pvd"
         \/ fentriesLoc - Len(files) >= 2 * TableStep
  PROVE  BootInv'
<1>1. mount' = "lost" /\ search' = NoSearch /\ UNCHANGED <<pvd, dirs, files, fentries, fentriesLoc, fentriesSize>>
  BY DEF Lost
<1>2. PhaseInv'
  BY <1>1 DEF PhaseInv, BootInv
<1>3. NoSearch \in Searches
  <2>1. <<>> \in Seq(STRING)
    OBVIOUS
  <2> QED BY <2>1 DEF NoSearch, Search, Searches
<1>4. TreeInv'
  BY <1>1, <1>3 DEF BootInv, TreeInv, IsTree
<1>5. DiscInv'
  BY <1>1 DEF DiscInv, Mounting
<1>6. LostForCause'
  BY <1>1 DEF LostForCause, Disc
<1> QED BY <1>2, <1>4, <1>5, <1>6 DEF BootInv

\* A step that reads and leaves the tree alone.
LEMMA ReadStep ==
  ASSUME BootInv, OnDrive, UNCHANGED <<isoVars, cmdline>>, PhaseInv',
         NEW lba, NEW n \in Nat, NEW read \in Reads(Volume, lba, n), HasRead(Volume, read),
         reads' \in 0 .. MaxReads
  PROVE  BootInv'
<1>1. /\ DriveInv' /\ Disc' = Disc /\ (OnDrive' <=> OnDrive)
      /\ errors' = 0 => errors = 0
      /\ errors > 0 => errors' > 0
  BY DiscRead
<1>2. TreeInv' /\ DiscInv' /\ LostForCause'
  BY <1>1, TreeKept
<1> QED BY <1>1, <1>2 DEF BootInv

LEMMA ErrorsCount ==
  ASSUME DriveInv
  PROVE  errors \in Nat /\ (errors = 0 \/ errors > 0) /\ reads \in 0 .. MaxReads
BY AtapiAssumption DEF DriveInv

LEMMA AskVfatStep ==
  ASSUME BootInv, AskVfat, mount # "lost"
  PROVE  BootInv'
<1>1. phase = "vfat" /\ UNCHANGED <<cmdline, ramdisk, answer, reads>> /\ phase' = "iso"
  BY DEF AskVfat, KeepRest, Goto
<1>2. PICK read \in Reads(Volume, 0, 1) :
        HasRead(Volume, read) /\ (UNCHANGED isoVars \/ (read.buf[1] = Junk /\ Lost))
  BY DEF AskVfat, KeepIso
<1>3. OnDrive /\ mount = "none"
  BY <1>1 DEF BootInv, PhaseInv
<1>4. DriveInv /\ reads' \in 0 .. MaxReads /\ 0 \in Nat /\ 1 \in Nat /\ 1 \in 1 .. 1 /\ 0 + 1 - 1 = 0
  BY <1>1, ErrorsCount DEF BootInv
<1>5. /\ DriveInv' /\ Disc' = Disc /\ (OnDrive' <=> OnDrive)
      /\ errors' = 0 /\ Disc # NoDisc =>
           \A s \in 1 .. 1 : 0 + s - 1 \in DOMAIN Disc /\ read.buf[s] = Disc[0 + s - 1]
  BY <1>1, <1>2, <1>3, <1>4, DiscRead
<1>6. CASE UNCHANGED isoVars
  <2>1. PhaseInv'
    BY <1>1, <1>3, <1>5, <1>6 DEF BootInv, PhaseInv, isoVars
  <2> QED BY <1>1, <1>2, <1>3, <1>4, <1>6, <2>1, ReadStep
<1>7. CASE read.buf[1] = Junk /\ Lost
  <2>1. errors' > 0 \/ Disc = NoDisc
    <3>1. SUFFICES ASSUME errors' = 0, Disc # NoDisc PROVE FALSE
      BY <1>5, AtapiAssumption DEF DriveInv
    <3>2. 0 \in DOMAIN Disc /\ Disc[0] = Junk
      BY <1>4, <1>5, <1>7, <3>1
    <3>3. IsDisc(Disc)
      BY <1>3, <1>4, <3>1, DiscKnown
    <3>4. IsSector(Junk)
      BY <3>2, <3>3 DEF IsDisc
    <3> QED BY <3>4, JunkIs DEF IsSector
  <2> QED BY <1>1, <1>3, <1>5, <1>7, <2>1, LostStep
<1> QED BY <1>2, <1>6, <1>7

LEMMA AskIsoStep ==
  ASSUME BootInv, AskIso
  PROVE  BootInv'
<1>1. phase = "iso" /\ mount # "lost" /\ UNCHANGED <<cmdline, ramdisk, answer, reads>>
  BY DEF AskIso, KeepRest
<1>2. PICK read \in Reads(Volume, PvdSector, 1) :
        /\ HasRead(Volume, read)
        /\ \/ phase' \in {"mount", "panic"} /\ UNCHANGED isoVars
           \/ ~IsoValid(read.buf[1]) /\ Lost /\ UNCHANGED phase
  BY DEF AskIso, KeepIso, Goto, Panic
<1>3. OnDrive /\ mount = "none"
  BY <1>1 DEF BootInv, PhaseInv
<1>4. /\ DriveInv /\ reads' \in 0 .. MaxReads
      /\ PvdSector \in Nat /\ 1 \in Nat /\ 1 \in 1 .. 1 /\ PvdSector + 1 - 1 = PvdSector
  BY <1>1, ErrorsCount DEF BootInv, PvdSector
<1>5. /\ DriveInv' /\ Disc' = Disc /\ (OnDrive' <=> OnDrive)
      /\ errors' = 0 /\ Disc # NoDisc =>
           \A s \in 1 .. 1 : PvdSector + s - 1 \in DOMAIN Disc /\ read.buf[s] = Disc[PvdSector + s - 1]
  BY <1>1, <1>2, <1>3, <1>4, DiscRead
<1>6. CASE phase' \in {"mount", "panic"} /\ UNCHANGED isoVars
  <2>1. PhaseInv'
    BY <1>1, <1>3, <1>5, <1>6 DEF BootInv, PhaseInv, isoVars
  <2> QED BY <1>1, <1>2, <1>3, <1>4, <1>6, <2>1, ReadStep
<1>7. CASE ~IsoValid(read.buf[1]) /\ Lost /\ UNCHANGED phase
  <2>1. errors' > 0 \/ Disc = NoDisc \/ Disc[PvdSector].kind # "pvd"
    <3>1. SUFFICES ASSUME errors' = 0, Disc # NoDisc PROVE Disc[PvdSector].kind # "pvd"
      BY <1>5, AtapiAssumption DEF DriveInv
    <3>2. Disc[PvdSector] = read.buf[1]
      BY <1>4, <1>5, <3>1
    <3> QED BY <1>7, <3>2 DEF IsoValid
  <2> QED BY <1>1, <1>3, <1>5, <1>7, <2>1, LostStep
<1> QED BY <1>2, <1>6, <1>7

\* The step of kernel_main around a step of vfs_mount.
LEMMA MountPhase ==
  ASSUME BootInv, Mount
  PROVE  /\ phase = "mount" /\ OnDrive /\ IsoMount(Volume)
         /\ UNCHANGED <<cmdline, ramdisk, answer, reads>> /\ reads' \in 0 .. MaxReads
         /\ mount' \in {"lost", "directories", "files"} => UNCHANGED phase
         /\ mount' = "refused" => phase' = "panic"
         /\ mount' = "mounted" => phase' \in {"image", "booted"}
         /\ mount # "mounted" /\ ramdisk = <<>> /\ answer = NoAnswer
<1>1. /\ phase = "mount" /\ IsoMount(Volume) /\ UNCHANGED <<cmdline, ramdisk, answer, reads>>
      /\ mount' \in {"lost", "directories", "files"} => UNCHANGED phase
      /\ mount' = "refused" => phase' = "panic"
      /\ mount' = "mounted" => phase' \in {"image", "booted"}
  BY DEF Mount, Goto, Panic, KeepRest
<1>2. mount \in {"none", "directories", "files"}
  BY <1>1 DEF IsoMount, ReadDescriptor, ReadPathTable, Descend, AppendFiles
<1>3. OnDrive /\ ramdisk = <<>> /\ answer = NoAnswer
  BY <1>1, <1>2 DEF BootInv, PhaseInv
<1>4. reads \in 0 .. MaxReads
  BY ErrorsCount DEF BootInv
<1> QED BY <1>1, <1>2, <1>3, <1>4

LEMMA PhaseMounts ==
  ASSUME BootInv, Mount, OnDrive', mount' \in {"lost", "directories", "files", "refused", "mounted"}
  PROVE  PhaseInv'
BY MountPhase DEF BootInv, PhaseInv

LEMMA DescriptorStep ==
  ASSUME BootInv, Mount, ReadDescriptor(Volume)
  PROVE  BootInv'
<1>1. /\ phase = "mount" /\ OnDrive /\ UNCHANGED <<cmdline, ramdisk, answer, reads>> /\ reads' \in 0 .. MaxReads
  BY MountPhase
<1>2. PICK read \in Reads(Volume, PvdSector, 1) :
        /\ HasRead(Volume, read)
        /\ IF IsoValid(read.buf[1])
             THEN mount' = "directories" /\ pvd' = read.buf[1]
             ELSE mount' = "refused" /\ UNCHANGED pvd
  BY DEF ReadDescriptor
<1>3. mount = "none" /\ UNCHANGED <<dirs, files, fentries, fentriesLoc, fentriesSize, search>>
  BY DEF ReadDescriptor
<1>4. DriveInv /\ PvdSector \in Nat /\ 1 \in Nat /\ 1 \in 1 .. 1 /\ PvdSector + 1 - 1 = PvdSector
  BY DEF BootInv, PvdSector
<1>5. /\ DriveInv' /\ Disc' = Disc /\ (OnDrive' <=> OnDrive)
      /\ \A s \in 1 .. 1 : read.buf[s] = Junk \/ (Disc # NoDisc /\ IsSector(read.buf[s]))
      /\ errors' = 0 /\ Disc # NoDisc =>
           \A s \in 1 .. 1 : PvdSector + s - 1 \in DOMAIN Disc /\ read.buf[s] = Disc[PvdSector + s - 1]
  BY <1>1, <1>2, <1>4, DiscRead
<1>6. PhaseInv'
  BY <1>1, <1>2, <1>5, PhaseMounts
<1>7. IsoValid(read.buf[1]) => Disc # NoDisc /\ IsSector(read.buf[1])
  BY <1>4, <1>5, JunkIs
<1>8. TreeInv'
  <2>1. mount' = "directories" => pvd'.root \in [loc : Nat, size : Nat] /\ pvd'.table.loc \in Nat
    BY <1>2, <1>7 DEF IsSector, IsoValid
  <2> QED BY <1>2, <1>3, <2>1 DEF BootInv, TreeInv, IsTree
<1>9. DiscInv'
  <2>1. SUFFICES ASSUME Mounting' PROVE HasVolume' /\ pvd' = Disc'[PvdSector] /\ mount' = "directories"
    BY DEF DiscInv
  <2>2. mount' = "directories" /\ errors' = 0 /\ pvd' = read.buf[1] /\ IsoValid(read.buf[1]) /\ Disc # NoDisc
    BY <1>2, <1>7, <2>1 DEF Mounting
  <2>3. PvdSector \in DOMAIN Disc /\ read.buf[1] = Disc[PvdSector]
    BY <1>4, <1>5, <2>2
  <2> QED BY <1>5, <2>2, <2>3 DEF HasVolume
<1>10. LostForCause'
  BY <1>2 DEF LostForCause
<1> QED BY <1>5, <1>6, <1>8, <1>9, <1>10 DEF BootInv

\* The path table becomes directories; the search starts in the root.
LEMMA PathTableStep ==
  ASSUME BootInv, Mount, ReadPathTable(Volume)
  PROVE  BootInv'
<1>1. /\ phase = "mount" /\ OnDrive /\ UNCHANGED <<cmdline, ramdisk, answer, reads>> /\ reads' \in 0 .. MaxReads
      /\ mount' = "lost" => UNCHANGED phase
  BY MountPhase
<1>2. mount = "directories"
  BY DEF ReadPathTable
<1> PICK l : l = pvd.table.loc
  OBVIOUS
<1>3. PICK read \in Reads(Volume, l, 1) :
        /\ HasRead(Volume, read)
        /\ \/ /\ read.buf[1].kind = "table"
              /\ mount' = "files"
              /\ dirs' = Directories(read.buf[1].entries)
              /\ fentriesSize' = TableStep
              /\ fentriesLoc' \in FreshIndices
              /\ search' = Search(Root, <<>>, pvd.root.loc, pvd.root.size)
              /\ UNCHANGED <<pvd, files, fentries>>
           \/ read.buf[1].kind # "table" /\ Lost
  BY DEF ReadPathTable
<1>4. /\ DriveInv /\ l \in Nat /\ 1 \in Nat /\ 1 \in 1 .. 1 /\ l + 1 - 1 = l
      /\ files = <<>> /\ fentries = <<>> /\ pvd.root \in [loc : Nat, size : Nat]
  BY <1>2 DEF BootInv, TreeInv
<1>5. /\ DriveInv' /\ Volume' = Volume /\ Disc' = Disc /\ (OnDrive' <=> OnDrive)
      /\ errors' = 0 => errors = 0
      /\ \A s \in 1 .. 1 : read.buf[s] = Junk \/ (Disc # NoDisc /\ IsSector(read.buf[s]))
      /\ errors' = 0 /\ Disc # NoDisc =>
           \A s \in 1 .. 1 : l + s - 1 \in DOMAIN Disc /\ read.buf[s] = Disc[l + s - 1]
  BY <1>1, <1>3, <1>4, DiscRead
<1>6. ASSUME errors' = 0
      PROVE  /\ HasVolume /\ pvd = Disc[PvdSector]
             /\ read.buf[1] = Disc[l] /\ read.buf[1].kind = "table"
             /\ PathTable(Disc) = read.buf[1].entries
  <2>1. HasVolume /\ pvd = Disc[PvdSector]
    BY <1>1, <1>2, <1>5, <1>6 DEF BootInv, DiscInv, Mounting
  <2>2. read.buf[1] = Disc[l]
    BY <1>4, <1>5, <1>6, <2>1 DEF HasVolume
  <2>3. Disc[l].kind = "table" /\ PathTable(Disc) = Disc[l].entries
    BY <1>1, <1>4, <2>1, VolumeKnown DEF PathTable
  <2> QED BY <2>1, <2>2, <2>3
<1>7. CASE read.buf[1].kind # "table" /\ Lost
  <2>1. errors' > 0
    BY <1>5, <1>6, <1>7, AtapiAssumption DEF DriveInv
  <2>2. UNCHANGED phase
    BY <1>1, <1>7 DEF Lost
  <2> QED BY <1>1, <1>2, <1>5, <1>7, <2>1, <2>2, LostStep
<1>8. CASE /\ read.buf[1].kind = "table"
           /\ mount' = "files"
           /\ dirs' = Directories(read.buf[1].entries)
           /\ fentriesSize' = TableStep
           /\ fentriesLoc' \in FreshIndices
           /\ search' = Search(Root, <<>>, pvd.root.loc, pvd.root.size)
           /\ UNCHANGED <<pvd, files, fentries>>
  <2>1. PhaseInv'
    BY <1>1, <1>5, <1>8, PhaseMounts
  <2>2. IsSector(read.buf[1])
    BY <1>4, <1>5, <1>8, JunkIs
  <2>3. dirs' \in Seq(Entries) /\ dirs' # <<>> /\ IsTree(dirs') /\ dirs' = Directories(read.buf[1].entries)
    BY <1>8, <2>2, TableIsTree
  <2>4. Root \in DOMAIN dirs' /\ Root = 1
    BY <2>3, LenProperties, EmptySeq DEF Root
  <2>5. search' = [dir |-> Root, names |-> <<>>, loc |-> pvd.root.loc, size |-> pvd.root.size]
    BY <1>8 DEF Search
  <2>6. search' \in Searches
    <3>1. <<>> \in Seq(STRING) /\ Root \in Nat
      BY <2>4
    <3> QED BY <1>4, <2>5, <3>1 DEF Searches
  <2>7. fentriesLoc' \in Nat /\ fentriesSize' \in Nat /\ fentriesSize' = TableStep /\ files' = <<>>
    BY <1>4, <1>8, IsoAssumption
  <2>8. files' \in Seq(Files) /\ \A f \in DOMAIN files' : files'[f].parent \in DOMAIN dirs'
    BY <2>7
  <2>9. TreeInv'
    <3>1. pvd'.root \in [loc : Nat, size : Nat] /\ pvd'.table.loc \in Nat
      BY <1>4, <1>8
    <3>2. search'.dir \in DOMAIN dirs'
      BY <2>4, <2>5
    <3>3. mount' = "files" /\ mount' \notin {"none", "directories"}
      BY <1>8
    <3>4. IsTree(dirs)'
      BY <2>3 DEF IsTree
    <3> QED BY <2>3, <2>6, <2>7, <2>8, <3>1, <3>2, <3>3, <3>4 DEF TreeInv
  <2>10. LostForCause'
    BY <1>8 DEF LostForCause
  <2>11. DiscInv'
    <3>1. SUFFICES ASSUME errors' = 0 PROVE DiscInv'
      BY DEF DiscInv, Mounting
    <3>2. HasVolume' /\ pvd' = Disc'[PvdSector] /\ dirs' = Directories(PathTable(Disc'))
      BY <1>5, <1>6, <1>8, <3>1 DEF HasVolume
    <3>3. TableSound(EntryTable')
      BY <2>7 DEF TableSound, EntryTable
    <3>4. search'.dir - 1 = 0
      BY <2>4, <2>5
    <3>5. PICK P : P = FilesUpTo(0)'
      OBVIOUS
    <3>6. P = {}
      BY <3>5 DEF FilesUpTo
    <3>7. HasFiles(EntryTable', P)
      BY <2>7, <3>6 DEF HasFiles, EntryTable
    <3>8. (FilesUpTo(IF mount = "mounted" THEN Len(dirs) ELSE search.dir - 1))' = P
      BY <1>8, <3>4, <3>5, Zenon DEF FilesUpTo
    <3>9. OnTheWay'
      <4>1. PICK way : way = <<Root>>
        OBVIOUS
      <4>2. way \in Seq(DOMAIN dirs') /\ Len(way) = 1 /\ way[1] = Root
        BY <2>4, <4>1
      <4>3. IsWay(way, search.names, search.dir)'
        BY <2>5, <4>2 DEF IsWay
      <4>4. Layout' = Layout
        BY <1>5, SameFiles
      <4>5. Layout[Root] = Extent(Disc[PvdSector].root)
        BY <1>1, <1>4, <1>6, <3>1, VolumeKnown DEF IsLaidOut
      <4>6. Layout'[way[1]] = [loc |-> search'.loc, size |-> search'.size]
        BY <1>6, <2>5, <3>1, <4>2, <4>4, <4>5 DEF Extent
      <4> QED BY <4>3, <4>6 DEF OnTheWay
    <3> QED BY <1>8, <3>2, <3>3, <3>7, <3>8, <3>9, Zenon DEF DiscInv
  <2> QED BY <1>5, <2>1, <2>9, <2>10, <2>11 DEF BootInv
<1> QED BY <1>3, <1>7, <1>8

\* The directories on the way are in the table, and their records in the
\* directory before.
LEMMA NextOnTheWay ==
  ASSUME DriveInv, OnDrive, HasVolume, TreeInv, dirs = Directories(PathTable(Disc)),
         NEW way, NEW names \in Seq(STRING), NEW k, IsWay(way, names, k), names # <<>>
  PROVE  /\ way[1] \in 1 .. Len(PathTable(Disc))
         /\ way[2] \in 2 .. Len(PathTable(Disc))
         /\ \E i \in DOMAIN RecordsOf(way[1]) : RecordsOf(way[1])[i].name = Head(names)
         /\ \A i \in DOMAIN RecordsOf(way[1]) :
              RecordsOf(way[1])[i].name = Head(names) => Extent(RecordsOf(way[1])[i]) = Layout[way[2]]
         /\ IsWay(Tail(way), Tail(names), k) /\ Tail(way)[1] = way[2]
<1>1. PICK table : table = PathTable(Disc)
  OBVIOUS
<1>2. /\ table \in Seq(Entries) /\ Len(table) \in Nat /\ DOMAIN table = 1 .. Len(table)
      /\ DOMAIN dirs = 1 .. Len(table)
      /\ \A d \in 1 .. Len(table) :
           dirs[d].name = table[d].name /\ (d # Root => dirs[d].parent = table[d].parent)
  <2>1. table \in Seq(Entries) /\ Len(table) \in Nat /\ DOMAIN table = 1 .. Len(table)
    BY <1>1, VolumeKnown, LenProperties
  <2>2. dirs = [d \in DOMAIN table |->
                 [name |-> table[d].name, parent |-> IF d = Root THEN 0 ELSE table[d].parent]]
    BY <1>1 DEF Directories
  <2> QED BY <2>1, <2>2
<1>3. /\ way \in Seq(DOMAIN dirs) /\ Len(way) = Len(names) + 1 /\ way[Len(way)] = k
      /\ \A i \in 1 .. Len(names) :
           way[i + 1] # Root /\ dirs[way[i + 1]].parent = way[i] /\ dirs[way[i + 1]].name = names[i]
  BY DEF IsWay
<1>4. Len(names) \in Nat /\ Len(names) >= 1 /\ 1 \in 1 .. Len(names) /\ Head(names) = names[1]
  BY LenProperties, EmptySeq, HeadTailProperties
<1>5. way[1] \in 1 .. Len(table) /\ way[2] \in 1 .. Len(table)
  <2>1. 1 \in 1 .. Len(way) /\ 2 \in 1 .. Len(way)
    BY <1>3, <1>4
  <2> QED BY <1>2, <1>3, <2>1, LenProperties
<1>6. way[2] # Root /\ dirs[way[2]].parent = way[1] /\ dirs[way[2]].name = Head(names)
  <2>1. 1 + 1 = 2
    OBVIOUS
  <2> QED BY <1>3, <1>4, <2>1
<1>7. way[2] \in 2 .. Len(table)
  BY <1>2, <1>5, <1>6 DEF Root
<1>8. table[way[2]].parent = way[1] /\ table[way[2]].name = Head(names)
  BY <1>2, <1>5, <1>6
<1>9. PICK r \in ToSet(RecordsOf(way[1])) : r.name = Head(names) /\ Extent(r) = Layout[way[2]]
  <2>1. \E r \in ToSet(RecordsOn(Disc, Layout[table[way[2]].parent])) :
          r.dir /\ r.name = table[way[2]].name /\ Extent(r) = Layout[way[2]]
    BY <1>1, <1>7, VolumeKnown DEF IsLaidOut
  <2> QED BY <1>8, <2>1 DEF RecordsOf
<1>10. PICK j \in DOMAIN RecordsOf(way[1]) : RecordsOf(way[1])[j] = r
  BY <1>9 DEF ToSet
<1>11. \A i \in DOMAIN RecordsOf(way[1]) : RecordsOf(way[1])[i].name = RecordsOf(way[1])[j].name => i = j
  BY <1>1, <1>5, VolumeKnown DEF IsLaidOut, RecordsOf
<1>12. PICK w : w = Tail(way)
  OBVIOUS
<1>13. PICK ns : ns = Tail(names)
  OBVIOUS
<1>14. /\ w \in Seq(DOMAIN dirs) /\ Len(w) = Len(way) - 1
       /\ \A i \in 1 .. Len(way) - 1 : w[i] = way[i + 1]
  <2>1. way # <<>>
    BY <1>3, <1>4
  <2> QED BY <1>3, <1>12, <2>1, HeadTailProperties
<1>15. Len(ns) = Len(names) - 1 /\ \A i \in 1 .. Len(names) - 1 : ns[i] = names[i + 1]
  BY <1>13, HeadTailProperties
<1>16. ASSUME NEW i \in 1 .. Len(ns)
       PROVE  w[i + 1] # Root /\ dirs[w[i + 1]].parent = w[i] /\ dirs[w[i + 1]].name = ns[i]
  <2>1. i + 1 \in 1 .. Len(names) /\ i + 1 \in 1 .. Len(way) - 1 /\ i \in 1 .. Len(way) - 1 /\ i \in 1 .. Len(names) - 1
    BY <1>3, <1>4, <1>15
  <2> QED BY <1>3, <1>14, <1>15, <2>1
<1>17. Len(w) = Len(ns) + 1 /\ w[Len(w)] = k /\ w[1] = way[2]
  <2>1. Len(w) \in 1 .. Len(way) - 1 /\ Len(w) + 1 = Len(way) /\ 1 \in 1 .. Len(way) - 1 /\ 1 + 1 = 2
    BY <1>3, <1>4, <1>14
  <2> QED BY <1>3, <1>4, <1>14, <1>15, <2>1
<1>18. IsWay(w, ns, k)
  BY <1>14, <1>16, <1>17 DEF IsWay
<1> QED BY <1>1, <1>5, <1>7, <1>9, <1>10, <1>11, <1>12, <1>13, <1>17, <1>18

\* A search reaches the directory of the next name.
LEMMA DescendStep ==
  ASSUME BootInv, Mount, Descend(Volume)
  PROVE  BootInv'
<1>1. /\ phase = "mount" /\ OnDrive /\ UNCHANGED <<cmdline, ramdisk, answer, reads>> /\ reads' \in 0 .. MaxReads
      /\ mount' \in {"lost", "files"} => UNCHANGED phase
  BY MountPhase
<1>2. mount = "files" /\ search.names # <<>>
  BY DEF Descend
<1> PICK l : l = search.loc
  OBVIOUS
<1> PICK n : n = search.size
  OBVIOUS
<1>3. PICK read \in Reads(Volume, l, n) :
        /\ HasRead(Volume, read)
        /\ LET records == RecordsIn(read.buf)
               r == SelectInSeq(records, LAMBDA x : x.name = Head(search.names))
           IN  IF IsDirectory(read.buf) /\ r # 0
                 THEN /\ search' = Search(search.dir, Tail(search.names), records[r].loc, records[r].size)
                      /\ UNCHANGED <<mount, pvd, dirs, files, fentries, fentriesLoc, fentriesSize>>
                 ELSE Lost
  BY DEF Descend
<1>0. PICK records : records = RecordsIn(read.buf)
  OBVIOUS
<1>00. PICK r : r = SelectInSeq(records, LAMBDA x : x.name = Head(search.names))
  OBVIOUS
<1>4. \/ /\ IsDirectory(read.buf) /\ r # 0
         /\ search' = Search(search.dir, Tail(search.names), records[r].loc, records[r].size)
         /\ UNCHANGED <<mount, pvd, dirs, files, fentries, fentriesLoc, fentriesSize>>
      \/ ~(IsDirectory(read.buf) /\ r # 0) /\ Lost
  BY <1>0, <1>00, <1>3
<1>5. DriveInv /\ TreeInv /\ search \in Searches
  BY DEF BootInv, TreeInv
<1>6. l \in Nat /\ n \in Nat /\ search.names \in Seq(STRING)
  BY <1>5 DEF Searches
<1>7. /\ DriveInv' /\ Volume' = Volume /\ Disc' = Disc /\ (OnDrive' <=> OnDrive)
      /\ errors' = 0 => errors = 0
      /\ DOMAIN read.buf = 1 .. n
      /\ \A s \in 1 .. n : read.buf[s] = Junk \/ (Disc # NoDisc /\ IsSector(read.buf[s]))
      /\ errors' = 0 /\ Disc # NoDisc =>
           \A s \in 1 .. n : l + s - 1 \in DOMAIN Disc /\ read.buf[s] = Disc[l + s - 1]
  BY <1>1, <1>3, <1>5, <1>6, DiscRead
<1>8. ASSUME IsDirectory(read.buf)
      PROVE  records \in Seq(Records)
  <2>1. \A s \in 1 .. n : read.buf[s].kind = "dir" /\ IsSector(read.buf[s])
    BY <1>7, <1>8, JunkIs DEF IsDirectory
  <2> QED BY <1>0, <1>6, <1>7, <2>1, RecordsTyped
<1>9. ASSUME records \in Seq(Records)
      PROVE  /\ r # 0 => r \in DOMAIN records /\ records[r].name = Head(search.names)
             /\ r = 0 => \A i \in DOMAIN records : records[i].name # Head(search.names)
  <2>1. PICK name : name = Head(search.names)
    OBVIOUS
  <2>2. PICK I : I = {i \in 1..Len(records) : records[i].name = name}
    OBVIOUS
  <2>3. r = IF I # {} THEN Min(I) ELSE 0
    BY <1>00, <2>1, <2>2 DEF SelectInSeq
  <2>4. DOMAIN records = 1 .. Len(records) /\ Len(records) \in Nat
    BY <1>9, LenProperties
  <2>5. I \in SUBSET Nat
    BY <2>2, <2>4
  <2>6. (I # {} => r \in I) /\ (I = {} => r = 0)
    BY <2>3, <2>5, FirstNumber
  <2>7. \A i \in I : i \in DOMAIN records /\ i # 0 /\ records[i].name = name
    BY <2>2, <2>4
  <2>8. \A i \in DOMAIN records : records[i].name = name => i \in I
    BY <2>2, <2>4
  <2>9. CASE I = {}
    <3>1. r = 0
      BY <2>6, <2>9
    <3>2. \A i \in DOMAIN records : records[i].name # name
      BY <2>8, <2>9
    <3> QED BY <2>1, <3>1, <3>2
  <2>10. CASE I # {}
    <3>1. r \in DOMAIN records /\ r # 0 /\ records[r].name = name
      BY <2>6, <2>7, <2>10
    <3> QED BY <2>1, <3>1
  <2> QED BY <2>9, <2>10
<1>10. ASSUME errors' = 0
       PROVE  /\ HasVolume /\ pvd = Disc[PvdSector] /\ dirs = Directories(PathTable(Disc))
              /\ OnTheWay
  BY <1>1, <1>2, <1>7, <1>10 DEF BootInv, DiscInv, Mounting
<1>11. ASSUME errors' = 0, NEW way, IsWay(way, search.names, search.dir),
              Layout[way[1]] = [loc |-> search.loc, size |-> search.size]
       PROVE  /\ IsDirectory(read.buf) /\ r # 0
              /\ Extent(records[r]) = Layout[way[2]]
              /\ IsWay(Tail(way), Tail(search.names), search.dir) /\ Tail(way)[1] = way[2]
  <2>1. /\ way[1] \in 1 .. Len(PathTable(Disc))
        /\ \E i \in DOMAIN RecordsOf(way[1]) : RecordsOf(way[1])[i].name = Head(search.names)
        /\ \A i \in DOMAIN RecordsOf(way[1]) :
             RecordsOf(way[1])[i].name = Head(search.names) => Extent(RecordsOf(way[1])[i]) = Layout[way[2]]
        /\ IsWay(Tail(way), Tail(search.names), search.dir) /\ Tail(way)[1] = way[2]
    BY <1>1, <1>2, <1>5, <1>6, <1>10, <1>11, NextOnTheWay
  <2>2. Layout[way[1]].loc = l /\ Layout[way[1]].size = n
    BY <1>11
  <2>3. \A s \in 1 .. n : read.buf[s] = Disc[l + s - 1]
    BY <1>7, <1>10, <1>11 DEF HasVolume
  <2>4. \A s \in 1 .. n : Disc[l + s - 1].kind = "dir"
    BY <1>1, <1>5, <1>10, <1>11, <2>1, <2>2, SectorsOfDirectory
  <2>5. IsDirectory(read.buf)
    BY <1>7, <2>3, <2>4 DEF IsDirectory
  <2>6. records = RecordsOf(way[1])
    BY <1>0, <1>7, <2>2, <2>3, SameRecords
  <2>7. r # 0 /\ r \in DOMAIN records /\ records[r].name = Head(search.names)
    BY <1>8, <1>9, <2>1, <2>5, <2>6
  <2> QED BY <2>1, <2>5, <2>6, <2>7
<1>12. CASE ~(IsDirectory(read.buf) /\ r # 0) /\ Lost
  <2>1. errors' # 0
    <3>1. SUFFICES ASSUME errors' = 0 PROVE FALSE
      OBVIOUS
    <3>2. PICK way : /\ IsWay(way, search.names, search.dir)
                     /\ Layout[way[1]] = [loc |-> search.loc, size |-> search.size]
      BY <1>10, <3>1 DEF OnTheWay
    <3> QED BY <1>11, <1>12, <3>1, <3>2
  <2>2. errors' > 0
    BY <1>7, <2>1, AtapiAssumption DEF DriveInv
  <2>3. UNCHANGED phase
    BY <1>1, <1>12 DEF Lost
  <2> QED BY <1>1, <1>2, <1>7, <1>12, <2>2, <2>3, LostStep
<1>13. CASE /\ IsDirectory(read.buf) /\ r # 0
            /\ search' = Search(search.dir, Tail(search.names), records[r].loc, records[r].size)
            /\ UNCHANGED <<mount, pvd, dirs, files, fentries, fentriesLoc, fentriesSize>>
  <2>1. PhaseInv'
    BY <1>1, <1>2, <1>7, <1>13, PhaseMounts
  <2>2. records[r] \in Records
    BY <1>8, <1>9, <1>13, LenProperties
  <2>3. search' = [dir |-> search.dir, names |-> Tail(search.names), loc |-> records[r].loc, size |-> records[r].size]
    BY <1>13 DEF Search
  <2>4. search' \in Searches
    <3>1. Tail(search.names) \in Seq(STRING)
      BY <1>2, <1>6, HeadTailProperties
    <3> QED BY <1>5, <2>2, <2>3, <3>1 DEF Searches, Records
  <2>5. TreeInv'
    <3>1. search'.dir = search.dir
      BY <2>3
    <3> QED BY <1>5, <1>13, <2>4, <3>1 DEF TreeInv, IsTree
  <2>6. LostForCause'
    BY <1>2, <1>13 DEF LostForCause
  <2>7. DiscInv'
    <3>1. SUFFICES ASSUME errors' = 0 PROVE DiscInv'
      BY DEF DiscInv, Mounting
    <3>2. PICK m : m = search.dir - 1
      OBVIOUS
    <3>3. m = search'.dir - 1
      BY <2>3, <3>2
    <3>4. /\ HasVolume /\ pvd = Disc[PvdSector] /\ dirs = Directories(PathTable(Disc))
          /\ TableSound(EntryTable) /\ HasFiles(EntryTable, FilesUpTo(m)) /\ OnTheWay
      BY <1>1, <1>2, <1>7, <3>1, <3>2 DEF BootInv, DiscInv, Mounting
    <3>5. EntryTable' = EntryTable
      BY <1>13 DEF EntryTable
    <3>6. (HasVolume' <=> HasVolume) /\ FilesUpTo(m)' = FilesUpTo(m) /\ Layout' = Layout
      BY <1>7, SameFiles
    <3>7. (FilesUpTo(IF mount = "mounted" THEN Len(dirs) ELSE search.dir - 1))' = FilesUpTo(m)
      BY <1>2, <1>13, <3>3, <3>6, Zenon DEF FilesUpTo
    <3>8. OnTheWay'
      <4>1. PICK way : /\ IsWay(way, search.names, search.dir)
                       /\ Layout[way[1]] = [loc |-> search.loc, size |-> search.size]
        BY <3>4 DEF OnTheWay
      <4>2. PICK w : w = Tail(way)
        OBVIOUS
      <4>3. IsWay(w, Tail(search.names), search.dir) /\ Layout[w[1]] = Extent(records[r])
        BY <1>11, <3>1, <4>1, <4>2
      <4>4. IsWay(w, search.names, search.dir)'
        <5>1. PICK ns : ns = Tail(search.names)
          OBVIOUS
        <5>2. search'.names = ns /\ search'.dir = search.dir
          BY <2>3, <5>1
        <5>3. IsWay(w, ns, search.dir)
          BY <4>3, <5>1
        <5> QED BY <1>13, <5>2, <5>3 DEF IsWay
      <4>5. Layout'[w[1]] = [loc |-> search'.loc, size |-> search'.size]
        BY <2>3, <3>6, <4>3 DEF Extent
      <4> QED BY <4>4, <4>5 DEF OnTheWay
    <3> QED BY <1>2, <1>7, <1>13, <3>4, <3>5, <3>6, <3>7, <3>8, Zenon DEF DiscInv
  <2> QED BY <1>7, <2>1, <2>5, <2>6, <2>7 DEF BootInv
<1> QED BY <1>4, <1>12, <1>13

-----------------------------------------------------------------------------
(* The loop of append_files.                                                *)

\* The tables after the first records.
TableAt(t, records, n) ==
  IF n = 0 THEN EntryTable
  ELSE IF records[n].dir THEN t[n - 1]
  ELSE WithFile(t[n - 1], records[n])
AreTablesUpTo(t, records, m) == t = [n \in 0 .. m |-> TableAt(t, records, n)]
AreTables(t, records) ==
  t = [n \in 0..Len(records) |-> IF n = 0 THEN EntryTable
                                 ELSE IF records[n].dir THEN t[n - 1]
                                 ELSE WithFile(t[n - 1], records[n])]

LEMMA TablesExist ==
  ASSUME NEW records, Len(records) \in Nat
  PROVE  \E t : AreTables(t, records)
<1> DEFINE T == {m \in Nat : \E t : AreTablesUpTo(t, records, m)}
<1>1. 0 \in T
  <2>1. PICK t : t = [n \in 0 .. 0 |-> EntryTable]
    OBVIOUS
  <2>2. \A n \in 0 .. 0 : n = 0
    OBVIOUS
  <2>3. AreTablesUpTo(t, records, 0)
    BY <2>1, <2>2 DEF AreTablesUpTo, TableAt
  <2> QED BY <2>3
<1>2. ASSUME NEW m \in Nat, m \in T PROVE m + 1 \in T
  <2>1. PICK t : t = [n \in 0 .. m |-> TableAt(t, records, n)]
    BY <1>2 DEF AreTablesUpTo
  <2>2. PICK x : x = TableAt(t, records, m + 1)
    OBVIOUS
  <2>3. PICK g : g = [n \in 0 .. m + 1 |-> IF n = m + 1 THEN x ELSE t[n]]
    OBVIOUS
  <2>4. \A n \in 0 .. m : n \in 0 .. m + 1 /\ n # m + 1 /\ g[n] = t[n]
    BY <2>3
  <2>5. ASSUME NEW n \in 0 .. m + 1 PROVE TableAt(g, records, n) = TableAt(t, records, n)
    <3>1. CASE n = 0
      BY <3>1 DEF TableAt
    <3>2. CASE n # 0
      <4>1. n - 1 \in 0 .. m
        BY <3>2
      <4>2. g[n - 1] = t[n - 1]
        BY <2>4, <4>1
      <4> QED BY <4>2 DEF TableAt
    <3> QED BY <3>1, <3>2
  <2>6. ASSUME NEW n \in 0 .. m + 1 PROVE g[n] = TableAt(g, records, n)
    <3>1. CASE n = m + 1
      BY <2>2, <2>3, <2>5, <3>1
    <3>2. CASE n # m + 1
      <4>1. n \in 0 .. m
        BY <3>2
      <4>2. t[n] = TableAt(t, records, n)
        BY <2>1, <4>1
      <4> QED BY <2>4, <2>5, <4>1, <4>2
    <3> QED BY <3>1, <3>2
  <2>7. AreTablesUpTo(g, records, m + 1)
    BY <2>3, <2>6 DEF AreTablesUpTo
  <2> QED BY <2>7
<1>3. Len(records) \in T
  <2> HIDE DEF T
  <2> QED BY <1>1, <1>2, AllNumbers
<1>4. PICK t : AreTablesUpTo(t, records, Len(records))
  BY <1>3
<1> QED BY <1>4, Zenon DEF AreTablesUpTo, AreTables, TableAt

TableTyped(t) ==
  /\ t.files \in Seq(Files) /\ t.loc \in Nat /\ t.size \in Nat
  /\ \A f \in DOMAIN t.files : t.files[f].parent \in DOMAIN dirs

\* What a record adds.
LEMMA WithFileIs ==
  ASSUME NEW t, TableTyped(t), NEW r \in Records, search.dir \in DOMAIN dirs, search.dir \in Nat,
         NEW u, u = WithFile(t, r)
  PROVE  /\ TableTyped(u)
         /\ Len(t.files) \in Nat /\ Len(u.files) = Len(t.files) + 1 /\ u.loc = t.loc + 1
         /\ u.size = SizeAfter(t.loc, t.size)
         /\ ~t.overrun /\ ~(t.loc >= u.size) => ~u.overrun
         /\ u.files[Len(t.files) + 1] = [name |-> r.name, parent |-> search.dir, size |-> r.size, id |-> t.loc]
         /\ \A i \in 1 .. Len(t.files) : u.files[i] = t.files[i]
         /\ DOMAIN u.fentries = DOMAIN t.fentries \cup {t.loc}
         /\ u.fentries[t.loc] = r.loc
         /\ \A id \in DOMAIN t.fentries : id # t.loc => u.fentries[id] = t.fentries[id]
<1>1. PICK file : file = [name |-> r.name, parent |-> search.dir, size |-> r.size, id |-> t.loc]
  OBVIOUS
<1>2. PICK size : size = SizeAfter(t.loc, t.size)
  OBVIOUS
<1>14. PICK over : over = (t.overrun \/ t.loc >= size)
  OBVIOUS
<1>3. u = [files |-> Append(t.files, file),
           fentries |-> [id \in DOMAIN t.fentries \cup {t.loc} |->
                           IF id = t.loc THEN r.loc ELSE t.fentries[id]],
           loc |-> t.loc + 1, size |-> size, overrun |-> over]
  BY <1>1, <1>2, <1>14, Zenon DEF WithFile
<1>4. /\ u.files = Append(t.files, file) /\ u.loc = t.loc + 1 /\ u.size = size
      /\ u.fentries = [id \in DOMAIN t.fentries \cup {t.loc} |-> IF id = t.loc THEN r.loc ELSE t.fentries[id]]
  BY <1>3
<1>11. ASSUME ~t.overrun, ~(t.loc >= u.size)
       PROVE  ~u.overrun
  <2>1. over = FALSE
    BY <1>4, <1>11, <1>14
  <2>2. u.overrun = FALSE
    BY <1>3, <2>1
  <2> QED BY <2>2
<1>5. file \in Files
  BY <1>1 DEF Files, Records, TableTyped
<1>6. /\ u.files \in Seq(Files) /\ Len(t.files) \in Nat /\ Len(u.files) = Len(t.files) + 1
      /\ u.files[Len(t.files) + 1] = file
      /\ \A i \in 1 .. Len(t.files) : u.files[i] = t.files[i]
  BY <1>4, <1>5, ItemAdded DEF TableTyped
<1>7. size \in Nat
  BY <1>2, IsoAssumption DEF SizeAfter, TableTyped
<1>8. \A f \in DOMAIN u.files : u.files[f].parent \in DOMAIN dirs
  <2>1. DOMAIN u.files = 1 .. Len(t.files) + 1 /\ DOMAIN t.files = 1 .. Len(t.files)
    BY <1>6, LenProperties DEF TableTyped
  <2>2. ASSUME NEW f \in DOMAIN u.files PROVE u.files[f].parent \in DOMAIN dirs
    <3>1. CASE f = Len(t.files) + 1
      BY <1>1, <1>6, <3>1
    <3>2. CASE f # Len(t.files) + 1
      <4>1. f \in 1 .. Len(t.files)
        BY <1>6, <2>1, <3>2
      <4> QED BY <1>6, <2>1, <4>1 DEF TableTyped
    <3> QED BY <3>1, <3>2
  <2> QED BY <2>2
<1>9. TableTyped(u)
  BY <1>4, <1>6, <1>7, <1>8 DEF TableTyped
<1>10. /\ DOMAIN u.fentries = DOMAIN t.fentries \cup {t.loc}
       /\ u.fentries[t.loc] = r.loc
       /\ \A id \in DOMAIN t.fentries : id # t.loc => u.fentries[id] = t.fentries[id]
  BY <1>4
<1>12. ~t.overrun /\ ~(t.loc >= u.size) => ~u.overrun
  BY <1>11
<1>13. u.size = SizeAfter(t.loc, t.size)
  BY <1>2, <1>4
<1> QED BY <1>1, <1>4, <1>6, <1>9, <1>10, <1>12, <1>13

\* The table grows in time.
LEMMA WithFileSound ==
  ASSUME NEW t, TableTyped(t), NEW r \in Records, search.dir \in DOMAIN dirs, search.dir \in Nat,
         NEW u, u = WithFile(t, r)
  PROVE  /\ u.loc - Len(u.files) = t.loc - Len(t.files)
         /\ TableSound(t) => TableSound(u)
<1>1. /\ t.loc \in Nat /\ t.size \in Nat /\ Len(t.files) \in Nat /\ TableStep \in Nat \ {0}
      /\ t.files = <<>> => Len(t.files) = 0
  BY WithFileIs, IsoAssumption DEF TableTyped
<1>2. Len(u.files) = Len(t.files) + 1 /\ u.loc = t.loc + 1 /\ u.size = SizeAfter(t.loc, t.size)
  <2>1. Len(u.files) = Len(t.files) + 1
    BY WithFileIs, Zenon
  <2>2. u.loc = t.loc + 1
    BY DEF WithFile
  <2>3. u.size = SizeAfter(t.loc, t.size)
    BY WithFileIs, Zenon
  <2> QED BY <2>1, <2>2, <2>3
<1>5. ~t.overrun /\ ~(t.loc >= u.size) => ~u.overrun
  BY WithFileIs, Zenon
<1>3. u.loc - Len(u.files) = t.loc - Len(t.files)
  BY <1>1, <1>2
<1>4. ASSUME TableSound(t), u.loc - Len(u.files) < 2 * TableStep
      PROVE  ~u.overrun /\ u.files # <<>> /\ u.loc <= u.size
  <2>1. ~t.overrun /\ IF t.files = <<>> THEN t.size = TableStep ELSE t.loc <= t.size
    BY <1>3, <1>4 DEF TableSound
  <2>2. u.size = IF t.size <= t.loc THEN t.size + TableStep ELSE t.size
    BY <1>2 DEF SizeAfter
  <2>3. t.loc < u.size /\ u.size \in Nat
    <3>1. CASE t.files = <<>>
      <4>1. t.loc < 2 * TableStep /\ t.size = TableStep
        BY <1>1, <1>3, <1>4, <2>1, <3>1
      <4> QED BY <1>1, <2>2, <4>1
    <3>2. CASE t.files # <<>>
      BY <1>1, <2>1, <2>2, <3>2
    <3> QED BY <3>1, <3>2
  <2>4. u.loc <= u.size /\ ~(t.loc >= u.size)
    BY <1>1, <1>2, <2>3
  <2>5. u.files # <<>>
    BY <1>1, <1>2
  <2> QED BY <1>5, <2>1, <2>4, <2>5
<1> QED BY <1>3, <1>4 DEF TableSound

\* The table has one file more.
LEMMA WithFileHas ==
  ASSUME NEW t, TableTyped(t), NEW r \in Records, search.dir \in DOMAIN dirs, search.dir \in Nat,
         NEW u, u = WithFile(t, r),
         NEW P, HasFiles(t, P), \A p \in P : p[1] # search.dir \/ p[2].name # r.name
  PROVE  HasFiles(u, P \cup {<<search.dir, r>>})
<1>1. PICK n : n = Len(t.files)
  OBVIOUS
<1>2. PICK file : file = [name |-> r.name, parent |-> search.dir, size |-> r.size, id |-> t.loc]
  OBVIOUS
<1>3. /\ TableTyped(u) /\ n \in Nat /\ Len(u.files) = n + 1 /\ u.loc = t.loc + 1
      /\ u.files[n + 1] = file
      /\ \A i \in 1 .. n : u.files[i] = t.files[i]
      /\ DOMAIN u.fentries = DOMAIN t.fentries \cup {t.loc}
      /\ u.fentries[t.loc] = r.loc
      /\ \A id \in DOMAIN t.fentries : id # t.loc => u.fentries[id] = t.fentries[id]
  BY <1>1, <1>2, WithFileIs
<1>4. /\ DOMAIN t.files = 1 .. n /\ DOMAIN u.files = 1 .. n + 1 /\ t.loc \in Nat
  BY <1>1, <1>3, LenProperties DEF TableTyped
<1>5. \A f \in 1 .. n : t.files[f].id = (t.loc - n) + (f - 1) /\ t.files[f].id \in DOMAIN t.fentries
  BY <1>1, <1>4 DEF HasFiles
<1>6. ASSUME NEW f \in 1 .. n
      PROVE  /\ t.files[f].id # t.loc
             /\ u.fentries[u.files[f].id] = t.fentries[t.files[f].id]
  <2>1. t.files[f].id # t.loc
    BY <1>3, <1>4, <1>5
  <2> QED BY <1>3, <1>5, <2>1
<1>7. \A f \in 1 .. n : \A p : IsFile(u, f, p) <=> IsFile(t, f, p)
  BY <1>3, <1>6 DEF IsFile
<1>8. PICK q : q = <<search.dir, r>>
  OBVIOUS
<1>9. q[1] = search.dir /\ q[2] = r
  BY <1>8
<1>10. IsFile(u, n + 1, q)
  BY <1>2, <1>3, <1>9 DEF IsFile
<1>11. \A f \in 1 .. n + 1 : f \in 1 .. n \/ f = n + 1
  BY <1>3
<1>12. n + 1 \in 1 .. n + 1 /\ \A f \in 1 .. n : f \in 1 .. n + 1
  BY <1>3
<1>13. /\ \A f \in 1 .. n : \E p \in P : IsFile(t, f, p)
       /\ \A p \in P : \E f \in 1 .. n : IsFile(t, f, p)
       /\ \A f, g \in 1 .. n :
            t.files[f].parent = t.files[g].parent /\ t.files[f].name = t.files[g].name => f = g
  BY <1>4 DEF HasFiles
<1>14. \A f \in 1 .. n + 1 : \E p \in P \cup {q} : IsFile(u, f, p)
  BY <1>7, <1>10, <1>11, <1>13
<1>15. \A p \in P \cup {q} : \E f \in 1 .. n + 1 : IsFile(u, f, p)
  BY <1>7, <1>10, <1>12, <1>13
<1>16. \A f \in 1 .. n : ~(t.files[f].parent = search.dir /\ t.files[f].name = r.name)
  BY <1>13 DEF IsFile
<1>17. ASSUME NEW f \in 1 .. n + 1, NEW g \in 1 .. n + 1,
              u.files[f].parent = u.files[g].parent, u.files[f].name = u.files[g].name
       PROVE  f = g
  <2>1. file.parent = search.dir /\ file.name = r.name
    BY <1>2
  <2>2. CASE f \in 1 .. n /\ g \in 1 .. n
    BY <1>3, <1>13, <1>17, <2>2
  <2>3. CASE f \in 1 .. n /\ g = n + 1
    BY <1>3, <1>16, <1>17, <2>1, <2>3
  <2>4. CASE f = n + 1 /\ g \in 1 .. n
    BY <1>3, <1>16, <1>17, <2>1, <2>4
  <2> QED BY <1>11, <2>2, <2>3, <2>4
<1>18. ASSUME NEW f \in 1 .. n + 1
       PROVE  u.files[f].id = (u.loc - (n + 1)) + (f - 1) /\ u.files[f].id \in DOMAIN u.fentries
  <2>1. CASE f = n + 1
    <3>1. u.files[f].id = t.loc /\ t.loc \in DOMAIN u.fentries
      BY <1>2, <1>3, <2>1
    <3>2. t.loc = ((t.loc + 1) - (n + 1)) + (f - 1)
      BY <1>3, <1>4, <2>1
    <3> QED BY <1>3, <3>1, <3>2
  <2>2. CASE f \in 1 .. n
    <3>1. u.files[f].id = (t.loc - n) + (f - 1) /\ u.files[f].id \in DOMAIN u.fentries
      BY <1>3, <1>5, <2>2
    <3>2. (t.loc - n) + (f - 1) = ((t.loc + 1) - (n + 1)) + (f - 1)
      BY <1>3, <1>4, <2>2
    <3> QED BY <1>3, <3>1, <3>2
  <2> QED BY <1>11, <2>1, <2>2
<1>19. HasFiles(u, P \cup {q})
  BY <1>3, <1>4, <1>14, <1>15, <1>17, <1>18 DEF HasFiles
<1> QED BY <1>8, <1>19

\* Each table of the loop is one, and grows in time.
LEMMA TablesTyped ==
  ASSUME NEW records \in Seq(Records), NEW t, AreTables(t, records),
         TableTyped(EntryTable), search.dir \in DOMAIN dirs, search.dir \in Nat,
         NEW n \in 0 .. Len(records)
  PROVE  /\ TableTyped(t[n])
         /\ t[n].loc - Len(t[n].files) = fentriesLoc - Len(files)
         /\ TableSound(EntryTable) => TableSound(t[n])
<1>1. Len(records) \in Nat /\ DOMAIN records = 1 .. Len(records)
  BY LenProperties
<1>2. \A i \in 0 .. Len(records) : t[i] = TableAt(t, records, i)
  <2>1. t = [i \in 0 .. Len(records) |-> TableAt(t, records, i)]
    BY Zenon DEF AreTables, TableAt
  <2> QED BY <2>1
<1> DEFINE T == {m \in Nat : m <= Len(records) =>
                   /\ TableTyped(t[m])
                   /\ t[m].loc - Len(t[m].files) = fentriesLoc - Len(files)
                   /\ TableSound(EntryTable) => TableSound(t[m])}
<1>3. 0 \in T
  <2>1. t[0] = EntryTable
    BY <1>1, <1>2 DEF TableAt
  <2>2. EntryTable.loc = fentriesLoc /\ EntryTable.files = files
    BY DEF EntryTable
  <2> QED BY <2>1, <2>2
<1>4. ASSUME NEW m \in Nat, m \in T PROVE m + 1 \in T
  <2>1. SUFFICES ASSUME m + 1 <= Len(records)
                 PROVE  /\ TableTyped(t[m + 1])
                        /\ t[m + 1].loc - Len(t[m + 1].files) = fentriesLoc - Len(files)
                        /\ TableSound(EntryTable) => TableSound(t[m + 1])
    OBVIOUS
  <2>2. /\ m <= Len(records) /\ m + 1 \in 1 .. Len(records) /\ m + 1 \in 0 .. Len(records)
        /\ m + 1 # 0 /\ (m + 1) - 1 = m
    BY <1>1, <2>1
  <2>3. /\ TableTyped(t[m])
        /\ t[m].loc - Len(t[m].files) = fentriesLoc - Len(files)
        /\ TableSound(EntryTable) => TableSound(t[m])
    BY <1>4, <2>2
  <2>4. t[m + 1] = IF records[m + 1].dir THEN t[m] ELSE WithFile(t[m], records[m + 1])
    BY <1>2, <2>2 DEF TableAt
  <2>5. CASE t[m + 1] = t[m]
    BY <2>3, <2>5
  <2>6. CASE t[m + 1] = WithFile(t[m], records[m + 1])
    <3>1. PICK u : u = t[m + 1]
      OBVIOUS
    <3>2. PICK v : v = t[m]
      OBVIOUS
    <3>3. PICK r : r = records[m + 1]
      OBVIOUS
    <3>4. r \in Records /\ u = WithFile(v, r) /\ TableTyped(v)
      BY <1>1, <2>2, <2>3, <2>6, <3>1, <3>2, <3>3
    <3>5. TableTyped(u)
      BY <3>4, WithFileIs
    <3>6. u.loc - Len(u.files) = v.loc - Len(v.files) /\ (TableSound(v) => TableSound(u))
      BY <3>4, WithFileSound
    <3> QED BY <2>3, <3>1, <3>2, <3>5, <3>6
  <2> QED BY <2>4, <2>5, <2>6
<1>5. n \in T
  <2> HIDE DEF T
  <2> QED BY <1>1, <1>3, <1>4, AllNumbers
<1> QED BY <1>1, <1>5

\* The files among the first records.
Added(records, n) == {<<search.dir, records[i]>> : i \in {j \in 1 .. n : ~records[j].dir}}

LEMMA TablesHave ==
  ASSUME NEW records \in Seq(Records), NEW t, AreTables(t, records),
         TableTyped(EntryTable), search.dir \in DOMAIN dirs, search.dir \in Nat,
         HasFiles(EntryTable, FilesUpTo(search.dir - 1)),
         \A i, j \in DOMAIN records : records[i].name = records[j].name => i = j,
         NEW n \in 0 .. Len(records)
  PROVE  HasFiles(t[n], FilesUpTo(search.dir - 1) \cup Added(records, n))
<1>1. Len(records) \in Nat /\ DOMAIN records = 1 .. Len(records)
  BY LenProperties
<1>2. \A i \in 0 .. Len(records) : t[i] = TableAt(t, records, i)
  <2>1. t = [i \in 0 .. Len(records) |-> TableAt(t, records, i)]
    BY Zenon DEF AreTables, TableAt
  <2> QED BY <2>1
<1>3. PICK before : before = FilesUpTo(search.dir - 1)
  OBVIOUS
<1>4. \A p \in before : p[1] # search.dir
  BY <1>3 DEF FilesUpTo
<1> DEFINE T == {m \in Nat : m <= Len(records) => HasFiles(t[m], before \cup Added(records, m))}
<1>5. 0 \in T
  <2>1. t[0] = EntryTable
    BY <1>1, <1>2 DEF TableAt
  <2>2. Added(records, 0) = {}
    BY DEF Added
  <2>3. before \cup Added(records, 0) = before
    BY <2>2
  <2> QED BY <1>3, <2>1, <2>3
<1>6. ASSUME NEW m \in Nat, m \in T PROVE m + 1 \in T
  <2>1. SUFFICES ASSUME m + 1 <= Len(records)
                 PROVE  HasFiles(t[m + 1], before \cup Added(records, m + 1))
    OBVIOUS
  <2>2. /\ m <= Len(records) /\ m + 1 \in 1 .. Len(records) /\ m + 1 \in 0 .. Len(records)
        /\ m \in 0 .. Len(records)
        /\ m + 1 # 0 /\ (m + 1) - 1 = m
    BY <1>1, <2>1
  <2>3. HasFiles(t[m], before \cup Added(records, m))
    BY <1>6, <2>2
  <2>4. t[m + 1] = IF records[m + 1].dir THEN t[m] ELSE WithFile(t[m], records[m + 1])
    BY <1>2, <2>2 DEF TableAt
  <2>5. \A j : j \in 1 .. m + 1 <=> j \in 1 .. m \/ j = m + 1
    OBVIOUS
  <2>6. CASE records[m + 1].dir
    <3>1. {j \in 1 .. m + 1 : ~records[j].dir} = {j \in 1 .. m : ~records[j].dir}
      BY <2>5, <2>6
    <3>2. Added(records, m + 1) = Added(records, m)
      BY <3>1 DEF Added
    <3> QED BY <2>3, <2>4, <2>6, <3>2
  <2>7. CASE ~records[m + 1].dir
    <3>1. PICK u : u = t[m + 1]
      OBVIOUS
    <3>2. PICK v : v = t[m]
      OBVIOUS
    <3>3. PICK r : r = records[m + 1]
      OBVIOUS
    <3>4. PICK P : P = before \cup Added(records, m)
      OBVIOUS
    <3>5. r \in Records /\ u = WithFile(v, r)
      BY <1>1, <2>2, <2>4, <2>7, <3>1, <3>2, <3>3
    <3>6. TableTyped(v)
      BY <2>2, <3>2, TablesTyped
    <3>7. ASSUME NEW p \in P PROVE p[1] # search.dir \/ p[2].name # r.name
      <4>1. CASE p \in before
        BY <1>4, <4>1
      <4>2. CASE p \in Added(records, m)
        <5>1. PICK i \in 1 .. m : p = <<search.dir, records[i]>>
          BY <4>2 DEF Added
        <5>2. i \in DOMAIN records /\ m + 1 \in DOMAIN records /\ i # m + 1
          BY <1>1, <2>2
        <5>3. p[2] = records[i]
          BY <5>1
        <5> QED BY <3>3, <5>2, <5>3
      <4> QED BY <3>4, <3>7, <4>1, <4>2
    <3>8. HasFiles(v, P)
      BY <2>3, <3>2, <3>4
    <3>9. HasFiles(u, P \cup {<<search.dir, r>>})
      BY <3>5, <3>6, <3>7, <3>8, WithFileHas
    <3>10. Added(records, m + 1) = Added(records, m) \cup {<<search.dir, r>>}
      <4>1. ASSUME NEW p
            PROVE  p \in Added(records, m + 1) <=> p \in Added(records, m) \/ p = <<search.dir, r>>
        <5>1. p \in Added(records, m + 1) <=>
                \E j \in 1 .. m + 1 : ~records[j].dir /\ p = <<search.dir, records[j]>>
          BY DEF Added
        <5>2. p \in Added(records, m) <=>
                \E j \in 1 .. m : ~records[j].dir /\ p = <<search.dir, records[j]>>
          BY DEF Added
        <5> QED BY <2>5, <2>7, <3>3, <5>1, <5>2, Zenon
      <4> QED BY <4>1
    <3>11. before \cup Added(records, m + 1) = P \cup {<<search.dir, r>>}
      BY <3>4, <3>10
    <3> QED BY <3>1, <3>9, <3>11
  <2> QED BY <2>6, <2>7
<1>7. n \in T
  <2> HIDE DEF T
  <2> QED BY <1>1, <1>5, <1>6, AllNumbers
<1> QED BY <1>1, <1>3, <1>7

\* All records of the directory.
LEMMA AllAdded ==
  ASSUME search.dir \in Nat \ {0}, NEW records, records = RecordsOf(search.dir), records \in Seq(Records)
  PROVE  FilesUpTo(search.dir - 1) \cup Added(records, Len(records)) = FilesUpTo(search.dir)
<1>1. DOMAIN records = 1 .. Len(records) /\ Len(records) \in Nat
  BY LenProperties
<1> PICK k : k = search.dir
  OBVIOUS
<1>2. \A p : p \in FilesUpTo(k - 1) <=> p \in (1 .. k - 1) \X Records /\ p[2] \in FilesOf(p[1])
  BY DEF FilesUpTo
<1>3. \A p : p \in FilesUpTo(k) <=> p \in (1 .. k) \X Records /\ p[2] \in FilesOf(p[1])
  BY DEF FilesUpTo
<1>4. \A p : p \in (1 .. k) \X Records <=>
               p \in (1 .. k - 1) \X Records \/ (p \in {k} \X Records)
  BY <1>1
<1>5. ASSUME NEW p \in {k} \X Records
      PROVE  p[2] \in FilesOf(p[1]) <=> p \in Added(records, Len(records))
  <2>1. p[1] = k /\ p = <<k, p[2]>>
    OBVIOUS
  <2>2. p[2] \in FilesOf(k) <=> \E j \in 1 .. Len(records) : ~records[j].dir /\ p[2] = records[j]
    <3>1. p[2] \in ToSet(records) <=> \E j \in 1 .. Len(records) : p[2] = records[j]
      BY <1>1 DEF ToSet
    <3> QED BY <3>1 DEF FilesOf
  <2>3. p \in Added(records, Len(records)) <=>
          \E j \in 1 .. Len(records) : ~records[j].dir /\ p = <<k, records[j]>>
    BY DEF Added
  <2>4. \A j : p = <<k, records[j]>> <=> p[2] = records[j]
    BY <2>1
  <2> QED BY <2>1, <2>2, <2>3, <2>4
<1>6. \A p \in Added(records, Len(records)) : p \in {k} \X Records
  BY <1>1 DEF Added
<1>7. ASSUME NEW p
      PROVE  p \in FilesUpTo(k) <=> p \in FilesUpTo(k - 1) \/ p \in Added(records, Len(records))
  <2>1. p \in {k} \X Records => ~(p \in (1 .. k - 1) \X Records)
    OBVIOUS
  <2> QED BY <1>2, <1>3, <1>4, <1>5, <1>6, <2>1
<1> QED BY <1>7

\* The files of a directory are in the tree, and the next one is searched for.
LEMMA AppendFilesStep ==
  ASSUME BootInv, Mount, AppendFiles(Volume)
  PROVE  BootInv'
<1>1. /\ phase = "mount" /\ OnDrive /\ UNCHANGED <<cmdline, ramdisk, answer, reads>> /\ reads' \in 0 .. MaxReads
      /\ mount' \in {"lost", "files"} => UNCHANGED phase
  BY MountPhase
<1>2. mount = "files" /\ search.names = <<>>
  BY DEF AppendFiles
<1> PICK l : l = search.loc
  OBVIOUS
<1> PICK n : n = search.size
  OBVIOUS
<1> PICK dir : dir = search.dir
  OBVIOUS
<1>3. PICK read \in Reads(Volume, l, n) :
        /\ HasRead(Volume, read)
        /\ LET records == RecordsIn(read.buf)
               table == CHOOSE x : AreTables(x, records)
               end == table[Len(records)]
           IN  IF IsDirectory(read.buf) /\ ~end.overrun
                 THEN /\ files' = end.files
                      /\ fentries' = end.fentries
                      /\ fentriesLoc' = end.loc
                      /\ fentriesSize' = end.size
                      /\ IF dir = Len(dirs)
                           THEN mount' = "mounted" /\ search' = NoSearch
                           ELSE UNCHANGED mount /\ search' = StartSearch(dir + 1)
                      /\ UNCHANGED <<pvd, dirs>>
                 ELSE Lost
  BY Zenon DEF AppendFiles, AreTables
<1>4. PICK records : records = RecordsIn(read.buf)
  OBVIOUS
<1>5. PICK t : t = CHOOSE x : AreTables(x, records)
  OBVIOUS
<1>6. PICK end : end = t[Len(records)]
  OBVIOUS
<1>7. \/ /\ IsDirectory(read.buf) /\ ~end.overrun
         /\ files' = end.files /\ fentries' = end.fentries
         /\ fentriesLoc' = end.loc /\ fentriesSize' = end.size
         /\ \/ dir = Len(dirs) /\ mount' = "mounted" /\ search' = NoSearch
            \/ dir # Len(dirs) /\ UNCHANGED mount /\ search' = StartSearch(dir + 1)
         /\ UNCHANGED <<pvd, dirs>>
      \/ ~(IsDirectory(read.buf) /\ ~end.overrun) /\ Lost
  BY <1>3, <1>4, <1>5, <1>6, Zenon
<1>8. DriveInv /\ TreeInv /\ search \in Searches /\ dir \in DOMAIN dirs /\ dirs \in Seq(Entries)
  BY <1>2 DEF BootInv, TreeInv
<1>9. /\ l \in Nat /\ n \in Nat /\ dir \in Nat
      /\ DOMAIN dirs = 1 .. Len(dirs) /\ Len(dirs) \in Nat /\ dir # 0
  BY <1>8, LenProperties DEF Searches
<1>10. /\ DriveInv' /\ Volume' = Volume /\ Disc' = Disc /\ (OnDrive' <=> OnDrive)
       /\ errors' = 0 => errors = 0
       /\ DOMAIN read.buf = 1 .. n
       /\ \A s \in 1 .. n : read.buf[s] = Junk \/ (Disc # NoDisc /\ IsSector(read.buf[s]))
       /\ errors' = 0 /\ Disc # NoDisc =>
            \A s \in 1 .. n : l + s - 1 \in DOMAIN Disc /\ read.buf[s] = Disc[l + s - 1]
  BY <1>1, <1>3, <1>8, <1>9, DiscRead
<1>11. TableTyped(EntryTable)
  BY <1>8 DEF TableTyped, EntryTable, TreeInv
<1>12. ASSUME IsDirectory(read.buf)
       PROVE  /\ records \in Seq(Records) /\ Len(records) \in Nat /\ AreTables(t, records)
              /\ TableTyped(end) /\ end.loc - Len(end.files) = fentriesLoc - Len(files)
              /\ TableSound(EntryTable) => TableSound(end)
  <2>1. \A s \in 1 .. n : read.buf[s].kind = "dir" /\ IsSector(read.buf[s])
    BY <1>10, <1>12, JunkIs DEF IsDirectory
  <2>2. records \in Seq(Records) /\ Len(records) \in Nat
    BY <1>4, <1>9, <1>10, <2>1, RecordsTyped, LenProperties
  <2>3. AreTables(t, records)
    BY <1>5, <2>2, TablesExist
  <2>4. Len(records) \in 0 .. Len(records)
    BY <2>2
  <2> QED BY <1>6, <1>8, <1>9, <1>11, <2>2, <2>3, <2>4, TablesTyped
<1>13. ASSUME errors' = 0
       PROVE  /\ HasVolume /\ pvd = Disc[PvdSector] /\ dirs = Directories(PathTable(Disc))
              /\ TableSound(EntryTable) /\ HasFiles(EntryTable, FilesUpTo(dir - 1))
              /\ OnTheWay
  BY <1>1, <1>2, <1>10, <1>13 DEF BootInv, DiscInv, Mounting
<1>14. ASSUME errors' = 0
       PROVE  IsDirectory(read.buf) /\ records = RecordsOf(dir) /\ dir \in 1 .. Len(PathTable(Disc))
  <2>1. Len(PathTable(Disc)) = Len(dirs)
    <3>1. PathTable(Disc) = Disc[Disc[PvdSector].table.loc].entries
      BY DEF PathTable
    <3> QED BY <1>1, <1>8, <1>13, <1>14, <3>1, VolumeKnown, TableIsTree
  <2>2. dir \in 1 .. Len(PathTable(Disc))
    BY <1>8, <1>9, <2>1
  <2>3. Layout[dir].loc = l /\ Layout[dir].size = n
    <3>1. PICK way : IsWay(way, search.names, dir) /\ Layout[way[1]] = [loc |-> search.loc, size |-> search.size]
      BY <1>13, <1>14 DEF OnTheWay
    <3>2. Len(<<>>) = 0 /\ 0 + 1 = 1
      OBVIOUS
    <3>3. way[1] = dir
      BY <1>2, <3>1, <3>2 DEF IsWay
    <3> QED BY <3>1, <3>3
  <2>4. \A s \in 1 .. n : read.buf[s] = Disc[l + s - 1]
    BY <1>10, <1>13, <1>14 DEF HasVolume
  <2>5. \A s \in 1 .. n : Disc[l + s - 1].kind = "dir"
    BY <1>1, <1>8, <1>13, <1>14, <2>2, <2>3, SectorsOfDirectory
  <2>6. IsDirectory(read.buf)
    BY <1>10, <2>4, <2>5 DEF IsDirectory
  <2>7. records = RecordsOf(dir)
    BY <1>4, <1>10, <2>3, <2>4, SameRecords
  <2> QED BY <2>2, <2>6, <2>7
<1>15. CASE ~(IsDirectory(read.buf) /\ ~end.overrun) /\ Lost
  <2>1. errors' > 0 \/ fentriesLoc - Len(files) >= 2 * TableStep
    <3>1. SUFFICES ASSUME errors' = 0 PROVE fentriesLoc - Len(files) >= 2 * TableStep
      BY <1>10, AtapiAssumption DEF DriveInv
    <3>2. TableTyped(end) /\ end.loc - Len(end.files) = fentriesLoc - Len(files) /\ TableSound(end) /\ end.overrun
      BY <1>12, <1>13, <1>14, <1>15, <3>1
    <3>3. ~(end.loc - Len(end.files) < 2 * TableStep)
      BY <3>2 DEF TableSound
    <3>4. fentriesLoc \in Nat /\ Len(files) \in Nat /\ TableStep \in Nat
      BY <1>8, LenProperties, IsoAssumption DEF TreeInv
    <3> QED BY <3>2, <3>3, <3>4
  <2>2. UNCHANGED phase
    BY <1>1, <1>15 DEF Lost
  <2> QED BY <1>1, <1>2, <1>10, <1>15, <2>1, <2>2, LostStep
<1>16. CASE /\ IsDirectory(read.buf) /\ ~end.overrun
            /\ files' = end.files /\ fentries' = end.fentries
            /\ fentriesLoc' = end.loc /\ fentriesSize' = end.size
            /\ \/ dir = Len(dirs) /\ mount' = "mounted" /\ search' = NoSearch
               \/ dir # Len(dirs) /\ UNCHANGED mount /\ search' = StartSearch(dir + 1)
            /\ UNCHANGED <<pvd, dirs>>
  <2>1. mount' \in {"files", "mounted"} /\ dirs' = dirs /\ pvd' = pvd
    BY <1>2, <1>16
  <2>2. PhaseInv'
    BY <1>1, <1>10, <2>1, PhaseMounts
  <2>3. ASSUME mount' = "files"
        PROVE  /\ dir + 1 \in DOMAIN dirs /\ dir + 1 \in Nat /\ search'.dir = dir + 1
               /\ search'.names = NamesTo(dir + 1)
               /\ search'.loc = pvd.root.loc /\ search'.size = pvd.root.size
               /\ search' = [dir |-> dir + 1, names |-> NamesTo(dir + 1), loc |-> pvd.root.loc, size |-> pvd.root.size]
    <3>1. dir # Len(dirs) /\ search' = StartSearch(dir + 1)
      BY <1>16, <2>3
    <3> QED BY <1>8, <1>9, <3>1 DEF StartSearch, Search
  <2>4. search' \in Searches
    <3>1. CASE mount' = "mounted"
      <4>1. search' = NoSearch
        BY <1>2, <1>16, <3>1
      <4>2. <<>> \in Seq(STRING)
        OBVIOUS
      <4> QED BY <4>1, <4>2 DEF NoSearch, Search, Searches
    <3>2. CASE mount' = "files"
      <4>1. NamesTo(dir + 1) \in Seq(STRING)
        BY <1>8, <2>3, <3>2, NamesTyped DEF TreeInv
      <4>2. pvd.root \in [loc : Nat, size : Nat]
        BY <1>2, <1>8 DEF TreeInv
      <4> QED BY <2>3, <3>2, <4>1, <4>2 DEF Searches
    <3> QED BY <2>1, <3>1, <3>2
  <2>5. TreeInv'
    <3>1. /\ files' \in Seq(Files) /\ \A f \in DOMAIN files' : files'[f].parent \in DOMAIN dirs'
          /\ fentriesLoc' \in Nat /\ fentriesSize' \in Nat
      BY <1>12, <1>16, <2>1 DEF TableTyped
    <3>2. mount' = "files" => search'.dir \in DOMAIN dirs'
      BY <2>1, <2>3
    <3>3. pvd'.root \in [loc : Nat, size : Nat] /\ pvd'.table.loc \in Nat
      BY <1>2, <1>8, <2>1 DEF TreeInv
    <3>4. dirs' # <<>> /\ dirs' \in Seq(Entries) /\ IsTree(dirs)'
      BY <1>2, <1>8, <2>1 DEF TreeInv, IsTree
    <3>5. mount' \notin {"none", "directories"}
      BY <2>1
    <3> QED BY <2>4, <3>1, <3>2, <3>3, <3>4, <3>5 DEF TreeInv
  <2>6. LostForCause'
    BY <2>1 DEF LostForCause
  <2>7. DiscInv'
    <3>1. SUFFICES ASSUME errors' = 0 PROVE DiscInv'
      BY DEF DiscInv, Mounting
    <3>2. HasVolume' /\ pvd' = Disc'[PvdSector] /\ dirs' = Directories(PathTable(Disc'))
      BY <1>10, <1>13, <2>1, <3>1 DEF HasVolume
    <3>3. EntryTable'.files = end.files /\ EntryTable'.fentries = end.fentries
          /\ EntryTable'.loc = end.loc /\ EntryTable'.size = end.size /\ ~EntryTable'.overrun
      BY <1>16 DEF EntryTable
    <3>4. TableSound(EntryTable')
      <4>1. TableSound(end)
        BY <1>12, <1>13, <1>16, <3>1
      <4> QED BY <3>3, <4>1 DEF TableSound
    <3>5. HasFiles(end, FilesUpTo(dir))
      <4>1. \A i, j \in DOMAIN records : records[i].name = records[j].name => i = j
        <5>1. IsLaidOut(Disc, Layout)
          BY <1>1, <1>8, <1>13, <3>1, VolumeKnown
        <5>2. dir \in 1 .. Len(PathTable(Disc)) /\ records = RecordsOf(dir)
          BY <1>14, <3>1
        <5>3. \A i, j \in DOMAIN RecordsOf(dir) : RecordsOf(dir)[i].name = RecordsOf(dir)[j].name => i = j
          BY <5>1, <5>2 DEF IsLaidOut, RecordsOf
        <5> QED BY <5>2, <5>3
      <4>2. Len(records) \in 0 .. Len(records)
        BY <1>12, <1>16
      <4>3. HasFiles(end, FilesUpTo(dir - 1) \cup Added(records, Len(records)))
        BY <1>6, <1>8, <1>9, <1>11, <1>12, <1>13, <1>16, <3>1, <4>1, <4>2, TablesHave
      <4>4. FilesUpTo(dir - 1) \cup Added(records, Len(records)) = FilesUpTo(dir)
        BY <1>9, <1>12, <1>14, <1>16, <3>1, AllAdded
      <4> QED BY <4>3, <4>4
    <3>6. PICK P : P = FilesUpTo(dir)
      OBVIOUS
    <3>7. FilesUpTo(dir)' = P
      BY <1>10, <3>6, SameFiles
    <3>8. HasFiles(EntryTable', P)
      BY <3>3, <3>5, <3>6 DEF HasFiles, IsFile
    <3>9. (FilesUpTo(IF mount = "mounted" THEN Len(dirs) ELSE search.dir - 1))' = P
      <4>1. CASE mount' = "mounted"
        <5>1. Len(dirs') = dir
          BY <1>2, <1>16, <4>1
        <5> QED BY <3>7, <4>1, <5>1, Zenon DEF FilesUpTo
      <4>2. CASE mount' = "files"
        <5>1. search'.dir - 1 = dir /\ mount' # "mounted"
          BY <1>9, <2>3, <4>2
        <5> QED BY <3>7, <5>1, Zenon DEF FilesUpTo
      <4> QED BY <2>1, <4>1, <4>2
    <3>10. ASSUME mount' = "files" PROVE OnTheWay'
      <4>1. PICK way : IsWay(way, NamesTo(dir + 1), dir + 1) /\ way[1] = Root
        BY <1>8, <2>3, <3>10, WayDown DEF TreeInv
      <4>2. PICK names : names = NamesTo(dir + 1)
        OBVIOUS
      <4>3. IsWay(way, names, dir + 1)
        BY <4>1, <4>2
      <4>4. search'.names = names /\ search'.dir = dir + 1
        BY <2>3, <3>10, <4>2
      <4>5. IsWay(way, search.names, search.dir)'
        BY <2>1, <4>3, <4>4 DEF IsWay
      <4>6. Layout' = Layout
        BY <1>10, SameFiles
      <4>7. Layout[Root] = Extent(Disc[PvdSector].root)
        BY <1>1, <1>8, <1>13, <3>1, VolumeKnown DEF IsLaidOut
      <4>8. Layout'[way[1]] = [loc |-> search'.loc, size |-> search'.size]
        BY <1>13, <2>3, <3>1, <3>10, <4>1, <4>6, <4>7 DEF Extent
      <4> QED BY <4>5, <4>8 DEF OnTheWay
    <3> QED BY <2>1, <3>2, <3>4, <3>8, <3>9, <3>10, Zenon DEF DiscInv
  <2> QED BY <1>10, <2>2, <2>5, <2>6, <2>7 DEF BootInv
<1> QED BY <1>7, <1>15, <1>16

-----------------------------------------------------------------------------
(* Steps behind the mount, and the invariant.                               *)

LEMMA MountStep ==
  ASSUME BootInv, Mount
  PROVE  BootInv'
<1>1. IsoMount(Volume)
  BY MountPhase
<1> QED BY <1>1, DescriptorStep, PathTableStep, DescendStep, AppendFilesStep DEF IsoMount

\* The file of a tree, and where it lies.
LEMMA FileKnown ==
  ASSUME BootInv, mount = "mounted", NEW f \in DOMAIN files
  PROVE  /\ files[f] \in Files
         /\ errors = 0 => /\ HasVolume /\ IsDisc(Disc) /\ fentries[files[f].id] \in Nat
                          /\ AreOf("data", Disc, fentries[files[f].id], SectorsOf(files[f].size))
<1>1. DriveInv /\ TreeInv /\ OnDrive
  BY DEF BootInv, PhaseInv
<1>2. files[f] \in Files
  BY <1>1, LenProperties DEF TreeInv
<1>3. ASSUME errors = 0
      PROVE  /\ HasVolume /\ IsDisc(Disc) /\ fentries[files[f].id] \in Nat
             /\ AreOf("data", Disc, fentries[files[f].id], SectorsOf(files[f].size))
  <2>1. HasVolume /\ dirs = Directories(PathTable(Disc)) /\ HasFiles(EntryTable, FilesUpTo(Len(dirs)))
    BY <1>1, <1>3 DEF BootInv, DiscInv, Mounting
  <2>2. IsDisc(Disc)
    BY <1>1, <2>1, DiscKnown DEF HasVolume
  <2>3. PICK p \in FilesUpTo(Len(dirs)) : IsFile(EntryTable, f, p)
    BY <2>1 DEF HasFiles, EntryTable
  <2>4. p[1] \in 1 .. Len(dirs) /\ p[2] \in Records /\ p[2] \in FilesOf(p[1])
    BY <2>3 DEF FilesUpTo
  <2>5. files[f].size = p[2].size /\ fentries[files[f].id] = p[2].loc
    BY <2>3 DEF IsFile, EntryTable
  <2>6. Len(PathTable(Disc)) = Len(dirs)
    <3>1. PathTable(Disc) = Disc[Disc[PvdSector].table.loc].entries
      BY DEF PathTable
    <3> QED BY <1>1, <2>1, <3>1, VolumeKnown, TableIsTree
  <2>7. PICK i \in DOMAIN RecordsOf(p[1]) : RecordsOf(p[1])[i] = p[2] /\ ~RecordsOf(p[1])[i].dir
    BY <2>4 DEF FilesOf, ToSet
  <2>8. AreOf("data", Disc, RecordsOf(p[1])[i].loc, SectorsOf(RecordsOf(p[1])[i].size))
    <3>1. IsLaidOut(Disc, Layout)
      BY <1>1, <2>1, VolumeKnown
    <3> QED BY <2>4, <2>6, <2>7, <3>1 DEF IsLaidOut, RecordsOf
  <2> QED BY <2>1, <2>2, <2>4, <2>5, <2>7, <2>8 DEF Records
<1> QED BY <1>2, <1>3

LEMMA FoundFile ==
  ASSUME BootInv, Found # {}
  PROVE  Max(Found) \in Found /\ Found \subseteq DOMAIN files
<1>1. DOMAIN files = 1 .. Len(files) /\ Len(files) \in Nat
  BY LenProperties DEF BootInv, TreeInv
<1>2. Found \in SUBSET (0 .. Len(files)) /\ Found \subseteq DOMAIN files
  BY <1>1 DEF Found
<1> QED BY <1>1, <1>2, LastNumber

\* Sectors that hold some units.
LEMMA SectorsHold ==
  ASSUME NEW bytes \in Nat
  PROVE  /\ SectorsOf(bytes) \in Nat
         /\ bytes <= SectorsOf(bytes) * BlockSize
         /\ SectorsOf(bytes) * BlockSize < bytes + BlockSize
<1>1. BlockSize \in Nat \ {0} /\ bytes + BlockSize - 1 \in Nat
  BY IsoAssumption
<1>2. PICK a \in Nat : a = bytes + BlockSize - 1
  BY <1>1
<1>3. PICK b \in Nat \ {0} : b = BlockSize
  BY <1>1
<1>4. a \div b \in Nat /\ (a \div b) * b <= a /\ a < (a \div b) * b + b
  OBVIOUS
<1>5. PICK p \in Int : p = (a \div b) * b
  BY <1>4
<1>6. bytes <= p /\ p < bytes + b
  BY <1>2, <1>3, <1>4, <1>5
<1> QED BY <1>2, <1>3, <1>4, <1>5, <1>6 DEF SectorsOf

LEMMA ReadImageStep ==
  ASSUME BootInv, ReadImage
  PROVE  BootInv'
<1>1. phase = "image" /\ UNCHANGED isoVars /\ UNCHANGED <<cmdline, answer, reads>>
  BY DEF ReadImage, KeepIso
<1>2. OnDrive /\ mount = "mounted" /\ mount' = mount
  BY <1>1 DEF BootInv, PhaseInv, isoVars
<1>3. CASE Found = {}
  <2>1. phase' = "panic" /\ UNCHANGED <<drives, atadevices, atapiDisc, blockdevices, errors, seen>> /\ UNCHANGED ramdisk
    BY <1>3 DEF ReadImage, Panic, driveVars
  <2>2. Disc' = Disc /\ (OnDrive' <=> OnDrive) /\ \A x : Readable(x)' <=> Readable(x)
    BY <1>1, <2>1, SameDrive
  <2>3. DriveInv'
    BY <1>1, <2>1, <2>2 DEF BootInv, DriveInv
  <2>4. PhaseInv'
    BY <1>1, <1>2, <2>1, <2>2 DEF BootInv, PhaseInv
  <2>5. TreeInv' /\ DiscInv' /\ LostForCause'
    BY <1>1, <2>1, <2>2, TreeKept
  <2> QED BY <2>3, <2>4, <2>5 DEF BootInv
<1>4. CASE Found # {}
  <2>1. PICK f : f = Max(Found)
    OBVIOUS
  <2>2. PICK n : n = SectorsOf(files[f].size)
    OBVIOUS
  <2>3. PICK read \in Reads(Volume, FirstSector(f, 0), n) : HasRead(Volume, read) /\ phase' = "ramdisk"
    BY <1>4, <2>1, <2>2 DEF ReadImage, Goto
  <2>4. n \in Nat
    BY <1>2, <1>4, <2>1, <2>2, FoundFile, FileKnown, SectorsHold DEF Files
  <2>5. reads' \in 0 .. MaxReads
    BY <1>1, ErrorsCount DEF BootInv
  <2>6. OnDrive' <=> OnDrive
    BY <1>1, <1>2, <2>3, <2>4, <2>5, DiscRead
  <2>7. PhaseInv'
    BY <1>1, <1>2, <2>3, <2>6 DEF BootInv, PhaseInv
  <2> QED BY <1>1, <1>2, <2>3, <2>4, <2>5, <2>7, ReadStep
<1> QED BY <1>3, <1>4

LEMMA MountRamdiskStep ==
  ASSUME BootInv, MountRamdisk
  PROVE  BootInv'
<1>1. /\ phase = "ramdisk" /\ phase' \in {"booted", "panic"} /\ UNCHANGED isoVars
      /\ UNCHANGED <<cmdline, ramdisk, answer, reads, drives, atadevices, atapiDisc, blockdevices, errors, seen>>
  BY DEF MountRamdisk, KeepIso, Goto, Panic, driveVars
<1>2. Disc' = Disc /\ (OnDrive' <=> OnDrive) /\ \A x : Readable(x)' <=> Readable(x)
  BY <1>1, SameDrive
<1>3. OnDrive /\ mount = "mounted" /\ mount' = mount
  BY <1>1 DEF BootInv, PhaseInv, isoVars
<1>4. DriveInv'
  BY <1>1, <1>2 DEF BootInv, DriveInv
<1>5. PhaseInv'
  BY <1>1, <1>2, <1>3 DEF BootInv, PhaseInv
<1>6. TreeInv' /\ DiscInv' /\ LostForCause'
  BY <1>1, <1>2, TreeKept
<1> QED BY <1>4, <1>5, <1>6 DEF BootInv

\* The bytes of a read.
LEMMA BytesCount ==
  ASSUME NEW f, files[f] \in Files, NEW loc \in 0 .. files[f].size - 1, NEW len \in 1 .. files[f].size
  PROVE  /\ BytesOf(f, len, loc) \in Nat
         /\ loc + BytesOf(f, len, loc) <= files[f].size
         /\ BytesOf(f, len, loc) = len \/ loc + BytesOf(f, len, loc) = files[f].size
<1>1. PICK size \in Nat : size = files[f].size
  BY DEF Files
<1>2. loc \in Nat /\ len \in Nat /\ loc <= size - 1 /\ len <= size
  BY <1>1
<1>3. BytesOf(f, len, loc) = IF len >= size - loc THEN size - loc ELSE len
  BY <1>1 DEF BytesOf
<1> QED BY <1>1, <1>2, <1>3

LEMMA ReadFileStep ==
  ASSUME BootInv, NEW f \in DOMAIN files, NEW loc \in 0 .. files[f].size - 1, NEW len \in 1 .. files[f].size,
         ReadFile(f, loc, len)
  PROVE  BootInv'
<1>1. PICK bytes : bytes = BytesOf(f, len, loc)
  OBVIOUS
<1>2. /\ phase = "booted" /\ UNCHANGED isoVars /\ UNCHANGED <<cmdline, phase, ramdisk>>
      /\ reads < MaxReads /\ reads' = reads + 1
  BY DEF ReadFile, KeepIso
<1>3. PICK read \in Reads(Volume, FirstSector(f, loc), SectorsOf(bytes)) : HasRead(Volume, read)
  BY <1>1 DEF ReadFile
<1>4. OnDrive /\ mount = "mounted" /\ mount' = mount
  BY <1>2 DEF BootInv, PhaseInv, isoVars
<1>5. bytes \in Nat /\ SectorsOf(bytes) \in Nat
  BY <1>1, <1>4, FileKnown, BytesCount, SectorsHold
<1>6. reads' \in 0 .. MaxReads
  <2>1. reads \in 0 .. MaxReads /\ MaxReads \in Nat
    BY ErrorsCount, BootAssumption DEF BootInv
  <2> QED BY <1>2, <2>1
<1>7. OnDrive' <=> OnDrive
  BY <1>2, <1>3, <1>4, <1>5, <1>6, DiscRead
<1>8. PhaseInv'
  BY <1>2, <1>4, <1>7 DEF BootInv, PhaseInv
<1> QED BY <1>2, <1>3, <1>4, <1>5, <1>6, <1>8, ReadStep

LEMMA NextBoot ==
  ASSUME BootInv, [BootNext]_bootVars
  PROVE  BootInv'
<1>1. CASE BootStep /\ mount # "lost"
  <2>1. CASE Detect \/ InitDrives
    BY <2>1, DetectSteps
  <2>2. CASE FindVolume
    BY <2>2, FindVolumeStep
  <2>3. CASE AskVfat
    BY <1>1, <2>3, AskVfatStep
  <2>4. CASE AskIso
    BY <2>4, AskIsoStep
  <2>5. CASE Mount
    BY <2>5, MountStep
  <2>6. CASE ReadImage
    BY <2>6, ReadImageStep
  <2>7. CASE MountRamdisk
    BY <2>7, MountRamdiskStep
  <2> QED BY <1>1, <2>1, <2>2, <2>3, <2>4, <2>5, <2>6, <2>7 DEF BootStep
<1>2. CASE \E f \in DOMAIN files : \E loc \in 0..(files[f].size - 1) : \E len \in 1..files[f].size :
             ReadFile(f, loc, len)
  BY <1>2, ReadFileStep
<1>3. CASE UNCHANGED bootVars
  <2>1. /\ UNCHANGED isoVars
        /\ UNCHANGED <<mount, phase, cmdline, ramdisk, answer, reads, drives, atadevices, atapiDisc, blockdevices, errors, seen>>
    BY <1>3 DEF bootVars, isoVars, driveVars
  <2>2. Disc' = Disc /\ (OnDrive' <=> OnDrive) /\ \A x : Readable(x)' <=> Readable(x)
    BY <2>1, SameDrive
  <2>3. DriveInv' /\ PhaseInv'
    BY <2>1, <2>2 DEF BootInv, DriveInv, PhaseInv
  <2>4. TreeInv' /\ DiscInv' /\ LostForCause'
    BY <2>1, <2>2, TreeKept
  <2> QED BY <2>3, <2>4 DEF BootInv
<1> QED BY <1>1, <1>2, <1>3 DEF BootNext

LEMMA InitBoot ==
  ASSUME BootInit
  PROVE  BootInv
<1>1. /\ drives \in Machines /\ blockdevices = <<>> /\ atapiDisc = -1 /\ errors = 0 /\ seen = {} /\ reads = 0
      /\ mount = "none" /\ dirs = <<>> /\ files = <<>> /\ fentries = <<>> /\ fentriesLoc = 0 /\ fentriesSize = 0
      /\ search = NoSearch /\ phase = "detect" /\ ramdisk = <<>> /\ answer = NoAnswer
  BY DEF BootInit, DrivesInit, IsoInit
<1>2. MaxErrors \in Nat /\ MaxReads \in Nat
  BY AtapiAssumption, BootAssumption
<1>3. DriveInv
  BY <1>1, <1>2 DEF DriveInv
<1>4. PhaseInv
  BY <1>1 DEF PhaseInv
<1>5. NoSearch \in Searches
  <2>1. <<>> \in Seq(STRING)
    OBVIOUS
  <2> QED BY <2>1 DEF NoSearch, Search, Searches
<1>6. TreeInv
  BY <1>1, <1>5 DEF TreeInv, IsTree
<1>7. DiscInv /\ LostForCause
  BY <1>1 DEF DiscInv, Mounting, LostForCause
<1> QED BY <1>3, <1>4, <1>6, <1>7 DEF BootInv

\* Booting keeps the tree of the disc, or has met an error: the inductive
\* invariant.
THEOREM BootInvariant == BootSpec => []BootInv
<1>1. BootInit => BootInv
  BY InitBoot
<1>2. BootInv /\ [BootNext]_bootVars => BootInv'
  BY NextBoot
<1> QED BY <1>1, <1>2, PTL DEF BootSpec

\* A crash while the kernel boots has one of the causes that LostForCause names:
\* append_files without errors and with a sound index never writes behind the
\* table, and find_dir_entry finds every directory of the disc.
THEOREM CrashesExplained == BootSpec => []LostForCause
<1>1. BootInv => LostForCause
  BY DEF BootInv
<1> QED BY <1>1, BootInvariant, PTL

-----------------------------------------------------------------------------
(* What is read of files.                                                   *)

\* Sequences that agree as far as the first one goes.
LEMMA PrefixOf ==
  ASSUME NEW S, NEW a \in Seq(S), NEW b \in Seq(S), Len(a) <= Len(b), \A i \in 1 .. Len(a) : a[i] = b[i]
  PROVE  IsPrefix(a, b)
<1>1. Len(a) \in Nat /\ Len(b) \in Nat
  BY LenProperties
<1>2. PICK n \in Nat : n = Len(a)
  BY <1>1
<1>3. /\ 1 \in 1 .. Len(a) + 1 /\ n \in 1 - 1 .. Len(a)
      /\ 1 \in 1 .. Len(b) + 1 /\ n \in 1 - 1 .. Len(b)
      /\ n - 1 + 1 = n /\ \A i \in 1 .. n : 1 + i - 1 = i
  BY <1>1, <1>2
<1>4. PICK c : c = SubSeq(a, 1, n)
  OBVIOUS
<1>5. c \in Seq(S) /\ Len(c) = n /\ \A i \in 1 .. n : c[i] = a[i]
  BY <1>3, <1>4, SubSeqProperties
<1>6. PICK d : d = SubSeq(b, 1, n)
  OBVIOUS
<1>7. d \in Seq(S) /\ Len(d) = n /\ \A i \in 1 .. n : d[i] = b[i]
  BY <1>3, <1>6, SubSeqProperties
<1>8. c = d
  BY <1>2, <1>5, <1>7, SeqEqual
<1> QED BY <1>2, <1>4, <1>6, <1>8 DEF IsPrefix

\* Quotient and remainder.
LEMMA Quotient ==
  ASSUME NEW q \in Nat, NEW s \in Nat \ {0}, NEW r \in 0 .. s - 1
  PROVE  (q * s + r) \div s = q /\ (q * s + r) % s = r
OBVIOUS

LEMMA Divided ==
  ASSUME NEW a \in Nat, NEW s \in Nat \ {0}
  PROVE  /\ a \div s \in Nat /\ a % s \in 0 .. s - 1
         /\ (a \div s) * s \in Nat
         /\ a = (a \div s) * s + (a % s)
OBVIOUS

LEMMA Factors ==
  ASSUME NEW a \in Int, NEW b \in Int, NEW s \in Nat \ {0}
  PROVE  /\ a * s \in Int
         /\ a * s < b * s => a < b
         /\ (a + b) * s = a * s + b * s
OBVIOUS

\* A unit of the buffer is the unit of the file that belongs there, as long as
\* the sectors reach so far.
LEMMA UnitRead ==
  ASSUME BootInv, mount = "mounted", errors = 0, NEW f \in DOMAIN files,
         NEW loc \in Nat, NEW bytes \in Nat, loc + bytes <= files[f].size,
         NEW buf, DOMAIN buf = 1 .. SectorsOf(bytes),
         \A s \in 1 .. SectorsOf(bytes) : buf[s] = Disc[FirstSector(f, loc) + s - 1],
         NEW u \in 1 .. bytes, (loc % BlockSize) + u - 1 < SectorsOf(bytes) * BlockSize
  PROVE  UnitIn(buf, (loc % BlockSize) + u - 1) = UnitsOn(Disc, f)[loc + u]
<1>1. /\ BlockSize \in Nat \ {0} /\ SectorsOf(bytes) \in Nat
      /\ files[f].size \in Nat /\ SectorsOf(files[f].size) \in Nat
      /\ files[f].size <= SectorsOf(files[f].size) * BlockSize
      /\ fentries[files[f].id] \in Nat
      /\ AreOf("data", Disc, fentries[files[f].id], SectorsOf(files[f].size))
  BY FileKnown, SectorsHold, IsoAssumption DEF Files
<1>2. PICK B \in Nat \ {0} : B = BlockSize
  BY <1>1
<1>3. PICK n \in Nat : n = SectorsOf(bytes)
  BY <1>1
<1>4. PICK N \in Nat : N = SectorsOf(files[f].size)
  BY <1>1
<1>5. PICK base \in Nat : base = fentries[files[f].id]
  BY <1>1
<1>6. PICK q \in Nat : q = loc \div B
  BY Divided
<1>7. PICK r \in 0 .. B - 1 : r = loc % B
  BY Divided
<1>8. loc = q * B + r /\ q * B \in Nat
  <2>1. loc = (loc \div B) * B + (loc % B) /\ (loc \div B) * B \in Nat
    BY Divided
  <2> QED BY <1>6, <1>7, <2>1
<1>9. PICK v \in Nat : v = r + u - 1
  OBVIOUS
<1>10. PICK s \in Nat : s = v \div B
  BY Divided
<1>11. PICK t \in 0 .. B - 1 : t = v % B
  BY Divided
<1>12. v = s * B + t /\ s * B \in Nat
  <2>1. v = (v \div B) * B + (v % B) /\ (v \div B) * B \in Nat
    BY Divided
  <2> QED BY <1>10, <1>11, <2>1
<1>13. (q + s) * B = q * B + s * B
  BY Factors
<1>14. loc + u - 1 = (q + s) * B + t
  <2>1. loc + u - 1 = q * B + v
    BY <1>8, <1>9
  <2> QED BY <1>8, <1>12, <1>13, <2>1
<1>15. (loc + u - 1) \div B = q + s /\ (loc + u - 1) % B = t
  <2>1. PICK k \in Nat : k = q + s
    OBVIOUS
  <2>2. (k * B + t) \div B = k /\ (k * B + t) % B = t
    BY Quotient
  <2> QED BY <1>14, <2>1, <2>2
<1>16. s < n
  <2>1. v < n * B
    BY <1>2, <1>3, <1>7, <1>9
  <2>2. n * B \in Int /\ s * B < n * B
    BY <1>12, <2>1, Factors
  <2> QED BY <2>2, Factors
<1>17. q + s < N
  <2>1. loc + u - 1 < files[f].size /\ files[f].size <= N * B
    BY <1>1, <1>2, <1>4
  <2>2. PICK k \in Nat : k = q + s
    OBVIOUS
  <2>3. PICK x \in Int : x = k * B
    BY Factors
  <2>4. PICK y \in Int : y = N * B
    BY Factors
  <2>5. loc + u - 1 = x + t
    BY <1>14, <2>2, <2>3
  <2>6. x < y
    BY <1>1, <2>1, <2>4, <2>5
  <2> QED BY <2>2, <2>3, <2>4, <2>6, Factors
<1>18. PICK sector : sector = Disc[base + (q + s)]
  OBVIOUS
<1>19. sector.kind = "data"
  <2>1. base + (q + s) \in base .. base + N - 1
    BY <1>17
  <2> QED BY <1>1, <1>4, <1>5, <1>18, <2>1 DEF AreOf
<1>20. s + 1 \in 1 .. n /\ buf[s + 1] = sector
  <2>1. s + 1 \in 1 .. n
    BY <1>16
  <2>2. FirstSector(f, loc) = base + q
    BY <1>2, <1>5, <1>6 DEF FirstSector
  <2>3. (base + q) + (s + 1) - 1 = base + (q + s)
    OBVIOUS
  <2> QED BY <1>3, <1>18, <2>1, <2>2, <2>3
<1>21. UnitIn(buf, v) = sector.units[t + 1]
  <2>1. s + 1 \in DOMAIN buf /\ buf[s + 1].kind = "data"
    BY <1>3, <1>19, <1>20
  <2> QED BY <1>2, <1>10, <1>11, <1>20, <2>1 DEF UnitIn
<1>22. UnitsOn(Disc, f)[loc + u] = sector.units[t + 1]
  <2>1. loc + u \in 1 .. files[f].size
    BY <1>1
  <2>2. FirstSector(f, loc + u - 1) = base + (q + s)
    BY <1>2, <1>5, <1>15 DEF FirstSector
  <2>3. UnitsOn(Disc, f)[loc + u] = Disc[FirstSector(f, (loc + u) - 1)].units[(((loc + u) - 1) % BlockSize) + 1]
    BY <2>1 DEF UnitsOn
  <2> QED BY <1>2, <1>15, <1>18, <2>2, <2>3
<1> QED BY <1>2, <1>7, <1>9, <1>21, <1>22

\* A buffer of the sectors where the units of f from loc on begin, and what a
\* read makes of them.
FromDisc(buf, bytes, f, loc) ==
  /\ DOMAIN buf = 1 .. SectorsOf(bytes)
  /\ \A s \in 1 .. SectorsOf(bytes) : buf[s] = Disc[FirstSector(f, loc) + s - 1]

IsCopied(buf, bytes, f, loc) ==
  /\ Len(Copied(buf, bytes, loc)) = bytes
  /\ \E S : Copied(buf, bytes, loc) \in Seq(S) /\ UnitsOn(Disc, f) \in Seq(S)
  /\ Len(UnitsOn(Disc, f)) = files[f].size
  /\ (loc % BlockSize) + bytes <= SectorsOf(bytes) * BlockSize =>
       \A u \in 1 .. bytes : Copied(buf, bytes, loc)[u] = UnitsOn(Disc, f)[loc + u]

\* What a read copies is the file from there on.
LEMMA CopiedRight ==
  ASSUME BootInv, mount = "mounted", errors = 0, NEW f \in DOMAIN files,
         NEW loc \in Nat, NEW bytes \in Nat, loc + bytes <= files[f].size,
         NEW buf, FromDisc(buf, bytes, f, loc)
  PROVE  IsCopied(buf, bytes, f, loc)
<1>0. /\ DOMAIN buf = 1 .. SectorsOf(bytes)
      /\ \A s \in 1 .. SectorsOf(bytes) : buf[s] = Disc[FirstSector(f, loc) + s - 1]
  BY DEF FromDisc
<1>1. files[f].size \in Nat /\ BlockSize \in Nat \ {0}
  BY FileKnown, IsoAssumption DEF Files
<1>2. PICK c : c = Copied(buf, bytes, loc)
  OBVIOUS
<1>3. DOMAIN c = 1 .. bytes /\ \A u \in 1 .. bytes : c[u] = UnitIn(buf, (loc % BlockSize) + u - 1)
  BY <1>2 DEF Copied
<1>4. PICK w : w = UnitsOn(Disc, f)
  OBVIOUS
<1>5. DOMAIN w = 1 .. files[f].size
  BY <1>4 DEF UnitsOn
<1>6. PICK S : S = {c[u] : u \in 1 .. bytes} \cup {w[u] : u \in 1 .. files[f].size}
  OBVIOUS
<1>7. c \in [1 .. bytes -> S]
  BY <1>2, <1>3, <1>6 DEF Copied
<1>8. w \in [1 .. files[f].size -> S]
  BY <1>4, <1>5, <1>6 DEF UnitsOn
<1>9. c \in Seq(S) /\ Len(c) = bytes
  BY <1>7
<1>10. w \in Seq(S) /\ Len(w) = files[f].size
  BY <1>1, <1>8
<1>12. ASSUME NEW u \in 1 .. bytes, (loc % BlockSize) + u - 1 < SectorsOf(bytes) * BlockSize
       PROVE  UnitIn(buf, (loc % BlockSize) + u - 1) = UnitsOn(Disc, f)[loc + u]
  BY <1>0, <1>12, UnitRead, Zenon
<1>11. ASSUME (loc % BlockSize) + bytes <= SectorsOf(bytes) * BlockSize, NEW u \in 1 .. bytes
       PROVE  c[u] = w[loc + u]
  <2>1. PICK B \in Nat \ {0} : B = BlockSize
    BY <1>1
  <2>2. PICK r \in 0 .. B - 1 : r = loc % B
    BY Divided
  <2>3. PICK m \in Nat : m = SectorsOf(bytes)
    BY SectorsHold
  <2>4. PICK p \in Int : p = m * B
    BY <2>3, Factors
  <2>5. r + bytes <= p
    BY <1>11, <2>1, <2>2, <2>3, <2>4
  <2>6. r + u - 1 < p
    BY <2>5
  <2>7. (loc % BlockSize) + u - 1 < SectorsOf(bytes) * BlockSize
    BY <2>1, <2>2, <2>3, <2>4, <2>6
  <2>8. UnitIn(buf, (loc % BlockSize) + u - 1) = UnitsOn(Disc, f)[loc + u]
    BY <1>12, <2>7
  <2> QED BY <1>3, <1>4, <2>8
<1> QED BY <1>2, <1>4, <1>9, <1>10, <1>11 DEF IsCopied

\* The RAM disk begins with what was copied to it.
LEMMA RamdiskHolds ==
  ASSUME NEW S, NEW units \in Seq(S)
  PROVE  IsPrefix(units, RamdiskOf(units))
<1>1. PICK n \in Nat : n = Len(units)
  BY LenProperties
<1>2. PICK b \in Nat \ {0} : b = RamBlock
  BY BootAssumption
<1>3. PICK a \in Nat : a = n + b - 1
  OBVIOUS
<1>4. PICK p \in Int : p = (a \div b) * b
  <2>1. (a \div b) * b \in Nat
    BY Divided
  <2> QED BY <2>1
<1>5. a % b \in 0 .. b - 1 /\ a = p + (a % b)
  BY <1>4, Divided
<1>6. n <= p
  BY <1>3, <1>5
<1>7. RoundUp(Len(units), RamBlock) = p
  BY <1>1, <1>2, <1>3, <1>4 DEF RoundUp
<1>8. PICK m \in Nat : m = p - n
  BY <1>6
<1>9. PICK fill : fill = [u \in 1 .. m |-> Garbage]
  OBVIOUS
<1>10. PICK T : T = S \cup {Garbage}
  OBVIOUS
<1>11. fill \in Seq(T) /\ Len(fill) = m
  BY <1>9, <1>10
<1>12. units \in Seq(T)
  BY <1>10
<1>13. PICK whole : whole = units \o fill
  OBVIOUS
<1>14. /\ whole \in Seq(T) /\ Len(whole) = Len(units) + Len(fill)
       /\ \A i \in 1 .. Len(units) + Len(fill) : whole[i] = IF i <= Len(units) THEN units[i] ELSE fill[i - Len(units)]
  BY <1>11, <1>12, <1>13, ConcatProperties
<1>15. RamdiskOf(units) = whole
  BY <1>1, <1>7, <1>8, <1>9, <1>13 DEF RamdiskOf
<1>16. Len(units) <= Len(whole) /\ \A i \in 1 .. Len(units) : whole[i] = units[i]
  BY <1>1, <1>11, <1>14
<1> QED BY <1>12, <1>14, <1>15, <1>16, PrefixOf

ImageIntact == ramdisk # <<>> => \E f \in Found : IsPrefix(UnitsOn(Disc, f), ramdisk)
AnswerIntact ==
  LET f == answer.file
      n == Len(answer.data)
  IN  f # 0 /\ (answer.loc % BlockSize) + n <= SectorsOf(n) * BlockSize =>
        /\ answer.data = SubSeq(UnitsOn(Disc, f), answer.loc + 1, answer.loc + n)
        /\ n = answer.len \/ answer.loc + n = files[f].size

LEMMA SameUnits ==
  ASSUME UNCHANGED isoVars, Disc' = Disc
  PROVE  /\ (ImageIntact /\ UNCHANGED ramdisk) => ImageIntact'
         /\ (AnswerIntact /\ UNCHANGED answer) => AnswerIntact'
<1>1. UNCHANGED <<files, fentries>>
  BY DEF isoVars
<1>2. \A f : UnitsOn(Disc, f)' = UnitsOn(Disc, f)
  BY <1>1 DEF UnitsOn, FirstSector
<1>3. Found' = Found
  BY <1>1 DEF Found
<1>4. (ImageIntact /\ UNCHANGED ramdisk) => ImageIntact'
  BY <1>2, <1>3 DEF ImageIntact
<1>5. (AnswerIntact /\ UNCHANGED answer) => AnswerIntact'
  BY <1>1, <1>2 DEF AnswerIntact
<1> QED BY <1>4, <1>5

\* The RAM disk is filled with boot.img.
LEMMA ReadImageIntact ==
  ASSUME BootInv, ReadImage, Found # {}, errors' = 0, AnswerIntact
  PROVE  ImageIntact' /\ AnswerIntact'
<1>1. phase = "image" /\ UNCHANGED isoVars /\ UNCHANGED <<cmdline, answer, reads>>
  BY DEF ReadImage, KeepIso
<1>2. OnDrive /\ mount = "mounted" /\ UNCHANGED <<files, fentries>>
  BY <1>1 DEF BootInv, PhaseInv, isoVars
<1>3. PICK f : f = Max(Found)
  OBVIOUS
<1>4. PICK n : n = SectorsOf(files[f].size)
  OBVIOUS
<1>5. PICK read \in Reads(Volume, FirstSector(f, 0), n) :
        HasRead(Volume, read) /\ ramdisk' = RamdiskOf(Copied(read.buf, files[f].size, 0))
  BY <1>3, <1>4 DEF ReadImage
<1>6. f \in Found /\ f \in DOMAIN files
  BY <1>3, FoundFile
<1>7. files[f].size \in Nat /\ n \in Nat
  BY <1>2, <1>4, <1>6, FileKnown, SectorsHold DEF Files
<1>8. reads' \in 0 .. MaxReads
  BY <1>1, ErrorsCount DEF BootInv
<1>9. /\ Disc' = Disc /\ (errors' = 0 => errors = 0)
      /\ DOMAIN read.buf = 1 .. n
      /\ errors' = 0 /\ Disc # NoDisc =>
           \A s \in 1 .. n : FirstSector(f, 0) + s - 1 \in DOMAIN Disc /\ read.buf[s] = Disc[FirstSector(f, 0) + s - 1]
  BY <1>1, <1>2, <1>5, <1>7, <1>8, DiscRead
<1>10. errors = 0 /\ HasVolume
  BY <1>2, <1>6, <1>9, FileKnown
<1>11. \A s \in 1 .. n : read.buf[s] = Disc[FirstSector(f, 0) + s - 1]
  BY <1>9, <1>10 DEF HasVolume
<1>12. PICK c : c = Copied(read.buf, files[f].size, 0)
  OBVIOUS
<1>13. PICK w : w = UnitsOn(Disc, f)
  OBVIOUS
<1>14. 0 + files[f].size <= files[f].size /\ 0 \in Nat
  BY <1>7
<1>15. /\ Len(c) = files[f].size
       /\ \E S : c \in Seq(S) /\ w \in Seq(S)
       /\ Len(w) = files[f].size
       /\ (0 % BlockSize) + files[f].size <= SectorsOf(files[f].size) * BlockSize =>
            \A u \in 1 .. files[f].size : c[u] = w[0 + u]
  <2>1. /\ DOMAIN read.buf = 1 .. SectorsOf(files[f].size)
        /\ \A s \in 1 .. SectorsOf(files[f].size) : read.buf[s] = Disc[FirstSector(f, 0) + s - 1]
    BY <1>4, <1>9, <1>11
  <2>2. PICK z \in Nat : z = 0
    OBVIOUS
  <2>3. PICK bytes \in Nat : bytes = files[f].size
    BY <1>7
  <2>4. FromDisc(read.buf, bytes, f, z)
    BY <2>1, <2>2, <2>3 DEF FromDisc
  <2>5. z + bytes <= files[f].size
    BY <1>7, <2>2, <2>3
  <2>6. IsCopied(read.buf, bytes, f, z)
    BY <1>2, <1>6, <1>10, <2>4, <2>5, CopiedRight
  <2> QED BY <1>12, <1>13, <2>2, <2>3, <2>6, Zenon DEF IsCopied
<1>16. 0 % BlockSize = 0
  BY IsoAssumption
<1>17. files[f].size <= SectorsOf(files[f].size) * BlockSize
  BY <1>7, SectorsHold
<1>18. \A u \in 1 .. files[f].size : c[u] = w[u]
  <2>1. (0 % BlockSize) + files[f].size <= SectorsOf(files[f].size) * BlockSize
    BY <1>7, <1>16, <1>17
  <2>2. \A u \in 1 .. files[f].size : 0 + u = u
    OBVIOUS
  <2> QED BY <1>15, <2>1, <2>2
<1>19. PICK S : c \in Seq(S) /\ w \in Seq(S)
  BY <1>15
<1>20. c = w
  BY <1>15, <1>18, <1>19, SeqEqual
<1>21. IsPrefix(w, ramdisk')
  BY <1>5, <1>12, <1>19, <1>20, RamdiskHolds
<1>22. Found' = Found /\ UnitsOn(Disc, f)' = w
  BY <1>2, <1>9, <1>13 DEF Found, UnitsOn, FirstSector
<1>23. ImageIntact'
  BY <1>6, <1>21, <1>22 DEF ImageIntact
<1> QED BY <1>1, <1>9, <1>23, SameUnits

\* The bytes that a program gets.
LEMMA ReadFileIntact ==
  ASSUME BootInv, NEW f \in DOMAIN files, NEW loc \in 0 .. files[f].size - 1, NEW len \in 1 .. files[f].size,
         ReadFile(f, loc, len), errors' = 0, ImageIntact
  PROVE  ImageIntact' /\ AnswerIntact'
<1>1. PICK bytes : bytes = BytesOf(f, len, loc)
  OBVIOUS
<1>2. /\ phase = "booted" /\ UNCHANGED isoVars /\ UNCHANGED <<cmdline, phase, ramdisk>>
      /\ reads < MaxReads /\ reads' = reads + 1
  BY DEF ReadFile, KeepIso
<1>3. OnDrive /\ mount = "mounted" /\ UNCHANGED <<files, fentries>>
  BY <1>2 DEF BootInv, PhaseInv, isoVars
<1>4. PICK n : n = SectorsOf(bytes)
  OBVIOUS
<1>5. PICK read \in Reads(Volume, FirstSector(f, loc), n) :
        /\ HasRead(Volume, read)
        /\ answer' = [file |-> f, loc |-> loc, len |-> len, data |-> Copied(read.buf, bytes, loc)]
  BY <1>1, <1>4 DEF ReadFile
<1>6. files[f] \in Files /\ files[f].size \in Nat /\ loc \in Nat
  BY <1>3, FileKnown DEF Files
<1>7. /\ bytes \in Nat /\ n \in Nat /\ loc + bytes <= files[f].size
      /\ bytes = len \/ loc + bytes = files[f].size
  BY <1>1, <1>4, <1>6, BytesCount, SectorsHold
<1>8. reads' \in 0 .. MaxReads
  <2>1. reads \in 0 .. MaxReads /\ MaxReads \in Nat
    BY ErrorsCount, BootAssumption DEF BootInv
  <2> QED BY <1>2, <2>1
<1>9. /\ Disc' = Disc /\ (errors' = 0 => errors = 0)
      /\ DOMAIN read.buf = 1 .. n
      /\ errors' = 0 /\ Disc # NoDisc =>
           \A s \in 1 .. n : FirstSector(f, loc) + s - 1 \in DOMAIN Disc /\ read.buf[s] = Disc[FirstSector(f, loc) + s - 1]
  BY <1>2, <1>3, <1>5, <1>7, <1>8, DiscRead
<1>10. errors = 0 /\ HasVolume
  BY <1>3, <1>9, FileKnown
<1>11. \A s \in 1 .. n : read.buf[s] = Disc[FirstSector(f, loc) + s - 1]
  BY <1>9, <1>10 DEF HasVolume
<1>12. PICK c : c = Copied(read.buf, bytes, loc)
  OBVIOUS
<1>13. PICK w : w = UnitsOn(Disc, f)
  OBVIOUS
<1>14. /\ Len(c) = bytes
       /\ \E S : c \in Seq(S) /\ w \in Seq(S)
       /\ Len(w) = files[f].size
       /\ (loc % BlockSize) + bytes <= SectorsOf(bytes) * BlockSize =>
            \A u \in 1 .. bytes : c[u] = w[loc + u]
  <2>1. /\ DOMAIN read.buf = 1 .. SectorsOf(bytes)
        /\ \A s \in 1 .. SectorsOf(bytes) : read.buf[s] = Disc[FirstSector(f, loc) + s - 1]
    BY <1>4, <1>9, <1>11
  <2>2. FromDisc(read.buf, bytes, f, loc)
    BY <2>1 DEF FromDisc
  <2>3. IsCopied(read.buf, bytes, f, loc)
    BY <1>3, <1>6, <1>7, <1>10, <2>2, CopiedRight
  <2> QED BY <1>12, <1>13, <2>3, Zenon DEF IsCopied
<1>15. answer'.file = f /\ answer'.loc = loc /\ answer'.len = len /\ answer'.data = c
  BY <1>5, <1>12
<1>16. UnitsOn(Disc, f)' = w
  BY <1>3, <1>9, <1>13 DEF UnitsOn, FirstSector
<1>17. ASSUME (loc % BlockSize) + bytes <= SectorsOf(bytes) * BlockSize
       PROVE  c = SubSeq(w, loc + 1, loc + bytes)
  <2>1. PICK S : c \in Seq(S) /\ w \in Seq(S)
    BY <1>14
  <2>2. PICK d : d = SubSeq(w, loc + 1, loc + bytes)
    OBVIOUS
  <2>3. \A i \in loc + 1 .. loc + bytes : w[i] \in S
    <3>1. \A i \in loc + 1 .. loc + bytes : i \in 1 .. files[f].size
      BY <1>6, <1>7
    <3> QED BY <1>14, <2>1, <3>1, LenProperties
  <2>4. PICK from \in Int : from = loc + 1
    BY <1>6
  <2>5. PICK to \in Int : to = loc + bytes
    BY <1>6, <1>7
  <2>6. /\ d \in Seq(S) /\ Len(d) = IF from <= to THEN to - from + 1 ELSE 0
        /\ \A i \in 1 .. to - from + 1 : d[i] = w[from + i - 1]
    BY <2>2, <2>3, <2>4, <2>5, SubSeqProperties
  <2>7. to - from + 1 = bytes /\ (from <= to \/ bytes = 0) /\ \A i \in 1 .. bytes : from + i - 1 = loc + i
    BY <1>6, <1>7, <2>4, <2>5
  <2>8. Len(d) = Len(c) /\ \A i \in 1 .. Len(c) : c[i] = d[i]
    BY <1>14, <1>17, <2>6, <2>7
  <2> QED BY <2>1, <2>2, <2>6, <2>8, SeqEqual
<1>18. AnswerIntact'
  <2>1. ASSUME NEW g, NEW m, g = answer'.file, m = Len(answer'.data),
               (answer'.loc % BlockSize) + m <= SectorsOf(m) * BlockSize
        PROVE  /\ answer'.data = SubSeq(UnitsOn(Disc, g)', answer'.loc + 1, answer'.loc + m)
               /\ m = answer'.len \/ answer'.loc + m = files'[g].size
    <3>1. g = f /\ m = bytes
      BY <1>14, <1>15, <2>1
    <3>2. (loc % BlockSize) + bytes <= SectorsOf(bytes) * BlockSize
      BY <1>15, <2>1, <3>1
    <3>3. c = SubSeq(w, loc + 1, loc + bytes)
      BY <1>17, <3>2
    <3> QED BY <1>3, <1>7, <1>15, <1>16, <3>1, <3>3
  <2> QED BY <2>1, Zenon DEF AnswerIntact
<1>19. ImageIntact'
  BY <1>2, <1>9, SameUnits
<1> QED BY <1>18, <1>19

\* No read takes an error back.
LEMMA ErrorsStay ==
  ASSUME BootInv, OnDrive, NEW lba, NEW n \in Nat, NEW read \in Reads(Volume, lba, n),
         HasRead(Volume, read), errors' = 0
  PROVE  errors = 0
<1>1. errors \in 0 .. MaxErrors /\ errors \in Nat
  BY AtapiAssumption DEF BootInv, DriveInv
<1>2. read.failed \in Nat
  BY <1>1, ReadGives
<1> QED BY <1>1, <1>2 DEF HasRead

LEMMA NextIntact ==
  ASSUME BootInv, FilesIntact, [BootNext]_bootVars
  PROVE  FilesIntact'
<1>1. SUFFICES ASSUME mount' = "mounted", errors' = 0 PROVE ImageIntact' /\ AnswerIntact'
  BY DEF FilesIntact, Undisturbed, ImageIntact, AnswerIntact, Disc
<1>2. mount = "mounted" /\ errors = 0 => ImageIntact /\ AnswerIntact
  BY DEF FilesIntact, Undisturbed, ImageIntact, AnswerIntact, Disc
<1>3. ASSUME UNCHANGED isoVars, Disc' = Disc, errors = 0, UNCHANGED <<ramdisk, answer>>
      PROVE  ImageIntact' /\ AnswerIntact'
  <2>1. mount = "mounted"
    BY <1>1, <1>3 DEF isoVars
  <2> QED BY <1>2, <1>3, <2>1, SameUnits
<1>4. ASSUME UNCHANGED isoVars,
             UNCHANGED <<cmdline, ramdisk, answer, drives, atadevices, atapiDisc, blockdevices, errors, seen>>
      PROVE  ImageIntact' /\ AnswerIntact'
  BY <1>1, <1>3, <1>4, SameDrive
<1>5. ASSUME phase \in {"detect", "init", "volume", "vfat", "iso"}, UNCHANGED isoVars \/ Lost
      PROVE  FALSE
  <2>1. mount \in {"none", "lost"}
    BY <1>5 DEF BootInv, PhaseInv
  <2> QED BY <1>1, <1>5, <2>1 DEF Lost, isoVars
<1>6. CASE BootStep
  <2>1. CASE Detect \/ InitDrives
    BY <1>5, <2>1 DEF Detect, InitDrives, KeepIso
  <2>2. CASE FindVolume
    BY <1>5, <2>2 DEF FindVolume, KeepIso
  <2>3. CASE AskVfat
    BY <1>5, <2>3 DEF AskVfat, KeepIso
  <2>4. CASE AskIso
    BY <1>5, <2>4 DEF AskIso, KeepIso
  <2>5. CASE Mount
    <3>1. ramdisk' = <<>> /\ answer' = NoAnswer
      BY <2>5, MountPhase
    <3>2. answer'.file = 0
      BY <3>1 DEF NoAnswer
    <3> QED BY <3>1, <3>2 DEF ImageIntact, AnswerIntact
  <2>6. CASE ReadImage
    <3>1. phase = "image" /\ UNCHANGED isoVars /\ UNCHANGED <<cmdline, answer, reads>>
      BY <2>6 DEF ReadImage, KeepIso
    <3>2. CASE Found = {}
      BY <1>4, <2>6, <3>1, <3>2 DEF ReadImage, driveVars
    <3>3. CASE Found # {}
      <4>1. mount = "mounted"
        BY <1>1, <3>1 DEF isoVars
      <4>2. PICK f : f = Max(Found)
        OBVIOUS
      <4>3. PICK read \in Reads(Volume, FirstSector(f, 0), SectorsOf(files[f].size)) : HasRead(Volume, read)
        BY <2>6, <3>3, <4>2 DEF ReadImage
      <4>4. OnDrive /\ SectorsOf(files[f].size) \in Nat
        BY <3>1, <3>3, <4>1, <4>2, FoundFile, FileKnown, SectorsHold DEF BootInv, PhaseInv, Files
      <4>5. errors = 0
        BY <1>1, <4>3, <4>4, ErrorsStay
      <4> QED BY <1>1, <1>2, <2>6, <3>3, <4>1, <4>5, ReadImageIntact
    <3> QED BY <3>2, <3>3
  <2>7. CASE MountRamdisk
    BY <1>4, <2>7 DEF MountRamdisk, KeepIso, driveVars
  <2> QED BY <1>6, <2>1, <2>2, <2>3, <2>4, <2>5, <2>6, <2>7 DEF BootStep
<1>7. CASE \E f \in DOMAIN files : \E loc \in 0..(files[f].size - 1) : \E len \in 1..files[f].size :
             ReadFile(f, loc, len)
  <2>1. PICK f \in DOMAIN files : \E loc \in 0..(files[f].size - 1) : \E len \in 1..files[f].size :
               ReadFile(f, loc, len)
    BY <1>7
  <2>2. PICK loc \in 0..(files[f].size - 1) : \E len \in 1..files[f].size : ReadFile(f, loc, len)
    BY <2>1
  <2>3. PICK len \in 1..files[f].size : ReadFile(f, loc, len)
    BY <2>2
  <2>4. mount = "mounted"
    BY <1>1, <2>3 DEF ReadFile, KeepIso, isoVars
  <2>5. PICK read \in Reads(Volume, FirstSector(f, loc), SectorsOf(BytesOf(f, len, loc))) : HasRead(Volume, read)
    BY <2>3 DEF ReadFile
  <2>6. OnDrive /\ SectorsOf(BytesOf(f, len, loc)) \in Nat
    BY <2>4, FileKnown, BytesCount, SectorsHold DEF BootInv, PhaseInv
  <2>7. errors = 0
    BY <1>1, <2>5, <2>6, ErrorsStay
  <2> QED BY <1>1, <1>2, <2>3, <2>4, <2>7, ReadFileIntact
<1>8. CASE UNCHANGED bootVars
  BY <1>4, <1>8 DEF bootVars, driveVars
<1> QED BY <1>6, <1>7, <1>8 DEF BootNext

\* The RAM disk is the boot.img of the disc, and a read of a program returns the
\* bytes of the file and no more than are there, where no read has failed and
\* the sectors that accessfile asks for reach the end of the bytes.
THEOREM FilesStayIntact == BootSpec => []FilesIntact
<1>1. BootInit => FilesIntact
  BY DEF BootInit, IsoInit, FilesIntact, Undisturbed
<1>2. BootInv /\ FilesIntact /\ [BootNext]_bootVars => FilesIntact'
  BY NextIntact
<1> QED BY <1>1, <1>2, BootInvariant, PTL DEF BootSpec

-----------------------------------------------------------------------------
(* The tree and the disc.                                                   *)

\* The directories are those of the path table.
IsMounted ==
  /\ DriveInv /\ OnDrive /\ HasVolume
  /\ dirs \in Seq(Entries) /\ IsTree(dirs) /\ dirs = Directories(PathTable(Disc))

\* What a record is in the tree of the disc, below the directory d.
Below(d, r) == [path |-> Append(d.path, r.name), dir |-> r.dir, loc |-> r.loc, size |-> r.size]
DirectoryItem(k) == [path |-> NamesTo(k), dir |-> TRUE, loc |-> Layout[k].loc, size |-> Layout[k].size]
FileItem(p) == [path |-> Append(NamesTo(p[1]), p[2].name), loc |-> p[2].loc, size |-> p[2].size]

LEMMA MountedTable ==
  ASSUME IsMounted
  PROVE  /\ Len(dirs) \in Nat \ {0} /\ DOMAIN dirs = 1 .. Len(dirs) /\ Len(PathTable(Disc)) = Len(dirs)
         /\ \A k \in 2 .. Len(dirs) :
              /\ dirs[k].parent = PathTable(Disc)[k].parent /\ dirs[k].name = PathTable(Disc)[k].name
              /\ dirs[k].parent \in 1 .. k - 1 /\ dirs[k].name \in STRING
<1>1. PathTable(Disc) \in Seq(Entries) /\ PathTable(Disc) # <<>>
  BY VolumeKnown DEF IsMounted
<1>2. PICK table : table = PathTable(Disc)
  OBVIOUS
<1>3. DOMAIN dirs = DOMAIN table
  BY <1>2 DEF IsMounted, Directories
<1>4. \A k \in DOMAIN table :
        dirs[k] = [name |-> table[k].name, parent |-> IF k = Root THEN 0 ELSE table[k].parent]
  BY <1>2 DEF IsMounted, Directories
<1>5. Len(table) \in Nat \ {0} /\ DOMAIN table = 1 .. Len(table)
  BY <1>1, <1>2, LenProperties, EmptySeq
<1>6. Len(dirs) = Len(table) /\ DOMAIN dirs = 1 .. Len(dirs)
  BY <1>3, <1>5, LenProperties DEF IsMounted
<1>7. ASSUME NEW k \in 2 .. Len(dirs)
      PROVE  /\ dirs[k].parent = table[k].parent /\ dirs[k].name = table[k].name
             /\ dirs[k].parent \in 1 .. k - 1 /\ dirs[k].name \in STRING
  <2>1. k \in DOMAIN table /\ k # Root /\ k \in DOMAIN dirs
    BY <1>3, <1>5, <1>6 DEF Root
  <2>2. dirs[k].parent \in 1 .. k - 1
    BY <2>1 DEF IsMounted, IsTree
  <2>3. dirs[k] \in Entries
    BY <2>1, LenProperties DEF IsMounted
  <2>4. table[k].parent = dirs[k].parent /\ table[k].name = dirs[k].name
    <3>1. PICK t : t = table[k]
      OBVIOUS
    <3>2. dirs[k] = [name |-> t.name, parent |-> t.parent]
      BY <1>3, <1>4, <2>1, <3>1
    <3> QED BY <3>1, <3>2
  <2> QED BY <2>2, <2>3, <2>4 DEF Entries
<1> QED BY <1>2, <1>5, <1>6, <1>7

\* Boolean fields.
LEMMA DirField ==
  ASSUME NEW r \in Records
  PROVE  (r.dir => r.dir = TRUE) /\ (~r.dir => r.dir = FALSE)
<1>1. r.dir \in BOOLEAN
  BY DEF Records
<1> QED BY <1>1, Zenon

\* The records of a directory are its subdirectories, each of them where it
\* lies, and files.
LEMMA Subdirectories ==
  ASSUME IsMounted, NEW k \in DOMAIN dirs
  PROVE  /\ ToSet(RecordsOf(k)) \subseteq Records
         /\ \A r \in ToSet(RecordsOf(k)) : r.dir =>
              \E c \in DOMAIN dirs : c # Root /\ dirs[c].parent = k /\ Below(DirectoryItem(k), r) = DirectoryItem(c)
         /\ \A c \in DOMAIN dirs : c # Root /\ dirs[c].parent = k =>
              \E r \in ToSet(RecordsOf(k)) : r.dir /\ Below(DirectoryItem(k), r) = DirectoryItem(c)
<1>1. PICK table : table = PathTable(Disc)
  OBVIOUS
<1>2. /\ DOMAIN dirs = 1 .. Len(dirs) /\ Len(dirs) \in Nat \ {0} /\ Len(table) = Len(dirs)
      /\ \A c \in 2 .. Len(dirs) : dirs[c].parent = table[c].parent /\ dirs[c].name = table[c].name
  BY <1>1, MountedTable
<1>3. RecordsOf(k) \in Seq(Records)
  BY <1>1, <1>2, RecordsOfTyped DEF IsMounted
<1>4. \A r \in ToSet(RecordsOf(k)) : r \in Records /\ \E i \in DOMAIN RecordsOf(k) : r = RecordsOf(k)[i]
  BY <1>3, LenProperties DEF ToSet
<1>5. /\ \A c \in 2 .. Len(table) : \E r \in ToSet(RecordsOf(table[c].parent)) :
           r.dir /\ r.name = table[c].name /\ Extent(r) = Layout[c]
      /\ \A i, j \in DOMAIN RecordsOf(k) : RecordsOf(k)[i].name = RecordsOf(k)[j].name => i = j
      /\ \A i \in DOMAIN RecordsOf(k) : RecordsOf(k)[i].dir =>
           \E c \in 2 .. Len(table) : table[c].parent = k /\ table[c].name = RecordsOf(k)[i].name
  <2>1. IsLaidOut(Disc, Layout)
    BY VolumeKnown DEF IsMounted
  <2> QED BY <1>1, <1>2, <2>1 DEF IsLaidOut, RecordsOf
<1>6. ASSUME NEW c \in 2 .. Len(table), table[c].parent = k, NEW r \in ToSet(RecordsOf(k)),
             r.dir, r.name = table[c].name, Extent(r) = Layout[c]
      PROVE  Below(DirectoryItem(k), r) = DirectoryItem(c)
  <2>1. c \in DOMAIN dirs /\ c # Root /\ dirs[c].parent = k /\ dirs[c].name = r.name
    BY <1>2, <1>6 DEF Root
  <2>2. NamesTo(c) = Append(NamesTo(k), r.name)
    BY <2>1, NamesDown DEF IsMounted
  <2>3. r.dir = TRUE
    BY <1>4, <1>6, DirField
  <2>4. r.loc = Layout[c].loc /\ r.size = Layout[c].size
    BY <1>6 DEF Extent
  <2>5. DirectoryItem(k).path = NamesTo(k)
    BY DEF DirectoryItem
  <2> QED BY <2>2, <2>3, <2>4, <2>5, Zenon DEF Below, DirectoryItem
<1>7. ASSUME NEW r \in ToSet(RecordsOf(k)), r.dir
      PROVE  \E c \in DOMAIN dirs : c # Root /\ dirs[c].parent = k /\ Below(DirectoryItem(k), r) = DirectoryItem(c)
  <2>1. PICK i \in DOMAIN RecordsOf(k) : r = RecordsOf(k)[i]
    BY <1>4
  <2>2. PICK c \in 2 .. Len(table) : table[c].parent = k /\ table[c].name = r.name
    BY <1>5, <1>7, <2>1
  <2>3. PICK x \in ToSet(RecordsOf(k)) : x.dir /\ x.name = table[c].name /\ Extent(x) = Layout[c]
    BY <1>5, <2>2
  <2>4. x = r
    BY <1>4, <1>5, <2>1, <2>2, <2>3
  <2>5. Below(DirectoryItem(k), r) = DirectoryItem(c)
    BY <1>6, <1>7, <2>2, <2>3, <2>4
  <2> QED BY <1>2, <2>2, <2>5 DEF Root
<1>8. ASSUME NEW c \in DOMAIN dirs, c # Root, dirs[c].parent = k
      PROVE  \E r \in ToSet(RecordsOf(k)) : r.dir /\ Below(DirectoryItem(k), r) = DirectoryItem(c)
  <2>1. c \in 2 .. Len(table) /\ table[c].parent = k
    BY <1>2, <1>8 DEF Root
  <2>2. PICK r \in ToSet(RecordsOf(k)) : r.dir /\ r.name = table[c].name /\ Extent(r) = Layout[c]
    BY <1>5, <2>1
  <2> QED BY <1>6, <2>1, <2>2
<1> QED BY <1>4, <1>7, <1>8

\* A sequence and its last item determine what it was before.
LEMMA SameItems ==
  ASSUME NEW S, NEW s \in Seq(S), NEW t \in Seq(S), NEW x \in S, NEW y \in S, Append(s, x) = Append(t, y)
  PROVE  s = t /\ x = y
<1>1. PICK u : u = Append(s, x)
  OBVIOUS
<1>2. Len(s) \in Nat /\ Len(u) = Len(s) + 1 /\ u[Len(s) + 1] = x /\ \A i \in 1 .. Len(s) : u[i] = s[i]
  BY <1>1, ItemAdded
<1>3. Len(t) \in Nat /\ Len(u) = Len(t) + 1 /\ u[Len(t) + 1] = y /\ \A i \in 1 .. Len(t) : u[i] = t[i]
  BY <1>1, ItemAdded
<1>4. Len(s) = Len(t) /\ \A i \in 1 .. Len(s) : s[i] = t[i]
  BY <1>2, <1>3
<1> QED BY <1>2, <1>3, <1>4, SeqEqual

\* No two directories have the same names.
LEMMA NamesDiffer ==
  ASSUME IsMounted, NEW j \in DOMAIN dirs, NEW k \in DOMAIN dirs, NamesTo(j) = NamesTo(k)
  PROVE  j = k
<1>1. /\ DOMAIN dirs = 1 .. Len(dirs) /\ Len(dirs) \in Nat \ {0} /\ Len(PathTable(Disc)) = Len(dirs)
      /\ \A c \in 2 .. Len(dirs) :
           /\ dirs[c].parent = PathTable(Disc)[c].parent /\ dirs[c].name = PathTable(Disc)[c].name
           /\ dirs[c].parent \in 1 .. c - 1 /\ dirs[c].name \in STRING
  BY MountedTable
<1>2. \A c, d \in 2 .. Len(dirs) : dirs[c].parent = dirs[d].parent /\ dirs[c].name = dirs[d].name => c = d
  <2>1. IsLaidOut(Disc, Layout)
    BY VolumeKnown DEF IsMounted
  <2>2. \A c, d \in 2 .. Len(PathTable(Disc)) :
          /\ PathTable(Disc)[c].parent = PathTable(Disc)[d].parent
          /\ PathTable(Disc)[c].name = PathTable(Disc)[d].name
          => c = d
    BY <2>1 DEF IsLaidOut
  <2> QED BY <1>1, <2>2
<1>3. ASSUME NEW c \in DOMAIN dirs, c # Root
      PROVE  /\ c \in 2 .. Len(dirs)
             /\ dirs[c].parent \in DOMAIN dirs /\ dirs[c].name \in STRING
             /\ NamesTo(dirs[c].parent) \in Seq(STRING)
             /\ NamesTo(c) = Append(NamesTo(dirs[c].parent), dirs[c].name)
             /\ NamesTo(c) # <<>>
  <2>1. c \in 2 .. Len(dirs)
    BY <1>1, <1>3 DEF Root
  <2>2. dirs[c].parent \in DOMAIN dirs /\ dirs[c].name \in STRING
    BY <1>1, <2>1
  <2>3. NamesTo(dirs[c].parent) \in Seq(STRING)
    BY <2>2, NamesTyped DEF IsMounted
  <2>4. NamesTo(c) = Append(NamesTo(dirs[c].parent), dirs[c].name)
    BY <1>3, NamesDown DEF IsMounted
  <2> QED BY <2>1, <2>2, <2>3, <2>4, AppendProperties
<1>4. NamesTo(Root) = <<>>
  <2>1. Root \in DOMAIN dirs
    BY <1>1 DEF Root
  <2> QED BY <2>1, NamesDown DEF IsMounted
<1> DEFINE Named == {c \in DOMAIN dirs : \A d \in DOMAIN dirs : NamesTo(d) = NamesTo(c) => d = c}
<1>5. ASSUME NEW c \in DOMAIN dirs, c = Root \/ dirs[c].parent \in Named PROVE c \in Named
  <2>1. SUFFICES ASSUME NEW d \in DOMAIN dirs, NamesTo(d) = NamesTo(c) PROVE d = c
    OBVIOUS
  <2>2. CASE c = Root \/ d = Root
    BY <1>3, <1>4, <2>1, <2>2
  <2>3. CASE c # Root /\ d # Root
    <3>0. PICK T : T = STRING
      OBVIOUS
    <3>3. PICK s \in Seq(T) : s = NamesTo(dirs[d].parent)
      BY <1>3, <2>3, <3>0
    <3>4. PICK t \in Seq(T) : t = NamesTo(dirs[c].parent)
      BY <1>3, <2>3, <3>0
    <3>5. PICK x \in T : x = dirs[d].name
      BY <1>3, <2>3, <3>0
    <3>6. PICK y \in T : y = dirs[c].name
      BY <1>3, <2>3, <3>0
    <3>7. Append(s, x) = Append(t, y)
      BY <1>3, <2>1, <2>3, <3>3, <3>4, <3>5, <3>6
    <3>8. s = t /\ x = y
      BY <3>7, SameItems
    <3>1. NamesTo(dirs[d].parent) = NamesTo(dirs[c].parent) /\ dirs[d].name = dirs[c].name
      BY <3>3, <3>4, <3>5, <3>6, <3>8
    <3>2. dirs[d].parent = dirs[c].parent
      BY <1>3, <1>5, <2>3, <3>1
    <3> QED BY <1>2, <1>3, <2>3, <3>1, <3>2
  <2> QED BY <2>2, <2>3
<1>6. DOMAIN dirs \subseteq Named
  <2> HIDE DEF Named
  <2> QED BY <1>5, TreeInduction DEF IsMounted
<1> QED BY <1>6

\* What is at a depth of a disc, by what is one level up.
AtTop(disc) ==
  {[path |-> <<>>, dir |-> TRUE, loc |-> disc[PvdSector].root.loc, size |-> disc[PvdSector].root.size]}
Under(disc, items) ==
  UNION {{[path |-> Append(d.path, r.name), dir |-> r.dir, loc |-> r.loc, size |-> r.size] :
            r \in OnDisc(disc, d.loc, d.size)} : d \in {e \in items : e.dir}}
DepthOf(entries, disc, n) == IF n = 0 THEN AtTop(disc) ELSE Under(disc, entries[n - 1])
AreDepthsUpTo(entries, disc, m) == entries = [n \in 0 .. m |-> DepthOf(entries, disc, n)]
AreDepths(entries, disc) ==
  entries =
    [n \in 0..Len(disc[disc[PvdSector].table.loc].entries) |->
        IF n = 0 THEN {[path |-> <<>>, dir |-> TRUE, loc |-> disc[PvdSector].root.loc, size |-> disc[PvdSector].root.size]}
        ELSE UNION {{[path |-> Append(d.path, r.name), dir |-> r.dir, loc |-> r.loc, size |-> r.size] :
                       r \in OnDisc(disc, d.loc, d.size)} : d \in {e \in entries[n - 1] : e.dir}}]

LEMMA DepthsExist ==
  ASSUME NEW disc, NEW n \in Nat
  PROVE  \E entries : AreDepthsUpTo(entries, disc, n)
<1> DEFINE T == {m \in Nat : \E t : AreDepthsUpTo(t, disc, m)}
<1>1. 0 \in T
  <2>1. PICK t : t = [i \in 0 .. 0 |-> AtTop(disc)]
    OBVIOUS
  <2>2. \A i \in 0 .. 0 : i = 0
    OBVIOUS
  <2>3. AreDepthsUpTo(t, disc, 0)
    BY <2>1, <2>2 DEF AreDepthsUpTo, DepthOf
  <2> QED BY <2>3
<1>2. ASSUME NEW m \in Nat, m \in T PROVE m + 1 \in T
  <2>1. PICK t : t = [i \in 0 .. m |-> DepthOf(t, disc, i)]
    BY <1>2 DEF AreDepthsUpTo
  <2>2. PICK x : x = DepthOf(t, disc, m + 1)
    OBVIOUS
  <2>3. PICK g : g = [i \in 0 .. m + 1 |-> IF i = m + 1 THEN x ELSE t[i]]
    OBVIOUS
  <2>4. \A i \in 0 .. m : i \in 0 .. m + 1 /\ i # m + 1 /\ g[i] = t[i]
    BY <2>3
  <2>5. ASSUME NEW i \in 0 .. m + 1 PROVE DepthOf(g, disc, i) = DepthOf(t, disc, i)
    <3>1. CASE i = 0
      BY <3>1 DEF DepthOf
    <3>2. CASE i # 0
      <4>1. i - 1 \in 0 .. m
        BY <3>2
      <4>2. g[i - 1] = t[i - 1]
        BY <2>4, <4>1
      <4> QED BY <4>2 DEF DepthOf
    <3> QED BY <3>1, <3>2
  <2>6. ASSUME NEW i \in 0 .. m + 1 PROVE g[i] = DepthOf(g, disc, i)
    <3>1. CASE i = m + 1
      BY <2>2, <2>3, <2>5, <3>1
    <3>2. CASE i # m + 1
      <4>1. i \in 0 .. m
        BY <3>2
      <4>2. t[i] = DepthOf(t, disc, i)
        BY <2>1, <4>1
      <4> QED BY <2>4, <2>5, <4>1, <4>2
    <3> QED BY <3>1, <3>2
  <2>7. AreDepthsUpTo(g, disc, m + 1)
    BY <2>3, <2>6 DEF AreDepthsUpTo
  <2> QED BY <2>7
<1>3. n \in T
  <2> HIDE DEF T
  <2> QED BY <1>1, <1>2, AllNumbers
<1> QED BY <1>3

\* The disc has as many depths as the path table has directories.
LEMMA Depths ==
  ASSUME IsMounted
  PROVE  /\ DOMAIN AtDepth(Disc) = 0 .. Len(dirs)
         /\ AtDepth(Disc)[0] = AtTop(Disc)
         /\ \A n \in 1 .. Len(dirs) : AtDepth(Disc)[n] = Under(Disc, AtDepth(Disc)[n - 1])
<1>1. PICK disc : disc = Disc
  OBVIOUS
<1>2. Len(dirs) \in Nat \ {0} /\ Len(disc[disc[PvdSector].table.loc].entries) = Len(dirs)
  BY <1>1, MountedTable DEF PathTable
<1>3. PICK t : AreDepthsUpTo(t, disc, Len(dirs))
  BY <1>2, DepthsExist
<1>4. t = [n \in 0 .. Len(disc[disc[PvdSector].table.loc].entries) |-> DepthOf(t, disc, n)]
  BY <1>2, <1>3 DEF AreDepthsUpTo
<1>5. AreDepths(t, disc)
  BY <1>4, Zenon DEF AreDepths, DepthOf, AtTop, Under
<1>6. PICK entries : entries = CHOOSE x : AreDepths(x, disc)
  OBVIOUS
<1>7. AreDepths(entries, disc)
  BY <1>5, <1>6
<1>8. AtDepth(disc) = entries
  BY <1>6, Zenon DEF AtDepth, AreDepths
<1>9. entries = [n \in 0 .. Len(disc[disc[PvdSector].table.loc].entries) |-> DepthOf(entries, disc, n)]
  BY <1>7, Zenon DEF AreDepths, DepthOf, AtTop, Under
<1>10. DOMAIN entries = 0 .. Len(dirs) /\ \A n \in 0 .. Len(dirs) : entries[n] = DepthOf(entries, disc, n)
  BY <1>2, <1>9
<1>11. entries[0] = AtTop(disc) /\ \A n \in 1 .. Len(dirs) : entries[n] = Under(disc, entries[n - 1])
  BY <1>2, <1>10 DEF DepthOf
<1> QED BY <1>1, <1>8, <1>10, <1>11

\* What is one level down from some directories.
LEMMA UnderThese ==
  ASSUME IsMounted, NEW K \in SUBSET DOMAIN dirs, NEW items,
         {e \in items : e.dir} = {DirectoryItem(k) : k \in K}
  PROVE  \A x : x \in Under(Disc, items) <=>
                  \E k \in K : \E r \in ToSet(RecordsOf(k)) : x = Below(DirectoryItem(k), r)
<1>1. ASSUME NEW k \in K
      PROVE  OnDisc(Disc, DirectoryItem(k).loc, DirectoryItem(k).size) = ToSet(RecordsOf(k))
  <2>1. k \in 1 .. Len(PathTable(Disc))
    BY MountedTable
  <2>2. DirectoryItem(k).loc = Layout[k].loc /\ DirectoryItem(k).size = Layout[k].size
    BY DEF DirectoryItem
  <2> QED BY <2>1, <2>2, RecordsOfTyped DEF IsMounted
<1>2. PICK D : D = {e \in items : e.dir}
  OBVIOUS
<1>3. Under(Disc, items) =
        UNION {{[path |-> Append(d.path, r.name), dir |-> r.dir, loc |-> r.loc, size |-> r.size] :
                  r \in OnDisc(Disc, d.loc, d.size)} : d \in D}
  BY <1>2, Zenon DEF Under
<1>4. Under(Disc, items) = UNION {{Below(d, r) : r \in OnDisc(Disc, d.loc, d.size)} : d \in D}
  BY <1>3, Zenon DEF Below
<1>5. ASSUME NEW x
      PROVE  x \in Under(Disc, items) <=> \E d \in D : \E r \in OnDisc(Disc, d.loc, d.size) : x = Below(d, r)
  BY <1>4
<1>6. \A d : d \in D <=> \E k \in K : d = DirectoryItem(k)
  BY <1>2
<1>7. ASSUME NEW x
      PROVE  x \in Under(Disc, items) <=>
               \E k \in K : \E r \in ToSet(RecordsOf(k)) : x = Below(DirectoryItem(k), r)
  BY <1>1, <1>5, <1>6
<1> QED BY <1>7

\* The directories at a depth are those with as many names.
LEMMA DirectoriesAtDepth ==
  ASSUME IsMounted, NEW n \in 0 .. Len(dirs)
  PROVE  {e \in AtDepth(Disc)[n] : e.dir} = {DirectoryItem(k) : k \in {j \in DOMAIN dirs : Len(NamesTo(j)) = n}}
<1>1. PICK entries : entries = AtDepth(Disc)
  OBVIOUS
<1> DEFINE At(m) == {j \in DOMAIN dirs : Len(NamesTo(j)) = m}
           T == {m \in Nat : m <= Len(dirs) => {e \in entries[m] : e.dir} = {DirectoryItem(k) : k \in At(m)}}
<1>2. /\ Len(dirs) \in Nat \ {0} /\ DOMAIN dirs = 1 .. Len(dirs)
      /\ \A k \in DOMAIN dirs : k # Root => dirs[k].parent \in DOMAIN dirs
  BY MountedTable DEF Root
<1>3. ASSUME NEW k \in DOMAIN dirs
      PROVE  IF k = Root THEN NamesTo(k) = <<>>
             ELSE Len(NamesTo(k)) = Len(NamesTo(dirs[k].parent)) + 1 /\ Len(NamesTo(dirs[k].parent)) \in Nat
  <2>1. CASE k = Root
    BY <2>1, NamesDown DEF IsMounted
  <2>2. CASE k # Root
    <3>1. NamesTo(k) = Append(NamesTo(dirs[k].parent), dirs[k].name)
      BY <2>2, NamesDown DEF IsMounted
    <3>2. NamesTo(dirs[k].parent) \in Seq(STRING)
      BY <1>2, <2>2, NamesTyped DEF IsMounted
    <3>3. k \in 2 .. Len(dirs)
      BY <1>2, <2>2 DEF Root
    <3>4. dirs[k].name \in STRING
      BY <3>3, MountedTable
    <3> QED BY <2>2, <3>1, <3>2, <3>4, AppendProperties, LenProperties
  <2> QED BY <2>1, <2>2
<1>4. 0 \in T
  <2>1. entries[0] = AtTop(Disc)
    BY <1>1, Depths
  <2>2. At(0) = {Root}
    <3>1. \A k \in DOMAIN dirs : Len(NamesTo(k)) = 0 <=> k = Root
      BY <1>3
    <3>2. Root \in DOMAIN dirs
      BY <1>2 DEF Root
    <3> QED BY <3>1, <3>2
  <2>3. AtTop(Disc) = {DirectoryItem(Root)}
    <3>1. Layout[Root] = Extent(Disc[PvdSector].root)
      BY VolumeKnown DEF IsMounted, IsLaidOut
    <3>2. Layout[Root].loc = Disc[PvdSector].root.loc /\ Layout[Root].size = Disc[PvdSector].root.size
      BY <3>1 DEF Extent
    <3>3. Root \in DOMAIN dirs
      BY <1>2 DEF Root
    <3>4. NamesTo(Root) = <<>>
      BY <1>3, <3>3
    <3> QED BY <3>2, <3>4, Zenon DEF AtTop, DirectoryItem
  <2>4. DirectoryItem(Root).dir
    BY DEF DirectoryItem
  <2>5. {e \in entries[0] : e.dir} = {DirectoryItem(Root)}
    BY <2>1, <2>3, <2>4
  <2> QED BY <2>2, <2>5
<1>5. ASSUME NEW m \in Nat, m \in T PROVE m + 1 \in T
  <2>1. SUFFICES ASSUME m + 1 <= Len(dirs)
                 PROVE  {e \in entries[m + 1] : e.dir} = {DirectoryItem(k) : k \in At(m + 1)}
    OBVIOUS
  <2>2. {e \in entries[m] : e.dir} = {DirectoryItem(k) : k \in At(m)}
    BY <1>2, <1>5, <2>1
  <2>3. entries[m + 1] = Under(Disc, entries[m])
    <3>1. m + 1 \in 1 .. Len(dirs) /\ (m + 1) - 1 = m
      BY <1>2, <2>1
    <3> QED BY <1>1, <3>1, Depths
  <2>4. \A x : x \in entries[m + 1] <=> \E k \in At(m) : \E r \in ToSet(RecordsOf(k)) : x = Below(DirectoryItem(k), r)
    <3>1. PICK K \in SUBSET DOMAIN dirs : K = At(m)
      OBVIOUS
    <3>2. {e \in entries[m] : e.dir} = {DirectoryItem(k) : k \in K}
      BY <2>2, <3>1
    <3>3. \A x : x \in Under(Disc, entries[m]) <=>
                   \E k \in K : \E r \in ToSet(RecordsOf(k)) : x = Below(DirectoryItem(k), r)
      BY <3>2, UnderThese
    <3> QED BY <2>3, <3>1, <3>3, Zenon
  <2>5. ASSUME NEW x \in entries[m + 1], x.dir PROVE \E c \in At(m + 1) : x = DirectoryItem(c)
    <3>1. PICK k \in At(m) : \E r \in ToSet(RecordsOf(k)) : x = Below(DirectoryItem(k), r)
      BY <2>4
    <3>2. PICK r \in ToSet(RecordsOf(k)) : x = Below(DirectoryItem(k), r)
      BY <3>1
    <3>3. r.dir
      BY <2>5, <3>2, Zenon DEF Below
    <3>4. PICK c \in DOMAIN dirs : c # Root /\ dirs[c].parent = k /\ Below(DirectoryItem(k), r) = DirectoryItem(c)
      BY <3>3, Subdirectories
    <3>5. Len(NamesTo(c)) = m + 1
      BY <1>3, <3>4
    <3> QED BY <3>2, <3>4, <3>5
  <2>6. ASSUME NEW c \in At(m + 1) PROVE DirectoryItem(c) \in entries[m + 1] /\ DirectoryItem(c).dir
    <3>1. c # Root
      BY <1>3
    <3>2. PICK k : k = dirs[c].parent
      OBVIOUS
    <3>3. k \in At(m)
      BY <1>2, <1>3, <3>1, <3>2
    <3>4. PICK r \in ToSet(RecordsOf(k)) : Below(DirectoryItem(k), r) = DirectoryItem(c)
      BY <3>1, <3>2, <3>3, Subdirectories
    <3>5. DirectoryItem(c).dir
      BY DEF DirectoryItem
    <3> QED BY <2>4, <3>3, <3>4, <3>5
  <2> HIDE DEF At
  <2> QED BY <2>5, <2>6
<1>6. n \in T
  <2> HIDE DEF T
  <2> QED BY <1>4, <1>5, AllNumbers
<1> QED BY <1>1, <1>2, <1>6

\* A directory has fewer names than its place in the table.
LEMMA NamesFew ==
  ASSUME IsMounted, NEW k \in DOMAIN dirs
  PROVE  Len(NamesTo(k)) \in 0 .. k - 1
<1> DEFINE S == {c \in DOMAIN dirs : Len(NamesTo(c)) \in 0 .. c - 1}
<1>1. DOMAIN dirs = 1 .. Len(dirs) /\ Len(dirs) \in Nat \ {0}
  BY MountedTable
<1>2. ASSUME NEW c \in DOMAIN dirs, c = Root \/ dirs[c].parent \in S PROVE c \in S
  <2>1. CASE c = Root
    <3>1. NamesTo(c) = <<>>
      BY <2>1, NamesDown DEF IsMounted
    <3> QED BY <1>1, <2>1, <3>1 DEF Root
  <2>2. CASE c # Root
    <3>1. c \in 2 .. Len(dirs)
      BY <1>1, <2>2 DEF Root
    <3>2. dirs[c].parent \in 1 .. c - 1 /\ dirs[c].name \in STRING
      BY <3>1, MountedTable
    <3>3. Len(NamesTo(dirs[c].parent)) \in 0 .. dirs[c].parent - 1
      BY <1>2, <2>2
    <3>4. NamesTo(dirs[c].parent) \in Seq(STRING)
      BY <1>2, <2>2, NamesTyped DEF IsMounted
    <3>5. NamesTo(c) = Append(NamesTo(dirs[c].parent), dirs[c].name)
      BY <2>2, NamesDown DEF IsMounted
    <3>6. Len(NamesTo(c)) = Len(NamesTo(dirs[c].parent)) + 1
      BY <3>2, <3>4, <3>5, AppendProperties
    <3> QED BY <1>1, <3>2, <3>3, <3>6
  <2> QED BY <2>1, <2>2
<1>3. DOMAIN dirs \subseteq S
  <2> HIDE DEF S
  <2> QED BY <1>2, TreeInduction DEF IsMounted
<1> QED BY <1>3

\* What is on the disc below its directories, and nothing else.
LEMMA FilesOfDisc ==
  ASSUME IsMounted
  PROVE  FilesOn(Disc) = {FileItem(p) : p \in FilesUpTo(Len(dirs))}
<1>1. PICK entries : entries = AtDepth(Disc)
  OBVIOUS
<1>2. DOMAIN dirs = 1 .. Len(dirs) /\ Len(dirs) \in Nat \ {0}
  BY MountedTable
<1>3. PICK items : items = {x \in UNION {entries[n] : n \in DOMAIN entries} : ~x.dir}
  OBVIOUS
<1>4. FilesOn(Disc) = {[path |-> e.path, loc |-> e.loc, size |-> e.size] : e \in items}
  BY <1>1, <1>3, Zenon DEF FilesOn
<1>5. DOMAIN entries = 0 .. Len(dirs)
  BY <1>1, Depths
<1>6. ASSUME NEW n \in 1 .. Len(dirs), NEW x
      PROVE  x \in entries[n] <=>
               \E k \in DOMAIN dirs : Len(NamesTo(k)) = n - 1 /\ \E r \in ToSet(RecordsOf(k)) : x = Below(DirectoryItem(k), r)
  <2>1. n - 1 \in 0 .. Len(dirs)
    BY <1>2
  <2>2. PICK K \in SUBSET DOMAIN dirs : K = {j \in DOMAIN dirs : Len(NamesTo(j)) = n - 1}
    OBVIOUS
  <2>3. {e \in entries[n - 1] : e.dir} = {DirectoryItem(k) : k \in K}
    BY <1>1, <2>1, <2>2, DirectoriesAtDepth
  <2>4. x \in Under(Disc, entries[n - 1]) <=>
          \E k \in K : \E r \in ToSet(RecordsOf(k)) : x = Below(DirectoryItem(k), r)
    BY <2>3, UnderThese
  <2>5. entries[n] = Under(Disc, entries[n - 1])
    BY <1>1, Depths
  <2> QED BY <2>2, <2>4, <2>5, Zenon
<1>7. ASSUME NEW k \in DOMAIN dirs, NEW r \in ToSet(RecordsOf(k)), ~r.dir
      PROVE  /\ r \in Records /\ <<k, r>> \in FilesUpTo(Len(dirs))
             /\ FileItem(<<k, r>>) = [path |-> Below(DirectoryItem(k), r).path, loc |-> Below(DirectoryItem(k), r).loc,
                                      size |-> Below(DirectoryItem(k), r).size]
  <2>1. r \in Records
    BY Subdirectories
  <2>2. <<k, r>> \in FilesUpTo(Len(dirs))
    BY <1>2, <1>7, <2>1 DEF FilesUpTo, FilesOf
  <2>3. PICK d : d = Below(DirectoryItem(k), r)
    OBVIOUS
  <2>4. d.path = Append(NamesTo(k), r.name) /\ d.loc = r.loc /\ d.size = r.size
    <3>1. DirectoryItem(k).path = NamesTo(k)
      BY DEF DirectoryItem
    <3> QED BY <2>3, <3>1 DEF Below
  <2>5. FileItem(<<k, r>>) = [path |-> Append(NamesTo(k), r.name), loc |-> r.loc, size |-> r.size]
    BY Zenon DEF FileItem
  <2>6. FileItem(<<k, r>>) = [path |-> d.path, loc |-> d.loc, size |-> d.size]
    BY <2>4, <2>5, Zenon
  <2> QED BY <2>1, <2>2, <2>3, <2>6, Zenon
<1>8. ASSUME NEW e \in items
      PROVE  [path |-> e.path, loc |-> e.loc, size |-> e.size] \in {FileItem(p) : p \in FilesUpTo(Len(dirs))}
  <2>1. PICK n \in 0 .. Len(dirs) : e \in entries[n]
    BY <1>3, <1>5
  <2>2. ~e.dir
    BY <1>3
  <2>3. n # 0
    <3>1. SUFFICES ASSUME n = 0 PROVE FALSE
      OBVIOUS
    <3>2. entries[0] = AtTop(Disc)
      BY <1>1, Depths
    <3>3. e.dir = TRUE
      BY <2>1, <3>1, <3>2 DEF AtTop
    <3> QED BY <2>2, <3>3
  <2>4. PICK k \in DOMAIN dirs : \E r \in ToSet(RecordsOf(k)) : e = Below(DirectoryItem(k), r)
    BY <1>2, <1>6, <2>1, <2>3
  <2>5. PICK r \in ToSet(RecordsOf(k)) : e = Below(DirectoryItem(k), r)
    BY <2>4
  <2>6. ~r.dir
    BY <2>2, <2>5, Zenon DEF Below
  <2> QED BY <1>7, <2>5, <2>6
<1>9. ASSUME NEW p \in FilesUpTo(Len(dirs))
      PROVE  FileItem(p) \in FilesOn(Disc)
  <2>1. PICK k \in 1 .. Len(dirs) : \E r \in Records : p = <<k, r>>
    BY DEF FilesUpTo
  <2>2. PICK r \in Records : p = <<k, r>>
    BY <2>1
  <2>3. r \in ToSet(RecordsOf(k)) /\ ~r.dir
    BY <2>2 DEF FilesUpTo, FilesOf
  <2>4. PICK n : n = Len(NamesTo(k)) + 1
    OBVIOUS
  <2>5. n \in 1 .. Len(dirs) /\ n - 1 = Len(NamesTo(k))
    BY <1>2, <2>4, NamesFew
  <2>6. PICK d : d = Below(DirectoryItem(k), r)
    OBVIOUS
  <2>7. d \in entries[n]
    BY <1>2, <1>6, <2>3, <2>5, <2>6
  <2>8. ~d.dir
    BY <2>3, <2>6, Zenon DEF Below
  <2>9. d \in items
    BY <1>3, <1>5, <2>5, <2>7, <2>8
  <2>10. FileItem(p) = [path |-> d.path, loc |-> d.loc, size |-> d.size]
    BY <1>2, <1>7, <2>2, <2>3, <2>6
  <2> QED BY <1>4, <2>9, <2>10
<1> QED BY <1>4, <1>8, <1>9

\* The tree has the files of the disc, each of them once.
LEMMA TreeRight ==
  ASSUME BootInv, mount = "mounted", errors = 0
  PROVE  /\ FilesInTree = FilesOn(Disc)
         /\ Cardinality(FilesInTree) = Len(files)
         /\ \A f, g \in DOMAIN files : f # g => files[f].id # files[g].id
<1>1. OnDrive
  BY DEF BootInv, PhaseInv
<1>2. IsMounted /\ HasFiles(EntryTable, FilesUpTo(Len(dirs)))
  BY <1>1 DEF BootInv, TreeInv, DiscInv, Mounting, IsMounted
<1>3. DOMAIN dirs = 1 .. Len(dirs) /\ Len(dirs) \in Nat
  BY <1>2, MountedTable
<1>4. PICK item : item = [f \in DOMAIN files |->
        [path |-> Append(NamesTo(files[f].parent), files[f].name), loc |-> fentries[files[f].id], size |-> files[f].size]]
  OBVIOUS
<1>5. FilesInTree = {item[f] : f \in DOMAIN files}
  BY <1>4 DEF FilesInTree
<1>6. /\ DOMAIN files = 1 .. Len(files) /\ Len(files) \in Nat
      /\ \A f \in DOMAIN files : files[f] \in Files /\ files[f].parent \in DOMAIN dirs
  BY LenProperties DEF BootInv, TreeInv
<1>7. /\ \A f \in DOMAIN files : \E p \in FilesUpTo(Len(dirs)) : IsFile(EntryTable, f, p)
      /\ \A p \in FilesUpTo(Len(dirs)) : \E f \in DOMAIN files : IsFile(EntryTable, f, p)
      /\ \A f, g \in DOMAIN files : files[f].parent = files[g].parent /\ files[f].name = files[g].name => f = g
      /\ \A f \in DOMAIN files : files[f].id = (fentriesLoc - Len(files)) + (f - 1)
  BY <1>2 DEF HasFiles, EntryTable
<1>8. ASSUME NEW f \in DOMAIN files, NEW p, IsFile(EntryTable, f, p) PROVE item[f] = FileItem(p)
  <2>1. /\ files[f].parent = p[1] /\ files[f].name = p[2].name /\ files[f].size = p[2].size
        /\ fentries[files[f].id] = p[2].loc
    BY <1>8 DEF IsFile, EntryTable
  <2> QED BY <1>4, <2>1 DEF FileItem
<1>9. FilesInTree = FilesOn(Disc)
  <2>1. FilesOn(Disc) = {FileItem(p) : p \in FilesUpTo(Len(dirs))}
    BY <1>2, FilesOfDisc
  <2> QED BY <1>5, <1>7, <1>8, <2>1
<1>10. ASSUME NEW f \in DOMAIN files, NEW g \in DOMAIN files, item[f] = item[g] PROVE f = g
  <2>1. PICK T : T = STRING
    OBVIOUS
  <2>2. ASSUME NEW h \in DOMAIN files PROVE NamesTo(files[h].parent) \in Seq(T) /\ files[h].name \in T
    BY <1>2, <1>6, <2>1, NamesTyped DEF IsMounted, Files
  <2>3. PICK s \in Seq(T) : s = NamesTo(files[f].parent)
    BY <2>2
  <2>4. PICK t \in Seq(T) : t = NamesTo(files[g].parent)
    BY <2>2
  <2>5. PICK x \in T : x = files[f].name
    BY <2>2
  <2>6. PICK y \in T : y = files[g].name
    BY <2>2
  <2>7. item[f].path = Append(s, x) /\ item[g].path = Append(t, y)
    BY <1>4, <2>3, <2>4, <2>5, <2>6
  <2>8. Append(s, x) = Append(t, y)
    BY <1>10, <2>7
  <2>9. s = t /\ x = y
    BY <2>8, SameItems
  <2>10. files[f].parent = files[g].parent
    BY <1>2, <1>6, <2>3, <2>4, <2>9, NamesDiffer
  <2> QED BY <1>7, <2>5, <2>6, <2>9, <2>10
<1>11. Cardinality(FilesInTree) = Len(files)
  <2>1. item \in [1 .. Len(files) -> FilesInTree]
    BY <1>4, <1>5, <1>6
  <2>2. item \in Bijection(1 .. Len(files), FilesInTree)
    <3>1. \A f, g \in 1 .. Len(files) : item[f] = item[g] => f = g
      BY <1>6, <1>10
    <3>2. \A x \in FilesInTree : \E f \in 1 .. Len(files) : item[f] = x
      BY <1>5, <1>6
    <3> QED BY <2>1, <3>1, <3>2 DEF Bijection, Injection, Surjection, IsInjective
  <2>3. ExistsBijection(1 .. Len(files), FilesInTree)
    BY <2>2 DEF ExistsBijection
  <2>4. IsFiniteSet(1 .. Len(files)) /\ Cardinality(1 .. Len(files)) = Len(files)
    BY <1>6, FS_Interval
  <2> QED BY <2>3, <2>4, FS_Bijection
<1>12. \A f, g \in DOMAIN files : f # g => files[f].id # files[g].id
  BY <1>6, <1>7 DEF BootInv, TreeInv
<1> QED BY <1>9, <1>11, <1>12

\* The disc that is mounted without a failed read is in the tree: each file of
\* its directories once and no other, with its place behind its id, whatever
\* fentries_loc began with, although the driver looks for each directory of the
\* path table from the root again.
THEOREM TreeStaysDisc == BootSpec => []TreeIsDisc
<1>1. BootInv => TreeIsDisc
  <2> SUFFICES ASSUME BootInv PROVE TreeIsDisc
    OBVIOUS
  <2>1. TypeOK
    <3>1. \A k \in DOMAIN dirs : dirs[k].parent \in 0..(k - 1)
      <4>1. DOMAIN dirs = 1 .. Len(dirs) /\ Len(dirs) \in Nat
        BY LenProperties DEF BootInv, TreeInv
      <4>2. \A k \in DOMAIN dirs : dirs[k].parent \in IF k = Root THEN {0} ELSE 1 .. k - 1
        BY DEF BootInv, TreeInv, IsTree
      <4> QED BY <4>1, <4>2
    <3>2. atapiDisc \in -1..3
      <4>1. Len(blockdevices) \in Nat /\ Len(blockdevices) <= 4
        BY LenProperties DEF BootInv, DriveInv
      <4> QED BY <4>1 DEF BootInv, DriveInv
    <3> QED BY <3>1, <3>2 DEF TypeOK, BootInv, DriveInv, PhaseInv, TreeInv
  <2>2. ASSUME Undisturbed
        PROVE  /\ FilesInTree = FilesOn(Medium(Volume))
               /\ Cardinality(FilesInTree) = Len(files)
               /\ \A f, g \in DOMAIN files : f # g => files[f].id # files[g].id
    BY <2>2, TreeRight DEF Undisturbed, Disc
  <2> QED BY <2>1, <2>2 DEF TreeIsDisc
<1> QED BY <1>1, BootInvariant, PTL

=============================================================================
