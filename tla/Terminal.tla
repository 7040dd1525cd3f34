------------------------------ MODULE Terminal ------------------------------
(***************************************************************************)
(* The text screen of drivers/vga/vga.cpp and the line editing of the main *)
(* loop (kernel.cpp): cells, cursor, wrapping and scrolling.  Attributes   *)
(* and the formatting of numbers are left out.                             *)
(*                                                                         *)
(* What the screen shows is compared with paper: an endless sheet of lines *)
(* that is never scrolled, written with the same characters.               *)
(***************************************************************************)
EXTENDS Integers, Sequences

CONSTANTS TTY_WIDTH, TTY_HEIGHT,
          Characters,  \* the visible characters
          MaxLines     \* bound: lines printed before the main loop begins

\* LF, BS and CR stand for the escapes \n, \b and \r, NUL for a cell never written.
ASSUME ScreenAssumption ==
  /\ TTY_WIDTH \in Nat \ {0, 1} /\ TTY_HEIGHT \in Nat \ {0}
  /\ Characters \cap {" ", "NUL", "LF", "BS", "CR"} = {}
  /\ MaxLines \in Nat

VARIABLES display,  \* TEXT_BUFFER, the cursor, and the position sent to the board
          phase,    \* "set-up", then "loop"
          paper,    \* history: all lines written and the column of the last
          typed     \* history: characters typed in the loop and not erased

vars == <<display, phase, paper, typed>>

Columns == 0 .. TTY_WIDTH - 1
Rows == 0 .. TTY_HEIGHT - 1
Cell == Characters \cup {" ", "NUL"}

EmptyRow == [x \in Columns |-> "NUL"]

-----------------------------------------------------------------------------
(* vga.cpp, as functions of the display.                                   *)

\* Mutant: the last row is kept while the others move up.
scroll_KeepLast(text, n) ==
  [y \in Rows |-> IF y + n \in Rows THEN text[y + n] ELSE text[TTY_HEIGHT - 1]]

\* n rounds of the scrolling loop: rows move up, spaces follow from below.
scroll(text, n) ==
  [y \in Rows |-> IF y + n \in Rows THEN text[y + n] ELSE [x \in Columns |-> " "]]

set_cursor_pos(d, t_x, t_y) ==
  LET n == IF t_y < TTY_HEIGHT THEN 0 ELSE t_y - (TTY_HEIGHT - 1)
  IN [text |-> scroll(d.text, n), x |-> t_x, y |-> t_y - n,
      board |-> (t_y - n) * TTY_WIDTH + t_x]

put_char(d, c) ==
  LET newX == (d.x + 1) % TTY_WIDTH
  IN set_cursor_pos([d EXCEPT !.text[d.y][d.x] = c],
                    newX, IF newX = 0 THEN d.y + 1 ELSE d.y)

new_line(d) == set_cursor_pos(d, 0, d.y + 1)

\* put_string for one character of the string.
put_string(d, c) ==
  CASE c = "LF" -> new_line(d)
    [] c = "BS" -> IF d.x > 0 THEN set_cursor_pos(d, d.x - 1, d.y) ELSE d
    [] c = "CR" -> set_cursor_pos(d, 0, d.y)
    [] OTHER    -> put_char(d, c)

clear_screen(d) ==
  set_cursor_pos([d EXCEPT !.text = [y \in Rows |-> EmptyRow]], 0, 0)

-----------------------------------------------------------------------------
(* The same on paper.                                                      *)

NextLine(p) == [lines |-> Append(p.lines, EmptyRow), column |-> 0]

Written(p, c) ==
  LET row == Len(p.lines)
      q   == [lines  |-> [p.lines EXCEPT ![row][p.column] = c],
              column |-> p.column + 1]
  IN CASE c = "LF" -> NextLine(p)
       [] c = "BS" -> [p EXCEPT !.column = IF @ = 0 THEN 0 ELSE @ - 1]
       [] c = "CR" -> [p EXCEPT !.column = 0]
       [] OTHER    -> IF q.column = TTY_WIDTH THEN NextLine(q) ELSE q

-----------------------------------------------------------------------------
(* kernel_main.                                                            *)

\* The screen holds anything until VGA::initialize has cleared it.
Init == /\ \E c \in Cell : display = clear_screen(
              [text |-> [y \in Rows |-> [x \in Columns |-> c]],
               x |-> 0, y |-> 0, board |-> 0])
        /\ phase = "set-up"
        /\ paper = [lines |-> <<EmptyRow>>, column |-> 0]
        /\ typed = << >>

\* The messages of the set-up, and the sector that is read from the disk.
prints(c) ==
  /\ phase = "set-up" /\ Len(paper.lines) <= MaxLines
  /\ display' = put_string(display, c)
  /\ paper' = Written(paper, c)
  /\ UNCHANGED <<phase, typed>>

\* The last message ends in a new line.
enter_loop ==
  /\ phase = "set-up"
  /\ display' = new_line(display)
  /\ paper' = Written(paper, "LF")
  /\ phase' = "loop"
  /\ UNCHANGED typed

\* Mutant: the last column is written, too.
Fits_LastColumn(d) == d.x < TTY_WIDTH

\* VGA::get_cursor_pos().x < 79
Fits(d) == d.x < TTY_WIDTH - 1

\* A key whose character is c, NUL for a key without one, was pressed.
key_pressed(c) ==
  /\ phase = "loop"
  /\ IF Fits(display) /\ c # "NUL"
     THEN /\ display' = put_char(display, c)
          /\ typed' = Append(typed, c)
          /\ paper' = Written(paper, c)
     ELSE UNCHANGED <<display, typed, paper>>
  /\ UNCHANGED phase

\* Mutant: the cursor stays behind the space.
erased_StaysBehind(d) == put_string(put_string(d, "BS"), " ")

\* put_string("\b \b")
erased(d) == put_string(put_string(put_string(d, "BS"), " "), "BS")

backspace_pressed ==
  /\ phase = "loop"
  /\ display' = erased(display)
  /\ paper' = Written(Written(Written(paper, "BS"), " "), "BS")
  /\ typed' = SubSeq(typed, 1, Len(typed) - 1)
  /\ UNCHANGED phase

Next == \/ \E c \in Characters \cup {" ", "LF", "BS", "CR"} : prints(c)
        \/ enter_loop
        \/ \E c \in Characters \cup {" ", "NUL"} : key_pressed(c)
        \/ backspace_pressed

Spec == Init /\ [][Next]_vars

-----------------------------------------------------------------------------
\* A cell that was never written and one that holds a space look the same.
Shown(c) == IF c = "NUL" THEN " " ELSE c
SameRow(a, b) == \A x \in Columns : Shown(a[x]) = Shown(b[x])

\* Whatever was written, and wherever it wrapped and scrolled, the screen shows
\* the last lines of the paper down to the cursor's and nothing below, and
\* writing goes on where it does on paper.
ScreenShowsTail ==
  LET last == Len(paper.lines)
  IN /\ display.x = paper.column
     /\ \A y \in Rows :
          IF y <= display.y
          THEN /\ last - display.y + y \in DOMAIN paper.lines
               /\ SameRow(display.text[y], paper.lines[last - display.y + y])
          ELSE SameRow(display.text[y], EmptyRow)

\* The line of the main loop shows what was typed and not erased again, and
\* nothing else, with the cursor behind it.
LineShown ==
  phase = "loop" =>
    /\ display.x = Len(typed)
    /\ SameRow(display.text[display.y],
               [x \in Columns |-> IF x < Len(typed) THEN typed[x + 1] ELSE " "])

\* Typing and erasing never leave the line: what is above it is not touched, and
\* the screen does not scroll.
LineStays ==
  [][phase = "loop" => /\ display'.y = display.y
                       /\ \A y \in Rows \ {display.y} :
                            display'.text[y] = display.text[y]]_vars
=============================================================================
