--------------------------- MODULE TerminalProofs ---------------------------
(***************************************************************************)
(* The screen of module Terminal shows the end of what was written, and    *)
(* the line of the main loop what was typed: proofs for a screen of any    *)
(* size and any number of lines.                                           *)
(*                                                                         *)
(* The functions of vga.cpp are compared with the paper one by one: each   *)
(* lemma takes a display that shows the end of a paper and says that it    *)
(* still does when both are written on.                                    *)
(***************************************************************************)
EXTENDS Terminal, SequenceTheorems, TLAPS

-----------------------------------------------------------------------------
(* What is known of displays and paper.                                    *)

Row == [Columns -> Cell]

Screen(d) ==
  /\ d = [text |-> d.text, x |-> d.x, y |-> d.y, board |-> d.board]
  /\ d.text \in [Rows -> Row] /\ d.x \in Columns /\ d.y \in Rows

Sheet(p) == /\ p = [lines |-> p.lines, column |-> p.column]
            /\ p.lines \in Seq(Row) /\ p.lines # << >>
            /\ p.column \in Columns

\* The rows of text down to the y-th are the last lines, those below are blank.
ShowsLines(text, y, lines) ==
  \A r \in Rows :
    IF r <= y THEN /\ Len(lines) - y + r \in 1 .. Len(lines)
                   /\ SameRow(text[r], lines[Len(lines) - y + r])
              ELSE SameRow(text[r], EmptyRow)

Shows(d, p) == d.x = p.column /\ ShowsLines(d.text, d.y, p.lines)

\* A display, and a paper that it shows the end of.
Kept(d, p) == Screen(d) /\ Sheet(p) /\ Shows(d, p)

\* The line of the main loop, in the row of the cursor.
Line(s) == [x \in Columns |-> IF x < Len(s) THEN s[x + 1] ELSE " "]

Editing(d, s) == /\ s \in Seq(Cell) /\ d.x = Len(s)
                 /\ SameRow(d.text[d.y], Line(s))

IInv == /\ Kept(display, paper)
        /\ phase \in {"set-up", "loop"}
        /\ phase = "set-up" => typed = << >>
        /\ phase = "loop" => Editing(display, typed)

-----------------------------------------------------------------------------
(* Moving the cursor.                                                      *)

LEMMA Sizes == /\ TTY_WIDTH \in Nat /\ TTY_WIDTH > 1 /\ TTY_HEIGHT \in Nat /\ TTY_HEIGHT > 0
               /\ 0 \in Columns /\ 0 \in Rows /\ TTY_HEIGHT - 1 \in Rows
               /\ \A y \in Rows : y \in Nat /\ y < TTY_HEIGHT
<1>1. TTY_WIDTH \in Nat /\ TTY_WIDTH > 1 /\ TTY_HEIGHT \in Nat /\ TTY_HEIGHT > 0
  <2>1. \A n \in Nat : /\ n # 0 => n > 0
                       /\ n # 0 /\ n # 1 => n > 1
    OBVIOUS
  <2>2. TTY_WIDTH \in Nat /\ TTY_WIDTH # 0 /\ TTY_WIDTH # 1
    BY ScreenAssumption
  <2>3. TTY_HEIGHT \in Nat /\ TTY_HEIGHT # 0
    BY ScreenAssumption
  <2> QED
    BY <2>1, <2>2, <2>3
<1> QED
  BY <1>1 DEF Columns, Rows

LEMMA Blank == /\ EmptyRow \in Row /\ [x \in Columns |-> " "] \in Row
               /\ SameRow([x \in Columns |-> " "], EmptyRow)
<1>1. " " \in Cell /\ "NUL" \in Cell
  BY DEF Cell
<1>2. EmptyRow \in Row /\ [x \in Columns |-> " "] \in Row
  BY <1>1 DEF EmptyRow, Row
<1>3. SameRow([x \in Columns |-> " "], EmptyRow)
  BY DEF EmptyRow, SameRow, Shown
<1> QED
  BY <1>2, <1>3

\* set_cursor_pos within the screen moves nothing else.
LEMMA CursorMoved ==
  ASSUME NEW d, d.text \in [Rows -> Row], NEW i \in Columns, NEW j \in Rows
  PROVE  LET e == set_cursor_pos(d, i, j)
         IN  Screen(e) /\ e.text = d.text /\ e.x = i /\ e.y = j
<1>1. j < TTY_HEIGHT /\ j \in Nat
  BY Sizes
<1>2. scroll(d.text, 0) = d.text
  <2>1. \A y \in Rows : y + 0 = y
    BY Sizes
  <2> QED
    BY <2>1 DEF scroll
<1>3. PICK b : b = (j - 0) * TTY_WIDTH + i
  OBVIOUS
<1>4. set_cursor_pos(d, i, j) = [text |-> d.text, x |-> i, y |-> j, board |-> b]
  BY <1>1, <1>2, <1>3 DEF set_cursor_pos
<1> QED
  BY <1>4 DEF Screen

\* One row below the screen it scrolls once.
LEMMA CursorScrolls ==
  ASSUME NEW d, d.text \in [Rows -> Row], NEW i \in Columns
  PROVE  LET e == set_cursor_pos(d, i, TTY_HEIGHT)
         IN  /\ Screen(e) /\ e.text = scroll(d.text, 1)
             /\ e.x = i /\ e.y = TTY_HEIGHT - 1
<1>1. TTY_HEIGHT - (TTY_HEIGHT - 1) = 1 /\ ~(TTY_HEIGHT < TTY_HEIGHT)
  BY Sizes
<1>2. PICK b : b = (TTY_HEIGHT - 1) * TTY_WIDTH + i
  OBVIOUS
<1>3. set_cursor_pos(d, i, TTY_HEIGHT) =
        [text |-> scroll(d.text, 1), x |-> i, y |-> TTY_HEIGHT - 1, board |-> b]
  BY <1>1, <1>2 DEF set_cursor_pos
<1>4. scroll(d.text, 1) \in [Rows -> Row]
  BY Blank DEF scroll
<1> QED
  BY <1>3, <1>4, Sizes DEF Screen

-----------------------------------------------------------------------------
(* Writing.                                                                *)

\* A new line on the screen is a new line on the paper.
LEMMA NewLineShows ==
  ASSUME NEW d, d.text \in [Rows -> Row], d.y \in Rows,
         NEW lines \in Seq(Row), ShowsLines(d.text, d.y, lines)
  PROVE  LET e == set_cursor_pos(d, 0, d.y + 1)
         IN  /\ Screen(e) /\ e.x = 0
             /\ ShowsLines(e.text, e.y, Append(lines, EmptyRow))
<1> DEFINE L == Append(lines, EmptyRow)
           N == Len(lines)
<1>1. /\ N \in Nat /\ Len(L) = N + 1
      /\ \A i \in 1 .. N : L[i] = lines[i]
      /\ L[N + 1] = EmptyRow
  <2>1. EmptyRow \in Row
    BY Blank
  <2>2. N \in Nat
    BY LenProperties
  <2> QED
    BY <2>1, <2>2, AppendProperties
<1>2. /\ 0 \in Columns /\ d.y \in Nat /\ d.y < TTY_HEIGHT /\ TTY_HEIGHT \in Nat
  BY Sizes
<1>3. \A r \in Rows : IF r <= d.y THEN /\ N - d.y + r \in 1 .. N
                                       /\ SameRow(d.text[r], lines[N - d.y + r])
                                  ELSE SameRow(d.text[r], EmptyRow)
  BY DEF ShowsLines
<1> HIDE DEF L, N
<1>4. SameRow(EmptyRow, EmptyRow)
  BY DEF SameRow
<1>5. CASE d.y + 1 < TTY_HEIGHT
  <2>1. PICK e : e = set_cursor_pos(d, 0, d.y + 1)
    OBVIOUS
  <2>2. Screen(e) /\ e.text = d.text /\ e.x = 0 /\ e.y = d.y + 1
    <3>1. d.y + 1 \in Rows
      BY <1>2, <1>5 DEF Rows
    <3> QED
      BY <1>2, <2>1, <3>1, CursorMoved
  <2>3. ASSUME NEW r \in Rows
        PROVE  IF r <= d.y + 1 THEN /\ Len(L) - (d.y + 1) + r \in 1 .. Len(L)
                                    /\ SameRow(d.text[r], L[Len(L) - (d.y + 1) + r])
                               ELSE SameRow(d.text[r], EmptyRow)
    <3>1. r \in Nat
      BY DEF Rows
    <3>2. CASE r <= d.y
      <4>1. N - d.y + r \in 1 .. N /\ SameRow(d.text[r], lines[N - d.y + r])
        BY <1>3, <3>2
      <4>2. Len(L) - (d.y + 1) + r = N - d.y + r
        BY <1>1, <1>2, <3>1
      <4> QED
        BY <1>1, <1>2, <3>1, <3>2, <4>1, <4>2
    <3>3. CASE r = d.y + 1
      <4>1. Len(L) - (d.y + 1) + r = N + 1 /\ ~(r <= d.y)
        BY <1>1, <1>2, <3>1, <3>3
      <4> QED
        BY <1>1, <1>3, <3>3, <4>1
    <3>4. CASE r > d.y + 1
      BY <1>2, <1>3, <3>1, <3>4
    <3> QED
      BY <1>2, <3>1, <3>2, <3>3, <3>4
  <2>4. ShowsLines(e.text, e.y, L)
    BY <2>2, <2>3 DEF ShowsLines
  <2> QED
    BY <2>1, <2>2, <2>4 DEF L
<1>6. CASE d.y + 1 = TTY_HEIGHT
  <2>1. PICK e : e = set_cursor_pos(d, 0, TTY_HEIGHT)
    OBVIOUS
  <2>2. Screen(e) /\ e.text = scroll(d.text, 1) /\ e.x = 0 /\ e.y = d.y
    BY <1>2, <1>6, <2>1, CursorScrolls
  <2>3. ASSUME NEW r \in Rows
        PROVE  IF r <= d.y THEN /\ Len(L) - d.y + r \in 1 .. Len(L)
                                /\ SameRow(e.text[r], L[Len(L) - d.y + r])
                           ELSE SameRow(e.text[r], EmptyRow)
    <3>1. r \in Nat /\ r <= d.y
      BY <1>2, <1>6 DEF Rows
    <3>2. CASE r < d.y
      <4>1. r + 1 \in Rows /\ r + 1 <= d.y
        BY <1>2, <1>6, <3>1, <3>2 DEF Rows
      <4>2. N - d.y + (r + 1) \in 1 .. N /\ SameRow(d.text[r + 1], lines[N - d.y + (r + 1)])
        BY <1>3, <4>1
      <4>3. Len(L) - d.y + r = N - d.y + (r + 1)
        BY <1>1, <1>2, <3>1
      <4>4. e.text[r] = d.text[r + 1]
        BY <2>2, <4>1 DEF scroll
      <4> QED
        BY <1>1, <3>1, <4>2, <4>3, <4>4
    <3>3. CASE r = d.y
      <4>1. Len(L) - d.y + r = N + 1 /\ r + 1 \notin Rows
        BY <1>1, <1>2, <1>6, <3>1, <3>3 DEF Rows
      <4>2. e.text[r] = [x \in Columns |-> " "]
        BY <2>2, <4>1 DEF scroll
      <4> QED
        <5>1. N + 1 \in 1 .. N + 1 /\ Len(L) = N + 1 /\ L[N + 1] = EmptyRow
          BY <1>1
        <5>2. SameRow(e.text[r], L[N + 1])
          BY <4>2, <5>1, Blank
        <5> QED
          BY <3>1, <4>1, <5>1, <5>2
    <3> QED
      BY <1>2, <3>1, <3>2, <3>3
  <2>4. ShowsLines(e.text, e.y, L)
    BY <2>2, <2>3 DEF ShowsLines
  <2> QED
    BY <1>6, <2>1, <2>2, <2>4 DEF L
<1> QED
  BY <1>2, <1>5, <1>6

Put(text, j, i, c) == [text EXCEPT ![j] = [text[j] EXCEPT ![i] = c]]

LEMMA PutCell ==
  ASSUME NEW d, Screen(d), NEW c \in Cell
  PROVE  LET e == [d EXCEPT !.text[d.y][d.x] = c]
         IN  /\ e.text = Put(d.text, d.y, d.x, c) /\ e.text \in [Rows -> Row]
             /\ e.x = d.x /\ e.y = d.y
<1>1. PICK t, i, j, b : /\ t = d.text /\ i = d.x /\ j = d.y /\ b = d.board
                        /\ d = [text |-> t, x |-> i, y |-> j, board |-> b]
                        /\ t \in [Rows -> Row] /\ i \in Columns /\ j \in Rows
  BY DEF Screen
<1>2. [d EXCEPT !.text[j][i] = c] =
        [text |-> [t EXCEPT ![j][i] = c], x |-> i, y |-> j, board |-> b]
  BY <1>1
<1>3. [t EXCEPT ![j][i] = c] = Put(t, j, i, c)
  BY DEF Put
<1>4. [t[j] EXCEPT ![i] = c] \in Row
  BY <1>1 DEF Row
<1>5. Put(t, j, i, c) \in [Rows -> Row]
  BY <1>1, <1>4 DEF Put
<1> QED
  BY <1>1, <1>2, <1>3, <1>5

\* A character before the last column moves the cursor on, one in the last column
\* ends the line.
LEMMA PutChar ==
  ASSUME NEW d, Screen(d), NEW c \in Cell
  PROVE  LET e == put_char(d, c)
             t == Put(d.text, d.y, d.x, c)
         IN  /\ t \in [Rows -> Row]
             /\ d.x + 1 < TTY_WIDTH => Screen(e) /\ e.text = t /\ e.x = d.x + 1 /\ e.y = d.y
             /\ d.x + 1 = TTY_WIDTH =>
                  \E f : f.text = t /\ f.y = d.y /\ e = set_cursor_pos(f, 0, f.y + 1)
<1>1. PICK f : f = [d EXCEPT !.text[d.y][d.x] = c]
  OBVIOUS
<1>2. PICK t : t = Put(d.text, d.y, d.x, c)
  OBVIOUS
<1>3. t \in [Rows -> Row] /\ f.text = t /\ f.x = d.x /\ f.y = d.y
  BY <1>1, <1>2, PutCell
<1>4. d.x \in Nat /\ d.x < TTY_WIDTH /\ TTY_WIDTH \in Nat /\ d.y \in Rows
  BY Sizes DEF Screen, Columns
<1>5. CASE d.x + 1 < TTY_WIDTH
  <2>1. (d.x + 1) % TTY_WIDTH = d.x + 1 /\ d.x + 1 # 0 /\ d.x + 1 \in Columns
    BY <1>4, <1>5 DEF Columns
  <2>2. put_char(d, c) = set_cursor_pos(f, d.x + 1, d.y)
    BY <1>1, <2>1 DEF put_char
  <2>3. PICK e : e = set_cursor_pos(f, d.x + 1, d.y)
    OBVIOUS
  <2>4. Screen(e) /\ e.text = f.text /\ e.x = d.x + 1 /\ e.y = d.y
    BY <1>3, <1>4, <2>1, <2>3, CursorMoved
  <2> QED
    BY <1>2, <1>3, <1>4, <1>5, <2>2, <2>3, <2>4
<1>6. CASE d.x + 1 = TTY_WIDTH
  <2>1. (d.x + 1) % TTY_WIDTH = 0
    BY <1>4, <1>6
  <2>2. put_char(d, c) = set_cursor_pos(f, 0, d.y + 1)
    BY <1>1, <2>1 DEF put_char
  <2>3. put_char(d, c) = set_cursor_pos(f, 0, f.y + 1)
    BY <1>3, <2>2
  <2> QED
    BY <1>2, <1>3, <1>4, <1>6, <2>3
<1> QED
  BY <1>4, <1>5, <1>6

\* A character on the screen is the same character on the last line.
ShowsPut(text, j, i, c, lines) ==
  \E L \in Seq(Row) : /\ L = [lines EXCEPT ![Len(lines)] = [lines[Len(lines)] EXCEPT ![i] = c]]
                      /\ Len(L) = Len(lines)
                      /\ ShowsLines(Put(text, j, i, c), j, L)

LEMMA PutShows ==
  ASSUME NEW text \in [Rows -> Row], NEW j \in Rows, NEW i \in Columns, NEW c \in Cell,
         NEW lines \in Seq(Row), lines # << >>, ShowsLines(text, j, lines)
  PROVE  ShowsPut(text, j, i, c, lines)
<1>1. PICK N : N = Len(lines)
  OBVIOUS
<1>2. PICK row : row = [lines[N] EXCEPT ![i] = c]
  OBVIOUS
<1>3. N \in Nat /\ N > 0 /\ lines[N] \in Row
  BY <1>1, EmptySeq, ElementOfSeq
<1>4. row \in Row
  BY <1>2, <1>3 DEF Row
<1>5. PICK L : L = [lines EXCEPT ![N] = row]
  OBVIOUS
<1>6. /\ L \in Seq(Row) /\ Len(L) = N
      /\ \A n \in 1 .. N : L[n] = IF n = N THEN row ELSE lines[n]
  BY <1>1, <1>3, <1>4, <1>5, ExceptSeq
<1>7. ASSUME NEW r \in Rows
      PROVE  IF r <= j THEN /\ Len(L) - j + r \in 1 .. Len(L)
                            /\ SameRow(Put(text, j, i, c)[r], L[Len(L) - j + r])
                       ELSE SameRow(Put(text, j, i, c)[r], EmptyRow)
  <2>1. IF r <= j THEN N - j + r \in 1 .. N /\ SameRow(text[r], lines[N - j + r])
                  ELSE SameRow(text[r], EmptyRow)
    BY <1>1 DEF ShowsLines
  <2>2. r \in Nat /\ j \in Nat
    BY Sizes
  <2>3. CASE r = j
    <3>1. N - j + r = N /\ Len(L) - j + r = N /\ N \in 1 .. N
      BY <1>3, <1>6, <2>2, <2>3
    <3>2. SameRow(text[j], lines[N])
      BY <2>1, <2>2, <2>3, <3>1
    <3>3. Put(text, j, i, c)[j] = [text[j] EXCEPT ![i] = c] /\ text[j] \in Row
      BY DEF Put
    <3>4. L[N] = row
      BY <1>6, <3>1
    <3>5. SameRow([text[j] EXCEPT ![i] = c], [lines[N] EXCEPT ![i] = c])
      BY <1>3, <3>2, <3>3 DEF SameRow, Row
    <3>6. SameRow(Put(text, j, i, c)[r], L[Len(L) - j + r])
      BY <1>2, <2>3, <3>1, <3>3, <3>4, <3>5
    <3> QED
      BY <1>6, <2>2, <2>3, <3>1, <3>6
  <2>4. CASE r # j
    <3>1. Put(text, j, i, c)[r] = text[r]
      BY <2>4 DEF Put
    <3>2. CASE r <= j
      <4>1. N - j + r \in 1 .. N /\ N - j + r # N
        BY <1>3, <2>1, <2>2, <2>4, <3>2
      <4>2. L[N - j + r] = lines[N - j + r]
        BY <1>6, <4>1
      <4> QED
        BY <1>6, <2>1, <3>1, <3>2, <4>1, <4>2
    <3> QED
      BY <2>1, <3>1, <3>2
  <2> QED
    BY <2>3, <2>4
<1>8. ShowsLines(Put(text, j, i, c), j, L)
  BY <1>7 DEF ShowsLines
<1>9. L = [lines EXCEPT ![Len(lines)] = [lines[Len(lines)] EXCEPT ![i] = c]]
  BY <1>1, <1>2, <1>5
<1> QED
  BY <1>1, <1>6, <1>8, <1>9 DEF ShowsPut
-----------------------------------------------------------------------------
(* One character of put_string.                                            *)

LEMMA NewLineKept ==
  ASSUME NEW d, NEW p, Kept(d, p)
  PROVE  /\ Kept(new_line(d), NextLine(p))
         /\ new_line(d).x = 0
         /\ SameRow(new_line(d).text[new_line(d).y], EmptyRow)
<1>1. /\ d.text \in [Rows -> Row] /\ d.y \in Rows /\ p.lines \in Seq(Row)
      /\ ShowsLines(d.text, d.y, p.lines)
  BY DEF Kept, Screen, Sheet, Shows
<1>2. PICK L : L = Append(p.lines, EmptyRow)
  OBVIOUS
<1>3. L \in Seq(Row) /\ L # << >> /\ L[Len(L)] = EmptyRow /\ Len(L) \in Nat
  <2>1. EmptyRow \in Row
    BY Blank
  <2>2. /\ L \in Seq(Row) /\ Len(L) = Len(p.lines) + 1
        /\ L[Len(p.lines) + 1] = EmptyRow /\ Len(p.lines) \in Nat
    BY <1>1, <1>2, <2>1, AppendProperties, LenProperties
  <2> QED
    BY <2>2, EmptySeq
<1>4. PICK e : e = new_line(d)
  OBVIOUS
<1>5. Screen(e) /\ e.x = 0 /\ ShowsLines(e.text, e.y, L)
  BY <1>1, <1>2, <1>4, NewLineShows DEF new_line
<1>6. PICK q : q = NextLine(p)
  OBVIOUS
<1>7. q = [lines |-> L, column |-> 0]
  BY <1>2, <1>6 DEF NextLine
<1>8. Sheet(q)
  BY <1>3, <1>7, Sizes DEF Sheet
<1>9. Shows(e, q)
  BY <1>5, <1>7 DEF Shows
<1>10. SameRow(e.text[e.y], EmptyRow)
  <2>1. e.y \in Rows /\ e.y \in Nat
    BY <1>5, Sizes DEF Screen
  <2>2. SameRow(e.text[e.y], L[Len(L) - e.y + e.y])
    BY <1>5, <2>1 DEF ShowsLines
  <2>3. Len(L) - e.y + e.y = Len(L)
    BY <1>3, <2>1
  <2> QED
    BY <1>3, <2>2, <2>3
<1> QED
  BY <1>4, <1>5, <1>6, <1>8, <1>9, <1>10 DEF Kept

\* The characters that put_string does not treat in a way of their own.
Plain == Characters \cup {" "}

LEMMA PlainChar ==
  ASSUME NEW c \in Plain
  PROVE  c \in Cell /\ c # "LF" /\ c # "BS" /\ c # "CR" /\ c # "NUL"
BY ScreenAssumption DEF Plain, Cell

LEMMA CharKept ==
  ASSUME NEW d, NEW p, Kept(d, p), NEW c \in Plain
  PROVE  put_string(d, c) = put_char(d, c) /\ Kept(put_char(d, c), Written(p, c))
<1>1. c \in Cell /\ c # "LF" /\ c # "BS" /\ c # "CR"
  BY PlainChar
<1>2. put_string(d, c) = put_char(d, c)
  BY <1>1 DEF put_string
<1>3. /\ Screen(d) /\ d.text \in [Rows -> Row] /\ d.x \in Columns /\ d.y \in Rows
      /\ p.lines \in Seq(Row) /\ p.lines # << >> /\ p.column = d.x
      /\ ShowsLines(d.text, d.y, p.lines)
  BY DEF Kept, Screen, Sheet, Shows
<1>4. d.x \in Nat /\ d.x < TTY_WIDTH /\ TTY_WIDTH \in Nat
  BY <1>3, Sizes DEF Columns
<1>5. PICK L, t, e : /\ L = [p.lines EXCEPT ![Len(p.lines)][d.x] = c]
                     /\ t = Put(d.text, d.y, d.x, c)
                     /\ e = put_char(d, c)
  OBVIOUS
<1>6. L \in Seq(Row) /\ L # << >> /\ ShowsLines(t, d.y, L)
  <2>1. L \in Seq(Row) /\ Len(L) = Len(p.lines) /\ ShowsLines(t, d.y, L)
    <3>1. ShowsPut(d.text, d.y, d.x, c, p.lines)
      BY <1>1, <1>3, PutShows
    <3>2. L = [p.lines EXCEPT ![Len(p.lines)] = [p.lines[Len(p.lines)] EXCEPT ![d.x] = c]]
      BY <1>3, <1>5
    <3> QED
      BY <1>5, <3>1, <3>2 DEF ShowsPut
  <2> QED
    BY <1>3, <2>1, EmptySeq
<1>7. PICK w : w = Written(p, c)
  OBVIOUS
<1>8. PICK q : q = [lines |-> L, column |-> d.x + 1]
  OBVIOUS
<1>9. w = IF q.column = TTY_WIDTH THEN NextLine(q) ELSE q
  BY <1>1, <1>3, <1>5, <1>7, <1>8 DEF Written
<1>10. CASE d.x + 1 < TTY_WIDTH
  <2>1. Screen(e) /\ e.text = t /\ e.x = d.x + 1 /\ e.y = d.y
    BY <1>1, <1>3, <1>5, <1>10, PutChar
  <2>2. w = q /\ d.x + 1 \in Columns
    BY <1>4, <1>8, <1>9, <1>10 DEF Columns
  <2>3. Sheet(w) /\ Shows(e, w)
    BY <1>6, <1>8, <2>1, <2>2 DEF Sheet, Shows
  <2> QED
    BY <1>2, <1>5, <1>7, <2>1, <2>3 DEF Kept
<1>11. CASE d.x + 1 = TTY_WIDTH
  <2>1. PICK f : f.text = t /\ f.y = d.y /\ e = set_cursor_pos(f, 0, f.y + 1)
    BY <1>1, <1>3, <1>5, <1>11, PutChar
  <2>2. t \in [Rows -> Row]
    BY <1>1, <1>3, <1>5, PutChar
  <2>3. Screen(e) /\ e.x = 0 /\ ShowsLines(e.text, e.y, Append(L, EmptyRow))
    BY <1>3, <1>6, <2>1, <2>2, NewLineShows
  <2>4. w = [lines |-> Append(L, EmptyRow), column |-> 0]
    BY <1>8, <1>9, <1>11 DEF NextLine
  <2>5. Append(L, EmptyRow) \in Seq(Row) /\ Append(L, EmptyRow) # << >>
    <3>1. EmptyRow \in Row
      BY Blank
    <3>2. Append(L, EmptyRow) \in Seq(Row) /\ Len(Append(L, EmptyRow)) = Len(L) + 1 /\ Len(L) \in Nat
      BY <1>6, <3>1, AppendProperties, LenProperties
    <3> QED
      BY <3>2, EmptySeq
  <2>6. Sheet(w) /\ Shows(e, w)
    BY <2>3, <2>4, <2>5, Sizes DEF Sheet, Shows
  <2> QED
    BY <1>2, <1>5, <1>7, <2>3, <2>6 DEF Kept
<1> QED
  BY <1>4, <1>10, <1>11
\* The cursor moves along its line on both.
LEMMA MoveKept ==
  ASSUME NEW d, NEW p, Kept(d, p), NEW i \in Columns
  PROVE  LET e == set_cursor_pos(d, i, d.y)
         IN  /\ Kept(e, [p EXCEPT !.column = i])
             /\ e.text = d.text /\ e.x = i /\ e.y = d.y
<1>1. /\ d.text \in [Rows -> Row] /\ d.y \in Rows
      /\ p = [lines |-> p.lines, column |-> p.column]
      /\ p.lines \in Seq(Row) /\ p.lines # << >>
      /\ ShowsLines(d.text, d.y, p.lines)
  BY DEF Kept, Screen, Sheet, Shows
<1>2. PICK e, w : e = set_cursor_pos(d, i, d.y) /\ w = [p EXCEPT !.column = i]
  OBVIOUS
<1>3. Screen(e) /\ e.text = d.text /\ e.x = i /\ e.y = d.y
  BY <1>1, <1>2, CursorMoved
<1>4. w = [lines |-> p.lines, column |-> i]
  BY <1>1, <1>2
<1>5. Sheet(w) /\ Shows(e, w)
  BY <1>1, <1>3, <1>4 DEF Sheet, Shows
<1> QED
  BY <1>2, <1>3, <1>5 DEF Kept

\* Where a backspace leaves the cursor.
Back(i) == IF i = 0 THEN 0 ELSE i - 1

LEMMA BackColumn ==
  ASSUME NEW i \in Columns
  PROVE  /\ Back(i) \in Columns /\ Back(i) \in Nat /\ i \in Nat
         /\ Back(i) + 1 < TTY_WIDTH /\ Back(i) + 1 \in Columns
         /\ Back(Back(i) + 1) = Back(i)
BY Sizes DEF Back, Columns

LEMMA BackKept ==
  ASSUME NEW d, NEW p, Kept(d, p)
  PROVE  LET e == put_string(d, "BS")
         IN  /\ Kept(e, Written(p, "BS"))
             /\ e.text = d.text /\ e.x = Back(d.x) /\ e.y = d.y
<1>1. /\ d.x \in Columns /\ d.x \in Nat /\ d.x = p.column
      /\ p = [lines |-> p.lines, column |-> p.column]
  BY Sizes DEF Kept, Screen, Sheet, Shows, Columns
<1>2. Written(p, "BS") = [p EXCEPT !.column = Back(d.x)]
  BY <1>1 DEF Written, Back
<1>3. CASE d.x = 0
  <2>1. put_string(d, "BS") = d /\ Back(d.x) = 0
    BY <1>3 DEF put_string, Back
  <2>2. [p EXCEPT !.column = 0] = p
    BY <1>1, <1>3
  <2> QED
    BY <1>2, <1>3, <2>1, <2>2
<1>4. CASE d.x # 0
  <2>1. Back(d.x) = d.x - 1 /\ d.x > 0 /\ Back(d.x) \in Columns
    BY <1>1, <1>4, BackColumn DEF Back
  <2>2. put_string(d, "BS") = set_cursor_pos(d, Back(d.x), d.y)
    BY <2>1 DEF put_string
  <2> QED
    BY <1>2, <2>1, <2>2, MoveKept
<1> QED
  BY <1>3, <1>4

\* Every character that the kernel prints.
LEMMA StringKept ==
  ASSUME NEW d, NEW p, Kept(d, p), NEW c \in Characters \cup {" ", "LF", "BS", "CR"}
  PROVE  Kept(put_string(d, c), Written(p, c))
<1>1. CASE c \in Plain
  BY <1>1, CharKept
<1>2. CASE c = "LF"
  <2>1. put_string(d, "LF") = new_line(d) /\ Written(p, "LF") = NextLine(p)
    BY DEF put_string, Written
  <2> QED
    BY <1>2, <2>1, NewLineKept
<1>3. CASE c = "BS"
  BY <1>3, BackKept
<1>4. CASE c = "CR"
  <2>1. /\ put_string(d, "CR") = set_cursor_pos(d, 0, d.y)
        /\ Written(p, "CR") = [p EXCEPT !.column = 0]
    BY DEF put_string, Written
  <2>2. 0 \in Columns
    BY Sizes
  <2>3. Kept(set_cursor_pos(d, 0, d.y), [p EXCEPT !.column = 0])
    BY <2>2, MoveKept
  <2> QED
    BY <1>4, <2>1, <2>3
<1> QED
  BY <1>1, <1>2, <1>3, <1>4 DEF Plain

\* The main loop's "\b \b" puts a space over the last character.
LEMMA ErasedKept ==
  ASSUME NEW d, NEW p, Kept(d, p)
  PROVE  LET e == erased(d)
         IN  /\ Kept(e, Written(Written(Written(p, "BS"), " "), "BS"))
             /\ e.text = Put(d.text, d.y, Back(d.x), " ")
             /\ e.x = Back(d.x) /\ e.y = d.y
<1>1. PICK f, v : f = put_string(d, "BS") /\ v = Written(p, "BS")
  OBVIOUS
<1>2. Kept(f, v) /\ f.text = d.text /\ f.x = Back(d.x) /\ f.y = d.y
  BY <1>1, BackKept
<1>3. PICK g, w : g = put_string(f, " ") /\ w = Written(v, " ")
  OBVIOUS
<1>4. " " \in Plain /\ " " \in Cell
  BY DEF Plain, Cell
<1>5. g = put_char(f, " ") /\ Kept(g, w)
  BY <1>2, <1>3, <1>4, CharKept
<1>6. d.x \in Columns
  BY DEF Kept, Screen
<1>7. g.text = Put(f.text, f.y, f.x, " ") /\ g.x = f.x + 1 /\ g.y = f.y
  <2>1. Screen(f) /\ f.x + 1 < TTY_WIDTH
    BY <1>2, <1>6, BackColumn DEF Kept
  <2> QED
    BY <1>4, <1>5, <2>1, PutChar
<1>8. PICK e, u : e = put_string(g, "BS") /\ u = Written(w, "BS")
  OBVIOUS
<1>9. Kept(e, u) /\ e.text = g.text /\ e.x = Back(g.x) /\ e.y = g.y
  BY <1>5, <1>8, BackKept
<1>10. e.x = Back(d.x)
  BY <1>2, <1>6, <1>7, <1>9, BackColumn
<1>11. e = erased(d) /\ u = Written(Written(Written(p, "BS"), " "), "BS")
  BY <1>1, <1>3, <1>8 DEF erased
<1> QED
  BY <1>2, <1>7, <1>9, <1>10, <1>11
-----------------------------------------------------------------------------
(* Editing the line of the main loop.                                      *)

LEMMA PutRows ==
  ASSUME NEW text \in [Rows -> Row], NEW j \in Rows, NEW i \in Columns, NEW c \in Cell
  PROVE  /\ \A y \in Rows \ {j} : Put(text, j, i, c)[y] = text[y]
         /\ \A x \in Columns : Put(text, j, i, c)[j][x] = IF x = i THEN c ELSE text[j][x]
<1>1. Put(text, j, i, c)[j] = [text[j] EXCEPT ![i] = c] /\ text[j] \in [Columns -> Cell]
  BY DEF Put, Row
<1>2. \A y \in Rows \ {j} : Put(text, j, i, c)[y] = text[y]
  BY DEF Put
<1> QED
  BY <1>1, <1>2

\* A row shows a line when each of its characters is in its column, with blanks
\* behind them.
LEMMA ShowsLine ==
  ASSUME NEW row, NEW s \in Seq(Cell),
         \A x \in Columns : Shown(row[x]) = IF x < Len(s) THEN Shown(s[x + 1]) ELSE " "
  PROVE  SameRow(row, Line(s))
<1>1. ASSUME NEW x \in Columns PROVE Shown(row[x]) = Shown(Line(s)[x])
  <2>1. Line(s)[x] = IF x < Len(s) THEN s[x + 1] ELSE " "
    BY DEF Line
  <2>2. Shown(" ") = " "
    BY DEF Shown
  <2> QED
    BY <2>1, <2>2
<1> QED
  BY <1>1 DEF SameRow

LEMMA LineShows ==
  ASSUME NEW row, NEW s \in Seq(Cell), SameRow(row, Line(s)), NEW x \in Columns
  PROVE  Shown(row[x]) = IF x < Len(s) THEN Shown(s[x + 1]) ELSE " "
<1>1. Line(s)[x] = IF x < Len(s) THEN s[x + 1] ELSE " "
  BY DEF Line
<1>2. Shown(" ") = " "
  BY DEF Shown
<1>3. Shown(row[x]) = Shown(Line(s)[x])
  BY DEF SameRow
<1> QED
  BY <1>1, <1>2, <1>3

\* A key that fits adds its character to the line.
LEMMA KeyEdits ==
  ASSUME NEW d, Screen(d), NEW s, Editing(d, s), Fits(d), NEW c \in Plain
  PROVE  LET e == put_char(d, c)
         IN  /\ Editing(e, Append(s, c)) /\ e.y = d.y
             /\ \A y \in Rows \ {d.y} : e.text[y] = d.text[y]
<1>1. /\ c \in Cell /\ d.text \in [Rows -> Row] /\ d.x \in Columns /\ d.y \in Rows
      /\ s \in Seq(Cell) /\ d.x = Len(s) /\ Len(s) \in Nat
      /\ SameRow(d.text[d.y], Line(s))
  BY PlainChar, LenProperties DEF Screen, Editing
<1>2. d.x + 1 < TTY_WIDTH
  BY <1>1, Sizes DEF Fits
<1>3. PICK e : e = put_char(d, c)
  OBVIOUS
<1>4. e.text = Put(d.text, d.y, d.x, c) /\ e.x = d.x + 1 /\ e.y = d.y
  BY <1>1, <1>2, <1>3, PutChar
<1>5. /\ \A y \in Rows \ {d.y} : e.text[y] = d.text[y]
      /\ \A x \in Columns : e.text[d.y][x] = IF x = d.x THEN c ELSE d.text[d.y][x]
  BY <1>1, <1>4, PutRows
<1>6. PICK t : t = Append(s, c)
  OBVIOUS
<1>7. /\ t \in Seq(Cell) /\ Len(t) = Len(s) + 1 /\ t[Len(s) + 1] = c
      /\ \A n \in 1 .. Len(s) : t[n] = s[n]
  BY <1>1, <1>6, AppendProperties
<1>8. ASSUME NEW x \in Columns
      PROVE  Shown(e.text[d.y][x]) = IF x < Len(t) THEN Shown(t[x + 1]) ELSE " "
  <2>1. x \in Nat
    BY DEF Columns
  <2>2. CASE x = d.x
    <3>1. e.text[d.y][x] = c
      BY <1>5, <2>2
    <3>2. x < Len(t) /\ x + 1 = Len(s) + 1
      BY <1>1, <1>7, <2>2
    <3>3. t[x + 1] = c
      BY <1>7, <3>2
    <3> QED
      BY <3>1, <3>2, <3>3
  <2>3. CASE x < d.x
    <3>1. e.text[d.y][x] = d.text[d.y][x]
      BY <1>1, <1>5, <2>1, <2>3
    <3>2. Shown(d.text[d.y][x]) = Shown(s[x + 1])
      BY <1>1, <2>3, LineShows
    <3>3. t[x + 1] = s[x + 1] /\ x < Len(t)
      BY <1>1, <1>7, <2>1, <2>3
    <3> QED
      BY <3>1, <3>2, <3>3
  <2>4. CASE x > d.x
    <3>1. e.text[d.y][x] = d.text[d.y][x] /\ ~(x < Len(t)) /\ ~(x < Len(s))
      BY <1>1, <1>5, <1>7, <2>1, <2>4
    <3>2. Shown(d.text[d.y][x]) = " "
      BY <1>1, <3>1, LineShows
    <3> QED
      BY <3>1, <3>2
  <2>5. x = d.x \/ x < d.x \/ x > d.x
    BY <1>1, <2>1
  <2> QED
    BY <2>2, <2>3, <2>4, <2>5
<1>9. SameRow(e.text[d.y], Line(t))
  BY <1>7, <1>8, ShowsLine
<1>10. Editing(e, t)
  BY <1>1, <1>4, <1>7, <1>9 DEF Editing
<1> QED
  BY <1>3, <1>4, <1>5, <1>6, <1>10

\* A backspace takes the last character off it.
LEMMA BackspaceEdits ==
  ASSUME NEW d, NEW p, Kept(d, p), NEW s, Editing(d, s)
  PROVE  LET e == erased(d)
         IN  /\ Editing(e, SubSeq(s, 1, Len(s) - 1)) /\ e.y = d.y
             /\ \A y \in Rows \ {d.y} : e.text[y] = d.text[y]
<1>1. /\ d.text \in [Rows -> Row] /\ d.x \in Columns /\ d.y \in Rows
      /\ s \in Seq(Cell) /\ d.x = Len(s) /\ Len(s) \in Nat
      /\ SameRow(d.text[d.y], Line(s))
  BY LenProperties DEF Kept, Screen, Editing
<1>2. PICK e, c : e = erased(d) /\ c = " "
  OBVIOUS
<1>3. /\ e.text = Put(d.text, d.y, Back(d.x), c) /\ e.x = Back(d.x) /\ e.y = d.y
      /\ c \in Cell /\ Shown(c) = " "
  BY <1>2, ErasedKept DEF Cell, Shown
<1>4. /\ \A y \in Rows \ {d.y} : e.text[y] = d.text[y]
      /\ \A x \in Columns : e.text[d.y][x] = IF x = Back(d.x) THEN c ELSE d.text[d.y][x]
  <2>1. PICK i \in Columns : i = Back(d.x)
    BY <1>1, BackColumn
  <2>2. PICK j \in Rows, text \in [Rows -> Row] : j = d.y /\ text = d.text
    BY <1>1
  <2>3. /\ \A y \in Rows \ {j} : Put(text, j, i, c)[y] = text[y]
        /\ \A x \in Columns : Put(text, j, i, c)[j][x] = IF x = i THEN c ELSE text[j][x]
    <3>1. c \in Cell
      BY <1>3
    <3> QED
      BY <3>1, PutRows
  <2>4. e.text = Put(text, j, i, c)
    BY <1>3, <2>1, <2>2
  <2> QED
    BY <2>1, <2>2, <2>3, <2>4
<1>5. PICK t : t = SubSeq(s, 1, Len(s) - 1)
  OBVIOUS
<1>6. /\ t \in Seq(Cell) /\ Len(t) = Back(d.x)
      /\ \A n \in 1 .. Len(t) : t[n] = s[n]
  <2>1. CASE d.x = 0
    <3>1. t = << >> /\ Back(d.x) = 0
      BY <1>1, <1>5, <2>1 DEF Back
    <3> QED
      BY <3>1
  <2>2. CASE d.x # 0
    <3>1. PICK n : n = Len(s) - 1
      OBVIOUS
    <3>2. n = Back(d.x) /\ n \in Nat /\ n - 1 + 1 = n /\ \A k \in 1 .. n : k \in 1 .. Len(s) /\ 1 + k - 1 = k
      BY <1>1, <2>2, <3>1 DEF Back
    <3>3. \A k \in 1 .. n : s[k] \in Cell
      BY <1>1, <3>2, ElementOfSeq
    <3>4. /\ t \in Seq(Cell) /\ Len(t) = IF 1 <= n THEN n - 1 + 1 ELSE 0
          /\ \A k \in 1 .. n - 1 + 1 : t[k] = s[1 + k - 1]
      BY <1>5, <3>1, <3>2, <3>3, SubSeqProperties
    <3>5. Len(t) = n
      BY <3>2, <3>4
    <3> QED
      BY <3>2, <3>4, <3>5
  <2> QED
    BY <2>1, <2>2
<1>7. ASSUME NEW x \in Columns
      PROVE  Shown(e.text[d.y][x]) = IF x < Len(t) THEN Shown(t[x + 1]) ELSE " "
  <2>1. x \in Nat /\ Back(d.x) \in Nat /\ d.x \in Nat
    BY <1>1, BackColumn DEF Columns
  <2>2. CASE x = Back(d.x)
    <3>1. e.text[d.y][x] = c /\ ~(x < Len(t))
      BY <1>4, <1>6, <2>1, <2>2
    <3> QED
      BY <1>3, <3>1
  <2>3. CASE x < Back(d.x)
    <3>1. e.text[d.y][x] = d.text[d.y][x] /\ x < Len(s)
      <4>1. x # Back(d.x) /\ x < d.x
        BY <2>1, <2>3 DEF Back
      <4> QED
        BY <1>1, <1>4, <4>1
    <3>2. Shown(d.text[d.y][x]) = Shown(s[x + 1])
      BY <1>1, <3>1, LineShows
    <3>3. t[x + 1] = s[x + 1] /\ x < Len(t)
      BY <1>6, <2>1, <2>3
    <3> QED
      BY <3>1, <3>2, <3>3
  <2>4. CASE x > Back(d.x)
    <3>1. e.text[d.y][x] = d.text[d.y][x] /\ ~(x < Len(t)) /\ ~(x < Len(s))
      <4>1. x # Back(d.x) /\ ~(x < Back(d.x)) /\ ~(x < d.x)
        BY <2>1, <2>4 DEF Back
      <4> QED
        BY <1>1, <1>4, <1>6, <4>1
    <3>2. Shown(d.text[d.y][x]) = " "
      BY <1>1, <3>1, LineShows
    <3> QED
      BY <3>1, <3>2
  <2>5. x = Back(d.x) \/ x < Back(d.x) \/ x > Back(d.x)
    BY <2>1
  <2> QED
    BY <2>2, <2>3, <2>4, <2>5
<1>8. SameRow(e.text[d.y], Line(t))
  BY <1>6, <1>7, ShowsLine
<1>9. Editing(e, t)
  BY <1>3, <1>6, <1>8 DEF Editing
<1> QED
  BY <1>2, <1>3, <1>4, <1>5, <1>9
-----------------------------------------------------------------------------
(* The invariant.                                                          *)

LEMMA Cleared ==
  ASSUME NEW d, d = [text |-> d.text, x |-> d.x, y |-> d.y, board |-> d.board],
         NEW p, p = [lines |-> <<EmptyRow>>, column |-> 0]
  PROVE  Kept(clear_screen(d), p)
<1>1. PICK t : t = [y \in Rows |-> EmptyRow]
  OBVIOUS
<1>2. PICK f : f = [d EXCEPT !.text = t]
  OBVIOUS
<1>3. f.text = t
  BY <1>2
<1>4. t \in [Rows -> Row] /\ 0 \in Columns /\ 0 \in Rows
  BY <1>1, Blank, Sizes
<1>5. PICK e : e = clear_screen(d)
  OBVIOUS
<1>6. Screen(e) /\ e.text = t /\ e.x = 0 /\ e.y = 0
  <2>1. e = set_cursor_pos(f, 0, 0)
    BY <1>1, <1>2, <1>5 DEF clear_screen
  <2> QED
    BY <1>3, <1>4, <2>1, CursorMoved
<1>7. PICK l : l = <<EmptyRow>>
  OBVIOUS
<1>8. /\ l \in Seq(Row) /\ l # << >> /\ Len(l) = 1 /\ l[1] = EmptyRow
  <2>1. EmptyRow \in Row
    BY Blank
  <2> QED
    BY <1>7, <2>1
<1>9. Sheet(p)
  BY <1>4, <1>7, <1>8 DEF Sheet
<1>10. ASSUME NEW r \in Rows
       PROVE  IF r <= 0 THEN 1 - 0 + r \in 1 .. 1 /\ SameRow(t[r], l[1 - 0 + r])
                        ELSE SameRow(t[r], EmptyRow)
  <2>1. t[r] = EmptyRow /\ SameRow(EmptyRow, EmptyRow) /\ r \in Nat
    BY <1>1, Sizes DEF SameRow
  <2>2. CASE r <= 0
    <3>1. 1 - 0 + r = 1
      BY <2>1, <2>2
    <3> QED
      BY <1>8, <2>1, <2>2, <3>1
  <2> QED
    BY <2>1, <2>2
<1>11. Shows(e, p)
  BY <1>6, <1>7, <1>8, <1>10 DEF Shows, ShowsLines
<1> QED
  BY <1>5, <1>6, <1>9, <1>11 DEF Kept

LEMMA TerminalInit == Init => IInv
<1> SUFFICES ASSUME Init PROVE IInv
  OBVIOUS
<1>1. PICK d : /\ d = [text |-> d.text, x |-> d.x, y |-> d.y, board |-> d.board]
               /\ display = clear_screen(d)
  <2>1. PICK c : display = clear_screen([text |-> [y \in Rows |-> [x \in Columns |-> c]],
                                         x |-> 0, y |-> 0, board |-> 0])
    BY DEF Init
  <2>2. PICK t : t = [y \in Rows |-> [x \in Columns |-> c]]
    OBVIOUS
  <2>3. PICK d : d = [text |-> t, x |-> 0, y |-> 0, board |-> 0]
    OBVIOUS
  <2>4. d = [text |-> d.text, x |-> d.x, y |-> d.y, board |-> d.board]
    BY <2>3
  <2> QED
    BY <2>1, <2>2, <2>3, <2>4
<1>2. Kept(display, paper)
  BY <1>1, Cleared DEF Init
<1> QED
  BY <1>2 DEF Init, IInv

\* A line that was never written shows nothing typed.
LEMMA NothingTyped ==
  ASSUME NEW d, d.x = 0, SameRow(d.text[d.y], EmptyRow)
  PROVE  Editing(d, << >>)
<1>1. << >> \in Seq(Cell) /\ Len(<< >>) = 0
  OBVIOUS
<1>2. ASSUME NEW x \in Columns
      PROVE  Shown(d.text[d.y][x]) = " " /\ ~(x < 0)
  <2>1. Shown(d.text[d.y][x]) = Shown(EmptyRow[x]) /\ EmptyRow[x] = "NUL"
    BY DEF SameRow, EmptyRow
  <2>2. Shown("NUL") = " " /\ ~(x < 0)
    BY DEF Shown, Columns
  <2> QED
    BY <2>1, <2>2
<1>3. SameRow(d.text[d.y], Line(<< >>))
  BY <1>1, <1>2, ShowsLine
<1> QED
  BY <1>1, <1>3 DEF Editing

\* The steps, one lemma each.
LEMMA PrintStep ==
  ASSUME IInv, NEW c \in Characters \cup {" ", "LF", "BS", "CR"}, prints(c)
  PROVE  IInv'
<1>1. Kept(display', paper')
  BY StringKept DEF IInv, prints
<1> QED
  BY <1>1 DEF IInv, prints

LEMMA LoopStep ==
  ASSUME IInv, enter_loop
  PROVE  IInv'
<1>1. Written(paper, "LF") = NextLine(paper)
  BY DEF Written
<1>2. Kept(display', paper') /\ display'.x = 0 /\ SameRow(display'.text[display'.y], EmptyRow)
  BY <1>1, NewLineKept DEF IInv, enter_loop
<1>3. Editing(display', << >>)
  BY <1>2, NothingTyped
<1> QED
  BY <1>2, <1>3 DEF IInv, enter_loop

\* The rows above and below the line of the main loop.
Stays == /\ display'.y = display.y
         /\ \A y \in Rows \ {display.y} : display'.text[y] = display.text[y]

LEMMA KeyStep ==
  ASSUME IInv, NEW c \in Characters \cup {" ", "NUL"}, key_pressed(c)
  PROVE  IInv' /\ Stays
<1>1. CASE Fits(display) /\ c # "NUL"
  <2>1. c \in Plain
    BY <1>1 DEF Plain
  <2>2. Kept(display, paper) /\ Screen(display) /\ Editing(display, typed)
    BY DEF IInv, Kept, key_pressed
  <2>3. /\ display' = put_char(display, c) /\ paper' = Written(paper, c)
        /\ typed' = Append(typed, c) /\ phase' = phase
    BY <1>1 DEF key_pressed
  <2>4. Kept(display', paper')
    BY <2>1, <2>2, <2>3, CharKept
  <2>5. Editing(display', typed') /\ Stays
    BY <1>1, <2>1, <2>2, <2>3, KeyEdits DEF Stays
  <2> QED
    BY <2>3, <2>4, <2>5 DEF IInv, key_pressed
<1>2. CASE ~(Fits(display) /\ c # "NUL")
  BY <1>2 DEF IInv, key_pressed, Stays
<1> QED
  BY <1>1, <1>2

LEMMA BackspaceStep ==
  ASSUME IInv, backspace_pressed
  PROVE  IInv' /\ Stays
<1>1. Kept(display, paper) /\ Editing(display, typed)
  BY DEF IInv, backspace_pressed
<1>2. Kept(display', paper')
  BY <1>1, ErasedKept DEF backspace_pressed
<1>3. Editing(display', typed') /\ Stays
  BY <1>1, BackspaceEdits DEF backspace_pressed, Stays
<1> QED
  BY <1>2, <1>3 DEF IInv, backspace_pressed

LEMMA TerminalStep == IInv /\ [Next]_vars => IInv' /\ (phase = "loop" => Stays)
<1> SUFFICES ASSUME IInv, [Next]_vars PROVE IInv' /\ (phase = "loop" => Stays)
  OBVIOUS
<1>1. ASSUME NEW c \in Characters \cup {" ", "LF", "BS", "CR"}, prints(c)
      PROVE  IInv' /\ phase # "loop"
  BY <1>1, PrintStep DEF prints
<1>2. CASE enter_loop
  BY <1>2, LoopStep DEF enter_loop
<1>3. ASSUME NEW c \in Characters \cup {" ", "NUL"}, key_pressed(c)
      PROVE  IInv' /\ Stays
  BY <1>3, KeyStep
<1>4. CASE backspace_pressed
  BY <1>4, BackspaceStep
<1>5. CASE UNCHANGED vars
  BY <1>5 DEF vars, IInv, Stays
<1> QED
  BY <1>1, <1>2, <1>3, <1>4, <1>5 DEF Next

LEMMA TerminalInvariance == Spec => []IInv
<1>1. IInv /\ [Next]_vars => IInv'
  BY TerminalStep
<1> QED
  BY <1>1, TerminalInit, PTL DEF Spec

-----------------------------------------------------------------------------
(* The theorems.                                                           *)

\* Type correctness: the cursor is on the screen and every row holds cells.
THEOREM DisplayTypeCorrect == Spec => []Screen(display)
<1>1. IInv => Screen(display)
  BY DEF IInv, Kept
<1> QED
  BY <1>1, TerminalInvariance, PTL

\* The screen shows the end of everything that was written, however often vga.cpp
\* wrapped a line or scrolled, and writing goes on where it does on paper.
THEOREM TailShown == Spec => []ScreenShowsTail
<1>1. IInv => ScreenShowsTail
  <2> SUFFICES ASSUME IInv PROVE ScreenShowsTail
    OBVIOUS
  <2>1. /\ display.x = paper.column /\ paper.lines \in Seq(Row)
        /\ ShowsLines(display.text, display.y, paper.lines)
    BY DEF IInv, Kept, Sheet, Shows
  <2>2. DOMAIN paper.lines = 1 .. Len(paper.lines)
    BY <2>1, LenProperties
  <2> QED
    BY <2>1, <2>2 DEF ShowsLines, ScreenShowsTail
<1> QED
  BY <1>1, TerminalInvariance, PTL

\* The line of the main loop is what was typed and not erased.
THEOREM LineIsTyped == Spec => []LineShown
<1>1. IInv => LineShown
  BY DEF IInv, Editing, Line, LineShown
<1> QED
  BY <1>1, TerminalInvariance, PTL

\* Typing and erasing change no other row and never scroll.
THEOREM OtherLinesStay == Spec => LineStays
<1>1. IInv /\ [Next]_vars => (phase = "loop" =>
        /\ display'.y = display.y
        /\ \A y \in Rows \ {display.y} : display'.text[y] = display.text[y])
  BY TerminalStep DEF Stays
<1> QED
  BY <1>1, TerminalInvariance, PTL DEF Spec, LineStays

=============================================================================
