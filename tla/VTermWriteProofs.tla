-------------------------- MODULE VTermWriteProofs --------------------------
(***************************************************************************)
(* Proofs about vterm_write: for every size of the screen, every alphabet  *)
(* and every parameter a sequence may carry, the pointer the loop writes   *)
(* through stays at the cursor, and the fast path does to the terminal     *)
(* what feeding it one byte would.                                         *)
(***************************************************************************)
EXTENDS VTermWrite, TLAPS

(* The screen has a cell, tabs move, sequences carry numbers, and no       *)
(* printable character is a control character.                             *)
Screens ==
  /\ ROWS \in Nat \ {0} /\ COLS \in Nat \ {0} /\ TabStop \in Nat \ {0}
  /\ Default \in Attrs /\ <<>> \in Params /\ Params \subseteq Seq(Int)
  /\ Printable \cap Controls = {}

\* A terminal whose cursor may be one past the end of its row.
Wide == [cells: [Y -> [X -> Cell]], x: 0..COLS, y: Y, attr: Attrs, visible: BOOLEAN,
         esc: 0..2, params: Params]

-----------------------------------------------------------------------------
(* Terminals are closed under the change of a field.                       *)

LEMMA Narrow == ASSUME Screens PROVE \A t : t \in Term <=> t \in Wide /\ t.x \in X
  BY DEF Screens, Term, Wide, X

LEMMA SetX ==
  ASSUME Screens, NEW t \in Wide, NEW x \in 0..COLS
  PROVE  [t EXCEPT !.x = x] \in Wide /\ [t EXCEPT !.x = x].x = x /\ [t EXCEPT !.x = x].y = t.y
  BY DEF Wide

LEMMA Origin ==
  ASSUME Screens
  PROVE  0 \in X /\ 0 \in Y /\ 0 \in 0..COLS /\ 0 \in 0..2 /\ Default \in Attrs /\ COLS \in Nat
  BY DEF Screens, X, Y

LEMMA SetY ==
  ASSUME NEW t \in Wide, NEW y \in Y
  PROVE  [t EXCEPT !.y = y] \in Wide /\ [t EXCEPT !.y = y].x = t.x
  BY DEF Wide

LEMMA SetCells ==
  ASSUME NEW t \in Wide, NEW c \in [Y -> [X -> Cell]]
  PROVE  /\ [t EXCEPT !.cells = c] \in Wide
         /\ [t EXCEPT !.cells = c].x = t.x /\ [t EXCEPT !.cells = c].y = t.y
  BY DEF Wide

LEMMA SetAttr ==
  ASSUME NEW t \in Wide, NEW a \in Attrs
  PROVE  [t EXCEPT !.attr = a] \in Wide /\ [t EXCEPT !.attr = a].x = t.x
  BY DEF Wide

LEMMA SetVisible ==
  ASSUME NEW t \in Wide, NEW v \in BOOLEAN
  PROVE  [t EXCEPT !.visible = v] \in Wide /\ [t EXCEPT !.visible = v].x = t.x
  BY DEF Wide

LEMMA SetEsc ==
  ASSUME NEW t \in Wide, NEW e \in 0..2
  PROVE  [t EXCEPT !.esc = e] \in Wide /\ [t EXCEPT !.esc = e].x = t.x
  BY DEF Wide

LEMMA Escapes ==
  ASSUME Screens, NEW t \in Term
  PROVE  /\ [t EXCEPT !.esc = 0] \in Term
         /\ [t EXCEPT !.esc = 1] \in Term
         /\ [t EXCEPT !.esc = 2] \in Term
  BY DEF Term

LEMMA SetParameters ==
  ASSUME NEW t \in Wide, NEW p \in Params
  PROVE  [t EXCEPT !.params = p] \in Wide /\ [t EXCEPT !.params = p].x = t.x
  BY DEF Wide

LEMMA EmptyCells ==
  ASSUME Screens, NEW a \in Attrs
  PROVE  Empty(a) \in Cell /\ EmptyRow \in [X -> Cell]
  BY DEF Screens, Empty, EmptyRow, Cell, Printable

-----------------------------------------------------------------------------
(* The moves of lines.                                                     *)

LEMMA LinesType ==
  ASSUME Screens, NEW t \in Wide, NEW f, \A y \in Y : y \in DOMAIN f => f[y] \in Y
  PROVE  Lines(t, f) \in Wide /\ Lines(t, f).x = t.x /\ Lines(t, f).y = t.y
  <1> DEFINE c == [y \in Y |-> IF y \in DOMAIN f THEN t.cells[f[y]] ELSE EmptyRow]
  <1>1. t.cells \in [Y -> [X -> Cell]]
    BY DEF Wide
  <1>2. EmptyRow \in [X -> Cell]
    BY EmptyCells DEF Screens
  <1>3. c \in [Y -> [X -> Cell]]
    BY <1>1, <1>2
  <1> HIDE DEF c
  <1>4. [t EXCEPT !.cells = c] \in Wide
        /\ [t EXCEPT !.cells = c].x = t.x /\ [t EXCEPT !.cells = c].y = t.y
    BY <1>3, SetCells
  <1> QED
    BY <1>4 DEF Lines, c

LEMMA ScrollType ==
  ASSUME Screens, NEW t \in Wide
  PROVE  Scroll(t) \in Wide /\ Scroll(t).x = t.x
  <1> DEFINE f == [y \in 0..ROWS - 2 |-> y + 1]
  <1>1. \A y \in Y : y \in DOMAIN f => f[y] \in Y
    BY DEF Screens, Y
  <1> HIDE DEF f
  <1>2. Lines(t, f) \in Wide /\ Lines(t, f).x = t.x
    BY <1>1, LinesType
  <1>3. ROWS - 1 \in Y
    BY DEF Screens, Y
  <1> QED
    BY <1>2, <1>3, SetY DEF Scroll, f

LEMMA ScrollDownType ==
  ASSUME Screens, NEW t \in Wide
  PROVE  ScrollDown(t) \in Wide /\ ScrollDown(t).x = t.x
  <1> DEFINE f == [y \in 1..ROWS - 1 |-> y - 1]
  <1>1. \A y \in Y : y \in DOMAIN f => f[y] \in Y
    BY DEF Screens, Y
  <1> HIDE DEF f
  <1> QED
    BY <1>1, LinesType DEF ScrollDown, f

LEMMA DownType ==
  ASSUME Screens, NEW t \in Wide
  PROVE  Down(t) \in Wide /\ Down(t).x = t.x
  <1>1. t.y \in Y /\ (t.y + 1 < ROWS => t.y + 1 \in Y)
    BY DEF Screens, Wide, Y
  <1>2. CASE t.y + 1 >= ROWS
    BY <1>2, ScrollType DEF Down
  <1>3. CASE t.y + 1 < ROWS
    <2>1. ~ (t.y + 1 >= ROWS) /\ t.y + 1 \in Y
      BY <1>1, <1>3 DEF Screens, Y
    <2>2. [t EXCEPT !.y = t.y + 1] \in Wide /\ [t EXCEPT !.y = t.y + 1].x = t.x
      BY <2>1, SetY
    <2> QED
      BY <2>1, <2>2 DEF Down
  <1> QED
    BY <1>1, <1>2, <1>3 DEF Screens, Y

LEMMA NewLineType ==
  ASSUME Screens, NEW t \in Wide
  PROVE  NewLine(t) \in Term
  <1>1. 0 \in X /\ 0 \in 0..COLS
    BY DEF Screens, X
  <1>2. [t EXCEPT !.x = 0] \in Wide /\ [t EXCEPT !.x = 0].x = 0
    BY <1>1, SetX
  <1> QED
    BY <1>1, <1>2, DownType, Narrow DEF NewLine

LEMMA EraseType ==
  ASSUME Screens, NEW t \in Wide, NEW from, NEW to
  PROVE  Erase(t, from, to) \in Wide /\ Erase(t, from, to).x = t.x /\ Erase(t, from, to).y = t.y
  <1> DEFINE row == [x \in X |-> IF from <= x /\ x < to THEN Empty(t.attr) ELSE t.cells[t.y][x]]
             c == [t.cells EXCEPT ![t.y] = row]
  <1>1. t.cells \in [Y -> [X -> Cell]] /\ t.y \in Y /\ t.attr \in Attrs
    BY DEF Wide
  <1>2. row \in [X -> Cell]
    BY <1>1, EmptyCells
  <1>3. c \in [Y -> [X -> Cell]]
    <2> HIDE DEF row
    <2> QED
      BY <1>1, <1>2
  <1>4. Erase(t, from, to) = [t EXCEPT !.cells = c]
    BY DEF Erase
  <1> HIDE DEF c
  <1> QED
    BY <1>3, <1>4, SetCells

LEMMA WrappedType ==
  ASSUME Screens, NEW t \in Wide
  PROVE  Wrapped(t) \in Term
  <1>1. t.x >= COLS \/ t.x \in X
    BY DEF Screens, Wide, X
  <1>2. t.x \in X => ~ (t.x >= COLS)
    BY DEF Screens, X
  <1> QED
    BY <1>1, <1>2, NewLineType, Narrow DEF Wrapped

-----------------------------------------------------------------------------
(* vterm_putchar_internal.                                                 *)

LEMMA PutGlyphType ==
  ASSUME Screens, NEW t \in Term, NEW g \in Printable
  PROVE  PutGlyph(t, g) \in Term
  <1> DEFINE c == [t.cells EXCEPT ![t.y] = [t.cells[t.y] EXCEPT ![t.x] = <<g, t.attr>>]]
             u == [t EXCEPT !.cells = c]
  <1>1. t.cells \in [Y -> [X -> Cell]] /\ t.y \in Y /\ t.x \in X /\ t.attr \in Attrs
    BY DEF Term
  <1>2. c \in [Y -> [X -> Cell]]
    BY <1>1 DEF Cell
  <1>3. t.x + 1 \in 0..COLS
    BY <1>1 DEF Screens, X
  <1>4. [t EXCEPT !.cells[t.y][t.x] = <<g, t.attr>>, !.x = t.x + 1] = [u EXCEPT !.x = t.x + 1]
    OBVIOUS
  <1> HIDE DEF c
  <1>5. u \in Wide
    BY <1>2, SetCells, Narrow
  <1> HIDE DEF u
  <1>6. [u EXCEPT !.x = t.x + 1] \in Wide
    BY <1>3, <1>5, SetX
  <1> QED
    BY <1>4, <1>6, WrappedType DEF PutGlyph, u

LEMMA BackspaceType ==
  ASSUME Screens, NEW t \in Term
  PROVE  Backspace(t) \in Term
  <1>1. t.x \in X /\ (t.x > 0 => t.x - 1 \in X /\ t.x - 1 \in 0..COLS)
    BY DEF Screens, Term, X
  <1>2. ASSUME t.x > 0 PROVE [t EXCEPT !.x = t.x - 1] \in Wide /\ [t EXCEPT !.x = t.x - 1].x \in X
    BY <1>1, <1>2, SetX, Narrow
  <1> QED
    BY <1>2, EraseType, Narrow DEF Backspace

LEMMA TabType ==
  ASSUME Screens, NEW t \in Term
  PROVE  Tab(t) \in Term
  <1> DEFINE stop == AtMost((t.x \div TabStop + 1) * TabStop, COLS)
  <1>1. (t.x \div TabStop + 1) * TabStop \in Nat
    <2>1. t.x \in Nat
      BY DEF Screens, Term, X
    <2>2. t.x \div TabStop \in Nat
      BY <2>1 DEF Screens
    <2>3. \A n \in Nat : (n + 1) * TabStop \in Nat
      BY DEF Screens
    <2> QED
      BY <2>2, <2>3
  <1>2. stop \in 0..COLS
    <2> DEFINE n == (t.x \div TabStop + 1) * TabStop
    <2> HIDE DEF n
    <2>1. n \in Nat => AtMost(n, COLS) \in 0..COLS
      BY DEF Screens, AtMost
    <2> QED
      BY <1>1, <2>1 DEF n
  <1> HIDE DEF stop
  <1>3. Erase(t, t.x, stop) \in Wide
    BY EraseType, Narrow
  <1>4. [Erase(t, t.x, stop) EXCEPT !.x = stop] \in Wide
    BY <1>2, <1>3, SetX
  <1> QED
    BY <1>4, WrappedType DEF Tab, stop

LEMMA PutCharType ==
  ASSUME Screens, NEW t \in Term, NEW c
  PROVE  PutChar(t, c) \in Term
  <1>1. NewLine(t) \in Term
    BY NewLineType, Narrow
  <1>2. [t EXCEPT !.x = 0] \in Term
    <2>1. 0 \in X /\ 0 \in 0..COLS
      BY DEF Screens, X
    <2> QED
      BY <2>1, SetX, Narrow
  <1> QED
    BY <1>1, <1>2, BackspaceType, TabType, PutGlyphType DEF PutChar

-----------------------------------------------------------------------------
(* vterm_handle_escape.                                                    *)

LEMMA NumberTypes ==
  ASSUME Screens, NEW t \in Term
  PROVE  /\ Len(t.params) \in Nat
         /\ t.params # <<>> => t.params[1] \in Int
         /\ Len(t.params) >= 2 => t.params[2] \in Int
         /\ Count(t) \in Nat \ {0}
  <1>1. t.params \in Seq(Int)
    BY DEF Screens, Term
  <1>2. t.params # <<>> => t.params[1] \in Int
    BY <1>1
  <1>3. Len(t.params) \in Nat /\ (Len(t.params) >= 2 => t.params[2] \in Int)
    BY <1>1
  <1> QED
    BY <1>2, <1>3 DEF Count, AtLeast

LEMMA PlaceType ==
  ASSUME NEW n \in Int, NEW size \in Nat \ {0}
  PROVE  Place(n, size) \in 0..size - 1
  BY DEF Place, AtLeast, AtMost

LEMMA MoveToType ==
  ASSUME Screens, NEW t \in Term
  PROVE  MoveTo(t) \in Term
  <1> DEFINE row == IF t.params = <<>> THEN 1 ELSE t.params[1]
             col == IF Len(t.params) < 2 THEN 1 ELSE t.params[2]
             u == [t EXCEPT !.y = Place(row, ROWS)]
  <1>1. row \in Int /\ col \in Int
    BY NumberTypes
  <1> HIDE DEF row, col
  <1>2. Place(row, ROWS) \in Y /\ Place(col, COLS) \in X
    BY <1>1, PlaceType, Zenon DEF Screens, X, Y
  <1>3. u \in Wide
    BY <1>2, SetY, Narrow
  <1>4. MoveTo(t) = [u EXCEPT !.x = Place(col, COLS)]
    BY Zenon DEF MoveTo, row, col
  <1> HIDE DEF u
  <1>5. Place(col, COLS) \in 0..COLS
    BY <1>2 DEF Screens, X
  <1> QED
    BY <1>2, <1>3, <1>4, <1>5, SetX, Narrow

LEMMA InsertLinesType ==
  ASSUME Screens, NEW t \in Term
  PROVE  InsertLines(t) \in Term
  <1> DEFINE n == AtMost(Count(t), ROWS - t.y)
             f == [y \in Y \ (t.y..t.y + n - 1) |-> IF y < t.y THEN y ELSE y - n]
  <1>1. t.y \in Y /\ n \in Nat
    BY NumberTypes DEF Screens, Term, Y, AtMost
  <1> HIDE DEF n
  <1>2. \A y \in Y : y \in DOMAIN f => f[y] \in Y
    BY <1>1 DEF Screens, Y
  <1> HIDE DEF f
  <1>3. InsertLines(t) = Lines(t, f)
    BY DEF InsertLines, f, n
  <1> QED
    BY <1>2, <1>3, LinesType, Narrow

LEMMA DeleteLinesType ==
  ASSUME Screens, NEW t \in Term
  PROVE  DeleteLines(t) \in Term
  <1> DEFINE n == AtMost(Count(t), ROWS - t.y)
             f == [y \in 0..ROWS - 1 - n |-> IF y < t.y THEN y ELSE y + n]
  <1>1. t.y \in Y /\ n \in Nat
    BY NumberTypes DEF Screens, Term, Y, AtMost
  <1> HIDE DEF n
  <1>2. \A y \in Y : y \in DOMAIN f => f[y] \in Y
    BY <1>1 DEF Screens, Y
  <1> HIDE DEF f
  <1>3. DeleteLines(t) = Lines(t, f)
    BY DEF DeleteLines, f, n
  <1> QED
    BY <1>2, <1>3, LinesType, Narrow

LEMMA ClearType ==
  ASSUME Screens, NEW t \in Term
  PROVE  Clear(t) \in Term
  <1>1. EmptyRow \in [X -> Cell] /\ 0 \in X /\ 0 \in Y /\ Default \in Attrs
    BY EmptyCells DEF Screens, X, Y
  <1> QED
    BY <1>1 DEF Clear, Term

LEMMA VerticalMoves ==
  ASSUME Screens, NEW t \in Term
  PROVE  /\ [t EXCEPT !.y = AtLeast(@ - Count(t), 0)] \in Term
         /\ [t EXCEPT !.y = AtMost(@ + Count(t), ROWS - 1)] \in Term
  <1>1. t.y \in Y /\ Count(t) \in Nat
    BY NumberTypes DEF Term
  <1>2. AtLeast(t.y - Count(t), 0) \in Y
    BY <1>1 DEF Screens, Y, AtLeast
  <1>3. AtMost(t.y + Count(t), ROWS - 1) \in Y
    BY <1>1 DEF Screens, Y, AtMost
  <1> QED
    BY <1>2, <1>3, SetY, Narrow

LEMMA HorizontalMoves ==
  ASSUME Screens, NEW t \in Term
  PROVE  /\ [t EXCEPT !.x = AtMost(@ + Count(t), COLS - 1)] \in Term
         /\ [t EXCEPT !.x = AtLeast(@ - Count(t), 0)] \in Term
  <1>1. t.x \in X /\ Count(t) \in Nat
    BY NumberTypes DEF Term
  <1>2. AtMost(t.x + Count(t), COLS - 1) \in X
    BY <1>1 DEF Screens, X, AtMost
  <1>3. AtLeast(t.x - Count(t), 0) \in X
    BY <1>1 DEF Screens, X, AtLeast
  <1>4. X \subseteq 0..COLS
    BY DEF Screens, X
  <1> QED
    BY <1>2, <1>3, <1>4, SetX, Narrow

LEMMA ErasesType ==
  ASSUME Screens, NEW t \in Term, NEW from, NEW to
  PROVE  Erase(t, from, to) \in Term
  BY EraseType, Narrow

LEMMA RunType ==
  ASSUME Screens, NEW t \in Term, NEW c \in Commands, NEW a \in Attrs
  PROVE  Run(t, c, a) \in Term
  <1>1. CASE c = "m"
    BY <1>1, SetAttr, Narrow DEF Run
  <1>2. CASE c = "J"
    BY <1>2, ClearType DEF Run
  <1>3. CASE c = "H"
    BY <1>3, MoveToType DEF Run
  <1>4. CASE c \in {"A", "B"}
    BY <1>4, VerticalMoves DEF Run
  <1>5. CASE c \in {"C", "D"}
    BY <1>5, HorizontalMoves DEF Run
  <1>6. CASE c \in {"K", "X"}
    BY <1>6, ErasesType DEF Run, EraseInLine
  <1>7. CASE c = "L"
    BY <1>7, InsertLinesType DEF Run
  <1>8. CASE c = "M"
    BY <1>8, DeleteLinesType DEF Run
  <1>9. CASE c = "other"
    BY <1>9 DEF Run
  <1> QED
    BY <1>1, <1>2, <1>3, <1>4, <1>5, <1>6, <1>7, <1>8, <1>9 DEF Commands

LEMMA FinishType ==
  ASSUME Screens, NEW t \in Term, NEW c \in Letters, NEW a \in Attrs
  PROVE  Finish(t, c, a) \in Term
  <1> DEFINE u == IF t.params = Private THEN RunPrivate(t, c) ELSE Run(t, c, a)
  <1>1. RunPrivate(t, c) \in Term
    BY SetVisible, Narrow DEF RunPrivate
  <1>2. Run(t, c, a) \in Term
    <2>1. CASE c \in Commands
      BY <2>1, RunType
    <2>2. CASE c \in {"h", "l"}
      BY <2>2 DEF Run
    <2> QED
      BY <2>1, <2>2 DEF Letters
  <1>3. u \in Term
    BY <1>1, <1>2
  <1> HIDE DEF u
  <1>4. [u EXCEPT !.esc = 0] \in Term
    BY <1>3, Escapes
  <1>5. \A v \in Term : [v EXCEPT !.params = <<>>] \in Term
    BY SetParameters, Narrow DEF Screens
  <1> QED
    BY <1>4, <1>5, Zenon DEF Finish, u

LEMMA ShortType ==
  ASSUME Screens, NEW t \in Term, NEW c
  PROVE  Short(t, c) \in Term
  <1> DEFINE done == [t EXCEPT !.esc = 0]
  <1>1. done \in Term
    BY Escapes
  <1>2. [t EXCEPT !.esc = 2] \in Term
    BY Escapes
  <1>3. \A v \in Term : [v EXCEPT !.params = <<>>] \in Term
    BY SetParameters, Narrow DEF Screens
  <1>4. [t EXCEPT !.esc = 2, !.params = <<>>] \in Term
    BY <1>2, <1>3, Zenon
  <1> HIDE DEF done
  <1>5. Down(done) \in Term /\ NewLine(done) \in Term /\ PutChar(done, c) \in Term
    BY <1>1, DownType, NewLineType, PutCharType, Narrow
  <1>6. ReverseIndex(done) \in Term
    <2>1. done.y \in Y /\ (done.y > 0 => done.y - 1 \in Y)
      BY <1>1 DEF Screens, Term, Y
    <2>2. ~ (done.y <= 0) => done.y - 1 \in Y
      BY <2>1 DEF Screens, Y
    <2>3. ~ (done.y <= 0) => [done EXCEPT !.y = done.y - 1] \in Term
      BY <1>1, <2>2, SetY, Narrow
    <2> QED
      BY <1>1, <2>3, ScrollDownType, Narrow DEF ReverseIndex
  <1> QED
    BY <1>4, <1>5, <1>6 DEF Short, done

(* Whatever byte or unit of bytes comes next, a terminal stays one.        *)
LEMMA HandledType ==
  ASSUME Screens, NEW t \in Term
  PROVE  Handled(t) \subseteq Term
  <1>1. PutControl(t) \subseteq Term
    BY PutCharType DEF PutControl
  <1>2. StartEscape(t) \subseteq Term
    BY Escapes DEF StartEscape
  <1>3. EndShort(t) \subseteq Term
    BY ShortType DEF EndShort
  <1>4. SetParams(t) \subseteq Term
    BY SetParameters, Narrow DEF SetParams
  <1>5. EndCommand(t) \subseteq Term
    BY FinishType DEF EndCommand
  <1> QED
    BY <1>1, <1>2, <1>3, <1>4, <1>5 DEF Handled

-----------------------------------------------------------------------------
(* vterm_write: the pointer of a cursor is in the cursor's cell.           *)

LEMMA Division ==
  ASSUME NEW n \in Nat \ {0}, NEW x \in 0..n - 1, NEW y \in Nat
  PROVE  (y * n + x) \div n = y /\ (y * n + x) % n = x
  <1>1. y * n + x \in Nat /\ x < n
    OBVIOUS
  <1>2. (y * n + x) \div n = y
    BY <1>1
  <1>3. (y * n + x) % n = x
    BY <1>1, <1>2
  <1> QED
    BY <1>2, <1>3

(* Where the pointer is put, it is in the cell of the cursor.              *)
LEMMA PutType ==
  ASSUME Screens, PointerAtCursor, writing = TRUE, NEW g \in Printable
  PROVE  /\ Put(g) = [vt EXCEPT !.cells = [vt.cells EXCEPT ![cy] =
                                           [vt.cells[cy] EXCEPT ![cx] = <<g, attr>>]]]
         /\ Put(g) \in Wide
         /\ Put(g).x = vt.x /\ Put(g).y = vt.y
  <1> DEFINE c == [vt.cells EXCEPT ![cy] = [vt.cells[cy] EXCEPT ![cx] = <<g, attr>>]]
  <1>1. cx \in X /\ cy \in Y /\ attr \in Attrs /\ ptr = At(cx, cy)
    BY DEF PointerAtCursor, TypeOK
  <1>2. ptr \div COLS = cy /\ ptr % COLS = cx
    BY <1>1, Division DEF Screens, X, Y, At
  <1>3. Put(g) = [vt EXCEPT !.cells = c]
    BY <1>2 DEF Put
  <1>4. vt \in Wide /\ vt.cells \in [Y -> [X -> Cell]]
    BY Narrow DEF PointerAtCursor, TypeOK, Term
  <1>5. c \in [Y -> [X -> Cell]]
    BY <1>1, <1>4 DEF Cell
  <1> HIDE DEF c
  <1>6. [vt EXCEPT !.cells = c] \in Wide /\ [vt EXCEPT !.cells = c].x = vt.x
        /\ [vt EXCEPT !.cells = c].y = vt.y
    BY <1>4, <1>5, SetCells
  <1> QED
    BY <1>3, <1>6 DEF c

(* The scroll does not look at the row of the cursor, which the fast path  *)
(* leaves below the screen.                                                *)
LEMMA ScrollFrom ==
  ASSUME Screens, NEW t \in Wide, NEW n
  PROVE  Scroll([t EXCEPT !.x = 0, !.y = n]) = Scroll([t EXCEPT !.x = 0])
  <1> DEFINE u == [t EXCEPT !.x = 0]
             f == [y \in 0..ROWS - 2 |-> y + 1]
             c == [y \in Y |-> IF y \in DOMAIN f THEN t.cells[f[y]] ELSE EmptyRow]
  <1>1. u \in Wide /\ u.cells = t.cells
    BY Origin, SetX DEF Wide
  <1>2. [u EXCEPT !.y = n].cells = u.cells
    BY <1>1 DEF Wide
  <1>3. Lines(u, f) = [u EXCEPT !.cells = c]
    BY <1>1 DEF Lines
  <1>4. Lines([u EXCEPT !.y = n], f) = [[u EXCEPT !.y = n] EXCEPT !.cells = c]
    BY <1>1, <1>2 DEF Lines
  <1> HIDE DEF u, c
  <1>5. [[[u EXCEPT !.y = n] EXCEPT !.cells = c] EXCEPT !.y = ROWS - 1]
          = [[u EXCEPT !.cells = c] EXCEPT !.y = ROWS - 1]
    BY <1>1 DEF Wide
  <1> QED
    BY <1>3, <1>4, <1>5 DEF Scroll, u

LEMMA FlushedType ==
  ASSUME Screens, TypeOK
  PROVE  Flushed(vt, cx, cy) \in Term
  <1>1. cx \in 0..COLS /\ cx \in X /\ cy \in Y /\ attr \in Attrs /\ mode \in 0..2 /\ vt \in Wide
    BY Narrow DEF TypeOK, Screens, X
  <1>2. [vt EXCEPT !.x = cx] \in Term
    BY <1>1, SetX, Narrow
  <1>3. \A t \in Term : [t EXCEPT !.y = cy] \in Term
    BY <1>1, SetY, Narrow
  <1>4. \A t \in Term : [t EXCEPT !.attr = attr] \in Term
    BY <1>1, SetAttr, Narrow
  <1>5. \A t \in Term : [t EXCEPT !.esc = mode] \in Term
    BY <1>1, SetEsc, Narrow
  <1> QED
    BY <1>2, <1>3, <1>4, <1>5, Zenon DEF Flushed

LEMMA InitPointer == Screens /\ Init => PointerAtCursor
  <1> SUFFICES ASSUME Screens, Init PROVE PointerAtCursor
    OBVIOUS
  <1>1. Start \in Term
    <2>1. EmptyRow \in [X -> Cell] /\ 0 \in X /\ 0 \in Y /\ Default \in Attrs /\ <<>> \in Params
      BY EmptyCells DEF Screens, X, Y
    <2> QED
      BY <2>1 DEF Start, Term
  <1>2. TypeOK
    BY <1>1, Origin DEF Init, TypeOK
  <1> QED
    BY <1>2 DEF Init, PointerAtCursor

LEMMA StepPointer ==
  ASSUME Screens, PointerAtCursor, [Next]_vars
  PROVE  PointerAtCursor'
  <1>0. /\ TypeOK /\ ROWS \in Nat \ {0} /\ COLS \in Nat \ {0}
        /\ cx \in 0..COLS - 1 /\ cy \in 0..ROWS - 1 /\ vt \in Term /\ writing \in BOOLEAN
    BY DEF PointerAtCursor, TypeOK, Screens, X, Y
  <1>1. CASE StartWrite
    <2>1. vt.x \in X /\ vt.y \in Y /\ vt.attr \in Attrs /\ vt.esc \in 0..2
      BY <1>0 DEF Term
    <2>2. At(vt.x, vt.y) \in Nat /\ At(COLS, vt.y) \in Nat
      BY <1>0, <2>1 DEF At, X, Y
    <2> QED
      BY <1>0, <1>1, <2>1, <2>2 DEF StartWrite, PointerAtCursor, TypeOK
  <1>2. ASSUME writing = TRUE PROVE ptr = cy * COLS + cx /\ rowEnd = cy * COLS + COLS
    BY <1>2 DEF PointerAtCursor, At
  <1>3. CASE FastInRow
    <2>1. writing = TRUE /\ cx + 1 \in X
      BY <1>0, <1>2, <1>3 DEF FastInRow, X
    <2>2. vt' \in Term
      BY <1>0, <1>3, <2>1, PutType, Narrow DEF FastInRow, Term
    <2>3. ptr' = At(cx', cy') /\ rowEnd' = At(COLS, cy') /\ ptr' \in Nat
      BY <1>0, <1>2, <1>3, <2>1 DEF FastInRow, At
    <2> QED
      BY <1>0, <1>3, <2>1, <2>2, <2>3 DEF FastInRow, PointerAtCursor, TypeOK
  <1>4. CASE FastWraps
    <2>1. writing = TRUE /\ cx = COLS - 1 /\ cy + 1 \in Y /\ 0 \in X
      BY <1>0, <1>2, <1>4 DEF FastWraps, X, Y
    <2>2. vt' \in Term
      BY <1>0, <1>4, <2>1, PutType, Narrow DEF FastWraps, Term
    <2>3. ptr' = At(cx', cy') /\ rowEnd' = At(COLS, cy') /\ ptr' \in Nat /\ rowEnd' \in Nat
      BY <1>0, <1>2, <1>4, <2>1 DEF FastWraps, At
    <2> QED
      BY <1>0, <1>4, <2>1, <2>2, <2>3 DEF FastWraps, PointerAtCursor, TypeOK
  <1>5. CASE FastScrolls
    <2>1. PICK g \in Printable : vt' = Scroll([Put(g) EXCEPT !.x = 0, !.y = cy + 1])
      BY <1>5 DEF FastScrolls
    <2>2. writing = TRUE /\ 0 \in X /\ 0 \in 0..COLS
      BY <1>0, <1>5 DEF FastScrolls, X
    <2>3. vt' = Scroll([Put(g) EXCEPT !.x = 0])
      BY <2>1, <2>2, PutType, ScrollFrom
    <2>4. vt' \in Term
      BY <2>2, <2>3, PutType, SetX, ScrollType, Narrow
    <2>5. vt'.y \in 0..ROWS - 1
      BY <2>4 DEF Term, Y
    <2>6. At(0, vt'.y) \in Nat /\ At(COLS, vt'.y) \in Nat
      BY <1>0, <2>5 DEF At
    <2> QED
      BY <1>0, <1>5, <2>2, <2>4, <2>5, <2>6 DEF FastScrolls, PointerAtCursor, TypeOK, Y
  <1>6. CASE SlowPath
    <2>1. vt' \in Term
      BY <1>0, <1>6, FlushedType, HandledType DEF SlowPath
    <2>2. vt'.x \in X /\ vt'.y \in Y /\ vt'.attr \in Attrs /\ vt'.esc \in 0..2
      BY <2>1 DEF Term
    <2>3. At(vt'.x, vt'.y) \in Nat /\ At(COLS, vt'.y) \in Nat
      BY <1>0, <2>2 DEF At, X, Y
    <2>4. ptr' = At(cx', cy') /\ rowEnd' = At(COLS, cy')
      BY <1>6 DEF SlowPath, Moved, PointerAtCursor
    <2> QED
      BY <1>0, <1>6, <2>1, <2>2, <2>3, <2>4 DEF SlowPath, PointerAtCursor, TypeOK
  <1>7. CASE EndWrite
    <2>1. vt' \in Term
      BY <1>0, <1>7, FlushedType DEF EndWrite
    <2> QED
      BY <1>0, <1>7, <2>1, Origin DEF EndWrite, PointerAtCursor, TypeOK
  <1>8. CASE UNCHANGED vars
    BY <1>8 DEF vars, locals, PointerAtCursor, TypeOK
  <1> QED
    BY <1>1, <1>3, <1>4, <1>5, <1>6, <1>7, <1>8 DEF Next

(* Whatever mix of text and sequences a write brings, on a screen of any   *)
(* size, the pointer of vterm_write stays at the cursor and its end of row *)
(* at the cursor's row: text never lands in another cell or outside the    *)
(* buffer.                                                                 *)
THEOREM PointerStays == ASSUME Screens PROVE Spec => []PointerAtCursor
  BY InitPointer, StepPointer, PTL DEF Spec

-----------------------------------------------------------------------------
(* What a byte does to VTermBytes' terminal is what it does to this one's: *)
(* both are VTermScreen's operators.                                       *)
LEMMA SameBytes ==
  ASSUME NEW t
  PROVE  Bytes!PutText(t) = PutText(t) /\ Bytes!Handled(t) = Handled(t)
  <1>Lines. \A u, f : Bytes!Lines(u, f) = Lines(u, f)
    BY DEF Lines, Bytes!Lines, Y, Bytes!Y, X, Bytes!X, EmptyRow, Bytes!EmptyRow, Empty, Bytes!Empty
  <1>Erase. \A u, from, to : Bytes!Erase(u, from, to) = Erase(u, from, to)
    BY DEF Erase, Bytes!Erase, X, Bytes!X, Empty, Bytes!Empty
  <1>Scroll. \A u : Bytes!Scroll(u) = Scroll(u)
    BY <1>Lines DEF Scroll, Bytes!Scroll
  <1>ScrollDown. \A u : Bytes!ScrollDown(u) = ScrollDown(u)
    BY <1>Lines DEF ScrollDown, Bytes!ScrollDown
  <1>Down. \A u : Bytes!Down(u) = Down(u)
    BY <1>Scroll DEF Down, Bytes!Down
  <1>NewLine. \A u : Bytes!NewLine(u) = NewLine(u)
    BY <1>Down DEF NewLine, Bytes!NewLine
  <1>Wrapped. \A u : Bytes!Wrapped(u) = Wrapped(u)
    BY <1>NewLine DEF Wrapped, Bytes!Wrapped
  <1>PutGlyph. \A u, g : Bytes!PutGlyph(u, g) = PutGlyph(u, g)
    BY <1>Wrapped DEF PutGlyph, Bytes!PutGlyph
  <1>Backspace. \A u : Bytes!Backspace(u) = Backspace(u)
    BY <1>Erase DEF Backspace, Bytes!Backspace
  <1>Tab. \A u : Bytes!Tab(u) = Tab(u)
    BY <1>Erase, <1>Wrapped DEF Tab, Bytes!Tab, AtMost, Bytes!AtMost
  <1>PutChar. \A u, c : Bytes!PutChar(u, c) = PutChar(u, c)
    BY <1>NewLine, <1>Backspace, <1>Tab, <1>PutGlyph
       DEF PutChar, Bytes!PutChar, Printable, Bytes!Printable
  <1>Count. \A u : Bytes!Count(u) = Count(u)
    BY DEF Count, Bytes!Count, AtLeast, Bytes!AtLeast
  <1>Clear. \A u : Bytes!Clear(u) = Clear(u)
    BY DEF Clear, Bytes!Clear, Y, Bytes!Y, X, Bytes!X, EmptyRow, Bytes!EmptyRow, Empty, Bytes!Empty
  <1>MoveTo. \A u : Bytes!MoveTo(u) = MoveTo(u)
    BY DEF MoveTo, Bytes!MoveTo, Place, Bytes!Place, AtLeast, Bytes!AtLeast, AtMost, Bytes!AtMost
  <1>EraseInLine. \A u : Bytes!EraseInLine(u) = EraseInLine(u)
    BY <1>Erase DEF EraseInLine, Bytes!EraseInLine
  <1>InsertLines. \A u : Bytes!InsertLines(u) = InsertLines(u)
    BY <1>Lines, <1>Count DEF InsertLines, Bytes!InsertLines, AtMost, Bytes!AtMost, Y, Bytes!Y
  <1>DeleteLines. \A u : Bytes!DeleteLines(u) = DeleteLines(u)
    BY <1>Lines, <1>Count DEF DeleteLines, Bytes!DeleteLines, AtMost, Bytes!AtMost
  <1>Run. \A u, c, a : Bytes!Run(u, c, a) = Run(u, c, a)
    BY <1>Clear, <1>MoveTo, <1>EraseInLine, <1>Erase, <1>InsertLines, <1>DeleteLines, <1>Count
       DEF Run, Bytes!Run, AtLeast, Bytes!AtLeast, AtMost, Bytes!AtMost
  <1>RunPrivate. \A u, c : Bytes!RunPrivate(u, c) = RunPrivate(u, c)
    BY DEF RunPrivate, Bytes!RunPrivate
  <1>Finish. \A u, c, a : Bytes!Finish(u, c, a) = Finish(u, c, a)
    BY <1>Run, <1>RunPrivate DEF Finish, Bytes!Finish, Private, Bytes!Private
  <1>ReverseIndex. \A u : Bytes!ReverseIndex(u) = ReverseIndex(u)
    BY <1>ScrollDown DEF ReverseIndex, Bytes!ReverseIndex
  <1>Short. \A u, c : Bytes!Short(u, c) = Short(u, c)
    BY <1>Down, <1>ReverseIndex, <1>NewLine, <1>PutChar DEF Short, Bytes!Short
  <1>1. Bytes!PutText(t) = PutText(t)
    BY <1>PutChar DEF PutText, Bytes!PutText, Printable, Bytes!Printable
  <1>2. Bytes!PutControl(t) = PutControl(t)
    BY <1>PutChar DEF PutControl, Bytes!PutControl, Controls, Bytes!Controls
  <1>3. Bytes!StartEscape(t) = StartEscape(t)
    BY DEF StartEscape, Bytes!StartEscape
  <1>4. Bytes!EndShort(t) = EndShort(t)
    BY <1>Short DEF EndShort, Bytes!EndShort, Printable, Bytes!Printable, Controls, Bytes!Controls
  <1>5. Bytes!SetParams(t) = SetParams(t)
    BY DEF SetParams, Bytes!SetParams
  <1>6. Bytes!EndCommand(t) = EndCommand(t)
    BY <1>Finish DEF EndCommand, Bytes!EndCommand, Letters, Bytes!Letters, Commands, Bytes!Commands
  <1> QED
    BY <1>1, <1>2, <1>3, <1>4, <1>5, <1>6 DEF Handled, Bytes!Handled

-----------------------------------------------------------------------------
(* The fast path, step by step, against a glyph that is put.               *)

\* The terminal a write under way shows, with other cells and cursor.
Shown(c, x, y) ==
  [cells |-> c, x |-> x, y |-> y, attr |-> attr, visible |-> vt.visible, esc |-> mode,
   params |-> vt.params]

\* A terminal with another cursor, attribute and state of the parser.
Set(t, x, y, a, e) == [t EXCEPT !.x = x, !.y = y, !.attr = a, !.esc = e]

LEMMA SetMany ==
  ASSUME NEW t \in Wide, NEW x, NEW y, NEW a, NEW e
  PROVE  Set(t, x, y, a, e)
           = [cells |-> t.cells, x |-> x, y |-> y, attr |-> a, visible |-> t.visible, esc |-> e,
              params |-> t.params]
  <1> DEFINE R(i, j, k, l) ==
        [cells |-> t.cells, x |-> i, y |-> j, attr |-> k, visible |-> t.visible, esc |-> l,
         params |-> t.params]
  <1>1. t = R(t.x, t.y, t.attr, t.esc)
    BY DEF Wide
  <1>2. \A i, j, k, l, u : [R(i, j, k, l) EXCEPT !.x = u] = R(u, j, k, l)
    OBVIOUS
  <1>3. \A i, j, k, l, u : [R(i, j, k, l) EXCEPT !.y = u] = R(i, u, k, l)
    OBVIOUS
  <1>4. \A i, j, k, l, u : [R(i, j, k, l) EXCEPT !.attr = u] = R(i, j, u, l)
    OBVIOUS
  <1>5. \A i, j, k, l, u : [R(i, j, k, l) EXCEPT !.esc = u] = R(i, j, k, u)
    OBVIOUS
  <1> HIDE DEF R
  <1> DEFINE t1 == [t EXCEPT !.x = x]
             t2 == [t1 EXCEPT !.y = y]
             t3 == [t2 EXCEPT !.attr = a]
  <1>6. t1 = R(x, t.y, t.attr, t.esc)
    BY <1>1, <1>2
  <1> HIDE DEF t1
  <1>7. t2 = R(x, y, t.attr, t.esc)
    BY <1>3, <1>6
  <1> HIDE DEF t2
  <1>8. t3 = R(x, y, a, t.esc)
    BY <1>4, <1>7
  <1> HIDE DEF t3
  <1>9. [t3 EXCEPT !.esc = e] = R(x, y, a, e)
    BY <1>5, <1>8
  <1> QED
    BY <1>9 DEF t1, t2, t3, R, Set

LEMMA SetSame ==
  ASSUME NEW t \in Wide
  PROVE  Set(t, t.x, t.y, t.attr, t.esc) = t
  <1>1. t = [cells |-> t.cells, x |-> t.x, y |-> t.y, attr |-> t.attr, visible |-> t.visible,
             esc |-> t.esc, params |-> t.params]
    BY DEF Wide
  <1> QED
    BY <1>1, SetMany

LEMMA SetShown ==
  ASSUME NEW t \in Wide, t.visible = vt.visible, t.params = vt.params, NEW x, NEW y
  PROVE  Set(t, x, y, attr, mode) = Shown(t.cells, x, y)
  BY SetMany DEF Shown

LEMMA ShownFields ==
  ASSUME NEW c, NEW x, NEW y
  PROVE  /\ Shown(c, x, y).cells = c /\ Shown(c, x, y).x = x /\ Shown(c, x, y).y = y
         /\ Shown(c, x, y).attr = attr /\ Shown(c, x, y).esc = mode
  BY DEF Shown

LEMMA ShownX ==
  ASSUME NEW c, NEW x, NEW y, NEW u
  PROVE  [Shown(c, x, y) EXCEPT !.x = u] = Shown(c, u, y)
  BY DEF Shown

LEMMA ShownY ==
  ASSUME NEW c, NEW x, NEW y, NEW u
  PROVE  [Shown(c, x, y) EXCEPT !.y = u] = Shown(c, x, u)
  BY DEF Shown

LEMMA ShownCells ==
  ASSUME NEW c, NEW x, NEW y, NEW u
  PROVE  [Shown(c, x, y) EXCEPT !.cells = u] = Shown(u, x, y)
  BY DEF Shown

LEMMA PutShown ==
  ASSUME NEW c, NEW x, NEW y, NEW g
  PROVE  PutGlyph(Shown(c, x, y), g)
           = Wrapped(Shown([c EXCEPT ![y] = [c[y] EXCEPT ![x] = <<g, attr>>]], x + 1, y))
  <1> DEFINE t == Shown(c, x, y)
             d == [c EXCEPT ![y] = [c[y] EXCEPT ![x] = <<g, attr>>]]
  <1>1. t.cells = c /\ t.x = x /\ t.y = y /\ t.attr = attr
    BY ShownFields
  <1>2. /\ [t.cells EXCEPT ![t.y] = [t.cells[t.y] EXCEPT ![t.x] = <<g, t.attr>>]] = d
        /\ t.x + 1 = x + 1
    BY <1>1, Zenon
  <1>3. PutGlyph(t, g)
          = Wrapped([[t EXCEPT !.cells =
              [t.cells EXCEPT ![t.y] = [t.cells[t.y] EXCEPT ![t.x] = <<g, t.attr>>]]]
              EXCEPT !.x = t.x + 1])
    BY DEF PutGlyph
  <1>4. [[t EXCEPT !.cells = d] EXCEPT !.x = x + 1] = Shown(d, x + 1, y)
    <2> HIDE DEF d
    <2> DEFINE u == [t EXCEPT !.cells = d]
    <2>1. u = Shown(d, x, y)
      BY ShownCells
    <2> HIDE DEF u
    <2>2. [u EXCEPT !.x = x + 1] = Shown(d, x + 1, y)
      BY <2>1, ShownX
    <2> QED
      BY <2>2 DEF u
  <1> QED
    BY <1>2, <1>3, <1>4, Zenon

\* The cells one line up.
Up(c) == [y \in Y |-> IF y \in 0..ROWS - 2 THEN c[y + 1] ELSE EmptyRow]

LEMMA LinesUp ==
  ASSUME NEW t
  PROVE  Lines(t, [y \in 0..ROWS - 2 |-> y + 1]) = [t EXCEPT !.cells = Up(t.cells)]
  <1> DEFINE f == [y \in 0..ROWS - 2 |-> y + 1]
  <1>1. \A y \in Y : (IF y \in DOMAIN f THEN t.cells[f[y]] ELSE EmptyRow)
                    = (IF y \in 0..ROWS - 2 THEN t.cells[y + 1] ELSE EmptyRow)
    OBVIOUS
  <1>2. [y \in Y |-> IF y \in DOMAIN f THEN t.cells[f[y]] ELSE EmptyRow] = Up(t.cells)
    BY <1>1 DEF Up
  <1> HIDE DEF f
  <1>3. Lines(t, f)
          = [t EXCEPT !.cells = [y \in Y |-> IF y \in DOMAIN f THEN t.cells[f[y]] ELSE EmptyRow]]
    BY DEF Lines
  <1> QED
    BY <1>2, <1>3 DEF f

LEMMA ScrollShown ==
  ASSUME NEW c, NEW x, NEW y
  PROVE  Scroll(Shown(c, x, y)) = Shown(Up(c), x, ROWS - 1)
  <1> DEFINE t == Shown(c, x, y)
             u == [t EXCEPT !.cells = Up(t.cells)]
  <1>1. Scroll(t) = [u EXCEPT !.y = ROWS - 1]
    BY LinesUp DEF Scroll
  <1>2. u = Shown(Up(c), x, y)
    BY ShownCells, ShownFields
  <1> HIDE DEF u
  <1>3. [u EXCEPT !.y = ROWS - 1] = Shown(Up(c), x, ROWS - 1)
    BY <1>2, ShownY
  <1> QED
    BY <1>1, <1>3

LEMMA ScrollFields ==
  ASSUME NEW t \in Wide
  PROVE  /\ Scroll(t).cells = Up(t.cells) /\ Scroll(t).x = t.x /\ Scroll(t).y = ROWS - 1
         /\ Scroll(t).visible = t.visible /\ Scroll(t).params = t.params
  <1> DEFINE u == [t EXCEPT !.cells = Up(t.cells)]
  <1>1. Scroll(t) = [u EXCEPT !.y = ROWS - 1]
    BY LinesUp DEF Scroll
  <1>2. /\ u.cells = Up(t.cells) /\ u.x = t.x /\ u.visible = t.visible /\ u.params = t.params
        /\ DOMAIN u = DOMAIN t /\ "y" \in DOMAIN t
    BY DEF Wide
  <1> HIDE DEF u
  <1> QED
    BY <1>1, <1>2

LEMMA WrapShown ==
  ASSUME Screens, NEW c, NEW x \in Nat, NEW y \in Nat
  PROVE  /\ x < COLS => Wrapped(Shown(c, x, y)) = Shown(c, x, y)
         /\ x >= COLS /\ y + 1 < ROWS => Wrapped(Shown(c, x, y)) = Shown(c, 0, y + 1)
         /\ x >= COLS /\ y + 1 >= ROWS => Wrapped(Shown(c, x, y)) = Shown(Up(c), 0, ROWS - 1)
  <1>1. x < COLS => ~ (x >= COLS)
    BY DEF Screens
  <1>2. y + 1 < ROWS => ~ (y + 1 >= ROWS)
    BY DEF Screens
  <1>3. NewLine(Shown(c, x, y)) = Down(Shown(c, 0, y))
    BY ShownX DEF NewLine
  <1>4. y + 1 >= ROWS => Down(Shown(c, 0, y)) = Shown(Up(c), 0, ROWS - 1)
    BY ShownFields, ScrollShown DEF Down
  <1>5. y + 1 < ROWS => Down(Shown(c, 0, y)) = Shown(c, 0, y + 1)
    <2> DEFINE t == Shown(c, 0, y)
    <2>1. t.y = y
      BY ShownFields
    <2>2. [t EXCEPT !.y = y + 1] = Shown(c, 0, y + 1)
      BY ShownY
    <2>3. y + 1 < ROWS => Down(t) = [t EXCEPT !.y = t.y + 1]
      BY <1>2, <2>1 DEF Down
    <2> QED
      BY <2>1, <2>2, <2>3
  <1> QED
    BY <1>1, <1>3, <1>4, <1>5, ShownFields DEF Wrapped

\* The cells with a glyph at the cursor.
With(g) == [vt.cells EXCEPT ![cy] = [vt.cells[cy] EXCEPT ![cx] = <<g, attr>>]]

LEMMA PutFields ==
  ASSUME Screens, PointerAtCursor, writing = TRUE, NEW g \in Printable
  PROVE  /\ Put(g).cells = With(g)
         /\ Put(g).visible = vt.visible /\ Put(g).params = vt.params
  <1> DEFINE c == With(g)
  <1>1. Put(g) = [vt EXCEPT !.cells = c]
    BY PutType DEF With
  <1>2. vt \in Wide
    BY Narrow DEF PointerAtCursor, TypeOK
  <1> HIDE DEF c
  <1>3. [vt EXCEPT !.cells = c].cells = c /\ [vt EXCEPT !.cells = c].visible = vt.visible
        /\ [vt EXCEPT !.cells = c].params = vt.params
    BY <1>2 DEF Wide
  <1> QED
    BY <1>1, <1>3 DEF c

LEMMA SeenShown ==
  ASSUME Screens, PointerAtCursor, writing = TRUE
  PROVE  Seen = Shown(vt.cells, cx, cy)
  <1>1. vt \in Wide
    BY Narrow DEF PointerAtCursor, TypeOK
  <1>2. Set(vt, cx, cy, attr, mode) = Shown(vt.cells, cx, cy)
    BY <1>1, SetShown
  <1> QED
    BY <1>2 DEF Seen, Flushed, Set

LEMMA TextFed ==
  ASSUME Screens, PointerAtCursor, writing = TRUE, mode = 0, NEW g \in Printable
  PROVE  Wrapped(Shown(With(g), cx + 1, cy)) \in Bytes!PutText(Seen)
  <1> DEFINE t == Shown(vt.cells, cx, cy)
  <1>1. Seen = t /\ t.esc = 0
    BY SeenShown, ShownFields
  <1>2. PutChar(t, g) = PutGlyph(t, g)
    BY DEF PutChar, Screens, Controls
  <1>3. PutGlyph(t, g) = Wrapped(Shown(With(g), cx + 1, cy))
    BY PutShown DEF With
  <1> HIDE DEF t
  <1>4. PutChar(t, g) \in PutText(t)
    BY <1>1 DEF PutText
  <1> QED
    BY <1>1, <1>2, <1>3, <1>4, SameBytes

LEMMA StepFed ==
  ASSUME Screens, PointerAtCursor, PointerAtCursor', [Next]_vars
  PROVE  FedByBytes
  <1>0. /\ cx \in 0..COLS - 1 /\ cy \in 0..ROWS - 1 /\ cx + 1 \in Nat /\ cy \in Nat
        /\ vt \in Term /\ vt \in Wide /\ vt' \in Wide
        /\ ROWS \in Nat \ {0} /\ COLS \in Nat \ {0}
    BY Narrow DEF PointerAtCursor, TypeOK, Screens, X, Y
  <1>1. CASE StartWrite
    <2>1. Set(vt, vt.x, vt.y, vt.attr, vt.esc) = vt
      BY <1>0, SetSame
    <2>2. Seen = vt /\ Seen' = vt
      BY <1>1, <2>1 DEF StartWrite, Seen, Flushed, Set
    <2> QED
      BY <2>2 DEF FedByBytes
  <1>2. ASSUME writing = TRUE PROVE ptr = cy * COLS + cx /\ rowEnd = cy * COLS + COLS
    BY <1>2 DEF PointerAtCursor, At
  <1>3. CASE FastInRow
    <2>1. writing = TRUE /\ mode = 0 /\ cx + 1 < COLS
      BY <1>0, <1>2, <1>3 DEF FastInRow
    <2>2. PICK g \in Printable : vt' = Put(g)
      BY <1>3 DEF FastInRow
    <2>3. Seen' = Set(vt', cx + 1, cy, attr, mode)
      BY <1>3 DEF FastInRow, Seen, Flushed, Set
    <2>4. Seen' = Shown(With(g), cx + 1, cy)
      BY <1>0, <2>1, <2>2, <2>3, PutFields, SetShown
    <2> QED
      BY <1>0, <2>1, <2>4, WrapShown, TextFed DEF FedByBytes, Bytes!Byte
  <1>4. CASE FastWraps
    <2>1. writing = TRUE /\ mode = 0 /\ cx + 1 >= COLS /\ cy + 1 < ROWS
      BY <1>0, <1>2, <1>4 DEF FastWraps
    <2>2. PICK g \in Printable : vt' = Put(g)
      BY <1>4 DEF FastWraps
    <2>3. Seen' = Set(vt', 0, cy + 1, attr, mode)
      BY <1>4 DEF FastWraps, Seen, Flushed, Set
    <2>4. Seen' = Shown(With(g), 0, cy + 1)
      BY <1>0, <2>1, <2>2, <2>3, PutFields, SetShown
    <2> QED
      BY <1>0, <2>1, <2>4, WrapShown, TextFed DEF FedByBytes, Bytes!Byte
  <1>5. CASE FastScrolls
    <2>1. writing = TRUE /\ mode = 0 /\ cx + 1 >= COLS /\ cy + 1 >= ROWS
      BY <1>0, <1>2, <1>5 DEF FastScrolls
    <2>2. PICK g \in Printable : vt' = Scroll([Put(g) EXCEPT !.x = 0, !.y = cy + 1])
      BY <1>5 DEF FastScrolls
    <2> DEFINE u == [Put(g) EXCEPT !.x = 0]
    <2>3. Put(g) \in Wide
      BY <2>1, PutType
    <2>4. vt' = Scroll(u)
      BY <2>2, <2>3, ScrollFrom
    <2>5. u \in Wide /\ u.x = 0
      BY <2>3, SetX, Origin
    <2>6. u.cells = With(g) /\ u.visible = vt.visible /\ u.params = vt.params
      <3>1. u.cells = Put(g).cells /\ u.visible = Put(g).visible /\ u.params = Put(g).params
        BY <2>3 DEF Wide
      <3> QED
        BY <2>1, <3>1, PutFields
    <2> HIDE DEF u
    <2>7. /\ vt'.cells = Up(With(g)) /\ vt'.y = ROWS - 1
          /\ vt'.visible = vt.visible /\ vt'.params = vt.params
      BY <2>4, <2>5, <2>6, ScrollFields
    <2>8. Seen' = Set(vt', 0, vt'.y, attr, mode)
      BY <1>5 DEF FastScrolls, Seen, Flushed, Set
    <2>9. Seen' = Shown(Up(With(g)), 0, ROWS - 1)
      BY <1>0, <2>7, <2>8, SetShown
    <2> QED
      BY <1>0, <2>1, <2>9, WrapShown, TextFed DEF FedByBytes, Bytes!Byte
  <1>6. CASE SlowPath
    <2>1. writing = TRUE /\ vt' \in Handled(Seen)
      BY <1>6 DEF SlowPath, Seen
    <2>2. Seen' = Set(vt', vt'.x, vt'.y, vt'.attr, vt'.esc)
      BY <1>6 DEF SlowPath, Seen, Flushed, Set
    <2>3. Seen' = vt'
      BY <1>0, <2>2, SetSame
    <2> QED
      BY <2>1, <2>3, SameBytes DEF FedByBytes, Bytes!Byte
  <1>7. CASE EndWrite
    BY <1>7 DEF EndWrite, Seen, FedByBytes
  <1>8. CASE UNCHANGED vars
    BY <1>8 DEF vars, locals, Seen, Flushed, FedByBytes
  <1> QED
    BY <1>1, <1>3, <1>4, <1>5, <1>6, <1>7, <1>8 DEF Next

(* However the bytes are split into writes, every step of a write leaves   *)
(* the terminal as it is or does what feeding it one byte does.            *)
LEMMA WritesFeedBytes == ASSUME Screens PROVE Spec => [][FedByBytes]_vars
  <1>1. PointerAtCursor /\ PointerAtCursor' /\ [Next]_vars => [FedByBytes]_vars
    BY StepFed
  <1> QED
    BY <1>1, PointerStays, PTL DEF Spec

(* The fast path of vterm_write makes no difference: a terminal it writes  *)
(* to is the state machine of breezy_term/README.md, fed byte by byte.     *)
THEOREM WriteImplementsBytes == ASSUME Screens PROVE Spec => ImplementsBytes
  <1>1. Init => Seen = Bytes!Start
    BY DEF Init, Seen, Start, Bytes!Start, EmptyRow, Bytes!EmptyRow, Empty, Bytes!Empty, X, Bytes!X,
           Y, Bytes!Y
  <1>2. [FedByBytes]_vars => [Bytes!Byte]_Seen
    <2>1. UNCHANGED vars => UNCHANGED Seen
      BY DEF vars, locals, Seen, Flushed
    <2>2. FedByBytes => [Bytes!Byte]_Seen
      BY DEF FedByBytes
    <2> QED
      BY <2>1, <2>2
  <1> QED
    BY <1>1, <1>2, WritesFeedBytes, PTL DEF Spec, ImplementsBytes, Bytes!Spec
=============================================================================
