---------------------------- MODULE VTermScreen ----------------------------
(***************************************************************************)
(* One terminal's screen, byte by byte (breezy_term/vterm.c): the control  *)
(* characters, the escape-sequence parser and the commands it runs, as     *)
(* operators on the terminal's state.                                      *)
(*                                                                         *)
(* A cell is a glyph and an attribute.  The parameters of a sequence       *)
(* arrive as one unit, a sequence of numbers, and the colours of an SGR    *)
(* sequence as the attribute they lead to.                                 *)
(***************************************************************************)
EXTENDS Integers, Sequences

CONSTANTS
  ROWS, COLS,      \* VTERM_ROWS, VTERM_COLS
  TabStop,         \* 8
  Glyphs, Space,   \* the printable characters: the space and the others
  Attrs, Default,  \* attributes, and VTERM_DEFAULT_ATTR
  Params           \* the parameters a sequence may carry: none, Private and
                   \* sequences of one or two numbers

Private == <<-25>> \* the parameter "?25" of a DEC private sequence

Y == 0..ROWS - 1
X == 0..COLS - 1
Printable == Glyphs \cup {Space}
Cell == Printable \X Attrs
Empty(a) == <<Space, a>>
EmptyRow == [x \in X |-> Empty(Default)]

\* The vterm_t: cells, cursor, attribute and parser.
Term == [cells: [Y -> [X -> Cell]], x: X, y: Y, attr: Attrs, visible: BOOLEAN,
         esc: 0..2, params: Params]

Start == [cells |-> [y \in Y |-> EmptyRow], x |-> 0, y |-> 0,
          attr |-> Default, visible |-> TRUE, esc |-> 0, params |-> <<>>]

-----------------------------------------------------------------------------
(* Moving lines.  Lines(t, f) gives row y what row f[y] held, and clears   *)
(* the rows f leaves out.                                                  *)

Lines(t, f) ==
  [t EXCEPT !.cells =
     [y \in Y |-> IF y \in DOMAIN f THEN t.cells[f[y]] ELSE EmptyRow]]

Scroll(t) ==
  [Lines(t, [y \in 0..ROWS - 2 |-> y + 1]) EXCEPT !.y = ROWS - 1]
ScrollDown(t) == Lines(t, [y \in 1..ROWS - 1 |-> y - 1])

Down(t) == IF t.y + 1 >= ROWS THEN Scroll(t) ELSE [t EXCEPT !.y = @ + 1]
NewLine(t) == Down([t EXCEPT !.x = 0])

\* Columns from..to - 1 of the cursor's row become spaces.
Erase(t, from, to) ==
  [t EXCEPT !.cells[t.y] =
     [x \in X |-> IF from <= x /\ x < to THEN Empty(t.attr) ELSE @[x]]]

AtLeast(a, b) == IF a < b THEN b ELSE a
AtMost(a, b) == IF a > b THEN b ELSE a

-----------------------------------------------------------------------------
(* vterm_putchar_internal                                                  *)

Wrapped(t) == IF t.x >= COLS THEN NewLine(t) ELSE t

PutGlyph(t, g) ==
  Wrapped([t EXCEPT !.cells[t.y][t.x] = <<g, t.attr>>, !.x = @ + 1])

Backspace(t) ==
  IF t.x > 0 THEN Erase([t EXCEPT !.x = @ - 1], t.x - 1, t.x) ELSE t

Tab(t) ==
  LET stop == AtMost((t.x \div TabStop + 1) * TabStop, COLS)
  IN  Wrapped([Erase(t, t.x, stop) EXCEPT !.x = stop])

Controls == {"nl", "cr", "bs", "tab"}

PutChar(t, c) ==
  CASE c = "nl"  -> NewLine(t)
    [] c = "cr"  -> [t EXCEPT !.x = 0]
    [] c = "bs"  -> Backspace(t)
    [] c = "tab" -> Tab(t)
    [] c \in Printable -> PutGlyph(t, c)
    [] OTHER -> t

-----------------------------------------------------------------------------
(* vterm_handle_escape: the commands, once their last letter arrives.      *)

Count(t) == IF t.params = <<>> THEN 1 ELSE AtLeast(t.params[1], 1)

Clear(t) == [t EXCEPT !.cells = [y \in Y |-> EmptyRow], !.x = 0, !.y = 0,
                      !.visible = TRUE, !.attr = Default]

\* Row and column count from 1 in the sequence, from 0 in the terminal.
Place(n, size) == AtMost(AtLeast(n, 1) - 1, size - 1)
MoveTo(t) ==
  LET row == IF t.params = <<>> THEN 1 ELSE t.params[1]
      col == IF Len(t.params) < 2 THEN 1 ELSE t.params[2]
  IN  [t EXCEPT !.y = Place(row, ROWS), !.x = Place(col, COLS)]

EraseInLine(t) ==
  LET how == IF t.params = <<>> THEN 0 ELSE t.params[1]
  IN  Erase(t, IF how = 0 THEN t.x ELSE 0, IF how = 1 THEN t.x + 1 ELSE COLS)

InsertLines(t) ==
  LET n == AtMost(Count(t), ROWS - t.y)
  IN  Lines(t, [y \in Y \ (t.y..t.y + n - 1) |-> IF y < t.y THEN y ELSE y - n])

DeleteLines(t) ==
  LET n == AtMost(Count(t), ROWS - t.y)
  IN  Lines(t, [y \in 0..ROWS - 1 - n |-> IF y < t.y THEN y ELSE y + n])

Commands == {"m", "J", "H", "A", "B", "C", "D", "K", "X", "L", "M", "other"}

\* A report of the cursor ("n") leaves the screen alone, like the unknown ones.
Run(t, c, a) ==
  CASE c = "m" -> [t EXCEPT !.attr = a]
    [] c = "J" -> IF t.params \in {<<>>, <<2>>} THEN Clear(t) ELSE t
    [] c = "H" -> MoveTo(t)
    [] c = "A" -> [t EXCEPT !.y = AtLeast(@ - Count(t), 0)]
    [] c = "B" -> [t EXCEPT !.y = AtMost(@ + Count(t), ROWS - 1)]
    [] c = "C" -> [t EXCEPT !.x = AtMost(@ + Count(t), COLS - 1)]
    [] c = "D" -> [t EXCEPT !.x = AtLeast(@ - Count(t), 0)]
    [] c = "K" -> EraseInLine(t)
    [] c = "X" -> Erase(t, t.x, AtMost(t.x + Count(t), COLS))
    [] c = "L" -> InsertLines(t)
    [] c = "M" -> DeleteLines(t)
    [] OTHER -> t

RunPrivate(t, c) ==
  IF c \in {"h", "l"} THEN [t EXCEPT !.visible = (c = "h")] ELSE t

Finish(t, c, a) ==
  [(IF t.params = Private THEN RunPrivate(t, c) ELSE Run(t, c, a))
     EXCEPT !.esc = 0, !.params = <<>>]

ReverseIndex(t) == IF t.y <= 0 THEN ScrollDown(t) ELSE [t EXCEPT !.y = @ - 1]

(* ESC and one letter.  Any other byte ends the sequence and is then       *)
(* printed as if it stood alone.                                           *)
Short(t, c) ==
  LET done == [t EXCEPT !.esc = 0]
  IN  CASE c = "["  -> [t EXCEPT !.esc = 2, !.params = <<>>]
        [] c = "D"  -> Down(done)
        [] c = "M"  -> ReverseIndex(done)
        [] c = "E"  -> NewLine(done)
        [] OTHER -> PutChar(done, c)

-----------------------------------------------------------------------------
(* What the next byte, or unit of bytes, may make of a terminal.           *)

Letters == {"h", "l"} \cup Commands

PutText(t)     == IF t.esc = 0 THEN {PutChar(t, g) : g \in Printable} ELSE {}
PutControl(t)  == IF t.esc = 0 THEN {PutChar(t, c) : c \in Controls} ELSE {}
StartEscape(t) == IF t.esc = 0 THEN {[t EXCEPT !.esc = 1]} ELSE {}
EndShort(t) ==
  IF t.esc = 1
  THEN {Short(t, c) : c \in Printable \cup Controls \cup {"[", "D", "M", "E", "esc"}}
  ELSE {}
SetParams(t) ==
  IF t.esc = 2 /\ t.params = <<>> THEN {[t EXCEPT !.params = p] : p \in Params} ELSE {}
EndCommand(t) ==
  IF t.esc = 2 THEN {Finish(t, c, a) : c \in Letters, a \in Attrs} ELSE {}

Handled(t) ==
  PutControl(t) \cup StartEscape(t) \cup EndShort(t) \cup SetParams(t) \cup EndCommand(t)
=============================================================================
