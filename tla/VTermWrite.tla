----------------------------- MODULE VTermWrite -----------------------------
(***************************************************************************)
(* vterm_write (breezy_term/vterm.c): the loop over a write's bytes, which *)
(* keeps the cursor, the attribute and the parser's state in local         *)
(* variables, puts plain text straight through a pointer into the cells,   *)
(* and goes back to the terminal's own fields for every other byte.  A     *)
(* write may stop after any byte, and the next go on from there.           *)
(***************************************************************************)
EXTENDS VTermScreen

VARIABLES
  vt,            \* the vterm_t
  writing,       \* is a write under way?  Then these are its locals:
  cx, cy,        \* the cursor
  ptr, rowEnd,   \* cursor_ptr and row_end, as indices into the cells
  attr, mode     \* current_attr and escape_mode

locals == <<cx, cy, ptr, rowEnd, attr, mode>>
vars == <<vt, writing, locals>>

At(x, y) == y * COLS + x

Init ==
  /\ vt = Start
  /\ writing = FALSE
  /\ cx = 0 /\ cy = 0 /\ ptr = 0 /\ rowEnd = COLS /\ attr = Default /\ mode = 0

StartWrite ==
  /\ ~writing
  /\ writing' = TRUE
  /\ cx' = vt.x /\ cy' = vt.y
  /\ ptr' = At(vt.x, vt.y) /\ rowEnd' = At(COLS, vt.y)
  /\ attr' = vt.attr /\ mode' = vt.esc
  /\ UNCHANGED vt

\* The fields of vt as the loop's locals would have them.
Flushed(t, x, y) == [t EXCEPT !.x = x, !.y = y, !.attr = attr, !.esc = mode]
Put(g) == [vt EXCEPT !.cells[ptr \div COLS][ptr % COLS] = <<g, attr>>]

\* Inside the row: nothing but the cell and the locals changes.
FastInRow ==
  /\ writing /\ mode = 0 /\ ptr + 1 < rowEnd
  /\ \E g \in Printable : vt' = Put(g)
  /\ ptr' = ptr + 1 /\ cx' = cx + 1
  /\ UNCHANGED <<writing, cy, rowEnd, attr, mode>>

\* row_end is left at the row before.
MutantFastWraps ==
  /\ writing /\ mode = 0 /\ ptr + 1 >= rowEnd /\ cy + 1 < ROWS
  /\ \E g \in Printable : vt' = Put(g)
  /\ ptr' = ptr + 1 /\ cx' = 0 /\ cy' = cy + 1
  /\ UNCHANGED <<writing, rowEnd, attr, mode>>

FastWraps ==
  /\ writing /\ mode = 0 /\ ptr + 1 >= rowEnd /\ cy + 1 < ROWS
  /\ \E g \in Printable : vt' = Put(g)
  /\ ptr' = ptr + 1 /\ cx' = 0 /\ cy' = cy + 1 /\ rowEnd' = rowEnd + COLS
  /\ UNCHANGED <<writing, attr, mode>>

FastScrolls ==
  /\ writing /\ mode = 0 /\ ptr + 1 >= rowEnd /\ cy + 1 >= ROWS
  /\ \E g \in Printable : vt' = Scroll([Put(g) EXCEPT !.x = 0, !.y = cy + 1])
  /\ cx' = 0 /\ cy' = vt'.y
  /\ ptr' = At(0, vt'.y) /\ rowEnd' = At(COLS, vt'.y)
  /\ UNCHANGED <<writing, attr, mode>>

Moved == vt'.x # cx \/ vt'.y # cy

SlowPath ==
  /\ writing
  /\ vt' \in Handled(Flushed(vt, cx, cy))
  /\ mode' = vt'.esc /\ attr' = vt'.attr
  /\ cx' = vt'.x /\ cy' = vt'.y
  /\ ptr' = IF Moved THEN At(vt'.x, vt'.y) ELSE ptr
  /\ rowEnd' = IF Moved THEN At(COLS, vt'.y) ELSE rowEnd
  /\ UNCHANGED writing

\* The cursor is not written back.
MutantEndWrite ==
  /\ writing
  /\ writing' = FALSE
  /\ vt' = Flushed(vt, vt.x, vt.y)
  /\ cx' = 0 /\ cy' = 0 /\ ptr' = 0 /\ rowEnd' = COLS /\ attr' = Default /\ mode' = 0

\* The locals die: they are set back so that states differ by what matters.
EndWrite ==
  /\ writing
  /\ writing' = FALSE
  /\ vt' = Flushed(vt, cx, cy)
  /\ cx' = 0 /\ cy' = 0 /\ ptr' = 0 /\ rowEnd' = COLS /\ attr' = Default /\ mode' = 0

Next == StartWrite \/ FastInRow \/ FastWraps \/ FastScrolls \/ SlowPath \/ EndWrite

Spec == Init /\ [][Next]_vars

-----------------------------------------------------------------------------
(* The terminal's fields keep their ranges, so does the loop's cursor.     *)
TypeOK ==
  /\ vt \in Term
  /\ writing \in BOOLEAN
  /\ cx \in X /\ cy \in Y
  /\ attr \in Attrs /\ mode \in 0..2
  /\ ptr \in Nat /\ rowEnd \in Nat

(* Whatever mix of text and sequences a write brings, its pointer stays at *)
(* the cursor and its end of row at the cursor's row: text never lands in  *)
(* another cell or outside the buffer.                                     *)
PointerAtCursor ==
  TypeOK /\ (writing => ptr = At(cx, cy) /\ rowEnd = At(COLS, cy))

(* The fast path makes no difference: each step of a write leaves the      *)
(* terminal as it is or as feeding it one byte would (VTermBytes), however *)
(* the bytes are split into writes.                                        *)
Seen == IF writing THEN Flushed(vt, cx, cy) ELSE vt
Bytes == INSTANCE VTermBytes WITH term <- Seen
FedByBytes == Bytes!Byte \/ UNCHANGED Seen
ImplementsBytes == Bytes!Spec
=============================================================================
