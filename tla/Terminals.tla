----------------------------- MODULE Terminals -----------------------------
(***************************************************************************)
(* What the virtual terminals promise (breezy_term/include/vterm.h):       *)
(* each terminal keeps its own screen, one of them is shown, a write       *)
(* changes the screen it is addressed to and no other, and a terminal that *)
(* enters graphics mode gets the screen it had then back when it leaves.   *)
(***************************************************************************)
CONSTANTS VTs, Texts, First, Blank

VARIABLES
  screen,     \* what each terminal shows, or would
  shown,      \* the terminal on the display
  graphics,   \* is the display in graphics mode?
  kept        \* in graphics mode, the screen to come back to

vars == <<screen, shown, graphics, kept>>

Init ==
  /\ screen = [v \in VTs |-> Blank]
  /\ shown = First
  /\ graphics = FALSE
  /\ kept = Blank

Write == \E v \in VTs, x \in Texts :
  /\ screen' = [screen EXCEPT ![v] = x]
  /\ UNCHANGED <<shown, graphics, kept>>

Switch == \E v \in VTs :
  /\ ~graphics
  /\ shown' = v
  /\ UNCHANGED <<screen, graphics, kept>>

Enter ==
  /\ ~graphics
  /\ graphics' = TRUE
  /\ kept' = screen[shown]
  /\ UNCHANGED <<screen, shown>>

Exit ==
  /\ graphics
  /\ screen' = [screen EXCEPT ![shown] = kept]
  /\ graphics' = FALSE
  /\ kept' = Blank
  /\ UNCHANGED shown

Next == Write \/ Switch \/ Enter \/ Exit

Spec == Init /\ [][Next]_vars
=============================================================================
