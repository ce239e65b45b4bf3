----------------------------- MODULE VTermBytes -----------------------------
(***************************************************************************)
(* The terminal state machine breezy_term/README.md describes: it is fed   *)
(* text, including escape sequences, and maintains the cells and the       *)
(* cursor.  One step is one byte, whichever write brought it.              *)
(***************************************************************************)
EXTENDS VTermScreen

VARIABLE term

Byte == term' \in PutText(term) \cup Handled(term)

Spec == term = Start /\ [][Byte]_term
=============================================================================
