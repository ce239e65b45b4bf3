-------------------------- MODULE MCShellFunctions --------------------------
(* One function with two definitions in the text.                          *)
EXTENDS ShellFunctions
DefineF == [s \in Sites |-> "f"]
=============================================================================
