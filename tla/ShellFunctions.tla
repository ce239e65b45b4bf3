--------------------------- MODULE ShellFunctions ---------------------------
(***************************************************************************)
(* Who owns the bodies of the shell's functions: the tree of the line that *)
(* defines them, then the list of functions, which frees a body it         *)
(* replaces or forgets (exec_funcdef and call_function of shell/sh_exec.c, *)
(* sh_func_define and sh_func_unset of sh_state.c).                        *)
(***************************************************************************)
EXTENDS Sequences, SequencesExt, FiniteSets, Integers

CONSTANTS
  Funcs,        \* names of functions
  Sites,        \* definitions in the text of the line: its function definition nodes
  Defines,      \* the function each of them defines
  MaxCalls      \* SH_MAX_CALL_DEPTH

VARIABLES
  held,         \* n->body of each node
  funcs,        \* the body of each function that is defined
  freed,        \* bodies given to sh_free_node
  running       \* the bodies of the calls in progress, innermost last

vars == <<held, funcs, freed, running>>

Undefined == "undefined"
Null == "null"
Bodies == Sites \cup {Null}

Init ==
  /\ held = [s \in Sites |-> s] /\ funcs = [f \in Funcs |-> Undefined]
  /\ freed = {} /\ running = <<>>

Free(f) == freed \cup ({funcs[f]} \cap Sites)

(* The statement is reached once more in a loop, or by a function called   *)
(* again; the node keeps no body after the first time.                     *)
Define(s) ==
  LET f == Defines[s] IN
  /\ funcs' = [funcs EXCEPT ![f] = held[s]]
  /\ freed' = IF funcs[f] = Undefined THEN freed ELSE Free(f)
  /\ held' = [held EXCEPT ![s] = Null]
  /\ UNCHANGED running

UnsetFunction(f) ==
  /\ funcs[f] # Undefined
  /\ freed' = Free(f) /\ funcs' = [funcs EXCEPT ![f] = Undefined]
  /\ UNCHANGED <<held, running>>

Call(f) ==
  /\ funcs[f] # Undefined /\ Len(running) < MaxCalls
  /\ running' = Append(running, funcs[f])
  /\ UNCHANGED <<held, funcs, freed>>

Return == running # <<>> /\ running' = Front(running) /\ UNCHANGED <<held, funcs, freed>>

Next == (\E s \in Sites : Define(s)) \/ (\E f \in Funcs : UnsetFunction(f) \/ Call(f)) \/ Return

Spec == Init /\ [][Next]_vars

-----------------------------------------------------------------------------
(* A call walks a body that is there: a function takes its body over for   *)
(* as long as it is defined or runs (exec_funcdef, "ownership transferred; *)
(* keep sh_free_node(root) from freeing it").                              *)
CallsWalkBodies == \A i \in DOMAIN running : running[i] \in Sites \ freed
=============================================================================
