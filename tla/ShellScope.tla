----------------------------- MODULE ShellScope -----------------------------
(***************************************************************************)
(* The shell's bindings: variables and their mirror in the environment,    *)
(* positional parameters, the working directory, and the constructs that   *)
(* change them for a while and put them back: assignments before a         *)
(* command, function calls with their local scopes, subshells              *)
(* (shell/sh_state.c, sh_exec.c and the builtins of sh_builtins.c).        *)
(*                                                                         *)
(* The C stack is a sequence of frames, innermost last.  st->scopes is     *)
(* spread over the frames of the calls, whose order it has.  Control flow  *)
(* is ShellExec's: here a frame may end at any time.                       *)
(***************************************************************************)
EXTENDS Integers, Sequences, SequencesExt, FiniteSets

CONSTANTS
  Names, Values,
  Dirs,            \* the directories there are (values of PWD and OLDPWD)
  Params,          \* the positional parameters a call or set may pass
  Uses,            \* the constructs the program uses, and what it does
                   \* with effects another shell does not have: "twice",
                   \* "local in subshell", "local under prefix", "export
                   \* under prefix", "export in subshell", "cd in subshell"
  MaxFrames,       \* bound on the nesting, calls included
  MaxLocals        \* bound on the local declarations of a call

VARIABLES
  store,     \* val and exp: the sh_var list; env: the C environment
  pos,       \* $1...
  dir,       \* the working directory of the file system
  cwd,       \* st->cwd
  frames,    \* the constructs in progress
  exiting

vars == <<store, pos, dir, cwd, frames, exiting>>

None == "none"
Empty == ""
Store == [val: [Names -> Values \cup Dirs \cup {None, Empty}], exp: [Names -> BOOLEAN],
          env: [Names -> Values \cup Dirs \cup {None, Empty}]]

Top == frames[Len(frames)]
In(kind) == frames # <<>> /\ Top.kind = kind
Pop == frames' = Front(frames)
(* What runs before a command runs it once.                                *)
Running == ~exiting /\ (In("prefix") => ~Top.ran)
Ran == IF In("prefix") THEN [frames EXCEPT ![Len(frames)].ran = TRUE] ELSE frames
Command(use) == use \in Uses /\ Running

Frame(kind) ==
  [kind |-> kind, saved |-> <<>>, val |-> <<>>, pos |-> pos, dir |-> dir, ran |-> FALSE]

(* sh_set, sh_unset and sh_export.  An unset variable is not exported.     *)
\* The mistake of changing an exported variable without its environment.
MutantPut(s, n, v) == [s EXCEPT !.val[n] = v]

Put(s, n, v) ==
  IF s.val[n] = None THEN [s EXCEPT !.val[n] = v, !.exp[n] = FALSE]
  ELSE [s EXCEPT !.val[n] = v, !.env[n] = IF s.exp[n] THEN v ELSE @]

Del(s, n) ==
  IF s.val[n] = None THEN s
  ELSE [s EXCEPT !.val[n] = None, !.exp[n] = FALSE, !.env[n] = IF s.exp[n] THEN None ELSE @]

Export(s, n) ==
  IF s.val[n] = None THEN [Put(s, n, Empty) EXCEPT !.exp[n] = TRUE]
  ELSE [s EXCEPT !.exp[n] = TRUE, !.env[n] = s.val[n]]

Restore(s, n, v) == IF v = None THEN Del(s, n) ELSE Put(s, n, v)

-----------------------------------------------------------------------------
(* Simple assignments and the builtins.                                    *)
Assign ==
  /\ Command("assign") /\ ~In("prefix")
  /\ \E n \in Names, v \in Values : store' = Put(store, n, v)
  /\ UNCHANGED <<pos, dir, cwd, frames, exiting>>

Unset ==
  /\ Command("unset")
  /\ \E n \in Names : store' = Del(store, n)
  /\ frames' = Ran /\ UNCHANGED <<pos, dir, cwd, exiting>>

Inside(kind, n) ==
  \E i \in DOMAIN frames : /\ frames[i].kind = kind
                           /\ kind = "prefix" => \E k \in DOMAIN frames[i].saved : frames[i].saved[k].name = n
Allowed(n, kind, excess) == Inside(kind, n) => excess \in Uses

RunExport ==
  /\ Command("export")
  /\ \E n \in Names, v \in Values \cup {None} :
       /\ Allowed(n, "prefix", "export under prefix")
       /\ Allowed(n, "subshell", "export in subshell")
       /\ store' = Export(IF v = None THEN store ELSE Put(store, n, v), n)
  /\ frames' = Ran /\ UNCHANGED <<pos, dir, cwd, exiting>>

(* The innermost call, whose scope is the first of st->scopes.             *)
Calls == {i \in DOMAIN frames : frames[i].kind = "call"}
Innermost == CHOOSE i \in Calls : \A j \in Calls : j <= i
Between(kind, n) ==
  \E i \in Innermost .. Len(frames) :
    /\ frames[i].kind = kind
    /\ kind = "prefix" => \E k \in DOMAIN frames[i].saved : frames[i].saved[k].name = n

(* local of a function; elsewhere it is refused.                           *)
Local ==
  /\ Command("local")
  /\ \E n \in Names, v \in Values \cup {None} :
       IF Calls = {} THEN frames' = Ran /\ UNCHANGED store
       ELSE /\ Len(frames[Innermost].saved) < MaxLocals
            /\ Between("subshell", n) => "local in subshell" \in Uses
            /\ Between("prefix", n) => "local under prefix" \in Uses
            /\ frames' = [Ran EXCEPT ![Innermost].saved =
                            <<[name |-> n, val |-> store.val[n], env |-> None]>> \o @]
            /\ store' = IF v = None THEN store ELSE Put(store, n, v)
  /\ UNCHANGED <<pos, dir, cwd, exiting>>

Set ==
  /\ Command("set") /\ pos' \in Params
  /\ frames' = Ran /\ UNCHANGED <<store, dir, cwd, exiting>>

Shift ==
  /\ Command("shift")
  /\ \E n \in 0..2 : pos' = IF n > Len(pos) THEN pos ELSE SubSeq(pos, n + 1, Len(pos))
  /\ frames' = Ran /\ UNCHANGED <<store, dir, cwd, exiting>>

(* cd, and cd - (PWD and OLDPWD are set together where both are modelled). *)
Follow(s, n, v) == IF n \in Names THEN Put(s, n, v) ELSE s
Cd ==
  /\ Command("cd")
  /\ \A i \in DOMAIN frames : frames[i].kind = "subshell" => "cd in subshell" \in Uses
  /\ \E target \in Dirs \cup (IF "OLDPWD" \in Names THEN {store.val["OLDPWD"]} ELSE {}) :
       IF target \in Dirs
       THEN /\ dir' = target /\ cwd' = target
            /\ store' = Follow(Follow(store, "OLDPWD", cwd), "PWD", target)
       ELSE UNCHANGED <<store, dir, cwd>>
  /\ frames' = Ran /\ UNCHANGED <<pos, exiting>>

-----------------------------------------------------------------------------
(* Assignments before a command: each is applied and exported, after the   *)
(* values it hides are saved.                                              *)
Bind(acc, a) ==
  [store |-> [Put(acc.store, a.name, a.val) EXCEPT !.env[a.name] = a.val],
   saved |-> Append(acc.saved, [name |-> a.name, val |-> acc.store.val[a.name],
                                env |-> acc.store.env[a.name]])]

Bindings ==
  {b \in UNION {[1..k -> [name: Names, val: Values]] : k \in 1..2} :
     b[1].name = b[Len(b)].name => Len(b) = 1 \/ "twice" \in Uses}

BeginCommand ==
  /\ Command("prefix") /\ ~In("prefix") /\ Len(frames) < MaxFrames
  /\ \E b \in Bindings :
       LET bound == FoldLeft(Bind, [store |-> store, saved |-> <<>>], b)
       IN store' = bound.store /\ frames' = Append(frames, [Frame("prefix") EXCEPT !.saved = bound.saved])
  /\ UNCHANGED <<pos, dir, cwd, exiting>>

(* A fatal expansion in an assignment: the bindings stay.                  *)
BindFatal ==
  /\ Command("fatal") /\ ~In("prefix")
  /\ \E b \in Bindings : store' = FoldLeft(Bind, [store |-> store, saved |-> <<>>], b).store
  /\ exiting' = TRUE /\ UNCHANGED <<pos, dir, cwd, frames>>

Unbind(s, b) == [Restore(s, b.name, b.val) EXCEPT !.env[b.name] = b.env]
EndCommand ==
  /\ In("prefix")
  /\ store' = FoldLeft(Unbind, store, Top.saved)
  /\ Pop /\ UNCHANGED <<pos, dir, cwd, exiting>>

(* A function call, and its end by any way out.                            *)
Call ==
  /\ Command("call") /\ Len(frames) < MaxFrames
  /\ frames' = Append(Ran, Frame("call")) /\ pos' \in Params
  /\ UNCHANGED <<store, dir, cwd, exiting>>

\* The mistake of restoring the oldest declaration first.
MutantPopScope(s, saved) ==
  FoldLeft(LAMBDA acc, b : Restore(acc, b.name, b.val), s, Reverse(saved))

PopScope(s, saved) == FoldLeft(LAMBDA acc, b : Restore(acc, b.name, b.val), s, saved)

EndCall ==
  /\ In("call")
  /\ store' = PopScope(store, Top.saved) /\ pos' = Top.pos
  /\ Pop /\ UNCHANGED <<dir, cwd, exiting>>

(* A subshell.  clone_vars leaves `exported` uninitialized.                *)
BeginSubshell ==
  /\ Command("subshell") /\ ~In("prefix") /\ Len(frames) < MaxFrames
  /\ frames' = Append(frames, [Frame("subshell") EXCEPT !.val = store.val])
  /\ UNCHANGED <<store, pos, dir, cwd, exiting>>

EndSubshell ==
  /\ In("subshell")
  /\ \E e \in [Names -> BOOLEAN] :
       store' = [store EXCEPT !.val = Top.val,
                              !.exp = [n \in Names |-> Top.val[n] # None /\ e[n]]]
  /\ pos' = Top.pos /\ dir' = Top.dir /\ exiting' = FALSE
  /\ Pop /\ UNCHANGED cwd

(* The variables taken from the environment at the start are not exported. *)
Init ==
  /\ dir \in Dirs /\ cwd = dir
  /\ \E inherited \in SUBSET (Names \ {"PWD"}), v \in Values :
       store = [val |-> [n \in Names |-> IF n = "PWD" THEN cwd ELSE IF n \in inherited THEN v ELSE None],
                env |-> [n \in Names |-> IF n = "PWD" THEN cwd ELSE IF n \in inherited THEN v ELSE None],
                exp |-> [n \in Names |-> n = "PWD"]]
  /\ pos \in Params
  /\ frames = <<>> /\ exiting = FALSE

Next == \/ Assign \/ Unset \/ RunExport \/ Local \/ Set \/ Shift \/ Cd
        \/ BeginCommand \/ BindFatal \/ EndCommand \/ Call \/ EndCall
        \/ BeginSubshell \/ EndSubshell

Spec == Init /\ [][Next]_vars

-----------------------------------------------------------------------------
(* Properties.                                                             *)

TypeOK ==
  /\ store \in Store /\ dir \in Dirs /\ cwd \in Dirs /\ exiting \in BOOLEAN
  /\ \A n \in Names : store.exp[n] => store.val[n] # None

(* What holds again when a construct ends, whatever ran in it: the hidden  *)
(* variables and their environment after a command with assignments (its   *)
(* restore loop), the parameters and the variables declared local, from    *)
(* the first declaration on, after a call (sh_scope_pop), the variables,   *)
(* parameters and directory after a subshell (exec_group).                 *)
FirstSaved(f, n) == f.saved[CHOOSE k \in DOMAIN f.saved :
  f.saved[k].name = n /\ \A j \in DOMAIN f.saved : f.saved[j].name = n => j <= k]
Locals(f) == {f.saved[k].name : k \in DOMAIN f.saved}
Restores(f) ==
  CASE f.kind = "prefix" ->
         \A k \in DOMAIN f.saved : LET b == f.saved[k] IN
           (\A j \in DOMAIN f.saved : f.saved[j].name = b.name => k <= j) =>
              store'.val[b.name] = b.val /\ store'.env[b.name] = b.env
    [] f.kind = "call" ->
         /\ pos' = f.pos
         /\ \A n \in Names : store'.val[n] = IF n \in Locals(f) THEN FirstSaved(f, n).val ELSE store.val[n]
    [] f.kind = "subshell" -> store'.val = f.val /\ pos' = f.pos /\ dir' = f.dir
Restored == Len(frames') < Len(frames) => Restores(Top)
BindingsUndone == [][Restored]_vars

(* What is exported is in the environment of every command, with its value *)
(* unless it never had one, and the shell is where it says it is.          *)
EnvironmentFollows ==
  /\ \A n \in Names : store.exp[n] /\ store.val[n] # Empty => store.env[n] = store.val[n]
  /\ cwd = dir
=============================================================================
