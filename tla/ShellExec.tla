----------------------------- MODULE ShellExec -----------------------------
(***************************************************************************)
(* The control flow of the BreezyBox shell's tree-walking executor         *)
(* (shell/sh_exec.c, with command_subst of shell/sh_expand.c, the control  *)
(* builtins of shell/sh_builtins.c and breezybox_exec_line).               *)
(*                                                                         *)
(* The recursive C functions become a stack of frames, one per active      *)
(* exec_node, function call, eval, source or command substitution; the     *)
(* last is the innermost.  The program is not fixed: each time the executor *)
(* descends into a child, the child is chosen nondeterministically, so one *)
(* run covers every program whose nesting stays within MaxDepth (a child   *)
(* visited twice, in a loop, may differ, as a case on a variable could).   *)
(* Words, variables and streams are left to the modules that own them;     *)
(* here a command is the status it ends with.                              *)
(***************************************************************************)
EXTENDS Integers, Sequences, SequencesExt, FiniteSets

CONSTANTS
  Codes,           \* statuses of plain commands, arguments of exit and return
  Levels,          \* arguments of break and continue
  Kinds,           \* the kinds of nodes the program uses ("not": negation)
  Builtins,        \* the control builtins the program uses
  Expansions,      \* what a word's expansion may do
  Interactive,     \* a prompt on one state, or a script run once
  MaxDepth,        \* bound on the frames that are not lists
  SH_MAX_CALL_DEPTH

Compound == {"list", "andor", "pipe", "if", "while", "until", "for", "case",
             "group", "subshell"}
Commands == {"exit", "return", "break", "continue", "set", "badarg", "call",
             "eval", "source"}

ASSUME ConstantsAssumption ==
  /\ Codes \subseteq Nat /\ 0 \in Codes
  /\ Levels \subseteq Nat \ {0}
  /\ Kinds \subseteq Compound \cup {"not"}
  /\ Builtins \subseteq Commands
  /\ Expansions \subseteq {"fatal", "subst", "empty", "redirfail"}
  /\ Interactive \in BOOLEAN
  /\ MaxDepth \in Nat /\ SH_MAX_CALL_DEPTH \in Nat

VARIABLES
  stack,        \* the C stack: frames, innermost last
  pc,           \* where control is (Control)
  exempt,       \* pc = "enter": the exempt argument of exec_node
  status,       \* pc = "leave"/"back": the status being returned
  ctl,          \* exiting, returning, brk, cont and their codes
  errexit,      \* opt_errexit
  lastStatus,   \* $?
  loopDepth, callDepth,
  parseError,
  cmdsub        \* cmdsub_ran and cmdsub_status

vars == <<stack, pc, exempt, status, ctl, errexit, lastStatus, loopDepth,
          callDepth, parseError, cmdsub>>

Status == Codes \cup {0, 1, 2}

(* The control flags, which the code saves and restores together.  exit is *)
(* `exiting` with its exit_code, ret is `returning` with its return_code:  *)
(* a code is read only while its flag is set.                              *)
None == -1

Ctl == [exit: Status \cup {None}, ret: Status \cup {None}, brk: Nat, cont: Nat]

NoCtl == [exit |-> None, ret |-> None, brk |-> 0, cont |-> 0]

Exiting(c) == c.exit # None
\* Mutants are the operators called Mutant..., each before the one it alters.
MutantLeaving(c) == c.ret # None

Leaving(c) == Exiting(c) \/ c.ret # None
Pending(c) == Leaving(c) \/ c.brk > 0 \/ c.cont > 0

-----------------------------------------------------------------------------
(* Frames.                                                                 *)

Boundary == {"line", "eval", "source", "subst", "func"}
FrameKind == Compound \cup {"simple"} \cup Boundary

Phase == {"words", "worded", "assign", "assigned", "noargs", "noarged",
          "pure", "pured", "bare", "bared", "redir", "redired", "start",
          "cond", "elif", "left", "body", "first", "later", "ended"}

Control == {"idle", "enter", "step", "leave", "back", "done"}

Frame == [kind: FrameKind, exempt: BOOLEAN, neg: BOOLEAN, phase: Phase,
          acc: Status, saved: Ctl, ee: BOOLEAN]

NewFrame(k, ex, neg, ph) ==
  [kind |-> k, exempt |-> ex, neg |-> neg, phase |-> ph, acc |-> 0,
   saved |-> NoCtl, ee |-> FALSE]

top == Last(stack)

Inner(f) == f.exempt \/ f.neg

Push(f) == stack' = Append(stack, f)
Pop == stack' = Front(stack)
Become(f) == stack' = [stack EXCEPT ![Len(stack)] = f]
InPhase(ph) == Become([top EXCEPT !.phase = ph])

NotList(f) == f.kind # "list"
Depth == Len(SelectSeq(stack, NotList))

Goto(p, ex, s) == pc' = p /\ exempt' = ex /\ status' = s
Call(ex)   == Goto("enter", ex, 0)
Stay       == Goto("step", FALSE, 0)
Finish(s)  == Goto("leave", FALSE, s)
Deliver(s) == Goto("back", FALSE, s)

Running(k, ph) == pc = "step" /\ top.kind = k /\ top.phase = ph
Back(k, ph)    == pc = "back" /\ top.kind = k /\ top.phase = ph

NoCtlChange == UNCHANGED <<ctl, errexit, lastStatus, parseError, cmdsub>>
NoDepthChange == UNCHANGED <<loopDepth, callDepth>>

-----------------------------------------------------------------------------
(* exec_node: its prologue picks the node, its epilogue negates the status, *)
(* records $? and decides errexit.                                         *)

ListHolder == Boundary \cup (Compound \ {"list", "andor", "pipe"})

Command == {"simple", "if", "while", "until", "for", "case", "group", "subshell"}

(* The kinds the grammar allows under the innermost frame.                 *)
ChildKinds ==
  (Kinds \cup {"simple", "list"}) \cap
  CASE top.kind = "list"  -> Command \cup {"andor", "pipe"}
    [] top.kind = "andor" ->
         Command \cup {"pipe"} \cup (IF top.phase = "left" THEN {"andor"} ELSE {})
    [] top.kind = "pipe"  -> Command
    [] top.kind = "func"  -> Command \ {"simple"}
    [] OTHER -> {"list"}

(* exec_simple: a command with words, or assignments and redirections only.*)
EnterSimple ==
  /\ pc = "enter" /\ "simple" \in ChildKinds
  /\ \E neg \in BOOLEAN, ph \in {"words", "pure"} :
       /\ neg => "not" \in Kinds /\ top.kind \in {"list", "andor"}
       /\ Push(NewFrame("simple", exempt, neg, ph))
  /\ cmdsub' = [cmdsub EXCEPT !.ran = FALSE]
  /\ Stay
  /\ NoDepthChange /\ UNCHANGED <<ctl, errexit, lastStatus, parseError>>

(* A compound node, with or without redirections of its own to begin.      *)
EnterCompound(k) ==
  /\ pc = "enter" /\ k \in ChildKinds
  /\ k = "list" \/ Depth < MaxDepth
  /\ \E neg \in BOOLEAN, ph \in {"redir", "start"} :
       /\ neg => /\ "not" \in Kinds
                 /\ top.kind \in {"list", "andor"} /\ k \notin {"list", "andor"}
       /\ ph = "redir" => k \notin {"list", "andor", "pipe"} /\ Expansions # {}
       /\ Push(NewFrame(k, exempt, neg, ph))
  /\ Stay
  /\ NoCtlChange /\ NoDepthChange

(* redir_begin of a compound node; when it fails exec_node returns 1 at     *)
(* once, past its own epilogue.                                            *)
CompoundRedir ==
  /\ pc = "step" /\ top.phase \in {"redir", "redired"} /\ top.kind # "simple"
  /\ InPhase("start") /\ Stay
  /\ NoCtlChange /\ NoDepthChange

CompoundRedirFails ==
  /\ pc = "step" /\ top.phase \in {"redir", "redired"} /\ top.kind # "simple"
  /\ "redirfail" \in Expansions
  /\ lastStatus' = 1
  /\ Pop /\ Deliver(1)
  /\ NoDepthChange /\ UNCHANGED <<ctl, errexit, parseError, cmdsub>>

Structural == {"list", "andor", "group"}

Negate(f, s) == IF f.neg THEN (IF s = 0 THEN 1 ELSE 0) ELSE s

ErrexitFires(f, s) ==
  /\ errexit /\ ~f.exempt /\ ~f.neg
  /\ s # 0 /\ f.kind \notin Structural
  /\ ~Pending(ctl)

Leave ==
  /\ pc = "leave"
  /\ LET s == Negate(top, status) IN
       /\ lastStatus' = s
       /\ ctl' = IF ErrexitFires(top, s)
                 THEN [ctl EXCEPT !.exit = s] ELSE ctl
       /\ Deliver(s)
  /\ Pop
  /\ NoDepthChange /\ UNCHANGED <<errexit, parseError, cmdsub>>

-----------------------------------------------------------------------------
(* Expansion.  A word, an assignment's value or a redirection's target may *)
(* abort with a fatal error or run a command substitution before the step  *)
(* that uses it: that step starts from the phase or from the one after it, *)
(* so that each list of words has at most one such event.                  *)

After == [words |-> "worded", assign |-> "assigned", noargs |-> "noarged",
          pure |-> "pured", bare |-> "bared", redir |-> "redired"]

Expanding == pc = "step" /\ top.phase \in DOMAIN After

Expanded(k, ph) == pc = "step" /\ top.kind = k /\ top.phase \in {ph, After[ph]}

(* ${v?msg}, an unset variable under set -u, an arithmetic error.          *)
ExpandFatal ==
  /\ Expanding /\ "fatal" \in Expansions
  /\ InPhase(After[top.phase])
  /\ ctl' = [ctl EXCEPT !.exit = 2]
  /\ lastStatus' = 2
  /\ NoDepthChange /\ UNCHANGED <<pc, exempt, status, errexit, parseError, cmdsub>>

(* sh_run_string on a pushed frame: parse, then exec_node(root, 0); a      *)
(* syntax error returns 2 without running anything.                        *)
RunString(s) ==
  /\ stack' = s
  /\ \/ Call(FALSE) /\ parseError' = FALSE /\ UNCHANGED lastStatus
     \/ Deliver(2) /\ parseError' = TRUE /\ lastStatus' = 2

(* command_subst saves the control flags and runs the text as a string.    *)
ExpandSubst ==
  /\ Expanding /\ "subst" \in Expansions /\ Depth < MaxDepth
  /\ RunString(Append([stack EXCEPT ![Len(stack)] = [top EXCEPT !.phase = After[top.phase]]],
                       [NewFrame("subst", FALSE, FALSE, "start") EXCEPT !.saved = ctl]))
  /\ NoDepthChange /\ UNCHANGED <<ctl, errexit, cmdsub>>

(* ... unless its output file cannot be opened: then it is the status of   *)
(* the command before.                                                     *)
SubstRedirFails ==
  /\ Expanding /\ {"subst", "redirfail"} \subseteq Expansions
  /\ InPhase(After[top.phase])
  /\ cmdsub' = [ran |-> TRUE, status |-> lastStatus]
  /\ NoDepthChange
  /\ UNCHANGED <<pc, exempt, status, ctl, errexit, lastStatus, parseError>>

MutantSubstReturns ==
  /\ Back("subst", "start")
  /\ cmdsub' = [ran |-> TRUE, status |-> lastStatus]
  /\ Pop /\ Stay
  /\ NoDepthChange /\ UNCHANGED <<ctl, errexit, lastStatus, parseError>>

(* ... and afterwards reports $? as its status and restores the flags.     *)
SubstReturns ==
  /\ Back("subst", "start")
  /\ cmdsub' = [ran |-> TRUE, status |-> lastStatus]
  /\ ctl' = top.saved
  /\ Pop /\ Stay
  /\ NoDepthChange /\ UNCHANGED <<errexit, lastStatus, parseError>>

SubstStatus == IF cmdsub.ran THEN cmdsub.status ELSE 0

-----------------------------------------------------------------------------
(* exec_simple.                                                            *)

(* The words are expanded: a fatal error abandons the command, no words    *)
(* left makes it an assignment; the prefix assignments and redirections,   *)
(* when it has any, come before it runs.                                   *)
SimpleWords ==
  /\ Expanded("simple", "words")
  /\ \/ Exiting(ctl) /\ UNCHANGED stack /\ Finish(ctl.exit)
     \/ /\ ~Exiting(ctl) /\ Stay
        /\ \E ph \in {"start"} \cup (IF Expansions = {} THEN {} ELSE {"assign", "redir"}) :
             InPhase(ph)
     \/ /\ ~Exiting(ctl) /\ "empty" \in Expansions
        /\ Become([top EXCEPT !.phase = "noargs", !.acc = SubstStatus]) /\ Stay
  /\ NoCtlChange /\ NoDepthChange

SimpleNoArgs ==
  /\ Expanded("simple", "noargs") /\ Finish(top.acc) /\ UNCHANGED stack
  /\ NoCtlChange /\ NoDepthChange

SimpleAssign ==
  /\ Expanded("simple", "assign")
  /\ IF Exiting(ctl) THEN UNCHANGED stack /\ Finish(ctl.exit)
     ELSE Stay /\ \E ph \in {"redir", "start"} : InPhase(ph)
  /\ NoCtlChange /\ NoDepthChange

SimplePure ==
  /\ Expanded("simple", "pure")
  /\ IF Exiting(ctl) THEN UNCHANGED stack /\ Finish(ctl.exit)
     ELSE \/ UNCHANGED stack /\ Finish(SubstStatus)
          \/ InPhase("bare") /\ Stay /\ Expansions # {}
  /\ NoCtlChange /\ NoDepthChange

SimpleBare ==
  /\ Expanded("simple", "bare") /\ UNCHANGED stack
  /\ Finish(SubstStatus) \/ ("redirfail" \in Expansions /\ Finish(2))
  /\ NoCtlChange /\ NoDepthChange

(* redir_begin of a simple command: run it, or fail with status 2.         *)
SimpleRedir ==
  /\ Expanded("simple", "redir")
  /\ \/ InPhase("start") /\ Stay
     \/ "redirfail" \in Expansions /\ UNCHANGED stack /\ Finish(2)
  /\ NoCtlChange /\ NoDepthChange

Run == Running("simple", "start")

(* A builtin or external that leaves the control state alone.              *)
RunPlain ==
  /\ Run /\ UNCHANGED stack
  /\ \E s \in Codes : Finish(s)
  /\ NoCtlChange /\ NoDepthChange

RunExit ==
  /\ Run /\ "exit" \in Builtins
  /\ \E c \in Codes \cup {lastStatus} :
       ctl' = [ctl EXCEPT !.exit = c] /\ Finish(c)
  /\ UNCHANGED stack /\ NoDepthChange
  /\ UNCHANGED <<errexit, lastStatus, parseError, cmdsub>>

RunReturn ==
  /\ Run /\ "return" \in Builtins
  /\ \E c \in Codes \cup {lastStatus} :
       ctl' = [ctl EXCEPT !.ret = c] /\ Finish(c)
  /\ UNCHANGED stack /\ NoDepthChange
  /\ UNCHANGED <<errexit, lastStatus, parseError, cmdsub>>

(* break and continue do nothing outside a loop.                           *)
RunBreak ==
  /\ Run /\ "break" \in Builtins
  /\ \E n \in Levels : ctl' = IF loopDepth > 0 THEN [ctl EXCEPT !.brk = n] ELSE ctl
  /\ Finish(0)
  /\ UNCHANGED stack /\ NoDepthChange
  /\ UNCHANGED <<errexit, lastStatus, parseError, cmdsub>>

RunContinue ==
  /\ Run /\ "continue" \in Builtins
  /\ \E n \in Levels : ctl' = IF loopDepth > 0 THEN [ctl EXCEPT !.cont = n] ELSE ctl
  /\ Finish(0)
  /\ UNCHANGED stack /\ NoDepthChange
  /\ UNCHANGED <<errexit, lastStatus, parseError, cmdsub>>

(* A bad number: fatal for return and unset, ends the loop for break.      *)
RunBadArg ==
  /\ Run /\ "badarg" \in Builtins
  /\ \/ ctl' = [ctl EXCEPT !.exit = 2]
     \/ ctl' = IF loopDepth > 0 THEN [ctl EXCEPT !.brk = 1] ELSE ctl
  /\ Finish(2)
  /\ UNCHANGED stack /\ NoDepthChange
  /\ UNCHANGED <<errexit, lastStatus, parseError, cmdsub>>

(* set -e, set +e                                                          *)
RunSet ==
  /\ Run /\ "set" \in Builtins
  /\ errexit' \in BOOLEAN /\ Finish(0)
  /\ UNCHANGED stack /\ NoDepthChange
  /\ UNCHANGED <<ctl, lastStatus, parseError, cmdsub>>

-----------------------------------------------------------------------------
(* Functions, eval and source.                                             *)

(* call_function: refused too deep; else the caller's `returning` is kept. *)
RunCall ==
  /\ Run /\ "call" \in Builtins
  /\ \/ /\ callDepth >= SH_MAX_CALL_DEPTH
        /\ Finish(1) /\ UNCHANGED <<stack, ctl, callDepth>>
     \/ /\ callDepth < SH_MAX_CALL_DEPTH /\ Depth + 1 < MaxDepth
        /\ Push([NewFrame("func", FALSE, FALSE, "start")
                   EXCEPT !.saved.ret = ctl.ret])
        /\ callDepth' = callDepth + 1
        /\ ctl' = [ctl EXCEPT !.ret = None]
        /\ Call(Inner(top))
  /\ UNCHANGED <<errexit, lastStatus, loopDepth, parseError, cmdsub>>

(* Only the flag is restored: a return that was pending already may find   *)
(* its code overwritten by one of the call's own.                          *)
ReturnPendingAfter(r) ==
  IF r = None THEN {None} ELSE IF ctl.ret = None THEN {r} \cup Codes ELSE {ctl.ret}

FuncReturns ==
  /\ Back("func", "start")
  /\ Finish(IF ctl.ret # None THEN ctl.ret ELSE lastStatus)
  /\ \E r \in ReturnPendingAfter(top.saved.ret) : ctl' = [ctl EXCEPT !.ret = r]
  /\ callDepth' = callDepth - 1
  /\ Pop
  /\ UNCHANGED <<errexit, lastStatus, loopDepth, parseError, cmdsub>>

RunText ==
  /\ Run /\ Depth < MaxDepth
  /\ \E k \in {"eval", "source"} \cap Builtins :
       RunString(Append(stack, NewFrame(k, FALSE, FALSE, "start")))
  /\ NoDepthChange /\ UNCHANGED <<ctl, errexit, cmdsub>>

(* sh_run_string returns exit_code when the text ended in an exit.         *)
StringStatus == IF Exiting(ctl) THEN ctl.exit ELSE status

SyntaxErrorIsFatal(c) ==
  IF parseError THEN [c EXCEPT !.exit = 2] ELSE c

EvalReturns ==
  /\ Back("eval", "start")
  /\ ctl' = SyntaxErrorIsFatal(ctl)
  /\ Finish(StringStatus)
  /\ Pop
  /\ NoDepthChange /\ UNCHANGED <<errexit, lastStatus, parseError, cmdsub>>

SourceReturns ==
  /\ Back("source", "start")
  /\ ctl' = SyntaxErrorIsFatal([ctl EXCEPT !.ret = None])
  /\ Finish(IF ctl.ret # None THEN ctl.ret ELSE StringStatus)
  /\ Pop
  /\ NoDepthChange /\ UNCHANGED <<errexit, lastStatus, parseError, cmdsub>>

-----------------------------------------------------------------------------
(* Lists, and-or lists and if.                                             *)

MutantListStep ==
  /\ \/ Running("list", "start")
     \/ Back("list", "start") /\ ~Leaving(ctl) /\ ctl.brk = 0
  /\ UNCHANGED stack
  /\ Call(Inner(top)) \/ Finish(status)
  /\ NoCtlChange /\ NoDepthChange

(* The next command of the list, or its end, with the last status.         *)
ListStep ==
  /\ \/ Running("list", "start")
     \/ Back("list", "start") /\ ~Pending(ctl)
  /\ UNCHANGED stack
  /\ Call(Inner(top)) \/ Finish(status)
  /\ NoCtlChange /\ NoDepthChange

ListStops ==
  /\ Back("list", "start") /\ Pending(ctl)
  /\ UNCHANGED stack /\ Finish(status)
  /\ NoCtlChange /\ NoDepthChange

MutantAndOrLeft ==
  /\ Running("andor", "start") /\ InPhase("left") /\ Call(Inner(top))
  /\ NoCtlChange /\ NoDepthChange

AndOrLeft ==
  /\ Running("andor", "start") /\ InPhase("left") /\ Call(TRUE)
  /\ NoCtlChange /\ NoDepthChange

MutantAndOrRightExempt ==
  /\ Back("andor", "left")
  /\ \/ ~Leaving(ctl) /\ InPhase("body") /\ Call(TRUE)
     \/ UNCHANGED stack /\ Finish(status)
  /\ NoCtlChange /\ NoDepthChange

(* && runs its right operand on status 0, || on any other: whichever the   *)
(* operator, the right operand may run or be skipped.                      *)
AndOrRight ==
  /\ Back("andor", "left")
  /\ \/ ~Leaving(ctl) /\ InPhase("body") /\ Call(Inner(top))
     \/ UNCHANGED stack /\ Finish(status)
  /\ NoCtlChange /\ NoDepthChange

(* The conditions of the if and of one elif.                               *)
IfCond ==
  /\ \/ Running("if", "start") /\ InPhase("cond")
     \/ Back("if", "cond") /\ ~Leaving(ctl) /\ status # 0 /\ InPhase("elif")
  /\ Call(TRUE)
  /\ NoCtlChange /\ NoDepthChange

CondEnds == pc = "back" /\ top.kind = "if" /\ top.phase \in {"cond", "elif"}

(* A body: the one of a true condition, or the else part.                  *)
IfBody ==
  /\ CondEnds /\ ~Leaving(ctl)
  /\ InPhase("body") /\ Call(Inner(top))
  /\ NoCtlChange /\ NoDepthChange

MutantIfEnds ==
  /\ CondEnds /\ UNCHANGED stack
  /\ Leaving(ctl) \/ status # 0
  /\ Finish(0)
  /\ NoCtlChange /\ NoDepthChange

IfEnds ==
  /\ CondEnds /\ UNCHANGED stack
  /\ IF Leaving(ctl) THEN Finish(status) ELSE status # 0 /\ Finish(0)
  /\ NoCtlChange /\ NoDepthChange

(* A node whose status is its body's.                                      *)
BodyEnds ==
  /\ pc = "back" /\ top.phase = "body" /\ top.kind \in {"andor", "if", "case", "group"}
  /\ UNCHANGED stack /\ Finish(status)
  /\ NoCtlChange /\ NoDepthChange

-----------------------------------------------------------------------------
(* Loops.                                                                  *)

(* loop_control: consumes one level of a pending break or continue, and    *)
(* tells whether this loop stops.                                          *)
LoopStops(c) == Leaving(c) \/ c.brk > 0 \/ c.cont > 1

MutantLoopControl(c) ==
  IF ~Leaving(c) /\ c.brk = 0 /\ c.cont > 0 THEN [c EXCEPT !.cont = @ - 1] ELSE c

MutantLoopControlUnguarded(c) ==
  IF Leaving(c) THEN c
  ELSE IF c.cont > 0 THEN [c EXCEPT !.cont = @ - 1] ELSE [c EXCEPT !.brk = @ - 1]

LoopControl(c) ==
  IF Leaving(c) THEN c
  ELSE IF c.brk > 0 THEN [c EXCEPT !.brk = @ - 1]
  ELSE IF c.cont > 0 THEN [c EXCEPT !.cont = @ - 1]
  ELSE c

CondLoop == {"while", "until"}

MutantLoopEnds(s) == UNCHANGED loopDepth /\ InPhase("ended") /\ Finish(s)

LoopEnds(s) == loopDepth' = loopDepth - 1 /\ InPhase("ended") /\ Finish(s)

WhileStart ==
  /\ pc = "step" /\ top.kind \in CondLoop /\ top.phase = "start"
  /\ IF Exiting(ctl)
     THEN Finish(0) /\ UNCHANGED <<stack, loopDepth>>
     ELSE InPhase("cond") /\ Call(TRUE) /\ loopDepth' = loopDepth + 1
  /\ NoCtlChange /\ UNCHANGED callDepth

(* Any break or continue in the condition stops the loop.                  *)
WhileCondStops ==
  /\ pc = "back" /\ top.kind \in CondLoop /\ top.phase = "cond"
  /\ ctl.brk > 0 \/ ctl.cont > 0
  /\ ctl' = LoopControl(ctl) /\ LoopEnds(top.acc)
  /\ UNCHANGED <<errexit, lastStatus, callDepth, parseError, cmdsub>>

WhileTest ==
  /\ pc = "back" /\ top.kind \in CondLoop /\ top.phase = "cond"
  /\ ctl.brk = 0 /\ ctl.cont = 0
  /\ IF Leaving(ctl) \/ (status = 0) = (top.kind = "until")
     THEN LoopEnds(top.acc)
     ELSE InPhase("body") /\ Call(Inner(top)) /\ UNCHANGED loopDepth
  /\ NoCtlChange /\ UNCHANGED callDepth

WhileBodyEnds ==
  /\ pc = "back" /\ top.kind \in CondLoop /\ top.phase = "body"
  /\ ctl' = LoopControl(ctl)
  /\ IF LoopStops(ctl) THEN LoopEnds(status)
     ELSE /\ Become([top EXCEPT !.phase = "cond", !.acc = status])
          /\ Call(TRUE) /\ UNCHANGED loopDepth
  /\ UNCHANGED <<errexit, lastStatus, callDepth, parseError, cmdsub>>

(* for expands its words before it counts as a loop.                       *)
ForWords ==
  /\ Running("for", "start") /\ InPhase("words") /\ Stay
  /\ NoCtlChange /\ NoDepthChange

MutantForStart ==
  /\ Expanded("for", "words")
  /\ loopDepth' = loopDepth + 1
  /\ \/ ~Exiting(ctl) /\ InPhase("body") /\ Call(Inner(top))
     \/ UNCHANGED stack /\ Finish(0)
  /\ NoCtlChange /\ UNCHANGED callDepth

ForStart ==
  /\ Expanded("for", "words")
  /\ \/ ~Exiting(ctl) /\ InPhase("body") /\ Call(Inner(top)) /\ loopDepth' = loopDepth + 1
     \/ UNCHANGED <<stack, loopDepth>> /\ Finish(0)
  /\ NoCtlChange /\ UNCHANGED callDepth

ForBodyEnds ==
  /\ Back("for", "body")
  /\ ctl' = LoopControl(ctl)
  /\ \/ LoopEnds(status)
     \/ ~LoopStops(ctl) /\ UNCHANGED <<stack, loopDepth>> /\ Call(Inner(top))
  /\ UNCHANGED <<errexit, lastStatus, callDepth, parseError, cmdsub>>

-----------------------------------------------------------------------------
(* case, groups, subshells and pipelines.                                  *)

CaseWord ==
  /\ Running("case", "start") /\ InPhase("words") /\ Stay
  /\ NoCtlChange /\ NoDepthChange

CaseMatch ==
  /\ Expanded("case", "words")
  /\ \/ InPhase("body") /\ Call(Inner(top))
     \/ UNCHANGED stack /\ Finish(0)
  /\ NoCtlChange /\ NoDepthChange

GroupStart ==
  /\ Running("group", "start") /\ InPhase("body") /\ Call(Inner(top))
  /\ NoCtlChange /\ NoDepthChange

SubshellStart ==
  /\ Running("subshell", "start")
  /\ Become([top EXCEPT !.phase = "body", !.saved = ctl, !.ee = errexit])
  /\ Call(Inner(top))
  /\ NoCtlChange /\ NoDepthChange

SubshellEnds ==
  /\ Back("subshell", "body")
  /\ ctl' = top.saved /\ errexit' = top.ee
  /\ UNCHANGED stack /\ Finish(status)
  /\ NoDepthChange /\ UNCHANGED <<lastStatus, parseError, cmdsub>>

(* A stage runs with the flags saved; when its streams cannot be opened    *)
(* the pipeline ends with status 1.                                        *)
PipeStage(ph) ==
  \/ Become([top EXCEPT !.phase = ph, !.saved = ctl]) /\ Call(Inner(top))
  \/ "redirfail" \in Expansions /\ UNCHANGED stack /\ Finish(1)

PipeStart ==
  /\ Running("pipe", "start") /\ PipeStage("first")
  /\ NoCtlChange /\ NoDepthChange

StageEnds ==
  /\ pc = "back" /\ top.kind = "pipe"
  /\ ctl' = top.saved
  /\ \/ /\ Become([top EXCEPT !.phase = "later"])
        /\ Goto("step", FALSE, 0)
     \/ top.phase = "later" /\ UNCHANGED stack /\ Finish(status)
  /\ NoDepthChange /\ UNCHANGED <<errexit, lastStatus, parseError, cmdsub>>

PipeNext ==
  /\ Running("pipe", "later") /\ PipeStage("later")
  /\ NoCtlChange /\ NoDepthChange

-----------------------------------------------------------------------------
(* The prompt: breezybox_exec_line runs a line on the one static state and *)
(* then clears exiting, so that exit does not end the session.  A script   *)
(* is one such string on a state of its own.                               *)

ReadLine ==
  /\ pc = "idle"
  /\ RunString(<<NewFrame("line", FALSE, FALSE, "start")>>)
  /\ NoDepthChange /\ UNCHANGED <<ctl, errexit, cmdsub>>

LineEnds ==
  /\ Back("line", "start")
  /\ ctl' = IF Interactive THEN [ctl EXCEPT !.exit = None] ELSE ctl
  /\ stack' = <<>> /\ Goto(IF Interactive THEN "idle" ELSE "done", FALSE, 0)
  /\ NoDepthChange /\ UNCHANGED <<errexit, lastStatus, parseError, cmdsub>>

-----------------------------------------------------------------------------
Init ==
  /\ stack = <<>> /\ pc = "idle" /\ exempt = FALSE /\ status = 0
  /\ ctl = NoCtl /\ errexit = FALSE /\ lastStatus = 0
  /\ loopDepth = 0 /\ callDepth = 0 /\ parseError = FALSE
  /\ cmdsub = [ran |-> FALSE, status |-> 0]

Expand == ExpandFatal \/ ExpandSubst \/ SubstRedirFails \/ SubstReturns

Simple == SimpleWords \/ SimpleNoArgs \/ SimpleAssign \/ SimplePure
          \/ SimpleBare \/ SimpleRedir \/ RunPlain \/ RunExit \/ RunReturn \/ RunBreak
          \/ RunContinue \/ RunBadArg \/ RunSet \/ RunCall \/ FuncReturns
          \/ RunText \/ EvalReturns \/ SourceReturns

Branch == ListStep \/ ListStops \/ AndOrLeft \/ AndOrRight \/ IfCond \/ IfBody
          \/ IfEnds \/ BodyEnds \/ CaseWord \/ CaseMatch

Loop == WhileStart \/ WhileCondStops \/ WhileTest \/ WhileBodyEnds
        \/ ForWords \/ ForStart \/ ForBodyEnds

Isolate == GroupStart \/ SubshellStart \/ SubshellEnds \/ PipeStart
           \/ StageEnds \/ PipeNext

Node == EnterSimple \/ (\E k \in Kinds \cup {"list"} : EnterCompound(k))
        \/ CompoundRedir \/ CompoundRedirFails \/ Leave

(* The steps of a running line.                                            *)
Exec == Node \/ Expand \/ Simple \/ Branch \/ Loop \/ Isolate \/ LineEnds

Next == ReadLine \/ Exec

Spec == Init /\ [][Next]_vars

-----------------------------------------------------------------------------
(* Properties.                                                             *)

(* Every variable has its type, and a stack is there whenever one is used. *)
TypeOK ==
  /\ stack \in Seq(Frame) /\ pc \in Control
  /\ exempt \in BOOLEAN /\ status \in Status
  /\ ctl \in Ctl /\ errexit \in BOOLEAN /\ lastStatus \in Status
  /\ loopDepth \in Nat /\ callDepth \in Nat /\ parseError \in BOOLEAN
  /\ cmdsub \in [ran: BOOLEAN, status: Status]
  /\ (stack = <<>>) = (pc \in {"idle", "done"})

ActiveLoop(f) == f.kind \in {"while", "until", "for"} /\ f.phase \in {"cond", "body"}
LoopFrames(s) == {i \in DOMAIN s : ActiveLoop(s[i])}
CallFrames(s) == {i \in DOMAIN s : s[i].kind = "func"}

(* loop_depth and call_depth count the loops and calls really active, on   *)
(* every path out of exec_while, exec_for and call_function: break acts in *)
(* a loop only, and recursion is bounded.                                  *)
CountersMatchStack ==
  /\ loopDepth = Cardinality(LoopFrames(stack))
  /\ callDepth = Cardinality(CallFrames(stack))
  /\ callDepth <= SH_MAX_CALL_DEPTH

(* While exit, return, break or continue is unwinding to its target, the   *)
(* executor runs no command (run_argv) and calls no function.              *)
NothingRunsWhilePending == Run => ~Pending(ctl)

(* A failure while eval's text runs is no syntax error: eval is fatal only *)
(* when its text could not be parsed, and its status is then 2.            *)
EvalFatalOnSyntaxError ==
  [][Back("eval", "start") /\ Exiting(ctl') => Exiting(ctl) \/ status = 2]_vars

(* A pending break or continue has an active loop to end, and only one of  *)
(* the two is pending; so each line of the prompt starts with no control   *)
(* transfer pending, an exit included (breezybox_exec_line).               *)
BreakHasLoop ==
  /\ ctl.brk + ctl.cont <= loopDepth
  /\ ctl.brk = 0 \/ ctl.cont = 0
  /\ pc = "idle" => ~Pending(ctl)

Isolating(f) ==
  f.kind \in {"subst", "pipe"} \/ (f.kind = "subshell" /\ f.phase = "body")

(* exit, return, break and continue inside a subshell, a command           *)
(* substitution or a pipeline stage end no more than it: what encloses it  *)
(* goes on.                                                                *)
Confines == pc = "back" /\ Isolating(top) => ~Pending(ctl')
IsolationConfinesControl == [][Confines]_vars

(* exit n in a subshell, a substitution or a stage makes n its status.     *)
ExitCodeIsStatus ==
  pc = "back" /\ Exiting(ctl) =>
    /\ top.kind \in {"subshell", "pipe"} => status = ctl.exit
    /\ top.kind = "subst" => lastStatus = ctl.exit

(* The frame tests the status of the node it is running.                   *)
Tests(f) ==
  \/ f.neg
  \/ f.kind = "andor" /\ f.phase = "left"
  \/ f.kind \in {"if", "while", "until"} /\ f.phase \in {"cond", "elif"}

(* Some construct around the innermost frame, up to the text that holds it,*)
(* tests its status; a function's body and eval's text are part of their   *)
(* caller.                                                                 *)
Tested ==
  \/ top.neg
  \/ \E i \in 1 .. Len(stack) - 1 :
       /\ Tests(stack[i])
       /\ \A j \in i + 1 .. Len(stack) : stack[j].kind \notin {"line", "source", "subst"}

(* errexit never aborts on a status that a condition, the left side of &&  *)
(* or ||, or a negation tests, and under set -e a command that returns     *)
(* non-zero where nothing tests it aborts the list.                        *)
SparesTested == pc = "leave" /\ ~Exiting(ctl) /\ Exiting(ctl') => ~Tested

NodeEnds == Len(stack') < Len(stack) /\ top.kind \notin Boundary

CatchesFailure ==
  NodeEnds /\ errexit /\ top.kind \notin Structural /\ ~Tested /\ status' # 0
    => Pending(ctl')
ErrexitIsExact == [][SparesTested /\ CatchesFailure]_vars

(* An exit reaches the line's end or the subshell that confines it, and a  *)
(* break or continue the loop it ends, whatever encloses them.             *)
ExitUnwinds == Exiting(ctl) ~> ~Exiting(ctl) \/ pc = "done"
BreakUnwinds == ctl.brk + ctl.cont > 0 ~> ctl.brk + ctl.cont = 0
=============================================================================
