------------------------------ MODULE MCShell ------------------------------
(***************************************************************************)
(* The shell in one run: `part` says which kind of programs is run.  Three *)
(* are for the executor: set -e with every construct that tests a status   *)
(* (the constants of the cfg); exit and return through everything that     *)
(* confines them; and the early ways out of loops, eval and source.  Four  *)
(* are for bindings and three for streams.  The executor's variables keep  *)
(* their initial values in those, so that its properties can be checked as *)
(* they are; the others are 0 where they are unused, and the last two      *)
(* kinds share `frames`.  Loops have a run of their own (LoopSpec), because *)
(* their liveness needs the whole graph of its states.                     *)
(***************************************************************************)
EXTENDS ShellExec

VARIABLES part, frames, store, pos, dir, cwd, exiting, slots, names, content

Exits == INSTANCE ShellExec WITH
  Codes <- {0, 3}, Levels <- {1}, MaxDepth <- 4,
  Kinds <- {"andor", "if", "pipe", "subshell"},
  Builtins <- {"call", "exit", "return"}, Expansions <- {"subst", "redirfail"}

Early == INSTANCE ShellExec WITH
  Codes <- {0, 3}, Levels <- {1}, MaxDepth <- 3,
  Kinds <- {"for", "case", "while", "andor", "if"},
  Builtins <- {"source", "eval", "badarg", "return", "exit"},
  Expansions <- {"fatal", "empty", "redirfail"}

\* One variable is enough: an assignment never touches another one.
Exports == INSTANCE ShellScope WITH
  Names <- {"x"}, Values <- {"1", "2"}, Dirs <- {"d"}, Params <- {<<>>},
  Uses <- {"assign", "unset", "local", "prefix", "call", "export"},
  MaxFrames <- 3, MaxLocals <- 2
Subshells == INSTANCE ShellScope WITH
  Names <- {"x"}, Values <- {"1", "2"}, Dirs <- {"d"}, Params <- {<<>>},
  Uses <- {"assign", "unset", "local", "prefix", "fatal", "call", "subshell"},
  MaxFrames <- 3, MaxLocals <- 1
Places == INSTANCE ShellScope WITH
  Names <- {"x"}, Values <- {"1"}, Dirs <- {"d", "e"}, Params <- {<<>>, <<"1", "2">>},
  Uses <- {"assign", "prefix", "call", "subshell", "set", "shift", "cd", "cd in subshell"},
  MaxFrames <- 2, MaxLocals <- 0
Moves == INSTANCE ShellScope WITH
  Names <- {"PWD", "OLDPWD"}, Values <- {"1"}, Dirs <- {"d", "e"}, Params <- {<<>>},
  Uses <- {"cd", "export", "unset", "prefix", "call"}, MaxFrames <- 2, MaxLocals <- 1

Substitutions == INSTANCE ShellStreams WITH
  Tokens <- {"a", "b"}, MaxPipes <- 1, MaxSubsts <- 2, MaxDocs <- 0, MaxRedirs <- 1, Inodes <- 1..6
Documents == INSTANCE ShellStreams WITH
  Tokens <- {"a", "b"}, MaxPipes <- 1, MaxSubsts <- 0, MaxDocs <- 1, MaxRedirs <- 1, Inodes <- 1..6
Pipelines == INSTANCE ShellStreams WITH
  Tokens <- {"a"}, MaxPipes <- 2, MaxSubsts <- 0, MaxDocs <- 0, MaxRedirs <- 1, Inodes <- 1..6

ScopeVars == <<store, pos, dir, cwd, exiting>>
StreamVars == <<slots, names, content>>
OtherVars == <<frames, ScopeVars, StreamVars>>

NoScope == store = 0 /\ pos = 0 /\ dir = 0 /\ cwd = 0 /\ exiting = 0
NoStreams == slots = 0 /\ names = 0 /\ content = 0

MCInit ==
  /\ Init
  /\ \/ part \in {"tested", "exits", "early"} /\ frames = 0 /\ NoScope /\ NoStreams
     \/ NoStreams /\ \/ part = "exports" /\ Exports!Init
                     \/ part = "subshells" /\ Subshells!Init
                     \/ part = "places" /\ Places!Init
                     \/ part = "moves" /\ Moves!Init
     \/ NoScope /\ \/ part = "substitutions" /\ Substitutions!Init
                   \/ part = "documents" /\ Documents!Init
                   \/ part = "pipelines" /\ Pipelines!Init

Only(name) == part = name /\ UNCHANGED part

MCNext ==
  \/ Only("tested") /\ Next /\ UNCHANGED OtherVars
  \/ Only("exits") /\ Exits!Next /\ UNCHANGED OtherVars
  \/ Only("early") /\ Early!Next /\ UNCHANGED OtherVars
  \/ Only("exports") /\ Exports!Next /\ UNCHANGED <<vars, StreamVars>>
  \/ Only("subshells") /\ Subshells!Next /\ UNCHANGED <<vars, StreamVars>>
  \/ Only("places") /\ Places!Next /\ UNCHANGED <<vars, StreamVars>>
  \/ Only("moves") /\ Moves!Next /\ UNCHANGED <<vars, StreamVars>>
  \/ Only("substitutions") /\ Substitutions!Next /\ UNCHANGED <<vars, ScopeVars>>
  \/ Only("documents") /\ Documents!Next /\ UNCHANGED <<vars, ScopeVars>>
  \/ Only("pipelines") /\ Pipelines!Next /\ UNCHANGED <<vars, ScopeVars>>

MCVars == <<part, vars, OtherVars>>
MCSpec == MCInit /\ [][MCNext]_MCVars

(* Loops at the prompt, on their own (the constants of ShellLoops.cfg).    *)
(* The executor is one thread that keeps running, and the commands it      *)
(* waits for end.                                                          *)
LoopInit == part = "loops" /\ Init /\ frames = 0 /\ NoScope /\ NoStreams
LoopExec == Exec /\ UNCHANGED <<part, OtherVars>>
LoopNext == LoopExec \/ (ReadLine /\ UNCHANGED <<part, OtherVars>>)
LoopSpec == LoopInit /\ [][LoopNext]_MCVars /\ WF_MCVars(LoopExec)

(* When a script exits or returns nothing runs on the way out, and the code *)
(* is the status of what the exit ends (exec_list, exec_node).             *)
WaysOutAreClean ==
  part = "exits" => Exits!NothingRunsWhilePending /\ Exits!ExitCodeIsStatus

(* Whatever runs in a command with assignments, a function call or a       *)
(* subshell, the variables, parameters and directory it hid are back when  *)
(* it ends (exec_simple, sh_scope_pop, exec_group).                        *)
BindingsUndone ==
  [][/\ part = "exports" => Exports!Restored
     /\ part = "subshells" => Subshells!Restored
     /\ part = "places" => Places!Restored
     /\ part = "moves" => Moves!Restored]_MCVars

(* What is exported is in the environment of every command, with its       *)
(* value, and the shell is where it says it is (sh_set, sh_export, cd).    *)
EnvironmentFollows ==
  /\ part = "exports" => Exports!EnvironmentFollows
  /\ part = "moves" => Moves!EnvironmentFollows

(* What a stage, a substitution or a here-document should read is what was *)
(* written for it, whatever runs meanwhile, and no stream in use is closed *)
(* (exec_pipe, command_subst, redir_begin).                                *)
DataArrives ==
  /\ part = "substitutions" => Substitutions!DataArrives /\ Substitutions!StreamsOpen
  /\ part = "documents" => Documents!DataArrives /\ Documents!StreamsOpen
  /\ part = "pipelines" => Pipelines!DataArrives /\ Pipelines!StreamsOpen

(* Every way out of a construct leaves the streams as they were before it, *)
(* a failed redirection included (sh_redir_restore).                       *)
StreamsRestored ==
  [][/\ part = "substitutions" => Substitutions!Reverts
     /\ part = "documents" => Documents!Reverts
     /\ part = "pipelines" => Pipelines!Reverts]_MCVars
=============================================================================
