# A TLA+ development of BreezyBox

BreezyBox turns an ESP32-S3 into a small computer: a POSIX-like shell, four
virtual terminals on an LCD, a sound core with a tracker, a Bluetooth keyboard,
an SSH server and a loader for ELF programs, all on FreeRTOS. This directory
holds TLA+ models of its core logic, TLC runs that check them on small
instances, and TLAPS proofs of theorems that hold for every value of the
constants.

The code is the reference. `PROJECT.json` ("map") gives, for each definition
that models code, the lines it stands for; a definition marked external models
a library (littlefs, libssh, esp_hidh, esp_console) as far as the code uses it.
Paths below are relative to `src/src/components/`.

Contents: [inventory](#inventory) · [plan](#plan) ·
[modules](#the-modules-and-the-code) · [runs](#the-runs) · [bounds](#the-bounds) ·
[fairness](#fairness) · [proofs](#what-is-proved) ·
[known deviations](#known-deviations) · [limits](#what-is-not-modelled)

## Inventory

### Shell executor — `breezybox/shell/sh_exec.c`, `sh_builtins.c`
- *State*: one `sh_state`: `exiting`/`exit_code`, `returning`/`return_code`,
  `brk`, `cont`, `loop_depth`, `call_depth`, `opt_errexit`, `last_status`,
  `parse_error`, `cmdsub_ran`/`cmdsub_status`; the C stack.
- *Operations*: `exec_node` and one `exec_*` per node of the tree;
  `call_function`; `eval`, `source`, command substitution (`sh_run_string`);
  `exit`, `return`, `break`, `continue`, `set`.
- *Interactions*: expansion runs command substitutions, which re-enter the
  executor; `breezybox_exec_line` calls it for each prompt line on one static
  state; a script gets a state of its own; commands are called through the
  program loader.
- *Hard*: there is no `fork`, so isolation is saving and restoring flags, and a
  control transfer is a set of flags that every construct must test at every
  point where it could go on.
- *Correct when*: nothing runs while a transfer is pending; a transfer reaches
  its target and goes no further; the depth counters equal the constructs on
  the stack on every path; `set -e` fires exactly on untested failures; a
  subshell's status is that of the exit in it.

### Shell state and streams — `sh_state.c`, `sh_redir.c`, `sh_port_*.c`
- *State*: variables with their export flag and their mirror in the C
  environment, positionals, functions and their bodies, the working directory,
  the saved streams of a redirection, temp files named by small integers.
- *Operations*: set, unset, export, local; bindings before a command; a copy
  and its restoring around a subshell; begin and end of a redirection;
  here-documents, pipelines and substitutions through files.
- *Hard*: restoring exactly what was there, nested uses of one temp file, a
  function redefined while it runs, a redirection that fails half way.
- *Correct when*: what a construct restores is what it found; what is exported
  is in the environment; a reader reads what was written for it.

### Shell text — `sh_lex.c`, `sh_parse.c`, `sh_expand.c`, `sh_arith.c`, `sh_glob.c`, `sh_builtins.c`
- *State*: none between calls: the token stream, the tree, the growing field.
- *Hard*: the lexer and the expander find the end of `$(…)` and `${…}`
  separately and must agree; splitting as the value is appended, part by part;
  here-documents collected at the end of a line; operands of `test` that look
  like operators.
- *Correct when*: each algorithm agrees with what its input means.

### Sound core — `breezy_sound/snd_core.c`
- *State*: eight synth voices (envelope, state, sequence number), the PCM
  ring (`g_stream_buf`, free-running `g_str_head`, `g_str_tail`, `g_stream_on`),
  `g_powered`, the mixer task's notification.
- *Operations*: note on and off, all off, stream open, space, write, close; the
  mixer task `snd_task` with `render_chunk`.
- *Interactions*: applications call; one mixer task, of higher priority and
  possibly on the other core, reads and writes the same words. The calls
  exclude each other by a spinlock; the mixer takes no lock.
- *Hard*: publication order, read-modify-write of shared words, counters that
  wrap, the decision to power off against a wake-up, stealing a voice.
- *Correct when*: the ring is a FIFO that never overflows; the space reported
  is there; a queued frame and a started note are heard; a released note ends.

### PICO-8 tracker — `breezy_sound/snd_p8.c`
- *State*: four channels with the sfx they play and the one they go back to,
  the playing pattern, fades, the cartridge.
- *Operations*: load, sfx, music, stop; the sample loop that advances them.
- *Hard*: a user's sfx takes a channel from the music and gives it back at a
  position that has moved on; loops that are told to end.
- *Correct when*: channels stay in step with the music, an sfx of the app keeps
  its channel to its end, music told to fade fades.

### Virtual terminals — `breezy_term/vterm.c`, `vterm_vfs.c`
- *State*: `s_iram_buffer` (what the LCD reads), each terminal's `cells`
  pointer, own storage, cursor, attribute, parser state, mutex and input queue;
  `s_active_vt`; the graphics-mode flag and the terminal it saved; the hotkey
  buffer.
- *Operations*: `vterm_switch`, `vterm_write`, enter and exit graphics mode,
  `vterm_input_feed`, `vterm_getchar`, size override.
- *Interactions*: keyboard tasks feed input and switch; programs print through
  the VFS bridge to whichever terminal is active; the LCD's refresh reads the
  display buffer; the `vt` command switches too.
- *Hard*: two locks per switch and a read of `s_active_vt` before either; a
  pointer cached for a whole write; graphics mode that does not keep switches
  out; wrap and scroll at the corner; bytes held back in case they become a
  hotkey, and a timeout looked at only when the next byte comes.
- *Correct when*: exactly the active terminal's cells are the display buffer;
  what is written to a terminal is what it shows; nobody waits for ever; the
  fast path of a write is the slow path, only faster; what is no hotkey is
  delivered once, in order, to the terminal it was typed into.

### LCD driver — `breezy_rgb_lcd/`
- *State*: mode, frame buffer and its size, the console's saved output, the
  vsync semaphore and its request.
- *Hard*: the interrupt falls between any two steps of a mode switch; a wait
  that times out against the interrupt that answers it.
- *Correct when*: the text mode gives the console back, the interrupt draws
  inside the buffer, a wait for a sync waits for one.

### Bluetooth keyboard — `breezy_bt/bt_keyboard.c`
- *State*: a dozen flags shared without a lock by the connect task, the
  Bluetooth host's task, the event task, a timer and three commands; the saved
  address; the bitmap of keys down and the keys of the last report.
- *Hard*: a scan must not race a connection on one radio; guards read before a
  delay of 200 ms and used after it; failures that only a flag remembers.
- *Correct when*: a saved keyboard is connected or looked for; when trouble
  ends it is connected; a key is typed once per press.

### SSH server — `breezy_ssh/`
- *State*: the server's task and its handle, the running flag, libssh's bind,
  session and channel, the console's overrides of stdio and size.
- *Hard*: `sshd stop` deletes the task wherever it is, its local variables with
  it; sshd commands may come from the session they concern.
- *Correct when*: a connection that ends early frees what it took, the console
  is given back, a stopped server can be started again.

### Program loader and paths — `breezybox/breezy_exec.c`, `breezy_vfs.c`, `breezy_wrap.c`
- *State*: the current directory, one for all tasks.
- *Hard*: a command line parsed twice with different rules, and arguments
  written out to be parsed again; `..` applied to the text of a path.
- *Correct when*: programs and builtins get the same arguments, those of the
  line; a relative path leads where it does from the current directory.

### Console, commands, HTTP client, applications, board examples, tests
Registrations at start-up, file and network utilities in a straight line,
programs for the shell, board bring-up, generated symbol tables and test
suites. `PROJECT.json` gives the reason each is left out.

## Plan

The order puts what everything else runs on (the executor) first, then the
lock-free and locked concurrency, then the devices, then pure algorithms.

| # | module | composes or implements | run |
|---|---|---|---|
| 1 | `ShellExec`, with `ShellExecProofs` | — | shellLoops, shell, shellSyntax |
| 2 | `SndStream`, with `SndStreamProofs` | implements `Fifo` | sound |
| 3 | `SndVoices`, with `SndSourcesProofs` | the synth side of the same mixer | sound, sndStuckNote |
| 4 | `VTermSwitch`, with `VTermSwitchProofs` | implements `Terminals` | devices, vtermGraphics |
| 5 | `VTermWrite` over `VTermScreen`, with `VTermWriteProofs` | implements `VTermBytes` | text |
| 6 | `ShellScope`, `ShellStreams`, with `ShellScopeProofs`; `ShellFunctions` | bindings, streams and bodies beside `ShellExec`'s control | shell, shellTemp, shellRedefine |
| 7 | `ShellLex`, `ShellSyntax`, `ShellWords`, `ShellArith`, `ShellPattern`, `ShellTest` | each against a reference in its second half | text |
| 8 | `SndP8`, with `SndSourcesProofs` | the tracker side of the mixer | sound |
| 9 | `VTermInput` | a stream of keys minus the hotkeys | devices |
| 10 | `BtKeyboard`, `BtKeys`, `SshServer` and `RgbDisplay`, with `BtKeyboardProofs` and `ConsoleProofs` | with the parts of the stacks they use | devices, displayModes, sshStop |
| 11 | `ConsoleLine`, `Paths` | against a reference | text |

All of it is written. What could follow: proofs about the hotkey buffer and
the keyboard's reports; the tracker rendered on another core; the answer to a
cursor report; two feeders of the hotkey buffer.

## The modules and the code

`Spec` is `Init /\ [][Next]_vars` in every module. Where a run needs constants
that differ, an `MC…` module instantiates the modules several times: its
variable `part` (in `MCText`, `kind`) chooses one instance at the start and
never changes, and the variables the others need keep their initial value or
are 0.

### `ShellExec`
The recursive executor becomes a stack of frames, one per active C call; `pc`
says whether control enters a child (`exec_node`'s prologue), performs a step
of the innermost frame, leaves it (the epilogue: negation, `$?`, errexit) or is
back in its parent. A frame keeps the locals that survive a call: `exempt`,
`neg`, the loop's running status (`acc`), the flags saved for isolation.
`ctl` is the four control flags, saved and restored together by the code.

The program is not fixed. Whenever the executor descends, the child's kind is
chosen among those `ChildKinds` allows (the nesting that `sh_parse.c` builds),
and a plain command returns any status. One run therefore covers every program
over the kinds in its configuration up to the depth `MaxDepth`. There is a step
per early return: a fatal expansion, a failed redirection, an illegal number, a
refused call, a syntax error in `eval`. `exec_line`'s static state is
`Interactive = TRUE`; a script's state of its own is `FALSE`.

Abstracted: words, variables, functions' names, the streams; a `for` loop's
words (it ends at any iteration); which pattern of a `case` matches.

### `ShellScope`, `ShellStreams`, `ShellFunctions`
Data beside `ShellExec`'s control, so here a construct may end at any time.

- `ShellScope`: a frame per construct that hides bindings and puts them back.
  `st->scopes` is spread over the frames of the calls, whose order it has. A
  variable is its value and its export flag; `environ` is a mirror kept by
  hand. Positionals, the working directory of the process and `$PWD` are
  saved and restored separately, as in the code.
- `ShellStreams`: `stdin`, `stdout` and `stderr` are pointers that a construct
  changes and puts back. A temp file is a small number that names an inode; an
  open stream keeps its inode when the name goes. Here-documents, stages and
  substitutions take numbers from different counters of one range.
- `ShellFunctions`: who frees the body of a function: the tree of the line that
  defines it, then the list of functions.

### `ShellLex`, `ShellSyntax`, `ShellWords`, `ShellArith`, `ShellPattern`, `ShellTest`
Pure algorithms as operators; no state. The first half of each is the code's
algorithm; the second half says what an input means without it: a tree is
written as tokens and must parse back to itself, a word is expanded as a whole
and split afterwards, an expression is evaluated from its tree, a pattern is
matched from its parts. They use RECURSIVE operators and so have no theorems.

### `Fifo`, `SndStream`
`Fifo` is what `snd_core.h` says of the stream: a claim empties it, a write
appends some of what is offered, the mixer consumes from the front, in order.
`SndStream` has the ring itself. Each shared word is read and written in a step
of its own: `Copy` and `Publish` are the loop and the final store of
`snd_stream_write`; `MixFrame`, `LoadTail`, `StoreTail` are the three accesses
of the mixer's frame; `PowerOn`, `Drain`, `PowerOff`, `Sleep`, `Wake` the power
state. Counters are taken modulo `CounterMod`, which stands for 2^32 and, as it
does, is a multiple of the ring. On one core (`DualCore = FALSE`) an
application runs only while the mixer is blocked, as the priorities say.

### `SndVoices`
Voices with `state`, `env`, `seq`. The mixer loads a voice's state and
envelope in one step and stores in another, since it takes no lock. A call
made of two stores is two steps; on one core the spinlock disables interrupts,
so no mixer step falls between them. `asked` is a history variable: what the
callers last asked of each voice.

### `SndP8`
Channels, the music that plays patterns of a cartridge's sound effects, and
the calls. A note is a number of samples and whether it sounds. One core: a
call holds the lock and falls between the mixer's chunks.

### `Terminals`, `VTermSwitch`
`Terminals` is the promise: a screen for each terminal, one shown; a write changes
its own; a mode change keeps the screen. `VTermSwitch` has the buffers
(`mem`), the `cells` pointers, `active`, the mutexes, the graphics mode and a
`job` per task holding where it is and its locals. Each action is what lies
between two points where another task can make a difference: the two reads of
`s_active_vt`, each semaphore, each copy. What a buffer holds is the last text
put there. The refinement maps the screen of `v` to `mem[cells[v]]`.

Any task may call at any moment, as in the code: switches overlap each other
and the changes of mode. The auxiliary variable `overlapped`, which no guard
reads, remembers whether they have: `"change"` when a switch or a change of
mode started while another was under way or a switch in graphics mode,
`"exit"` when a switch and an exit from graphics mode did. What the code keeps
through every overlap is claimed of all behaviours (`TypeOK`,
`OnlySwitchesDeadlock`), what an overlap can break only until it
happens (`ActiveOnDisplay`, `ScreensKept`), and how it breaks is
under [known deviations](#known-deviations) and in the run vtermGraphics.

One task at most changes the mode (`ConstantsAssumption`): the callers are the LCD's
callbacks (`my_console_io.c` of the boards), run by the program that draws. So the test of `s_saved_active_vt` in
`vterm_exit_graphics_mode` is always true (`TypeOK` states so) and has no
action for its other branch; two exits at once are not modelled.

### `VTermScreen`, `VTermBytes`, `VTermWrite`
`VTermScreen` defines what each control character and sequence does to a terminal.
`VTermBytes` is the state machine fed one byte at a time. `VTermWrite` is the
loop of `vterm_write`: its locals `cx`, `cy`, `ptr` (`cursor_ptr`), `rowEnd`,
`attr`, `mode`, a fast path that writes through the pointer, and a slow path
that flushes the locals, calls the state machine and reads them back. Pointers
are indices into the cells. The parameters of a sequence arrive as one unit
out of `Params` and what an SGR leads to is any attribute. The parameters are
taken to fit in an `int`.

### `VTermInput`
`vterm_input_feed` a byte at a time: the hotkey buffer, its comparison with
the known sequences, the flush when it cannot become one, byte by byte, the
timeout that is looked at only when the next byte comes, the queue of the active
terminal and the reader of `vterm_vfs.c`. The driver that feeds the bytes of one
key after another is external. A command (`Switch`) may switch between any two
bytes, those of a flush too: like `vterm_switch` it does not look at the hotkey
buffer, whose bytes go where it went. Two auxiliary variables say what
should arrive: `pending` has the typed bytes that are not let through yet, each
with the terminal it is bound for, and `owed` what each terminal's apps have yet
to read.

### `RgbDisplay`
A mode switch is a step per point where the panel's interrupt can make a
difference. The console it calls back is `my_console_io.c` of the s3-waveshare
example and the graphics mode of one terminal. An app waits for syncs, a wait
may time out, an allocation may fail, a command may choose another output.

### `BtKeyboard`, `BtKeys`
`BtKeyboard`: the connect task, the callbacks of the host and of esp_hidh, the
boot timer, and `btscan`, `btconnect`, `btclear`, a step between any two points
where another task on either core matters; `radio` is what the code can see of
the stack. `BtKeys`: a report lists the keys that are down;
`process_key_report` turns it into the state that games poll and the
characters of the keys that were not in the report before.

### `SshServer`
The server's task and the `sshd` command, from the console or typed in a
session. Stopping deletes the task where it is, between two actions: a free and
the `= NULL` after it are one, so a stop between those two is not modelled. `live` is what has been
allocated and not freed, `port` the bind that listens; libssh and FreeRTOS are
external. A line that is not an `sshd` command is one step that changes nothing.

### `ConsoleLine`, `Paths`
`ConsoleLine`: how a line becomes a program's arguments: the arguments of the
shell written out again for esp_console, and the plain command line of a build
without the shell. `Paths`: `cd`, `..` and the wrappers that resolve a path
before the libc call. Both are checked against a reference in their second
half.

## The runs

Twelve runs. *violated* means that the property states what a comment or a
test says and TLC finds a behaviour of the code that breaks it.

| run | module | what it shows |
|---|---|---|
| shellLoops | `MCShell` (`LoopSpec`) | at the prompt, with loops, groups, subshells, pipelines, `case` and calls: nothing runs while `exit`, `break` or `continue` unwinds; a break has a loop and reaches it; an exit ends the line |
| shell | `MCShell` | `set -e` fires exactly on the untested failures; nothing runs on the way out of a script, whose code is handed on and stays inside what isolates it; the counters are right after every early return; bindings and streams come back; exports reach the environment; files are read as written |
| shellSyntax | `ShellExec` | *violated*: `eval` is fatal exactly when its own text has a syntax error |
| shellTemp | `ShellStreams` | *violated*: two nested users of temp file 2 |
| shellRedefine | `MCShellFunctions` | *violated*: a call walks a body that is still there |
| sound | `MCSound` | ring bounded, space honest, `Fifo` implemented, queued frames play, no note or claim is lost to the mixer's sleep; held notes sound, released ones end; the tracker's channels stay in step, an app's sfx plays on, music fades |
| sndStuckNote | `SndVoices` | *violated*: on two cores a release is lost under an attack's store |
| text | `MCText` | the text algorithms agree with their references; the terminal's cached pointer is at the cursor and `VTermWrite` implements `VTermBytes` |
| devices | `MCDevices` | the terminal switched to has the display, only a circle of switches deadlocks, `Terminals` implemented until calls overlap; keys arrive through switches; a saved keyboard is looked for and comes back; the console is given back by the display and by SSH |
| vtermGraphics | `VTermSwitch` | *violated*: a switch in graphics mode |
| displayModes | `RgbDisplay` | *violated*: from one graphics mode straight to the other |
| sshStop | `SshServer` | *violated*: a stop during accept frees all |

`CHECK_DEADLOCK FALSE` is set where something really ends: scripts (shell,
shellSyntax), inputs that have been tried (text), and apps whose number of
calls is bounded by a constant (sound, devices, displayModes, sshStop).

Each property of a passing run has a mutant (`PROJECT.json`): an operator
`Mutant…` beside the definition it alters, such as a dropped test, a missing
write-back or an unlocked copy, under which TLC finds the property violated.

## The bounds

- *Executor.* A construct interacts with the one that holds it and with the one
  that catches the transfer. Depth 4 or 5 puts two constructs between a command
  and its list (an isolation in a loop in a function, a condition in a
  substitution), and every pair of kinds of a part nests both ways. shellLoops:
  six kinds, four builtins, breaks of one level, depth 5. Of shell, part
  `tested` has the constructs that test a status (depth 4), `exits` what
  confines an exit (depth 4), `early` the early returns (depth 3). What breaks a
  promise (below) is in no part that checks it. One call deep
  (`SH_MAX_CALL_DEPTH = 1`): the limit itself is reached.
- *Bindings.* One variable is enough, an assignment touches no other; two
  values, at most three frames, two locals; two directories and two lists of
  parameters; `moves` has `PWD` and `OLDPWD` as the names.
- *Streams.* Two pipelines or two substitutions nested, one here-document, one
  redirection, six inodes.
- *Ring.* Two slots, counters wrap at 4, chunks of 2, writes up to the whole
  ring: it wraps inside every write and the counters wrap after two turns.
  Claims without end on one core, one claim on two.
- *Voices.* Three voices and four notes force a steal; attack and release take
  two samples each, a chunk is two.
- *Tracker.* Two channels, three effects (a loop, an early end, a loop after
  its first note), three patterns (loop back, leave a channel free, stop), up
  to three calls.
- *Buffers.* A third terminal distinguishes "the other one" from "the one I
  read"; one task switches and draws, another only switches, another prints. A
  write stores any text and the code compares none, so two texts tell a stale
  screen from a fresh one. Part `overlaps` has every overlap and one text, since pointers and mutexes
  do not depend on it; part `screens` both texts and no overlap, since `ScreensKept`
  claims nothing after one (`Bounded`).
- *Screen.* 2×2 has every corner (last column, last row, both); parameters
  include 0, counts beyond the screen and a position off it.
- *Keys.* Two terminals, a queue of 7, two of thirteen keys, two
  switches by command, between any two bytes: text, keys
  whose sequences begin as a hotkey's, and hotkeys of each form, one of them of
  a terminal that is not there. A sequence of 11 bytes overflows the hotkey
  buffer and the queue.
- *Bluetooth.* Three presses and two reports under way; one keyboard with, in a
  part each, `btclear`, `btscan`, `btconnect` and resets of the controller, two
  events queued. `DelaysSuffice` says whether a cancelled connection is over
  before the 200 ms that the code waits for it; with `btconnect` it need not be.
- *Display, SSH.* Five calls of the app; two tasks of the server and four
  handles, so that a server is started again after a stop.
- *Text.* Patterns of up to three parts on strings of up to three characters,
  expressions of up to two operators, words of two parts, trees of two
  constructs around a command; the comments of `MCText` give the rest.

## Fairness

- `MCShell!LoopSpec` (shellLoops): weak fairness of the executor's steps. It
  is a single thread that is never disabled while a line runs; the commands it
  calls are assumed to end. Reading another line is not fair.
- `MCSound!Fairness`: weak fairness of the stream's mixer (FreeRTOS runs a ready
  task and the output keeps taking samples); strong fairness of an application
  inside a call, because on one core the mixer preempts it over and over; and of
  the synth's mixer, which a call holds up. Nobody need start a call.
- `MCDevices!Fairness`: weak fairness of the keyboard's tasks and of the
  stack's answers (synced, link up, opened, cancelled); strong fairness of the
  saved keyboard being found, for it advertises again and again while a scan is
  switched on and off. `Recovers` is claimed only without `btscan` and without
  resets of the controller, which can be repeated so as to hinder a connection
  for ever. The server's task is weakly fair; a command of a session is one
  step, so one that never ends is not covered.

The other specifications state safety only.

## What is proved

A theorem holds for every value of the constants that meets the named
assumptions of its module and the hypotheses it states. Each proof follows
one argument: an inductive invariant (`IInv` unless named otherwise), a lemma
that `Init` implies it, one step per action that keeps it, and the property
from it. TLC has checked the invariants on the runs' instances too.

**ShellExecProofs** — `TypeCorrect` (`TypeOK`) and `CountersCorrect`
(`CountersMatchStack`), without hypotheses. The counters alone are not
inductive: that `loop_depth - 1` is right when a loop ends needs that the
innermost frame is then a counted loop. `IInv` adds that the bottom frame is the
line and only it, that a call, `eval` or `source` has its simple command below
it, that those frames are never in a phase that counts, and that a node being
left is no longer an active loop. `ReplaceCounts`, `AppendCounts` and
`PopCounts` give the number of counted frames after each change of the stack.

The second half of the module: what the control flags do, over the same stack.
- `NothingRuns` (`NothingRunsWhilePending`), `BreaksEndInTheirLoop`
  (`BreakHasLoop`) and `IsolationHolds` (`IsolationConfinesControl`) rest on
  `ControlInvariance`: `IInv /\ CInv`. `CInv` says that whenever something may
  run (`enter`, `step`, `idle`) no transfer is pending at all, and that every
  flag a frame saved to restore later was clear. That is stronger than the
  properties and is what makes them inductive: a restore then brings back
  nothing. With breaks of one level it adds that at most one break is pending
  and that a loop is active; with `eval` or `source`, that `parse_error` is set
  only while the exit it caused unwinds or in the text just refused.
- They assume `Orderly`: no fatal expansion; no `break` or `continue` in a
  program with `&&`, `||` or `if`; at a prompt no `return`, and breaks of one
  level if any. `BreaksEndInTheirLoop` assumes breaks of one level also in
  scripts. Each exclusion is a deviation listed below, in
  which the property is false of the code.
- `ErrexitExact` (`ErrexitIsExact`): `set -e` aborts exactly on failures that
  nothing around them tests, for programs without `eval` and without failing
  redirections. The code passes `exempt` down as an argument; the invariant says
  that a frame's `exempt` is true exactly if some frame below it is in a tested
  position of its construct, through groups, subshells and function calls but
  not out of a sourced file or a substitution, which start afresh.
- `ExitCodeHandedOn`: the code of an exit is the status of what the exit
  ends, in `Orderly` programs without `while`, `until` and `!` (with them the
  status is lost or negated, below). This is the conjunct `ExitCodeIsStatus`
  of `MCShell`'s `WaysOutAreClean`.

**ShellScopeProofs**, the bindings — `TypeCorrect`, `BindingsAreUndone`
(`BindingsUndone`) and `EnvironmentInStep` (`EnvironmentFollows`), for any
names, values, directories, parameters and depth. `ScopeConstants` says that no
value is the absence of one and that parameters are words. What a command, a call
or a subshell undoes is a loop over what it saved, in the order it saved it: a fold
in the model. The library's induction cannot be instantiated here, so the fold
is shown to have a recursive function by taking a least index for which it had
none (`LeastNumber`, `FoldExists`), and what it leaves is
shown index by index upwards (`Upwards`, the lemmas `…Steps`). `IInv` says that
every frame has saved well-typed values, and that a command's frame names each
variable once: without that, undoing in the order of saving leaves the
first of two assignments in place, which is what `A=1 A=2 cmd` does (below), so
`BindingsAreUndone` assumes `"twice" \notin Uses`. `EnvironmentInStep` assumes
`Confined` (no subshell, nothing exported under an assignment), for each of these
breaks it in the code; `EInv` adds that a frame's saved environment
entry is the saved value of a variable that is exported.

**ShellScopeProofs**, the streams (`Io == INSTANCE ShellStreams`) —
`StreamTypes`, `StreamsNeverClosed` (`StreamsOpen`), `StreamsComeBack`
(`StreamsRestored`) and `DataArrivesAlways` (`DataArrives`), for any tokens and
any depth of pipelines, substitutions, here-documents and commands with
redirections, over a file system that does not run out of inodes
(`StreamConstants`).
`IoInv` speaks of the streams at every level of nesting (`Level`): those in use
for the innermost construct, those the next one saved for the others. A level differs
from the one outside it only in what its construct touched, so putting back
what was touched puts back all; a stream belongs to no construct further in
(`Owned`), so none is closed in use; and no two names lead to one file
(`OneName`). `ApplyServes` is what a list of redirections does as a whole: it fails
and changes no stream, or each slot has what was there, or a file of the construct.
`DataArrivesAlways` also assumes `OwnFiles`: pipelines are not nested in the presence of
substitutions or here-documents, those two do not occur together, and one command
at a time has a here-document. These are the nestings of the three parts
of the run shell, now for any depth: pipelines alone, substitutions in one pipeline,
one here-document in one pipeline; outside them numbers meet
and the property is false of the code (shellTemp). `DataInv` adds that the
constructs of a kind are numbered from outside inwards (`Ordered`), so that with `OwnFiles`
no two of them use one file (`Separate`), and what each file holds (`DataOf`).

**SndStreamProofs** — `StreamTypes`, `NoOverrun` (`RingBounded`) and
`SpaceHolds` (`SpaceIsHonest`), for any ring size, chunk, write length and
counter width that is a larger multiple of the ring. All assume
`MixerBetweenClaims == ~DualCore \/ ~Reopens`: on two cores with a second
claim they are false (below). `IInv` relates the mixer's locals to the ring
(it never has more frames to mix than are queued; its stored tail is one past
the tail), the writer's locals (frames copied plus frames left is what it was
granted, and fits), and what an application was told to what is free.

`StreamImplemented` (`StreamIsFifo`), under the same assumption: every step of
the ring is a step of `Fifo` or a stutter, with the queue read off the ring by
`Contents`. It needs two more facts, `RInv`: the frame the mixer has read is
still the one at the tail, and a stream that is being written is claimed. The
arithmetic lemmas (`DivMod` and those after it) say that distinct counters
within a ring's length of each other name distinct slots, across the wrap.

**SndSourcesProofs**, the synth (`Synth == INSTANCE SndVoices`) —
`HeldNotesSound` and `ReleasedNotesFade`, on one core, for any number of voices and notes, any envelope and any chunk. `CallsExclude`
(the mixer is blocked while a call is between two stores) gives
`LoadedIsCurrent` (what the mixer is about to store comes from what the voice
still is), which keeps `AskedIsDone` (each voice is as it was last asked to be).
On two cores `LoadedIsCurrent` fails and with it both (sndStuckNote).

**SndSourcesProofs**, the tracker — `PlaysOnOneChannel` (`PlaysOnce`), `EndsAreSet`
(`EndsWhenAsked`), `UsersPlayOn` (`SfxPlaysOn`), `MusicGoesOut`
(`MusicFades`) and `MusicKeepsStep` (`MusicInStep`), for any number of channels and calls, any chunk and fade, and
any `Cartridge`: it has a sfx 0 and a slowest sfx, its patterns play sfx it has,
and -1 names nothing in it. `Spares` says what the sequencer may do to a
channel: a user's sfx stays as it is. The mixer and every call but two keep or
end the users' sfx (`Keeps`, and `Kept` for what that preserves); the two that do not are
`PlayStep`, where stopping the sfx on every channel first is what keeps it on
one, and `StopLoopingStep`, which gives it an end. That ending music has a
falling fade (`Ending`) is the last conjunct of `IInv`. `MusicKeepsStep` adds a
second invariant, `Beside`: a music channel of the running pattern is at the
sample that a music position puts it at (`Along`), which is the position of the
music or of its next sample, and one less between the sequencer's part of a sample and
the channels' (`Ahead`). Its core is two lemmas about loops: `ResumeNext` (where a loop is
one sample on, from the uniqueness of a remainder) and `PositionNext` (the channel's
note and tick, which the code moves separately, go the same way).

**VTermSwitchProofs** — `TypeCorrect`, `ActiveIsOnDisplay`
(`ActiveOnDisplay`), `DeadlockNeedsSwitches` (`OnlySwitchesDeadlock`) and
`TerminalsImplemented` (`ScreensKept`), for any terminals, texts and tasks that
switch and write and one that changes the mode, whatever overlaps. `IInv` has
what no overlap disturbs: `TypeOK`, `LocksHeld` (a mutex is held exactly by the
task between its take and its give), `ModeOK` (which task may be where, and that
an exit goes back to the terminal saved) and `DisplayOK` (a terminal has the
display when it is made the active one, unless an exit met a switch). Its last
conjunct is `Apart`, as long as nothing has overlapped: `OneMover` (one task at
most is inside a switch or a change of mode), `JobsOK` (what a task has read is
still true: the old terminal is the active one, a writer's cached base is where
the cells point) and `PointersOK` (where the cells are at each stage of a switch).

`ActiveOnDisplay` is not inductive alone: that `Activate` may trust the cells needs
that no other switch has moved them since `LoadNew`, which is the mutex of the new
terminal (`LocksHeld`). `DeadlockNeedsSwitches` follows from `LocksHeld`: who holds
a mutex and waits for another is a switch at its second lock, so the holders of what
a waiting task wants are such switches, and so are the holders of what those want.
`StepImplements`, for `ScreensKept`, maps every step that leaves `overlapped` empty to one of
`Terminals` or to a stutter: a write happens at its store, a switch when
`s_active_vt` changes, a mode change at its copy.

**VTermWriteProofs** — `PointerStays` (`PointerAtCursor`) and
`WriteImplementsBytes` (`ImplementsBytes`), for every screen, alphabet, tab stop
and set of parameters (`Screens`: a screen has a cell, no printable character
is a control). `PointerAtCursor` is inductive together with the types: that a
scroll or a flush leaves `ptr` at the cell of `cx`, `cy` and `rowEnd` at the end
of that row needs that every control and sequence keeps the cursor on the
screen, which the lemmas `…Type` show one by one. The refinement maps the
terminal to what it would be if the write stopped here (`Seen`, the locals
flushed); `ShownFields` to `TextFed` show that a glyph put by the fast path, with
its wrap and its scroll, is the one the state machine puts.

**ConsoleProofs**, the LCD driver (`Display == INSTANCE RgbDisplay`) — `ConsoleComesBack` (`ConsoleRestored`) and
`DisplayCorrect` (`DisplayKept`), for any number of calls, time-outs and failed
allocations, if no graphics mode is entered from the other one (`~Direct`; with
`Direct` displayModes shows the first false). `ModeOK` says what a change of
mode has done by each of its points, `SyncOK` that a request or a given
semaphore exists only during a wait, unless one has timed out.

**ConsoleProofs**, the SSH server — `CanStartAgain` (`StartsAgain`) and `NothingIsLeft`
(`SessionsLeaveNothing`), for any tasks and handles; `Names` says that NULL is
nobody's handle and the console no server task. `CanStartAgain` assumes that
`sshd` is typed at the console only: a session that stops the server deletes
itself half way, and one that starts it during a stop makes two. `OneServer`
says that a task that serves is the one `s_server_task` names and that the
console is then at its prompt, or past `s_running = false` and about to delete
it; `Owned`, that the bind and the connection belong to that task or to a
console that has deleted it, so that a stop frees them and a task that ends by
itself leaves none. `NothingIsLeft` assumes that nobody stops the server (a stop
during an accept leaks the session, sshStop) and lets sessions try to start it;
`Accounted` lists what is allocated at each point of the loop.

**BtKeyboardProofs** — `NobodyAdrift` (`NeverAdrift`) and `ConnectedIsTrue`
(`ConnectedHasLink`), for any keyboards, any mixture of `btscan`, `btconnect`,
`btclear` and resets, with delays that suffice or not; the only hypothesis is that
`MaxEvents` is a number. The flags alone say little, since each is
written by one task and read by another later. `IInv` says who must still act on
each: a scan the flags know of has a radio that scans or a task about to see that it
does not (`ScanUnderWay`); a connection is opened only by the connect task that
waits for it (`OneAttempt`); a request has its notification given or coming
(`RequestsAreTold`); the last queued event, or else the flag, says whether the
keyboard is open (`EventsTell`); and a saved keyboard that is not connected is looked
for, or something is left that will see to it (`LookedFor`). The last is `NeverAdrift`
before things have come to rest, and must not count a task about to notify or
about to return, which would help nobody.

**Only model-checked.**
- Liveness (`BreakUnwinds`, `ExitUnwinds`, `QueuedFramePlays`, `NoteIsHeard`,
  `ReleasedNoteEnds`, `Recovers`): fairness is out of the prover's reach.
- The text algorithms of the shell and `ConsoleLine`: they use RECURSIVE
  operators, which the prover does not take, and what they compute over
  data of any length would need an induction it cannot instantiate; `Paths`.
- `VTermInput` and `BtKeys` (`KeysArrive`). In the first what is typed arrives if no
  keys that are typed in a row look like a hotkey together, which a theorem would
  have to assume of `Keys`; in the second the characters of a report are taken by
  `SelectSeq`, whose operator argument the prover cannot reason about.

## Known deviations

Found while modelling; a run is named where one of this directory shows it.
The shell's were tried on a host build of the interpreter; the others come from
the models under other constants, or from reading.

Shell, control (against POSIX and the tests):
- a syntax error in a subshell or substitution inside `eval`'s text leaves
  `parse_error` set and `eval` aborts the script (shellSyntax).
- `while true; do break && echo x; done` prints `x`, and `if break; then` runs
  its branch: `exec_andor` and `exec_if` test only `exiting` and `returning`
  (sh_exec.c:289).
- a fatal expansion in a redirection sets `exiting` and the command runs.
- under `set -e`, `if eval false; then` aborts; a compound command whose
  redirection fails does not.
- `(while exit 3; do :; done)` ends with status 0, `(! exit 3)` with the
  negated one.
- `return` typed at the prompt stays pending on the next line; `break 5` in one
  loop leaves levels that skip the rest of the line and the next line.

Shell, bindings:
- `x=0; f() { x=5; (local x=1); x=7; }; f` leaves `x=5`: a subshell's `local`
  uses the function's scope. `A=1 local A` leaks 1; `A=o; A=1 export A` leaves A
  exported without an environment entry; `A=1 A=2 cmd` leaves `A=1`.
- functions defined in a subshell, its exports' environment and its `cd` leak.
- `local x; export x` leaks the flag; an unset and restored variable loses it;
  `clone_vars` leaves `exported` uninitialised; inherited environment variables
  are not exported; a fatal expansion in a prefix binding leaks the bindings
  before it.

Shell, streams and functions:
- `echo 1 | { read a; echo $(echo q | cat) $a; cat; }` loses `q` (shellTemp);
  nested here-documents share file 2; `x=$(cat <<E …)` fails.
- a failed redirection of a stage ends `exec_pipe` early; at most 8 opened
  streams are remembered, at most 8 here-documents collected.
- a function redefined while it runs, or a definition executed twice, uses freed
  memory (shellRedefine).

Shell, text:
- `"$@"` without parameters is one empty field; a quoted metacharacter beside an
  unquoted one globs (`echo "*"?`, against the comment at sh_expand.c:588–592);
  `${x:-"a b"}` is two fields; `${x:-$@}` joins by spaces.
- `$(…)` and `${…}` are cut at a `)` or `}` inside quotes or `case` nested in
  them (`$(echo "$(echo ")")")`, `${x:-$(echo ")")}`, `"${x:-"a b"}"`,
  `$(case x in x) echo hi;; esac)`).
- `for x in a done b; do` is a syntax error; `$(x=6)` leaks `x`; a quoted `case`
  pattern is still a wildcard; `[!x]` ranges may end in `]`; quoted specials in a
  glob's directory part keep their backslashes; `0 && 1/0` is an error; `cat <<`
  at the end of a line reaches `heredoc_delim(NULL)`.

Command lines and paths:
- `cd /root/a/; cd ..` stays in `/root/a`, `cd a/..; cd ..` goes to `/root/a`,
  `cd ""` leaves a trailing slash (breezy_vfs.c:29–35); an absolute path longer
  than 128 is cut and may lead elsewhere (:37), in a wrapped function beyond 257;
  from `/`, `./root` is not found; `resolve_path`'s NULL is not looked at
  (breezy_exec.c:513, 517).
- a builtin's arguments beyond 32, or beyond 256 characters in all, are cut
  although breezy_exec.c:321–327 promises them byte for byte; `parse_args` keeps
  quotes inside a word.
- plain command line: nested redirections reuse one file; `cmd > out < in` takes
  `out < in` as the name and `cmd < in > out` loses the input; `|`, `<`, `>` cut
  inside quotes too; redirections of a stage become arguments.

Sound, on two cores:
- a `snd_note_off` between the mixer's test and store of an attack is lost, and
  the note sounds until the voice is reused (sndStuckNote); the end of a release
  may silence a new attack.
- a stream closed and claimed again while the mixer is between the load and
  the store of `g_str_tail`: the store undoes the reset, and
  `snd_stream_space` answers a negative number. This is why the theorems assume
  `MixerBetweenClaims`.

Tracker: a music sfx queued behind an app's outlives the stop (snd_p8.c:173);
`music(-1, fade)` at level 0 never stops (:556–560); zero-initialised channels
play silent patterns at start-up (:85–95); a render on the other core may read a
cartridge that is being copied (:461).

Terminals, when switches or mode changes overlap:
- a hotkey during graphics mode, then its exit: two terminals own the display
  buffer (vtermGraphics).
- two opposite switches take the two mutexes in opposite orders and wait for
  each other; a switch whose target has become active between its test and its
  read of `s_active_vt` takes one mutex twice and waits for itself.
- a switch that read `s_active_vt` before another completed saves the wrong
  terminal's screen over its own.
- a switch that overlaps the exit from graphics mode may leave the display with a
  terminal that is not the active one.

Keyboard input: a lone ESC, or a sequence with a lower-case final, is held until
the next byte; what is held, or the rest of a sequence being flushed, goes to the
terminal that a `vt` command has switched to meanwhile (vterm.c:722–729, 857–860);
ESC shortly before a function key makes it text; a hotkey of a
terminal that is not there is swallowed; a read during a switch may return bytes
of two terminals; the answer to a cursor report goes to the active terminal.

Bluetooth: a scan or a reset racing the connect task may hinder a connection
again and again; a key of the last report before a lost link counts as down until
the next report (bt_keyboard.c:276); a rollover report retypes the held keys.

Display: from one graphics mode straight to the other the old size stays and the
console's output is lost (displayModes); the buffer's width and height are not 0
in text mode although rgb_display.h:65–66 says so; a wait that times out leaves
its request set; the interrupt on one core may draw a frame freed on the
other (rgb_display.c:526).

SSH: a stop during accept leaks the session (sshStop), during a session it also
leaves the overrides; `sshd stop` typed in a session deletes its own task,
nothing is freed and the port stays bound until a reboot; `sshd start` in a
session that another caller's stop has just marked makes a second server.

vi: `d` does not mark the buffer as modified.

## What is not modelled

The components with status `not_modelled` in `PROJECT.json` carry the reason.
In short: device drivers and network I/O are effects without state of their
own; glyph tables, waveforms, colour arithmetic, formatting and usage texts
are data no property is about; more than a third of the repository's C lines
are generated symbol tables.

Of what is modelled: memory exhaustion is left out, except in the LCD driver and
the SSH server; the two cores are taken to see one another's
stores in order; integer overflow of a ten-digit CSI parameter is outside the
model. Of the hazards that `PROJECT.json` lists without a property, three are not
modelled either: the console and an SSH session running lines on one static
`sh_state`, the answer to a cursor report, and a cartridge loaded while another
core renders. In the other eleven the code itself goes wrong; they are among the known
deviations, and the properties of their modules are stated around them.
