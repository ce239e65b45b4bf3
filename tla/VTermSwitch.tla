---------------------------- MODULE VTermSwitch ----------------------------
(***************************************************************************)
(* The virtual terminals' buffers and locks (breezy_term/vterm.c).  One    *)
(* display buffer (s_iram_buffer) belongs to the active terminal; every    *)
(* other one keeps its cells in storage of its own.  A switch saves the    *)
(* display buffer to the old terminal and loads the new one's, under both  *)
(* terminals' mutexes; writers take the mutex of the terminal they write   *)
(* to; graphics mode saves and restores the active terminal.               *)
(*                                                                         *)
(* A step is what happens between two points where another task, on either *)
(* core, can make a difference.  What a buffer holds is the last text      *)
(* written there.                                                          *)
(***************************************************************************)
CONSTANTS
  VTs, First,        \* the terminals, and the one active at start
  Texts, Blank,      \* what a terminal may show
  Switchers,         \* tasks that switch: the keyboard's, the vt command
  Writers,           \* tasks that print
  Painters,          \* the task that enters and leaves graphics mode, if any
  Nobody, Iram, None

ASSUME ConstantsAssumption ==
  /\ First \in VTs
  /\ Iram \notin VTs /\ None \notin VTs
  /\ Blank \in Texts
  /\ Nobody \notin Switchers \cup Writers \cup Painters
  /\ \A s, t \in Painters : s = t

Tasks == Switchers \cup Writers \cup Painters
Buffers == VTs \cup {Iram}

VARIABLES
  active,          \* s_active_vt
  cells,           \* the buffer each terminal's cells point to
  mem,             \* what each buffer holds
  mutex,           \* the task that holds each terminal's mutex
  graphicsMode,    \* s_graphics_mode_active
  saved,           \* s_saved_active_vt
  job,             \* where each task is, and its local variables
  overlapped       \* auxiliary: which calls were under way together (see Meet)

vars == <<active, cells, mem, mutex, graphicsMode, saved, job, overlapped>>

Switching == {"compared", "lockOld", "lockNew", "save", "load", "activate",
              "unlock"}
Leaving == {"lockExit", "restore", "restored"}
Painting == {"enter", "lockEnter", "keep", "kept"} \cup Leaving
Writing == {"lockWrite", "store"}

\* A task outside these calls.
Outside == [at |-> "idle", old |-> First, new |-> First, base |-> Iram,
            text |-> Blank]

Init ==
  /\ active = First
  /\ cells = [v \in VTs |-> IF v = First THEN Iram ELSE v]
  /\ mem = [b \in Buffers |-> Blank]
  /\ mutex = [v \in VTs |-> Nobody]
  /\ graphicsMode = FALSE
  /\ saved = None
  /\ job = [t \in Tasks |-> Outside]
  /\ overlapped = {}

At(t, label) == job[t].at = label
Becomes(t, j) == job' = [job EXCEPT ![t] = j]
Goto(t, label) == Becomes(t, [job[t] EXCEPT !.at = label])
Return(t) == Becomes(t, Outside)

\* A step that changes the task's local variables only.
Local(t, j) ==
  /\ Becomes(t, j)
  /\ UNCHANGED <<active, cells, mem, mutex, graphicsMode, saved, overlapped>>

\* xSemaphoreTake waits for the mutex; xSemaphoreGive releases it.
Take(t, v) ==
  /\ mutex[v] = Nobody
  /\ mutex' = [mutex EXCEPT ![v] = t]
  /\ UNCHANGED <<active, cells, mem, graphicsMode, saved, overlapped>>
Give(vs) == mutex' = [v \in VTs |-> IF v \in vs THEN Nobody ELSE mutex[v]]

(* Any of these calls may come at any time.  overlapped, which no guard     *)
(* reads, remembers whether a switch or a change of mode ever started while *)
(* another was under way, or a switch in graphics mode ("change"), and      *)
(* whether a switch and an exit from graphics mode did ("exit").            *)
Busy(stages) == \E t \in Tasks : job[t].at \in stages
Meet(change, exit) ==
  overlapped' = overlapped \cup (IF change THEN {"change"} ELSE {})
                           \cup (IF exit THEN {"exit"} ELSE {})

-----------------------------------------------------------------------------
(* vterm_switch.  The active terminal is read twice before any lock is     *)
(* taken: to return early, and as the old terminal.                        *)

StartSwitch(t) ==
  /\ At(t, "idle")
  /\ \E v \in VTs \ {active} :
       Becomes(t, [job[t] EXCEPT !.at = "compared", !.new = v])
  /\ Meet(graphicsMode \/ Busy(Switching \cup Painting), Busy(Leaving))
  /\ UNCHANGED <<active, cells, mem, mutex, graphicsMode, saved>>

ReadOld(t) ==
  /\ At(t, "compared")
  /\ Local(t, [job[t] EXCEPT !.at = "lockOld", !.old = active])

LockOld(t) ==
  /\ At(t, "lockOld") /\ Take(t, job[t].old)
  /\ Goto(t, "lockNew")

\* Mutants are the operators called Mutant..., each before the one it alters.
\* Here a switch locks only the terminal it leaves.
MutantLockNew(t) ==
  /\ At(t, "lockNew")
  /\ Local(t, [job[t] EXCEPT !.at = "save"])

LockNew(t) ==
  /\ At(t, "lockNew") /\ Take(t, job[t].new)
  /\ Goto(t, "save")

SaveOld(t) ==
  /\ At(t, "save")
  /\ mem' = [mem EXCEPT ![job[t].old] = mem[Iram]]
  /\ cells' = [cells EXCEPT ![job[t].old] = job[t].old]
  /\ Goto(t, "load")
  /\ UNCHANGED <<active, mutex, graphicsMode, saved, overlapped>>

\* The new terminal's cells are left at its storage.
MutantLoadNew(t) ==
  /\ At(t, "load")
  /\ mem' = [mem EXCEPT ![Iram] = mem[job[t].new]]
  /\ Goto(t, "activate")
  /\ UNCHANGED <<active, cells, mutex, graphicsMode, saved, overlapped>>

LoadNew(t) ==
  /\ At(t, "load")
  /\ mem' = [mem EXCEPT ![Iram] = mem[job[t].new]]
  /\ cells' = [cells EXCEPT ![job[t].new] = Iram]
  /\ Goto(t, "activate")
  /\ UNCHANGED <<active, mutex, graphicsMode, saved, overlapped>>

Activate(t) ==
  /\ At(t, "activate")
  /\ active' = job[t].new
  /\ Goto(t, "unlock")
  /\ UNCHANGED <<cells, mem, mutex, graphicsMode, saved, overlapped>>

\* A switch that gives back only the new terminal's mutex.
MutantEndSwitch(t) ==
  /\ At(t, "unlock")
  /\ Give({job[t].new})
  /\ Return(t)
  /\ UNCHANGED <<active, cells, mem, graphicsMode, saved, overlapped>>

EndSwitch(t) ==
  /\ At(t, "unlock")
  /\ Give({job[t].old, job[t].new})
  /\ Return(t)
  /\ UNCHANGED <<active, cells, mem, graphicsMode, saved, overlapped>>

-----------------------------------------------------------------------------
(* vterm_write, to whichever terminal the caller had in mind: the bridge   *)
(* for stdio reads the active one and calls with it some time later.       *)

StartWrite(t) ==
  /\ At(t, "idle")
  /\ \E v \in VTs, x \in Texts :
       Local(t, [job[t] EXCEPT !.at = "lockWrite", !.new = v, !.text = x])

\* With the mutex held, the terminal's cells are cached for the whole text.
LockWrite(t) ==
  /\ At(t, "lockWrite") /\ Take(t, job[t].new)
  /\ Becomes(t, [job[t] EXCEPT !.at = "store", !.base = cells[job[t].new]])

Store(t) ==
  /\ At(t, "store")
  /\ mem' = [mem EXCEPT ![job[t].base] = job[t].text]
  /\ Give({job[t].new})
  /\ Return(t)
  /\ UNCHANGED <<active, cells, graphicsMode, saved, overlapped>>

-----------------------------------------------------------------------------
(* vterm_enter_graphics_mode and vterm_exit_graphics_mode.                 *)

Enter(t) ==
  /\ At(t, "idle") /\ ~graphicsMode
  /\ saved' = active
  /\ Goto(t, "enter")
  /\ Meet(Busy(Switching), FALSE)
  /\ UNCHANGED <<active, cells, mem, mutex, graphicsMode>>

ReadActive(t) ==
  /\ At(t, "enter")
  /\ Local(t, [job[t] EXCEPT !.at = "lockEnter", !.new = active])

LockEnter(t) ==
  /\ At(t, "lockEnter") /\ Take(t, job[t].new)
  /\ Goto(t, "keep")

KeepScreen(t) ==
  /\ At(t, "keep")
  /\ mem' = [mem EXCEPT ![job[t].new] = mem[Iram]]
  /\ Give({job[t].new})
  /\ Goto(t, "kept")
  /\ UNCHANGED <<active, cells, graphicsMode, saved, overlapped>>

Entered(t) ==
  /\ At(t, "kept")
  /\ graphicsMode' = TRUE
  /\ Return(t)
  /\ UNCHANGED <<active, cells, mem, mutex, saved, overlapped>>

Exit(t) ==
  /\ At(t, "idle") /\ graphicsMode
  /\ Becomes(t, [job[t] EXCEPT !.at = "lockExit", !.new = saved])
  /\ Meet(Busy(Switching), Busy(Switching))
  /\ UNCHANGED <<active, cells, mem, mutex, graphicsMode, saved>>

LockExit(t) ==
  /\ At(t, "lockExit") /\ Take(t, job[t].new)
  /\ Goto(t, "restore")

Restore(t) ==
  /\ At(t, "restore")
  /\ mem' = [mem EXCEPT ![Iram] = mem[job[t].new]]
  /\ cells' = [cells EXCEPT ![job[t].new] = Iram]
  /\ Give({job[t].new})
  /\ Goto(t, "restored")
  /\ UNCHANGED <<active, graphicsMode, saved, overlapped>>

\* The saved terminal is cleared before it is made the active one.
MutantExited(t) ==
  /\ At(t, "restored")
  /\ saved' = None
  /\ active' = saved'
  /\ graphicsMode' = FALSE
  /\ Return(t)
  /\ UNCHANGED <<cells, mem, mutex, overlapped>>

Exited(t) ==
  /\ At(t, "restored")
  /\ active' = saved
  /\ graphicsMode' = FALSE
  /\ saved' = None
  /\ Return(t)
  /\ UNCHANGED <<cells, mem, mutex, overlapped>>

-----------------------------------------------------------------------------
Next ==
  \/ \E t \in Switchers :
       StartSwitch(t) \/ ReadOld(t) \/ LockOld(t) \/ LockNew(t) \/ SaveOld(t)
       \/ LoadNew(t) \/ Activate(t) \/ EndSwitch(t)
  \/ \E t \in Writers : StartWrite(t) \/ LockWrite(t) \/ Store(t)
  \/ \E t \in Painters :
       Enter(t) \/ ReadActive(t) \/ LockEnter(t) \/ KeepScreen(t) \/ Entered(t)
       \/ Exit(t) \/ LockExit(t) \/ Restore(t) \/ Exited(t)

Spec == Init /\ [][Next]_vars

-----------------------------------------------------------------------------
Job == [at: {"idle"} \cup Switching \cup Painting \cup Writing,
        old: VTs, new: VTs, base: Buffers, text: Texts]

(* Every variable keeps its type, and the exit of graphics mode always has *)
(* a terminal to go back to, whatever switches come in between.            *)
TypeOK ==
  /\ active \in VTs
  /\ cells \in [VTs -> Buffers]
  /\ mem \in [Buffers -> Texts]
  /\ mutex \in [VTs -> Tasks \cup {Nobody}]
  /\ graphicsMode \in BOOLEAN
  /\ saved \in VTs \cup {None}
  /\ graphicsMode => saved \in VTs
  /\ job \in [Tasks -> Job]
  /\ overlapped \subseteq {"change", "exit"}

(* The head of vterm.c: a terminal's cells are the display buffer if it is *)
(* active and its own storage if it is not.  While a switch is moving the  *)
(* two terminals it has locked the others must keep to this.               *)
Moving == {"load", "activate", "unlock"}
PointersFollowActive ==
  \A v \in VTs :
    \/ cells[v] = IF v = active THEN Iram ELSE v
    \/ \E t \in Tasks : job[t].at \in Moving /\ v \in {job[t].old, job[t].new}

(* However switches overlap, in graphics mode too, the terminal they end up *)
(* on has the display: its cells are the display buffer, unless the switch *)
(* that leaves it has taken them away.  Only an exit from graphics mode    *)
(* that overlaps a switch can leave the display with another terminal.     *)
ActiveOnDisplay ==
  "exit" \notin overlapped =>
    \/ cells[active] = Iram
    \/ \E t \in Tasks : job[t].at \in {"load", "activate"} /\ job[t].old = active

(* A switch waits for its second mutex with the first one in hand.  Tasks   *)
(* wait for each other for ever in one case only: switches that overlap    *)
(* stand in a circle, each at the mutex another of them holds (or one that *)
(* found its old terminal to be its new one, at its own).  Writers and     *)
(* changes of mode may wait for such a circle and are never part of it.    *)
Wanted(t) ==
  IF At(t, "lockOld") THEN {job[t].old}
  ELSE IF job[t].at \in {"lockNew", "lockWrite", "lockEnter", "lockExit"}
  THEN {job[t].new} ELSE {}
Blocked(t) == \E v \in Wanted(t) : mutex[v] # Nobody
Runs(t) == ~At(t, "idle") /\ ~Blocked(t)
Circle(ts) ==
  /\ ts # {}
  /\ \A t \in ts : At(t, "lockNew") /\ mutex[job[t].new] \in ts
OnlySwitchesDeadlock ==
  (\E t \in Tasks : Blocked(t)) /\ (\A t \in Tasks : ~Runs(t)) =>
    /\ overlapped # {}
    /\ \E ts \in SUBSET Switchers : Circle(ts)

(* As long as no switch or change of mode has overlapped another, and      *)
(* writers come in wherever they do, each terminal shows exactly what was  *)
(* written to it, and comes back from graphics mode as it went in: the     *)
(* buffers implement the terminals vterm.h promises.                       *)
InGraphics ==
  /\ graphicsMode \/ \E t \in Tasks : At(t, "kept")
  /\ ~\E t \in Tasks : At(t, "restored")

Screens == INSTANCE Terminals WITH
  screen <- [v \in VTs |-> mem[cells[v]]],
  shown <- active,
  graphics <- InGraphics,
  kept <- IF InGraphics THEN mem[saved] ELSE Blank

ScreensKept ==
  Screens!Init /\ [][overlapped' = {} => Screens!Next]_(Screens!vars)
=============================================================================
