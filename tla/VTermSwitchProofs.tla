------------------------- MODULE VTermSwitchProofs -------------------------
(***************************************************************************)
(* Theorems about VTermSwitch, for any number of terminals, tasks and      *)
(* texts, and whatever switches and changes of mode overlap: the types, on *)
(* which terminal the display ends up, which tasks can wait for each other *)
(* for ever, and that the buffers implement the terminals of vterm.h for   *)
(* as long as nothing has overlapped.                                      *)
(***************************************************************************)
EXTENDS VTermSwitch, TLAPS

-----------------------------------------------------------------------------
(* The inductive invariant.  Its first four parts hold whatever overlaps;  *)
(* the last, Apart, as long as nothing has.                                *)

Mover(t) == job[t].at \in Switching \cup Painting
OneMover == \A t, u \in Tasks : Mover(t) /\ Mover(u) => t = u

\* A mutex is held by the task that is between its take and its give.
HoldsOld == {"lockNew", "save", "load", "activate", "unlock"}
HoldsNew == {"save", "load", "activate", "unlock", "store", "keep", "restore"}
Holds(t, v) ==
  \/ job[t].at \in HoldsOld /\ v = job[t].old
  \/ job[t].at \in HoldsNew /\ v = job[t].new
LocksHeld == \A t \in Tasks, v \in VTs : mutex[v] = t <=> Holds(t, v)

\* What a task's local variables have to do with the shared ones.
SwitchOK(t) ==
  /\ job[t].at \in Switching => ~graphicsMode /\ (job[t].at # "unlock" => job[t].new # active)
  /\ job[t].at \in Switching \ {"compared", "unlock"} => job[t].old = active
  /\ job[t].at = "unlock" => job[t].new = active /\ job[t].old # active
PaintOK(t) ==
  /\ job[t].at \in {"enter", "lockEnter", "keep", "kept"} => ~graphicsMode /\ saved = active
  /\ job[t].at \in {"lockExit", "restore", "restored"} => graphicsMode
  /\ job[t].at \in {"lockEnter", "keep", "lockExit", "restore"} => job[t].new = active
WriteOK(t) == job[t].at = "store" => job[t].base = cells[job[t].new]
JobsOK ==
  /\ \A t \in Tasks : SwitchOK(t) /\ PaintOK(t) /\ WriteOK(t)
  /\ graphicsMode => saved = active

\* In the middle of a switch the old terminal's cells have left the display
\* buffer, and then the new one's have come.
Home(v) == IF v = active THEN Iram ELSE v
PointersOK ==
  /\ (\A t \in Tasks : job[t].at \notin {"load", "activate"}) =>
       \A v \in VTs : cells[v] = Home(v)
  /\ \A t \in Tasks, v \in VTs :
       /\ job[t].at = "load" => cells[v] = v
       /\ job[t].at = "activate" => cells[v] = IF v = job[t].new THEN Iram ELSE v

Apart == OneMover /\ JobsOK /\ PointersOK

\* Which task may be in which call; the terminal a change of mode goes back to.
ModeOK ==
  /\ \A t \in Tasks : job[t].at \in Switching => t \in Switchers
  /\ \A t \in Tasks : job[t].at \in Painting => t \in Painters /\ saved \in VTs
  /\ \A t \in Tasks : job[t].at \in Leaving => job[t].new = saved

\* A terminal has the display when a task makes it the active one.
DisplayOK ==
  /\ ActiveOnDisplay
  /\ \A t \in Tasks : job[t].at = "activate" => cells[job[t].new] = Iram
  /\ "exit" \notin overlapped =>
       \A t \in Tasks :
         /\ job[t].at \in Leaving => ~Busy(Switching)
         /\ job[t].at = "restored" => cells[job[t].new] = Iram

IInv ==
  /\ TypeOK /\ LocksHeld /\ ModeOK /\ DisplayOK
  /\ overlapped = {} => Apart

-----------------------------------------------------------------------------
(* What one task's step leaves of the invariant.                           *)

Steps(t) == \A u \in Tasks \ {t} : job'[u] = job[u]
Alone(t) == \A u \in Tasks \ {t} : ~Mover(u)

LEMMA LocksKept ==
  ASSUME LocksHeld, NEW t \in Tasks, Steps(t), UNCHANGED mutex,
         \A v \in VTs : Holds(t, v)' <=> Holds(t, v)
  PROVE  LocksHeld'
  BY DEF LocksHeld, Steps, Holds

LEMMA LockTaken ==
  ASSUME LocksHeld, NEW t \in Tasks, Steps(t), NEW v \in VTs, Take(t, v),
         mutex \in [VTs -> Tasks \cup {Nobody}],
         \A w \in VTs : Holds(t, w)' <=> Holds(t, w) \/ w = v
  PROVE  LocksHeld'
  <1>. Nobody \notin Tasks BY ConstantsAssumption DEF Tasks
  <1>. SUFFICES ASSUME NEW u \in Tasks, NEW w \in VTs PROVE mutex'[w] = u <=> Holds(u, w)'
    BY DEF LocksHeld
  <1>1. mutex'[w] = IF w = v THEN t ELSE mutex[w]
    BY DEF Take
  <1>2. CASE u = t
    BY <1>1, <1>2 DEF LocksHeld
  <1>3. CASE u # t
    <2>1. Holds(u, w)' <=> mutex[w] = u
      BY <1>3 DEF LocksHeld, Steps, Holds
    <2>. QED BY <1>1, <1>3, <2>1 DEF Take
  <1>. QED BY <1>2, <1>3

LEMMA LocksGiven ==
  ASSUME LocksHeld, NEW t \in Tasks, Steps(t), NEW vs, Give(vs),
         \A v \in VTs : ~Holds(t, v)' /\ (Holds(t, v) <=> v \in vs)
  PROVE  LocksHeld'
  <1>. Nobody \notin Tasks BY ConstantsAssumption DEF Tasks
  <1>. SUFFICES ASSUME NEW u \in Tasks, NEW w \in VTs PROVE mutex'[w] = u <=> Holds(u, w)'
    BY DEF LocksHeld
  <1>1. mutex'[w] = IF w \in vs THEN Nobody ELSE mutex[w]
    BY DEF Give
  <1>2. CASE u = t
    BY <1>1, <1>2 DEF LocksHeld
  <1>3. CASE u # t
    <2>1. Holds(u, w)' <=> mutex[w] = u
      BY <1>3 DEF LocksHeld, Steps, Holds
    <2>. QED BY <1>1, <1>3, <2>1 DEF LocksHeld
  <1>. QED BY <1>2, <1>3

LEMMA JobsKept ==
  ASSUME JobsOK, NEW t \in Tasks, Steps(t), UNCHANGED <<active, cells, graphicsMode, saved>>,
         SwitchOK(t)', PaintOK(t)', WriteOK(t)'
  PROVE  JobsOK'
  <1>. SUFFICES ASSUME NEW u \in Tasks, u # t PROVE (SwitchOK(u) /\ PaintOK(u) /\ WriteOK(u))'
    BY DEF JobsOK
  <1>1. job'[u] = job[u] BY DEF Steps
  <1>2. SwitchOK(u) /\ PaintOK(u) /\ WriteOK(u) BY DEF JobsOK
  <1>. QED BY <1>1, <1>2 DEF SwitchOK, PaintOK, WriteOK

LEMMA JobsMoved ==
  ASSUME JobsOK, NEW t \in Tasks, Steps(t), Alone(t),
         \A u \in Tasks \ {t} : job[u].at = "store" => cells'[job[u].new] = cells[job[u].new],
         graphicsMode' => saved' = active',
         SwitchOK(t)', PaintOK(t)', WriteOK(t)'
  PROVE  JobsOK'
  <1>. SUFFICES ASSUME NEW u \in Tasks, u # t PROVE (SwitchOK(u) /\ PaintOK(u) /\ WriteOK(u))'
    BY DEF JobsOK
  <1>1. job'[u] = job[u] BY DEF Steps
  <1>2. WriteOK(u) BY DEF JobsOK
  <1>3. ~Mover(u) BY DEF Alone
  <1>. QED BY <1>1, <1>2, <1>3 DEF SwitchOK, PaintOK, WriteOK, Mover, Switching, Painting, Leaving

LEMMA PointersKept ==
  ASSUME PointersOK, NEW t \in Tasks, Steps(t), UNCHANGED <<active, cells>>,
         job[t].at \notin {"load", "activate"}, job'[t].at \notin {"load", "activate"}
  PROVE  PointersOK'
  <1>1. \A u \in Tasks : job'[u].at \in {"load", "activate"} => u # t /\ job'[u] = job[u]
    BY DEF Steps
  <1>2. (\A u \in Tasks : job'[u].at \notin {"load", "activate"}) =>
          \A u \in Tasks : job[u].at \notin {"load", "activate"}
    BY DEF Steps
  <1>. QED BY <1>1, <1>2 DEF PointersOK, Home

LEMMA ModeKept ==
  ASSUME ModeOK, NEW t \in Tasks, Steps(t), UNCHANGED saved,
         job'[t].at \in Switching => t \in Switchers,
         job'[t].at \in Painting => t \in Painters /\ saved \in VTs,
         job'[t].at \in Leaving => job'[t].new = saved
  PROVE  ModeOK'
  BY DEF ModeOK, Steps

LEMMA ModeMoved ==
  ASSUME ModeOK, NEW t \in Tasks, t \in Painters, Steps(t),
         job'[t].at \in Painting => saved' \in VTs,
         job'[t].at \notin Leaving \cup Switching
  PROVE  ModeOK'
  <1>1. \A u \in Tasks : job'[u].at \in Painting \cup Leaving => u = t
    BY ConstantsAssumption DEF ModeOK, Steps, Painting, Leaving
  <1>. QED BY <1>1 DEF ModeOK, Steps

\* The display stays where it is in a step that moves no cells, if the step
\* begins neither a switch during an exit nor an exit during a switch.
LEMMA DisplayKept ==
  ASSUME DisplayOK, NEW t \in Tasks, Steps(t), UNCHANGED <<active, cells>>,
         overlapped \subseteq overlapped',
         job[t].at \notin {"load", "activate"},
         job'[t].at \notin {"activate", "restored"},
         "exit" \notin overlapped' =>
           /\ job'[t].at \in Leaving => job[t].at \in Leaving \/ ~Busy(Switching)
           /\ job'[t].at \in Switching => job[t].at \in Switching \/ ~Busy(Leaving)
  PROVE  DisplayOK'
  <1>1. ActiveOnDisplay'
    BY DEF DisplayOK, ActiveOnDisplay, Steps
  <1>2. \A u \in Tasks : job'[u].at = "activate" => cells'[job'[u].new] = Iram
    BY DEF DisplayOK, Steps
  <1>3. ASSUME "exit" \notin overlapped', NEW u \in Tasks, job'[u].at \in Leaving,
               NEW w \in Tasks, job'[w].at \in Switching
        PROVE  FALSE
    <2>. u # w
      BY <1>3 DEF Leaving, Switching
    <2>. /\ \A x, y \in Tasks : job[x].at \in Leaving => job[y].at \notin Switching
         /\ job'[u] = job[u] \/ u = t
         /\ job'[w] = job[w] \/ w = t
      BY <1>3 DEF DisplayOK, Busy, Steps
    <2>. QED BY <1>3 DEF Busy
  <1>4. "exit" \notin overlapped' =>
          \A u \in Tasks : job'[u].at = "restored" => cells'[job'[u].new] = Iram
    BY DEF DisplayOK, Steps
  <1>. QED BY <1>1, <1>2, <1>3, <1>4 DEF DisplayOK, Busy

\* The same of a switch or an exit that is under way, whatever it moves.
LEMMA ExitsKept ==
  ASSUME DisplayOK, NEW t \in Tasks, Steps(t), UNCHANGED overlapped,
         job'[t].at \in Leaving => job[t].at \in Leaving,
         job'[t].at \in Switching => job[t].at \in Switching
  PROVE  "exit" \notin overlapped' =>
           \A u \in Tasks : job'[u].at \in Leaving => ~Busy(Switching)'
  BY DEF DisplayOK, Busy, Steps, Leaving, Switching

LEMMA SaveOldDisplays ==
  ASSUME TypeOK, LocksHeld, DisplayOK, NEW t \in Tasks, SaveOld(t), Steps(t),
         job[t] \in Job, job[t].at = "save", job'[t].at = "load", job'[t].old = job[t].old
  PROVE  DisplayOK'
  <1>1. cells' = [cells EXCEPT ![job[t].old] = job[t].old] /\ UNCHANGED <<active, overlapped>>
    BY DEF SaveOld
  <1>2. ActiveOnDisplay'
    BY <1>1 DEF DisplayOK, ActiveOnDisplay, TypeOK, Steps
  <1>3. ASSUME NEW u \in Tasks, job'[u].at = "activate"
        PROVE  cells'[job'[u].new] = Iram
    <2>1. u # t /\ job'[u] = job[u] /\ job[u] \in Job
      BY <1>3 DEF Steps, TypeOK
    <2>2. mutex[job[u].new] = u /\ mutex[job[t].old] = t
      BY <1>3, <2>1 DEF LocksHeld, Holds, HoldsOld, HoldsNew, Job
    <2>. QED BY <1>1, <1>3, <2>1, <2>2 DEF DisplayOK, TypeOK
  <1>4. "exit" \notin overlapped => \A u \in Tasks : job'[u].at \notin Leaving
    BY DEF DisplayOK, Busy, Steps, Leaving, Switching
  <1>. QED BY <1>1, <1>2, <1>3, <1>4 DEF DisplayOK, Leaving

LEMMA LoadNewDisplays ==
  ASSUME TypeOK, DisplayOK, NEW t \in Tasks, LoadNew(t), Steps(t), job[t] \in Job,
         job[t].at = "load", job'[t].at = "activate",
         job'[t].old = job[t].old, job'[t].new = job[t].new
  PROVE  DisplayOK'
  <1>1. cells' = [cells EXCEPT ![job[t].new] = Iram] /\ UNCHANGED <<active, overlapped>>
    BY DEF LoadNew
  <1>2. \A v \in VTs : cells[v] = Iram => cells'[v] = Iram
    BY <1>1 DEF TypeOK
  <1>3. ActiveOnDisplay'
    BY <1>1, <1>2 DEF DisplayOK, ActiveOnDisplay, Steps, TypeOK
  <1>4. ASSUME NEW u \in Tasks, job'[u].at = "activate"
        PROVE  cells'[job'[u].new] = Iram
    <2>1. CASE u = t
      BY <1>1, <2>1 DEF TypeOK, Job
    <2>2. CASE u # t
      BY <1>2, <1>4, <2>2 DEF DisplayOK, Steps, TypeOK, Job
    <2>. QED BY <2>1, <2>2
  <1>5. "exit" \notin overlapped => \A u \in Tasks : job'[u].at \notin Leaving
    BY DEF DisplayOK, Busy, Steps, Leaving, Switching
  <1>. QED BY <1>1, <1>3, <1>4, <1>5 DEF DisplayOK, Leaving

LEMMA ActivateDisplays ==
  ASSUME TypeOK, DisplayOK, NEW t \in Tasks, Activate(t), Steps(t), job[t] \in Job,
         job[t].at = "activate", job'[t].at = "unlock"
  PROVE  DisplayOK'
  <1>1. active' = job[t].new /\ UNCHANGED <<cells, overlapped>>
    BY DEF Activate
  <1>2. ActiveOnDisplay'
    BY <1>1 DEF DisplayOK, ActiveOnDisplay
  <1>3. \A u \in Tasks : job'[u].at = "activate" => cells'[job'[u].new] = Iram
    BY <1>1 DEF DisplayOK, Steps
  <1>4. "exit" \notin overlapped => \A u \in Tasks : job'[u].at \notin Leaving
    BY DEF DisplayOK, Busy, Steps, Leaving, Switching
  <1>. QED BY <1>1, <1>2, <1>3, <1>4 DEF DisplayOK, Leaving

LEMMA RestoreDisplays ==
  ASSUME TypeOK, DisplayOK, NEW t \in Tasks, Restore(t), Steps(t), job[t] \in Job,
         job[t].at = "restore", job'[t].at = "restored", job'[t].new = job[t].new
  PROVE  DisplayOK'
  <1>1. cells' = [cells EXCEPT ![job[t].new] = Iram] /\ UNCHANGED <<active, overlapped>>
    BY DEF Restore
  <1>2. \A v \in VTs : cells[v] = Iram => cells'[v] = Iram
    BY <1>1 DEF TypeOK
  <1>3. ActiveOnDisplay'
    BY <1>1, <1>2 DEF DisplayOK, ActiveOnDisplay, Steps, TypeOK
  <1>4. \A u \in Tasks : job'[u].at = "activate" => cells'[job'[u].new] = Iram
    BY <1>2 DEF DisplayOK, Steps, TypeOK, Job
  <1>5. "exit" \notin overlapped' =>
          \A u \in Tasks : job'[u].at \in Leaving => ~Busy(Switching)'
    BY <1>1, ExitsKept DEF Leaving, Switching
  <1>6. ASSUME "exit" \notin overlapped', NEW u \in Tasks, job'[u].at = "restored"
        PROVE  cells'[job'[u].new] = Iram
    <2>1. CASE u = t
      BY <1>1, <2>1 DEF TypeOK, Job
    <2>2. CASE u # t
      BY <1>1, <1>2, <1>6, <2>2 DEF DisplayOK, Steps, TypeOK, Job
    <2>. QED BY <2>1, <2>2
  <1>. QED BY <1>3, <1>4, <1>5, <1>6 DEF DisplayOK

LEMMA ExitedDisplays ==
  ASSUME TypeOK, ModeOK, DisplayOK, NEW t \in Tasks, Exited(t), Steps(t), job[t] \in Job,
         job[t].at = "restored", job'[t].at = "idle"
  PROVE  DisplayOK'
  <1>1. active' = job[t].new /\ UNCHANGED <<cells, overlapped>>
    BY DEF Exited, ModeOK, Leaving
  <1>2. ActiveOnDisplay'
    BY <1>1 DEF DisplayOK, ActiveOnDisplay
  <1>3. \A u \in Tasks : job'[u].at = "activate" => cells'[job'[u].new] = Iram
    BY <1>1 DEF DisplayOK, Steps
  <1>4. "exit" \notin overlapped' =>
          \A u \in Tasks : job'[u].at \in Leaving => ~Busy(Switching)'
    BY <1>1, ExitsKept DEF Leaving, Switching
  <1>5. "exit" \notin overlapped' =>
          \A u \in Tasks : job'[u].at = "restored" => cells'[job'[u].new] = Iram
    BY <1>1 DEF DisplayOK, Steps
  <1>. QED BY <1>2, <1>3, <1>4, <1>5 DEF DisplayOK

LEMMA InitInv == Init => IInv
  <1>. SUFFICES ASSUME Init PROVE IInv
    OBVIOUS
  <1>1. /\ \A t \in Tasks : job[t] = Outside
        /\ Outside \in Job
        /\ \A v \in VTs : mutex[v] = Nobody
        /\ \A v \in VTs : cells[v] = Home(v)
    BY ConstantsAssumption DEF Init, Outside, Job, Buffers, Home
  <1>2. \A t \in Tasks : job[t].at = "idle"
    BY <1>1 DEF Outside
  <1>3. TypeOK
    BY <1>1, ConstantsAssumption DEF Init, TypeOK, Buffers
  <1>4. OneMover
    BY <1>2 DEF OneMover, Mover, Switching, Painting, Leaving
  <1>5. LocksHeld
    BY <1>1, <1>2, ConstantsAssumption DEF LocksHeld, Holds, HoldsOld, HoldsNew, Tasks
  <1>6. JobsOK
    BY <1>2 DEF Init, JobsOK, SwitchOK, PaintOK, WriteOK, Switching
  <1>7. PointersOK
    BY <1>1, <1>2 DEF PointersOK
  <1>8. ModeOK
    BY <1>2 DEF ModeOK, Switching, Painting, Leaving
  <1>9. DisplayOK
    BY <1>1, <1>2, <1>3 DEF DisplayOK, ActiveOnDisplay, Home, Leaving, TypeOK
  <1>. QED BY <1>3, <1>4, <1>5, <1>6, <1>7, <1>8, <1>9 DEF IInv, Apart

(* Every step keeps the invariant.  A step changes one task's job, and what *)
(* it changes besides belongs to a mutex it holds or to the one mover.     *)
LEMMA StepKeepsInv ==
  ASSUME IInv, [Next]_vars PROVE IInv'
  <1>. TypeOK /\ LocksHeld /\ ModeOK /\ DisplayOK
    BY DEF IInv
  <1>u. CASE UNCHANGED vars
    <2>1. TypeOK' BY <1>u DEF vars, TypeOK
    <2>2. LocksHeld' BY <1>u DEF vars, LocksHeld, Holds
    <2>3. ModeOK' BY <1>u DEF vars, ModeOK
    <2>4. DisplayOK' BY <1>u DEF vars, DisplayOK, ActiveOnDisplay, Busy
    <2>5. ASSUME overlapped' = {} PROVE Apart'
      <3>. Apart BY <1>u, <2>5 DEF vars, IInv
      <3>1. OneMover' BY <1>u DEF vars, Apart, OneMover, Mover
      <3>2. JobsOK' BY <1>u DEF vars, Apart, JobsOK, SwitchOK, PaintOK, WriteOK
      <3>3. PointersOK' BY <1>u DEF vars, Apart, PointersOK, Home
      <3>. QED BY <3>1, <3>2, <3>3 DEF Apart
    <2>. QED BY <2>1, <2>2, <2>3, <2>4, <2>5 DEF IInv
  <1>1. CASE \E t \in Switchers : StartSwitch(t)
    <2>. PICK t \in Switchers : StartSwitch(t)
      BY <1>1
    <2>. t \in Tasks
      BY DEF Tasks
    <2>1. job[t] \in Job /\ job[t].at = "idle"
      BY DEF StartSwitch, At, TypeOK
    <2>2. /\ job' \in [Tasks -> Job] /\ Steps(t)
         /\ job'[t].at = "compared"
         /\ job'[t].old = job[t].old
         /\ job'[t].new \in VTs \ {active}
         /\ job'[t].base = job[t].base
      <3>1. PICK v \in VTs \ {active} :
              job' = [job EXCEPT ![t] = [job[t] EXCEPT !.at = "compared", !.new = v]]
        BY DEF StartSwitch, Becomes
      <3>2. [job[t] EXCEPT !.at = "compared", !.new = v] \in Job
        BY <2>1, <3>1 DEF Job, Switching
      <3>. QED BY <2>1, <3>1, <3>2 DEF Steps, TypeOK, Job
    <2>3. TypeOK'
      BY <2>1, <2>2, ConstantsAssumption DEF StartSwitch, Becomes, TypeOK, Job, Buffers, Tasks, Meet
    <2>4. LocksHeld'
      <3>1. \A w \in VTs : Holds(t, w)' <=> Holds(t, w)
        BY <2>1, <2>2 DEF Holds, HoldsOld, HoldsNew
      <3>. QED BY <2>2, <3>1, LocksKept DEF StartSwitch, Becomes
    <2>5. ModeOK'
      BY <2>1, <2>2, ModeKept DEF StartSwitch, Painting, Leaving, Switching
    <2>6. DisplayOK'
      BY <2>1, <2>2, DisplayKept DEF StartSwitch, Meet, Leaving, Switching
    <2>7. ASSUME overlapped' = {} PROVE Apart'
      <3>. Apart
        BY <2>7 DEF IInv, StartSwitch, Meet
      <3>. OneMover /\ JobsOK /\ PointersOK /\ SwitchOK(t) /\ PaintOK(t)
        BY DEF Apart, JobsOK
      <3>1. Alone(t)
        BY <2>1, <2>7, ConstantsAssumption DEF StartSwitch, Meet, Busy, Alone, Mover, ModeOK
      <3>2. OneMover'
        BY <2>2, <3>1 DEF OneMover, Mover, Alone, Steps
      <3>3. JobsOK'
        <4>1. SwitchOK(t)' /\ PaintOK(t)' /\ WriteOK(t)'
          BY <2>1, <2>2, <2>7 DEF StartSwitch, Meet, Becomes, SwitchOK, PaintOK, WriteOK, Switching
        <4>. QED BY <2>2, <4>1, JobsKept DEF StartSwitch, Becomes
      <3>4. PointersOK'
        BY <2>1, <2>2, PointersKept DEF StartSwitch, Becomes
      <3>. QED BY <3>2, <3>3, <3>4 DEF Apart
    <2>. QED BY <2>3, <2>4, <2>5, <2>6, <2>7 DEF IInv
  <1>2. CASE \E t \in Switchers : ReadOld(t)
    <2>. PICK t \in Switchers : ReadOld(t)
      BY <1>2
    <2>. t \in Tasks
      BY DEF Tasks
    <2>1. job[t] \in Job /\ job[t].at = "compared"
      BY DEF ReadOld, At, TypeOK
    <2>2. /\ job' \in [Tasks -> Job] /\ Steps(t)
         /\ job'[t].at = "lockOld"
         /\ job'[t].old = active
         /\ job'[t].new = job[t].new
         /\ job'[t].base = job[t].base
      BY <2>1, ConstantsAssumption DEF ReadOld, Becomes, Local, Steps, TypeOK, Job, Buffers,
         Switching, Painting, Leaving, Writing
    <2>3. TypeOK'
      BY <2>1, <2>2, ConstantsAssumption DEF ReadOld, Local, TypeOK, Job, Buffers, Tasks
    <2>4. LocksHeld'
      <3>1. \A w \in VTs : Holds(t, w)' <=> Holds(t, w)
        BY <2>1, <2>2 DEF Holds, HoldsOld, HoldsNew
      <3>. QED BY <2>2, <3>1, LocksKept DEF ReadOld, Local
    <2>5. ModeOK'
      BY <2>1, <2>2, ModeKept DEF ReadOld, Local, Painting, Leaving, Switching
    <2>6. DisplayOK'
      BY <2>1, <2>2, DisplayKept DEF ReadOld, Local, Leaving, Switching
    <2>7. ASSUME overlapped' = {} PROVE Apart'
      <3>. Apart
        BY <2>7 DEF IInv, ReadOld, Local
      <3>. OneMover /\ JobsOK /\ PointersOK /\ SwitchOK(t) /\ PaintOK(t)
        BY DEF Apart, JobsOK
      <3>1. Alone(t)
        BY <2>1 DEF OneMover, Alone, Mover, Switching, Painting, Leaving
      <3>2. OneMover'
        BY <2>2, <3>1 DEF OneMover, Mover, Alone, Steps
      <3>3. JobsOK'
        <4>1. SwitchOK(t)' /\ PaintOK(t)' /\ WriteOK(t)'
          BY <2>1, <2>2 DEF ReadOld, Local, SwitchOK, PaintOK, WriteOK, Switching
        <4>. QED BY <2>2, <4>1, JobsKept DEF ReadOld, Local
      <3>4. PointersOK'
        BY <2>1, <2>2, PointersKept DEF ReadOld, Local
      <3>. QED BY <3>2, <3>3, <3>4 DEF Apart
    <2>. QED BY <2>3, <2>4, <2>5, <2>6, <2>7 DEF IInv
  <1>3. CASE \E t \in Switchers : LockOld(t)
    <2>. PICK t \in Switchers : LockOld(t)
      BY <1>3
    <2>. t \in Tasks
      BY DEF Tasks
    <2>1. job[t] \in Job /\ job[t].at = "lockOld"
      BY DEF LockOld, At, TypeOK
    <2>2. /\ job' \in [Tasks -> Job] /\ Steps(t)
         /\ job'[t].at = "lockNew"
         /\ job'[t].old = job[t].old
         /\ job'[t].new = job[t].new
         /\ job'[t].base = job[t].base
      BY <2>1, ConstantsAssumption DEF LockOld, Becomes, Take, Goto, Steps, TypeOK, Job, Buffers,
         Switching, Painting, Leaving, Writing
    <2>3. TypeOK'
      BY <2>1, <2>2, ConstantsAssumption DEF LockOld, Take, Goto, TypeOK, Job, Buffers, Tasks
    <2>4. LocksHeld'
      <3>1. \A w \in VTs : Holds(t, w)' <=> Holds(t, w) \/ w = job[t].old
        BY <2>1, <2>2 DEF Holds, HoldsOld, HoldsNew
      <3>2. Take(t, job[t].old) /\ job[t].old \in VTs
        BY <2>1 DEF LockOld, Job
      <3>. QED BY <2>2, <3>1, <3>2, LockTaken DEF TypeOK
    <2>5. ModeOK'
      BY <2>1, <2>2, ModeKept DEF LockOld, Take, Painting, Leaving, Switching
    <2>6. DisplayOK'
      BY <2>1, <2>2, DisplayKept DEF LockOld, Take, Leaving, Switching
    <2>7. ASSUME overlapped' = {} PROVE Apart'
      <3>. Apart
        BY <2>7 DEF IInv, LockOld, Take
      <3>. OneMover /\ JobsOK /\ PointersOK /\ SwitchOK(t) /\ PaintOK(t)
        BY DEF Apart, JobsOK
      <3>1. Alone(t)
        BY <2>1 DEF OneMover, Alone, Mover, Switching, Painting, Leaving
      <3>2. OneMover'
        BY <2>2, <3>1 DEF OneMover, Mover, Alone, Steps
      <3>3. JobsOK'
        <4>1. SwitchOK(t)' /\ PaintOK(t)' /\ WriteOK(t)'
          BY <2>1, <2>2 DEF LockOld, Take, Goto, SwitchOK, PaintOK, WriteOK, Switching
        <4>. QED BY <2>2, <4>1, JobsKept DEF LockOld, Take
      <3>4. PointersOK'
        BY <2>1, <2>2, PointersKept DEF LockOld, Take
      <3>. QED BY <3>2, <3>3, <3>4 DEF Apart
    <2>. QED BY <2>3, <2>4, <2>5, <2>6, <2>7 DEF IInv
  <1>4. CASE \E t \in Switchers : LockNew(t)
    <2>. PICK t \in Switchers : LockNew(t)
      BY <1>4
    <2>. t \in Tasks
      BY DEF Tasks
    <2>1. job[t] \in Job /\ job[t].at = "lockNew"
      BY DEF LockNew, At, TypeOK
    <2>2. /\ job' \in [Tasks -> Job] /\ Steps(t)
         /\ job'[t].at = "save"
         /\ job'[t].old = job[t].old
         /\ job'[t].new = job[t].new
         /\ job'[t].base = job[t].base
      BY <2>1, ConstantsAssumption DEF LockNew, Becomes, Take, Goto, Steps, TypeOK, Job, Buffers,
         Switching, Painting, Leaving, Writing
    <2>3. TypeOK'
      BY <2>1, <2>2, ConstantsAssumption DEF LockNew, Take, Goto, TypeOK, Job, Buffers, Tasks
    <2>4. LocksHeld'
      <3>1. \A w \in VTs : Holds(t, w)' <=> Holds(t, w) \/ w = job[t].new
        BY <2>1, <2>2 DEF Holds, HoldsOld, HoldsNew
      <3>2. Take(t, job[t].new) /\ job[t].new \in VTs
        BY <2>1 DEF LockNew, Job
      <3>. QED BY <2>2, <3>1, <3>2, LockTaken DEF TypeOK
    <2>5. ModeOK'
      BY <2>1, <2>2, ModeKept DEF LockNew, Take, Painting, Leaving, Switching
    <2>6. DisplayOK'
      BY <2>1, <2>2, DisplayKept DEF LockNew, Take, Leaving, Switching
    <2>7. ASSUME overlapped' = {} PROVE Apart'
      <3>. Apart
        BY <2>7 DEF IInv, LockNew, Take
      <3>. OneMover /\ JobsOK /\ PointersOK /\ SwitchOK(t) /\ PaintOK(t)
        BY DEF Apart, JobsOK
      <3>1. Alone(t)
        BY <2>1 DEF OneMover, Alone, Mover, Switching, Painting, Leaving
      <3>2. OneMover'
        BY <2>2, <3>1 DEF OneMover, Mover, Alone, Steps
      <3>3. JobsOK'
        <4>1. SwitchOK(t)' /\ PaintOK(t)' /\ WriteOK(t)'
          BY <2>1, <2>2 DEF LockNew, Take, Goto, SwitchOK, PaintOK, WriteOK, Switching
        <4>. QED BY <2>2, <4>1, JobsKept DEF LockNew, Take
      <3>4. PointersOK'
        BY <2>1, <2>2, PointersKept DEF LockNew, Take
      <3>. QED BY <3>2, <3>3, <3>4 DEF Apart
    <2>. QED BY <2>3, <2>4, <2>5, <2>6, <2>7 DEF IInv
  <1>5. CASE \E t \in Switchers : SaveOld(t)
    <2>. PICK t \in Switchers : SaveOld(t)
      BY <1>5
    <2>. t \in Tasks
      BY DEF Tasks
    <2>1. job[t] \in Job /\ job[t].at = "save"
      BY DEF SaveOld, At, TypeOK
    <2>2. /\ job' \in [Tasks -> Job] /\ Steps(t)
         /\ job'[t].at = "load"
         /\ job'[t].old = job[t].old
         /\ job'[t].new = job[t].new
         /\ job'[t].base = job[t].base
      BY <2>1, ConstantsAssumption DEF SaveOld, Becomes, Goto, Steps, TypeOK, Job, Buffers,
         Switching, Painting, Leaving, Writing
    <2>3. TypeOK'
      BY <2>1, <2>2, ConstantsAssumption DEF SaveOld, Goto, TypeOK, Job, Buffers, Tasks
    <2>4. LocksHeld'
      <3>1. \A w \in VTs : Holds(t, w)' <=> Holds(t, w)
        BY <2>1, <2>2 DEF Holds, HoldsOld, HoldsNew
      <3>. QED BY <2>2, <3>1, LocksKept DEF SaveOld
    <2>5. ModeOK'
      BY <2>1, <2>2, ModeKept DEF SaveOld, Painting, Leaving, Switching
    <2>6. DisplayOK'
      BY <2>1, <2>2, SaveOldDisplays
    <2>7. ASSUME overlapped' = {} PROVE Apart'
      <3>. Apart
        BY <2>7 DEF IInv, SaveOld
      <3>. OneMover /\ JobsOK /\ PointersOK /\ SwitchOK(t) /\ PaintOK(t)
        BY DEF Apart, JobsOK
      <3>1. Alone(t)
        BY <2>1 DEF OneMover, Alone, Mover, Switching, Painting, Leaving
      <3>2. OneMover'
        BY <2>2, <3>1 DEF OneMover, Mover, Alone, Steps
      <3>3. JobsOK'
        <4>1. SwitchOK(t)' /\ PaintOK(t)' /\ WriteOK(t)'
          BY <2>1, <2>2 DEF SaveOld, Goto, SwitchOK, PaintOK, WriteOK, Switching
        <4>2. \A u \in Tasks \ {t} : job[u].at = "store" => cells'[job[u].new] = cells[job[u].new]
          <5>1. SUFFICES ASSUME NEW u \in Tasks \ {t}, job[u].at = "store"
                PROVE  cells'[job[u].new] = cells[job[u].new]
            OBVIOUS
          <5>2. job[u].new \in VTs /\ job[t].old \in VTs
            BY <2>1 DEF TypeOK, Job
          <5>3. mutex[job[u].new] = u /\ mutex[job[t].old] = t
            BY <2>1, <5>1, <5>2 DEF LocksHeld, Holds, HoldsOld, HoldsNew
          <5>. QED BY <5>2, <5>3 DEF SaveOld, TypeOK
        <4>3. graphicsMode' => saved' = active'
          BY <2>1 DEF SaveOld, JobsOK, SwitchOK, PaintOK, Switching
        <4>. QED BY <2>2, <3>1, <4>1, <4>2, <4>3, JobsMoved
      <3>4. PointersOK'
        <4>1. \A u \in Tasks \ {t} : job[u].at \notin {"load",
        "activate"} /\ job'[u].at \notin {"load", "activate"}
          BY <2>2, <3>1 DEF Alone, Steps, Mover, Switching
        <4>2. job[t].old \in VTs /\ job[t].new \in VTs
          BY <2>1 DEF Job
        <4>. QED BY <2>1, <2>2, <4>1, <4>2, ConstantsAssumption DEF SaveOld, PointersOK, Home,
           SwitchOK, Switching, TypeOK
      <3>. QED BY <3>2, <3>3, <3>4 DEF Apart
    <2>. QED BY <2>3, <2>4, <2>5, <2>6, <2>7 DEF IInv
  <1>6. CASE \E t \in Switchers : LoadNew(t)
    <2>. PICK t \in Switchers : LoadNew(t)
      BY <1>6
    <2>. t \in Tasks
      BY DEF Tasks
    <2>1. job[t] \in Job /\ job[t].at = "load"
      BY DEF LoadNew, At, TypeOK
    <2>2. /\ job' \in [Tasks -> Job] /\ Steps(t)
         /\ job'[t].at = "activate"
         /\ job'[t].old = job[t].old
         /\ job'[t].new = job[t].new
         /\ job'[t].base = job[t].base
      BY <2>1, ConstantsAssumption DEF LoadNew, Becomes, Goto, Steps, TypeOK, Job, Buffers,
         Switching, Painting, Leaving, Writing
    <2>3. TypeOK'
      BY <2>1, <2>2, ConstantsAssumption DEF LoadNew, Goto, TypeOK, Job, Buffers, Tasks
    <2>4. LocksHeld'
      <3>1. \A w \in VTs : Holds(t, w)' <=> Holds(t, w)
        BY <2>1, <2>2 DEF Holds, HoldsOld, HoldsNew
      <3>. QED BY <2>2, <3>1, LocksKept DEF LoadNew
    <2>5. ModeOK'
      BY <2>1, <2>2, ModeKept DEF LoadNew, Painting, Leaving, Switching
    <2>6. DisplayOK'
      BY <2>1, <2>2, LoadNewDisplays
    <2>7. ASSUME overlapped' = {} PROVE Apart'
      <3>. Apart
        BY <2>7 DEF IInv, LoadNew
      <3>. OneMover /\ JobsOK /\ PointersOK /\ SwitchOK(t) /\ PaintOK(t)
        BY DEF Apart, JobsOK
      <3>1. Alone(t)
        BY <2>1 DEF OneMover, Alone, Mover, Switching, Painting, Leaving
      <3>2. OneMover'
        BY <2>2, <3>1 DEF OneMover, Mover, Alone, Steps
      <3>3. JobsOK'
        <4>1. SwitchOK(t)' /\ PaintOK(t)' /\ WriteOK(t)'
          BY <2>1, <2>2 DEF LoadNew, Goto, SwitchOK, PaintOK, WriteOK, Switching
        <4>2. \A u \in Tasks \ {t} : job[u].at = "store" => cells'[job[u].new] = cells[job[u].new]
          <5>1. SUFFICES ASSUME NEW u \in Tasks \ {t}, job[u].at = "store"
                PROVE  cells'[job[u].new] = cells[job[u].new]
            OBVIOUS
          <5>2. job[u].new \in VTs /\ job[t].new \in VTs
            BY <2>1 DEF TypeOK, Job
          <5>3. mutex[job[u].new] = u /\ mutex[job[t].new] = t
            BY <2>1, <5>1, <5>2 DEF LocksHeld, Holds, HoldsOld, HoldsNew
          <5>. QED BY <5>2, <5>3 DEF LoadNew, TypeOK
        <4>3. graphicsMode' => saved' = active'
          BY <2>1 DEF LoadNew, JobsOK, SwitchOK, PaintOK, Switching
        <4>. QED BY <2>2, <3>1, <4>1, <4>2, <4>3, JobsMoved
      <3>4. PointersOK'
        <4>1. \A u \in Tasks \ {t} : job[u].at \notin {"load",
        "activate"} /\ job'[u].at \notin {"load", "activate"}
          BY <2>2, <3>1 DEF Alone, Steps, Mover, Switching
        <4>2. job[t].old \in VTs /\ job[t].new \in VTs
          BY <2>1 DEF Job
        <4>. QED BY <2>1, <2>2, <4>1, <4>2, ConstantsAssumption DEF LoadNew, PointersOK, Home,
           SwitchOK, Switching, TypeOK
      <3>. QED BY <3>2, <3>3, <3>4 DEF Apart
    <2>. QED BY <2>3, <2>4, <2>5, <2>6, <2>7 DEF IInv
  <1>7. CASE \E t \in Switchers : Activate(t)
    <2>. PICK t \in Switchers : Activate(t)
      BY <1>7
    <2>. t \in Tasks
      BY DEF Tasks
    <2>1. job[t] \in Job /\ job[t].at = "activate"
      BY DEF Activate, At, TypeOK
    <2>2. /\ job' \in [Tasks -> Job] /\ Steps(t)
         /\ job'[t].at = "unlock"
         /\ job'[t].old = job[t].old
         /\ job'[t].new = job[t].new
         /\ job'[t].base = job[t].base
      BY <2>1, ConstantsAssumption DEF Activate, Becomes, Goto, Steps, TypeOK, Job, Buffers,
         Switching, Painting, Leaving, Writing
    <2>3. TypeOK'
      BY <2>1, <2>2, ConstantsAssumption DEF Activate, Goto, TypeOK, Job, Buffers, Tasks
    <2>4. LocksHeld'
      <3>1. \A w \in VTs : Holds(t, w)' <=> Holds(t, w)
        BY <2>1, <2>2 DEF Holds, HoldsOld, HoldsNew
      <3>. QED BY <2>2, <3>1, LocksKept DEF Activate
    <2>5. ModeOK'
      BY <2>1, <2>2, ModeKept DEF Activate, Painting, Leaving, Switching
    <2>6. DisplayOK'
      BY <2>1, <2>2, ActivateDisplays
    <2>7. ASSUME overlapped' = {} PROVE Apart'
      <3>. Apart
        BY <2>7 DEF IInv, Activate
      <3>. OneMover /\ JobsOK /\ PointersOK /\ SwitchOK(t) /\ PaintOK(t)
        BY DEF Apart, JobsOK
      <3>1. Alone(t)
        BY <2>1 DEF OneMover, Alone, Mover, Switching, Painting, Leaving
      <3>2. OneMover'
        BY <2>2, <3>1 DEF OneMover, Mover, Alone, Steps
      <3>3. JobsOK'
        <4>1. SwitchOK(t)' /\ PaintOK(t)' /\ WriteOK(t)'
          BY <2>1, <2>2 DEF Activate, Goto, SwitchOK, PaintOK, WriteOK, Switching
        <4>2. \A u \in Tasks \ {t} : job[u].at = "store" => cells'[job[u].new] = cells[job[u].new]
          BY DEF Activate
        <4>3. graphicsMode' => saved' = active'
          BY <2>1 DEF Activate, JobsOK, SwitchOK, PaintOK, Switching
        <4>. QED BY <2>2, <3>1, <4>1, <4>2, <4>3, JobsMoved
      <3>4. PointersOK'
        <4>1. \A u \in Tasks \ {t} : job[u].at \notin {"load",
        "activate"} /\ job'[u].at \notin {"load", "activate"}
          BY <2>2, <3>1 DEF Alone, Steps, Mover, Switching
        <4>2. job[t].old \in VTs /\ job[t].new \in VTs
          BY <2>1 DEF Job
        <4>. QED BY <2>1, <2>2, <4>1, <4>2, ConstantsAssumption DEF Activate, PointersOK, Home,
           SwitchOK, Switching, TypeOK
      <3>. QED BY <3>2, <3>3, <3>4 DEF Apart
    <2>. QED BY <2>3, <2>4, <2>5, <2>6, <2>7 DEF IInv
  <1>8. CASE \E t \in Switchers : EndSwitch(t)
    <2>. PICK t \in Switchers : EndSwitch(t)
      BY <1>8
    <2>. t \in Tasks
      BY DEF Tasks
    <2>1. job[t] \in Job /\ job[t].at = "unlock"
      BY DEF EndSwitch, At, TypeOK
    <2>2. /\ job' \in [Tasks -> Job] /\ Steps(t)
         /\ job'[t].at = "idle"
      BY <2>1, ConstantsAssumption DEF EndSwitch, Becomes, Return, Outside, Steps, TypeOK, Job,
         Buffers, Switching, Painting, Leaving, Writing
    <2>3. TypeOK'
      BY <2>1, <2>2, ConstantsAssumption DEF EndSwitch, Give, Return, Outside, TypeOK, Job,
         Buffers, Tasks
    <2>4. LocksHeld'
      <3>1. \A w \in VTs : ~Holds(t, w)' /\ (Holds(t, w) <=> w \in {job[t].old, job[t].new})
        BY <2>1, <2>2 DEF Holds, HoldsOld, HoldsNew
      <3>. QED BY <2>2, <3>1, LocksGiven DEF EndSwitch
    <2>5. ModeOK'
      BY <2>1, <2>2, ModeKept DEF EndSwitch, Painting, Leaving, Switching
    <2>6. DisplayOK'
      BY <2>1, <2>2, DisplayKept DEF EndSwitch, Leaving, Switching
    <2>7. ASSUME overlapped' = {} PROVE Apart'
      <3>. Apart
        BY <2>7 DEF IInv, EndSwitch
      <3>. OneMover /\ JobsOK /\ PointersOK /\ SwitchOK(t) /\ PaintOK(t)
        BY DEF Apart, JobsOK
      <3>1. Alone(t)
        BY <2>1 DEF OneMover, Alone, Mover, Switching, Painting, Leaving
      <3>2. OneMover'
        BY <2>2, <3>1 DEF OneMover, Mover, Alone, Steps
      <3>3. JobsOK'
        <4>1. SwitchOK(t)' /\ PaintOK(t)' /\ WriteOK(t)'
          BY <2>1, <2>2 DEF EndSwitch, Give, Return, Outside, SwitchOK, PaintOK, WriteOK, Switching
        <4>. QED BY <2>2, <4>1, JobsKept DEF EndSwitch
      <3>4. PointersOK'
        BY <2>1, <2>2, PointersKept DEF EndSwitch
      <3>. QED BY <3>2, <3>3, <3>4 DEF Apart
    <2>. QED BY <2>3, <2>4, <2>5, <2>6, <2>7 DEF IInv
  <1>9. CASE \E t \in Writers : StartWrite(t)
    <2>. PICK t \in Writers : StartWrite(t)
      BY <1>9
    <2>. t \in Tasks
      BY DEF Tasks
    <2>1. job[t] \in Job /\ job[t].at = "idle"
      BY DEF StartWrite, At, TypeOK
    <2>2. /\ job' \in [Tasks -> Job] /\ Steps(t)
         /\ job'[t].at = "lockWrite"
         /\ job'[t].old = job[t].old
         /\ job'[t].base = job[t].base
      <3>1. PICK v \in VTs, x \in Texts :
              job' = [job EXCEPT ![t] = [job[t] EXCEPT !.at = "lockWrite", !.new = v, !.text = x]]
        BY DEF StartWrite, Local, Becomes
      <3>2. [job[t] EXCEPT !.at = "lockWrite", !.new = v, !.text = x] \in Job
        BY <2>1, <3>1 DEF Job, Writing
      <3>. QED BY <2>1, <3>1, <3>2 DEF Steps, TypeOK, Job
    <2>3. TypeOK'
      BY <2>1, <2>2, ConstantsAssumption DEF StartWrite, Local, TypeOK, Job, Buffers, Tasks
    <2>4. LocksHeld'
      <3>1. \A w \in VTs : Holds(t, w)' <=> Holds(t, w)
        BY <2>1, <2>2 DEF Holds, HoldsOld, HoldsNew
      <3>. QED BY <2>2, <3>1, LocksKept DEF StartWrite, Local
    <2>5. ModeOK'
      BY <2>1, <2>2, ModeKept DEF StartWrite, Local, Painting, Leaving, Switching
    <2>6. DisplayOK'
      BY <2>1, <2>2, DisplayKept DEF StartWrite, Local, Leaving, Switching
    <2>7. ASSUME overlapped' = {} PROVE Apart'
      <3>. Apart
        BY <2>7 DEF IInv, StartWrite, Local
      <3>. OneMover /\ JobsOK /\ PointersOK /\ SwitchOK(t) /\ PaintOK(t)
        BY DEF Apart, JobsOK
      <3>2. OneMover'
        BY <2>1, <2>2 DEF OneMover, Mover, Steps, Switching, Painting, Leaving
      <3>3. JobsOK'
        <4>1. SwitchOK(t)' /\ PaintOK(t)' /\ WriteOK(t)'
          BY <2>1, <2>2 DEF StartWrite, Local, SwitchOK, PaintOK, WriteOK, Switching
        <4>. QED BY <2>2, <4>1, JobsKept DEF StartWrite, Local
      <3>4. PointersOK'
        BY <2>1, <2>2, PointersKept DEF StartWrite, Local
      <3>. QED BY <3>2, <3>3, <3>4 DEF Apart
    <2>. QED BY <2>3, <2>4, <2>5, <2>6, <2>7 DEF IInv
  <1>10. CASE \E t \in Writers : LockWrite(t)
    <2>. PICK t \in Writers : LockWrite(t)
      BY <1>10
    <2>. t \in Tasks
      BY DEF Tasks
    <2>1. job[t] \in Job /\ job[t].at = "lockWrite"
      BY DEF LockWrite, At, TypeOK
    <2>2. /\ job' \in [Tasks -> Job] /\ Steps(t)
         /\ job'[t].at = "store"
         /\ job'[t].old = job[t].old
         /\ job'[t].new = job[t].new
         /\ job'[t].base = cells[job[t].new]
      BY <2>1, ConstantsAssumption DEF LockWrite, Becomes, Take, Steps, TypeOK, Job, Buffers,
         Switching, Painting, Leaving, Writing
    <2>3. TypeOK'
      BY <2>1, <2>2, ConstantsAssumption DEF LockWrite, Take, TypeOK, Job, Buffers, Tasks
    <2>4. LocksHeld'
      <3>1. \A w \in VTs : Holds(t, w)' <=> Holds(t, w) \/ w = job[t].new
        BY <2>1, <2>2 DEF Holds, HoldsOld, HoldsNew
      <3>2. Take(t, job[t].new) /\ job[t].new \in VTs
        BY <2>1 DEF LockWrite, Job
      <3>. QED BY <2>2, <3>1, <3>2, LockTaken DEF TypeOK
    <2>5. ModeOK'
      BY <2>1, <2>2, ModeKept DEF LockWrite, Take, Painting, Leaving, Switching
    <2>6. DisplayOK'
      BY <2>1, <2>2, DisplayKept DEF LockWrite, Take, Leaving, Switching
    <2>7. ASSUME overlapped' = {} PROVE Apart'
      <3>. Apart
        BY <2>7 DEF IInv, LockWrite, Take
      <3>. OneMover /\ JobsOK /\ PointersOK /\ SwitchOK(t) /\ PaintOK(t)
        BY DEF Apart, JobsOK
      <3>2. OneMover'
        BY <2>1, <2>2 DEF OneMover, Mover, Steps, Switching, Painting, Leaving
      <3>3. JobsOK'
        <4>1. SwitchOK(t)' /\ PaintOK(t)' /\ WriteOK(t)'
          BY <2>1, <2>2 DEF LockWrite, Take, SwitchOK, PaintOK, WriteOK, Switching
        <4>. QED BY <2>2, <4>1, JobsKept DEF LockWrite, Take
      <3>4. PointersOK'
        BY <2>1, <2>2, PointersKept DEF LockWrite, Take
      <3>. QED BY <3>2, <3>3, <3>4 DEF Apart
    <2>. QED BY <2>3, <2>4, <2>5, <2>6, <2>7 DEF IInv
  <1>11. CASE \E t \in Writers : Store(t)
    <2>. PICK t \in Writers : Store(t)
      BY <1>11
    <2>. t \in Tasks
      BY DEF Tasks
    <2>1. job[t] \in Job /\ job[t].at = "store"
      BY DEF Store, At, TypeOK
    <2>2. /\ job' \in [Tasks -> Job] /\ Steps(t)
         /\ job'[t].at = "idle"
      BY <2>1, ConstantsAssumption DEF Store, Becomes, Return, Outside, Steps, TypeOK, Job,
         Buffers, Switching, Painting, Leaving, Writing
    <2>3. TypeOK'
      BY <2>1, <2>2, ConstantsAssumption DEF Store, Give, Return, Outside, TypeOK, Job, Buffers,
         Tasks
    <2>4. LocksHeld'
      <3>1. \A w \in VTs : ~Holds(t, w)' /\ (Holds(t, w) <=> w \in {job[t].new})
        BY <2>1, <2>2 DEF Holds, HoldsOld, HoldsNew
      <3>. QED BY <2>2, <3>1, LocksGiven DEF Store
    <2>5. ModeOK'
      BY <2>1, <2>2, ModeKept DEF Store, Painting, Leaving, Switching
    <2>6. DisplayOK'
      BY <2>1, <2>2, DisplayKept DEF Store, Leaving, Switching
    <2>7. ASSUME overlapped' = {} PROVE Apart'
      <3>. Apart
        BY <2>7 DEF IInv, Store
      <3>. OneMover /\ JobsOK /\ PointersOK /\ SwitchOK(t) /\ PaintOK(t)
        BY DEF Apart, JobsOK
      <3>2. OneMover'
        BY <2>1, <2>2 DEF OneMover, Mover, Steps, Switching, Painting, Leaving
      <3>3. JobsOK'
        <4>1. SwitchOK(t)' /\ PaintOK(t)' /\ WriteOK(t)'
          BY <2>1, <2>2 DEF Store, Give, Return, Outside, SwitchOK, PaintOK, WriteOK, Switching
        <4>. QED BY <2>2, <4>1, JobsKept DEF Store
      <3>4. PointersOK'
        BY <2>1, <2>2, PointersKept DEF Store
      <3>. QED BY <3>2, <3>3, <3>4 DEF Apart
    <2>. QED BY <2>3, <2>4, <2>5, <2>6, <2>7 DEF IInv
  <1>12. CASE \E t \in Painters : Enter(t)
    <2>. PICK t \in Painters : Enter(t)
      BY <1>12
    <2>. t \in Tasks
      BY DEF Tasks
    <2>1. job[t] \in Job /\ job[t].at = "idle"
      BY DEF Enter, At, TypeOK
    <2>2. /\ job' \in [Tasks -> Job] /\ Steps(t)
         /\ job'[t].at = "enter"
         /\ job'[t].old = job[t].old
         /\ job'[t].new = job[t].new
         /\ job'[t].base = job[t].base
      BY <2>1, ConstantsAssumption DEF Enter, Becomes, Goto, Steps, TypeOK, Job, Buffers,
         Switching, Painting, Leaving, Writing
    <2>3. TypeOK'
      BY <2>1, <2>2, ConstantsAssumption DEF Enter, Goto, TypeOK, Job, Buffers, Tasks, Meet
    <2>4. LocksHeld'
      <3>1. \A w \in VTs : Holds(t, w)' <=> Holds(t, w)
        BY <2>1, <2>2 DEF Holds, HoldsOld, HoldsNew
      <3>. QED BY <2>2, <3>1, LocksKept DEF Enter
    <2>5. ModeOK'
      BY <2>1, <2>2, ModeMoved DEF Enter, TypeOK, Leaving, Painting, Switching
    <2>6. DisplayOK'
      BY <2>1, <2>2, DisplayKept DEF Enter, Meet, Leaving, Switching
    <2>7. ASSUME overlapped' = {} PROVE Apart'
      <3>. Apart
        BY <2>7 DEF IInv, Enter, Meet
      <3>. OneMover /\ JobsOK /\ PointersOK /\ SwitchOK(t) /\ PaintOK(t)
        BY DEF Apart, JobsOK
      <3>1. Alone(t)
        BY <2>1, <2>7, ConstantsAssumption DEF Enter, Meet, Busy, Alone, Mover, ModeOK
      <3>2. OneMover'
        BY <2>2, <3>1 DEF OneMover, Mover, Alone, Steps
      <3>3. JobsOK'
        <4>1. SwitchOK(t)' /\ PaintOK(t)' /\ WriteOK(t)'
          BY <2>1, <2>2 DEF Enter, Goto, SwitchOK, PaintOK, WriteOK, Switching, JobsOK
        <4>2. \A u \in Tasks \ {t} : job[u].at = "store" => cells'[job[u].new] = cells[job[u].new]
          BY DEF Enter
        <4>3. graphicsMode' => saved' = active'
          BY <2>1 DEF Enter, JobsOK, SwitchOK, PaintOK, Switching
        <4>. QED BY <2>2, <3>1, <4>1, <4>2, <4>3, JobsMoved
      <3>4. PointersOK'
        BY <2>1, <2>2, PointersKept DEF Enter
      <3>. QED BY <3>2, <3>3, <3>4 DEF Apart
    <2>. QED BY <2>3, <2>4, <2>5, <2>6, <2>7 DEF IInv
  <1>13. CASE \E t \in Painters : ReadActive(t)
    <2>. PICK t \in Painters : ReadActive(t)
      BY <1>13
    <2>. t \in Tasks
      BY DEF Tasks
    <2>1. job[t] \in Job /\ job[t].at = "enter"
      BY DEF ReadActive, At, TypeOK
    <2>2. /\ job' \in [Tasks -> Job] /\ Steps(t)
         /\ job'[t].at = "lockEnter"
         /\ job'[t].old = job[t].old
         /\ job'[t].new = active
         /\ job'[t].base = job[t].base
      BY <2>1, ConstantsAssumption DEF ReadActive, Becomes, Local, Steps, TypeOK, Job, Buffers,
         Switching, Painting, Leaving, Writing
    <2>3. TypeOK'
      BY <2>1, <2>2, ConstantsAssumption DEF ReadActive, Local, TypeOK, Job, Buffers, Tasks
    <2>4. LocksHeld'
      <3>1. \A w \in VTs : Holds(t, w)' <=> Holds(t, w)
        BY <2>1, <2>2 DEF Holds, HoldsOld, HoldsNew
      <3>. QED BY <2>2, <3>1, LocksKept DEF ReadActive, Local
    <2>5. ModeOK'
      BY <2>1, <2>2, ModeKept DEF ReadActive, Local, ModeOK, Painting, Leaving, Switching
    <2>6. DisplayOK'
      BY <2>1, <2>2, DisplayKept DEF ReadActive, Local, Leaving, Switching
    <2>7. ASSUME overlapped' = {} PROVE Apart'
      <3>. Apart
        BY <2>7 DEF IInv, ReadActive, Local
      <3>. OneMover /\ JobsOK /\ PointersOK /\ SwitchOK(t) /\ PaintOK(t)
        BY DEF Apart, JobsOK
      <3>1. Alone(t)
        BY <2>1 DEF OneMover, Alone, Mover, Switching, Painting, Leaving
      <3>2. OneMover'
        BY <2>2, <3>1 DEF OneMover, Mover, Alone, Steps
      <3>3. JobsOK'
        <4>1. SwitchOK(t)' /\ PaintOK(t)' /\ WriteOK(t)'
          BY <2>1, <2>2 DEF ReadActive, Local, SwitchOK, PaintOK, WriteOK, Switching, JobsOK
        <4>. QED BY <2>2, <4>1, JobsKept DEF ReadActive, Local
      <3>4. PointersOK'
        BY <2>1, <2>2, PointersKept DEF ReadActive, Local
      <3>. QED BY <3>2, <3>3, <3>4 DEF Apart
    <2>. QED BY <2>3, <2>4, <2>5, <2>6, <2>7 DEF IInv
  <1>14. CASE \E t \in Painters : LockEnter(t)
    <2>. PICK t \in Painters : LockEnter(t)
      BY <1>14
    <2>. t \in Tasks
      BY DEF Tasks
    <2>1. job[t] \in Job /\ job[t].at = "lockEnter"
      BY DEF LockEnter, At, TypeOK
    <2>2. /\ job' \in [Tasks -> Job] /\ Steps(t)
         /\ job'[t].at = "keep"
         /\ job'[t].old = job[t].old
         /\ job'[t].new = job[t].new
         /\ job'[t].base = job[t].base
      BY <2>1, ConstantsAssumption DEF LockEnter, Becomes, Take, Goto, Steps, TypeOK, Job,
         Buffers, Switching, Painting, Leaving, Writing
    <2>3. TypeOK'
      BY <2>1, <2>2, ConstantsAssumption DEF LockEnter, Take, Goto, TypeOK, Job, Buffers, Tasks
    <2>4. LocksHeld'
      <3>1. \A w \in VTs : Holds(t, w)' <=> Holds(t, w) \/ w = job[t].new
        BY <2>1, <2>2 DEF Holds, HoldsOld, HoldsNew
      <3>2. Take(t, job[t].new) /\ job[t].new \in VTs
        BY <2>1 DEF LockEnter, Job
      <3>. QED BY <2>2, <3>1, <3>2, LockTaken DEF TypeOK
    <2>5. ModeOK'
      BY <2>1, <2>2, ModeKept DEF LockEnter, Take, ModeOK, Painting, Leaving, Switching
    <2>6. DisplayOK'
      BY <2>1, <2>2, DisplayKept DEF LockEnter, Take, Leaving, Switching
    <2>7. ASSUME overlapped' = {} PROVE Apart'
      <3>. Apart
        BY <2>7 DEF IInv, LockEnter, Take
      <3>. OneMover /\ JobsOK /\ PointersOK /\ SwitchOK(t) /\ PaintOK(t)
        BY DEF Apart, JobsOK
      <3>1. Alone(t)
        BY <2>1 DEF OneMover, Alone, Mover, Switching, Painting, Leaving
      <3>2. OneMover'
        BY <2>2, <3>1 DEF OneMover, Mover, Alone, Steps
      <3>3. JobsOK'
        <4>1. SwitchOK(t)' /\ PaintOK(t)' /\ WriteOK(t)'
          BY <2>1, <2>2 DEF LockEnter, Take, Goto, SwitchOK, PaintOK, WriteOK, Switching, JobsOK
        <4>. QED BY <2>2, <4>1, JobsKept DEF LockEnter, Take
      <3>4. PointersOK'
        BY <2>1, <2>2, PointersKept DEF LockEnter, Take
      <3>. QED BY <3>2, <3>3, <3>4 DEF Apart
    <2>. QED BY <2>3, <2>4, <2>5, <2>6, <2>7 DEF IInv
  <1>15. CASE \E t \in Painters : KeepScreen(t)
    <2>. PICK t \in Painters : KeepScreen(t)
      BY <1>15
    <2>. t \in Tasks
      BY DEF Tasks
    <2>1. job[t] \in Job /\ job[t].at = "keep"
      BY DEF KeepScreen, At, TypeOK
    <2>2. /\ job' \in [Tasks -> Job] /\ Steps(t)
         /\ job'[t].at = "kept"
         /\ job'[t].old = job[t].old
         /\ job'[t].new = job[t].new
         /\ job'[t].base = job[t].base
      BY <2>1, ConstantsAssumption DEF KeepScreen, Becomes, Goto, Steps, TypeOK, Job, Buffers,
         Switching, Painting, Leaving, Writing
    <2>3. TypeOK'
      BY <2>1, <2>2, ConstantsAssumption DEF KeepScreen, Give, Goto, TypeOK, Job, Buffers, Tasks
    <2>4. LocksHeld'
      <3>1. \A w \in VTs : ~Holds(t, w)' /\ (Holds(t, w) <=> w \in {job[t].new})
        BY <2>1, <2>2 DEF Holds, HoldsOld, HoldsNew
      <3>. QED BY <2>2, <3>1, LocksGiven DEF KeepScreen
    <2>5. ModeOK'
      BY <2>1, <2>2, ModeKept DEF KeepScreen, ModeOK, Painting, Leaving, Switching
    <2>6. DisplayOK'
      BY <2>1, <2>2, DisplayKept DEF KeepScreen, Leaving, Switching
    <2>7. ASSUME overlapped' = {} PROVE Apart'
      <3>. Apart
        BY <2>7 DEF IInv, KeepScreen
      <3>. OneMover /\ JobsOK /\ PointersOK /\ SwitchOK(t) /\ PaintOK(t)
        BY DEF Apart, JobsOK
      <3>1. Alone(t)
        BY <2>1 DEF OneMover, Alone, Mover, Switching, Painting, Leaving
      <3>2. OneMover'
        BY <2>2, <3>1 DEF OneMover, Mover, Alone, Steps
      <3>3. JobsOK'
        <4>1. SwitchOK(t)' /\ PaintOK(t)' /\ WriteOK(t)'
          BY <2>1, <2>2 DEF KeepScreen, Give, Goto, SwitchOK, PaintOK, WriteOK, Switching, JobsOK
        <4>. QED BY <2>2, <4>1, JobsKept DEF KeepScreen
      <3>4. PointersOK'
        BY <2>1, <2>2, PointersKept DEF KeepScreen
      <3>. QED BY <3>2, <3>3, <3>4 DEF Apart
    <2>. QED BY <2>3, <2>4, <2>5, <2>6, <2>7 DEF IInv
  <1>16. CASE \E t \in Painters : Entered(t)
    <2>. PICK t \in Painters : Entered(t)
      BY <1>16
    <2>. t \in Tasks
      BY DEF Tasks
    <2>1. job[t] \in Job /\ job[t].at = "kept"
      BY DEF Entered, At, TypeOK
    <2>2. /\ job' \in [Tasks -> Job] /\ Steps(t)
         /\ job'[t].at = "idle"
      BY <2>1, ConstantsAssumption DEF Entered, Becomes, Return, Outside, Steps, TypeOK, Job,
         Buffers, Switching, Painting, Leaving, Writing
    <2>3. TypeOK'
      BY <2>1, <2>2, ConstantsAssumption DEF Entered, Return, Outside, TypeOK, Job, Buffers, Tasks,
         ModeOK, Painting
    <2>4. LocksHeld'
      <3>1. \A w \in VTs : Holds(t, w)' <=> Holds(t, w)
        BY <2>1, <2>2 DEF Holds, HoldsOld, HoldsNew
      <3>. QED BY <2>2, <3>1, LocksKept DEF Entered
    <2>5. ModeOK'
      BY <2>1, <2>2, ModeKept DEF Entered, Painting, Leaving, Switching
    <2>6. DisplayOK'
      BY <2>1, <2>2, DisplayKept DEF Entered, Leaving, Switching
    <2>7. ASSUME overlapped' = {} PROVE Apart'
      <3>. Apart
        BY <2>7 DEF IInv, Entered
      <3>. OneMover /\ JobsOK /\ PointersOK /\ SwitchOK(t) /\ PaintOK(t)
        BY DEF Apart, JobsOK
      <3>1. Alone(t)
        BY <2>1 DEF OneMover, Alone, Mover, Switching, Painting, Leaving
      <3>2. OneMover'
        BY <2>2, <3>1 DEF OneMover, Mover, Alone, Steps
      <3>3. JobsOK'
        <4>1. SwitchOK(t)' /\ PaintOK(t)' /\ WriteOK(t)'
          BY <2>1, <2>2 DEF Entered, Return, Outside, SwitchOK, PaintOK, WriteOK, Switching, JobsOK
        <4>2. \A u \in Tasks \ {t} : job[u].at = "store" => cells'[job[u].new] = cells[job[u].new]
          BY DEF Entered
        <4>3. graphicsMode' => saved' = active'
          BY <2>1 DEF Entered, JobsOK, SwitchOK, PaintOK, Switching
        <4>. QED BY <2>2, <3>1, <4>1, <4>2, <4>3, JobsMoved
      <3>4. PointersOK'
        BY <2>1, <2>2, PointersKept DEF Entered
      <3>. QED BY <3>2, <3>3, <3>4 DEF Apart
    <2>. QED BY <2>3, <2>4, <2>5, <2>6, <2>7 DEF IInv
  <1>17. CASE \E t \in Painters : Exit(t)
    <2>. PICK t \in Painters : Exit(t)
      BY <1>17
    <2>. t \in Tasks
      BY DEF Tasks
    <2>1. job[t] \in Job /\ job[t].at = "idle"
      BY DEF Exit, At, TypeOK
    <2>2. /\ job' \in [Tasks -> Job] /\ Steps(t)
         /\ job'[t].at = "lockExit"
         /\ job'[t].old = job[t].old
         /\ job'[t].new = saved
         /\ job'[t].base = job[t].base
      BY <2>1, ConstantsAssumption DEF Exit, Becomes, Steps, TypeOK, Job, Buffers, Switching,
         Painting, Leaving, Writing
    <2>3. TypeOK'
      BY <2>1, <2>2, ConstantsAssumption DEF Exit, Becomes, TypeOK, Job, Buffers, Tasks, Meet
    <2>4. LocksHeld'
      <3>1. \A w \in VTs : Holds(t, w)' <=> Holds(t, w)
        BY <2>1, <2>2 DEF Holds, HoldsOld, HoldsNew
      <3>. QED BY <2>2, <3>1, LocksKept DEF Exit, Becomes
    <2>5. ModeOK'
      BY <2>1, <2>2, ModeKept DEF Exit, TypeOK, Switching
    <2>6. DisplayOK'
      BY <2>1, <2>2, DisplayKept DEF Exit, Meet, Leaving, Switching
    <2>7. ASSUME overlapped' = {} PROVE Apart'
      <3>. Apart
        BY <2>7 DEF IInv, Exit, Meet
      <3>. OneMover /\ JobsOK /\ PointersOK /\ SwitchOK(t) /\ PaintOK(t)
        BY DEF Apart, JobsOK
      <3>1. Alone(t)
        BY <2>1, <2>7, ConstantsAssumption DEF Exit, Meet, Busy, Alone, Mover, ModeOK
      <3>2. OneMover'
        BY <2>2, <3>1 DEF OneMover, Mover, Alone, Steps
      <3>3. JobsOK'
        <4>1. SwitchOK(t)' /\ PaintOK(t)' /\ WriteOK(t)'
          BY <2>1, <2>2 DEF Exit, Becomes, SwitchOK, PaintOK, WriteOK, Switching, JobsOK
        <4>. QED BY <2>2, <4>1, JobsKept DEF Exit, Becomes
      <3>4. PointersOK'
        BY <2>1, <2>2, PointersKept DEF Exit, Becomes
      <3>. QED BY <3>2, <3>3, <3>4 DEF Apart
    <2>. QED BY <2>3, <2>4, <2>5, <2>6, <2>7 DEF IInv
  <1>18. CASE \E t \in Painters : LockExit(t)
    <2>. PICK t \in Painters : LockExit(t)
      BY <1>18
    <2>. t \in Tasks
      BY DEF Tasks
    <2>1. job[t] \in Job /\ job[t].at = "lockExit"
      BY DEF LockExit, At, TypeOK
    <2>2. /\ job' \in [Tasks -> Job] /\ Steps(t)
         /\ job'[t].at = "restore"
         /\ job'[t].old = job[t].old
         /\ job'[t].new = job[t].new
         /\ job'[t].base = job[t].base
      BY <2>1, ConstantsAssumption DEF LockExit, Becomes, Take, Goto, Steps, TypeOK, Job,
         Buffers, Switching, Painting, Leaving, Writing
    <2>3. TypeOK'
      BY <2>1, <2>2, ConstantsAssumption DEF LockExit, Take, Goto, TypeOK, Job, Buffers, Tasks
    <2>4. LocksHeld'
      <3>1. \A w \in VTs : Holds(t, w)' <=> Holds(t, w) \/ w = job[t].new
        BY <2>1, <2>2 DEF Holds, HoldsOld, HoldsNew
      <3>2. Take(t, job[t].new) /\ job[t].new \in VTs
        BY <2>1 DEF LockExit, Job
      <3>. QED BY <2>2, <3>1, <3>2, LockTaken DEF TypeOK
    <2>5. ModeOK'
      BY <2>1, <2>2, ModeKept DEF LockExit, Take, ModeOK, Painting, Leaving, Switching
    <2>6. DisplayOK'
      BY <2>1, <2>2, DisplayKept DEF LockExit, Take, Leaving, Switching
    <2>7. ASSUME overlapped' = {} PROVE Apart'
      <3>. Apart
        BY <2>7 DEF IInv, LockExit, Take
      <3>. OneMover /\ JobsOK /\ PointersOK /\ SwitchOK(t) /\ PaintOK(t)
        BY DEF Apart, JobsOK
      <3>1. Alone(t)
        BY <2>1 DEF OneMover, Alone, Mover, Switching, Painting, Leaving
      <3>2. OneMover'
        BY <2>2, <3>1 DEF OneMover, Mover, Alone, Steps
      <3>3. JobsOK'
        <4>1. SwitchOK(t)' /\ PaintOK(t)' /\ WriteOK(t)'
          BY <2>1, <2>2 DEF LockExit, Take, Goto, SwitchOK, PaintOK, WriteOK, Switching, JobsOK
        <4>. QED BY <2>2, <4>1, JobsKept DEF LockExit, Take
      <3>4. PointersOK'
        BY <2>1, <2>2, PointersKept DEF LockExit, Take
      <3>. QED BY <3>2, <3>3, <3>4 DEF Apart
    <2>. QED BY <2>3, <2>4, <2>5, <2>6, <2>7 DEF IInv
  <1>19. CASE \E t \in Painters : Restore(t)
    <2>. PICK t \in Painters : Restore(t)
      BY <1>19
    <2>. t \in Tasks
      BY DEF Tasks
    <2>1. job[t] \in Job /\ job[t].at = "restore"
      BY DEF Restore, At, TypeOK
    <2>2. /\ job' \in [Tasks -> Job] /\ Steps(t)
         /\ job'[t].at = "restored"
         /\ job'[t].old = job[t].old
         /\ job'[t].new = job[t].new
         /\ job'[t].base = job[t].base
      BY <2>1, ConstantsAssumption DEF Restore, Becomes, Goto, Steps, TypeOK, Job, Buffers,
         Switching, Painting, Leaving, Writing
    <2>3. TypeOK'
      BY <2>1, <2>2, ConstantsAssumption DEF Restore, Give, Goto, TypeOK, Job, Buffers, Tasks
    <2>4. LocksHeld'
      <3>1. \A w \in VTs : ~Holds(t, w)' /\ (Holds(t, w) <=> w \in {job[t].new})
        BY <2>1, <2>2 DEF Holds, HoldsOld, HoldsNew
      <3>. QED BY <2>2, <3>1, LocksGiven DEF Restore
    <2>5. ModeOK'
      BY <2>1, <2>2, ModeKept DEF Restore, ModeOK, Painting, Leaving, Switching
    <2>6. DisplayOK'
      BY <2>1, <2>2, RestoreDisplays
    <2>7. ASSUME overlapped' = {} PROVE Apart'
      <3>. Apart
        BY <2>7 DEF IInv, Restore
      <3>. OneMover /\ JobsOK /\ PointersOK /\ SwitchOK(t) /\ PaintOK(t)
        BY DEF Apart, JobsOK
      <3>1. Alone(t)
        BY <2>1 DEF OneMover, Alone, Mover, Switching, Painting, Leaving
      <3>2. OneMover'
        BY <2>2, <3>1 DEF OneMover, Mover, Alone, Steps
      <3>3. JobsOK'
        <4>1. SwitchOK(t)' /\ PaintOK(t)' /\ WriteOK(t)'
          BY <2>1, <2>2 DEF Restore, Give, Goto, SwitchOK, PaintOK, WriteOK, Switching, JobsOK
        <4>2. \A u \in Tasks \ {t} : job[u].at = "store" => cells'[job[u].new] = cells[job[u].new]
          BY <2>1, <2>2, <3>1 DEF Restore, PointersOK, Home, Alone, Mover, Switching, TypeOK,
             Job, PaintOK
        <4>3. graphicsMode' => saved' = active'
          BY <2>1 DEF Restore, JobsOK, SwitchOK, PaintOK, Switching
        <4>. QED BY <2>2, <3>1, <4>1, <4>2, <4>3, JobsMoved
      <3>4. PointersOK'
        <4>1. cells' = cells
          BY <2>1, <2>2, <3>1 DEF Restore, PointersOK, Home, Alone, Mover, Switching, TypeOK,
             Job, PaintOK
        <4>. QED BY <2>1, <2>2, <4>1, PointersKept DEF Restore
      <3>. QED BY <3>2, <3>3, <3>4 DEF Apart
    <2>. QED BY <2>3, <2>4, <2>5, <2>6, <2>7 DEF IInv
  <1>20. CASE \E t \in Painters : Exited(t)
    <2>. PICK t \in Painters : Exited(t)
      BY <1>20
    <2>. t \in Tasks
      BY DEF Tasks
    <2>1. job[t] \in Job /\ job[t].at = "restored"
      BY DEF Exited, At, TypeOK
    <2>2. /\ job' \in [Tasks -> Job] /\ Steps(t)
         /\ job'[t].at = "idle"
      BY <2>1, ConstantsAssumption DEF Exited, Becomes, Return, Outside, Steps, TypeOK, Job,
         Buffers, Switching, Painting, Leaving, Writing
    <2>3. TypeOK'
      BY <2>1, <2>2, ConstantsAssumption DEF Exited, Return, Outside, TypeOK, Job, Buffers, Tasks,
         ModeOK, Painting, Leaving
    <2>4. LocksHeld'
      <3>1. \A w \in VTs : Holds(t, w)' <=> Holds(t, w)
        BY <2>1, <2>2 DEF Holds, HoldsOld, HoldsNew
      <3>. QED BY <2>2, <3>1, LocksKept DEF Exited
    <2>5. ModeOK'
      BY <2>1, <2>2, ModeMoved DEF Exited, TypeOK, Leaving, Painting, Switching
    <2>6. DisplayOK'
      BY <2>1, <2>2, ExitedDisplays
    <2>7. ASSUME overlapped' = {} PROVE Apart'
      <3>. Apart
        BY <2>7 DEF IInv, Exited
      <3>. OneMover /\ JobsOK /\ PointersOK /\ SwitchOK(t) /\ PaintOK(t)
        BY DEF Apart, JobsOK
      <3>1. Alone(t)
        BY <2>1 DEF OneMover, Alone, Mover, Switching, Painting, Leaving
      <3>2. OneMover'
        BY <2>2, <3>1 DEF OneMover, Mover, Alone, Steps
      <3>3. JobsOK'
        <4>1. SwitchOK(t)' /\ PaintOK(t)' /\ WriteOK(t)'
          BY <2>1, <2>2 DEF Exited, Return, Outside, SwitchOK, PaintOK, WriteOK, Switching, JobsOK
        <4>2. \A u \in Tasks \ {t} : job[u].at = "store" => cells'[job[u].new] = cells[job[u].new]
          BY DEF Exited
        <4>3. graphicsMode' => saved' = active'
          BY <2>1 DEF Exited, JobsOK, SwitchOK, PaintOK, Switching
        <4>. QED BY <2>2, <3>1, <4>1, <4>2, <4>3, JobsMoved
      <3>4. PointersOK'
        <4>1. active' = active
          BY <2>1 DEF Exited, JobsOK, PaintOK
        <4>. QED BY <2>1, <2>2, <4>1, PointersKept DEF Exited
      <3>. QED BY <3>2, <3>3, <3>4 DEF Apart
    <2>. QED BY <2>3, <2>4, <2>5, <2>6, <2>7 DEF IInv
  <1>. QED BY <1>u, <1>1, <1>2, <1>3, <1>4, <1>5, <1>6, <1>7, <1>8, <1>9, <1>10, <1>11, <1>12,
     <1>13, <1>14, <1>15, <1>16, <1>17, <1>18, <1>19, <1>20 DEF Next

LEMMA Invariance == Spec => []IInv
  <1>1. IInv /\ [Next]_vars => IInv'
    BY StepKeepsInv
  <1>. QED BY <1>1, InitInv, PTL DEF Spec

-----------------------------------------------------------------------------
(* Every reachable state is well typed, whatever overlaps: cells point to   *)
(* buffers, and the exit of graphics mode always has a terminal to go back *)
(* to.                                                                     *)
THEOREM TypeCorrect == Spec => []TypeOK
  <1>1. IInv => TypeOK
    BY DEF IInv
  <1>. QED BY <1>1, Invariance, PTL

(* The terminal that switches end up on has the display, however many of   *)
(* them overlap and in graphics mode too, unless an exit from graphics     *)
(* mode ever overlapped a switch.                                          *)
THEOREM ActiveIsOnDisplay == Spec => []ActiveOnDisplay
  <1>1. IInv => ActiveOnDisplay
    BY DEF IInv, DisplayOK
  <1>. QED BY <1>1, Invariance, PTL

(* Tasks wait for each other for ever only in a circle of overlapping      *)
(* switches: whoever holds a mutex runs, unless it is a switch that waits  *)
(* for its second one.                                                     *)
THEOREM DeadlockNeedsSwitches == Spec => []OnlySwitchesDeadlock
  <1>1. ASSUME IInv PROVE OnlySwitchesDeadlock
    <2>. Nobody \notin Tasks
      BY ConstantsAssumption DEF Tasks
    <2>. TypeOK /\ LocksHeld /\ ModeOK
      BY <1>1 DEF IInv
    <2>. SUFFICES ASSUME NEW s \in Tasks, Blocked(s), \A t \in Tasks : ~Runs(t)
                  PROVE  overlapped # {} /\ \E ts \in SUBSET Switchers : Circle(ts)
      BY DEF OnlySwitchesDeadlock
    <2> DEFINE ts == {t \in Tasks : At(t, "lockNew")}
    <2>1. ASSUME NEW t \in Tasks, NEW v \in Wanted(t), mutex[v] # Nobody
          PROVE  mutex[v] \in ts /\ Holds(mutex[v], v)
      <3>1. v \in VTs
        BY <2>1 DEF TypeOK, Job, Wanted
      <3>2. mutex[v] \in Tasks /\ Holds(mutex[v], v)
        BY <2>1, <3>1 DEF TypeOK, LocksHeld
      <3>3. job[mutex[v]].at \in HoldsOld \cup HoldsNew /\ ~Runs(mutex[v])
        BY <3>2 DEF Holds
      <3>4. job[mutex[v]].at = "lockNew"
        BY <3>3 DEF Runs, Blocked, Wanted, At, HoldsOld, HoldsNew
      <3>. QED BY <3>2, <3>4 DEF At
    <2>2. ts # {}
      <3>1. PICK v \in Wanted(s) : mutex[v] # Nobody
        BY DEF Blocked
      <3>. QED BY <2>1, <3>1
    <2>3. ASSUME NEW t \in ts
          PROVE  /\ job[t].new \in Wanted(t)
                 /\ mutex[job[t].new] \in ts /\ Holds(mutex[job[t].new], job[t].new)
      <3>1. Wanted(t) = {job[t].new}
        BY DEF Wanted, At
      <3>2. Blocked(t)
        BY DEF Runs, At
      <3>3. mutex[job[t].new] # Nobody
        BY <3>1, <3>2 DEF Blocked
      <3>. QED BY <2>1, <3>1, <3>3
    <2>4. ts \in SUBSET Switchers
      BY DEF At, ModeOK, Switching
    <2>5. Circle(ts)
      BY <2>2, <2>3 DEF Circle
    <2>6. overlapped # {}
      <3>. SUFFICES ASSUME overlapped = {} PROVE FALSE
        OBVIOUS
      <3>1. OneMover /\ JobsOK
        BY <1>1 DEF IInv, Apart
      <3>2. PICK t \in ts : TRUE
        BY <2>2
      <3>3. mutex[job[t].new] = t
        BY <2>3, <3>1 DEF OneMover, Mover, At, Switching
      <3>4. job[t].new = job[t].old
        BY <2>3, <3>3 DEF Holds, HoldsNew, At
      <3>. QED BY <3>1, <3>4 DEF JobsOK, SwitchOK, Switching, At
    <2>. QED BY <2>4, <2>5, <2>6
  <1>. QED BY <1>1, Invariance, PTL

-----------------------------------------------------------------------------
(* The refinement: what the terminals of vterm.h are, in the buffers.      *)

LEMMA SameMode ==
  ASSUME NEW t \in Tasks, Steps(t), UNCHANGED graphicsMode,
         job[t].at \notin {"kept", "restored"}, job'[t].at \notin {"kept", "restored"}
  PROVE  InGraphics' = InGraphics
  <1>1. ASSUME NEW u \in Tasks, NEW a \in {"kept", "restored"}
        PROVE  At(u, a)' <=> At(u, a)
    <2>1. CASE u = t BY <2>1 DEF At
    <2>2. CASE u # t BY <2>2 DEF At, Steps
    <2>. QED BY <2>1, <2>2
  <1>2. (\E u \in Tasks : At(u, "kept")') <=> \E u \in Tasks : At(u, "kept")
    BY <1>1
  <1>3. (\E u \in Tasks : At(u, "restored")') <=> \E u \in Tasks : At(u, "restored")
    BY <1>1
  <1>. QED BY <1>2, <1>3 DEF InGraphics

\* A step that moves no text and changes no mode is a stutter.
LEMMA Quiet ==
  ASSUME NEW t \in Tasks, Steps(t), UNCHANGED <<active, cells, mem, graphicsMode, saved>>,
         job[t].at \notin {"kept", "restored"}, job'[t].at \notin {"kept", "restored"}
  PROVE  UNCHANGED Screens!vars
  <1>1. InGraphics' = InGraphics
    BY SameMode
  <1>. QED BY <1>1 DEF Screens!vars

\* A switch finds the display out of graphics mode.
LEMMA SwitchMode ==
  ASSUME Apart, NEW t \in Tasks, job[t].at \in Switching \cup {"enter", "lockEnter", "keep"}
  PROVE  ~InGraphics /\ Alone(t)
  <1>1. Mover(t) /\ ~graphicsMode
    BY DEF Mover, Apart, JobsOK, SwitchOK, PaintOK, Painting, Leaving
  <1>2. Alone(t)
    BY <1>1 DEF Apart, OneMover, Alone, Mover
  <1>3. \A u \in Tasks : ~At(u, "kept")
    BY <1>2 DEF Alone, Mover, Painting, Leaving, At, Switching
  <1>. QED BY <1>1, <1>2, <1>3 DEF InGraphics

\* Leaving graphics mode is over once a task has restored the screen.
LEMMA ExitMode ==
  ASSUME Apart, NEW t \in Tasks, job[t].at \in {"lockExit", "restore", "restored"}
  PROVE  graphicsMode /\ saved = active /\ Alone(t)
  BY DEF Apart, JobsOK, PaintOK, OneMover, Alone, Mover, Painting, Leaving

(* Each step of the buffers is a step of the terminals, or none: a write   *)
(* happens at its store, a switch when the active terminal changes, the    *)
(* modes at the copies.  Nothing has overlapped, this step included.       *)
LEMMA StepImplements ==
  ASSUME IInv, Next, overlapped' = {} PROVE [Screens!Next]_(Screens!vars)
  <1>. overlapped = {}
    BY DEF Next, StartSwitch, ReadOld, LockOld, LockNew, SaveOld, LoadNew, Activate, EndSwitch,
       StartWrite, LockWrite, Store, Enter, ReadActive, LockEnter, KeepScreen, Entered, Exit,
       LockExit, Restore, Exited, Local, Take, Meet
  <1>. TypeOK /\ LocksHeld /\ ModeOK /\ Apart
    BY DEF IInv
  <1>. OneMover /\ JobsOK /\ PointersOK /\ Iram \notin VTs
    BY ConstantsAssumption DEF Apart
  <1>0. ASSUME NEW t \in Tasks, NEW j, Becomes(t, j)
        PROVE  Steps(t) /\ job'[t] = j
    BY <1>0 DEF Becomes, Steps, TypeOK
  <1>1. ASSUME NEW t \in Tasks,
               \/ StartSwitch(t) \/ ReadOld(t) \/ LockOld(t) \/ LockNew(t) \/ EndSwitch(t)
               \/ StartWrite(t) \/ LockWrite(t)
               \/ ReadActive(t) \/ LockEnter(t) \/ Exit(t) \/ LockExit(t)
        PROVE  UNCHANGED Screens!vars
    <2>1. UNCHANGED <<active, cells, mem, graphicsMode, saved>>
      BY <1>1 DEF StartSwitch, ReadOld, LockOld, LockNew, EndSwitch, StartWrite, LockWrite,
         ReadActive, LockEnter, Exit, LockExit, Local, Take
    <2>2. job[t].at \notin {"kept", "restored"} /\ job'[t].at \notin {"kept", "restored"}
      <3>1. CASE StartSwitch(t) \/ ReadOld(t) \/ StartWrite(t) \/ ReadActive(t) \/ Exit(t)
        <4>0. job[t] \in Job
          BY DEF TypeOK
        <4>1. job[t].at \in {"idle", "compared", "enter"}
          BY <3>1 DEF StartSwitch, ReadOld, StartWrite, ReadActive, Exit, At
        <4>2. CASE StartSwitch(t)
          <5>1. PICK v \in VTs :
                  job' = [job EXCEPT ![t] = [job[t] EXCEPT !.at = "compared", !.new = v]]
            BY <4>2 DEF StartSwitch, Becomes
          <5>. QED BY <4>1, <5>1, <4>0 DEF TypeOK, Job
        <4>3. CASE StartWrite(t)
          <5>1. PICK v \in VTs, x \in Texts :
                  job' = [job EXCEPT ![t] = [job[t] EXCEPT !.at = "lockWrite", !.new = v,
                  !.text = x]]
            BY <4>3 DEF StartWrite, Local, Becomes
          <5>. QED BY <4>1, <5>1, <4>0 DEF TypeOK, Job
        <4>4. CASE ReadOld(t)
          BY <4>0, <4>1, <4>4 DEF ReadOld, Local, Becomes, TypeOK, Job
        <4>5. CASE ReadActive(t)
          BY <4>0, <4>1, <4>5 DEF ReadActive, Local, Becomes, TypeOK, Job
        <4>6. CASE Exit(t)
          <5>1. job' = [job EXCEPT ![t] = [job[t] EXCEPT !.at = "lockExit", !.new = saved]]
            BY <4>6 DEF Exit, Becomes
          <5>. QED BY <4>0, <4>1, <5>1 DEF TypeOK, Job
        <4>. QED BY <3>1, <4>2, <4>3, <4>4, <4>5, <4>6
      <3>2. CASE \/ LockOld(t) \/ LockNew(t) \/ EndSwitch(t)
                 \/ LockWrite(t) \/ LockEnter(t) \/ LockExit(t)
        <4>1. job[t].at \in {"lockOld", "lockNew", "unlock", "lockWrite", "lockEnter", "lockExit"}
          BY <3>2 DEF LockOld, LockNew, EndSwitch, LockWrite, LockEnter, LockExit, At
        <4>2. CASE LockOld(t) \/ LockNew(t) \/ LockEnter(t) \/ LockExit(t)
          BY <4>1, <4>2, <1>0 DEF LockOld, LockNew, LockEnter, LockExit, Goto, TypeOK, Job
        <4>3. CASE EndSwitch(t)
          BY <4>1, <4>3 DEF EndSwitch, Return, Becomes, Outside, TypeOK
        <4>4. CASE LockWrite(t)
          BY <4>1, <4>4 DEF LockWrite, Becomes, TypeOK, Job
        <4>. QED BY <3>2, <4>2, <4>3, <4>4
      <3>. QED BY <1>1, <3>1, <3>2
    <2>3. Steps(t)
      BY <1>1 DEF StartSwitch, ReadOld, LockOld, LockNew, EndSwitch, StartWrite, LockWrite,
         ReadActive, LockEnter, Exit, LockExit, Local, Goto, Return, Becomes, Steps, TypeOK
    <2>. QED BY <2>1, <2>2, <2>3, Quiet
  <1>2. ASSUME NEW t \in Tasks, SaveOld(t) PROVE UNCHANGED Screens!vars
    <2>1. /\ job[t].at = "save" /\ job[t] \in Job
          /\ Steps(t) /\ job'[t].at = "load"
      BY <1>2, <1>0 DEF SaveOld, At, Goto, TypeOK, Job
    <2>2. ~InGraphics /\ Alone(t) /\ InGraphics' = InGraphics
      BY <1>2, <2>1, SwitchMode, SameMode DEF SaveOld, Switching
    <2>3. \A v \in VTs : cells[v] = Home(v)
      BY <2>1, <2>2 DEF PointersOK, Alone, Mover, Switching
    <2>4. job[t].old = active /\ active \in VTs
      BY <2>1 DEF JobsOK, SwitchOK, Switching, TypeOK
    <2>5. \A v \in VTs : mem'[cells'[v]] = mem[cells[v]]
      BY <1>2, <2>3, <2>4 DEF SaveOld, Home, TypeOK, Buffers
    <2>. QED BY <1>2, <2>2, <2>5 DEF SaveOld, Screens!vars
  <1>3. ASSUME NEW t \in Tasks, LoadNew(t) PROVE UNCHANGED Screens!vars
    <2>1. /\ job[t].at = "load" /\ job[t] \in Job
          /\ Steps(t) /\ job'[t].at = "activate"
      BY <1>3, <1>0 DEF LoadNew, At, Goto, TypeOK, Job
    <2>2. ~InGraphics /\ InGraphics' = InGraphics
      BY <1>3, <2>1, SwitchMode, SameMode DEF LoadNew, Switching
    <2>3. \A v \in VTs : cells[v] = v
      BY <2>1 DEF PointersOK
    <2>4. \A v \in VTs : mem'[cells'[v]] = mem[cells[v]]
      BY <1>3, <2>1, <2>3 DEF LoadNew, TypeOK, Job, Buffers
    <2>. QED BY <1>3, <2>2, <2>4 DEF LoadNew, Screens!vars
  <1>4. ASSUME NEW t \in Tasks, Activate(t) PROVE Screens!Switch
    <2>1. /\ job[t].at = "activate" /\ job[t] \in Job
          /\ Steps(t) /\ job'[t].at = "unlock"
      BY <1>4, <1>0 DEF Activate, At, Goto, TypeOK, Job
    <2>2. ~InGraphics /\ InGraphics' = InGraphics
      BY <1>4, <2>1, SwitchMode, SameMode DEF Activate, Switching
    <2>. QED BY <1>4, <2>1, <2>2 DEF Activate, Screens!Switch, Job
  <1>5. ASSUME NEW t \in Tasks, Store(t) PROVE Screens!Write
    <2>1. /\ job[t].at = "store" /\ job[t] \in Job /\ job[t].base = cells[job[t].new]
          /\ Steps(t) /\ job'[t].at = "idle"
      BY <1>5, <1>0 DEF Store, At, Return, Outside, JobsOK, WriteOK, TypeOK
    <2>2. InGraphics' = InGraphics
      BY <1>5, <2>1, SameMode DEF Store
    <2>3. \A v, w \in VTs : v # w => cells[v] # cells[w]
      BY DEF PointersOK, Home, TypeOK
    <2>4. \A v \in VTs : mem'[cells'[v]] = IF v = job[t].new THEN job[t].text ELSE mem[cells[v]]
      BY <1>5, <2>1, <2>3 DEF Store, TypeOK, Job
    <2>5. ASSUME InGraphics
          PROVE  saved \in VTs /\ \A v \in VTs : cells[v] # saved
      <3>1. saved = active /\ \A u \in Tasks : job[u].at \notin Switching
        <4>1. CASE graphicsMode
          BY <4>1 DEF JobsOK, SwitchOK
        <4>2. CASE ~graphicsMode
          <5>1. PICK u \in Tasks : job[u].at = "kept"
            BY <2>5, <4>2 DEF InGraphics, At
          <5>. QED BY <5>1 DEF JobsOK, PaintOK, OneMover, Mover, Painting, Leaving, Switching
        <4>. QED BY <4>1, <4>2
      <3>2. \A v \in VTs : cells[v] = Home(v)
        BY <3>1 DEF PointersOK, Switching
      <3>. QED BY <3>1, <3>2 DEF Home, TypeOK
    <2>6. InGraphics => mem'[saved'] = mem[saved]
      BY <1>5, <2>1, <2>5 DEF Store, TypeOK, Job, Buffers
    <2>7. UNCHANGED <<active, InGraphics, IF InGraphics THEN mem[saved] ELSE Blank>>
      BY <1>5, <2>2, <2>6 DEF Store
    <2>8. job[t].new \in VTs /\ job[t].text \in Texts
      BY <2>1 DEF Job
    <2>. QED BY <2>4, <2>7, <2>8 DEF Screens!Write
  <1>6. ASSUME NEW t \in Painters, t \in Tasks, Enter(t) PROVE UNCHANGED Screens!vars
    <2>1. /\ job[t].at = "idle" /\ ~graphicsMode
          /\ Steps(t) /\ job'[t].at = "enter"
      BY <1>6, <1>0 DEF Enter, At, Goto, TypeOK, Job
    <2>2. Alone(t)
      <3>1. \A u \in Tasks : job[u].at \notin Switching
        BY <1>6 DEF Enter, Meet, Busy
      <3>2. \A u \in Tasks \ {t} : job[u].at \notin Painting
        BY <1>6, ConstantsAssumption DEF ModeOK
      <3>. QED BY <3>1, <3>2 DEF Alone, Mover
    <2>3. ~InGraphics /\ InGraphics' = InGraphics
      <3>1. InGraphics' = InGraphics
        BY <1>6, <2>1, SameMode DEF Enter
      <3>2. \A u \in Tasks : ~At(u, "kept")
        BY <2>1, <2>2 DEF Alone, Mover, Painting, Leaving, At
      <3>. QED BY <2>1, <3>1, <3>2 DEF InGraphics
    <2>. QED BY <1>6, <2>3 DEF Enter, Screens!vars
  <1>7. ASSUME NEW t \in Tasks, KeepScreen(t) PROVE Screens!Enter
    <2>1. /\ job[t].at = "keep" /\ job[t] \in Job /\ job[t].new = active /\ saved = active
          /\ Steps(t) /\ job'[t].at = "kept"
      BY <1>7, <1>0 DEF KeepScreen, At, Goto, JobsOK, PaintOK, TypeOK, Job
    <2>2. ~InGraphics /\ Alone(t)
      BY <2>1, SwitchMode
    <2>3. InGraphics'
      <3>1. \A u \in Tasks : ~At(u, "restored")'
        BY <2>1, <2>2 DEF Alone, Mover, Painting, Leaving, At, Steps
      <3>. QED BY <2>1, <3>1 DEF InGraphics, At
    <2>4. \A v \in VTs : cells[v] = Home(v)
      BY <2>1, <2>2 DEF PointersOK, Alone, Mover, Switching
    <2>5. /\ \A v \in VTs : mem'[cells'[v]] = mem[cells[v]]
          /\ mem'[saved'] = mem[cells[active]]
      BY <1>7, <2>1, <2>4 DEF KeepScreen, Home, TypeOK, Buffers
    <2>. QED BY <1>7, <2>1, <2>2, <2>3, <2>5 DEF KeepScreen, Screens!Enter, TypeOK
  <1>8. ASSUME NEW t \in Tasks, Entered(t) PROVE UNCHANGED Screens!vars
    <2>1. job[t].at = "kept" /\ Steps(t) /\ job'[t].at = "idle"
      BY <1>8, <1>0 DEF Entered, At, Return, Outside
    <2>2. Alone(t)
      BY <2>1 DEF OneMover, Alone, Mover, Painting, Leaving
    <2>3. \A u \in Tasks : ~At(u, "restored") /\ ~At(u, "restored")'
      BY <2>1, <2>2 DEF Alone, Mover, Painting, Leaving, At, Steps
    <2>4. InGraphics /\ InGraphics'
      BY <1>8, <2>1, <2>3 DEF InGraphics, Entered, At
    <2>. QED BY <1>8, <2>4 DEF Entered, Screens!vars
  <1>9. ASSUME NEW t \in Tasks, Restore(t) PROVE Screens!Exit
    <2>1. /\ job[t].at = "restore" /\ job[t] \in Job /\ job[t].new = active
          /\ Steps(t) /\ job'[t].at = "restored"
      BY <1>9, <1>0 DEF Restore, At, Goto, JobsOK, PaintOK, TypeOK, Job
    <2>2. graphicsMode /\ saved = active /\ Alone(t)
      BY <2>1, ExitMode
    <2>3. InGraphics
      BY <2>1, <2>2 DEF InGraphics, At, Alone, Mover, Painting, Leaving
    <2>4. ~InGraphics'
      BY <2>1 DEF InGraphics, At
    <2>5. \A v \in VTs : cells[v] = Home(v)
      BY <2>1, <2>2 DEF PointersOK, Alone, Mover, Switching
    <2>6. \A v \in VTs : mem'[cells'[v]] = IF v = active THEN mem[saved] ELSE mem[cells[v]]
      BY <1>9, <2>1, <2>2, <2>5 DEF Restore, Home, TypeOK, Buffers
    <2>7. UNCHANGED active /\ active \in VTs /\ InGraphics' = FALSE
      BY <1>9, <2>4 DEF Restore, TypeOK, InGraphics
    <2>. QED BY <2>3, <2>6, <2>7 DEF Screens!Exit
  <1>10. ASSUME NEW t \in Tasks, Exited(t) PROVE UNCHANGED Screens!vars
    <2>1. job[t].at = "restored" /\ Steps(t) /\ job'[t].at = "idle"
      BY <1>10, <1>0 DEF Exited, At, Return, Outside
    <2>2. saved = active /\ Alone(t)
      BY <2>1, ExitMode
    <2>3. ~InGraphics
      BY <2>1 DEF InGraphics, At
    <2>4. \A u \in Tasks : ~At(u, "kept")'
      BY <2>1, <2>2 DEF Alone, Mover, Painting, Leaving, At, Steps
    <2>5. ~InGraphics'
      BY <1>10, <2>4 DEF InGraphics, Exited
    <2>6. InGraphics' = InGraphics
      BY <2>3, <2>5 DEF InGraphics
    <2>. QED BY <1>10, <2>2, <2>3, <2>6 DEF Exited, Screens!vars
  <1>. QED
    BY <1>1, <1>2, <1>3, <1>4, <1>5, <1>6, <1>7, <1>8, <1>9, <1>10
    DEF Next, Tasks, Screens!Next

(* However writers interleave with switches and changes of mode, and until *)
(* two of those overlap or a switch comes in graphics mode, each terminal  *)
(* shows what was last written to it, and graphics mode gives back the     *)
(* screen it took: the buffers implement the terminals of vterm.h.         *)
THEOREM TerminalsImplemented == Spec => ScreensKept
  <1>1. Init => Screens!Init
    <2>. SUFFICES ASSUME Init PROVE Screens!Init
      OBVIOUS
    <2>1. \A v \in VTs : mem[cells[v]] = Blank
      BY DEF Init, Buffers
    <2>2. ~InGraphics
      BY DEF Init, InGraphics, At, Outside
    <2>. QED BY <2>1, <2>2 DEF Init, Screens!Init
  <1>2. IInv /\ [Next]_vars => [overlapped' = {} => Screens!Next]_(Screens!vars)
    <2>1. CASE Next /\ IInv
      BY <2>1, StepImplements
    <2>2. CASE UNCHANGED vars
      <3>1. InGraphics' = InGraphics
        BY <2>2 DEF vars, InGraphics, At
      <3>. QED BY <2>2, <3>1 DEF vars, Screens!vars
    <2>. QED BY <2>1, <2>2
  <1>. QED BY <1>1, <1>2, Invariance, PTL DEF Spec, ScreensKept
=============================================================================
