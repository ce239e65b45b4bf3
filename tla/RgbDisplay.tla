----------------------------- MODULE RgbDisplay -----------------------------
(***************************************************************************)
(* The LCD's modes and its vertical sync (breezy_rgb_lcd/rgb_display.c),   *)
(* with the console that rgb_display_set_mode calls back                   *)
(* (my_console_io.c of the s3-waveshare example and the graphics mode of   *)
(* breezy_term/vterm.c, with one terminal).  An app asks for modes and     *)
(* waits for syncs, the panel's interrupt comes between any two of its     *)
(* steps, a command may choose where the console writes.                   *)
(***************************************************************************)
EXTENDS Naturals

CONSTANTS
  Direct,       \* does an app go from one graphics mode straight to another?
  MaxCalls      \* how many calls there are: a bound

Graphics == {"vga13h", "150p"}
Modes == Graphics \cup {"text"}
Outputs == {"both", "lcd", "usb"}
NoFrame == "none"

\* The picture a mode needs: its size, in the order of rgb_display.h.
Pixels(mode) == IF mode = "vga13h" THEN 320 * 200 ELSE 256 * 150

VARIABLES
  sScreenMode,       \* s_screen_mode
  frame,             \* the mode the frame buffer was allocated for, or NoFrame
  dims,              \* the mode s_gfx_width, s_gfx_height and s_gfx_scale are of
  sDisplayBuffer,    \* is the text buffer linked?
  inGraphics,        \* s_graphics_mode_active of vterm.c
  output, saved,     \* s_output_mode and s_saved_output_mode of the console
  chosen,            \* ghost: the output last chosen
  sem, sWaiting,     \* s_vsync_sem and s_waiting_for_vsync
  app,               \* where the app is, and the mode it asked for
  synced,            \* ghost: was there a sync since the wait began?
  timedOut,          \* ghost: did a wait ever time out?
  calls

modeVars == <<sScreenMode, frame, dims, sDisplayBuffer, inGraphics, output, saved, chosen>>
syncVars == <<sem, sWaiting, synced, timedOut>>
vars == <<modeVars, syncVars, app, calls>>

Init ==
  /\ sScreenMode = "text" /\ frame = NoFrame /\ dims = NoFrame
  /\ sDisplayBuffer = TRUE /\ inGraphics = FALSE
  /\ output = "both" /\ saved = "both" /\ chosen = "both"
  /\ sem = 0 /\ sWaiting = FALSE
  /\ app = [at |-> "idle", mode |-> "text"]
  /\ synced = FALSE /\ timedOut = FALSE /\ calls = 0

At(label) == app.at = label
Goto(label) == app' = [app EXCEPT !.at = label]

-----------------------------------------------------------------------------
\* rgb_display_set_mode.
SetMode(m) ==
  /\ At("idle") /\ calls < MaxCalls /\ m # sScreenMode
  /\ m \in Graphics /\ sScreenMode \in Graphics => Direct
  /\ app' = [at |-> IF m = "text" THEN "leave" ELSE "enter", mode |-> m]
  /\ calls' = calls + 1
  /\ UNCHANGED <<modeVars, syncVars>>

\* enter_graphics: vterm_enter_graphics_mode and the console's output.
Enter ==
  /\ At("enter") /\ Goto("allocate")
  /\ inGraphics' = TRUE
  /\ saved' = output /\ output' = "gfx"
  /\ UNCHANGED <<sScreenMode, frame, dims, sDisplayBuffer, chosen, syncVars, calls>>

\* allocate_graphics_framebuffer: nothing to do if there is a buffer.
Allocate ==
  /\ At("allocate")
  /\ dims' = IF frame = NoFrame THEN app.mode ELSE dims
  /\ Goto(IF frame = NoFrame THEN "buffer" ELSE "show")
  /\ UNCHANGED <<sScreenMode, frame, sDisplayBuffer, inGraphics, output, saved, chosen, syncVars,
                 calls>>

Allocated ==
  /\ At("buffer") /\ Goto("show")
  /\ frame' = app.mode
  /\ UNCHANGED <<sScreenMode, dims, sDisplayBuffer, inGraphics, output, saved, chosen, syncVars,
                 calls>>

\* No memory: exit_graphics, as when the text mode comes back.
ConsoleBack == inGraphics' = FALSE /\ output' = saved

NotAllocated ==
  /\ At("buffer") /\ Goto("idle")
  /\ ConsoleBack
  /\ UNCHANGED <<sScreenMode, frame, dims, sDisplayBuffer, saved, chosen, syncVars, calls>>

Show ==
  /\ At("show") /\ Goto("unlink")
  /\ sScreenMode' = app.mode
  /\ UNCHANGED <<frame, dims, sDisplayBuffer, inGraphics, output, saved, chosen, syncVars, calls>>

Unlink ==
  /\ At("unlink") /\ Goto("idle")
  /\ sDisplayBuffer' = FALSE
  /\ UNCHANGED <<sScreenMode, frame, dims, inGraphics, output, saved, chosen, syncVars, calls>>

Leave ==
  /\ At("leave") /\ Goto("free")
  /\ sScreenMode' = "text"
  /\ UNCHANGED <<frame, dims, sDisplayBuffer, inGraphics, output, saved, chosen, syncVars, calls>>

Free ==
  /\ At("free") /\ Goto("restore")
  /\ frame' = NoFrame
  /\ UNCHANGED <<sScreenMode, dims, sDisplayBuffer, inGraphics, output, saved, chosen, syncVars,
                 calls>>

\* exit_graphics.
Restore ==
  /\ At("restore") /\ Goto("link")
  /\ ConsoleBack
  /\ UNCHANGED <<sScreenMode, frame, dims, sDisplayBuffer, saved, chosen, syncVars, calls>>

\* get_text_buffer and flush_input.
Link ==
  /\ At("link") /\ Goto("idle")
  /\ sDisplayBuffer' = TRUE
  /\ UNCHANGED <<sScreenMode, frame, dims, inGraphics, output, saved, chosen, syncVars, calls>>

\* my_console_set_output_mode, by a command in the text mode.
SetOutput(o) ==
  /\ At("idle") /\ sScreenMode = "text" /\ calls < MaxCalls
  /\ output' = o /\ chosen' = o
  /\ calls' = calls + 1
  /\ UNCHANGED <<sScreenMode, frame, dims, sDisplayBuffer, inGraphics, saved, syncVars, app>>

-----------------------------------------------------------------------------
\* rgb_display_wait_vsync.
Wait ==
  /\ At("idle") /\ calls < MaxCalls /\ sScreenMode \in Graphics
  /\ Goto("waiting")
  /\ sWaiting' = TRUE /\ synced' = FALSE
  /\ calls' = calls + 1
  /\ UNCHANGED <<modeVars, sem, timedOut>>

Woken ==
  /\ At("waiting") /\ sem = 1 /\ Goto("idle")
  /\ sem' = 0
  /\ UNCHANGED <<modeVars, sWaiting, synced, timedOut, calls>>

TimeOut ==
  /\ At("waiting") /\ sem = 0 /\ Goto("idle")
  /\ timedOut' = TRUE
  /\ UNCHANGED <<modeVars, sem, sWaiting, synced, calls>>

\* The interrupt gives the semaphore whether or not somebody asked for it.
MutantOnVsync ==
  /\ sem' = 1 /\ sWaiting' = FALSE
  /\ synced' = TRUE
  /\ UNCHANGED <<modeVars, timedOut, app, calls>>

\* on_vsync.
OnVsync ==
  /\ IF sWaiting THEN sem' = 1 /\ sWaiting' = FALSE ELSE UNCHANGED <<sem, sWaiting>>
  /\ synced' = TRUE
  /\ UNCHANGED <<modeVars, timedOut, app, calls>>

Next ==
  \/ \E m \in Modes : SetMode(m)
  \/ Enter \/ Allocate \/ Allocated \/ NotAllocated \/ Show \/ Unlink
  \/ Leave \/ Free \/ Restore \/ Link
  \/ \E o \in Outputs : SetOutput(o)
  \/ Wait \/ Woken \/ TimeOut \/ OnVsync

Spec == Init /\ [][Next]_vars

-----------------------------------------------------------------------------
(* "Exit graphics mode: restore text buffer and console routing"           *)
(* (rgb_display.h:36): in the text mode the display has the text and the   *)
(* console writes where it was told to, in a graphics mode neither.        *)
ConsoleRestored ==
  At("idle") =>
    /\ output = (IF sScreenMode = "text" THEN chosen ELSE "gfx")
    /\ inGraphics = (sScreenMode \in Graphics)
    /\ sDisplayBuffer = (sScreenMode = "text")

(* The interrupt never draws beyond the frame buffer: the sizes it draws   *)
(* with are no larger than the buffer that is there (on_bounce_empty).     *)
DrawsInside ==
  sScreenMode \in Graphics /\ frame # NoFrame => Pixels(dims) <= Pixels(frame)

(* A wait that no earlier one spoiled by timing out comes back from a sync *)
(* that came after it began.                                               *)
WaitsForSync == At("waiting") /\ sem = 1 /\ ~timedOut => synced

DisplayKept == ConsoleRestored /\ DrawsInside /\ WaitsForSync
=============================================================================
