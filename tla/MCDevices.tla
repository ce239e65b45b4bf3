----------------------------- MODULE MCDevices -----------------------------
(***************************************************************************)
(* What an app sees the devices through, in one run: `part` says whether   *)
(* the buffers of three terminals, the input of two, the reports of a      *)
(* Bluetooth keyboard, its connection (with each of the commands and with  *)
(* resets of the controller), the LCD or the SSH server is run.  The       *)
(* buffers are run twice: with calls that overlap in any way, and a blank  *)
(* text only; and with text, as long as no calls overlap (see Bounded).    *)
(* Their variables keep their initial values in the other parts, so that   *)
(* their properties can be checked as they are; those of the others are 0  *)
(* where they are unused.                                                  *)
(***************************************************************************)
EXTENDS Integers, Sequences, VTermSwitch

VARIABLES part,
          typedInto, escBuf, flushing, queue, feeding, late, keys, switches, pending, owed,
          sKeyState, sModState, sLastKeys, sUseInputEvent, sKbdNotifyHandle, typed,
          keyboard, link, wire, known, due, fresh, presses,
          kbd, nvs, notified, timer, at, seen, radio, events,
          sScreenMode, frame, dims, sDisplayBuffer, inGraphics, output, savedOutput, chosen,
          sem, sWaiting, app, synced, timedOut, calls,
          task, running, serverTask, sshbind, conn, accepting, live, port, override, sized, eof

\* A letter, Enter and Escape; hotkeys in each form, of a
\* terminal there is not too; and keys whose sequences begin as a hotkey's do.
Text(bytes) == [bytes |-> bytes, text |-> bytes]
Hotkey(bytes) == [bytes |-> bytes, text |-> <<>>]
TypedKeys ==
  {Text(<<"x">>), [bytes |-> <<"cr">>, text |-> <<"nl">>], Text(<<"esc">>),
   Text(<<"esc", "[", "0", "n">>),
   Text(<<"esc", "[", "1", "5", "~">>), Text(<<"esc", "[", "5", "0", ";", "6", "u">>),
   Text(<<"esc", "[", "1", "1", "1", "1", "1", "1", "1", "1", "1">>),
   Hotkey(<<"esc", "O", "P">>), Hotkey(<<"esc", "O", "5", "Q">>), Hotkey(<<"esc", "O", "R">>),
   Hotkey(<<"esc", "[", "1", ";", "5", "Q">>), Hotkey(<<"esc", "[", "1", "2", "~">>),
   Hotkey(<<"esc", "[", "5", "0", ";", "5", "u">>)}
Input == INSTANCE VTermInput WITH
  Terminals <- {0, 1}, QueueSize <- 7, Keys <- TypedKeys, MaxKeys <- 2, MaxSwitches <- 2,
  active <- typedInto

Reports == INSTANCE BtKeys WITH
  Letters <- {"a"}, Signs <- {"1"}, Specials <- {"up"}, Mute <- {"volume"},
  MaxPresses <- 3, MaxWire <- 2

Saved == INSTANCE BtKeyboard WITH
  Keyboards <- {"k"}, None <- "none", Calls <- {"clear"}, Resets <- FALSE, MaxEvents <- 2,
  DelaysSuffice <- TRUE
Scanned == INSTANCE BtKeyboard WITH
  Keyboards <- {"k"}, None <- "none", Calls <- {"scan"}, Resets <- FALSE, MaxEvents <- 2,
  DelaysSuffice <- TRUE
Asked == INSTANCE BtKeyboard WITH
  Keyboards <- {"k"}, None <- "none", Calls <- {"connect"}, Resets <- FALSE, MaxEvents <- 2,
  DelaysSuffice <- FALSE
Shaken == INSTANCE BtKeyboard WITH
  Keyboards <- {"k"}, None <- "none", Calls <- {}, Resets <- TRUE, MaxEvents <- 2,
  DelaysSuffice <- TRUE

Display == INSTANCE RgbDisplay WITH Direct <- FALSE, MaxCalls <- 5, saved <- savedOutput

Sessions == INSTANCE SshServer WITH
  Tasks <- {"t1", "t2"}, Handles <- 1 .. 4, Console <- "console", None <- None,
  Starters <- {"console"}, Stoppers <- {}, at <- task
Stopped == INSTANCE SshServer WITH
  Tasks <- {"t1", "t2"}, Handles <- 1 .. 4, Console <- "console", None <- None,
  Starters <- {"console"}, Stoppers <- {"console"}, at <- task

InputVars == <<typedInto, escBuf, flushing, queue, feeding, late, keys, switches, pending, owed>>
ReportVars == <<sKeyState, sModState, sLastKeys, sUseInputEvent, sKbdNotifyHandle, typed,
                keyboard, link, wire, known, due, fresh, presses>>
LinkVars == <<kbd, nvs, notified, timer, at, seen, radio, events>>
DisplayVars == <<sScreenMode, frame, dims, sDisplayBuffer, inGraphics, output, savedOutput, chosen,
                 sem, sWaiting, app, synced, timedOut, calls>>
ServerVars == <<task, running, serverTask, sshbind, conn, accepting, live, port, override, sized, eof>>
MCVars == <<part, vars, InputVars, ReportVars, LinkVars, DisplayVars, ServerVars>>

NoInput == /\ typedInto = 0 /\ escBuf = 0 /\ flushing = 0 /\ queue = 0 /\ feeding = 0
           /\ late = 0 /\ keys = 0 /\ switches = 0 /\ pending = 0 /\ owed = 0
NoReports == /\ sKeyState = 0 /\ sModState = 0 /\ sLastKeys = 0 /\ sUseInputEvent = 0
             /\ sKbdNotifyHandle = 0 /\ typed = 0 /\ keyboard = 0 /\ link = 0 /\ wire = 0
             /\ known = 0 /\ due = 0 /\ fresh = 0 /\ presses = 0
NoLink == /\ kbd = 0 /\ nvs = 0 /\ notified = 0 /\ timer = 0 /\ at = 0 /\ seen = 0 /\ radio = 0
          /\ events = 0
NoDisplay == /\ sScreenMode = 0 /\ frame = 0 /\ dims = 0 /\ sDisplayBuffer = 0 /\ inGraphics = 0
             /\ output = 0 /\ savedOutput = 0 /\ chosen = 0 /\ sem = 0 /\ sWaiting = 0 /\ app = 0
             /\ synced = 0 /\ timedOut = 0 /\ calls = 0
NoServer == /\ task = 0 /\ running = 0 /\ serverTask = 0 /\ sshbind = 0 /\ conn = 0 /\ accepting = 0
            /\ live = 0 /\ port = 0 /\ override = 0 /\ sized = 0 /\ eof = 0

Links == {"saved", "scanned", "asked", "shaken"}
Servers == {"sessions", "stops"}

MCInit ==
  /\ part \in {"overlaps", "screens", "input", "reports", "display"} \cup Links \cup Servers
  /\ Init
  /\ IF part = "input" THEN Input!Init ELSE NoInput
  /\ IF part = "reports" THEN Reports!Init ELSE NoReports
  /\ IF part \in Links THEN Saved!Init ELSE NoLink
  /\ IF part = "display" THEN Display!Init ELSE NoDisplay
  /\ IF part \in Servers THEN Sessions!Init ELSE NoServer

Only(name) == part = name /\ UNCHANGED part
Besides(used) ==
  /\ used # "buffers" => UNCHANGED vars
  /\ used # "input" => UNCHANGED InputVars
  /\ used # "reports" => UNCHANGED ReportVars
  /\ used # "link" => UNCHANGED LinkVars
  /\ used # "display" => UNCHANGED DisplayVars
  /\ used # "server" => UNCHANGED ServerVars

(* The bounds of the buffers.  What the terminals show is a matter of the  *)
(* histories without an overlap only (ScreensKept), and the pointers and   *)
(* the mutexes do not depend on it.                                        *)
Bounded ==
  /\ part = "overlaps" => \A t \in Tasks : job'[t].text = Blank
  /\ part = "screens" => overlapped' = {}

MCNext ==
  \/ (Only("overlaps") \/ Only("screens")) /\ Next /\ Bounded /\ Besides("buffers")
  \/ Only("input") /\ Input!Next /\ Besides("input")
  \/ Only("reports") /\ Reports!Next /\ Besides("reports")
  \/ Only("saved") /\ Saved!Next /\ Besides("link")
  \/ Only("scanned") /\ Scanned!Next /\ Besides("link")
  \/ Only("asked") /\ Asked!Next /\ Besides("link")
  \/ Only("shaken") /\ Shaken!Next /\ Besides("link")
  \/ Only("display") /\ Display!Next /\ Besides("display")
  \/ Only("sessions") /\ Sessions!Next /\ Besides("server")
  \/ Only("stops") /\ Stopped!Next /\ Besides("server")

(* Every task of the keyboard's connection runs, the Bluetooth host syncs, *)
(* a link that comes up opens or fails, and the saved keyboard is about.   *)
(* The server's task runs.                                                 *)
Fairness ==
  /\ WF_MCVars(Only("saved") /\ Saved!ConnectTask /\ Besides("link"))
  /\ WF_MCVars(Only("saved") /\ Saved!HostTask /\ Besides("link"))
  /\ WF_MCVars(Only("saved") /\ Saved!EventTask /\ Besides("link"))
  /\ WF_MCVars(Only("saved") /\ Saved!TimerTask /\ Besides("link"))
  /\ WF_MCVars(Only("saved") /\ Saved!AppTask /\ Besides("link"))
  /\ WF_MCVars(Only("saved") /\ Saved!Sync /\ Besides("link"))
  /\ WF_MCVars(Only("saved") /\ Saved!LinkUp /\ Besides("link"))
  /\ WF_MCVars(Only("saved") /\ Saved!DeviceOpened /\ Besides("link"))
  /\ WF_MCVars(Only("saved") /\ Saved!Cancelled /\ Besides("link"))
  /\ SF_MCVars(Only("saved") /\ Saved!Found(kbd.target) /\ Besides("link"))
  /\ WF_MCVars(Only("sessions") /\ (\E t \in {"t1", "t2"} : Sessions!ServerTask(t)) /\ Besides("server"))

MCSpec == MCInit /\ [][MCNext]_MCVars /\ Fairness

(* What is typed arrives, once and in order: bytes of a serial keyboard    *)
(* that are no hotkey at the active terminal (vterm_input_feed), keys of a *)
(* Bluetooth keyboard as characters and as state (process_key_report).     *)
KeysArrive ==
  /\ part = "input" => Input!InputArrives
  /\ part = "reports" => Reports!KeysFollow

(* Once nobody has anything left to do, a saved keyboard is connected or   *)
(* looked for: no order of the tasks leaves the radio off for good         *)
(* (start_background_scan, gap_event_listener, connect_task).              *)
KeepsLooking ==
  /\ part = "saved" => Saved!NeverAdrift /\ Saved!ConnectedHasLink
  /\ part = "scanned" => Scanned!NeverAdrift /\ Scanned!ConnectedHasLink
  /\ part = "asked" => Asked!NeverAdrift /\ Asked!ConnectedHasLink
  /\ part = "shaken" => Shaken!NeverAdrift /\ Shaken!ConnectedHasLink

(* What goes down comes back (connect_task, server_task).  When restarts,   *)
(* lost links and refusals come to an end, the saved keyboard is connected *)
(* at last and stays so.  When an SSH client hangs up, wherever its session *)
(* is, the server frees the connection, so as to accept the next client.   *)
Trouble ==
  \/ part = "saved" /\ Saved!Fault
  \/ part = "sessions" /\ \E t \in {"t1", "t2"} : Sessions!Connected(t)
Recovered ==
  /\ part = "saved" => kbd.connected \/ kbd.target = "none"
  /\ part = "sessions" => ~(eof /\ conn.session # None)
Recovers == []<><<Trouble>>_MCVars \/ <>[]Recovered

(* An app that comes back to the text mode leaves the console as it was,   *)
(* what the interrupt draws is inside the frame buffer, and a wait for the *)
(* vertical sync waits for one (rgb_display_set_mode, on_vsync).  An SSH    *)
(* session, however it ends, leaves the console and libssh as it found     *)
(* them, and a server stopped from the console, in whatever state, can be  *)
(* started again (handle_session, ssh_server_stop).                        *)
ConsoleKept ==
  /\ part = "display" => Display!DisplayKept
  /\ part = "sessions" => Sessions!SessionsLeaveNothing
  /\ part = "stops" => Stopped!StartsAgain
=============================================================================
