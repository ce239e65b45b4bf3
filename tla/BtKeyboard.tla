----------------------------- MODULE BtKeyboard -----------------------------
(***************************************************************************)
(* The Bluetooth keyboard's connection (breezy_bt/bt_keyboard.c): the      *)
(* connect task, the callbacks of the Bluetooth host and of esp_hidh, the  *)
(* boot timer and the btscan, btconnect and btclear commands share a dozen *)
(* flags without a lock, and between them must keep looking for the saved  *)
(* keyboard until it is connected.                                         *)
(*                                                                         *)
(* The Bluetooth stack is external: `radio` is what the code can see of    *)
(* it.  A step is what lies between two points where another task, on      *)
(* either core, can make a difference.                                     *)
(***************************************************************************)
EXTENDS Naturals, Sequences

CONSTANTS
  Keyboards,       \* the keyboards about
  None,            \* no address
  Calls,           \* the commands typed, of "scan", "connect", "clear"
  Resets,          \* may the Bluetooth controller reset?
  MaxEvents,       \* how many events of esp_hidh may wait
  DelaysSuffice    \* is a cancelled connection over before the delay is?

VARIABLES
  kbd,        \* the static flags of bt_keyboard.c
  nvs,        \* the address saved in flash
  notified,   \* does the connect task have a notification?
  timer,      \* is the boot timer running?
  at,         \* where each task is
  seen,       \* the advertiser the scan callback is looking at
  radio,      \* the Bluetooth stack
  events      \* what esp_hidh has to tell its callback

vars == <<kbd, nvs, notified, timer, at, seen, radio, events>>

Tasks == {"connect", "host", "events", "app", "timer"}
Discs == {"forever", "timed"}

Flags(saved) ==
  [connected |-> FALSE, encrypted |-> FALSE, scanning |-> FALSE,
   reconnect |-> FALSE, scanOnFail |-> FALSE, pending |-> FALSE,
   connecting |-> FALSE, scanRequested |-> FALSE, target |-> saved]
AllIdle == [t \in Tasks |-> "idle"]
RadioOff == [synced |-> FALSE, air |-> "idle", peer |-> None, link |-> None,
             open |-> FALSE]

\* Flash holds nothing, or the keyboard of an earlier session.
Init ==
  /\ nvs \in Keyboards \cup {None}
  /\ kbd = Flags(nvs)
  /\ notified = FALSE /\ timer = FALSE
  /\ at = AllIdle
  /\ seen = None
  /\ radio = RadioOff
  /\ events = <<>>

Goto(t, label) == at' = [at EXCEPT ![t] = label]
From(t, label, next) == at[t] = label /\ Goto(t, next)

-----------------------------------------------------------------------------
(* The Bluetooth stack, as far as bt_keyboard.c relies on it: one discovery *)
(* or connection attempt at a time, and none before the host has synced.   *)

CancelDisc(r) == [r EXCEPT !.air = IF r.air \in Discs THEN "idle" ELSE r.air]
CancelConn(r) == [r EXCEPT !.air = IF r.air = "conn" THEN "idle" ELSE r.air]
Free == radio.synced /\ radio.air = "idle"

-----------------------------------------------------------------------------
(* start_background_scan, which four tasks call.                           *)

MayScan == ~kbd.connected /\ ~kbd.scanning /\ kbd.target # None

ScanNotNeeded(t) ==
  /\ From(t, "scan", "idle") /\ ~MayScan
  /\ UNCHANGED <<kbd, nvs, notified, timer, seen, radio, events>>

ScanAtOnce(t) ==
  /\ From(t, "scan", "flags") /\ MayScan /\ ~kbd.connecting
  /\ UNCHANGED <<kbd, nvs, notified, timer, seen, radio, events>>

ScanAfterCancel(t) ==
  /\ From(t, "scan", "cancelled") /\ MayScan /\ kbd.connecting
  /\ radio' = CancelConn(radio)
  /\ UNCHANGED <<kbd, nvs, notified, timer, seen, events>>

ScanDelayed(t) ==
  /\ From(t, "cancelled", "flags")
  /\ DelaysSuffice => ~kbd.connecting
  /\ UNCHANGED <<kbd, nvs, notified, timer, seen, radio, events>>

ScanFlags(t) ==
  /\ From(t, "flags", "disc")
  /\ kbd' = [kbd EXCEPT !.scanning = TRUE, !.reconnect = TRUE]
  /\ UNCHANGED <<nvs, notified, timer, seen, radio, events>>

ScanStarts(t) ==
  /\ From(t, "disc", "idle") /\ Free
  /\ radio' = [radio EXCEPT !.air = "forever"]
  /\ UNCHANGED <<kbd, nvs, notified, timer, seen, events>>

ScanFails(t) ==
  /\ From(t, "disc", "idle") /\ ~Free
  /\ kbd' = [kbd EXCEPT !.scanning = FALSE, !.reconnect = FALSE]
  /\ UNCHANGED <<nvs, notified, timer, seen, radio, events>>

BackgroundScan(t) ==
  \/ ScanNotNeeded(t) \/ ScanAtOnce(t) \/ ScanAfterCancel(t) \/ ScanDelayed(t)
  \/ ScanFlags(t) \/ ScanStarts(t) \/ ScanFails(t)

(* start_general_scan, for fifteen seconds and for any keyboard.           *)
GeneralNotNeeded(t) ==
  /\ From(t, "general", "idle") /\ kbd.connected
  /\ UNCHANGED <<kbd, nvs, notified, timer, seen, radio, events>>

GeneralFlags(t) ==
  /\ From(t, "general", "gdisc") /\ ~kbd.connected
  /\ radio' = IF kbd.scanning THEN CancelDisc(radio) ELSE radio
  /\ kbd' = [kbd EXCEPT !.scanning = TRUE, !.reconnect = FALSE,
                        !.scanOnFail = FALSE]
  /\ UNCHANGED <<nvs, notified, timer, seen, events>>

GeneralStarts(t) ==
  /\ From(t, "gdisc", "idle") /\ Free
  /\ radio' = [radio EXCEPT !.air = "timed"]
  /\ UNCHANGED <<kbd, nvs, notified, timer, seen, events>>

GeneralFails(t) ==
  /\ From(t, "gdisc", "idle") /\ ~Free
  /\ kbd' = [kbd EXCEPT !.scanning = FALSE]
  /\ UNCHANGED <<nvs, notified, timer, seen, radio, events>>

GeneralScan(t) ==
  \/ GeneralNotNeeded(t) \/ GeneralFlags(t) \/ GeneralStarts(t)
  \/ GeneralFails(t)

\* xTaskNotifyGive to the connect task.
Notify(t) ==
  /\ From(t, "notify", "idle")
  /\ notified' = TRUE
  /\ UNCHANGED <<kbd, nvs, timer, seen, radio, events>>

-----------------------------------------------------------------------------
(* connect_task.                                                           *)

\* The request is not taken back: every notification is for a scan.
MutantWakeToScan ==
  /\ at["connect"] = "idle" /\ notified /\ kbd.scanRequested
  /\ notified' = FALSE
  /\ kbd' = [kbd EXCEPT !.pending = FALSE]
  /\ Goto("connect", IF MayScan THEN "scan" ELSE "idle")
  /\ UNCHANGED <<nvs, timer, seen, radio, events>>

WakeToScan ==
  /\ at["connect"] = "idle" /\ notified /\ kbd.scanRequested
  /\ notified' = FALSE
  /\ kbd' = [kbd EXCEPT !.scanRequested = FALSE, !.pending = FALSE]
  /\ Goto("connect", IF MayScan THEN "scan" ELSE "idle")
  /\ UNCHANGED <<nvs, timer, seen, radio, events>>

WakeForNothing ==
  /\ at["connect"] = "idle" /\ notified /\ ~kbd.scanRequested
  /\ ~kbd.pending \/ kbd.connected \/ kbd.target = None
  /\ notified' = FALSE
  /\ kbd' = [kbd EXCEPT !.pending = FALSE]
  /\ UNCHANGED <<nvs, timer, at, seen, radio, events>>

WakeToConnect ==
  /\ From("connect", "idle", "open") /\ notified /\ ~kbd.scanRequested
  /\ kbd.pending /\ ~kbd.connected /\ kbd.target # None
  /\ notified' = FALSE
  /\ radio' = IF kbd.scanning THEN CancelDisc(radio) ELSE radio
  /\ kbd' = [kbd EXCEPT !.scanning = FALSE]
  /\ UNCHANGED <<nvs, timer, seen, events>>

\* esp_hidh_dev_open blocks until the keyboard is open or has failed to.
CanConnect == Free /\ radio.link = None

Open ==
  /\ From("connect", "open", IF CanConnect THEN "opening" ELSE "null")
  /\ kbd' = [kbd EXCEPT !.pending = FALSE, !.encrypted = FALSE,
                        !.connecting = TRUE]
  /\ radio' = IF CanConnect THEN [radio EXCEPT !.air = "conn", !.peer = kbd.target]
              ELSE radio
  /\ UNCHANGED <<nvs, notified, timer, seen, events>>

Opened ==
  /\ From("connect", "device", "idle")
  /\ kbd' = [kbd EXCEPT !.connecting = FALSE]
  /\ UNCHANGED <<nvs, notified, timer, seen, radio, events>>

\* Without this the task waits for a notification nobody will send.
MutantNotOpened ==
  /\ From("connect", "null", "idle")
  /\ kbd' = [kbd EXCEPT !.connecting = FALSE]
  /\ UNCHANGED <<nvs, notified, timer, seen, radio, events>>

NotOpened ==
  /\ From("connect", "null", IF kbd.connected THEN "idle" ELSE "scan")
  /\ kbd' = [kbd EXCEPT !.connecting = FALSE]
  /\ UNCHANGED <<nvs, notified, timer, seen, radio, events>>

ConnectTask ==
  \/ WakeToScan \/ WakeForNothing \/ WakeToConnect
  \/ Open \/ Opened \/ NotOpened
  \/ BackgroundScan("connect")

-----------------------------------------------------------------------------
(* The host task's callbacks: the scan's (scan_event_cb) and the link's    *)
(* (gap_event_listener).                                                   *)

\* A keyboard advertises while it has no link.  Without a HID service in the
\* advertisement, the saved keyboard is still known by its address.
Accepted(k, hid) ==
  \/ kbd.reconnect /\ k = kbd.target
  \/ hid /\ ~(kbd.reconnect /\ k # kbd.target)

Found(k) ==
  /\ From("host", "idle", "found")
  /\ radio.air \in Discs /\ radio.link # k
  /\ \E hid \in BOOLEAN : Accepted(k, hid)
  /\ seen' = k
  /\ radio' = CancelDisc(radio)
  /\ UNCHANGED <<kbd, nvs, notified, timer, events>>

Adopt ==
  /\ From("host", "found", "request")
  /\ kbd' = [kbd EXCEPT !.scanning = FALSE, !.reconnect = FALSE,
                        !.target = seen]
  /\ seen' = None
  /\ UNCHANGED <<nvs, notified, timer, radio, events>>

\* request_connection.
Request ==
  /\ at["host"] = "request"
  /\ IF kbd.connected \/ kbd.target = None \/ kbd.pending
     THEN Goto("host", "idle") /\ UNCHANGED kbd
     ELSE Goto("host", "notify") /\ kbd' = [kbd EXCEPT !.pending = TRUE]
  /\ UNCHANGED <<nvs, notified, timer, seen, radio, events>>

\* BLE_GAP_EVENT_DISC_COMPLETE.
ScanComplete ==
  /\ at["host"] = "complete"
  /\ LET again == ~kbd.connected /\ kbd.target # None
     IN /\ kbd' = [kbd EXCEPT !.scanning = FALSE, !.reconnect = FALSE,
                              !.scanOnFail = kbd.scanOnFail /\ ~again]
        /\ Goto("host", IF ~again THEN "idle"
                        ELSE IF kbd.scanOnFail THEN "general" ELSE "scan")
  /\ UNCHANGED <<nvs, notified, timer, seen, radio, events>>

LinkUp ==
  /\ at["host"] = "idle" /\ radio.air = "conn"
  /\ radio' = [radio EXCEPT !.air = "idle", !.link = radio.peer]
  /\ kbd' = [kbd EXCEPT !.target = radio.peer]
  /\ nvs' = radio.peer
  /\ UNCHANGED <<notified, timer, at, seen, events>>

Encrypted ==
  /\ at["host"] = "idle" /\ radio.link # None
  /\ kbd' = [kbd EXCEPT !.encrypted = TRUE]
  /\ UNCHANGED <<nvs, notified, timer, at, seen, radio, events>>

\* The link breaks.  esp_hidh tells of it if the keyboard was open.
LinkLost ==
  /\ at["host"] = "idle" /\ radio.link # None /\ Len(events) < MaxEvents
  /\ radio' = [radio EXCEPT !.link = None, !.open = FALSE]
  /\ kbd' = [kbd EXCEPT !.connected = FALSE, !.encrypted = FALSE]
  /\ events' = IF radio.open THEN Append(events, "close") ELSE events
  /\ UNCHANGED <<nvs, notified, timer, at, seen>>

HostTask ==
  \/ Adopt \/ Request \/ ScanComplete \/ Notify("host")
  \/ BackgroundScan("host") \/ GeneralScan("host")

-----------------------------------------------------------------------------
(* What the stack does of itself.                                          *)

\* esp_hidh has found the services: dev_open returns the device.
DeviceOpened ==
  /\ From("connect", "opening", "device")
  /\ radio.link # None /\ radio.link = radio.peer /\ Len(events) < MaxEvents
  /\ radio' = [radio EXCEPT !.open = TRUE]
  /\ events' = Append(events, "open")
  /\ UNCHANGED <<kbd, nvs, notified, timer, seen>>

\* dev_open returns NULL: the keyboard refuses or does not answer, or the
\* attempt was cancelled or its link lost.
Fails ==
  /\ From("connect", "opening", "null")
  /\ radio.link = None
  /\ radio' = CancelConn(radio)
  /\ UNCHANGED <<kbd, nvs, notified, timer, seen, events>>
Refused == radio.air = "conn" /\ Fails
Cancelled == radio.air # "conn" /\ Fails

ScanTimeout ==
  /\ From("host", "idle", "complete") /\ radio.air = "timed"
  /\ radio' = [radio EXCEPT !.air = "idle"]
  /\ UNCHANGED <<kbd, nvs, notified, timer, seen, events>>

\* A reset of the controller ends every procedure and link; a discovery is
\* reported complete.
Reset ==
  /\ Resets /\ radio.synced /\ at["host"] = "idle" /\ Len(events) < MaxEvents
  /\ radio' = [radio EXCEPT !.synced = FALSE, !.air = "idle", !.link = None,
                            !.open = FALSE]
  /\ kbd' = IF radio.link = None THEN kbd
            ELSE [kbd EXCEPT !.connected = FALSE, !.encrypted = FALSE]
  /\ events' = IF radio.open THEN Append(events, "close") ELSE events
  /\ Goto("host", IF radio.air \in Discs THEN "complete" ELSE "idle")
  /\ UNCHANGED <<nvs, notified, timer, seen>>

\* on_sync starts the boot timer when there is a keyboard to look for.
Sync ==
  /\ at["host"] = "idle" /\ ~radio.synced
  /\ radio' = [radio EXCEPT !.synced = TRUE]
  /\ timer' = (timer \/ kbd.target # None)
  /\ UNCHANGED <<kbd, nvs, notified, at, seen, events>>

-----------------------------------------------------------------------------
(* hidh_callback and boot_timer_cb.                                        *)

OnOpen ==
  /\ at["events"] = "idle" /\ events # <<>> /\ Head(events) = "open"
  /\ events' = Tail(events)
  /\ kbd' = [kbd EXCEPT !.connected = TRUE]
  /\ UNCHANGED <<nvs, notified, timer, at, seen, radio>>

OnClose ==
  /\ From("events", "idle", "scan") /\ events # <<>> /\ Head(events) = "close"
  /\ events' = Tail(events)
  /\ kbd' = [kbd EXCEPT !.connected = FALSE, !.encrypted = FALSE]
  /\ UNCHANGED <<nvs, notified, timer, seen, radio>>

EventTask == OnOpen \/ OnClose \/ BackgroundScan("events")

TimerFires ==
  /\ at["timer"] = "idle" /\ timer
  /\ timer' = FALSE
  /\ IF ~kbd.connected /\ kbd.target # None
     THEN /\ kbd' = [kbd EXCEPT !.scanRequested = TRUE]
          /\ Goto("timer", "notify")
     ELSE UNCHANGED <<kbd, at>>
  /\ UNCHANGED <<nvs, notified, seen, radio, events>>

TimerTask == TimerFires \/ Notify("timer")

-----------------------------------------------------------------------------
(* The commands: bt_keyboard_scan_ex, bt_keyboard_connect_native and       *)
(* bt_keyboard_clear_bonds.                                                *)

Call(command) ==
  /\ command \in Calls /\ at["app"] = "idle" /\ ~kbd.connected
  /\ command = "connect" => kbd.target # None
  /\ LET stop == IF command = "scan" THEN "stopScan" ELSE "stopConnect"
         later == IF command = "scan" THEN "stopScanLater" ELSE "stopConnectLater"
     IN Goto("app", IF kbd.connecting THEN later ELSE stop)
  /\ radio' = IF kbd.connecting THEN CancelConn(radio) ELSE radio
  /\ UNCHANGED <<kbd, nvs, notified, timer, seen, events>>

CallDelayed ==
  /\ \/ From("app", "stopScanLater", "stopScan")
     \/ From("app", "stopConnectLater", "stopConnect")
  /\ DelaysSuffice => ~kbd.connecting
  /\ UNCHANGED <<kbd, nvs, notified, timer, seen, radio, events>>

ScanAgain ==
  /\ From("app", "stopScan", IF kbd.target = None THEN "general" ELSE "scan")
  /\ radio' = IF kbd.scanning THEN CancelDisc(radio) ELSE radio
  /\ kbd' = [kbd EXCEPT !.scanning = FALSE,
                        !.scanOnFail = kbd.scanOnFail \/ kbd.target # None]
  /\ UNCHANGED <<nvs, notified, timer, seen, events>>

ConnectAgain ==
  /\ From("app", "stopConnect", "notify")
  /\ radio' = IF kbd.scanning THEN CancelDisc(radio) ELSE radio
  /\ kbd' = [kbd EXCEPT !.scanning = FALSE, !.scanRequested = TRUE]
  /\ UNCHANGED <<nvs, notified, timer, seen, events>>

ClearBonds ==
  /\ "clear" \in Calls
  /\ From("app", "idle", "cleared")
  /\ nvs' = None
  /\ UNCHANGED <<kbd, notified, timer, seen, radio, events>>

Forget ==
  /\ From("app", "cleared", "idle")
  /\ kbd' = [kbd EXCEPT !.target = None]
  /\ UNCHANGED <<nvs, notified, timer, seen, radio, events>>

AppTask ==
  \/ CallDelayed \/ ScanAgain \/ ConnectAgain \/ Forget \/ Notify("app")
  \/ BackgroundScan("app") \/ GeneralScan("app")

\* The power goes and comes back.
Restart ==
  /\ kbd' = Flags(nvs)
  /\ notified' = FALSE /\ timer' = FALSE
  /\ at' = AllIdle
  /\ seen' = None
  /\ radio' = RadioOff
  /\ events' = <<>>
  /\ UNCHANGED nvs

-----------------------------------------------------------------------------
\* What nobody can count on, and what may go wrong again and again.
Fault ==
  \/ Restart \/ Reset \/ LinkLost \/ Refused
  \/ \E c \in {"scan", "connect"} : Call(c)
  \/ ClearBonds

Next ==
  \/ ConnectTask \/ HostTask \/ EventTask \/ TimerTask \/ AppTask
  \/ \E k \in Keyboards : Found(k)
  \/ LinkUp \/ Encrypted \/ DeviceOpened \/ Cancelled \/ ScanTimeout \/ Sync
  \/ Fault

Spec == Init /\ [][Next]_vars

\* Every task runs, the host syncs, the link comes up and opens, and the saved
\* keyboard is about.
FairSpec ==
  /\ Spec
  /\ WF_vars(ConnectTask) /\ WF_vars(HostTask) /\ WF_vars(EventTask)
  /\ WF_vars(TimerTask) /\ WF_vars(AppTask)
  /\ WF_vars(Sync) /\ WF_vars(LinkUp) /\ WF_vars(DeviceOpened)
  /\ WF_vars(Cancelled)
  /\ SF_vars(Found(kbd.target))

-----------------------------------------------------------------------------
Labels == {"idle", "scan", "cancelled", "flags", "disc", "general",
           "gdisc", "notify", "open", "opening", "device", "null",
           "found", "request", "complete", "stopScan", "stopScanLater",
           "stopConnect", "stopConnectLater", "cleared"}

(* The flags have their types, and the events fit their queue.             *)
TypeOK ==
  /\ kbd \in [connected: BOOLEAN, encrypted: BOOLEAN, scanning: BOOLEAN,
              reconnect: BOOLEAN, scanOnFail: BOOLEAN, pending: BOOLEAN,
              connecting: BOOLEAN, scanRequested: BOOLEAN,
              target: Keyboards \cup {None}]
  /\ nvs \in Keyboards \cup {None}
  /\ notified \in BOOLEAN /\ timer \in BOOLEAN
  /\ at \in [Tasks -> Labels]
  /\ seen \in Keyboards \cup {None}
  /\ radio \in [synced: BOOLEAN, air: Discs \cup {"idle", "conn"},
                peer: Keyboards \cup {None}, link: Keyboards \cup {None},
                open: BOOLEAN]
  /\ events \in Seq({"open", "close"}) /\ Len(events) <= MaxEvents

\* No task has anything left to do.
Quiet ==
  /\ \A t \in Tasks : at[t] = "idle"
  /\ radio.synced /\ ~notified /\ ~timer /\ events = <<>>

(* No order of the tasks leaves a saved keyboard neither connected nor     *)
(* looked for.                                                             *)
NeverAdrift ==
  TypeOK /\ (Quiet /\ kbd.target # None /\ ~kbd.connected => radio.air \in Discs)

(* bt_keyboard_connected tells the truth once the events have been taken.  *)
ConnectedHasLink == Quiet => (kbd.connected <=> radio.open)

(* When the faults end, the saved keyboard is connected and stays so.      *)
Recovers ==
  []<><<Fault>>_vars \/ <>[](kbd.connected \/ kbd.target = None)
=============================================================================
