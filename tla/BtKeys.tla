------------------------------- MODULE BtKeys -------------------------------
(***************************************************************************)
(* The Bluetooth keyboard's reports (breezy_bt/bt_keyboard.c): a report    *)
(* lists the keys that are down; process_key_report makes of it the state  *)
(* that games poll and the characters of the keys that were not in the     *)
(* report before.  A report comes as an event of esp_hidh or, from a       *)
(* keyboard without the Protocol Mode characteristic, which esp_hidh is    *)
(* deaf to, as a notification.                                             *)
(*                                                                         *)
(* The keyboard and the link are external.                                 *)
(***************************************************************************)
EXTENDS Integers, Sequences, FiniteSets, SequencesExt

CONSTANTS
  Letters,       \* keys with a small letter, a capital and a control character
  Signs,         \* keys with another character when shifted
  Specials,      \* keys that send an escape sequence
  Mute,          \* keys without a character
  MaxPresses,    \* how many presses there are: a bound
  MaxWire        \* how many reports may be under way: a bound

Keys == Letters \cup Signs \cup Specials \cup Mute
NoKey == "none"
Mods == {"shift", "ctrl"}

VARIABLES
  sKeyState, sModState,    \* what games poll
  sLastKeys,               \* the keys of the last report
  sUseInputEvent,          \* s_use_input_event
  sKbdNotifyHandle,        \* is the keyboard's handle known?
  typed,                   \* the characters delivered, ghost
  keyboard,                \* external: its slots, its modifiers, its format
                           \* and whether it has Protocol Mode
  link,                    \* external: "down", "up", "open" (dev_open returned)
  wire,                    \* the reports under way
  known, due, fresh,       \* ghosts: what the host has been told is down, what
                           \* should have been typed, was it told since "open"?
  presses

vars == <<sKeyState, sModState, sLastKeys, sUseInputEvent, sKbdNotifyHandle, typed,
          keyboard, link, wire, known, due, fresh, presses>>
hostVars == <<sKeyState, sModState, sLastKeys, typed>>

NoKeys == [i \in 1 .. 6 |-> NoKey]

Init ==
  /\ sKeyState = {} /\ sModState = {} /\ sLastKeys = NoKeys
  /\ sUseInputEvent = TRUE /\ sKbdNotifyHandle = FALSE
  /\ typed = <<>>
  /\ keyboard \in [down : {<<>>}, mods : {{}}, padded : BOOLEAN, protocolMode : BOOLEAN]
  /\ link = "down" /\ wire = <<>>
  /\ known = {} /\ due = <<>> /\ fresh = FALSE /\ presses = 0

-----------------------------------------------------------------------------
\* handle_special_key and the two key maps.
Character(key, mods) ==
  IF key \in Letters THEN <<key, IF "shift" \in mods THEN "capital"
                                 ELSE IF "ctrl" \in mods THEN "control" ELSE "small">>
  ELSE IF key \in Signs THEN <<key, IF "shift" \in mods THEN "shifted" ELSE "plain">>
  ELSE <<key, "sequence">>
Sounds(keys, mods) ==
  LET heard == SelectSeq(keys, LAMBDA k : k \in Keys \ Mute)
  IN  [i \in DOMAIN heard |-> Character(heard[i], mods)]

\* Bytes from data[1] on: a report of eight has a byte of padding.
MutantKeysOf(data) ==
  LET start == 3
  IN  [i \in 1 .. 6 |-> IF start + i - 1 <= Len(data) THEN data[start + i - 1] ELSE NoKey]

KeysOf(data) ==
  LET start == IF Len(data) = 8 THEN 3 ELSE 2
  IN  [i \in 1 .. 6 |-> IF start + i - 1 <= Len(data) THEN data[start + i - 1] ELSE NoKey]

ProcessKeyReport(data) ==
  LET mods == data[1]
      keys == KeysOf(data)
      new == SelectSeq(keys, LAMBDA k : k # NoKey /\ k \notin ToSet(sLastKeys))
  IN  /\ sModState' = mods
      /\ sKeyState' = ToSet(keys) \ {NoKey}
      /\ typed' = typed \o Sounds(new, mods)
      /\ sLastKeys' = keys

-----------------------------------------------------------------------------
\* What the keyboard reports when its keys or modifiers become k and m.  Until
\* it is open its reports are nobody's.
Report(k, m) ==
  LET slots == k \o [i \in 1 .. 6 - Len(k) |-> NoKey]
      sent == link = "open" \/ (link = "up" /\ keyboard.protocolMode)
      new == SelectSeq(k, LAMBDA key : key \notin known)
  IN  /\ keyboard' = [keyboard EXCEPT !.down = k, !.mods = m]
      /\ wire' = IF sent THEN Append(wire, (IF keyboard.padded THEN <<m, NoKey>> ELSE <<m>>) \o slots)
                 ELSE wire
      /\ known' = IF sent THEN ToSet(k) ELSE known
      /\ due' = IF sent THEN due \o Sounds(new, m) ELSE due
      /\ fresh' = (fresh \/ sent)

Room == Len(wire) < MaxWire

Press(key) ==
  /\ key \notin ToSet(keyboard.down) /\ Len(keyboard.down) < 2
  /\ presses < MaxPresses /\ Room
  /\ presses' = presses + 1
  /\ \E at \in 1 .. Len(keyboard.down) + 1 :
       Report(InsertAt(keyboard.down, at, key), keyboard.mods)
  /\ UNCHANGED <<hostVars, sUseInputEvent, sKbdNotifyHandle, link>>

Release(key) ==
  /\ key \in ToSet(keyboard.down) /\ Room
  /\ Report(SelectSeq(keyboard.down, LAMBDA k : k # key), keyboard.mods)
  /\ UNCHANGED <<hostVars, sUseInputEvent, sKbdNotifyHandle, link, presses>>

Modify(m) ==
  /\ presses < MaxPresses /\ Room
  /\ Report(keyboard.down, (keyboard.mods \cup {m}) \ (keyboard.mods \cap {m}))
  /\ presses' = presses + 1
  /\ UNCHANGED <<hostVars, sUseInputEvent, sKbdNotifyHandle, link>>

\* ESP_HIDH_INPUT_EVENT or BLE_GAP_EVENT_NOTIFY_RX, as the keyboard's kind and
\* s_use_input_event have it.
Receive ==
  /\ wire # <<>>
  /\ wire' = Tail(wire)
  /\ IF keyboard.protocolMode
     THEN /\ IF sUseInputEvent THEN ProcessKeyReport(Head(wire)) ELSE UNCHANGED hostVars
          /\ UNCHANGED sKbdNotifyHandle
     ELSE IF sUseInputEvent THEN UNCHANGED <<hostVars, sKbdNotifyHandle>>
     ELSE /\ sKbdNotifyHandle' = (sKbdNotifyHandle \/ Len(Head(wire)) >= 7)
          /\ IF sKbdNotifyHandle' THEN ProcessKeyReport(Head(wire)) ELSE UNCHANGED hostVars
  /\ UNCHANGED <<sUseInputEvent, keyboard, link, known, due, fresh, presses>>

LinkUp ==
  /\ link = "down" /\ link' = "up"
  /\ UNCHANGED <<hostVars, sUseInputEvent, sKbdNotifyHandle, keyboard, wire, known, due, fresh,
                 presses>>

\* connect_task, when esp_hidh_dev_open returns.
Opened ==
  /\ link = "up" /\ link' = "open"
  /\ sUseInputEvent' = keyboard.protocolMode
  /\ UNCHANGED <<hostVars, sKbdNotifyHandle, keyboard, wire, known, due, fresh, presses>>

\* BLE_GAP_EVENT_DISCONNECT.  What was under way is lost; the keys and the
\* modifiers of the last report stay as they were.
LinkLost ==
  /\ link # "down"
  /\ link' = "down" /\ wire' = <<>>
  /\ sUseInputEvent' = TRUE /\ sKbdNotifyHandle' = FALSE
  /\ known' = ToSet(sLastKeys) \ {NoKey} /\ due' = typed /\ fresh' = FALSE
  /\ UNCHANGED <<hostVars, keyboard, presses>>

Next ==
  \/ \E k \in Keys : Press(k) \/ Release(k)
  \/ \E m \in Mods : Modify(m)
  \/ Receive \/ LinkUp \/ Opened \/ LinkLost

-----------------------------------------------------------------------------
(* When its reports have come, a keyboard that is open and has sent one is *)
(* as games see it, and every key has typed its character once per press,  *)
(* whichever path its reports take and in which slots a key moves.  What a *)
(* lost link left pressed is only corrected by the next report.            *)
KeysFollow ==
  wire = <<>> /\ fresh =>
    /\ sKeyState = ToSet(keyboard.down)
    /\ sModState = keyboard.mods
    /\ typed = due
=============================================================================
