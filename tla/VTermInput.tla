----------------------------- MODULE VTermInput -----------------------------
(***************************************************************************)
(* Keyboard input of the virtual terminals (vterm_input_feed and what it   *)
(* calls, breezy_term/vterm.c, and the reading side of vterm_vfs.c): bytes *)
(* are held back while they may still become a hotkey, then go to the      *)
(* active terminal's queue, or switch terminals and go nowhere.  Commands  *)
(* and apps on the other core may switch, read and flush between any two   *)
(* bytes.                                                                  *)
(*                                                                         *)
(* The driver, which feeds the bytes of one key after another, is external.*)
(***************************************************************************)
EXTENDS Integers, Sequences, SequencesExt, TLC

CONSTANTS
  Terminals,    \* 0 .. VTERM_COUNT - 1
  QueueSize,    \* the length of an input queue
  Keys,         \* [bytes, text]: what a key sends and what an app is to read
  MaxKeys,      \* how many keys are typed: a bound
  MaxSwitches   \* how many commands switch terminals: a bound

VARIABLES
  active,       \* s_active_vt
  escBuf,       \* s_esc_buf[0 .. s_esc_len - 1], without what is flushed already
  flushing,     \* is flush_input_buffer in its loop?
  queue,        \* the input queues
  feeding,      \* the bytes of the key that are still to be fed
  late,         \* are more than 20 ms gone since the first byte in escBuf?
  keys,         \* how many keys were typed
  switches,     \* how many commands switched
  pending,      \* auxiliary: [byte, at], what is typed and not let through yet
  owed          \* auxiliary: what the apps of each terminal have yet to read

vars == <<active, escBuf, flushing, queue, feeding, late, keys, switches, pending, owed>>

Init ==
  /\ active = 0 /\ escBuf = <<>> /\ flushing = FALSE
  /\ queue = [v \in Terminals |-> <<>>]
  /\ feeding = <<>> /\ late = FALSE /\ keys = 0 /\ switches = 0
  /\ pending = <<>> /\ owed = [v \in Terminals |-> <<>>]

-----------------------------------------------------------------------------
DigitOf == [c \in {"0","1","2","3","4","5","6","7","8","9"} |->
              CHOOSE d \in 0..9 : ToString(d) = c]
Digit(c) == c \in DOMAIN DigitOf
FKeys == <<"P", "Q", "R", "S">>

\* The decimal number s begins with (0 if none), and what follows it.
Digits(s) == LET i == SelectInSeq(s, LAMBDA c : ~Digit(c))
             IN  IF i = 0 THEN Len(s) ELSE i - 1
Number(s) == FoldLeft(LAMBDA n, c : 10 * n + DigitOf[c], 0, SubSeq(s, 1, Digits(s)))
Rest(s) == SubSeq(s, Digits(s) + 1, Len(s))

\* match_vt_hotkey: the terminals s asks for, none or one.
FKeyAfter(s) ==
  \/ Len(s) >= 3 /\ s[2] = "O" /\ s[3] \in ToSet(FKeys)
  \/ Len(s) >= 4 /\ s[2] = "O" /\ s[3] = "5" /\ s[4] \in ToSet(FKeys)
  \/ Len(s) = 6 /\ SubSeq(s, 2, 5) = <<"[", "1", ";", "5">> /\ s[6] \in ToSet(FKeys)

Hotkeys(s) ==
  LET args == SubSeq(s, 3, Len(s))
      afterFirst == Rest(args)
      modifier == IF afterFirst # <<>> /\ Head(afterFirst) = ";" THEN Number(Tail(afterFirst)) ELSE 0
  IN  {v \in 0 .. 3 :
        /\ Len(s) >= 2 /\ s[1] = "esc"
        /\ \/ FKeyAfter(s) /\ v = (CHOOSE i \in 1 .. 4 : 
                 FKeys[i] = (IF s[2] = "O" /\ s[3] # "5" THEN s[3] ELSE Last(s))) - 1
           \/ /\ Len(s) >= 3 /\ s[2] = "["
              /\ \/ Last(s) = "~" /\ v = Number(args) - 11
                 \/ Last(s) = "u" /\ modifier = 5 /\ v = Number(args) - 49}

Letters == {"A", "P", "Q", "R", "S"}    \* the capitals that keys end with

\* A number may follow ESC O: Ctrl and an F key.
MutantCouldBeHotkey(s) ==
  /\ s # <<>> /\ s[1] = "esc"
  /\ \/ Len(s) = 1
     \/ /\ s[2] \in {"O", "["} /\ Len(s) <= 10
        /\ ~(Len(s) >= 3 /\ (s[2] = "O" \/ Last(s) \in {"~", "u"} \cup Letters))

CouldBeHotkey(s) ==
  /\ s # <<>> /\ s[1] = "esc"
  /\ \/ Len(s) = 1
     \/ /\ s[2] \in {"O", "["} /\ Len(s) <= 10
        /\ ~(Len(s) >= 3 /\ Last(s) \in {"~", "u"} \cup Letters)

\* vterm_send_input to the active terminal: what finds no room is dropped.  The
\* next byte pending is let through, and is owed where it was typed.
Send(c) ==
  /\ IF Len(queue[active]) < QueueSize
     THEN /\ queue' = [queue EXCEPT ![active] = Append(@, c)]
          /\ owed' = [v \in Terminals |-> IF pending # <<>> /\ v = pending[1].at
                                          THEN Append(owed[v], pending[1].byte) ELSE owed[v]]
     ELSE UNCHANGED <<queue, owed>>
  /\ pending' = SubSeq(pending, 2, Len(pending))

-----------------------------------------------------------------------------
\* The reading side turns a carriage return of the USB console into a newline.
FromUsb(bytes) == [i \in DOMAIN bytes |-> IF bytes[i] = "cr" THEN "nl" ELSE bytes[i]]

\* What a key is to do, when its first byte is fed.  An escape sequence is
\* more than 20 ms after the key before.
Press(k) ==
  /\ feeding = <<>> /\ ~flushing /\ keys < MaxKeys
  /\ feeding' = FromUsb(k.bytes) /\ keys' = keys + 1
  /\ late' \in IF k.bytes[1] = "esc" THEN {TRUE} ELSE BOOLEAN
  /\ pending' = pending \o [i \in DOMAIN k.text |-> [byte |-> k.text[i], at |-> active]]
  /\ UNCHANGED <<active, escBuf, flushing, queue, switches, owed>>

Ready == feeding # <<>> /\ ~flushing /\ ~late
Fed == feeding' = Tail(feeding) /\ UNCHANGED <<keys, switches>>

\* If the time for the buffered bytes is over, they are flushed.
TimeOut ==
  /\ feeding # <<>> /\ ~flushing /\ late
  /\ flushing' = (escBuf # <<>>) /\ late' = FALSE
  /\ UNCHANGED <<active, escBuf, queue, feeding, keys, switches, pending, owed>>

\* flush_input_buffer, each byte to the terminal then active: its critical
\* section keeps out the tasks of its core, not a switch or a read on the other.
FlushByte ==
  /\ flushing
  /\ Send(Head(escBuf))
  /\ escBuf' = Tail(escBuf) /\ flushing' = (Len(escBuf) > 1)
  /\ UNCHANGED <<active, feeding, late, keys, switches>>

FeedStart ==
  /\ Ready /\ escBuf = <<>> /\ Head(feeding) = "esc"
  /\ escBuf' = <<"esc">>
  /\ Fed /\ UNCHANGED <<active, flushing, queue, late, pending, owed>>

\* A hotkey of a terminal there is not is swallowed all the same.
FeedHotkey ==
  /\ Ready /\ escBuf # <<>>
  /\ \E v \in Hotkeys(Append(escBuf, Head(feeding))) :
       active' = IF v \in Terminals THEN v ELSE active
  /\ escBuf' = <<>>
  /\ Fed /\ UNCHANGED <<flushing, queue, late, pending, owed>>

FeedEscape ==
  /\ Ready /\ escBuf # <<>>
  /\ LET bytes == Append(escBuf, Head(feeding))
     IN  /\ Hotkeys(bytes) = {}
         /\ escBuf' = bytes /\ flushing' = ~CouldBeHotkey(bytes)
  /\ Fed /\ UNCHANGED <<active, queue, late, pending, owed>>

FeedPlain ==
  /\ Ready /\ escBuf = <<>> /\ Head(feeding) # "esc"
  /\ Send(Head(feeding))
  /\ Fed /\ UNCHANGED <<active, escBuf, flushing, late>>

\* vterm_getchar, of an app of the active terminal (vfs_vterm_read) or of any.
Take(v) ==
  /\ queue[v] # <<>>
  /\ queue' = [queue EXCEPT ![v] = Tail(@)]
  /\ owed' = [owed EXCEPT ![v] = SubSeq(@, 2, Len(@))]
  /\ UNCHANGED <<active, escBuf, flushing, feeding, late, keys, switches, pending>>

\* vterm_switch by a command.  It does not look at what is held back or about
\* to be fed, which goes where the switch went: its bytes move with it.
Switch(v) ==
  /\ v # active /\ switches < MaxSwitches
  /\ active' = v /\ switches' = switches + 1
  /\ pending' = [i \in DOMAIN pending |-> [pending[i] EXCEPT !.at = v]]
  /\ UNCHANGED <<escBuf, flushing, queue, feeding, late, keys, owed>>

\* vterm_input_flush: what waits is thrown away, what is held back is not.
Flush(v) ==
  /\ queue[v] # <<>>
  /\ queue' = [queue EXCEPT ![v] = <<>>]
  /\ owed' = [owed EXCEPT ![v] = <<>>]
  /\ UNCHANGED <<active, escBuf, flushing, feeding, late, keys, switches, pending>>

Next ==
  \/ \E k \in Keys : Press(k)
  \/ TimeOut \/ FlushByte \/ FeedStart \/ FeedHotkey \/ FeedEscape \/ FeedPlain
  \/ \E v \in Terminals : Take(v) \/ Switch(v) \/ Flush(v)

-----------------------------------------------------------------------------
(* "Intercepts F1-F4 for VT switching; all other input passes through to   *)
(* your app unchanged" (breezy_term/README.md:108), whatever switches,     *)
(* reads and flushes come in between: an app is sent what was typed at its *)
(* terminal (or was on its way when a command switched to it), in order,   *)
(* byte for byte but for what a full queue dropped; and between two keys   *)
(* nothing is missing but the bytes held back, which come later.           *)
InputArrives ==
  /\ queue = owed
  /\ feeding = <<>> /\ ~flushing => [i \in DOMAIN pending |-> pending[i].byte] = escBuf
=============================================================================
