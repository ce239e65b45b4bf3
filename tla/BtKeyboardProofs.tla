-------------------------- MODULE BtKeyboardProofs --------------------------
(***************************************************************************)
(* Proofs about the connection of a Bluetooth keyboard: for any keyboards, *)
(* any of the commands, resets of the controller and delays that suffice or*)
(* do not, a saved keyboard that is not connected is being looked for      *)
(* whenever no task has anything left to do, and the flag that says it is  *)
(* connected tells the truth.  The five tasks share their flags without a  *)
(* lock: the invariant says, for every point between two of their steps,   *)
(* which flag vouches for which.                                           *)
(***************************************************************************)
EXTENDS BtKeyboard, TLAPS

(* A scan that the flags announce is under way, or about to be, or over    *)
(* and about to be taken note of.                                          *)
ScanUnderWay ==
  kbd.scanning =>
    \/ radio.air \in Discs
    \/ \E t \in Tasks : at[t] \in {"disc", "gdisc"}
    \/ at["host"] \in {"found", "complete"}

(* A connection is attempted only while the connect task waits for it, and *)
(* without another link.                                                   *)
OneAttempt == radio.air = "conn" => at["connect"] = "opening" /\ radio.link = None

(* Whoever asks the connect task for something has told it or will.        *)
RequestsAreTold ==
  /\ kbd.pending => notified \/ at["host"] = "notify" \/ at["connect"] = "open"
  /\ kbd.scanRequested => notified \/ at["timer"] = "notify" \/ at["app"] = "notify"

(* The last event that is waiting, or else the flag, says whether the      *)
(* keyboard is open.                                                       *)
EventsTell ==
  /\ events = <<>> => (kbd.connected <=> radio.open)
  /\ events # <<>> => (events[Len(events)] = "open" <=> radio.open)
  /\ radio.open => radio.link # None

(* A saved keyboard that is not connected is looked for, or there is       *)
(* something left that will see to it.  A task about to notify and a       *)
(* connect task about to return do not count.                              *)
LookedFor ==
  kbd.target # None /\ ~kbd.connected =>
    \/ radio.air \in Discs \/ ~radio.synced
    \/ timer \/ events # <<>> \/ kbd.pending \/ kbd.scanRequested
    \/ \E t \in Tasks : at[t] \notin {"idle", "notify", "device"}

IInv == TypeOK /\ ScanUnderWay /\ OneAttempt /\ RequestsAreTold /\ EventsTell /\ LookedFor

KbdSet == [connected: BOOLEAN, encrypted: BOOLEAN, scanning: BOOLEAN,
           reconnect: BOOLEAN, scanOnFail: BOOLEAN, pending: BOOLEAN,
           connecting: BOOLEAN, scanRequested: BOOLEAN,
           target: Keyboards \cup {None}]
RadioSet == [synced: BOOLEAN, air: Discs \cup {"idle", "conn"},
             peer: Keyboards \cup {None}, link: Keyboards \cup {None},
             open: BOOLEAN]

LEMMA TypeParts ==
  ASSUME TypeOK
  PROVE  /\ kbd \in KbdSet /\ radio \in RadioSet /\ at \in [Tasks -> Labels]
         /\ nvs \in Keyboards \cup {None} /\ seen \in Keyboards \cup {None}
         /\ notified \in BOOLEAN /\ timer \in BOOLEAN
         /\ events \in Seq({"open", "close"}) /\ Len(events) <= MaxEvents
  BY DEF TypeOK, KbdSet, RadioSet

LEMMA TypeNext ==
  ASSUME kbd' \in KbdSet, radio' \in RadioSet, at' \in [Tasks -> Labels],
         nvs' \in Keyboards \cup {None}, seen' \in Keyboards \cup {None},
         notified' \in BOOLEAN, timer' \in BOOLEAN,
         events' \in Seq({"open", "close"}) /\ Len(events') <= MaxEvents
  PROVE  TypeOK'
  BY DEF TypeOK, KbdSet, RadioSet

(* The queue of events: what taking one leaves.                            *)
LEMMA TailOfEvents ==
  ASSUME NEW q \in Seq({"open", "close"}), q # <<>>
  PROVE  /\ Tail(q) \in Seq({"open", "close"}) /\ Len(Tail(q)) = Len(q) - 1
         /\ Head(q) \in {"open", "close"}
         /\ Tail(q) = <<>> => Head(q) = q[Len(q)]
         /\ Tail(q) # <<>> => Tail(q)[Len(Tail(q))] = q[Len(q)]
  <1>1. Len(q) \in Nat \ {0} /\ Len(Tail(q)) = Len(q) - 1 /\ Tail(q) \in Seq({"open", "close"})
        /\ \A i \in 1..Len(q) - 1 : Tail(q)[i] = q[i + 1]
    OBVIOUS
  <1>2. Head(q) = q[1] /\ q[1] \in {"open", "close"}  BY <1>1
  <1>3. ASSUME Tail(q) = <<>> PROVE Head(q) = q[Len(q)]
    <2>0. Len(<<>>) = 0  OBVIOUS
    <2>1. Len(Tail(q)) = 0  BY <1>3, <2>0, Zenon
    <2> DEFINE l == Len(q)
               m == Len(Tail(q))
    <2>3. l \in Nat /\ m = l - 1 /\ m = 0  BY <1>1, <2>1
    <2>4. l = 1
      <3> HIDE DEF l, m
      <3> QED BY <2>3
    <2>2. Len(q) = 1  BY <2>4
    <2> QED BY <2>2, <1>2
  <1>4. ASSUME Tail(q) # <<>> PROVE Tail(q)[Len(Tail(q))] = q[Len(q)]
    <2>1. Len(Tail(q)) # 0  BY <1>1, <1>4
    <2> QED BY <2>1, <1>1
  <1> QED BY <1>1, <1>2, <1>3, <1>4

-----------------------------------------------------------------------------
(* start_background_scan, by whichever task: a scan that is not needed, one  *)
(* that starts at once, after a connection is cancelled or after a delay.  *)
LEMMA ScanNotNeededKeeps ==
  ASSUME IInv, NEW t \in Tasks, ScanNotNeeded(t) PROVE IInv'
  <1> USE DEF IInv, ScanNotNeeded, MayScan, From, Goto, Tasks, Labels, Discs
  <1>1. kbd' \in KbdSet
    BY TypeParts DEF KbdSet
  <1>2. radio' \in RadioSet
    BY TypeParts DEF RadioSet
  <1>3. /\ at' \in [Tasks -> Labels] /\ notified' \in BOOLEAN /\ timer' \in BOOLEAN
        /\ nvs' \in Keyboards \cup {None} /\ seen' \in Keyboards \cup {None}
        /\ events' \in Seq({"open", "close"}) /\ Len(events') <= MaxEvents
    BY TypeParts DEF KbdSet, RadioSet
  <1>4. TypeOK'
    BY <1>1, <1>2, <1>3, TypeNext
  <1>5. ScanUnderWay' /\ OneAttempt'
    BY DEF TypeOK, ScanUnderWay, OneAttempt
  <1>6. RequestsAreTold' /\ EventsTell'
    BY DEF TypeOK, RequestsAreTold, EventsTell
  <1>7. LookedFor'
    BY DEF TypeOK, LookedFor, ScanUnderWay, OneAttempt, EventsTell
  <1> QED
    BY <1>4, <1>5, <1>6, <1>7

LEMMA ScanAtOnceKeeps ==
  ASSUME IInv, NEW t \in Tasks, ScanAtOnce(t) PROVE IInv'
  <1> USE DEF IInv, ScanAtOnce, MayScan, From, Goto, Tasks, Labels, Discs
  <1>1. kbd' \in KbdSet
    BY TypeParts DEF KbdSet
  <1>2. radio' \in RadioSet
    BY TypeParts DEF RadioSet
  <1>3. at' \in [Tasks -> Labels]
    BY TypeParts
  <1>4. nvs' \in Keyboards \cup {None} /\ seen' \in Keyboards \cup {None}
        /\ notified' \in BOOLEAN /\ timer' \in BOOLEAN
    BY TypeParts DEF KbdSet, RadioSet
  <1>5. events' \in Seq({"open", "close"}) /\ Len(events') <= MaxEvents
    BY TypeParts
  <1>6. TypeOK'
    BY <1>1, <1>2, <1>3, <1>4, <1>5, TypeNext
  <1>7. ScanUnderWay' /\ OneAttempt'
    BY DEF TypeOK, ScanUnderWay, OneAttempt
  <1>8. RequestsAreTold' /\ EventsTell'
    BY DEF TypeOK, RequestsAreTold, EventsTell
  <1>9. LookedFor'
    BY DEF TypeOK, LookedFor, ScanUnderWay, OneAttempt, EventsTell
  <1> QED
    BY <1>6, <1>7, <1>8, <1>9

LEMMA ScanAfterCancelKeeps ==
  ASSUME IInv, NEW t \in Tasks, ScanAfterCancel(t) PROVE IInv'
  <1> USE DEF IInv, ScanAfterCancel, MayScan, CancelConn, From, Goto, Tasks, Labels, Discs
  <1>1. kbd' \in KbdSet
    BY TypeParts DEF KbdSet
  <1>2. radio' \in RadioSet
    BY TypeParts DEF RadioSet
  <1>3. /\ at' \in [Tasks -> Labels] /\ notified' \in BOOLEAN /\ timer' \in BOOLEAN
        /\ nvs' \in Keyboards \cup {None} /\ seen' \in Keyboards \cup {None}
        /\ events' \in Seq({"open", "close"}) /\ Len(events') <= MaxEvents
    BY TypeParts DEF KbdSet, RadioSet
  <1>4. TypeOK'
    BY <1>1, <1>2, <1>3, TypeNext
  <1>5. ScanUnderWay' /\ OneAttempt'
    BY DEF TypeOK, ScanUnderWay, OneAttempt
  <1>6. RequestsAreTold' /\ EventsTell'
    BY DEF TypeOK, RequestsAreTold, EventsTell
  <1>7. LookedFor'
    BY DEF TypeOK, LookedFor, ScanUnderWay, OneAttempt, EventsTell
  <1> QED
    BY <1>4, <1>5, <1>6, <1>7

LEMMA ScanDelayedKeeps ==
  ASSUME IInv, NEW t \in Tasks, ScanDelayed(t) PROVE IInv'
  <1> USE DEF IInv, ScanDelayed, From, Goto, Tasks, Labels, Discs
  <1>1. kbd' \in KbdSet
    BY TypeParts DEF KbdSet
  <1>2. radio' \in RadioSet
    BY TypeParts DEF RadioSet
  <1>3. /\ at' \in [Tasks -> Labels] /\ notified' \in BOOLEAN /\ timer' \in BOOLEAN
        /\ nvs' \in Keyboards \cup {None} /\ seen' \in Keyboards \cup {None}
        /\ events' \in Seq({"open", "close"}) /\ Len(events') <= MaxEvents
    BY TypeParts DEF KbdSet, RadioSet
  <1>4. TypeOK'
    BY <1>1, <1>2, <1>3, TypeNext
  <1>5. ScanUnderWay' /\ OneAttempt'
    BY DEF TypeOK, ScanUnderWay, OneAttempt
  <1>6. RequestsAreTold' /\ EventsTell'
    BY DEF TypeOK, RequestsAreTold, EventsTell
  <1>7. LookedFor'
    BY DEF TypeOK, LookedFor, ScanUnderWay, OneAttempt, EventsTell
  <1> QED
    BY <1>4, <1>5, <1>6, <1>7

LEMMA ScanFlagsKeeps ==
  ASSUME IInv, NEW t \in Tasks, ScanFlags(t) PROVE IInv'
  <1> USE DEF IInv, ScanFlags, From, Goto, Tasks, Labels, Discs
  <1>1. kbd' \in KbdSet
    BY TypeParts DEF KbdSet
  <1>2. radio' \in RadioSet
    BY TypeParts DEF RadioSet
  <1>3. /\ at' \in [Tasks -> Labels] /\ notified' \in BOOLEAN /\ timer' \in BOOLEAN
        /\ nvs' \in Keyboards \cup {None} /\ seen' \in Keyboards \cup {None}
        /\ events' \in Seq({"open", "close"}) /\ Len(events') <= MaxEvents
    BY TypeParts DEF KbdSet, RadioSet
  <1>4. TypeOK'
    BY <1>1, <1>2, <1>3, TypeNext
  <1>5. ScanUnderWay' /\ OneAttempt'
    BY DEF TypeOK, ScanUnderWay, OneAttempt
  <1>6. RequestsAreTold' /\ EventsTell'
    BY DEF TypeOK, RequestsAreTold, EventsTell
  <1>7. LookedFor'
    BY DEF TypeOK, LookedFor, ScanUnderWay, OneAttempt, EventsTell
  <1> QED
    BY <1>4, <1>5, <1>6, <1>7

LEMMA ScanStartsKeeps ==
  ASSUME IInv, NEW t \in Tasks, ScanStarts(t) PROVE IInv'
  <1> USE DEF IInv, ScanStarts, Free, From, Goto, Tasks, Labels, Discs
  <1>1. kbd' \in KbdSet
    BY TypeParts DEF KbdSet
  <1>2. radio' \in RadioSet
    BY TypeParts DEF RadioSet
  <1>3. /\ at' \in [Tasks -> Labels] /\ notified' \in BOOLEAN /\ timer' \in BOOLEAN
        /\ nvs' \in Keyboards \cup {None} /\ seen' \in Keyboards \cup {None}
        /\ events' \in Seq({"open", "close"}) /\ Len(events') <= MaxEvents
    BY TypeParts DEF KbdSet, RadioSet
  <1>4. TypeOK'
    BY <1>1, <1>2, <1>3, TypeNext
  <1>5. ScanUnderWay' /\ OneAttempt'
    BY DEF TypeOK, ScanUnderWay, OneAttempt
  <1>6. RequestsAreTold' /\ EventsTell'
    BY DEF TypeOK, RequestsAreTold, EventsTell
  <1>7. LookedFor'
    BY DEF TypeOK, LookedFor, ScanUnderWay, OneAttempt, EventsTell
  <1> QED
    BY <1>4, <1>5, <1>6, <1>7

LEMMA ScanFailsKeeps ==
  ASSUME IInv, NEW t \in Tasks, ScanFails(t) PROVE IInv'
  <1> USE DEF IInv, ScanFails, Free, From, Goto, Tasks, Labels, Discs
  <1>1. kbd' \in KbdSet
    BY TypeParts DEF KbdSet
  <1>2. radio' \in RadioSet
    BY TypeParts DEF RadioSet
  <1>3. /\ at' \in [Tasks -> Labels] /\ notified' \in BOOLEAN /\ timer' \in BOOLEAN
        /\ nvs' \in Keyboards \cup {None} /\ seen' \in Keyboards \cup {None}
        /\ events' \in Seq({"open", "close"}) /\ Len(events') <= MaxEvents
    BY TypeParts DEF KbdSet, RadioSet
  <1>4. TypeOK'
    BY <1>1, <1>2, <1>3, TypeNext
  <1>5. ScanUnderWay' /\ OneAttempt'
    BY DEF TypeOK, ScanUnderWay, OneAttempt
  <1>6. RequestsAreTold' /\ EventsTell'
    BY DEF TypeOK, RequestsAreTold, EventsTell
  <1>7. LookedFor'
    BY DEF TypeOK, LookedFor, ScanUnderWay, OneAttempt, EventsTell
  <1> QED
    BY <1>4, <1>5, <1>6, <1>7

-----------------------------------------------------------------------------
(* start_general_scan: the flags are set after the pending scan has been   *)
(* cancelled, and cleared again when the new one does not start.           *)
LEMMA GeneralNotNeededKeeps ==
  ASSUME IInv, NEW t \in Tasks, GeneralNotNeeded(t) PROVE IInv'
  <1> USE DEF IInv, GeneralNotNeeded, From, Goto, Tasks, Labels, Discs
  <1>1. kbd' \in KbdSet
    BY TypeParts DEF KbdSet
  <1>2. radio' \in RadioSet
    BY TypeParts DEF RadioSet
  <1>3. /\ at' \in [Tasks -> Labels] /\ notified' \in BOOLEAN /\ timer' \in BOOLEAN
        /\ nvs' \in Keyboards \cup {None} /\ seen' \in Keyboards \cup {None}
        /\ events' \in Seq({"open", "close"}) /\ Len(events') <= MaxEvents
    BY TypeParts DEF KbdSet, RadioSet
  <1>4. TypeOK'
    BY <1>1, <1>2, <1>3, TypeNext
  <1>5. ScanUnderWay' /\ OneAttempt'
    BY DEF TypeOK, ScanUnderWay, OneAttempt
  <1>6. RequestsAreTold' /\ EventsTell'
    BY DEF TypeOK, RequestsAreTold, EventsTell
  <1>7. LookedFor'
    BY DEF TypeOK, LookedFor, ScanUnderWay, OneAttempt, EventsTell
  <1> QED
    BY <1>4, <1>5, <1>6, <1>7

LEMMA GeneralFlagsKeeps ==
  ASSUME IInv, NEW t \in Tasks, GeneralFlags(t) PROVE IInv'
  <1> USE DEF IInv, GeneralFlags, CancelDisc, From, Goto, Tasks, Labels, Discs
  <1>1. kbd' \in KbdSet
    BY TypeParts DEF KbdSet
  <1>2. radio' \in RadioSet
    BY TypeParts DEF RadioSet
  <1>3. /\ at' \in [Tasks -> Labels] /\ notified' \in BOOLEAN /\ timer' \in BOOLEAN
        /\ nvs' \in Keyboards \cup {None} /\ seen' \in Keyboards \cup {None}
        /\ events' \in Seq({"open", "close"}) /\ Len(events') <= MaxEvents
    BY TypeParts DEF KbdSet, RadioSet
  <1>4. TypeOK'
    BY <1>1, <1>2, <1>3, TypeNext
  <1>5. ScanUnderWay' /\ OneAttempt'
    BY DEF TypeOK, ScanUnderWay, OneAttempt
  <1>6. RequestsAreTold' /\ EventsTell'
    BY DEF TypeOK, RequestsAreTold, EventsTell
  <1>7. LookedFor'
    BY DEF TypeOK, LookedFor, ScanUnderWay, OneAttempt, EventsTell
  <1> QED
    BY <1>4, <1>5, <1>6, <1>7

LEMMA GeneralStartsKeeps ==
  ASSUME IInv, NEW t \in Tasks, GeneralStarts(t) PROVE IInv'
  <1> USE DEF IInv, GeneralStarts, Free, From, Goto, Tasks, Labels, Discs
  <1>1. kbd' \in KbdSet
    BY TypeParts DEF KbdSet
  <1>2. radio' \in RadioSet
    BY TypeParts DEF RadioSet
  <1>3. /\ at' \in [Tasks -> Labels] /\ notified' \in BOOLEAN /\ timer' \in BOOLEAN
        /\ nvs' \in Keyboards \cup {None} /\ seen' \in Keyboards \cup {None}
        /\ events' \in Seq({"open", "close"}) /\ Len(events') <= MaxEvents
    BY TypeParts DEF KbdSet, RadioSet
  <1>4. TypeOK'
    BY <1>1, <1>2, <1>3, TypeNext
  <1>5. ScanUnderWay' /\ OneAttempt'
    BY DEF TypeOK, ScanUnderWay, OneAttempt
  <1>6. RequestsAreTold' /\ EventsTell'
    BY DEF TypeOK, RequestsAreTold, EventsTell
  <1>7. LookedFor'
    BY DEF TypeOK, LookedFor, ScanUnderWay, OneAttempt, EventsTell
  <1> QED
    BY <1>4, <1>5, <1>6, <1>7

LEMMA GeneralFailsKeeps ==
  ASSUME IInv, NEW t \in Tasks, GeneralFails(t) PROVE IInv'
  <1> USE DEF IInv, GeneralFails, Free, From, Goto, Tasks, Labels, Discs
  <1>1. kbd' \in KbdSet
    BY TypeParts DEF KbdSet
  <1>2. radio' \in RadioSet
    BY TypeParts DEF RadioSet
  <1>3. /\ at' \in [Tasks -> Labels] /\ notified' \in BOOLEAN /\ timer' \in BOOLEAN
        /\ nvs' \in Keyboards \cup {None} /\ seen' \in Keyboards \cup {None}
        /\ events' \in Seq({"open", "close"}) /\ Len(events') <= MaxEvents
    BY TypeParts DEF KbdSet, RadioSet
  <1>4. TypeOK'
    BY <1>1, <1>2, <1>3, TypeNext
  <1>5. ScanUnderWay' /\ OneAttempt'
    BY DEF TypeOK, ScanUnderWay, OneAttempt
  <1>6. RequestsAreTold' /\ EventsTell'
    BY DEF TypeOK, RequestsAreTold, EventsTell
  <1>7. LookedFor'
    BY DEF TypeOK, LookedFor, ScanUnderWay, OneAttempt, EventsTell
  <1> QED
    BY <1>4, <1>5, <1>6, <1>7

(* xTaskNotify: what was asked of the connect task is now told.            *)
LEMMA NotifyKeeps ==
  ASSUME IInv, NEW t \in {"host", "timer", "app"}, Notify(t) PROVE IInv'
  <1> USE DEF IInv, Notify, From, Goto, Tasks, Labels, Discs
  <1>1. kbd' \in KbdSet
    BY TypeParts DEF KbdSet
  <1>2. radio' \in RadioSet
    BY TypeParts DEF RadioSet
  <1>3. /\ at' \in [Tasks -> Labels] /\ notified' \in BOOLEAN /\ timer' \in BOOLEAN
        /\ nvs' \in Keyboards \cup {None} /\ seen' \in Keyboards \cup {None}
        /\ events' \in Seq({"open", "close"}) /\ Len(events') <= MaxEvents
    BY TypeParts DEF KbdSet, RadioSet
  <1>4. TypeOK'
    BY <1>1, <1>2, <1>3, TypeNext
  <1>5. ScanUnderWay' /\ OneAttempt'
    BY DEF TypeOK, ScanUnderWay, OneAttempt
  <1>6. RequestsAreTold' /\ EventsTell'
    BY DEF TypeOK, RequestsAreTold, EventsTell
  <1>7. LookedFor'
    BY DEF TypeOK, LookedFor, ScanUnderWay, OneAttempt, EventsTell
  <1> QED
    BY <1>4, <1>5, <1>6, <1>7

-----------------------------------------------------------------------------
(* The connect task, from its wake to the end of the attempt to open the   *)
(* keyboard, whose failure scans again or sets the timer.                  *)
LEMMA WakeToScanKeeps ==
  ASSUME IInv, WakeToScan PROVE IInv'
  <1> USE DEF IInv, WakeToScan, MayScan, From, Goto, Tasks, Labels, Discs
  <1>1. kbd' \in KbdSet
    BY TypeParts DEF KbdSet
  <1>2. radio' \in RadioSet
    BY TypeParts DEF RadioSet
  <1>3. /\ at' \in [Tasks -> Labels] /\ notified' \in BOOLEAN /\ timer' \in BOOLEAN
        /\ nvs' \in Keyboards \cup {None} /\ seen' \in Keyboards \cup {None}
        /\ events' \in Seq({"open", "close"}) /\ Len(events') <= MaxEvents
    BY TypeParts DEF KbdSet, RadioSet
  <1>4. TypeOK'
    BY <1>1, <1>2, <1>3, TypeNext
  <1>5. ScanUnderWay' /\ OneAttempt'
    BY DEF TypeOK, ScanUnderWay, OneAttempt
  <1>6. RequestsAreTold' /\ EventsTell'
    BY DEF TypeOK, RequestsAreTold, EventsTell
  <1>7. LookedFor'
    BY DEF TypeOK, LookedFor, ScanUnderWay, OneAttempt, EventsTell
  <1> QED
    BY <1>4, <1>5, <1>6, <1>7

LEMMA WakeForNothingKeeps ==
  ASSUME IInv, WakeForNothing PROVE IInv'
  <1> USE DEF IInv, WakeForNothing, From, Goto, Tasks, Labels, Discs
  <1>1. kbd' \in KbdSet
    BY TypeParts DEF KbdSet
  <1>2. radio' \in RadioSet
    BY TypeParts DEF RadioSet
  <1>3. /\ at' \in [Tasks -> Labels] /\ notified' \in BOOLEAN /\ timer' \in BOOLEAN
        /\ nvs' \in Keyboards \cup {None} /\ seen' \in Keyboards \cup {None}
        /\ events' \in Seq({"open", "close"}) /\ Len(events') <= MaxEvents
    BY TypeParts DEF KbdSet, RadioSet
  <1>4. TypeOK'
    BY <1>1, <1>2, <1>3, TypeNext
  <1>5. ScanUnderWay' /\ OneAttempt'
    BY DEF TypeOK, ScanUnderWay, OneAttempt
  <1>6. RequestsAreTold' /\ EventsTell'
    BY DEF TypeOK, RequestsAreTold, EventsTell
  <1>7. LookedFor'
    BY DEF TypeOK, LookedFor, ScanUnderWay, OneAttempt, EventsTell
  <1> QED
    BY <1>4, <1>5, <1>6, <1>7

LEMMA WakeToConnectKeeps ==
  ASSUME IInv, WakeToConnect PROVE IInv'
  <1> USE DEF IInv, WakeToConnect, CancelDisc, From, Goto, Tasks, Labels, Discs
  <1>1. kbd' \in KbdSet
    BY TypeParts DEF KbdSet
  <1>2. radio' \in RadioSet
    BY TypeParts DEF RadioSet
  <1>3. /\ at' \in [Tasks -> Labels] /\ notified' \in BOOLEAN /\ timer' \in BOOLEAN
        /\ nvs' \in Keyboards \cup {None} /\ seen' \in Keyboards \cup {None}
        /\ events' \in Seq({"open", "close"}) /\ Len(events') <= MaxEvents
    BY TypeParts DEF KbdSet, RadioSet
  <1>4. TypeOK'
    BY <1>1, <1>2, <1>3, TypeNext
  <1>5. ScanUnderWay' /\ OneAttempt'
    BY DEF TypeOK, ScanUnderWay, OneAttempt
  <1>6. RequestsAreTold' /\ EventsTell'
    BY DEF TypeOK, RequestsAreTold, EventsTell
  <1>7. LookedFor'
    BY DEF TypeOK, LookedFor, ScanUnderWay, OneAttempt, EventsTell
  <1> QED
    BY <1>4, <1>5, <1>6, <1>7

LEMMA OpenKeeps ==
  ASSUME IInv, Open PROVE IInv'
  <1> USE DEF IInv, Open, CanConnect, Free, From, Goto, Tasks, Labels, Discs
  <1>1. kbd' \in KbdSet
    BY TypeParts DEF KbdSet
  <1>2. radio' \in RadioSet
    BY TypeParts DEF RadioSet, KbdSet
  <1>3. /\ at' \in [Tasks -> Labels] /\ notified' \in BOOLEAN /\ timer' \in BOOLEAN
        /\ nvs' \in Keyboards \cup {None} /\ seen' \in Keyboards \cup {None}
        /\ events' \in Seq({"open", "close"}) /\ Len(events') <= MaxEvents
    BY TypeParts DEF KbdSet, RadioSet
  <1>4. TypeOK'
    BY <1>1, <1>2, <1>3, TypeNext
  <1>5. ScanUnderWay' /\ OneAttempt'
    BY DEF TypeOK, ScanUnderWay, OneAttempt
  <1>6. RequestsAreTold' /\ EventsTell'
    BY DEF TypeOK, RequestsAreTold, EventsTell
  <1>7. LookedFor'
    BY DEF TypeOK, LookedFor, ScanUnderWay, OneAttempt, EventsTell
  <1> QED
    BY <1>4, <1>5, <1>6, <1>7

LEMMA OpenedKeeps ==
  ASSUME IInv, Opened PROVE IInv'
  <1> USE DEF IInv, Opened, From, Goto, Tasks, Labels, Discs
  <1>1. kbd' \in KbdSet
    BY TypeParts DEF KbdSet
  <1>2. radio' \in RadioSet
    BY TypeParts DEF RadioSet
  <1>3. /\ at' \in [Tasks -> Labels] /\ notified' \in BOOLEAN /\ timer' \in BOOLEAN
        /\ nvs' \in Keyboards \cup {None} /\ seen' \in Keyboards \cup {None}
        /\ events' \in Seq({"open", "close"}) /\ Len(events') <= MaxEvents
    BY TypeParts DEF KbdSet, RadioSet
  <1>4. TypeOK'
    BY <1>1, <1>2, <1>3, TypeNext
  <1>5. ScanUnderWay' /\ OneAttempt'
    BY DEF TypeOK, ScanUnderWay, OneAttempt
  <1>6. RequestsAreTold' /\ EventsTell'
    BY DEF TypeOK, RequestsAreTold, EventsTell
  <1>7. LookedFor'
    BY DEF TypeOK, LookedFor, ScanUnderWay, OneAttempt, EventsTell
  <1> QED
    BY <1>4, <1>5, <1>6, <1>7

LEMMA NotOpenedKeeps ==
  ASSUME IInv, NotOpened PROVE IInv'
  <1> USE DEF IInv, NotOpened, From, Goto, Tasks, Labels, Discs
  <1>1. kbd' \in KbdSet
    BY TypeParts DEF KbdSet
  <1>2. radio' \in RadioSet
    BY TypeParts DEF RadioSet
  <1>3. /\ at' \in [Tasks -> Labels] /\ notified' \in BOOLEAN /\ timer' \in BOOLEAN
        /\ nvs' \in Keyboards \cup {None} /\ seen' \in Keyboards \cup {None}
        /\ events' \in Seq({"open", "close"}) /\ Len(events') <= MaxEvents
    BY TypeParts DEF KbdSet, RadioSet
  <1>4. TypeOK'
    BY <1>1, <1>2, <1>3, TypeNext
  <1>5. ScanUnderWay' /\ OneAttempt'
    BY DEF TypeOK, ScanUnderWay, OneAttempt
  <1>6. RequestsAreTold' /\ EventsTell'
    BY DEF TypeOK, RequestsAreTold, EventsTell
  <1>7. LookedFor'
    BY DEF TypeOK, LookedFor, ScanUnderWay, OneAttempt, EventsTell
  <1> QED
    BY <1>4, <1>5, <1>6, <1>7

-----------------------------------------------------------------------------
(* What the host reports: a keyboard is found, its scan completes, a link  *)
(* comes up, is encrypted and is lost.                                     *)
LEMMA FoundKeeps ==
  ASSUME IInv, NEW k \in Keyboards, Found(k) PROVE IInv'
  <1> USE DEF IInv, Found, CancelDisc, Accepted, From, Goto, Tasks, Labels, Discs
  <1>1. kbd' \in KbdSet
    BY TypeParts DEF KbdSet
  <1>2. radio' \in RadioSet
    BY TypeParts DEF RadioSet
  <1>3. /\ at' \in [Tasks -> Labels] /\ notified' \in BOOLEAN /\ timer' \in BOOLEAN
        /\ nvs' \in Keyboards \cup {None} /\ seen' \in Keyboards \cup {None}
        /\ events' \in Seq({"open", "close"}) /\ Len(events') <= MaxEvents
    BY TypeParts DEF KbdSet, RadioSet
  <1>4. TypeOK'
    BY <1>1, <1>2, <1>3, TypeNext
  <1>5. ScanUnderWay' /\ OneAttempt'
    BY DEF TypeOK, ScanUnderWay, OneAttempt
  <1>6. RequestsAreTold' /\ EventsTell'
    BY DEF TypeOK, RequestsAreTold, EventsTell
  <1>7. LookedFor'
    BY DEF TypeOK, LookedFor, ScanUnderWay, OneAttempt, EventsTell
  <1> QED
    BY <1>4, <1>5, <1>6, <1>7

LEMMA AdoptKeeps ==
  ASSUME IInv, Adopt PROVE IInv'
  <1> USE DEF IInv, Adopt, From, Goto, Tasks, Labels, Discs
  <1>1. kbd' \in KbdSet
    BY TypeParts DEF KbdSet
  <1>2. radio' \in RadioSet
    BY TypeParts DEF RadioSet
  <1>3. /\ at' \in [Tasks -> Labels] /\ notified' \in BOOLEAN /\ timer' \in BOOLEAN
        /\ nvs' \in Keyboards \cup {None} /\ seen' \in Keyboards \cup {None}
        /\ events' \in Seq({"open", "close"}) /\ Len(events') <= MaxEvents
    BY TypeParts DEF KbdSet, RadioSet
  <1>4. TypeOK'
    BY <1>1, <1>2, <1>3, TypeNext
  <1>5. ScanUnderWay' /\ OneAttempt'
    BY DEF TypeOK, ScanUnderWay, OneAttempt
  <1>6. RequestsAreTold' /\ EventsTell'
    BY DEF TypeOK, RequestsAreTold, EventsTell
  <1>7. LookedFor'
    BY DEF TypeOK, LookedFor, ScanUnderWay, OneAttempt, EventsTell
  <1> QED
    BY <1>4, <1>5, <1>6, <1>7

LEMMA RequestKeeps ==
  ASSUME IInv, Request PROVE IInv'
  <1> USE DEF IInv, Request, From, Goto, Tasks, Labels, Discs
  <1>1. kbd' \in KbdSet
    BY TypeParts DEF KbdSet
  <1>2. radio' \in RadioSet
    BY TypeParts DEF RadioSet
  <1>3. /\ at' \in [Tasks -> Labels] /\ notified' \in BOOLEAN /\ timer' \in BOOLEAN
        /\ nvs' \in Keyboards \cup {None} /\ seen' \in Keyboards \cup {None}
        /\ events' \in Seq({"open", "close"}) /\ Len(events') <= MaxEvents
    BY TypeParts DEF KbdSet, RadioSet
  <1>4. TypeOK'
    BY <1>1, <1>2, <1>3, TypeNext
  <1>5. ScanUnderWay' /\ OneAttempt'
    BY DEF TypeOK, ScanUnderWay, OneAttempt
  <1>6. RequestsAreTold' /\ EventsTell'
    BY DEF TypeOK, RequestsAreTold, EventsTell
  <1>7. LookedFor'
    BY DEF TypeOK, LookedFor, ScanUnderWay, OneAttempt, EventsTell
  <1> QED
    BY <1>4, <1>5, <1>6, <1>7

LEMMA ScanCompleteKeeps ==
  ASSUME IInv, ScanComplete PROVE IInv'
  <1> USE DEF IInv, ScanComplete, From, Goto, Tasks, Labels, Discs
  <1>1. kbd' \in KbdSet
    BY TypeParts DEF KbdSet
  <1>2. radio' \in RadioSet
    BY TypeParts DEF RadioSet
  <1>3. /\ at' \in [Tasks -> Labels] /\ notified' \in BOOLEAN /\ timer' \in BOOLEAN
        /\ nvs' \in Keyboards \cup {None} /\ seen' \in Keyboards \cup {None}
        /\ events' \in Seq({"open", "close"}) /\ Len(events') <= MaxEvents
    BY TypeParts DEF KbdSet, RadioSet
  <1>4. TypeOK'
    BY <1>1, <1>2, <1>3, TypeNext
  <1>5. ScanUnderWay' /\ OneAttempt'
    BY DEF TypeOK, ScanUnderWay, OneAttempt
  <1>6. RequestsAreTold' /\ EventsTell'
    BY DEF TypeOK, RequestsAreTold, EventsTell
  <1>7. LookedFor'
    BY DEF TypeOK, LookedFor, ScanUnderWay, OneAttempt, EventsTell
  <1> QED
    BY <1>4, <1>5, <1>6, <1>7

LEMMA LinkUpKeeps ==
  ASSUME IInv, LinkUp PROVE IInv'
  <1> USE DEF IInv, LinkUp, From, Goto, Tasks, Labels, Discs
  <1>1. kbd' \in KbdSet
    BY TypeParts DEF KbdSet, RadioSet
  <1>2. radio' \in RadioSet
    BY TypeParts DEF RadioSet
  <1>3. /\ at' \in [Tasks -> Labels] /\ notified' \in BOOLEAN /\ timer' \in BOOLEAN
        /\ nvs' \in Keyboards \cup {None} /\ seen' \in Keyboards \cup {None}
        /\ events' \in Seq({"open", "close"}) /\ Len(events') <= MaxEvents
    BY TypeParts DEF KbdSet, RadioSet
  <1>4. TypeOK'
    BY <1>1, <1>2, <1>3, TypeNext
  <1>5. ScanUnderWay' /\ OneAttempt'
    BY DEF TypeOK, ScanUnderWay, OneAttempt
  <1>6. RequestsAreTold' /\ EventsTell'
    BY DEF TypeOK, RequestsAreTold, EventsTell, OneAttempt
  <1>7. LookedFor'
    BY DEF TypeOK, LookedFor, ScanUnderWay, OneAttempt, EventsTell
  <1> QED
    BY <1>4, <1>5, <1>6, <1>7

LEMMA EncryptedKeeps ==
  ASSUME IInv, Encrypted PROVE IInv'
  <1> USE DEF IInv, Encrypted, From, Goto, Tasks, Labels, Discs
  <1>1. kbd' \in KbdSet
    BY TypeParts DEF KbdSet
  <1>2. radio' \in RadioSet
    BY TypeParts DEF RadioSet
  <1>3. /\ at' \in [Tasks -> Labels] /\ notified' \in BOOLEAN /\ timer' \in BOOLEAN
        /\ nvs' \in Keyboards \cup {None} /\ seen' \in Keyboards \cup {None}
        /\ events' \in Seq({"open", "close"}) /\ Len(events') <= MaxEvents
    BY TypeParts DEF KbdSet, RadioSet
  <1>4. TypeOK'
    BY <1>1, <1>2, <1>3, TypeNext
  <1>5. ScanUnderWay' /\ OneAttempt'
    BY DEF TypeOK, ScanUnderWay, OneAttempt
  <1>6. RequestsAreTold' /\ EventsTell'
    BY DEF TypeOK, RequestsAreTold, EventsTell
  <1>7. LookedFor'
    BY DEF TypeOK, LookedFor, ScanUnderWay, OneAttempt, EventsTell
  <1> QED
    BY <1>4, <1>5, <1>6, <1>7

LEMMA LinkLostKeeps ==
  ASSUME IInv, MaxEvents \in Nat, LinkLost PROVE IInv'
  <1> USE DEF IInv, LinkLost, From, Goto, Tasks, Labels, Discs
  <1>1. kbd' \in KbdSet
    BY TypeParts DEF KbdSet
  <1>2. radio' \in RadioSet
    BY TypeParts DEF RadioSet
  <1>3. /\ at' \in [Tasks -> Labels] /\ notified' \in BOOLEAN /\ timer' \in BOOLEAN
        /\ nvs' \in Keyboards \cup {None} /\ seen' \in Keyboards \cup {None}
        /\ events' \in Seq({"open", "close"}) /\ Len(events') <= MaxEvents
    BY TypeParts DEF KbdSet, RadioSet
  <1>4. TypeOK'
    BY <1>1, <1>2, <1>3, TypeNext
  <1>5. ScanUnderWay' /\ OneAttempt'
    BY DEF TypeOK, ScanUnderWay, OneAttempt
  <1>6. RequestsAreTold' /\ EventsTell'
    BY DEF TypeOK, RequestsAreTold, EventsTell
  <1>7. LookedFor'
    BY DEF TypeOK, LookedFor, ScanUnderWay, OneAttempt, EventsTell
  <1> QED
    BY <1>4, <1>5, <1>6, <1>7

(* The two ways an attempt to open the keyboard ends, and a scan that takes*)
(* too long.                                                               *)
LEMMA DeviceOpenedKeeps ==
  ASSUME IInv, MaxEvents \in Nat, DeviceOpened PROVE IInv'
  <1> USE DEF IInv, DeviceOpened, From, Goto, Tasks, Labels, Discs
  <1>1. kbd' \in KbdSet
    BY TypeParts DEF KbdSet
  <1>2. radio' \in RadioSet
    BY TypeParts DEF RadioSet
  <1>3. /\ at' \in [Tasks -> Labels] /\ notified' \in BOOLEAN /\ timer' \in BOOLEAN
        /\ nvs' \in Keyboards \cup {None} /\ seen' \in Keyboards \cup {None}
        /\ events' \in Seq({"open", "close"}) /\ Len(events') <= MaxEvents
    BY TypeParts DEF KbdSet, RadioSet
  <1>4. TypeOK'
    BY <1>1, <1>2, <1>3, TypeNext
  <1>5. ScanUnderWay' /\ OneAttempt'
    BY DEF TypeOK, ScanUnderWay, OneAttempt
  <1>6. RequestsAreTold' /\ EventsTell'
    BY DEF TypeOK, RequestsAreTold, EventsTell
  <1>7. LookedFor'
    BY DEF TypeOK, LookedFor, ScanUnderWay, OneAttempt, EventsTell
  <1> QED
    BY <1>4, <1>5, <1>6, <1>7

LEMMA FailsKeeps ==
  ASSUME IInv, Fails PROVE IInv'
  <1> USE DEF IInv, Fails, CancelConn, From, Goto, Tasks, Labels, Discs
  <1>1. kbd' \in KbdSet
    BY TypeParts DEF KbdSet
  <1>2. radio' \in RadioSet
    BY TypeParts DEF RadioSet
  <1>3. /\ at' \in [Tasks -> Labels] /\ notified' \in BOOLEAN /\ timer' \in BOOLEAN
        /\ nvs' \in Keyboards \cup {None} /\ seen' \in Keyboards \cup {None}
        /\ events' \in Seq({"open", "close"}) /\ Len(events') <= MaxEvents
    BY TypeParts DEF KbdSet, RadioSet
  <1>4. TypeOK'
    BY <1>1, <1>2, <1>3, TypeNext
  <1>5. ScanUnderWay' /\ OneAttempt'
    BY DEF TypeOK, ScanUnderWay, OneAttempt
  <1>6. RequestsAreTold' /\ EventsTell'
    BY DEF TypeOK, RequestsAreTold, EventsTell
  <1>7. LookedFor'
    BY DEF TypeOK, LookedFor, ScanUnderWay, OneAttempt, EventsTell
  <1> QED
    BY <1>4, <1>5, <1>6, <1>7

LEMMA ScanTimeoutKeeps ==
  ASSUME IInv, ScanTimeout PROVE IInv'
  <1> USE DEF IInv, ScanTimeout, From, Goto, Tasks, Labels, Discs
  <1>1. kbd' \in KbdSet
    BY TypeParts DEF KbdSet
  <1>2. radio' \in RadioSet
    BY TypeParts DEF RadioSet
  <1>3. /\ at' \in [Tasks -> Labels] /\ notified' \in BOOLEAN /\ timer' \in BOOLEAN
        /\ nvs' \in Keyboards \cup {None} /\ seen' \in Keyboards \cup {None}
        /\ events' \in Seq({"open", "close"}) /\ Len(events') <= MaxEvents
    BY TypeParts DEF KbdSet, RadioSet
  <1>4. TypeOK'
    BY <1>1, <1>2, <1>3, TypeNext
  <1>5. ScanUnderWay' /\ OneAttempt'
    BY DEF TypeOK, ScanUnderWay, OneAttempt
  <1>6. RequestsAreTold' /\ EventsTell'
    BY DEF TypeOK, RequestsAreTold, EventsTell
  <1>7. LookedFor'
    BY DEF TypeOK, LookedFor, ScanUnderWay, OneAttempt, EventsTell
  <1> QED
    BY <1>4, <1>5, <1>6, <1>7

(* The controller loses its synchronisation, with every link and scan, and *)
(* finds it again.                                                         *)
LEMMA ResetKeeps ==
  ASSUME IInv, MaxEvents \in Nat, Reset PROVE IInv'
  <1> USE DEF IInv, Reset, From, Goto, Tasks, Labels, Discs
  <1>1. kbd' \in KbdSet
    BY TypeParts DEF KbdSet
  <1>2. radio' \in RadioSet
    BY TypeParts DEF RadioSet
  <1>3. /\ at' \in [Tasks -> Labels] /\ notified' \in BOOLEAN /\ timer' \in BOOLEAN
        /\ nvs' \in Keyboards \cup {None} /\ seen' \in Keyboards \cup {None}
        /\ events' \in Seq({"open", "close"}) /\ Len(events') <= MaxEvents
    BY TypeParts DEF KbdSet, RadioSet
  <1>4. TypeOK'
    BY <1>1, <1>2, <1>3, TypeNext
  <1>5. ScanUnderWay' /\ OneAttempt'
    BY DEF TypeOK, ScanUnderWay, OneAttempt
  <1>6. RequestsAreTold' /\ EventsTell'
    BY DEF TypeOK, RequestsAreTold, EventsTell
  <1>7. LookedFor'
    BY DEF TypeOK, LookedFor, ScanUnderWay, OneAttempt, EventsTell
  <1> QED
    BY <1>4, <1>5, <1>6, <1>7

LEMMA SyncKeeps ==
  ASSUME IInv, Sync PROVE IInv'
  <1> USE DEF IInv, Sync, From, Goto, Tasks, Labels, Discs
  <1>1. kbd' \in KbdSet
    BY TypeParts DEF KbdSet
  <1>2. radio' \in RadioSet
    BY TypeParts DEF RadioSet
  <1>3. /\ at' \in [Tasks -> Labels] /\ notified' \in BOOLEAN /\ timer' \in BOOLEAN
        /\ nvs' \in Keyboards \cup {None} /\ seen' \in Keyboards \cup {None}
        /\ events' \in Seq({"open", "close"}) /\ Len(events') <= MaxEvents
    BY TypeParts DEF KbdSet, RadioSet
  <1>4. TypeOK'
    BY <1>1, <1>2, <1>3, TypeNext
  <1>5. ScanUnderWay' /\ OneAttempt'
    BY DEF TypeOK, ScanUnderWay, OneAttempt
  <1>6. RequestsAreTold' /\ EventsTell'
    BY DEF TypeOK, RequestsAreTold, EventsTell
  <1>7. LookedFor'
    BY DEF TypeOK, LookedFor, ScanUnderWay, OneAttempt, EventsTell
  <1> QED
    BY <1>4, <1>5, <1>6, <1>7

-----------------------------------------------------------------------------
(* The event loop: what the events say reaches the flag in the order they  *)
(* were sent, so that the last one decides.                                *)
LEMMA OnOpenKeeps ==
  ASSUME IInv, MaxEvents \in Nat, OnOpen PROVE IInv'
  <1> USE DEF IInv, OnOpen, From, Goto, Tasks, Labels, Discs
  <1>1. kbd' \in KbdSet
    BY TypeParts DEF KbdSet
  <1>2. radio' \in RadioSet
    BY TypeParts DEF RadioSet
  <1>3. /\ at' \in [Tasks -> Labels] /\ notified' \in BOOLEAN /\ timer' \in BOOLEAN
        /\ nvs' \in Keyboards \cup {None} /\ seen' \in Keyboards \cup {None}
        /\ events' \in Seq({"open", "close"}) /\ Len(events') <= MaxEvents
    BY TypeParts, TailOfEvents DEF KbdSet, RadioSet
  <1>4. TypeOK'
    BY <1>1, <1>2, <1>3, TypeNext
  <1>5. ScanUnderWay' /\ OneAttempt'
    BY DEF TypeOK, ScanUnderWay, OneAttempt
  <1>6. RequestsAreTold'
    BY DEF TypeOK, RequestsAreTold
  <1>7. EventsTell'
    <2>1. events \in Seq({"open", "close"}) /\ events # <<>>
      BY TypeParts
    <2>2. /\ kbd' = [kbd EXCEPT !.connected = TRUE] /\ kbd \in KbdSet
          /\ events' = Tail(events) /\ radio' = radio
          /\ Head(events) = "open"
      BY TypeParts
    <2> QED
      BY <2>1, <2>2, TailOfEvents DEF EventsTell, KbdSet
  <1>8. LookedFor'
    BY DEF TypeOK, LookedFor, ScanUnderWay, OneAttempt, EventsTell
  <1> QED
    BY <1>4, <1>5, <1>6, <1>7, <1>8

LEMMA OnCloseKeeps ==
  ASSUME IInv, MaxEvents \in Nat, OnClose PROVE IInv'
  <1> USE DEF IInv, OnClose, From, Goto, Tasks, Labels, Discs
  <1>1. kbd' \in KbdSet
    BY TypeParts DEF KbdSet
  <1>2. radio' \in RadioSet
    BY TypeParts DEF RadioSet
  <1>3. /\ at' \in [Tasks -> Labels] /\ notified' \in BOOLEAN /\ timer' \in BOOLEAN
        /\ nvs' \in Keyboards \cup {None} /\ seen' \in Keyboards \cup {None}
        /\ events' \in Seq({"open", "close"}) /\ Len(events') <= MaxEvents
    BY TypeParts, TailOfEvents DEF KbdSet, RadioSet
  <1>4. TypeOK'
    BY <1>1, <1>2, <1>3, TypeNext
  <1>5. ScanUnderWay' /\ OneAttempt'
    BY DEF TypeOK, ScanUnderWay, OneAttempt
  <1>6. RequestsAreTold'
    BY DEF TypeOK, RequestsAreTold
  <1>7. EventsTell'
    <2>1. events \in Seq({"open", "close"}) /\ events # <<>>
      BY TypeParts
    <2>2. /\ kbd' = [kbd EXCEPT !.connected = FALSE, !.encrypted = FALSE] /\ kbd \in KbdSet
          /\ events' = Tail(events) /\ radio' = radio
          /\ Head(events) = "close"
      BY TypeParts
    <2> QED
      BY <2>1, <2>2, TailOfEvents DEF EventsTell, KbdSet
  <1>8. LookedFor'
    BY DEF TypeOK, LookedFor, ScanUnderWay, OneAttempt, EventsTell
  <1> QED
    BY <1>4, <1>5, <1>6, <1>7, <1>8

(* The timer asks for a scan and is about to tell the connect task.        *)
LEMMA TimerFiresKeeps ==
  ASSUME IInv, TimerFires PROVE IInv'
  <1> USE DEF IInv, TimerFires, From, Goto, Tasks, Labels, Discs
  <1>1. kbd' \in KbdSet
    <2>1. \A f \in KbdSet : [f EXCEPT !.scanRequested = TRUE] \in KbdSet
      BY DEF KbdSet
    <2> QED
      BY <2>1, TypeParts
  <1>2. radio' \in RadioSet
    BY TypeParts DEF RadioSet
  <1>3. at' \in [Tasks -> Labels]
    BY TypeParts
  <1>4. nvs' \in Keyboards \cup {None} /\ seen' \in Keyboards \cup {None}
        /\ notified' \in BOOLEAN /\ timer' \in BOOLEAN
    BY TypeParts DEF KbdSet, RadioSet
  <1>5. events' \in Seq({"open", "close"}) /\ Len(events') <= MaxEvents
    BY TypeParts
  <1>6. TypeOK'
    BY <1>1, <1>2, <1>3, <1>4, <1>5, TypeNext
  <1>7. ScanUnderWay' /\ OneAttempt'
    BY DEF TypeOK, ScanUnderWay, OneAttempt
  <1>8. RequestsAreTold' /\ EventsTell'
    BY DEF TypeOK, RequestsAreTold, EventsTell
  <1>9. LookedFor'
    BY DEF TypeOK, LookedFor, ScanUnderWay, OneAttempt, EventsTell
  <1> QED
    BY <1>6, <1>7, <1>8, <1>9

-----------------------------------------------------------------------------
(* The commands of the console, and a restart with the keyboard in NVS.    *)
LEMMA CallKeeps ==
  ASSUME IInv, NEW c \in {"scan", "connect"}, Call(c) PROVE IInv'
  <1> USE DEF IInv, Call, CancelConn, From, Goto, Tasks, Labels, Discs
  <1>1. kbd' \in KbdSet
    BY TypeParts DEF KbdSet
  <1>2. radio' \in RadioSet
    BY TypeParts DEF RadioSet
  <1>3. /\ at' \in [Tasks -> Labels] /\ notified' \in BOOLEAN /\ timer' \in BOOLEAN
        /\ nvs' \in Keyboards \cup {None} /\ seen' \in Keyboards \cup {None}
        /\ events' \in Seq({"open", "close"}) /\ Len(events') <= MaxEvents
    BY TypeParts DEF KbdSet, RadioSet
  <1>4. TypeOK'
    BY <1>1, <1>2, <1>3, TypeNext
  <1>5. ScanUnderWay' /\ OneAttempt'
    BY DEF TypeOK, ScanUnderWay, OneAttempt
  <1>6. RequestsAreTold' /\ EventsTell'
    BY DEF TypeOK, RequestsAreTold, EventsTell
  <1>7. LookedFor'
    BY DEF TypeOK, LookedFor, ScanUnderWay, OneAttempt, EventsTell
  <1> QED
    BY <1>4, <1>5, <1>6, <1>7

LEMMA CallDelayedKeeps ==
  ASSUME IInv, CallDelayed PROVE IInv'
  <1> USE DEF IInv, CallDelayed, From, Goto, Tasks, Labels, Discs
  <1>1. kbd' \in KbdSet
    BY TypeParts DEF KbdSet
  <1>2. radio' \in RadioSet
    BY TypeParts DEF RadioSet
  <1>3. /\ at' \in [Tasks -> Labels] /\ notified' \in BOOLEAN /\ timer' \in BOOLEAN
        /\ nvs' \in Keyboards \cup {None} /\ seen' \in Keyboards \cup {None}
        /\ events' \in Seq({"open", "close"}) /\ Len(events') <= MaxEvents
    BY TypeParts DEF KbdSet, RadioSet
  <1>4. TypeOK'
    BY <1>1, <1>2, <1>3, TypeNext
  <1>5. ScanUnderWay' /\ OneAttempt'
    BY DEF TypeOK, ScanUnderWay, OneAttempt
  <1>6. RequestsAreTold' /\ EventsTell'
    BY DEF TypeOK, RequestsAreTold, EventsTell
  <1>7. LookedFor'
    BY DEF TypeOK, LookedFor, ScanUnderWay, OneAttempt, EventsTell
  <1> QED
    BY <1>4, <1>5, <1>6, <1>7

LEMMA ScanAgainKeeps ==
  ASSUME IInv, ScanAgain PROVE IInv'
  <1> USE DEF IInv, ScanAgain, CancelDisc, From, Goto, Tasks, Labels, Discs
  <1>1. kbd' \in KbdSet
    BY TypeParts DEF KbdSet
  <1>2. radio' \in RadioSet
    BY TypeParts DEF RadioSet
  <1>3. /\ at' \in [Tasks -> Labels] /\ notified' \in BOOLEAN /\ timer' \in BOOLEAN
        /\ nvs' \in Keyboards \cup {None} /\ seen' \in Keyboards \cup {None}
        /\ events' \in Seq({"open", "close"}) /\ Len(events') <= MaxEvents
    BY TypeParts DEF KbdSet, RadioSet
  <1>4. TypeOK'
    BY <1>1, <1>2, <1>3, TypeNext
  <1>5. ScanUnderWay' /\ OneAttempt'
    BY DEF TypeOK, ScanUnderWay, OneAttempt
  <1>6. RequestsAreTold' /\ EventsTell'
    BY DEF TypeOK, RequestsAreTold, EventsTell
  <1>7. LookedFor'
    BY DEF TypeOK, LookedFor, ScanUnderWay, OneAttempt, EventsTell
  <1> QED
    BY <1>4, <1>5, <1>6, <1>7

LEMMA ConnectAgainKeeps ==
  ASSUME IInv, ConnectAgain PROVE IInv'
  <1> USE DEF IInv, ConnectAgain, CancelDisc, From, Goto, Tasks, Labels, Discs
  <1>1. kbd' \in KbdSet
    BY TypeParts DEF KbdSet
  <1>2. radio' \in RadioSet
    BY TypeParts DEF RadioSet
  <1>3. /\ at' \in [Tasks -> Labels] /\ notified' \in BOOLEAN /\ timer' \in BOOLEAN
        /\ nvs' \in Keyboards \cup {None} /\ seen' \in Keyboards \cup {None}
        /\ events' \in Seq({"open", "close"}) /\ Len(events') <= MaxEvents
    BY TypeParts DEF KbdSet, RadioSet
  <1>4. TypeOK'
    BY <1>1, <1>2, <1>3, TypeNext
  <1>5. ScanUnderWay' /\ OneAttempt'
    BY DEF TypeOK, ScanUnderWay, OneAttempt
  <1>6. RequestsAreTold' /\ EventsTell'
    BY DEF TypeOK, RequestsAreTold, EventsTell
  <1>7. LookedFor'
    BY DEF TypeOK, LookedFor, ScanUnderWay, OneAttempt, EventsTell
  <1> QED
    BY <1>4, <1>5, <1>6, <1>7

LEMMA ClearBondsKeeps ==
  ASSUME IInv, ClearBonds PROVE IInv'
  <1> USE DEF IInv, ClearBonds, From, Goto, Tasks, Labels, Discs
  <1>1. kbd' \in KbdSet
    BY TypeParts DEF KbdSet
  <1>2. radio' \in RadioSet
    BY TypeParts DEF RadioSet
  <1>3. /\ at' \in [Tasks -> Labels] /\ notified' \in BOOLEAN /\ timer' \in BOOLEAN
        /\ nvs' \in Keyboards \cup {None} /\ seen' \in Keyboards \cup {None}
        /\ events' \in Seq({"open", "close"}) /\ Len(events') <= MaxEvents
    BY TypeParts DEF KbdSet, RadioSet
  <1>4. TypeOK'
    BY <1>1, <1>2, <1>3, TypeNext
  <1>5. ScanUnderWay' /\ OneAttempt'
    BY DEF TypeOK, ScanUnderWay, OneAttempt
  <1>6. RequestsAreTold' /\ EventsTell'
    BY DEF TypeOK, RequestsAreTold, EventsTell
  <1>7. LookedFor'
    BY DEF TypeOK, LookedFor, ScanUnderWay, OneAttempt, EventsTell
  <1> QED
    BY <1>4, <1>5, <1>6, <1>7

LEMMA ForgetKeeps ==
  ASSUME IInv, Forget PROVE IInv'
  <1> USE DEF IInv, Forget, From, Goto, Tasks, Labels, Discs
  <1>1. kbd' \in KbdSet
    BY TypeParts DEF KbdSet
  <1>2. radio' \in RadioSet
    BY TypeParts DEF RadioSet
  <1>3. /\ at' \in [Tasks -> Labels] /\ notified' \in BOOLEAN /\ timer' \in BOOLEAN
        /\ nvs' \in Keyboards \cup {None} /\ seen' \in Keyboards \cup {None}
        /\ events' \in Seq({"open", "close"}) /\ Len(events') <= MaxEvents
    BY TypeParts DEF KbdSet, RadioSet
  <1>4. TypeOK'
    BY <1>1, <1>2, <1>3, TypeNext
  <1>5. ScanUnderWay' /\ OneAttempt'
    BY DEF TypeOK, ScanUnderWay, OneAttempt
  <1>6. RequestsAreTold' /\ EventsTell'
    BY DEF TypeOK, RequestsAreTold, EventsTell
  <1>7. LookedFor'
    BY DEF TypeOK, LookedFor, ScanUnderWay, OneAttempt, EventsTell
  <1> QED
    BY <1>4, <1>5, <1>6, <1>7

LEMMA RestartKeeps ==
  ASSUME IInv, MaxEvents \in Nat, Restart PROVE IInv'
  <1> USE DEF IInv, Restart, Flags, AllIdle, RadioOff, From, Goto, Tasks, Labels, Discs
  <1>1. kbd' \in KbdSet
    BY TypeParts DEF KbdSet
  <1>2. radio' \in RadioSet
    BY TypeParts DEF RadioSet
  <1>3. at' \in [Tasks -> Labels]
    BY TypeParts
  <1>4. nvs' \in Keyboards \cup {None} /\ seen' \in Keyboards \cup {None}
        /\ notified' \in BOOLEAN /\ timer' \in BOOLEAN
    BY TypeParts DEF KbdSet, RadioSet
  <1>5. events' \in Seq({"open", "close"}) /\ Len(events') <= MaxEvents
    BY TypeParts
  <1>6. TypeOK'
    BY <1>1, <1>2, <1>3, <1>4, <1>5, TypeNext
  <1>7. ScanUnderWay' /\ OneAttempt'
    BY DEF TypeOK, ScanUnderWay, OneAttempt
  <1>8. RequestsAreTold' /\ EventsTell'
    BY DEF TypeOK, RequestsAreTold, EventsTell
  <1>9. LookedFor'
    BY DEF TypeOK, LookedFor, ScanUnderWay, OneAttempt, EventsTell
  <1> QED
    BY <1>6, <1>7, <1>8, <1>9

-----------------------------------------------------------------------------
LEMMA StutterKeeps ==
  ASSUME IInv, UNCHANGED vars PROVE IInv'
  BY DEF IInv, vars, TypeOK, ScanUnderWay, OneAttempt, RequestsAreTold, EventsTell, LookedFor

LEMMA InitInv ==
  ASSUME Init, MaxEvents \in Nat PROVE IInv
  <1>1. TypeOK
    <2>1. Flags(nvs) \in KbdSet  BY DEF Init, Flags, KbdSet
    <2>2. RadioOff \in RadioSet  BY DEF RadioOff, RadioSet, Discs
    <2>3. AllIdle \in [Tasks -> Labels]  BY DEF AllIdle, Labels
    <2>4. events \in Seq({"open", "close"}) /\ Len(events) <= MaxEvents  BY DEF Init
    <2>5. nvs \in Keyboards \cup {None} /\ seen \in Keyboards \cup {None}
          /\ notified \in BOOLEAN /\ timer \in BOOLEAN
          /\ kbd = Flags(nvs) /\ radio = RadioOff /\ at = AllIdle
      BY DEF Init
    <2> QED BY <2>1, <2>2, <2>3, <2>4, <2>5 DEF TypeOK, KbdSet, RadioSet
  <1>2. ScanUnderWay /\ OneAttempt /\ RequestsAreTold /\ EventsTell /\ LookedFor
    BY DEF Init, Flags, RadioOff, AllIdle, ScanUnderWay, OneAttempt, RequestsAreTold, EventsTell,
           LookedFor
  <1> QED BY <1>1, <1>2 DEF IInv

LEMMA StepInv ==
  ASSUME MaxEvents \in Nat, IInv, [Next]_vars PROVE IInv'
  <1>1. ASSUME NEW t \in Tasks, BackgroundScan(t) PROVE IInv'
    BY <1>1, ScanNotNeededKeeps, ScanAtOnceKeeps, ScanAfterCancelKeeps, ScanDelayedKeeps,
       ScanFlagsKeeps, ScanStartsKeeps, ScanFailsKeeps
       DEF BackgroundScan
  <1>2. ASSUME NEW t \in Tasks, GeneralScan(t) PROVE IInv'
    BY <1>2, GeneralNotNeededKeeps, GeneralFlagsKeeps, GeneralStartsKeeps, GeneralFailsKeeps
       DEF GeneralScan
  <1>3. CASE ConnectTask
    BY <1>1, <1>3, WakeToScanKeeps, WakeForNothingKeeps, WakeToConnectKeeps, OpenKeeps,
       OpenedKeeps, NotOpenedKeeps
       DEF ConnectTask, Tasks
  <1>4. CASE HostTask
    BY <1>1, <1>2, <1>4, AdoptKeeps, RequestKeeps, ScanCompleteKeeps, NotifyKeeps
       DEF HostTask, Tasks
  <1>5. CASE EventTask
    BY <1>1, <1>5, OnOpenKeeps, OnCloseKeeps DEF EventTask, Tasks
  <1>6. CASE TimerTask
    BY <1>6, TimerFiresKeeps, NotifyKeeps DEF TimerTask
  <1>7. CASE AppTask
    BY <1>1, <1>2, <1>7, CallDelayedKeeps, ScanAgainKeeps, ConnectAgainKeeps, ForgetKeeps,
       NotifyKeeps
       DEF AppTask, Tasks
  <1>8. CASE \E k \in Keyboards : Found(k)  BY <1>8, FoundKeeps
  <1>9. CASE LinkUp \/ Encrypted \/ DeviceOpened \/ Cancelled \/ ScanTimeout \/ Sync
    BY <1>9, LinkUpKeeps, EncryptedKeeps, DeviceOpenedKeeps, FailsKeeps, ScanTimeoutKeeps,
       SyncKeeps
       DEF Cancelled
  <1>10. CASE Fault
    BY <1>10, RestartKeeps, ResetKeeps, LinkLostKeeps, FailsKeeps, CallKeeps, ClearBondsKeeps
       DEF Fault, Refused
  <1>11. CASE UNCHANGED vars  BY <1>11, StutterKeeps
  <1> QED BY <1>3, <1>4, <1>5, <1>6, <1>7, <1>8, <1>9, <1>10, <1>11 DEF Next

LEMMA Invariance ==
  ASSUME MaxEvents \in Nat PROVE Spec => []IInv
  <1>1. Init => IInv  BY InitInv
  <1>2. IInv /\ [Next]_vars => IInv'  BY StepInv
  <1> QED BY <1>1, <1>2, PTL DEF Spec

(* "Background scan for saved keyboard" (bt_keyboard.c:519): when no task,  *)
(* timer or event has anything left to do, a saved keyboard is connected or *)
(* scanned for, whatever was asked, refused, lost and reset before.        *)
THEOREM NobodyAdrift ==
  ASSUME MaxEvents \in Nat PROVE Spec => []NeverAdrift
  <1>1. IInv => NeverAdrift
    BY DEF IInv, NeverAdrift, Quiet, LookedFor, RequestsAreTold, Tasks
  <1>2. Spec => []IInv  BY Invariance
  <1> QED BY <1>1, <1>2, PTL

(* bt_keyboard_connected tells whether the keyboard is open once the event  *)
(* loop has nothing left, through links lost while others open.            *)
THEOREM ConnectedIsTrue ==
  ASSUME MaxEvents \in Nat PROVE Spec => []ConnectedHasLink
  <1>1. IInv => ConnectedHasLink
    BY DEF IInv, ConnectedHasLink, Quiet, EventsTell
  <1>2. Spec => []IInv  BY Invariance
  <1> QED BY <1>1, <1>2, PTL
=============================================================================
