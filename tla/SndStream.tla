----------------------------- MODULE SndStream -----------------------------
(***************************************************************************)
(* The PCM stream of breezy_sound (snd_core.c): the single-producer,       *)
(* single-consumer ring between an app and the mixer task, and the mixer's *)
(* loop with its power and wake-up protocol.  Every shared variable is read *)
(* and written in a step of its own, as the code takes no lock here.       *)
(*                                                                         *)
(* The synth is one flag (its voices are SndVoices); a stereo frame is a   *)
(* value.  On one core the mixer, of higher priority, runs until it blocks *)
(* (DualCore = FALSE); on two, the app's steps fall anywhere between the    *)
(* mixer's.                                                                *)
(***************************************************************************)
EXTENDS Integers, Sequences

CONSTANTS
  Frames,          \* the values of a stereo frame
  STREAM_FRAMES,   \* slots of the ring
  CounterMod,      \* head and tail wrap at 2^32, a multiple of STREAM_FRAMES
  CHUNK_FRAMES,    \* frames mixed per turn of the loop
  DRAIN_CHUNKS,    \* silent chunks before power-off
  MaxWrite,        \* the longest write an app asks for
  DualCore,
  Reopens          \* whether the stream is claimed more than once

ASSUME StreamAssumption ==
  /\ Frames # {}
  /\ STREAM_FRAMES \in Nat \ {0} /\ CHUNK_FRAMES \in Nat \ {0}
  /\ CounterMod \in Nat /\ CounterMod > STREAM_FRAMES
  /\ CounterMod % STREAM_FRAMES = 0
  /\ DRAIN_CHUNKS \in Nat /\ MaxWrite \in Nat
  /\ DualCore \in BOOLEAN /\ Reopens \in BOOLEAN

VARIABLES
  buf, head, tail,   \* g_stream_buf, g_str_head, g_str_tail
  on,                \* g_stream_on
  opened,            \* the stream has been claimed before
  app,               \* the app: where it is in which call, with its locals
  mixer,             \* the mixer task, likewise
  synth,             \* a voice sounds
  powered, silence,  \* g_powered, silence_chunks
  notified,          \* the mixer's task notification
  played             \* the last frame mixed in

ring == <<buf, head, tail, on, opened>>
power == <<powered, silence>>
vars == <<ring, app, mixer, synth, power, notified, played>>

Counter == 0 .. CounterMod - 1

(* uint32_t arithmetic on the counters, and a counter's slot.              *)
Inc(c) == IF c = CounterMod - 1 THEN 0 ELSE c + 1

MutantDist(h, t) == h - t

Dist(h, t) == IF h >= t THEN h - t ELSE h - t + CounterMod
Slot(c) == c % STREAM_FRAMES

Space == STREAM_FRAMES - Dist(head, tail)

(* An app between calls, and the mixer between chunks, keep no locals.     *)
Idle == [pc |-> "idle", asked |-> 0, n |-> 0, left |-> 0, head |-> 0, promised |-> 0]

Between(p, f) ==
  [pc |-> p, active |-> FALSE, left |-> 0, avail |-> 0, tail |-> 0, frame |-> f]

AppAt(p) == app.pc = p /\ (DualCore \/ mixer.pc \in {"blocked", "waiting"})
AppGoes(p) == app' = [app EXCEPT !.pc = p]

MixerAt(p) == mixer.pc = p
MixerGoes(p) == mixer' = [mixer EXCEPT !.pc = p]

MixerRests == UNCHANGED <<mixer, power, played>>
AppRests == UNCHANGED <<app, opened>>

-----------------------------------------------------------------------------
(* The app.  snd_stream_open on a free stream resets both counters, marks  *)
(* it open and wakes the mixer.                                            *)
Open ==
  /\ AppAt("idle") /\ ~on /\ (opened => Reopens)
  /\ head' = 0 /\ opened' = TRUE /\ AppGoes("tail")
  /\ MixerRests /\ UNCHANGED <<buf, tail, on, synth, notified>>

OpenTail ==
  /\ AppAt("tail") /\ tail' = 0 /\ AppGoes("on")
  /\ MixerRests /\ UNCHANGED <<buf, head, on, opened, synth, notified>>

OpenOn ==
  /\ AppAt("on") /\ on' = TRUE /\ AppGoes("notify")
  /\ MixerRests /\ UNCHANGED <<buf, head, tail, opened, synth, notified>>

(* snd_note_on: a voice starts, then the mixer is woken.                   *)
NoteOn ==
  /\ AppAt("idle") /\ synth' = TRUE /\ AppGoes("notify")
  /\ MixerRests /\ UNCHANGED <<ring, notified>>

MutantNotify ==
  /\ AppAt("notify") /\ AppGoes("idle")
  /\ notified' = (notified \/ (mixer.pc = "waiting"))
  /\ MixerRests /\ UNCHANGED <<ring, synth>>

(* xTaskNotifyGive *)
Notify ==
  /\ AppAt("notify") /\ notified' = TRUE /\ AppGoes("idle")
  /\ MixerRests /\ UNCHANGED <<ring, synth>>

(* snd_stream_space, which an app polls before it writes.                  *)
PollSpace ==
  /\ AppAt("idle") /\ on
  /\ app' = [app EXCEPT !.promised = Space]
  /\ MixerRests /\ UNCHANGED <<ring, synth, notified>>

MutantWrite ==
  /\ AppAt("idle") /\ on
  /\ \E n \in 0 .. MaxWrite :
       app' = [app EXCEPT !.pc = "copy", !.asked = n, !.n = n, !.left = n, !.head = head]
  /\ MixerRests /\ UNCHANGED <<ring, synth, notified>>

MutantWriteEarly ==
  /\ AppAt("idle") /\ on
  /\ \E n \in 0 .. MaxWrite :
       LET m == IF n > Space THEN Space ELSE n IN
       /\ app' = [app EXCEPT !.pc = "copy", !.asked = n, !.n = m, !.left = m, !.head = head]
       /\ head' = (head + m) % CounterMod
  /\ MixerRests /\ UNCHANGED <<buf, tail, on, opened, synth, notified>>

(* snd_stream_write accepts what fits, copies it frame by frame and only   *)
(* then publishes the new head.                                            *)
Write ==
  /\ AppAt("idle") /\ on
  /\ \E n \in 0 .. MaxWrite :
       LET m == IF n > Space THEN Space ELSE n IN
       app' = [app EXCEPT !.pc = "copy", !.asked = n, !.n = m, !.left = m, !.head = head]
  /\ MixerRests /\ UNCHANGED <<ring, synth, notified>>

Copy ==
  /\ AppAt("copy") /\ app.left > 0
  /\ \E f \in Frames : buf' = [buf EXCEPT ![Slot(app.head)] = f]
  /\ app' = [app EXCEPT !.head = Inc(@), !.left = @ - 1]
  /\ MixerRests /\ UNCHANGED <<head, tail, on, opened, synth, notified>>

Publish ==
  /\ AppAt("copy") /\ app.left = 0
  /\ head' = app.head
  /\ app' = [Idle EXCEPT !.promised =
               IF app.promised > app.n THEN app.promised - app.n ELSE 0]
  /\ MixerRests /\ UNCHANGED <<buf, tail, on, opened, synth, notified>>

(* snd_stream_close, also from snd_all_off when the app exits.             *)
Close ==
  /\ AppAt("idle") /\ on
  /\ on' = FALSE /\ app' = Idle
  /\ MixerRests /\ UNCHANGED <<buf, head, tail, opened, synth, notified>>

-----------------------------------------------------------------------------
(* The mixer task.  render_chunk plays the voices; the last of them may end*)
(* in this chunk.                                                          *)
Render ==
  /\ MixerAt("render")
  /\ mixer' = [mixer EXCEPT !.pc = "check", !.active = synth]
  /\ synth' \in {synth, FALSE}
  /\ AppRests /\ UNCHANGED <<buf, head, tail, on, power, notified, played>>

(* A voice or an open stream keeps the output powered; without either it   *)
(* drains for DRAIN_CHUNKS chunks, stops, and the task sleeps.             *)
PowerOn ==
  /\ MixerAt("check") /\ (mixer.active \/ on)
  /\ powered' = TRUE /\ silence' = 0 /\ MixerGoes("fetch")
  /\ AppRests /\ UNCHANGED <<buf, head, tail, on, synth, notified, played>>

Drain ==
  /\ MixerAt("check") /\ ~mixer.active /\ ~on
  /\ powered /\ silence < DRAIN_CHUNKS
  /\ silence' = silence + 1 /\ MixerGoes("fetch")
  /\ AppRests /\ UNCHANGED <<buf, head, tail, on, synth, powered, notified, played>>

PowerOff ==
  /\ MixerAt("check") /\ ~mixer.active /\ ~on
  /\ powered => silence >= DRAIN_CHUNKS
  /\ powered' = FALSE /\ silence' = (IF powered THEN 0 ELSE silence)
  /\ MixerGoes("stopped")
  /\ AppRests /\ UNCHANGED <<buf, head, tail, on, synth, notified, played>>

(* ulTaskNotifyTake *)
Sleep ==
  /\ MixerAt("stopped") /\ MixerGoes("waiting")
  /\ AppRests /\ UNCHANGED <<buf, head, tail, on, synth, power, notified, played>>

Wake ==
  /\ MixerAt("waiting") /\ notified
  /\ notified' = FALSE /\ MixerGoes("render")
  /\ AppRests /\ UNCHANGED <<buf, head, tail, on, synth, power, played>>

(* The output stage: at most the frames there when the chunk began.        *)
Fetch ==
  /\ MixerAt("fetch")
  /\ mixer' = [mixer EXCEPT !.pc = "mix", !.left = CHUNK_FRAMES,
                 !.avail = IF on THEN Dist(head, tail) ELSE 0]
  /\ AppRests /\ UNCHANGED <<buf, head, tail, on, synth, power, notified, played>>

MixFrame ==
  /\ MixerAt("mix") /\ mixer.left > 0 /\ mixer.avail > 0
  /\ mixer' = [mixer EXCEPT !.pc = "load", !.frame = buf[Slot(tail)]]
  /\ AppRests /\ UNCHANGED <<buf, head, tail, on, synth, power, notified, played>>

(* g_str_tail = g_str_tail + 1, a load and a store.                        *)
LoadTail ==
  /\ MixerAt("load")
  /\ mixer' = [mixer EXCEPT !.pc = "store", !.tail = Inc(tail)]
  /\ AppRests /\ UNCHANGED <<buf, head, tail, on, synth, power, notified, played>>

MutantStoreTail ==
  /\ MixerAt("store")
  /\ tail' = mixer.tail /\ played' = mixer.frame
  /\ mixer' = [mixer EXCEPT !.pc = "mix", !.left = @ - 1]
  /\ AppRests /\ UNCHANGED <<buf, head, on, synth, power, notified>>

StoreTail ==
  /\ MixerAt("store")
  /\ tail' = mixer.tail /\ played' = mixer.frame
  /\ mixer' = [mixer EXCEPT !.pc = "mix", !.left = @ - 1, !.avail = @ - 1]
  /\ AppRests /\ UNCHANGED <<buf, head, on, synth, power, notified>>

(* An underrun is silence for the rest of the chunk.  snd_port_write blocks *)
(* until the output has room.                                              *)
WriteOut ==
  /\ MixerAt("mix") /\ (mixer.left = 0 \/ mixer.avail = 0)
  /\ mixer' = Between("blocked", mixer.frame)
  /\ AppRests /\ UNCHANGED <<buf, head, tail, on, synth, power, notified, played>>

Unblock ==
  /\ MixerAt("blocked") /\ MixerGoes("render")
  /\ AppRests /\ UNCHANGED <<buf, head, tail, on, synth, power, notified, played>>

-----------------------------------------------------------------------------
Init ==
  /\ \E f \in Frames :
       /\ buf = [s \in 0 .. STREAM_FRAMES - 1 |-> f] /\ played = f
       /\ mixer = Between("render", f)
  /\ head = 0 /\ tail = 0 /\ on = FALSE /\ opened = FALSE
  /\ app = Idle
  /\ synth = FALSE /\ powered = FALSE /\ silence = 0 /\ notified = FALSE

(* The rest of a call that an app has begun.                               *)
AppGoesOn == OpenTail \/ OpenOn \/ Notify \/ Copy \/ Publish

Mixer == Render \/ PowerOn \/ Drain \/ PowerOff \/ Sleep \/ Wake \/ Fetch \/ MixFrame
         \/ LoadTail \/ StoreTail \/ WriteOut \/ Unblock

Next == Open \/ NoteOn \/ PollSpace \/ Write \/ Close \/ AppGoesOn \/ Mixer

Spec == Init /\ [][Next]_vars

(* Fairness: FreeRTOS runs a ready task, the output keeps taking samples,  *)
(* and the app finishes the calls it makes.  The app need call nothing.    *)
FairSpec == Spec /\ WF_vars(Mixer) /\ SF_vars(AppGoesOn)

-----------------------------------------------------------------------------
(* Properties.                                                             *)

AppType ==
  [pc: {"idle", "tail", "on", "notify", "copy"}, asked: 0 .. MaxWrite,
   n: Nat, left: Nat, head: Counter, promised: 0 .. STREAM_FRAMES]

MixerType ==
  [pc: {"render", "check", "fetch", "mix", "load", "store", "blocked", "stopped",
        "waiting"},
   active: BOOLEAN, left: 0 .. CHUNK_FRAMES, avail: 0 .. STREAM_FRAMES,
   tail: Counter, frame: Frames]

TypeOK ==
  /\ buf \in [0 .. STREAM_FRAMES - 1 -> Frames] /\ played \in Frames
  /\ head \in Counter /\ tail \in Counter
  /\ on \in BOOLEAN /\ opened \in BOOLEAN /\ synth \in BOOLEAN
  /\ powered \in BOOLEAN /\ notified \in BOOLEAN
  /\ silence \in 0 .. DRAIN_CHUNKS
  /\ app \in AppType /\ mixer \in MixerType

(* The ring never holds more frames than it has slots: the writer's copy   *)
(* stays clear of the frames the mixer has yet to play, across wraps of the *)
(* free-running counters and new claims of the stream.                     *)
RingBounded ==
  app.pc # "tail" =>
    Dist(head, tail) + (IF app.pc = "copy" THEN app.n ELSE 0) <= STREAM_FRAMES

(* snd_core.h, "Frames writable right now without dropping": whenever the  *)
(* stream is open snd_stream_space would answer a number of free slots, and *)
(* a write of no more than it has answered is accepted whole.              *)
SpaceIsHonest ==
  /\ on => Space \in 0 .. STREAM_FRAMES
  /\ app.pc = "copy" /\ app.asked <= app.promised => app.n = app.asked

(* The frames queued: n of them from counter t on.  Once a claim has zeroed *)
(* the head the old frames are gone, though the tail still is where it was. *)
Contents(b, t, n) == [j \in 1 .. n |-> b[Slot(t + j - 1)]]

Queue == IF app.pc = "tail" THEN <<>> ELSE Contents(buf, tail, Dist(head, tail))

(* The stream is the FIFO of snd_core.h.                                   *)
Stream == INSTANCE Fifo WITH Capacity <- STREAM_FRAMES, open <- on, queue <- Queue

StreamIsFifo == Stream!Spec

(* A queued frame is played unless the stream is closed: the mixer does not *)
(* sleep through a claim, nor stay off with frames to play.                *)
QueuedFramePlays ==
  \A t \in Counter : on /\ tail = t /\ head # t ~> ~on \/ tail # t

(* A note started while the output is off, or going off, is heard.         *)
NoteIsHeard == synth ~> powered /\ mixer.pc = "blocked"
=============================================================================
