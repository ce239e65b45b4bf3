-------------------------- MODULE SndStreamProofs --------------------------
(***************************************************************************)
(* Theorems about SndStream, for every ring, counter width, chunk and      *)
(* length of write: the ring never overflows and the space an app is told   *)
(* of is there, when the mixer cannot be in the middle of a chunk while the *)
(* stream is claimed again (one core, or one claim).  Without that neither *)
(* holds: a stale store of the tail undoes the reset of a claim.           *)
(*                                                                         *)
(* Under the same assumption SndStream implements Fifo: the ring's steps   *)
(* are steps of the queue that snd_core.h promises, or change nothing of it. *)
(***************************************************************************)
EXTENDS SndStream, SequenceTheorems, TLAPS

(* Arithmetic of the wrapping counters.                                    *)
LEMMA DistArith ==
  ASSUME NEW h \in Counter, NEW t \in Counter
  PROVE  /\ Inc(h) \in Counter /\ 0 \in Counter /\ Dist(h, t) \in Counter
         /\ Dist(h, t) \in Nat /\ Dist(h, h) = 0
         /\ Dist(h, t) > 0 => Dist(h, Inc(t)) = Dist(h, t) - 1
         /\ Dist(h, t) < CounterMod - 1 => Dist(Inc(h), t) = Dist(h, t) + 1
  BY StreamAssumption DEF Counter, Inc, Dist

LEMMA SlotType == ASSUME NEW c \in Counter PROVE Slot(c) \in 0 .. STREAM_FRAMES - 1
  BY StreamAssumption DEF Counter, Slot

-----------------------------------------------------------------------------
(* The inductive invariant.                                                *)

Mixing == mixer.pc \in {"mix", "load", "store"}
Claiming == app.pc \in {"tail", "on"}

(* The mixer consumes no more than is queued, and is between chunks while  *)
(* the stream is claimed.                                                  *)
MixerOK ==
  /\ ~Mixing => mixer.avail = 0
  /\ mixer.pc \in {"load", "store"} => mixer.avail > 0 /\ mixer.left > 0
  /\ mixer.pc = "store" => mixer.tail = Inc(tail)
  /\ ~Claiming => mixer.avail <= Dist(head, tail)
  /\ Claiming => ~on /\ opened /\ mixer.avail = 0
  /\ ~opened => ~on /\ mixer.avail = 0

(* The writer stays within the free slots.                                 *)
WriterOK ==
  /\ app.pc = "on" => head = 0 /\ tail = 0
  /\ app.pc = "tail" => head = 0
  /\ app.pc # "tail" => Dist(head, tail) <= STREAM_FRAMES
  /\ app.pc = "copy" =>
       /\ app.left <= app.n
       /\ Dist(head, tail) + app.n <= STREAM_FRAMES
       /\ Dist(app.head, tail) = Dist(head, tail) + app.n - app.left

(* What an app was told is still free.                                     *)
PromiseOK ==
  /\ ~on => app.promised = 0
  /\ app.pc # "tail" => app.promised + Dist(head, tail) <= STREAM_FRAMES
  /\ app.pc = "copy" /\ app.asked <= app.promised => app.n = app.asked

IInv == TypeOK /\ MixerOK /\ WriterOK /\ PromiseOK

MixerBetweenClaims == ~DualCore \/ ~Reopens

LEMMA InitInv == Init => IInv
  <1> SUFFICES ASSUME Init PROVE IInv
    OBVIOUS
  <1>1. 0 \in Counter /\ Dist(0, 0) = 0
    BY StreamAssumption DEF Counter, Dist
  <1>2. TypeOK
    <2>1. PICK f \in Frames : /\ buf = [s \in 0 .. STREAM_FRAMES - 1 |-> f] /\ played = f
                            /\ mixer = Between("render", f)
      BY DEF Init
    <2>2. mixer \in MixerType
      BY <1>1, <2>1, StreamAssumption DEF MixerType, Between
    <2>3. app \in AppType
      BY <1>1, StreamAssumption DEF Init, AppType, Idle
    <2>4. buf \in [0 .. STREAM_FRAMES - 1 -> Frames] /\ 0 \in 0 .. DRAIN_CHUNKS
      BY <2>1, StreamAssumption
    <2> QED
      BY <1>1, <2>1, <2>2, <2>3, <2>4 DEF Init, TypeOK
  <1>3. MixerOK /\ WriterOK /\ PromiseOK
    BY <1>1, StreamAssumption
    DEF Init, MixerOK, WriterOK, PromiseOK, Mixing, Claiming, Idle, Between
  <1> QED
    BY <1>2, <1>3 DEF IInv

LEMMA StepKeepsInv ==
  ASSUME MixerBetweenClaims
  PROVE  IInv /\ [Next]_vars => IInv'
  <1> SUFFICES ASSUME IInv, [Next]_vars PROVE IInv'
    OBVIOUS
  <1> USE StreamAssumption
  <1>inv. MixerOK /\ WriterOK /\ PromiseOK
    BY DEF IInv
  <1>zero. 0 \in 0 .. DRAIN_CHUNKS /\ CHUNK_FRAMES \in 0 .. CHUNK_FRAMES
    OBVIOUS
  <1>types. /\ head \in Counter /\ tail \in Counter
            /\ app.head \in Counter /\ mixer.tail \in Counter
    BY DEF IInv, TypeOK, AppType, MixerType
  <1>dist. /\ Inc(tail) \in Counter /\ Inc(app.head) \in Counter /\ 0 \in Counter
           /\ Dist(head, tail) \in Counter /\ Dist(app.head, tail) \in Counter
           /\ Dist(head, tail) \in Nat /\ Dist(app.head, tail) \in Nat
           /\ Dist(0, 0) = 0
    BY <1>types, DistArith
  <1>nums. /\ app.n \in Nat /\ app.left \in Nat /\ app.promised \in Nat
           /\ mixer.avail \in Nat /\ mixer.left \in Nat /\ app.asked \in Nat
           /\ mixer.left <= CHUNK_FRAMES /\ mixer.avail <= STREAM_FRAMES
           /\ app.asked <= MaxWrite /\ app.promised <= STREAM_FRAMES
           /\ app.pc # "tail" => Dist(head, tail) <= STREAM_FRAMES
    BY DEF IInv, TypeOK, AppType, MixerType, WriterOK
  <1>Open. CASE Open
    <2>eff. /\ app.pc = "idle" /\ ~on /\ (opened => Reopens) /\ (~DualCore => mixer.pc \in {"blocked", "waiting"})
            /\ head' = 0 /\ tail' = tail /\ on' = on /\ opened' = TRUE
            /\ mixer' = mixer
            /\ app'.pc = "tail" /\ app'.asked = app.asked /\ app'.n = app.n
            /\ app'.left = app.left /\ app'.head = app.head /\ app'.promised = app.promised
      BY <1>Open DEF IInv, TypeOK, AppType, Open, AppAt, AppGoes, MixerRests, power
    <2>app. app' \in AppType
      BY <1>Open, <2>eff, <1>types, <1>dist, <1>nums DEF IInv, TypeOK, AppType,
      Open, AppAt, AppGoes, MixerRests, power
    <2>TypeOK. TypeOK'
      BY <1>Open, <2>eff, <1>types, <1>dist, <1>nums, <2>app DEF IInv, TypeOK,
      Open, AppAt, AppGoes, MixerRests, power
    <2>MixerOK. MixerOK'
      BY <2>eff, <1>types, <1>dist, <1>nums, <1>inv, MixerBetweenClaims DEF
      MixerOK, Mixing, Claiming, MixerBetweenClaims
    <2>WriterOK. WriterOK'
      BY <2>eff, <1>types, <1>dist, <1>nums, <1>inv DEF WriterOK, MixerOK, Claiming
    <2>PromiseOK. PromiseOK'
      BY <2>eff, <1>types, <1>dist, <1>nums, <1>inv DEF PromiseOK, WriterOK, Claiming
    <2> QED
      BY <2>TypeOK, <2>MixerOK, <2>WriterOK, <2>PromiseOK DEF IInv
  <1>OpenTail. CASE OpenTail
    <2>eff. /\ app.pc = "tail"
            /\ head' = head /\ tail' = 0 /\ on' = on /\ opened' = opened
            /\ mixer' = mixer
            /\ app'.pc = "on" /\ app'.asked = app.asked /\ app'.n = app.n
            /\ app'.left = app.left /\ app'.head = app.head /\ app'.promised = app.promised
      BY <1>OpenTail DEF IInv, TypeOK, AppType, OpenTail, AppAt, AppGoes, MixerRests, power
    <2>app. app' \in AppType
      BY <1>OpenTail, <2>eff, <1>types, <1>dist, <1>nums DEF IInv, TypeOK,
      AppType, OpenTail, AppAt, AppGoes, MixerRests, power
    <2>TypeOK. TypeOK'
      BY <1>OpenTail, <2>eff, <1>types, <1>dist, <1>nums, <2>app DEF IInv, TypeOK,
      OpenTail, AppAt, AppGoes, MixerRests, power
    <2>MixerOK. MixerOK'
      BY <2>eff, <1>types, <1>dist, <1>nums, <1>inv DEF MixerOK, Mixing, Claiming
    <2>WriterOK. WriterOK'
      BY <2>eff, <1>types, <1>dist, <1>nums, <1>inv DEF WriterOK, MixerOK, Claiming
    <2>PromiseOK. PromiseOK'
      BY <2>eff, <1>types, <1>dist, <1>nums, <1>inv DEF PromiseOK, WriterOK, Claiming
    <2> QED
      BY <2>TypeOK, <2>MixerOK, <2>WriterOK, <2>PromiseOK DEF IInv
  <1>OpenOn. CASE OpenOn
    <2>eff. /\ app.pc = "on"
            /\ head' = head /\ tail' = tail /\ on' = TRUE /\ opened' = opened
            /\ mixer' = mixer
            /\ app'.pc = "notify" /\ app'.asked = app.asked /\ app'.n = app.n
            /\ app'.left = app.left /\ app'.head = app.head /\ app'.promised = app.promised
      BY <1>OpenOn DEF IInv, TypeOK, AppType, OpenOn, AppAt, AppGoes, MixerRests, power
    <2>app. app' \in AppType
      BY <1>OpenOn, <2>eff, <1>types, <1>dist, <1>nums DEF IInv, TypeOK, AppType,
      OpenOn, AppAt, AppGoes, MixerRests, power
    <2>TypeOK. TypeOK'
      BY <1>OpenOn, <2>eff, <1>types, <1>dist, <1>nums, <2>app DEF IInv, TypeOK,
      OpenOn, AppAt, AppGoes, MixerRests, power
    <2>MixerOK. MixerOK'
      BY <2>eff, <1>types, <1>dist, <1>nums, <1>inv DEF MixerOK, Mixing, Claiming
    <2>WriterOK. WriterOK'
      BY <2>eff, <1>types, <1>dist, <1>nums, <1>inv DEF WriterOK, MixerOK, Claiming
    <2>PromiseOK. PromiseOK'
      BY <2>eff, <1>types, <1>dist, <1>nums, <1>inv DEF PromiseOK, WriterOK, Claiming
    <2> QED
      BY <2>TypeOK, <2>MixerOK, <2>WriterOK, <2>PromiseOK DEF IInv
  <1>NoteOn. CASE NoteOn
    <2>eff. /\ app.pc = "idle"
            /\ head' = head /\ tail' = tail /\ on' = on /\ opened' = opened
            /\ mixer' = mixer
            /\ app'.pc = "notify" /\ app'.asked = app.asked /\ app'.n = app.n
            /\ app'.left = app.left /\ app'.head = app.head /\ app'.promised = app.promised
      BY <1>NoteOn DEF IInv, TypeOK, AppType, NoteOn, AppAt, AppGoes, MixerRests,
      ring, power
    <2>app. app' \in AppType
      BY <1>NoteOn, <2>eff, <1>types, <1>dist, <1>nums DEF IInv, TypeOK, AppType,
      NoteOn, AppAt, AppGoes, MixerRests, ring, power
    <2>TypeOK. TypeOK'
      BY <1>NoteOn, <2>eff, <1>types, <1>dist, <1>nums, <2>app DEF IInv, TypeOK,
      NoteOn, AppAt, AppGoes, MixerRests, ring, power
    <2>MixerOK. MixerOK'
      BY <2>eff, <1>types, <1>dist, <1>nums, <1>inv DEF MixerOK, Mixing, Claiming
    <2>WriterOK. WriterOK'
      BY <2>eff, <1>types, <1>dist, <1>nums, <1>inv DEF WriterOK, MixerOK, Claiming
    <2>PromiseOK. PromiseOK'
      BY <2>eff, <1>types, <1>dist, <1>nums, <1>inv DEF PromiseOK, WriterOK, Claiming
    <2> QED
      BY <2>TypeOK, <2>MixerOK, <2>WriterOK, <2>PromiseOK DEF IInv
  <1>Notify. CASE Notify
    <2>eff. /\ app.pc = "notify"
            /\ head' = head /\ tail' = tail /\ on' = on /\ opened' = opened
            /\ mixer' = mixer
            /\ app'.pc = "idle" /\ app'.asked = app.asked /\ app'.n = app.n
            /\ app'.left = app.left /\ app'.head = app.head /\ app'.promised = app.promised
      BY <1>Notify DEF IInv, TypeOK, AppType, Notify, AppAt, AppGoes, MixerRests,
      ring, power
    <2>app. app' \in AppType
      BY <1>Notify, <2>eff, <1>types, <1>dist, <1>nums DEF IInv, TypeOK, AppType,
      Notify, AppAt, AppGoes, MixerRests, ring, power
    <2>TypeOK. TypeOK'
      BY <1>Notify, <2>eff, <1>types, <1>dist, <1>nums, <2>app DEF IInv, TypeOK,
      Notify, AppAt, AppGoes, MixerRests, ring, power
    <2>MixerOK. MixerOK'
      BY <2>eff, <1>types, <1>dist, <1>nums, <1>inv DEF MixerOK, Mixing, Claiming
    <2>WriterOK. WriterOK'
      BY <2>eff, <1>types, <1>dist, <1>nums, <1>inv DEF WriterOK, MixerOK, Claiming
    <2>PromiseOK. PromiseOK'
      BY <2>eff, <1>types, <1>dist, <1>nums, <1>inv DEF PromiseOK, WriterOK, Claiming
    <2> QED
      BY <2>TypeOK, <2>MixerOK, <2>WriterOK, <2>PromiseOK DEF IInv
  <1>PollSpace. CASE PollSpace
    <2>eff. /\ app.pc = "idle" /\ on
            /\ head' = head /\ tail' = tail /\ on' = on /\ opened' = opened
            /\ mixer' = mixer
            /\ app'.pc = app.pc /\ app'.asked = app.asked /\ app'.n = app.n
            /\ app'.left = app.left /\ app'.head = app.head /\ app'.promised = STREAM_FRAMES - Dist(head, tail)
      BY <1>PollSpace DEF IInv, TypeOK, AppType, PollSpace, AppAt, MixerRests,
      ring, power, Space
    <2>1. STREAM_FRAMES - Dist(head, tail) \in 0 .. STREAM_FRAMES
      BY <2>eff, <1>dist, <1>nums
    <2>app. app' \in AppType
      BY <1>PollSpace, <2>eff, <1>types, <1>dist, <1>nums, <2>1 DEF IInv, TypeOK,
      AppType, PollSpace, AppAt, MixerRests, ring, power, Space
    <2>TypeOK. TypeOK'
      BY <1>PollSpace, <2>eff, <1>types, <1>dist, <1>nums, <2>1, <2>app DEF IInv,
      TypeOK, PollSpace, AppAt, MixerRests, ring, power, Space
    <2>MixerOK. MixerOK'
      BY <2>eff, <1>types, <1>dist, <1>nums, <2>1, <1>inv DEF MixerOK, Mixing, Claiming
    <2>WriterOK. WriterOK'
      BY <2>eff, <1>types, <1>dist, <1>nums, <2>1, <1>inv DEF WriterOK, MixerOK, Claiming
    <2>PromiseOK. PromiseOK'
      BY <2>eff, <1>types, <1>dist, <1>nums, <2>1, <1>inv DEF PromiseOK, WriterOK, Claiming
    <2> QED
      BY <2>TypeOK, <2>MixerOK, <2>WriterOK, <2>PromiseOK DEF IInv
  <1>Write. CASE Write
    <2>eff. /\ app.pc = "idle" /\ on
            /\ head' = head /\ tail' = tail /\ on' = on /\ opened' = opened
            /\ mixer' = mixer
      BY <1>Write DEF IInv, TypeOK, AppType, Write, AppAt, MixerRests, ring, power, Space
    <2>n. PICK n \in 0 .. MaxWrite :
             app' = [app EXCEPT !.pc = "copy", !.asked = n, !.n = IF n > Space THEN Space ELSE n,
                        !.left = IF n > Space THEN Space ELSE n, !.head = head]
      BY <1>Write DEF Write
    <2> DEFINE m == IF n > Space THEN Space ELSE n
    <2>m. /\ m \in Nat /\ m <= STREAM_FRAMES - Dist(head, tail)
          /\ n <= STREAM_FRAMES - Dist(head, tail) => m = n
      BY <2>eff, <1>dist, <1>nums DEF Space
    <2> HIDE DEF m
    <2>new. /\ app'.pc = "copy" /\ app'.asked = n /\ app'.n = m
            /\ app'.left = m /\ app'.head = head /\ app'.promised = app.promised
      BY <2>n DEF IInv, TypeOK, AppType, m
    <2>app. app' \in AppType
      BY <2>eff, <1>types, <1>dist, <1>nums, <2>n, <2>m, <2>new DEF IInv, TypeOK, AppType, m
    <2>TypeOK. TypeOK'
      BY <1>Write, <2>eff, <1>types, <1>dist, <1>nums, <2>n, <2>m, <2>new, <2>app
      DEF IInv, TypeOK, Write, AppAt, MixerRests, ring, power, Space
    <2>MixerOK. MixerOK'
      BY <2>eff, <1>types, <1>dist, <1>nums, <2>n, <2>m, <2>new, <1>inv DEF
      MixerOK, Mixing, Claiming
    <2>WriterOK. WriterOK'
      BY <2>eff, <1>types, <1>dist, <1>nums, <2>n, <2>m, <2>new, <1>inv DEF
      WriterOK, MixerOK, Claiming
    <2>PromiseOK. PromiseOK'
      BY <2>eff, <1>types, <1>dist, <1>nums, <2>n, <2>m, <2>new, <1>inv DEF
      PromiseOK, WriterOK, Claiming
    <2> QED
      BY <2>TypeOK, <2>MixerOK, <2>WriterOK, <2>PromiseOK DEF IInv
  <1>Copy. CASE Copy
    <2>eff. /\ app.pc = "copy" /\ app.left > 0
            /\ head' = head /\ tail' = tail /\ on' = on /\ opened' = opened
            /\ mixer' = mixer
            /\ app'.pc = app.pc /\ app'.asked = app.asked /\ app'.n = app.n
            /\ app'.left = app.left - 1 /\ app'.head = Inc(app.head) /\ app'.promised = app.promised
      BY <1>Copy DEF IInv, TypeOK, AppType, Copy, AppAt, MixerRests, power
    <2>1. app.left - 1 \in Nat
      BY <2>eff, <1>nums
    <2>2. Dist(app.head, tail) < CounterMod - 1
             => Dist(Inc(app.head), tail) = Dist(app.head, tail) + 1
      BY <1>types, DistArith
    <2>3. Dist(Inc(app.head), tail) = Dist(app.head, tail) + 1
      BY <2>eff, <1>dist, <1>nums, <1>inv, <2>2 DEF WriterOK
    <2>app. app' \in AppType
      BY <1>Copy, <2>eff, <1>types, <1>dist, <1>nums, <2>1, <2>2, <2>3 DEF IInv,
      TypeOK, AppType, Copy, AppAt, MixerRests, power
    <2>TypeOK. TypeOK'
      BY <1>Copy, <2>eff, <1>types, <1>dist, <1>nums, <2>1, <2>2, <2>3, <2>app DEF
      IInv, TypeOK, Copy, AppAt, MixerRests, power
    <2>MixerOK. MixerOK'
      BY <2>eff, <1>types, <1>dist, <1>nums, <2>1, <2>2, <2>3, <1>inv DEF MixerOK,
      Mixing, Claiming
    <2>WriterOK. WriterOK'
      BY <2>eff, <1>types, <1>dist, <1>nums, <2>1, <2>2, <2>3, <1>inv DEF
      WriterOK, MixerOK, Claiming
    <2>PromiseOK. PromiseOK'
      BY <2>eff, <1>types, <1>dist, <1>nums, <2>1, <2>2, <2>3, <1>inv DEF
      PromiseOK, WriterOK, Claiming
    <2> QED
      BY <2>TypeOK, <2>MixerOK, <2>WriterOK, <2>PromiseOK DEF IInv
  <1>Publish. CASE Publish
    <2>eff. /\ app.pc = "copy" /\ app.left = 0
            /\ head' = app.head /\ tail' = tail /\ on' = on /\ opened' = opened
            /\ mixer' = mixer
            /\ app'.pc = "idle" /\ app'.asked = 0 /\ app'.n = 0
            /\ app'.left = 0 /\ app'.head = 0 /\ app'.promised = (IF app.promised > app.n THEN app.promised - app.n ELSE 0)
      BY <1>Publish DEF IInv, TypeOK, AppType, Publish, AppAt, MixerRests, power, Idle
    <2>1. (IF app.promised > app.n THEN app.promised - app.n ELSE 0) \in 0 .. STREAM_FRAMES
      BY <1>nums
    <2>2. Dist(app.head, tail) = Dist(head, tail) + app.n
      BY <2>eff, <1>dist, <1>nums, <1>inv DEF WriterOK
    <2>p. PICK p \in 0 .. STREAM_FRAMES : app' = [Idle EXCEPT !.promised = p]
      BY <1>Publish, <2>1 DEF Publish
    <2>app. app' \in AppType
      BY <1>dist, <2>p DEF AppType, Idle
    <2>TypeOK. TypeOK'
      BY <1>Publish, <2>eff, <1>types, <1>dist, <1>nums, <2>1, <2>2, <2>app DEF
      IInv, TypeOK, Publish, AppAt, MixerRests, power, Idle
    <2>MixerOK. MixerOK'
      BY <2>eff, <1>types, <1>dist, <1>nums, <2>1, <2>2, <1>inv DEF MixerOK,
      Mixing, Claiming
    <2>WriterOK. WriterOK'
      BY <2>eff, <1>types, <1>dist, <1>nums, <2>1, <2>2, <1>inv DEF WriterOK,
      MixerOK, Claiming
    <2>PromiseOK. PromiseOK'
      BY <2>eff, <1>types, <1>dist, <1>nums, <2>1, <2>2, <1>inv DEF PromiseOK,
      WriterOK, Claiming
    <2> QED
      BY <2>TypeOK, <2>MixerOK, <2>WriterOK, <2>PromiseOK DEF IInv
  <1>Close. CASE Close
    <2>eff. /\ app.pc = "idle"
            /\ head' = head /\ tail' = tail /\ on' = FALSE /\ opened' = opened
            /\ mixer' = mixer
            /\ app'.pc = "idle" /\ app'.asked = 0 /\ app'.n = 0
            /\ app'.left = 0 /\ app'.head = 0 /\ app'.promised = 0
      BY <1>Close DEF IInv, TypeOK, AppType, Close, AppAt, MixerRests, power, Idle
    <2>app. app' \in AppType
      BY <1>Close, <2>eff, <1>types, <1>dist, <1>nums DEF IInv, TypeOK, AppType,
      Close, AppAt, MixerRests, power, Idle
    <2>TypeOK. TypeOK'
      BY <1>Close, <2>eff, <1>types, <1>dist, <1>nums, <2>app DEF IInv, TypeOK,
      Close, AppAt, MixerRests, power, Idle
    <2>MixerOK. MixerOK'
      BY <2>eff, <1>types, <1>dist, <1>nums, <1>inv DEF MixerOK, Mixing, Claiming
    <2>WriterOK. WriterOK'
      BY <2>eff, <1>types, <1>dist, <1>nums, <1>inv DEF WriterOK, MixerOK, Claiming
    <2>PromiseOK. PromiseOK'
      BY <2>eff, <1>types, <1>dist, <1>nums, <1>inv DEF PromiseOK, WriterOK, Claiming
    <2> QED
      BY <2>TypeOK, <2>MixerOK, <2>WriterOK, <2>PromiseOK DEF IInv
  <1>Render. CASE Render
    <2>eff. /\ mixer.pc = "render"
            /\ head' = head /\ tail' = tail /\ on' = on /\ opened' = opened
            /\ app' = app
            /\ mixer'.pc = "check" /\ mixer'.active = synth /\ mixer'.left = mixer.left
            /\ mixer'.avail = mixer.avail /\ mixer'.tail = mixer.tail /\ mixer'.frame = mixer.frame
      BY <1>Render DEF IInv, TypeOK, MixerType, Render, MixerAt, AppRests, power
    <2>mixer. mixer' \in MixerType
      BY <1>Render, <2>eff, <1>types, <1>dist, <1>nums DEF IInv, TypeOK,
      MixerType, Render, MixerAt, AppRests, power
    <2>TypeOK. TypeOK'
      BY <1>Render, <2>eff, <1>types, <1>dist, <1>nums, <2>mixer DEF IInv, TypeOK,
      Render, MixerAt, AppRests, power
    <2>MixerOK. MixerOK'
      BY <2>eff, <1>types, <1>dist, <1>nums, <1>inv DEF MixerOK, Mixing, Claiming
    <2>WriterOK. WriterOK'
      BY <2>eff, <1>types, <1>dist, <1>nums, <1>inv DEF WriterOK, MixerOK, Claiming
    <2>PromiseOK. PromiseOK'
      BY <2>eff, <1>types, <1>dist, <1>nums, <1>inv DEF PromiseOK, WriterOK, Claiming
    <2> QED
      BY <2>TypeOK, <2>MixerOK, <2>WriterOK, <2>PromiseOK DEF IInv
  <1>PowerOn. CASE PowerOn
    <2>eff. /\ mixer.pc = "check"
            /\ head' = head /\ tail' = tail /\ on' = on /\ opened' = opened
            /\ app' = app
            /\ mixer'.pc = "fetch" /\ mixer'.active = mixer.active /\ mixer'.left = mixer.left
            /\ mixer'.avail = mixer.avail /\ mixer'.tail = mixer.tail /\ mixer'.frame = mixer.frame
      BY <1>PowerOn DEF IInv, TypeOK, MixerType, PowerOn, MixerAt, MixerGoes, AppRests
    <2>mixer. mixer' \in MixerType
      BY <1>PowerOn, <2>eff, <1>types, <1>dist, <1>nums DEF IInv, TypeOK,
      MixerType, PowerOn, MixerAt, MixerGoes, AppRests
    <2>power. silence' \in 0 .. DRAIN_CHUNKS /\ powered' \in BOOLEAN
      BY <1>PowerOn DEF IInv, TypeOK, PowerOn, MixerAt, MixerGoes, AppRests
    <2>others. UNCHANGED <<buf, synth, notified, played>>
      BY <1>PowerOn DEF PowerOn, MixerAt, MixerGoes, AppRests
    <2>TypeOK. TypeOK'
      BY <2>eff, <2>mixer, <2>power, <2>others DEF IInv, TypeOK
    <2>MixerOK. MixerOK'
      BY <2>eff, <1>types, <1>dist, <1>nums, <1>inv DEF MixerOK, Mixing, Claiming
    <2>WriterOK. WriterOK'
      BY <2>eff, <1>types, <1>dist, <1>nums, <1>inv DEF WriterOK, MixerOK, Claiming
    <2>PromiseOK. PromiseOK'
      BY <2>eff, <1>types, <1>dist, <1>nums, <1>inv DEF PromiseOK, WriterOK, Claiming
    <2> QED
      BY <2>TypeOK, <2>MixerOK, <2>WriterOK, <2>PromiseOK DEF IInv
  <1>Drain. CASE Drain
    <2>eff. /\ mixer.pc = "check"
            /\ head' = head /\ tail' = tail /\ on' = on /\ opened' = opened
            /\ app' = app
            /\ mixer'.pc = "fetch" /\ mixer'.active = mixer.active /\ mixer'.left = mixer.left
            /\ mixer'.avail = mixer.avail /\ mixer'.tail = mixer.tail /\ mixer'.frame = mixer.frame
      BY <1>Drain DEF IInv, TypeOK, MixerType, Drain, MixerAt, MixerGoes, AppRests
    <2>mixer. mixer' \in MixerType
      BY <1>Drain, <2>eff, <1>types, <1>dist, <1>nums DEF IInv, TypeOK, MixerType,
      Drain, MixerAt, MixerGoes, AppRests
    <2>power. silence' \in 0 .. DRAIN_CHUNKS /\ powered' \in BOOLEAN
      BY <1>Drain DEF IInv, TypeOK, Drain, MixerAt, MixerGoes, AppRests
    <2>others. UNCHANGED <<buf, synth, notified, played>>
      BY <1>Drain DEF Drain, MixerAt, MixerGoes, AppRests
    <2>TypeOK. TypeOK'
      BY <2>eff, <2>mixer, <2>power, <2>others DEF IInv, TypeOK
    <2>MixerOK. MixerOK'
      BY <2>eff, <1>types, <1>dist, <1>nums, <1>inv DEF MixerOK, Mixing, Claiming
    <2>WriterOK. WriterOK'
      BY <2>eff, <1>types, <1>dist, <1>nums, <1>inv DEF WriterOK, MixerOK, Claiming
    <2>PromiseOK. PromiseOK'
      BY <2>eff, <1>types, <1>dist, <1>nums, <1>inv DEF PromiseOK, WriterOK, Claiming
    <2> QED
      BY <2>TypeOK, <2>MixerOK, <2>WriterOK, <2>PromiseOK DEF IInv
  <1>PowerOff. CASE PowerOff
    <2>eff. /\ mixer.pc = "check"
            /\ head' = head /\ tail' = tail /\ on' = on /\ opened' = opened
            /\ app' = app
            /\ mixer'.pc = "stopped" /\ mixer'.active = mixer.active /\ mixer'.left = mixer.left
            /\ mixer'.avail = mixer.avail /\ mixer'.tail = mixer.tail /\ mixer'.frame = mixer.frame
      BY <1>PowerOff DEF IInv, TypeOK, MixerType, PowerOff, MixerAt, MixerGoes, AppRests
    <2>mixer. mixer' \in MixerType
      BY <1>PowerOff, <2>eff, <1>types, <1>dist, <1>nums DEF IInv, TypeOK,
      MixerType, PowerOff, MixerAt, MixerGoes, AppRests
    <2>power. silence' \in 0 .. DRAIN_CHUNKS /\ powered' \in BOOLEAN
      <3>1. powered' = FALSE /\ (silence' = 0 \/ silence' = silence)
        BY <1>PowerOff DEF PowerOff
      <3> QED
        BY <3>1, <1>zero DEF IInv, TypeOK
    <2>others. UNCHANGED <<buf, synth, notified, played>>
      BY <1>PowerOff DEF PowerOff, MixerAt, MixerGoes, AppRests
    <2>TypeOK. TypeOK'
      BY <2>eff, <2>mixer, <2>power, <2>others DEF IInv, TypeOK
    <2>MixerOK. MixerOK'
      BY <2>eff, <1>types, <1>dist, <1>nums, <1>inv DEF MixerOK, Mixing, Claiming
    <2>WriterOK. WriterOK'
      BY <2>eff, <1>types, <1>dist, <1>nums, <1>inv DEF WriterOK, MixerOK, Claiming
    <2>PromiseOK. PromiseOK'
      BY <2>eff, <1>types, <1>dist, <1>nums, <1>inv DEF PromiseOK, WriterOK, Claiming
    <2> QED
      BY <2>TypeOK, <2>MixerOK, <2>WriterOK, <2>PromiseOK DEF IInv
  <1>Sleep. CASE Sleep
    <2>eff. /\ mixer.pc = "stopped"
            /\ head' = head /\ tail' = tail /\ on' = on /\ opened' = opened
            /\ app' = app
            /\ mixer'.pc = "waiting" /\ mixer'.active = mixer.active /\ mixer'.left = mixer.left
            /\ mixer'.avail = mixer.avail /\ mixer'.tail = mixer.tail /\ mixer'.frame = mixer.frame
      BY <1>Sleep DEF IInv, TypeOK, MixerType, Sleep, MixerAt, MixerGoes, AppRests, power
    <2>mixer. mixer' \in MixerType
      BY <1>Sleep, <2>eff, <1>types, <1>dist, <1>nums DEF IInv, TypeOK, MixerType,
      Sleep, MixerAt, MixerGoes, AppRests, power
    <2>TypeOK. TypeOK'
      BY <1>Sleep, <2>eff, <1>types, <1>dist, <1>nums, <2>mixer DEF IInv, TypeOK,
      Sleep, MixerAt, MixerGoes, AppRests, power
    <2>MixerOK. MixerOK'
      BY <2>eff, <1>types, <1>dist, <1>nums, <1>inv DEF MixerOK, Mixing, Claiming
    <2>WriterOK. WriterOK'
      BY <2>eff, <1>types, <1>dist, <1>nums, <1>inv DEF WriterOK, MixerOK, Claiming
    <2>PromiseOK. PromiseOK'
      BY <2>eff, <1>types, <1>dist, <1>nums, <1>inv DEF PromiseOK, WriterOK, Claiming
    <2> QED
      BY <2>TypeOK, <2>MixerOK, <2>WriterOK, <2>PromiseOK DEF IInv
  <1>Wake. CASE Wake
    <2>eff. /\ mixer.pc = "waiting"
            /\ head' = head /\ tail' = tail /\ on' = on /\ opened' = opened
            /\ app' = app
            /\ mixer'.pc = "render" /\ mixer'.active = mixer.active /\ mixer'.left = mixer.left
            /\ mixer'.avail = mixer.avail /\ mixer'.tail = mixer.tail /\ mixer'.frame = mixer.frame
      BY <1>Wake DEF IInv, TypeOK, MixerType, Wake, MixerAt, MixerGoes, AppRests, power
    <2>mixer. mixer' \in MixerType
      BY <1>Wake, <2>eff, <1>types, <1>dist, <1>nums DEF IInv, TypeOK, MixerType,
      Wake, MixerAt, MixerGoes, AppRests, power
    <2>TypeOK. TypeOK'
      BY <1>Wake, <2>eff, <1>types, <1>dist, <1>nums, <2>mixer DEF IInv, TypeOK,
      Wake, MixerAt, MixerGoes, AppRests, power
    <2>MixerOK. MixerOK'
      BY <2>eff, <1>types, <1>dist, <1>nums, <1>inv DEF MixerOK, Mixing, Claiming
    <2>WriterOK. WriterOK'
      BY <2>eff, <1>types, <1>dist, <1>nums, <1>inv DEF WriterOK, MixerOK, Claiming
    <2>PromiseOK. PromiseOK'
      BY <2>eff, <1>types, <1>dist, <1>nums, <1>inv DEF PromiseOK, WriterOK, Claiming
    <2> QED
      BY <2>TypeOK, <2>MixerOK, <2>WriterOK, <2>PromiseOK DEF IInv
  <1>Fetch. CASE Fetch
    <2>eff. /\ mixer.pc = "fetch"
            /\ head' = head /\ tail' = tail /\ on' = on /\ opened' = opened
            /\ app' = app
            /\ mixer'.pc = "mix" /\ mixer'.active = mixer.active /\ mixer'.left = CHUNK_FRAMES
            /\ mixer'.avail = (IF on THEN Dist(head, tail) ELSE 0) /\ mixer'.tail = mixer.tail /\ mixer'.frame = mixer.frame
      BY <1>Fetch DEF IInv, TypeOK, MixerType, Fetch, MixerAt, AppRests, power
    <2>1. on => ~Claiming
      BY <1>inv DEF MixerOK
    <2>2. (IF on THEN Dist(head, tail) ELSE 0) \in 0 .. STREAM_FRAMES
      BY <1>dist, <1>nums, <2>1 DEF Claiming
    <2>av. PICK av \in 0 .. STREAM_FRAMES :
             mixer' = [mixer EXCEPT !.pc = "mix", !.left = CHUNK_FRAMES, !.avail = av]
      BY <1>Fetch, <2>2 DEF Fetch
    <2>old. mixer \in MixerType
      BY DEF IInv, TypeOK
    <2>mixer. mixer' \in MixerType
      BY <2>av, <2>old, <1>zero DEF MixerType
    <2>TypeOK. TypeOK'
      BY <1>Fetch, <2>eff, <1>types, <1>dist, <1>nums, <2>1, <2>2, <2>mixer DEF
      IInv, TypeOK, Fetch, MixerAt, AppRests, power
    <2>MixerOK. MixerOK'
      BY <2>eff, <1>types, <1>dist, <1>nums, <2>1, <2>2, <1>inv DEF MixerOK,
      Mixing, Claiming
    <2>WriterOK. WriterOK'
      BY <2>eff, <1>types, <1>dist, <1>nums, <2>1, <2>2, <1>inv DEF WriterOK,
      MixerOK, Claiming
    <2>PromiseOK. PromiseOK'
      BY <2>eff, <1>types, <1>dist, <1>nums, <2>1, <2>2, <1>inv DEF PromiseOK,
      WriterOK, Claiming
    <2> QED
      BY <2>TypeOK, <2>MixerOK, <2>WriterOK, <2>PromiseOK DEF IInv
  <1>MixFrame. CASE MixFrame
    <2>eff. /\ mixer.pc = "mix" /\ mixer.left > 0 /\ mixer.avail > 0
            /\ head' = head /\ tail' = tail /\ on' = on /\ opened' = opened
            /\ app' = app
            /\ mixer'.pc = "load" /\ mixer'.active = mixer.active /\ mixer'.left = mixer.left
            /\ mixer'.avail = mixer.avail /\ mixer'.tail = mixer.tail /\ mixer'.frame = buf[Slot(tail)]
      BY <1>MixFrame DEF IInv, TypeOK, MixerType, MixFrame, MixerAt, AppRests, power
    <2>1. buf[Slot(tail)] \in Frames
      BY <1>types, SlotType DEF IInv, TypeOK
    <2>mixer. mixer' \in MixerType
      BY <1>MixFrame, <2>eff, <1>types, <1>dist, <1>nums, <2>1 DEF IInv, TypeOK,
      MixerType, MixFrame, MixerAt, AppRests, power
    <2>TypeOK. TypeOK'
      BY <1>MixFrame, <2>eff, <1>types, <1>dist, <1>nums, <2>1, <2>mixer DEF IInv,
      TypeOK, MixFrame, MixerAt, AppRests, power
    <2>MixerOK. MixerOK'
      BY <2>eff, <1>types, <1>dist, <1>nums, <2>1, <1>inv DEF MixerOK, Mixing, Claiming
    <2>WriterOK. WriterOK'
      BY <2>eff, <1>types, <1>dist, <1>nums, <2>1, <1>inv DEF WriterOK, MixerOK, Claiming
    <2>PromiseOK. PromiseOK'
      BY <2>eff, <1>types, <1>dist, <1>nums, <2>1, <1>inv DEF PromiseOK, WriterOK, Claiming
    <2> QED
      BY <2>TypeOK, <2>MixerOK, <2>WriterOK, <2>PromiseOK DEF IInv
  <1>LoadTail. CASE LoadTail
    <2>eff. /\ mixer.pc = "load"
            /\ head' = head /\ tail' = tail /\ on' = on /\ opened' = opened
            /\ app' = app
            /\ mixer'.pc = "store" /\ mixer'.active = mixer.active /\ mixer'.left = mixer.left
            /\ mixer'.avail = mixer.avail /\ mixer'.tail = Inc(tail) /\ mixer'.frame = mixer.frame
      BY <1>LoadTail DEF IInv, TypeOK, MixerType, LoadTail, MixerAt, AppRests, power
    <2>mixer. mixer' \in MixerType
      BY <1>LoadTail, <2>eff, <1>types, <1>dist, <1>nums DEF IInv, TypeOK,
      MixerType, LoadTail, MixerAt, AppRests, power
    <2>TypeOK. TypeOK'
      BY <1>LoadTail, <2>eff, <1>types, <1>dist, <1>nums, <2>mixer DEF IInv,
      TypeOK, LoadTail, MixerAt, AppRests, power
    <2>MixerOK. MixerOK'
      BY <2>eff, <1>types, <1>dist, <1>nums, <1>inv DEF MixerOK, Mixing, Claiming
    <2>WriterOK. WriterOK'
      BY <2>eff, <1>types, <1>dist, <1>nums, <1>inv DEF WriterOK, MixerOK, Claiming
    <2>PromiseOK. PromiseOK'
      BY <2>eff, <1>types, <1>dist, <1>nums, <1>inv DEF PromiseOK, WriterOK, Claiming
    <2> QED
      BY <2>TypeOK, <2>MixerOK, <2>WriterOK, <2>PromiseOK DEF IInv
  <1>StoreTail. CASE StoreTail
    <2>eff. /\ mixer.pc = "store"
            /\ head' = head /\ tail' = mixer.tail /\ on' = on /\ opened' = opened
            /\ app' = app
            /\ mixer'.pc = "mix" /\ mixer'.active = mixer.active /\ mixer'.left = mixer.left - 1
            /\ mixer'.avail = mixer.avail - 1 /\ mixer'.tail = mixer.tail /\ mixer'.frame = mixer.frame
      BY <1>StoreTail DEF IInv, TypeOK, MixerType, StoreTail, MixerAt, AppRests, power
    <2>1. mixer.tail = Inc(tail) /\ mixer.avail > 0 /\ mixer.left > 0
      BY <2>eff, <1>inv DEF MixerOK
    <2>2. ~Claiming /\ Dist(head, tail) > 0
      BY <2>1, <1>inv, <1>dist, <1>nums DEF MixerOK
    <2>3. Dist(head, tail) > 0 => Dist(head, Inc(tail)) = Dist(head, tail) - 1
      BY <1>types, DistArith
    <2>4. Dist(app.head, tail) > 0 => Dist(app.head, Inc(tail)) = Dist(app.head, tail) - 1
      BY <1>types, DistArith
    <2>5. mixer.left - 1 \in 0 .. CHUNK_FRAMES /\ mixer.avail - 1 \in 0 .. STREAM_FRAMES
      BY <1>nums, <2>1
    <2>6. app.pc = "copy" => Dist(app.head, tail) > 0
      BY <1>nums, <1>dist, <1>inv, <2>2 DEF WriterOK
    <2>mixer. mixer' \in MixerType
      BY <1>StoreTail, <2>eff, <1>types, <1>dist, <1>nums, <2>1, <2>2, <2>3, <2>4,
      <2>5, <2>6 DEF IInv, TypeOK, MixerType, StoreTail, MixerAt, AppRests, power
    <2>frame. mixer.frame \in Frames
      BY DEF IInv, TypeOK, MixerType
    <2>TypeOK. TypeOK'
      BY <1>StoreTail, <2>eff, <1>types, <2>frame, <2>mixer DEF IInv, TypeOK,
      StoreTail, MixerAt, AppRests, power
    <2>MixerOK. MixerOK'
      BY <2>eff, <1>types, <1>dist, <1>nums, <2>1, <2>2, <2>3, <2>4, <2>5, <2>6,
      <1>inv DEF MixerOK, Mixing, Claiming
    <2>WriterOK. WriterOK'
      BY <2>eff, <1>types, <1>dist, <1>nums, <2>1, <2>2, <2>3, <2>4, <2>5, <2>6,
      <1>inv DEF WriterOK, MixerOK, Claiming
    <2>PromiseOK. PromiseOK'
      BY <2>eff, <1>types, <1>dist, <1>nums, <2>1, <2>2, <2>3, <2>4, <2>5, <2>6,
      <1>inv DEF PromiseOK, WriterOK, Claiming
    <2> QED
      BY <2>TypeOK, <2>MixerOK, <2>WriterOK, <2>PromiseOK DEF IInv
  <1>WriteOut. CASE WriteOut
    <2>eff. /\ mixer.pc = "mix"
            /\ head' = head /\ tail' = tail /\ on' = on /\ opened' = opened
            /\ app' = app
            /\ mixer'.pc = "blocked" /\ mixer'.active = FALSE /\ mixer'.left = 0
            /\ mixer'.avail = 0 /\ mixer'.tail = 0 /\ mixer'.frame = mixer.frame
      BY <1>WriteOut DEF IInv, TypeOK, MixerType, WriteOut, MixerAt, AppRests,
      power, Between
    <2>mixer. mixer' \in MixerType
      BY <1>WriteOut, <2>eff, <1>types, <1>dist, <1>nums DEF IInv, TypeOK,
      MixerType, WriteOut, MixerAt, AppRests, power, Between
    <2>TypeOK. TypeOK'
      BY <1>WriteOut, <2>eff, <1>types, <1>dist, <1>nums, <2>mixer DEF IInv,
      TypeOK, WriteOut, MixerAt, AppRests, power, Between
    <2>MixerOK. MixerOK'
      BY <2>eff, <1>types, <1>dist, <1>nums, <1>inv DEF MixerOK, Mixing, Claiming
    <2>WriterOK. WriterOK'
      BY <2>eff, <1>types, <1>dist, <1>nums, <1>inv DEF WriterOK, MixerOK, Claiming
    <2>PromiseOK. PromiseOK'
      BY <2>eff, <1>types, <1>dist, <1>nums, <1>inv DEF PromiseOK, WriterOK, Claiming
    <2> QED
      BY <2>TypeOK, <2>MixerOK, <2>WriterOK, <2>PromiseOK DEF IInv
  <1>Unblock. CASE Unblock
    <2>eff. /\ mixer.pc = "blocked"
            /\ head' = head /\ tail' = tail /\ on' = on /\ opened' = opened
            /\ app' = app
            /\ mixer'.pc = "render" /\ mixer'.active = mixer.active /\ mixer'.left = mixer.left
            /\ mixer'.avail = mixer.avail /\ mixer'.tail = mixer.tail /\ mixer'.frame = mixer.frame
      BY <1>Unblock DEF IInv, TypeOK, MixerType, Unblock, MixerAt, MixerGoes,
      AppRests, power
    <2>mixer. mixer' \in MixerType
      BY <1>Unblock, <2>eff, <1>types, <1>dist, <1>nums DEF IInv, TypeOK,
      MixerType, Unblock, MixerAt, MixerGoes, AppRests, power
    <2>TypeOK. TypeOK'
      BY <1>Unblock, <2>eff, <1>types, <1>dist, <1>nums, <2>mixer DEF IInv,
      TypeOK, Unblock, MixerAt, MixerGoes, AppRests, power
    <2>MixerOK. MixerOK'
      BY <2>eff, <1>types, <1>dist, <1>nums, <1>inv DEF MixerOK, Mixing, Claiming
    <2>WriterOK. WriterOK'
      BY <2>eff, <1>types, <1>dist, <1>nums, <1>inv DEF WriterOK, MixerOK, Claiming
    <2>PromiseOK. PromiseOK'
      BY <2>eff, <1>types, <1>dist, <1>nums, <1>inv DEF PromiseOK, WriterOK, Claiming
    <2> QED
      BY <2>TypeOK, <2>MixerOK, <2>WriterOK, <2>PromiseOK DEF IInv
  <1>stutter. CASE UNCHANGED vars
    BY <1>stutter DEF vars, ring, power, IInv, TypeOK, MixerOK, WriterOK, PromiseOK,
                      Mixing, Claiming
  <1> QED
    BY <1>Open, <1>OpenTail, <1>OpenOn, <1>NoteOn, <1>Notify, <1>PollSpace,
    <1>Write, <1>Copy, <1>Publish, <1>Close, <1>Render, <1>PowerOn, <1>Drain,
    <1>PowerOff, <1>Sleep, <1>Wake, <1>Fetch, <1>MixFrame, <1>LoadTail,
    <1>StoreTail, <1>WriteOut, <1>Unblock, <1>stutter
    DEF Next, AppGoesOn, Mixer

LEMMA Invariance == ASSUME MixerBetweenClaims PROVE Spec => []IInv
  <1>1. Init => IInv
    BY InitInv
  <1>2. IInv /\ [Next]_vars => IInv'
    BY StepKeepsInv
  <1> QED
    BY <1>1, <1>2, PTL DEF Spec

-----------------------------------------------------------------------------
(* Every variable keeps its type; the mixer never sees more frames than the *)
(* ring holds.                                                             *)
THEOREM StreamTypes == ASSUME MixerBetweenClaims PROVE Spec => []TypeOK
  <1>1. IInv => TypeOK
    BY DEF IInv
  <1> QED
    BY <1>1, Invariance, PTL

(* The writer never overwrites a frame that the mixer has yet to play.     *)
THEOREM NoOverrun == ASSUME MixerBetweenClaims PROVE Spec => []RingBounded
  <1>1. ASSUME IInv PROVE Dist(head, tail) \in Nat
    BY <1>1, DistArith DEF IInv, TypeOK
  <1>2. IInv => RingBounded
    BY <1>1 DEF IInv, WriterOK, RingBounded
  <1> QED
    BY <1>2, Invariance, PTL

(* snd_stream_space never answers with slots that a write would then drop. *)
THEOREM SpaceHolds == ASSUME MixerBetweenClaims PROVE Spec => []SpaceIsHonest
  <1>1. ASSUME IInv PROVE Dist(head, tail) \in Nat
    BY <1>1, DistArith DEF IInv, TypeOK
  <1>2. IInv => SpaceIsHonest
    BY <1>1, StreamAssumption
    DEF IInv, TypeOK, MixerOK, WriterOK, PromiseOK, SpaceIsHonest, Space, Claiming
  <1> QED
    BY <1>2, Invariance, PTL

-----------------------------------------------------------------------------
(* The ring as a queue.                                                    *)

(* Arithmetic of remainders.                                               *)
LEMMA DivMod ==
  ASSUME NEW S \in Nat \ {0}, NEW x \in Nat
  PROVE  /\ x \div S \in Nat /\ x % S \in 0 .. S - 1
         /\ x = S * (x \div S) + (x % S)
  OBVIOUS

(* Between -S and S there is one multiple of S.                            *)
LEMMA SmallMultiple ==
  ASSUME NEW S \in Nat \ {0}, NEW q \in Int, 0 - S < S * q, S * q < S
  PROVE  q = 0
<1>1. CASE q >= 1
  <2>1. S * q >= S
     BY <1>1
  <2> QED BY <2>1
<1>2. CASE q <= -1
  <2>1. S * q <= 0 - S
     BY <1>2
  <2> QED BY <2>1
<1> QED BY <1>1, <1>2

(* A remainder is unique.                                                  *)
LEMMA ModUnique ==
  ASSUME NEW S \in Nat \ {0}, NEW x \in Nat, NEW q \in Int, NEW r \in 0 .. S - 1, x = S * q + r
  PROVE  x % S = r
<1> DEFINE d == x \div S
<1>1. d \in Nat /\ x % S \in 0 .. S - 1 /\ x = S * d + (x % S)
  BY DivMod
<1> HIDE DEF d
<1>2. S * (q - d) = (x % S) - r
  <2>1. S * (q - d) = S * q - S * d
    BY <1>1
  <2> QED BY <2>1, <1>1
<1>3. q - d = 0
  BY <1>1, <1>2, SmallMultiple
<1> QED BY <1>1, <1>3

(* Fewer than S apart, two numbers of one remainder are one.               *)
LEMMA ModInjective ==
  ASSUME NEW S \in Nat \ {0}, NEW x \in Nat, NEW y \in Nat, x <= y, y - x < S, x % S = y % S
  PROVE  x = y
<1> DEFINE c == x \div S
           d == y \div S
<1>1. c \in Nat /\ x % S \in 0 .. S - 1 /\ x = S * c + (x % S)
  BY DivMod
<1>2. d \in Nat /\ y = S * d + (y % S)
  BY DivMod
<1> HIDE DEF c, d
<1>3. S * (d - c) = y - x
  <2>1. S * (d - c) = S * d - S * c
    BY <1>1, <1>2
  <2> QED BY <2>1, <1>1, <1>2
<1>4. d - c = 0
  BY <1>1, <1>2, <1>3, SmallMultiple
<1> QED BY <1>3, <1>4, <1>1, <1>2

(* Adding a multiple of S changes no remainder.                            *)
LEMMA ModPeriod ==
  ASSUME NEW S \in Nat \ {0}, NEW x \in Nat, NEW M \in Nat, M % S = 0
  PROVE  (x + M) % S = x % S
<1> DEFINE c == x \div S
           d == M \div S
<1>1. c \in Nat /\ x % S \in 0 .. S - 1 /\ x = S * c + (x % S)
  BY DivMod
<1>2. d \in Nat /\ M = S * d + (M % S)
  BY DivMod
<1> HIDE DEF c, d
<1>3. x + M = S * (c + d) + (x % S)
  <2>1. S * (c + d) = S * c + S * d /\ M = S * d
    BY <1>1, <1>2
  <2> QED BY <2>1, <1>1, <1>2
<1>4. x + M \in Nat /\ c + d \in Int
  BY <1>1, <1>2
<1> QED
  BY <1>1, <1>3, <1>4, ModUnique

-----------------------------------------------------------------------------

(* The counters wrap at a multiple of the ring: the slots go on in order.  *)
LEMMA SlotWraps == ASSUME NEW x \in Nat PROVE Slot(x + CounterMod) = Slot(x)
  BY StreamAssumption, ModPeriod DEF Slot

(* A slot is a place in the buffer.                                        *)
LEMMA SlotRange == ASSUME NEW x \in Nat PROVE Slot(x) \in 0 .. STREAM_FRAMES - 1
  BY StreamAssumption, DivMod DEF Slot

(* The slots counted from the next counter, across its wrap.               *)
LEMMA SlotAfter ==
  ASSUME NEW t \in Counter, NEW j \in Nat
  PROVE  Slot(Inc(t) + j) = Slot(t + j + 1)
<1>1. CASE t = CounterMod - 1
  <2>1. Inc(t) + j = j /\ t + j + 1 = j + CounterMod
    BY <1>1, StreamAssumption DEF Inc
  <2> QED
    BY <2>1, SlotWraps
<1>2. CASE t # CounterMod - 1
  <2>1. Inc(t) + j = t + j + 1
    BY <1>2, StreamAssumption DEF Inc, Counter
  <2> QED
    BY <2>1
<1> QED
  BY <1>1, <1>2

(* The head is as many slots from the tail as there are frames.            *)
LEMMA SlotOfDist ==
  ASSUME NEW h \in Counter, NEW t \in Counter
  PROVE  Slot(h) = Slot(t + Dist(h, t))
<1>1. CASE h >= t
  BY <1>1, StreamAssumption DEF Counter, Dist
<1>2. CASE ~(h >= t)
  <2>1. t + Dist(h, t) = h + CounterMod /\ h \in Nat
    BY <1>2, StreamAssumption DEF Counter, Dist
  <2> QED
    BY <2>1, SlotWraps
<1> QED
  BY <1>1, <1>2

(* While the ring is not full the next slot holds no queued frame.         *)
LEMMA SlotsDiffer ==
  ASSUME NEW h \in Counter, NEW t \in Counter, Dist(h, t) < STREAM_FRAMES,
         NEW i \in Nat, i < Dist(h, t)
  PROVE  Slot(h) # Slot(t + i)
<1>1. Dist(h, t) \in Nat /\ t \in Nat
  BY DistArith, StreamAssumption DEF Counter
<1>2. Slot(h) = Slot(t + Dist(h, t))
  BY SlotOfDist
<1>3. t + i \in Nat /\ t + Dist(h, t) \in Nat /\ t + i <= t + Dist(h, t)
      /\ (t + Dist(h, t)) - (t + i) < STREAM_FRAMES /\ t + i # t + Dist(h, t)
  <2>1. STREAM_FRAMES \in Nat
    BY StreamAssumption
  <2> DEFINE d == Dist(h, t)
  <2>2. d \in Nat /\ d < STREAM_FRAMES /\ i < d
    BY <1>1
  <2> HIDE DEF d
  <2>3. t + i \in Nat /\ t + d \in Nat /\ t + i <= t + d
        /\ (t + d) - (t + i) < STREAM_FRAMES /\ t + i # t + d
    BY <1>1, <2>1, <2>2
  <2> QED
    BY <2>3 DEF d
<1>4. (t + i) % STREAM_FRAMES # (t + Dist(h, t)) % STREAM_FRAMES
  BY <1>3, ModInjective, StreamAssumption
<1> QED
  BY <1>2, <1>4 DEF Slot

-----------------------------------------------------------------------------
(* The values of the buffer.                                               *)
Buffers == [0 .. STREAM_FRAMES - 1 -> Frames]

(* The queue is a sequence of frames.                                      *)
LEMMA ContentsSeq ==
  ASSUME NEW b \in Buffers, NEW t \in Nat, NEW n \in Nat
  PROVE  /\ Contents(b, t, n) \in Seq(Frames) /\ Len(Contents(b, t, n)) = n
         /\ \A j \in 1 .. n : Contents(b, t, n)[j] = b[Slot(t + j - 1)]
<1>1. ASSUME NEW j \in 1 .. n PROVE b[Slot(t + j - 1)] \in Frames
  <2>1. t + j - 1 \in Nat
    OBVIOUS
  <2> QED
    BY <2>1, SlotRange DEF Buffers
<1>2. Contents(b, t, n) \in [1 .. n -> Frames]
  BY <1>1 DEF Contents
<1>3. Contents(b, t, n) \in Seq(Frames) /\ Len(Contents(b, t, n)) = n
  BY <1>2, SeqDef, LenProperties
<1> QED
  BY <1>3 DEF Contents

(* Moving the tail on takes the oldest frame from the queue.               *)
LEMMA ContentsPlayed ==
  ASSUME NEW b \in Buffers, NEW t \in Counter, NEW n \in Nat, n > 0
  PROVE  /\ Contents(b, t, n) # <<>>
         /\ Head(Contents(b, t, n)) = b[Slot(t)]
         /\ Tail(Contents(b, t, n)) = Contents(b, Inc(t), n - 1)
<1> DEFINE q == Contents(b, t, n)
           r == Contents(b, Inc(t), n - 1)
<1>1. t \in Nat /\ Inc(t) \in Nat /\ n - 1 \in Nat
  BY DistArith DEF Counter
<1>2. /\ q \in Seq(Frames) /\ Len(q) = n
      /\ \A j \in 1 .. n : q[j] = b[Slot(t + j - 1)]
  BY <1>1, ContentsSeq
<1>3. /\ r \in Seq(Frames) /\ Len(r) = n - 1
      /\ \A j \in 1 .. n - 1 : r[j] = b[Slot(Inc(t) + j - 1)]
  BY <1>1, ContentsSeq
<1> HIDE DEF q, r
<1>4. q # <<>>
  BY <1>2
<1>5. Head(q) = b[Slot(t)]
  <2>1. Head(q) = q[1] /\ t + 1 - 1 = t
    BY <1>1, <1>2, <1>4
  <2> QED
    BY <2>1, <1>2
<1>6. /\ Tail(q) \in Seq(Frames) /\ Len(Tail(q)) = n - 1
      /\ \A j \in 1 .. n - 1 : Tail(q)[j] = q[j + 1]
  BY <1>2, <1>4, HeadTailProperties
<1>7. ASSUME NEW j \in 1 .. n - 1 PROVE Tail(q)[j] = r[j]
  <2>1. q[j + 1] = b[Slot(t + (j + 1) - 1)] /\ r[j] = b[Slot(Inc(t) + j - 1)]
    BY <1>2, <1>3
  <2>2. /\ t + (j + 1) - 1 = t + (j - 1) + 1
        /\ Inc(t) + j - 1 = Inc(t) + (j - 1) /\ j - 1 \in Nat
    BY <1>1
  <2>3. Slot(Inc(t) + (j - 1)) = Slot(t + (j - 1) + 1)
    BY <2>2, SlotAfter
  <2> QED
    BY <1>6, <2>1, <2>2, <2>3
<1>8. Tail(q) = r
  BY <1>3, <1>6, <1>7, SeqEqual
<1> QED
  BY <1>4, <1>5, <1>8 DEF q, r

(* Moving the head on adds frames at the end.                              *)
LEMMA ContentsWritten ==
  ASSUME NEW b \in Buffers, NEW t \in Nat, NEW n \in Nat, NEW k \in Nat
  PROVE  \E s \in [1 .. k -> Frames] : Contents(b, t, n + k) = Contents(b, t, n) \o s
<1> DEFINE s == Contents(b, t + n, k)
           q == Contents(b, t, n)
           r == Contents(b, t, n + k)
<1>1. t + n \in Nat /\ n + k \in Nat
  OBVIOUS
<1>2. /\ s \in Seq(Frames) /\ Len(s) = k
      /\ \A j \in 1 .. k : s[j] = b[Slot((t + n) + j - 1)]
  BY <1>1, ContentsSeq
<1>3. /\ q \in Seq(Frames) /\ Len(q) = n
      /\ \A j \in 1 .. n : q[j] = b[Slot(t + j - 1)]
  BY ContentsSeq
<1>4. /\ r \in Seq(Frames) /\ Len(r) = n + k
      /\ \A j \in 1 .. n + k : r[j] = b[Slot(t + j - 1)]
  BY <1>1, ContentsSeq
<1> HIDE DEF s, q, r
<1>5. /\ q \o s \in Seq(Frames) /\ Len(q \o s) = n + k
      /\ \A j \in 1 .. n + k : (q \o s)[j] = IF j <= n THEN q[j] ELSE s[j - n]
  BY <1>2, <1>3, ConcatProperties
<1>6. ASSUME NEW j \in 1 .. n + k PROVE r[j] = (q \o s)[j]
  <2>1. CASE j <= n
    <3>1. j \in 1 .. n
      BY <2>1
    <3>2. (q \o s)[j] = q[j]
      BY <2>1, <1>5
    <3> QED
      BY <3>1, <3>2, <1>3, <1>4
  <2>2. CASE ~(j <= n)
    <3>1. j - n \in 1 .. k /\ (t + n) + (j - n) - 1 = t + j - 1
      BY <2>2
    <3>2. s[j - n] = b[Slot((t + n) + (j - n) - 1)]
      BY <3>1, <1>2
    <3>3. (q \o s)[j] = s[j - n]
      BY <2>2, <1>5
    <3>4. r[j] = b[Slot(t + j - 1)]
      BY <1>4
    <3> QED
      BY <3>1, <3>2, <3>3, <3>4
  <2> QED
    BY <2>1, <2>2
<1>7. r = q \o s
  BY <1>4, <1>5, <1>6, SeqEqual
<1>8. s \in [1 .. k -> Frames]
  BY <1>2, LenProperties
<1> QED
  BY <1>7, <1>8 DEF q, r

(* Writing the free slot after h changes no frame queued before it.        *)
LEMMA ContentsKept ==
  ASSUME NEW b \in Buffers, NEW h \in Counter, NEW t \in Counter, NEW n \in Nat,
         n <= Dist(h, t), Dist(h, t) < STREAM_FRAMES, NEW f \in Frames
  PROVE  /\ Contents([b EXCEPT ![Slot(h)] = f], t, n) = Contents(b, t, n)
         /\ n > 0 => [b EXCEPT ![Slot(h)] = f][Slot(t)] = b[Slot(t)]
<1>1. t \in Nat
  BY StreamAssumption DEF Counter
<1>2. Dist(h, t) \in Nat
  BY DistArith
<1>3. ASSUME NEW i \in Nat, i < n PROVE [b EXCEPT ![Slot(h)] = f][Slot(t + i)] = b[Slot(t + i)]
  <2>1. Slot(h) # Slot(t + i)
    BY <1>2, <1>3, SlotsDiffer
  <2>2. Slot(t + i) \in 0 .. STREAM_FRAMES - 1
    BY <1>1, SlotRange
  <2> QED
    BY <2>1, <2>2 DEF Buffers
<1>4. ASSUME NEW j \in 1 .. n
      PROVE  [b EXCEPT ![Slot(h)] = f][Slot(t + j - 1)] = b[Slot(t + j - 1)]
  <2>1. j - 1 \in Nat /\ j - 1 < n /\ t + (j - 1) = t + j - 1
    BY <1>1
  <2> QED
    BY <2>1, <1>3
<1>5. Contents([b EXCEPT ![Slot(h)] = f], t, n) = Contents(b, t, n)
  BY <1>4 DEF Contents
<1>6. n > 0 => [b EXCEPT ![Slot(h)] = f][Slot(t + 0)] = b[Slot(t + 0)]
  BY <1>3
<1> QED
  BY <1>1, <1>5, <1>6

-----------------------------------------------------------------------------
(* What the refinement needs beside IInv: the frame in the mixer's hands is *)
(* the oldest of the queue, and only an open stream is written.            *)
FrameOK == mixer.pc \in {"load", "store"} => mixer.frame = buf[Slot(tail)]
CopyOK == app.pc = "copy" => on
RInv == IInv /\ FrameOK /\ CopyOK

(* RInv holds at first ...                                                 *)
LEMMA InitRInv == Init => RInv
<1> SUFFICES ASSUME Init PROVE RInv
  OBVIOUS
<1>1. mixer.pc = "render" /\ app.pc = "idle"
  BY DEF Init, Idle, Between
<1> QED
  BY <1>1, InitInv DEF RInv, FrameOK, CopyOK

(* ... and every step keeps it.                                            *)
LEMMA StepKeepsRInv ==
  ASSUME MixerBetweenClaims, RInv, [Next]_vars
  PROVE  RInv'
<1>1. IInv /\ IInv'
  BY StepKeepsInv DEF RInv
<1>2. FrameOK /\ CopyOK
  BY DEF RInv
<1>types. /\ buf \in Buffers /\ head \in Counter /\ tail \in Counter
          /\ app \in AppType /\ mixer \in MixerType
  BY <1>1 DEF IInv, TypeOK, Buffers
<1>3. CopyOK'
  <2>1. CASE UNCHANGED vars
    BY <2>1, <1>2 DEF vars, ring, CopyOK
  <2>2. CASE Mixer
    BY <2>2, <1>2 DEF CopyOK, Mixer, Render, PowerOn, Drain, PowerOff, Sleep, Wake,
       Fetch, MixFrame, LoadTail, StoreTail, WriteOut, Unblock, AppRests
  <2>3. CASE Open \/ NoteOn \/ Close \/ OpenTail \/ OpenOn \/ Notify \/ Publish
    <3>1. app'.pc # "copy"
      BY <2>3, <1>types DEF Open, NoteOn, Close, OpenTail, OpenOn, Notify, Publish, AppGoes,
         AppType, Idle
    <3> QED
      BY <3>1 DEF CopyOK
  <2>4. CASE PollSpace \/ Write
    <3>1. CASE PollSpace
      BY <3>1 DEF CopyOK, PollSpace, ring
    <3>2. CASE Write
      BY <3>2 DEF CopyOK, Write, ring
    <3> QED
      BY <2>4, <3>1, <3>2
  <2>5. CASE Copy
    BY <2>5, <1>2 DEF CopyOK, Copy, AppAt
  <2> QED
    BY <2>1, <2>2, <2>3, <2>4, <2>5 DEF Next, AppGoesOn
<1>4. FrameOK'
  <2> SUFFICES ASSUME mixer'.pc \in {"load", "store"} PROVE mixer'.frame = buf'[Slot(tail')]
    BY DEF FrameOK, Slot
  <2>0. mixer'.avail > 0 /\ ~Claiming'
    BY <1>1 DEF IInv, MixerOK, TypeOK, MixerType
  <2>1. CASE UNCHANGED <<mixer, buf, tail>>
    BY <2>1, <1>2 DEF FrameOK
  <2>2. CASE Copy
    <3>1. /\ app.pc = "copy" /\ app.left > 0 /\ mixer' = mixer /\ tail' = tail
      BY <2>2 DEF Copy, AppAt, MixerRests
    <3>2. PICK f \in Frames : buf' = [buf EXCEPT ![Slot(app.head)] = f]
      BY <2>2 DEF Copy
    <3>a. app.head \in Counter /\ app.n \in Nat /\ app.left \in Nat
      BY <1>types DEF AppType
    <3>b. Dist(head, tail) \in Nat /\ Dist(app.head, tail) \in Nat
      BY <3>a, <1>types, DistArith
    <3>c. /\ app.left <= app.n /\ Dist(head, tail) + app.n <= STREAM_FRAMES
          /\ Dist(app.head, tail) = Dist(head, tail) + app.n - app.left
      BY <1>1, <3>1 DEF IInv, WriterOK
    <3>3. /\ app.head \in Counter /\ Dist(head, tail) \in Nat /\ Dist(app.head, tail) \in Nat
          /\ Dist(head, tail) <= Dist(app.head, tail)
          /\ Dist(app.head, tail) < STREAM_FRAMES
      BY <3>a, <3>b, <3>c, <3>1, StreamAssumption
    <3>4. Dist(head, tail) > 0
      BY <2>0, <3>1, <3>3, <1>1, <1>types DEF IInv, MixerOK, Claiming, MixerType
    <3>5. buf'[Slot(tail)] = buf[Slot(tail)]
      BY <3>2, <3>3, <3>4, <1>types, ContentsKept
    <3> QED
      BY <3>1, <3>5, <1>2 DEF FrameOK
  <2>3. CASE OpenTail
    BY <2>3, <1>1, <1>types, <2>0 DEF OpenTail, AppAt, MixerRests, IInv, MixerOK, Claiming
  <2>4. CASE MixFrame
    BY <2>4, <1>types DEF MixFrame, MixerType
  <2>5. CASE LoadTail
    BY <2>5, <1>2, <1>types DEF LoadTail, MixerAt, FrameOK, MixerType
  <2>6. CASE Render \/ PowerOn \/ Drain \/ PowerOff \/ Sleep \/ Wake \/ Fetch
             \/ StoreTail \/ WriteOut \/ Unblock
    <3>1. CASE Render \/ Fetch \/ StoreTail
      BY <3>1, <1>types DEF Render, Fetch, StoreTail, MixerType
    <3>2. CASE PowerOn \/ Drain \/ PowerOff \/ Sleep \/ Wake \/ Unblock
      BY <3>2, <1>types DEF PowerOn, Drain, PowerOff, Sleep, Wake, Unblock, MixerGoes, MixerType
    <3>3. CASE WriteOut
      BY <3>3 DEF WriteOut, Between
    <3> QED
      BY <2>6, <3>1, <3>2, <3>3
  <2>7. CASE Open \/ OpenOn \/ NoteOn \/ Notify \/ PollSpace \/ Write \/ Publish \/ Close
    BY <2>7, <2>1 DEF Open, OpenOn, NoteOn, Notify, PollSpace, Write, Publish, Close,
       MixerRests, ring
  <2>8. CASE UNCHANGED vars
    BY <2>8, <2>1 DEF vars, ring
  <2> QED
    BY <2>2, <2>3, <2>4, <2>5, <2>6, <2>7, <2>8 DEF Next, AppGoesOn, Mixer
<1> QED
  BY <1>1, <1>3, <1>4 DEF RInv

(* The ring begins as an empty queue.                                      *)
LEMMA InitRefines == Init => Stream!Init
<1> SUFFICES ASSUME Init PROVE Stream!Init
  OBVIOUS
<1>1. head = 0 /\ tail = 0 /\ on = FALSE /\ played \in Frames /\ app.pc = "idle"
  BY DEF Init, Idle
<1>2. Dist(0, 0) = 0
  BY DEF Dist
<1>3. Queue = <<>>
  BY <1>1, <1>2 DEF Queue, Contents
<1> QED
  BY <1>1, <1>3 DEF Stream!Init

(* Every step of the ring is one of the queue: a claim resets and opens it, a *)
(* published write appends, a stored tail plays, a close closes; all others *)
(* leave it as it is.                                                      *)
LEMMA StepRefines ==
  ASSUME RInv, RInv', [Next]_vars
  PROVE  [Stream!Next]_<<Queue, on, played>>
<1>inv. IInv /\ FrameOK /\ CopyOK
  BY DEF RInv
<1>types. /\ buf \in Buffers /\ head \in Counter /\ tail \in Counter
          /\ app \in AppType /\ mixer \in MixerType /\ on \in BOOLEAN
  BY <1>inv DEF IInv, TypeOK, Buffers
<1>dist. /\ tail \in Nat /\ Dist(head, tail) \in Nat
  BY <1>types, DistArith DEF Counter
<1>same. ASSUME UNCHANGED <<buf, head, tail, on, played>>, app.pc # "tail", app'.pc # "tail"
         PROVE  UNCHANGED <<Queue, on, played>>
  BY <1>same DEF Queue, Contents, Dist, Slot
<1>rest. ASSUME UNCHANGED <<buf, head, tail, on, played, app>>
         PROVE  UNCHANGED <<Queue, on, played>>
  BY <1>rest DEF Queue, Contents, Dist, Slot
<1>Open. CASE Open
  <2>1. ~on /\ on' = on /\ played' = played /\ app'.pc = "tail"
    BY <1>Open, <1>types DEF Open, AppGoes, AppType, MixerRests
  <2>2. Queue' = <<>>
    BY <2>1 DEF Queue
  <2> QED
    BY <2>1, <2>2 DEF Stream!Next, Stream!Reset
<1>OpenTail. CASE OpenTail
  <2>1. /\ app.pc = "tail" /\ app'.pc = "on" /\ head' = 0 /\ tail' = 0
        /\ on' = on /\ played' = played
    BY <1>OpenTail, <1>inv, <1>types
    DEF OpenTail, AppAt, AppGoes, AppType, MixerRests, IInv, WriterOK
  <2>2. Dist(0, 0) = 0
    BY DEF Dist
  <2>3. Queue = <<>> /\ Queue' = <<>>
    BY <2>1, <2>2 DEF Queue, Contents, Dist
  <2> QED
    BY <2>1, <2>3
<1>OpenOn. CASE OpenOn
  <2>1. /\ app.pc = "on" /\ app'.pc = "notify" /\ head = 0 /\ tail = 0 /\ head' = 0 /\ tail' = 0
        /\ ~on /\ on' = TRUE /\ played' = played
    BY <1>OpenOn, <1>inv, <1>types
    DEF OpenOn, AppAt, AppGoes, AppType, MixerRests, IInv, WriterOK, MixerOK, Claiming
  <2>2. Queue = <<>> /\ Queue' = <<>>
    BY <2>1 DEF Queue, Contents, Dist
  <2> QED
    BY <2>1, <2>2 DEF Stream!Next, Stream!Open
<1>Copy. CASE Copy
  <2>1. /\ app.pc = "copy" /\ app.left > 0 /\ app'.pc = "copy"
        /\ UNCHANGED <<head, tail, on, played>>
    BY <1>Copy, <1>types DEF Copy, AppAt, AppType, MixerRests
  <2>2. PICK f \in Frames : buf' = [buf EXCEPT ![Slot(app.head)] = f]
    BY <1>Copy DEF Copy
  <2>3. /\ app.head \in Counter /\ Dist(app.head, tail) \in Nat
        /\ Dist(head, tail) <= Dist(app.head, tail)
        /\ Dist(app.head, tail) < STREAM_FRAMES
    <3>a. app.head \in Counter /\ app.n \in Nat /\ app.left \in Nat
      BY <1>types DEF AppType
    <3>b. Dist(head, tail) \in Nat /\ Dist(app.head, tail) \in Nat
      BY <3>a, <1>types, DistArith
    <3>c. /\ app.left <= app.n /\ Dist(head, tail) + app.n <= STREAM_FRAMES
          /\ Dist(app.head, tail) = Dist(head, tail) + app.n - app.left
      BY <1>inv, <2>1 DEF IInv, WriterOK
    <3> QED
      BY <3>a, <3>b, <3>c, <2>1, StreamAssumption
  <2>4. Contents(buf', tail, Dist(head, tail)) = Contents(buf, tail, Dist(head, tail))
    <3> DEFINE d == Dist(head, tail)
               h == app.head
    <3>1. h \in Counter /\ d \in Nat /\ d <= Dist(h, tail) /\ Dist(h, tail) < STREAM_FRAMES
      BY <2>3, <1>dist
    <3>2. buf' = [buf EXCEPT ![Slot(h)] = f]
      BY <2>2
    <3> HIDE DEF d, h
    <3>3. Contents([buf EXCEPT ![Slot(h)] = f], tail, d) = Contents(buf, tail, d)
      BY <3>1, <1>types, ContentsKept
    <3>4. Contents(buf', tail, d) = Contents(buf, tail, d)
      BY <3>2, <3>3
    <3> QED
      BY <3>4 DEF d
  <2>5. Queue' = Queue
    <3>1. Queue' = Contents(buf', tail', Dist(head', tail'))
      BY <2>1 DEF Queue, Contents, Dist, Slot
    <3> QED
      BY <3>1, <2>1, <2>4 DEF Queue
  <2> QED
    BY <2>1, <2>5
<1>Publish. CASE Publish
  <2> DEFINE d == Dist(head, tail)
             n == app.n
  <2>1. /\ app.pc = "copy" /\ app.left = 0 /\ app'.pc = "idle" /\ head' = app.head
        /\ UNCHANGED <<buf, tail, on, played>>
    BY <1>Publish, <1>types DEF Publish, AppAt, Idle, MixerRests
  <2>2. on /\ d \in Nat /\ n \in Nat
    BY <2>1, <1>inv, <1>types, <1>dist DEF CopyOK, AppType
  <2>3. Dist(app.head, tail) = d + n /\ d + n <= STREAM_FRAMES
    BY <2>1, <2>2, <1>inv DEF IInv, WriterOK
  <2>4. Queue = Contents(buf, tail, d)
    BY <2>1 DEF Queue
  <2>5. Queue' = Contents(buf, tail, d + n)
    <3>1. Queue' = Contents(buf', tail', Dist(head', tail'))
      BY <2>1 DEF Queue, Contents, Dist, Slot
    <3> QED
      BY <3>1, <2>1, <2>3
  <2>6. Len(Queue) = d
    BY <2>2, <2>4, <1>types, <1>dist, ContentsSeq
  <2> HIDE DEF d, n
  <2>7. PICK s \in [1 .. n -> Frames] : Queue' = Queue \o s
    <3>1. \E s \in [1 .. n -> Frames] :
            Contents(buf, tail, d + n) = Contents(buf, tail, d) \o s
      BY <2>2, <1>types, <1>dist, ContentsWritten
    <3> QED
      BY <3>1, <2>4, <2>5
  <2>8. CASE n = 0
    BY <2>8, <2>1, <2>4, <2>5, <2>2
  <2>9. CASE n > 0
    <3>1. n \in 1 .. STREAM_FRAMES - Len(Queue)
      BY <2>9, <2>2, <2>3, <2>6, StreamAssumption
    <3>2. Stream!Write
      BY <3>1, <2>1, <2>2, <2>7 DEF Stream!Write
    <3> QED
      BY <3>2 DEF Stream!Next
  <2>10. n = 0 \/ n > 0
    BY <2>2
  <2> QED
    BY <2>8, <2>9, <2>10
<1>Close. CASE Close
  <2>1. /\ app.pc # "tail" /\ app'.pc # "tail" /\ on /\ on' = FALSE
        /\ UNCHANGED <<buf, head, tail, played>>
    BY <1>Close DEF Close, AppAt, Idle, MixerRests
  <2>2. Queue' = Queue
    BY <2>1 DEF Queue, Contents, Dist, Slot
  <2> QED
    BY <2>1, <2>2 DEF Stream!Next, Stream!Close
<1>StoreTail. CASE StoreTail
  <2> DEFINE d == Dist(head, tail)
  <2>1. /\ mixer.pc = "store" /\ tail' = mixer.tail /\ played' = mixer.frame
        /\ UNCHANGED <<buf, head, on, app>>
    BY <1>StoreTail DEF StoreTail, MixerAt, AppRests
  <2>2. /\ mixer.avail > 0 /\ mixer.tail = Inc(tail) /\ ~Claiming
        /\ mixer.avail <= d
    BY <2>1, <1>inv, <1>types DEF IInv, MixerOK, MixerType
  <2>3. d > 0 /\ Dist(head, Inc(tail)) = d - 1
    <3>1. d \in Nat /\ mixer.avail \in Nat
      BY <1>dist, <1>types, StreamAssumption DEF MixerType
    <3>2. d > 0
      BY <3>1, <2>2
    <3>3. d > 0 => Dist(head, Inc(tail)) = d - 1
      BY <1>types, DistArith
    <3> QED
      BY <3>2, <3>3
  <2>4. app.pc # "tail" /\ app'.pc # "tail"
    BY <2>1, <2>2 DEF Claiming
  <2>5. Queue = Contents(buf, tail, d)
    BY <2>4 DEF Queue
  <2>6. Queue' = Contents(buf, Inc(tail), d - 1)
    <3>1. Queue' = Contents(buf', tail', Dist(head', tail'))
      BY <2>4 DEF Queue, Contents, Dist, Slot
    <3> QED
      BY <3>1, <2>1, <2>2, <2>3
  <2>7. played' = buf[Slot(tail)]
    BY <2>1, <1>inv DEF FrameOK
  <2> HIDE DEF d
  <2>8. d \in Nat
    BY <1>dist DEF d
  <2>9. Queue # <<>> /\ played' = Head(Queue) /\ Queue' = Tail(Queue)
    BY <2>3, <2>5, <2>6, <2>7, <2>8, <1>types, ContentsPlayed
  <2> QED
    BY <2>1, <2>9 DEF Stream!Next, Stream!Play
<1>App. CASE NoteOn \/ Notify \/ PollSpace \/ Write
  <2>1. app.pc # "tail" /\ app'.pc # "tail" /\ UNCHANGED <<buf, head, tail, on, played>>
    BY <1>App, <1>types DEF NoteOn, Notify, PollSpace, Write, AppAt, AppGoes, AppType,
       MixerRests, ring
  <2> QED
    BY <2>1, <1>same
<1>Mixer. CASE Render \/ PowerOn \/ Drain \/ PowerOff \/ Sleep \/ Wake \/ Fetch \/ MixFrame
               \/ LoadTail \/ WriteOut \/ Unblock
  BY <1>Mixer, <1>rest DEF Render, PowerOn, Drain, PowerOff, Sleep, Wake, Fetch, MixFrame,
     LoadTail, WriteOut, Unblock, AppRests
<1>stutter. CASE UNCHANGED vars
  BY <1>stutter, <1>rest DEF vars, ring
<1> QED
  BY <1>Open, <1>OpenTail, <1>OpenOn, <1>Copy, <1>Publish, <1>Close, <1>StoreTail, <1>App,
     <1>Mixer, <1>stutter DEF Next, AppGoesOn, Mixer

(* The PCM stream is the queue of snd_core.h: accepted frames play once each, *)
(* in the order written, and only a new claim discards them.               *)
THEOREM StreamImplemented == ASSUME MixerBetweenClaims PROVE Spec => StreamIsFifo
<1>1. Init => RInv /\ Stream!Init
  BY InitRInv, InitRefines
<1>2. RInv /\ [Next]_vars => RInv'
  BY StepKeepsRInv
<1>3. RInv /\ RInv' /\ [Next]_vars => [Stream!Next]_<<Queue, on, played>>
  BY StepRefines
<1> QED
  BY <1>1, <1>2, <1>3, PTL DEF Spec, StreamIsFifo, Stream!Spec
=============================================================================
