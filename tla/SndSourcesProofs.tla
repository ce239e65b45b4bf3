--------------------------- MODULE SndSourcesProofs ---------------------------
(***************************************************************************)
(* Proofs about the two sources of sound that the mixer renders: the       *)
(* PICO-8 tracker, for any cartridge, chunk, fade and number of channels   *)
(* and calls, and the synth's voices.                                      *)
(***************************************************************************)
EXTENDS SndP8, WellFoundedInduction, TLAPS

Speeds == {1} \cup {Effects[n].speed : n \in DOMAIN Effects}

(* A cartridge has a slowest sfx, and sfx 0; its patterns play sfx of it.  *)
Cartridge ==
  /\ Notes \in Nat \ {0} /\ FadeFull \in Nat \ {0} /\ FadeSamples \in Nat \ {0}
  /\ 0 \in DOMAIN Effects /\ None \notin DOMAIN Effects \cup DOMAIN Patterns
  /\ \A n \in DOMAIN Effects :
       /\ Effects[n].speed \in Nat /\ Effects[n].start \in Nat
       /\ Effects[n].stop \in Nat /\ Effects[n].last \in Nat
  /\ \A p \in DOMAIN Patterns, c \in Channels : Patterns[p].chan[c] \in DOMAIN Effects \cup {None}
  /\ \E m \in Speeds : \A s \in Speeds : m >= s

Sounds == DOMAIN Effects \cup {None}

(* The fields of a channel; where it is in its sfx and what is heard of it *)
(* are any values.                                                         *)
Voice(c) ==
  c \in [sfx : Sounds, queued : Sounds, music : BOOLEAN, loops : BOOLEAN,
         time : 0 .. Horizon, end : Int,
         note : {c.note}, tick : {c.tick}, sounds : {c.sounds}, fade : {c.fade}]

Tune(m) ==
  m \in [pattern : DOMAIN Patterns \cup {None, 0}, fade : 0 .. FadeFull, step : Int,
         ending : BOOLEAN, pos : {m.pos}, len : {m.len}, mask : {m.mask}]

Voices(f) == f = [c \in Channels |-> f[c]] /\ \A c \in Channels : Voice(f[c])

TypeOK ==
  /\ loaded \in BOOLEAN /\ sequenced \in BOOLEAN
  /\ Voices(chan) /\ Tune(music)

(* Music told to stop while it is heard has a fade that goes down.         *)
Ending == music.ending = TRUE => music.step < 0

IInv == TypeOK /\ PlaysOnce /\ EndsWhenAsked /\ Ending

-----------------------------------------------------------------------------
LEMMA MaxOfTwo ==
  ASSUME NEW a \in Int, NEW b \in Int
  PROVE  /\ Max({a, b}) \in {a, b} /\ Max({a, b}) >= a /\ Max({a, b}) >= b
         /\ Min({a, b}) \in {a, b} /\ Min({a, b}) <= a /\ Min({a, b}) <= b
<1>1. CASE a <= b
  BY <1>1 DEF Max, Min
<1>2. CASE b <= a
  BY <1>2 DEF Max, Min
<1> QED BY <1>1, <1>2

LEMMA MinOfThree ==
  ASSUME NEW a \in Int, NEW b \in Int, NEW c \in Int
  PROVE  Min({a, b, c}) \in {a, b, c} /\ Min({a, b, c}) <= a
<1>1. \E x \in {a, b, c} : \A y \in {a, b, c} : x <= y
  <2>1. CASE a <= b /\ a <= c
    BY <2>1
  <2>2. CASE b <= a /\ b <= c
    BY <2>2
  <2>3. CASE c <= a /\ c <= b
    BY <2>3
  <2> QED BY <2>1, <2>2, <2>3
<1> QED BY <1>1 DEF Min

LEMMA MulMonotone ==
  ASSUME NEW a \in Nat, NEW b \in Nat, NEW c \in Nat
  PROVE  /\ a <= b => a * c <= b * c
         /\ a <= b => c * a <= c * b
<1>1. (b - a) * c = b * c - a * c /\ c * (b - a) = c * b - c * a
  OBVIOUS
<1>2. a <= b => (b - a) * c >= 0 /\ c * (b - a) >= 0
  OBVIOUS
<1> QED BY <1>1, <1>2

(* The longest sfx bounds them all.                                        *)
LEMMA Slowest ==
  ASSUME Cartridge
  PROVE  /\ Horizon \in Nat /\ Never = Horizon + 1
         /\ \A n \in DOMAIN Effects : NoteLen(n) \in Nat \ {0}
         /\ \A n \in DOMAIN Effects, k \in 0 .. Notes :
              k * NoteLen(n) \in Nat /\ k * NoteLen(n) <= Horizon
<1> DEFINE M == Max(Speeds)
<1>1. M \in Speeds /\ \A s \in Speeds : M >= s
  BY DEF Max, Cartridge
<1>2. M \in Nat \ {0} /\ Horizon = Notes * M
  BY <1>1 DEF Speeds, Cartridge, Horizon
<1>3. ASSUME NEW n \in DOMAIN Effects
      PROVE  NoteLen(n) \in Nat \ {0} /\ NoteLen(n) <= M
  <2>1. Sfx(n).speed \in Nat /\ Sfx(n).speed <= M
    <3>1. CASE loaded
      <4>1. Sfx(n) = Effects[n] /\ Effects[n].speed \in Speeds
        BY <3>1 DEF Sfx, Speeds
      <4> QED BY <4>1, <1>1, <1>2 DEF Cartridge
    <3>2. CASE ~loaded
      BY <3>2, <1>2 DEF Sfx
    <3> QED BY <3>1, <3>2
  <2>2. NoteLen(n) \in {1, Sfx(n).speed} /\ NoteLen(n) >= 1
    <3> DEFINE s == Sfx(n).speed
    <3> HIDE DEF s
    <3>1. s \in Int
      BY <2>1 DEF s
    <3>2. Max({1, s}) \in {1, s} /\ Max({1, s}) >= 1
      BY <3>1, MaxOfTwo
    <3> QED BY <3>2 DEF NoteLen, s
  <2> QED BY <2>1, <2>2, <1>2
<1>4. ASSUME NEW k \in 0 .. Notes, NEW l \in Nat, l <= M
      PROVE  k * l \in Nat /\ k * l <= Notes * M
  <2> HIDE DEF M
  <2>1. k * l <= Notes * l
    BY MulMonotone DEF Cartridge
  <2>2. Notes * l <= Notes * M
    BY <1>2, <1>4, MulMonotone DEF Cartridge
  <2>3. k * l \in Nat /\ Notes * l \in Nat /\ Notes * M \in Nat
    BY <1>2 DEF Cartridge
  <2> QED BY <2>1, <2>2, <2>3
<1>5. Horizon \in Nat
  BY <1>2 DEF Cartridge
<1> QED
  BY <1>2, <1>3, <1>4, <1>5 DEF Never

-----------------------------------------------------------------------------
(* The end of a sfx is a time, within the Horizon unless it loops.         *)
LEMMA EndIsTime ==
  ASSUME Cartridge, NEW n \in DOMAIN Effects, NEW isMusic \in BOOLEAN, NEW canLoop \in BOOLEAN
  PROVE  /\ EndOf(n, isMusic, canLoop) \in Int
         /\ ~(canLoop /\ Loops(n)) => EndOf(n, isMusic, canLoop) <= Horizon
<1> DEFINE forced == ~Loops(n) \/ ~canLoop
           early == EndsEarly(n) /\ ~isMusic
           A == IF early THEN {Sfx(n).start} ELSE {}
           B == IF forced /\ ~isMusic THEN {Sfx(n).last} ELSE {}
           notes == Min({Notes} \cup A \cup B)
<1>1. Notes \in Nat /\ Sfx(n).start \in Nat /\ Sfx(n).last \in Nat
  BY DEF Cartridge, Sfx
<1>2. notes \in 0 .. Notes
  <2>1. PICK a \in Nat, b \in Nat : {Notes} \cup A \cup B = {Notes, a, b}
    <3>1. CASE early /\ forced /\ ~isMusic
      BY <3>1, <1>1
    <3>2. CASE early /\ ~(forced /\ ~isMusic)
      BY <3>2, <1>1
    <3>3. CASE ~early /\ forced /\ ~isMusic
      BY <3>3, <1>1
    <3>4. CASE ~early /\ ~(forced /\ ~isMusic)
      BY <3>4, <1>1
    <3> QED BY <3>1, <3>2, <3>3, <3>4
  <2> HIDE DEF A, B
  <2>2. Min({Notes, a, b}) \in {Notes, a, b} /\ Min({Notes, a, b}) <= Notes
    BY <1>1, MinOfThree
  <2> QED BY <1>1, <2>1, <2>2
<1>3. notes * NoteLen(n) \in Nat /\ notes * NoteLen(n) <= Horizon /\ Never \in Nat
  <2> HIDE DEF notes
  <2> QED BY <1>2, Slowest
<1>4. EndOf(n, isMusic, canLoop) = IF forced \/ early THEN notes * NoteLen(n) ELSE Never
  BY DEF EndOf
<1> HIDE DEF notes, early
<1> QED BY <1>3, <1>4

LEMMA LaunchVoice ==
  ASSUME Cartridge, NEW c, Voice(c), NEW n \in DOMAIN Effects, NEW pos, NEW isMusic \in BOOLEAN
  PROVE  LET d == Launch(c, n, pos, isMusic)
         IN /\ Voice(d) /\ d.sfx = n /\ d.music = isMusic
            /\ d.loops = TRUE /\ d.end = EndOf(n, isMusic, TRUE)
<1> DEFINE note == pos \div NoteLen(n)
           tick == pos % NoteLen(n)
           end == EndOf(n, isMusic, TRUE)
<1>0. end \in Int
  BY EndIsTime, Zenon
<1>1. end \in Int /\ 0 \in 0 .. Horizon
  <2> HIDE DEF end
  <2> QED BY <1>0, Slowest
<1>2. Launch(c, n, pos, isMusic) =
        [c EXCEPT !.sfx = n, !.music = isMusic, !.loops = TRUE, !.time = 0,
                  !.note = note, !.tick = tick, !.end = end]
  BY DEF Launch
<1> HIDE DEF note, tick, end
<1>3. LET d == [c EXCEPT !.sfx = n, !.music = isMusic, !.loops = TRUE, !.time = 0,
                         !.note = note, !.tick = tick, !.end = end]
      IN Voice(d) /\ d.sfx = n /\ d.music = isMusic /\ d.loops = TRUE /\ d.end = end
  BY <1>1 DEF Voice, Sounds
<1> QED BY <1>2, <1>3 DEF end

LEMMA StoppedVoice ==
  ASSUME NEW c, Voice(c)
  PROVE  Voice(Stopped(c)) /\ Stopped(c).sfx = None
  BY DEF Stopped, Voice, Sounds

(* What the sequencer and the mixer do to a channel: the music may come and *)
(* go, a user's sfx stays as it is.                                        *)
Spares(c, d) ==
  IF c.sfx # None /\ ~c.music
  THEN d.sfx = c.sfx /\ d.music = c.music /\ d.loops = c.loops /\ d.time = c.time /\ d.end = c.end
  ELSE d.sfx = None \/ d.music

LEMMA PatternSfx ==
  ASSUME Cartridge, NEW p \in DOMAIN Patterns, NEW c \in Channels
  PROVE  Pattern(p).chan[c] \in Sounds
<1>1. CASE loaded
  BY <1>1 DEF Cartridge, Pattern, Sounds
<1>2. CASE ~loaded
  BY <1>2 DEF Cartridge, Pattern, Sounds
<1> QED BY <1>1, <1>2

(* A pattern starts on the channels that are free and is queued elsewhere. *)
LEMMA SetPatternSpares ==
  ASSUME Cartridge, NEW p, NEW t, Voices(t.chan), Tune(t.music)
  PROVE  LET u == SetPattern(p, t)
         IN /\ Voices(u.chan) /\ \A c \in Channels : Spares(t.chan[c], u.chan[c])
            /\ Tune(u.music) /\ u.music.fade = t.music.fade
            /\ u.music.step = t.music.step /\ u.music.ending = t.music.ending
            /\ p = None => u.music.pattern = None
<1> DEFINE cut == [c \in Channels |-> IF t.chan[c].music THEN Stopped(t.chan[c]) ELSE t.chan[c]]
           start(c) == LET n == Pattern(p).chan[c] IN
             IF n = None THEN cut[c]
             ELSE IF cut[c].sfx = None THEN Launch(cut[c], n, 0, TRUE)
             ELSE [cut[c] EXCEPT !.queued = n]
           none == [t.music EXCEPT !.pattern = None, !.pos = 0, !.len = 0, !.mask = {}]
           some == [t.music EXCEPT !.pattern = p, !.pos = 0, !.len = PatternLen(p)]
           u == SetPattern(p, t)
<1>1. ASSUME NEW c \in Channels
      PROVE  Voice(cut[c]) /\ Spares(t.chan[c], cut[c]) /\ (cut[c].sfx # None => ~cut[c].music)
  <2>1. Voice(t.chan[c])
    BY DEF Voices
  <2>2. CASE t.chan[c].music
    BY <2>1, <2>2, StoppedVoice DEF Spares
  <2>3. CASE ~t.chan[c].music
    BY <2>1, <2>3 DEF Spares, Voice
  <2> QED BY <2>2, <2>3
<1> HIDE DEF cut
<1>2. ASSUME NEW c \in Channels, p \in DOMAIN Patterns
      PROVE  Voice(start(c)) /\ Spares(t.chan[c], start(c))
  <2> DEFINE n == Pattern(p).chan[c]
  <2>1. n \in Sounds
    BY <1>2, PatternSfx
  <2> HIDE DEF n
  <2>2. CASE n = None
    BY <1>1, <2>2 DEF n
  <2>3. CASE n # None /\ cut[c].sfx = None
    <3>1. start(c) = Launch(cut[c], n, 0, TRUE)
      BY <2>3 DEF n
    <3>2. Voice(start(c)) /\ start(c).music = TRUE
      <4>1. n \in DOMAIN Effects
        BY <2>1, <2>3 DEF Sounds
      <4>2. Voice(cut[c])
        BY <1>1
      <4> DEFINE d == Launch(cut[c], n, 0, TRUE)
      <4> HIDE DEF start
      <4>3. Voice(d) /\ d.music = TRUE
        BY <4>1, <4>2, LaunchVoice, Zenon
      <4> QED BY <3>1, <4>3
    <3> QED BY <1>1, <2>3, <3>2 DEF Spares
  <2>4. CASE n # None /\ cut[c].sfx # None
    <3>1. start(c) = [cut[c] EXCEPT !.queued = n]
      BY <2>4 DEF n
    <3> QED BY <1>1, <2>1, <2>4, <3>1 DEF Spares, Voice
  <2> QED BY <2>2, <2>3, <2>4
<1>3. Tune(none) /\ none.pattern = None /\ none.fade = t.music.fade
      /\ none.step = t.music.step /\ none.ending = t.music.ending
  BY DEF Tune
<1>4. p \in DOMAIN Patterns =>
        /\ Tune(some) /\ some.fade = t.music.fade
        /\ some.step = t.music.step /\ some.ending = t.music.ending
  BY DEF Tune
<1>5. u = IF p \notin DOMAIN Patterns \/ PatternLen(p) = 0
          THEN [chan |-> cut, music |-> none]
          ELSE [chan |-> [c \in Channels |-> start(c)], music |-> some]
  BY DEF SetPattern, cut
<1> HIDE DEF none, some, start, u
<1>6. CASE p \notin DOMAIN Patterns \/ PatternLen(p) = 0
  <2>1. u.chan = cut /\ u.music = none
    BY <1>5, <1>6
  <2>2. cut = [c \in Channels |-> cut[c]]
    BY DEF cut
  <2> QED BY <1>1, <1>3, <2>1, <2>2 DEF Voices, u
<1>7. CASE p \in DOMAIN Patterns /\ PatternLen(p) # 0
  <2>1. u.chan = [c \in Channels |-> start(c)] /\ u.music = some
    BY <1>5, <1>7
  <2>2. p # None
    BY <1>7 DEF Cartridge
  <2> QED BY <1>2, <1>4, <1>7, <2>1, <2>2 DEF Voices, u
<1> QED BY <1>6, <1>7

(* A free channel picks up what is queued; the others play on.             *)
LEMMA PickUpSpares ==
  ASSUME Cartridge, NEW c, Voice(c), NEW pos
  PROVE  Voice(PickUp(c, pos)) /\ Spares(c, PickUp(c, pos))
<1> DEFINE n == c.queued
           from == Resume(n, pos)
           d == Launch(c, n, from, TRUE)
<1>1. CASE c.sfx # None \/ n = None
  BY <1>1 DEF PickUp, Spares, Voice
<1>2. CASE c.sfx = None /\ n # None /\ PickUp(c, pos) = [c EXCEPT !.queued = None]
  BY <1>2 DEF Spares, Voice, Sounds
<1>3. CASE c.sfx = None /\ n # None /\ PickUp(c, pos) = [d EXCEPT !.queued = None]
  <2>1. n \in DOMAIN Effects
    BY <1>3 DEF Voice, Sounds
  <2> HIDE DEF from, n
  <2>2. Voice(d) /\ d.music = TRUE
    BY <2>1, LaunchVoice, Zenon
  <2> HIDE DEF d
  <2> QED BY <1>3, <2>2 DEF Spares, Voice, Sounds
<1>4. c.sfx = None /\ n # None =>
        PickUp(c, pos) \in {[c EXCEPT !.queued = None], [d EXCEPT !.queued = None]}
  BY DEF PickUp
<1> QED BY <1>1, <1>2, <1>3, <1>4

(* Rendering a sample ends the sfx whose time has come, and no other.      *)
LEMMA RenderedVoice ==
  ASSUME Cartridge, NEW c, Voice(c)
  PROVE  LET d == Rendered(c)
         IN /\ Voice(d) /\ d.music = c.music /\ d.loops = c.loops /\ d.end = c.end
            /\ d.sfx = c.sfx \/ (d.sfx = None /\ c.time + 1 >= c.end)
<1> DEFINE d == Declick(c)
           time == Min({d.time + 1, Horizon})
           e == Position(d)
<1>1. /\ Voice(d) /\ d.sfx = c.sfx /\ d.music = c.music /\ d.loops = c.loops
      /\ d.time = c.time /\ d.end = c.end
  <2> DEFINE fade == Max({0, (IF Audible(c) # c.sounds THEN FadeLen ELSE c.fade) - 1})
             sounds == Audible(c)
  <2>1. d = [c EXCEPT !.sounds = sounds, !.fade = fade]
    BY DEF Declick
  <2> HIDE DEF sounds, fade, d
  <2> QED BY <2>1 DEF Voice
<1> HIDE DEF d
<1>2. /\ Voice(e) /\ e.sfx = c.sfx /\ e.music = c.music /\ e.loops = c.loops
      /\ e.end = c.end
  <2> DEFINE s == Sfx(d.sfx)
             note == IF Loops(d.sfx) /\ d.loops /\ d.note + 1 >= s.stop
                     THEN s.start + ((d.note + 1 - s.start) % (s.stop - s.start))
                     ELSE d.note + 1
             tick == d.tick + 1
  <2>1. e \in {[d EXCEPT !.tick = tick], [d EXCEPT !.tick = 0, !.note = note]}
    BY DEF Position
  <2> HIDE DEF note, tick, e
  <2> QED BY <1>1, <2>1 DEF Voice
<1> HIDE DEF e
<1>3. time \in 0 .. Horizon /\ time <= c.time + 1
  <2>1. d.time + 1 \in Nat /\ Horizon \in Nat /\ d.time = c.time
    BY <1>1, Slowest DEF Voice
  <2> DEFINE next == d.time + 1
  <2>2. next \in Int /\ Horizon \in Int
    BY <2>1
  <2> HIDE DEF next
  <2>3. /\ Min({next, Horizon}) \in {next, Horizon}
        /\ Min({next, Horizon}) <= next /\ Min({next, Horizon}) <= Horizon
    BY <2>2, MaxOfTwo
  <2>4. time \in {next, Horizon} /\ time <= next /\ time <= Horizon
    BY <2>3 DEF next
  <2> HIDE DEF time
  <2> QED BY <2>1, <2>4 DEF next
<1> HIDE DEF time
<1>4. CASE c.sfx = None
  <2>1. Rendered(c) = d
    BY <1>4 DEF Rendered, d
  <2> QED BY <1>1, <2>1
<1>5. CASE c.sfx # None
  <2>1. Rendered(c) = [e EXCEPT !.time = time, !.sfx = IF time >= c.end THEN None ELSE @]
    BY <1>5 DEF Rendered, d, e, time
  <2> DEFINE sfx == IF time >= c.end THEN None ELSE e.sfx
  <2>2. Rendered(c) = [e EXCEPT !.time = time, !.sfx = sfx]
    BY <2>1
  <2>3. c.end \in Int /\ c.time \in Int
    BY DEF Voice
  <2>4. sfx \in Sounds /\ (sfx = e.sfx \/ (sfx = None /\ c.time + 1 >= c.end))
    BY <1>2, <1>3, <2>3 DEF Voice, Sounds
  <2> HIDE DEF sfx
  <2> QED BY <1>2, <1>3, <2>2, <2>4 DEF Voice
<1> QED BY <1>4, <1>5

LEMMA ClipFades ==
  ASSUME Cartridge, NEW fade \in 0 .. FadeFull, NEW step \in Int
  PROVE  /\ Clip(fade + step) \in 0 .. FadeFull
         /\ step < 0 => Clip(fade + step) = 0 \/ Clip(fade + step) < fade
<1> DEFINE sum == fade + step
           low == Min({sum, FadeFull})
<1>1. sum \in Int /\ FadeFull \in Int /\ 0 \in Int /\ FadeFull >= 0
  BY DEF Cartridge
<1>2. Clip(sum) = Max({0, low})
  BY DEF Clip
<1>3. step < 0 => sum < fade
  BY DEF Cartridge
<1> HIDE DEF sum
<1>4. low \in {sum, FadeFull} /\ low <= sum /\ low <= FadeFull
  BY <1>1, MaxOfTwo
<1> HIDE DEF low
<1>5. low \in Int
  BY <1>1, <1>4
<1>6. Max({0, low}) \in {0, low} /\ Max({0, low}) >= 0
  BY <1>5, MaxOfTwo
<1>7. /\ Clip(sum) \in 0 .. FadeFull
      /\ step < 0 => Clip(sum) = 0 \/ Clip(sum) < fade
  BY <1>1, <1>2, <1>3, <1>4, <1>6
<1> QED BY <1>7 DEF sum

(* A sample of the sequencer spares the channels of the app, and brings    *)
(* ending music nearer to silence.                                         *)
LEMMA SequenceSpares ==
  ASSUME Cartridge, NEW f, NEW m, Voices(f), Tune(m)
  PROVE  LET u == Sequence([chan |-> f, music |-> m])
         IN /\ Voices(u.chan) /\ \A c \in Channels : Spares(f[c], u.chan[c])
            /\ Tune(u.music) /\ u.music.step = m.step /\ u.music.ending = m.ending
            /\ m.step < 0 => u.music.pattern = None \/ u.music.fade < m.fade
<1> DEFINE t == [chan |-> f, music |-> m]
           fade == Clip(m.fade + m.step)
           k == [m EXCEPT !.pos = @ + 1, !.fade = fade]
           v == [chan |-> f, music |-> k]
           u == Sequence(t)
<1>1. m.fade \in 0 .. FadeFull /\ m.step \in Int
  BY DEF Tune
<1>2. fade \in 0 .. FadeFull /\ (m.step < 0 => fade = 0 \/ fade < m.fade)
  BY <1>1, ClipFades
<1> HIDE DEF fade
<1>3. Tune(k) /\ k.fade = fade /\ k.step = m.step /\ k.ending = m.ending /\ k.pattern = m.pattern
  BY <1>2 DEF Tune
<1>4. u = IF k.pattern = None THEN t
          ELSE IF k.step < 0 /\ k.fade = 0 THEN SetPattern(None, v)
          ELSE IF k.pos >= k.len THEN SetPattern(NextPattern(k.pattern), v)
          ELSE v
  BY DEF Sequence, fade
<1> HIDE DEF k, u
<1>5. CASE k.pattern = None
  <2>1. u = t /\ m.pattern = None
    BY <1>3, <1>4, <1>5
  <2>2. \A c \in Channels : Spares(f[c], f[c])
    BY DEF Spares, Voices, Voice
  <2> QED BY <2>1, <2>2 DEF u
<1>6. CASE u = v /\ ~(k.step < 0 /\ k.fade = 0)
  <2>2. \A c \in Channels : Spares(f[c], f[c])
    BY DEF Spares, Voices, Voice
  <2> QED BY <1>2, <1>3, <1>6, <2>2 DEF u
<1>7. ASSUME NEW p, u = SetPattern(p, v), k.step < 0 /\ k.fade = 0 => p = None
      PROVE  /\ Voices(u.chan) /\ \A c \in Channels : Spares(f[c], u.chan[c])
             /\ Tune(u.music) /\ u.music.step = m.step /\ u.music.ending = m.ending
             /\ m.step < 0 => u.music.pattern = None \/ u.music.fade < m.fade
  <2>1. v.chan = f /\ v.music = k
    OBVIOUS
  <2> HIDE DEF v
  <2>2. /\ Voices(u.chan) /\ \A c \in Channels : Spares(f[c], u.chan[c])
        /\ Tune(u.music) /\ u.music.fade = k.fade
        /\ u.music.step = k.step /\ u.music.ending = k.ending
        /\ p = None => u.music.pattern = None
    BY <1>3, <1>7, <2>1, SetPatternSpares, Zenon
  <2> QED BY <1>2, <1>3, <1>7, <2>2
<1>8. \/ k.pattern = None
      \/ u = v /\ ~(k.step < 0 /\ k.fade = 0)
      \/ u = SetPattern(None, v)
      \/ u = SetPattern(NextPattern(k.pattern), v) /\ ~(k.step < 0 /\ k.fade = 0)
  BY <1>4
<1> QED BY <1>5, <1>6, <1>7, <1>8 DEF u

-----------------------------------------------------------------------------
(* A step that leaves the sfx of the app as they are, or ends them, keeps  *)
(* what is true of them.                                                   *)
Keeps(c, d) ==
  \/ d.sfx = None
  \/ d.music
  \/ ~c.music /\ d.sfx = c.sfx /\ d.loops = c.loops /\ d.end = c.end

LEMMA Kept ==
  ASSUME PlaysOnce, EndsWhenAsked, loaded' = loaded,
         \A c \in Channels : Keeps(chan[c], chan'[c])
  PROVE  PlaysOnce' /\ EndsWhenAsked'
<1>1. \A n : Loops(n)' = Loops(n)
  BY DEF Loops, Sfx
<1>2. \A c \in Channels : Owned(c)' =>
        /\ Owned(c) /\ chan'[c].sfx = chan[c].sfx
        /\ chan'[c].loops = chan[c].loops /\ chan'[c].end = chan[c].end
  BY DEF Owned, Keeps
<1>3. PlaysOnce'
  BY <1>2 DEF PlaysOnce
<1>4. EndsWhenAsked'
  BY <1>1, <1>2 DEF EndsWhenAsked
<1> QED BY <1>3, <1>4

LEMMA SparedIsKept ==
  ASSUME NEW c, NEW d, Voice(c), Spares(c, d)
  PROVE  Keeps(c, d)
  BY DEF Spares, Keeps, Voice

(* What the mixer does.                                                    *)
LEMMA SampleSpares ==
  ASSUME Cartridge, TypeOK, Sample, NEW c \in Channels
  PROVE  /\ Voice(chan'[c]) /\ Keeps(chan[c], chan'[c])
         /\ Owned(c) /\ chan'[c].sfx # chan[c].sfx => chan[c].time + 1 >= chan[c].end
<1> DEFINE a == chan[c]
           b == PickUp(a, music.pos)
           d == Rendered(b)
<1>1. Voice(a)
  BY DEF TypeOK, Voices
<1>2. chan'[c] = d
  BY DEF Sample
<1> HIDE DEF a
<1>3. Voice(b) /\ Spares(a, b)
  BY <1>1, PickUpSpares
<1> HIDE DEF b
<1>4. /\ Voice(d) /\ d.music = b.music /\ d.loops = b.loops /\ d.end = b.end
      /\ d.sfx = b.sfx \/ (d.sfx = None /\ b.time + 1 >= b.end)
  BY <1>3, RenderedVoice
<1> HIDE DEF d
<1>5. Keeps(a, d)
  BY <1>1, <1>3, <1>4 DEF Spares, Keeps, Voice
<1>6. a.sfx # None /\ ~a.music /\ d.sfx # a.sfx => a.time + 1 >= a.end
  BY <1>3, <1>4 DEF Spares
<1> QED BY <1>2, <1>4, <1>5, <1>6 DEF Owned, a

LEMMA MixerStep ==
  ASSUME Cartridge, IInv, Mixer
  PROVE  IInv'
<1> USE DEF IInv
<1>1. CASE StartChunk
  <2>1. \A c \in Channels : Keeps(chan[c], chan'[c])
    BY <1>1 DEF StartChunk, Keeps, TypeOK, Voices, Voice
  <2>2. PlaysOnce' /\ EndsWhenAsked'
    BY <1>1, <2>1, Kept DEF StartChunk
  <2> QED BY <1>1, <2>2 DEF StartChunk, TypeOK, Ending
<1>2. CASE Sequenced
  <2> DEFINE u == Sequence([chan |-> chan, music |-> music])
  <2>1. /\ Voices(u.chan) /\ \A c \in Channels : Spares(chan[c], u.chan[c])
        /\ Tune(u.music) /\ u.music.step = music.step /\ u.music.ending = music.ending
    BY SequenceSpares, Zenon DEF TypeOK
  <2>2. chan' = u.chan /\ music' = u.music /\ loaded' = loaded /\ sequenced' = TRUE
    BY <1>2 DEF Sequenced
  <2> HIDE DEF u
  <2>3. \A c \in Channels : Keeps(chan[c], chan'[c])
    BY <2>1, <2>2, SparedIsKept DEF TypeOK, Voices
  <2>4. PlaysOnce' /\ EndsWhenAsked'
    BY <2>2, <2>3, Kept
  <2> QED BY <2>1, <2>2, <2>4 DEF TypeOK, Ending
<1>3. CASE Sample
  <2>1. \A c \in Channels : Voice(chan'[c]) /\ Keeps(chan[c], chan'[c])
    BY <1>3, SampleSpares
  <2>2. PlaysOnce' /\ EndsWhenAsked'
    BY <1>3, <2>1, Kept DEF Sample
  <2>3. chan' = [c \in Channels |-> chan'[c]]
    BY <1>3 DEF Sample
  <2> QED BY <1>3, <2>1, <2>2, <2>3 DEF Sample, TypeOK, Voices, Ending
<1> QED BY <1>1, <1>2, <1>3 DEF Mixer

-----------------------------------------------------------------------------
(* What the calls do.                                                      *)
LEMMA SilencedVoices ==
  ASSUME Cartridge, TypeOK
  PROVE  LET t == Silenced
         IN /\ Voices(t.chan) /\ \A c \in Channels : t.chan[c].sfx = None
            /\ Tune(t.music) /\ t.music.step = music.step /\ t.music.ending = music.ending
<1> DEFINE s == [chan |-> chan, music |-> music]
           t == SetPattern(None, s)
           u == [t EXCEPT !.chan = [c \in Channels |-> Stopped(t.chan[c])]]
<1>1. s.chan = chan /\ s.music = music
  OBVIOUS
<1>2. Silenced = u
  BY DEF Silenced
<1>3. DOMAIN t = {"chan", "music"}
  BY DEF SetPattern
<1> HIDE DEF s
<1>4. /\ Voices(t.chan) /\ Tune(t.music)
      /\ t.music.step = music.step /\ t.music.ending = music.ending
  BY <1>1, SetPatternSpares DEF TypeOK
<1> HIDE DEF t
<1>5. u.music = t.music /\ u.chan = [c \in Channels |-> Stopped(t.chan[c])]
  BY <1>3
<1> HIDE DEF u
<1>6. \A c \in Channels : Voice(u.chan[c]) /\ u.chan[c].sfx = None
  BY <1>4, <1>5, StoppedVoice DEF Voices
<1> QED BY <1>2, <1>4, <1>5, <1>6 DEF Voices

LEMMA SilentStep ==
  ASSUME Cartridge, IInv, Load \/ Stop
  PROVE  IInv'
<1> DEFINE t == Silenced
<1>1. /\ Voices(t.chan) /\ \A c \in Channels : t.chan[c].sfx = None
      /\ Tune(t.music) /\ t.music.step = music.step /\ t.music.ending = music.ending
  BY SilencedVoices DEF IInv
<1>2. chan' = t.chan /\ music' = t.music /\ loaded' \in BOOLEAN /\ sequenced' = sequenced
  BY DEF Load, Stop, Set, IInv, TypeOK
<1> HIDE DEF t
<1>3. \A c \in Channels : ~Owned(c)'
  BY <1>1, <1>2 DEF Owned
<1> QED BY <1>1, <1>2, <1>3 DEF IInv, TypeOK, PlaysOnce, EndsWhenAsked, Ending

LEMMA StopSfxStep ==
  ASSUME Cartridge, IInv, NEW C, StopSfx(C)
  PROVE  IInv'
<1>1. \A c \in Channels : Voice(chan'[c]) /\ Keeps(chan[c], chan'[c])
  BY DEF StopSfx, IInv, TypeOK, Voices, Voice, Keeps, Sounds
<1>2. PlaysOnce' /\ EndsWhenAsked'
  BY <1>1, Kept DEF StopSfx, IInv
<1> QED BY <1>1, <1>2 DEF StopSfx, IInv, TypeOK, Voices, Ending

LEMMA StopLoopingStep ==
  ASSUME Cartridge, IInv, NEW C, StopLooping(C)
  PROVE  IInv'
<1>1. ASSUME NEW c \in Channels
      PROVE  /\ Voice(chan'[c]) /\ chan'[c].sfx = chan[c].sfx /\ chan'[c].music = chan[c].music
             /\ \/ chan'[c] = chan[c]
                \/ chan'[c].sfx # None => chan'[c].end <= Horizon
  <2> DEFINE a == chan[c]
             end == IF a.sfx = None THEN a.end ELSE EndOf(a.sfx, FALSE, FALSE)
  <2>1. Voice(a) /\ chan'[c] \in {a, [a EXCEPT !.loops = FALSE, !.end = end]}
    BY DEF StopLooping, IInv, TypeOK, Voices
  <2>2. a.sfx # None => a.sfx \in DOMAIN Effects
    BY <2>1 DEF Voice, Sounds
  <2>3. a.sfx # None => EndOf(a.sfx, FALSE, FALSE) \in Int /\ EndOf(a.sfx, FALSE, FALSE) <= Horizon
    BY <2>2, EndIsTime, Zenon
  <2>4. end \in Int /\ (a.sfx # None => end <= Horizon)
    BY <2>1, <2>3 DEF Voice
  <2> HIDE DEF a, end
  <2>5. Voice(chan'[c]) /\ chan'[c].sfx = a.sfx /\ chan'[c].music = a.music
        /\ (chan'[c] = a \/ (chan'[c].sfx # None => chan'[c].end <= Horizon))
    BY <2>1, <2>4 DEF Voice
  <2> QED BY <2>5 DEF a
<1>2. loaded' = loaded /\ music' = music /\ sequenced' = sequenced
      /\ chan' = [c \in Channels |-> chan'[c]]
  BY DEF StopLooping
<1>3. PlaysOnce'
  BY <1>1, <1>2 DEF PlaysOnce, Owned, IInv
<1>4. \A n : Loops(n)' = Loops(n)
  BY <1>2 DEF Loops, Sfx
<1>5. EndsWhenAsked'
  BY <1>1, <1>2, <1>4 DEF EndsWhenAsked, Owned, IInv
<1> QED BY <1>1, <1>2, <1>3, <1>5 DEF IInv, TypeOK, Voices, Ending

(* A sfx that is played again is stopped where it plays, so that it is on  *)
(* the new channel only.                                                   *)
LEMMA PlayStep ==
  ASSUME Cartridge, IInv, NEW n \in DOMAIN Effects, NEW to, NEW offset, Play(n, to, offset)
  PROVE  IInv'
<1> DEFINE once == [c \in Channels |-> IF chan[c].sfx = n THEN [chan[c] EXCEPT !.sfx = None]
                                                         ELSE chan[c]]
           old == once[to]
           kept == IF old.sfx # None /\ old.music THEN [old EXCEPT !.queued = old.sfx] ELSE old
           start == offset * NoteLen(n)
           new == Launch(kept, n, start, FALSE)
<1>1. /\ chan' = [once EXCEPT ![to] = new]
      /\ loaded' = loaded /\ music' = music /\ sequenced' = sequenced
  BY DEF Play
<1>2. ASSUME NEW c \in Channels
      PROVE  Voice(once[c]) /\ once[c].sfx # n /\ Keeps(chan[c], once[c])
  BY DEF IInv, TypeOK, Voices, Voice, Keeps, Sounds, Cartridge
<1>3. to \in Channels => Voice(kept)
  BY <1>2 DEF Voice
<1> HIDE DEF start, kept
<1>4. ASSUME to \in Channels
      PROVE  /\ Voice(new) /\ new.sfx = n /\ new.music = FALSE
             /\ new.loops = TRUE /\ new.end = EndOf(n, FALSE, TRUE)
  <2>1. Voice(kept)
    BY <1>3, <1>4
  <2>2. Voice(new)
    BY <2>1, LaunchVoice, Zenon
  <2>3. new.sfx = n /\ new.music = FALSE /\ new.loops = TRUE /\ new.end = EndOf(n, FALSE, TRUE)
    <3> DEFINE note == start \div NoteLen(n)
               tick == start % NoteLen(n)
               end == EndOf(n, FALSE, TRUE)
    <3>1. new = [kept EXCEPT !.sfx = n, !.music = FALSE, !.loops = TRUE, !.time = 0,
                             !.note = note, !.tick = tick, !.end = end]
      BY DEF Launch
    <3> HIDE DEF note, tick, end, new
    <3> QED BY <2>1, <3>1 DEF Voice, end
  <2> QED BY <2>2, <2>3
<1>5. \A c \in Channels : chan'[c] = IF c = to THEN new ELSE once[c]
  BY <1>1
<1>6. chan' = [c \in Channels |-> chan'[c]]
  BY <1>1
<1>7. ~Loops(n) => EndOf(n, FALSE, TRUE) <= Horizon
  BY EndIsTime, Zenon
<1> HIDE DEF once, new
<1>8. \A c \in Channels : Voice(chan'[c])
  BY <1>2, <1>4, <1>5
<1>9. \A c \in Channels : c # to /\ Owned(c)' =>
        /\ Owned(c) /\ chan'[c].sfx = chan[c].sfx /\ chan'[c].sfx # n
        /\ chan'[c].loops = chan[c].loops /\ chan'[c].end = chan[c].end
  BY <1>2, <1>5 DEF Owned, Keeps
<1>10. PlaysOnce'
  <2> SUFFICES ASSUME loaded, NEW c \in Channels, NEW d \in Channels, Owned(c)', Owned(d)',
                      chan'[c].sfx = chan'[d].sfx
               PROVE  c = d
    BY <1>1 DEF PlaysOnce
  <2>1. c = to => chan'[c].sfx = n
    BY <1>4, <1>5
  <2>2. d = to => chan'[d].sfx = n
    BY <1>4, <1>5
  <2>3. c # to /\ d # to => c = d
    BY <1>9 DEF PlaysOnce, IInv
  <2> QED BY <1>9, <2>1, <2>2, <2>3
<1>11. \A k : Loops(k)' = Loops(k)
  BY <1>1 DEF Loops, Sfx
<1>12. EndsWhenAsked'
  <2> SUFFICES ASSUME loaded, NEW c \in Channels, Owned(c)',
                      ~(chan'[c].loops /\ Loops(chan'[c].sfx))
               PROVE  chan'[c].end <= Horizon
    BY <1>1, <1>11 DEF EndsWhenAsked
  <2>1. CASE c = to
    BY <1>4, <1>5, <1>7, <2>1
  <2>2. CASE c # to
    BY <1>9, <2>2 DEF EndsWhenAsked, IInv
  <2> QED BY <2>1, <2>2
<1> QED BY <1>1, <1>6, <1>8, <1>10, <1>12 DEF IInv, TypeOK, Voices, Ending

LEMMA StartMusicStep ==
  ASSUME Cartridge, IInv, NEW p, NEW faded \in BOOLEAN, NEW mask, StartMusic(p, faded, mask)
  PROVE  IInv'
<1> DEFINE fade == IF faded THEN 0 ELSE FadeFull
           step == IF faded THEN Max({1, FadeFull \div FadeSamples}) ELSE 0
           m == [music EXCEPT !.mask = mask, !.ending = FALSE, !.fade = fade, !.step = step]
           t == [chan |-> chan, music |-> m]
           u == SetPattern(p, t)
<1>1. chan' = u.chan /\ music' = u.music /\ loaded' = loaded /\ sequenced' = sequenced
  BY DEF StartMusic, Set
<1>2. fade \in 0 .. FadeFull /\ step \in Int
  <2> DEFINE k == FadeFull \div FadeSamples
  <2>1. k \in Int
    BY DEF Cartridge
  <2> HIDE DEF k
  <2>2. Max({1, k}) \in {1, k}
    BY <2>1, MaxOfTwo
  <2>3. step \in Int
    BY <2>1, <2>2 DEF k
  <2> QED BY <2>3 DEF Cartridge
<1> HIDE DEF fade, step
<1>3. Tune(m) /\ m.ending = FALSE
  BY <1>2 DEF IInv, TypeOK, Tune
<1>4. t.chan = chan /\ t.music = m
  OBVIOUS
<1> HIDE DEF m, t
<1>5. /\ Voices(u.chan) /\ \A c \in Channels : Spares(chan[c], u.chan[c])
      /\ Tune(u.music) /\ u.music.ending = FALSE
  BY <1>3, <1>4, SetPatternSpares DEF IInv, TypeOK
<1> HIDE DEF u
<1>6. \A c \in Channels : Keeps(chan[c], chan'[c])
  BY <1>1, <1>5, SparedIsKept DEF IInv, TypeOK, Voices
<1>7. PlaysOnce' /\ EndsWhenAsked'
  BY <1>1, <1>6, Kept DEF IInv
<1> QED BY <1>1, <1>5, <1>7 DEF IInv, TypeOK, Ending

LEMMA StopMusicStep ==
  ASSUME Cartridge, IInv, NEW faded \in BOOLEAN, StopMusic(faded)
  PROVE  IInv'
<1> DEFINE down == -(music.fade \div FadeSamples)
           step == IF ~faded THEN -FadeFull
                   ELSE IF music.fade > 0 THEN Min({-1, down}) ELSE 0
           ending == music.fade > 0
<1>1. music.fade \in 0 .. FadeFull /\ Voices(chan)
  BY DEF IInv, TypeOK, Tune
<1>2. step \in Int /\ (ending => step < 0)
  <2>1. down \in Int /\ -1 \in Int
    BY <1>1 DEF Cartridge
  <2> HIDE DEF down
  <2>2. Min({-1, down}) \in {-1, down} /\ Min({-1, down}) <= -1
    BY <2>1, MaxOfTwo
  <2> QED BY <1>1, <2>1, <2>2 DEF Cartridge
<1>3. /\ music' = [music EXCEPT !.ending = ending, !.step = step]
      /\ chan' = chan /\ loaded' = loaded /\ sequenced' = sequenced
  BY DEF StopMusic
<1>4. ending \in BOOLEAN
  OBVIOUS
<1> HIDE DEF step, ending
<1>5. Tune(music') /\ (music'.ending = TRUE => music'.step < 0)
  BY <1>2, <1>3, <1>4 DEF IInv, TypeOK, Tune
<1>6. \A c \in Channels : Keeps(chan[c], chan'[c])
  BY <1>1, <1>3 DEF Keeps, Voices, Voice
<1>7. PlaysOnce' /\ EndsWhenAsked'
  BY <1>3, <1>6, Kept DEF IInv
<1> QED BY <1>1, <1>3, <1>5, <1>7 DEF IInv, TypeOK, Ending

-----------------------------------------------------------------------------
LEMMA InitInv == Cartridge => (Init => IInv)
<1> SUFFICES ASSUME Cartridge, Init PROVE IInv
  OBVIOUS
<1> DEFINE boot == [sfx |-> 0, queued |-> 0, music |-> FALSE, loops |-> FALSE, note |-> 0,
                    tick |-> 0, time |-> 0, end |-> 0, sounds |-> FALSE, fade |-> 0]
<1>0. 0 \in 0 .. Horizon
  BY Slowest
<1>1. Voices(chan)
  <2>1. chan = [c \in Channels |-> boot]
    BY DEF Init
  <2>2. Voice(boot)
    BY <1>0 DEF Voice, Sounds, Cartridge
  <2> HIDE DEF boot
  <2> QED BY <2>1, <2>2 DEF Voices
<1>2. Tune(music) /\ Ending
  BY DEF Init, Tune, Ending, Cartridge
<1> QED BY <1>1, <1>2 DEF Init, IInv, TypeOK, PlaysOnce, EndsWhenAsked

LEMMA Invariance == ASSUME Cartridge PROVE Spec => []IInv
<1>1. IInv /\ [Next]_vars => IInv'
  <2> SUFFICES ASSUME IInv, [Next]_vars PROVE IInv'
    OBVIOUS
  <2>1. CASE Mixer
    BY <2>1, MixerStep
  <2>2. CASE Calls
    BY <2>2, SilentStep, StopSfxStep, StopLoopingStep, PlayStep, StartMusicStep, StopMusicStep
    DEF Calls
  <2>3. CASE UNCHANGED vars
    BY <2>3 DEF vars, IInv, TypeOK, PlaysOnce, Owned, EndsWhenAsked, Loops, Sfx, Ending
  <2> QED BY <2>1, <2>2, <2>3 DEF Next
<1> QED BY <1>1, InitInv, PTL DEF Spec

(* PlaysOnce: "PICO-8 never plays the same sfx on two channels"            *)
(* (snd_p8_sfx), of the sfx that an app plays, whatever the music does.    *)
THEOREM PlaysOnOneChannel == ASSUME Cartridge PROVE Spec => []PlaysOnce
<1>1. IInv => PlaysOnce
  BY DEF IInv
<1> QED BY <1>1, Invariance, PTL

(* EndsWhenAsked: a sfx of an app that does not loop, or was told to stop  *)
(* looping, has an end (chan_calc_end).                                    *)
THEOREM EndsAreSet == ASSUME Cartridge PROVE Spec => []EndsWhenAsked
<1>1. IInv => EndsWhenAsked
  BY DEF IInv
<1> QED BY <1>1, Invariance, PTL

(* SfxPlaysOn: while the mixer renders, a sfx of an app plays on until its *)
(* end, whatever pattern the sequencer starts (set_music_pattern).         *)
THEOREM UsersPlayOn == ASSUME Cartridge PROVE Spec => [][SfxPlaysOn]_vars
<1>1. IInv /\ [Next]_vars => [SfxPlaysOn]_vars
  <2> SUFFICES ASSUME IInv, Next, left > 0 PROVE SfxPlaysOn
    BY DEF SfxPlaysOn
  <2>1. CASE Sequenced
    <3> DEFINE u == Sequence([chan |-> chan, music |-> music])
    <3>1. \A c \in Channels : Spares(chan[c], u.chan[c])
      BY SequenceSpares, Zenon DEF IInv, TypeOK
    <3>2. chan' = u.chan
      BY <2>1 DEF Sequenced
    <3> HIDE DEF u
    <3> QED BY <3>1, <3>2 DEF Spares, SfxPlaysOn, Owned
  <2>2. CASE Sample
    BY <2>2, SampleSpares DEF IInv, SfxPlaysOn, Sample
  <2>3. left # 0
    OBVIOUS
  <2> QED BY <2>1, <2>2, <2>3 DEF Next, Mixer, StartChunk, Calls, Called, Load, Stop, StopSfx,
                                StopLooping, Play, StartMusic, StopMusic
<1> QED BY <1>1, Invariance, PTL DEF Spec

(* MusicFades: music told to stop while it is heard gets quieter with every *)
(* sample until it stops, however slow the fade (update_music, "n == -1     *)
(* stop").                                                                 *)
THEOREM MusicGoesOut == ASSUME Cartridge PROVE Spec => [][MusicFades]_vars
<1>1. IInv /\ [Next]_vars => [MusicFades]_vars
  <2> SUFFICES ASSUME IInv, Next, music.ending, sequenced', ~sequenced PROVE MusicFades
    BY DEF MusicFades
  <2>1. Sequenced
    BY DEF Next, Mixer, StartChunk, Sample, Calls, Load, Stop, StopSfx, StopLooping, Play,
           StartMusic, StopMusic
  <2> DEFINE u == Sequence([chan |-> chan, music |-> music])
  <2>2. music.step < 0 => u.music.pattern = None \/ u.music.fade < music.fade
    BY SequenceSpares, Zenon DEF IInv, TypeOK
  <2>3. music' = u.music
    BY <2>1 DEF Sequenced
  <2> HIDE DEF u
  <2> QED BY <2>2, <2>3 DEF MusicFades, IInv, Ending, TypeOK, Tune
<1> QED BY <1>1, Invariance, PTL DEF Spec

-----------------------------------------------------------------------------
(* The remainder of a number is what is left of it below the divisor, and  *)
(* counts on with the number until it reaches it.                          *)
LEMMA DivMod ==
  ASSUME NEW a \in Nat, NEW r \in Nat \ {0}
  PROVE  /\ a \div r \in Nat /\ a % r \in 0 .. r - 1
         /\ ((a \div r) * r) + (a % r) = a
  OBVIOUS

LEMMA Remainder ==
  ASSUME NEW a \in Nat, NEW r \in Nat \ {0}, NEW k \in Nat, NEW m \in 0 .. r - 1, a = k * r + m
  PROVE  a % r = m
<1> DEFINE d == a \div r
           e == a % r
<1>1. d \in Nat /\ e \in 0 .. r - 1 /\ d * r + e = a
  BY DivMod
<1> HIDE DEF d, e
<1>2. CASE d = k
  BY <1>1, <1>2
<1>3. CASE d >= k + 1
  <2>1. (k + 1) * r <= d * r /\ (k + 1) * r = k * r + r /\ k * r \in Nat /\ d * r \in Nat
    BY <1>1, <1>3, MulMonotone
  <2> QED BY <1>1, <2>1
<1>4. CASE k >= d + 1
  <2>1. (d + 1) * r <= k * r /\ (d + 1) * r = d * r + r /\ k * r \in Nat /\ d * r \in Nat
    BY <1>1, <1>4, MulMonotone
  <2> QED BY <1>1, <2>1
<1>5. a % r = m
  BY <1>1, <1>2, <1>3, <1>4 DEF e
<1> QED BY <1>5

LEMMA ModNext ==
  ASSUME NEW a \in Nat, NEW r \in Nat \ {0}
  PROVE  (a + 1) % r = IF (a % r) + 1 = r THEN 0 ELSE (a % r) + 1
<1> DEFINE d == a \div r
           e == a % r
<1>0. d \in Nat /\ e \in 0 .. r - 1 /\ (d * r) + e = a
  BY DivMod
<1> HIDE DEF d, e
<1>1. d \in Nat /\ e \in 0 .. r - 1 /\ d * r + e = a /\ a + 1 \in Nat
  BY <1>0
<1>2. CASE e + 1 = r
  <2>1. a + 1 = (d + 1) * r + 0 /\ 0 \in 0 .. r - 1 /\ d + 1 \in Nat
    BY <1>1, <1>2
  <2>2. (a + 1) % r = 0
    BY <1>1, <2>1, Remainder
  <2> QED BY <1>2, <2>2 DEF e
<1>3. CASE e + 1 # r
  <2>1. a + 1 = d * r + (e + 1) /\ e + 1 \in 0 .. r - 1
    BY <1>1, <1>3
  <2>2. (a + 1) % r = e + 1
    BY <1>1, <2>1, Remainder
  <2> QED BY <1>3, <2>2 DEF e
<1> QED BY <1>2, <1>3

(* Where a looping sfx is when the music is one sample on: the next sample,*)
(* or the loop's start after its last.                                     *)
LEMMA ResumeNext ==
  ASSUME Cartridge, NEW n \in DOMAIN Effects, NEW q \in Nat
  PROVE  LET L == NoteLen(n)
             first == Sfx(n).start * L
             after == Sfx(n).stop * L
             y == Resume(n, q)
         IN /\ Resume(n, 0) = 0 /\ first \in Nat /\ after \in Nat /\ y \in Nat
            /\ ~Loops(n) => y = q
            /\ Loops(n) => y < after
            /\ Loops(n) => Resume(n, q + 1) = IF y + 1 = after THEN first ELSE y + 1
<1> DEFINE L == NoteLen(n)
           start == Sfx(n).start
           stop == Sfx(n).stop
           first == start * L
           after == stop * L
           range == (stop - start) * L
           y == Resume(n, q)
<1>1. start \in Nat /\ stop \in Nat /\ L \in Nat \ {0}
  BY Slowest DEF Cartridge, Sfx
<1>2. \A x \in Nat : Resume(n, x) =
        IF Loops(n) /\ x > first THEN first + ((x - first) % range) ELSE x
  BY DEF Resume
<1>3. Loops(n) => stop > start
  BY DEF Loops
<1> HIDE DEF L, start, stop
<1>4. first \in Nat /\ after \in Nat
  BY <1>1
<1>5. Loops(n) => range \in Nat \ {0} /\ after = first + range
  <2> SUFFICES ASSUME Loops(n) PROVE range \in Nat \ {0} /\ after = first + range
    OBVIOUS
  <2>1. 1 * L <= (stop - start) * L
    BY <1>1, <1>3, MulMonotone
  <2>2. (stop - start) * L = stop * L - start * L
    BY <1>1, <1>3
  <2> QED BY <1>1, <1>3, <2>1, <2>2
<1> HIDE DEF first, after, range, y
<1>6. ASSUME Loops(n)
      PROVE  /\ y \in Nat /\ y < after
             /\ Resume(n, q + 1) = IF y + 1 = after THEN first ELSE y + 1
  <2>1. y = (IF q > first THEN first + ((q - first) % range) ELSE q)
        /\ Resume(n, q + 1) = (IF q + 1 > first THEN first + ((q + 1 - first) % range) ELSE q + 1)
    <3> DEFINE next == q + 1
    <3>1. next \in Nat
      OBVIOUS
    <3>2. \A x \in Nat : Resume(n, x) = (IF x > first THEN first + ((x - first) % range) ELSE x)
      BY <1>2, <1>6
    <3> HIDE DEF next
    <3>3. Resume(n, next) = (IF next > first THEN first + ((next - first) % range) ELSE next)
      BY <3>1, <3>2
    <3>4. Resume(n, q) = (IF q > first THEN first + ((q - first) % range) ELSE q)
      BY <3>2
    <3>5. y = (IF q > first THEN first + ((q - first) % range) ELSE q)
      BY <3>4 DEF y
    <3>6. Resume(n, q + 1) = (IF q + 1 > first THEN first + ((q + 1 - first) % range) ELSE q + 1)
      BY <1>4, <1>5, <1>6, <3>3 DEF next
    <3> QED BY <3>5, <3>6
  <2>2. CASE q < first
    BY <1>4, <1>5, <1>6, <2>1, <2>2
  <2>3. CASE q >= first
    <3> DEFINE a == q - first
               m == a % range
               k == (a + 1) % range
    <3>1. a \in Nat
      BY <1>4, <2>3
    <3>2. m \in 0 .. range - 1 /\ k = (IF m + 1 = range THEN 0 ELSE m + 1)
      BY <3>1, <1>5, <1>6, DivMod, ModNext
    <3>3. q = first => m = 0
      <4> SUFFICES ASSUME q = first PROVE m = 0
        OBVIOUS
      <4>1. a = 0 * range + 0 /\ 0 \in 0 .. range - 1 /\ range \in Nat \ {0}
        BY <1>4, <1>5, <1>6
      <4> QED BY <4>1, Remainder
    <3>4. q + 1 - first = a + 1
      BY <1>4
    <3>5. y = first + m /\ Resume(n, q + 1) = first + k
      <4>1. q + 1 > first
        BY <1>4, <2>3
      <4>2. Resume(n, q + 1) = first + k
        BY <2>1, <3>4, <4>1
      <4>3. q > first => y = first + m
        BY <2>1
      <4>4. q = first => y = q
        BY <2>1, <1>4
      <4> HIDE DEF m
      <4> QED BY <1>4, <2>3, <3>3, <4>2, <4>3, <4>4
    <3> HIDE DEF a, m, k
    <3> QED BY <1>4, <1>5, <1>6, <3>2, <3>5
  <2> QED BY <1>4, <2>2, <2>3
<1>7. ~Loops(n) => y = q
  BY <1>2 DEF y
<1>8. Resume(n, 0) = 0
  <2>1. ~(0 > first)
    BY <1>4
  <2> QED BY <1>2, <2>1
<1>9. y \in Nat
  BY <1>6, <1>7
<1> QED BY <1>4, <1>6, <1>7, <1>8, <1>9 DEF y, first, after, start, stop, L

(* A channel is at sample y of its sfx, within the loop if it loops.       *)
AtSample(c, n, y) ==
  /\ c.note \in Nat /\ c.tick \in 0 .. NoteLen(n) - 1 /\ c.loops = TRUE
  /\ c.note * NoteLen(n) + c.tick = y
  /\ Loops(n) => c.note < Sfx(n).stop

(* The music's position from which a channel's is taken.                   *)
Along(c, n, q) == q \in Nat /\ AtSample(c, n, Resume(n, q))

LEMMA WithinLoop ==
  ASSUME Cartridge, NEW n \in DOMAIN Effects, NEW q \in Nat, NEW note \in Nat,
         NEW tick \in 0 .. NoteLen(n) - 1, note * NoteLen(n) + tick = Resume(n, q), Loops(n)
  PROVE  note < Sfx(n).stop
<1> DEFINE L == NoteLen(n)
           stop == Sfx(n).stop
<1>1. stop \in Nat /\ L \in Nat \ {0}
  BY Slowest DEF Cartridge, Sfx
<1>2. Resume(n, q) < stop * L /\ stop * L \in Nat
  BY ResumeNext
<1> HIDE DEF L, stop
<1>3. CASE stop <= note
  <2>1. stop * L <= note * L /\ note * L \in Nat
    BY <1>1, <1>3, MulMonotone
  <2> QED BY <1>1, <1>2, <2>1 DEF L
<1> QED BY <1>1, <1>3 DEF stop

(* A launched channel is where it was told to start.                       *)
LEMMA LaunchedAt ==
  ASSUME Cartridge, NEW c, Voice(c), NEW n \in DOMAIN Effects, NEW q \in Nat
  PROVE  /\ Along(Launch(c, n, Resume(n, q), TRUE), n, q)
         /\ Launch(c, n, Resume(n, q), TRUE).sfx = n
<1> DEFINE y == Resume(n, q)
           L == NoteLen(n)
           note == y \div L
           tick == y % L
           end == EndOf(n, TRUE, TRUE)
           d == Launch(c, n, y, TRUE)
<1>1. y \in Nat /\ L \in Nat \ {0}
  BY ResumeNext, Slowest
<1>2. d = [c EXCEPT !.sfx = n, !.music = TRUE, !.loops = TRUE, !.time = 0,
                    !.note = note, !.tick = tick, !.end = end]
  BY DEF Launch
<1> HIDE DEF y, L, end
<1>3. note \in Nat /\ tick \in 0 .. L - 1 /\ (note * L) + tick = y
  BY <1>1, DivMod
<1> HIDE DEF note, tick, d
<1>4. d.note = note /\ d.tick = tick /\ d.loops = TRUE /\ d.sfx = n
  BY <1>2 DEF Voice
<1>5. Loops(n) => note < Sfx(n).stop
  BY <1>3, WithinLoop DEF L, y
<1> QED BY <1>3, <1>4, <1>5 DEF Along, AtSample, y, L, d

(* A sample further, a channel is where the music's next sample puts it.   *)
LEMMA PositionNext ==
  ASSUME Cartridge, NEW c, Voice(c), c.sfx # None, NEW q, Along(c, c.sfx, q)
  PROVE  Along(Position(c), c.sfx, q + 1)
<1> DEFINE n == c.sfx
           L == NoteLen(n)
           s == Sfx(n)
           y == Resume(n, q)
           e == Position(c)
           note == IF Loops(n) /\ c.loops /\ c.note + 1 >= s.stop
                   THEN s.start + ((c.note + 1 - s.start) % (s.stop - s.start))
                   ELSE c.note + 1
           tick == c.tick + 1
<1>1. n \in DOMAIN Effects /\ q \in Nat /\ q + 1 \in Nat
  BY DEF Voice, Sounds, Along
<1>2. s.start \in Nat /\ s.stop \in Nat /\ L \in Nat \ {0} /\ (Loops(n) => s.stop > s.start)
  BY <1>1, Slowest DEF Cartridge, Sfx, Loops
<1>3. /\ c.note \in Nat /\ c.tick \in 0 .. L - 1 /\ c.loops = TRUE
      /\ c.note * L + c.tick = y /\ (Loops(n) => c.note < s.stop)
  BY DEF Along, AtSample
<1>4. /\ y \in Nat /\ (~Loops(n) => y = q) /\ s.stop * L \in Nat
      /\ Loops(n) => Resume(n, q + 1) = IF y + 1 = s.stop * L THEN s.start * L ELSE y + 1
  BY <1>1, ResumeNext
<1>5. ~Loops(n) => Resume(n, q + 1) = q + 1
  BY <1>1, ResumeNext
<1>6. e = IF tick < L THEN [c EXCEPT !.tick = tick] ELSE [c EXCEPT !.tick = 0, !.note = note]
  BY DEF Position
<1>7. Loops(n) /\ c.note + 1 >= s.stop => note = s.start /\ c.note + 1 = s.stop
  <2> SUFFICES ASSUME Loops(n), c.note + 1 >= s.stop PROVE note = s.start /\ c.note + 1 = s.stop
    OBVIOUS
  <2> DEFINE range == s.stop - s.start
  <2>1. c.note + 1 = s.stop
    BY <1>2, <1>3
  <2>2. range \in Nat \ {0} /\ range = 1 * range + 0 /\ 0 \in 0 .. range - 1
    BY <1>2
  <2>3. range % range = 0
    <3> HIDE DEF range
    <3> QED BY <2>2, Remainder
  <2>4. c.note + 1 - s.start = range
    BY <1>2, <1>3, <2>1
  <2>5. note = s.start + (range % range)
    BY <1>3, <2>1, <2>4
  <2> QED BY <1>2, <2>1, <2>3, <2>5
<1>8. ~(Loops(n) /\ c.note + 1 >= s.stop) => note = c.note + 1
  OBVIOUS
<1> HIDE DEF note, e, y, L, s, n
<1>9. CASE tick < L
  <2>1. e.note = c.note /\ e.tick = tick /\ e.loops = TRUE
    BY <1>6, <1>9, <1>3 DEF Voice
  <2>2. c.note * L + tick = y + 1
    BY <1>2, <1>3
  <2>3. Loops(n) => y + 1 < s.stop * L
    <3> SUFFICES ASSUME Loops(n) PROVE y + 1 < s.stop * L
      OBVIOUS
    <3>1. (c.note + 1) * L <= s.stop * L /\ (c.note + 1) * L = c.note * L + L /\ c.note * L \in Nat
      BY <1>2, <1>3, MulMonotone
    <3> QED BY <1>2, <1>3, <1>4, <1>9, <2>2, <3>1
  <2>4. Resume(n, q + 1) = y + 1
    BY <1>4, <1>5, <2>3
  <2> QED BY <1>1, <1>2, <1>3, <1>9, <2>1, <2>2, <2>4 DEF Along, AtSample, e, n, L, s
<1>10. CASE ~(tick < L)
  <2>1. e.note = note /\ e.tick = 0 /\ e.loops = TRUE
    BY <1>6, <1>10, <1>3 DEF Voice
  <2>2. c.note * L + L = y + 1 /\ (c.note + 1) * L = y + 1
    BY <1>2, <1>3, <1>10
  <2>3. CASE Loops(n) /\ c.note + 1 >= s.stop
    <3>1. note = s.start /\ y + 1 = s.stop * L
      BY <1>7, <2>2, <2>3
    <3>2. Resume(n, q + 1) = note * L
      BY <1>4, <2>3, <3>1
    <3> QED BY <1>1, <1>2, <2>1, <2>3, <3>1, <3>2 DEF Along, AtSample, e, n, L, s
  <2>4. CASE ~(Loops(n) /\ c.note + 1 >= s.stop)
    <3>1. note = c.note + 1 /\ note * L = y + 1
      BY <1>8, <2>2, <2>4
    <3>2. Loops(n) => note < s.stop
      BY <1>2, <1>3, <2>4, <3>1
    <3>3. Loops(n) => y + 1 # s.stop * L
      <4> SUFFICES ASSUME Loops(n) PROVE y + 1 < s.stop * L
        BY <1>4
      <4>1. (note + 1) * L <= s.stop * L /\ (note + 1) * L = note * L + L /\ note * L \in Nat
        BY <1>2, <1>3, <3>1, <3>2, MulMonotone
      <4> QED BY <1>2, <1>4, <3>1, <4>1
    <3>4. Resume(n, q + 1) = y + 1
      BY <1>4, <1>5, <3>3
    <3> QED BY <1>1, <1>2, <1>3, <2>1, <3>1, <3>2, <3>4 DEF Along, AtSample, e, n, L, s
  <2> QED BY <2>3, <2>4
<1> QED BY <1>9, <1>10 DEF e, n

-----------------------------------------------------------------------------
(* A channel that plays its sfx of the running pattern.                    *)
Follows(c, p, d) ==
  loaded /\ d.music /\ d.sfx # None /\ p # None /\ d.sfx = Pattern(p).chan[c]

(* Each such channel is where the music's position of its next sample puts *)
(* it, or a sample behind until the first sample after it started.         *)
Ahead == IF sequenced THEN {music.pos - 1, music.pos} ELSE {music.pos, music.pos + 1}

Beside ==
  /\ music.pos \in Nat
  /\ \A c \in Channels :
       Follows(c, music.pattern, chan[c]) => \E q \in Ahead : Along(chan[c], chan[c].sfx, q)

(* A channel in the new state is as it was, or at the same place.          *)
LEMMA BesideKept ==
  ASSUME Cartridge, IInv, Beside, loaded' = loaded, sequenced' = sequenced,
         music'.pos = music.pos, music'.pattern = music.pattern,
         \A c \in Channels : chan'[c].music /\ chan'[c].sfx # None => chan'[c] = chan[c]
  PROVE  Beside'
<1>1. Ahead' = Ahead
  BY DEF Ahead
<1>2. ASSUME NEW c \in Channels, Follows(c, music.pattern, chan[c])'
      PROVE  \E q \in Ahead : Along(chan[c], chan[c].sfx, q)'
  <2>1. chan'[c] = chan[c]
    BY <1>2 DEF Follows
  <2>2. Follows(c, music.pattern, chan[c])
    BY <1>2, <2>1 DEF Follows, Pattern
  <2>3. PICK q \in Ahead : Along(chan[c], chan[c].sfx, q)
    BY <2>2 DEF Beside
  <2>4. Along(chan[c], chan[c].sfx, q)'
    BY <2>1, <2>3 DEF Along, AtSample, Resume, NoteLen, Loops, Sfx
  <2> QED BY <2>4
<1> QED BY <1>1, <1>2 DEF Beside

(* A pattern begins at its first sample, and so do its channels.           *)
LEMMA PatternStarts ==
  ASSUME Cartridge, NEW p, NEW t, Voices(t.chan), Tune(t.music)
  PROVE  LET u == SetPattern(p, t)
         IN /\ u.music.pos = 0
            /\ \A c \in Channels :
                 u.music.pattern # None /\ u.chan[c].music /\ u.chan[c].sfx # None =>
                   Along(u.chan[c], u.chan[c].sfx, 0)
<1> DEFINE cut == [c \in Channels |-> IF t.chan[c].music THEN Stopped(t.chan[c]) ELSE t.chan[c]]
           start(c) == LET n == Pattern(p).chan[c] IN
             IF n = None THEN cut[c]
             ELSE IF cut[c].sfx = None THEN Launch(cut[c], n, 0, TRUE)
             ELSE [cut[c] EXCEPT !.queued = n]
           none == [t.music EXCEPT !.pattern = None, !.pos = 0, !.len = 0, !.mask = {}]
           some == [t.music EXCEPT !.pattern = p, !.pos = 0, !.len = PatternLen(p)]
           u == SetPattern(p, t)
<1>1. ASSUME NEW c \in Channels
      PROVE  Voice(cut[c]) /\ (cut[c].sfx # None => ~cut[c].music)
  <2>1. Voice(t.chan[c])
    BY DEF Voices
  <2>2. CASE t.chan[c].music
    BY <2>1, <2>2, StoppedVoice
  <2>3. CASE ~t.chan[c].music
    BY <2>1, <2>3
  <2> QED BY <2>2, <2>3
<1> HIDE DEF cut
<1>2. ASSUME NEW c \in Channels, p \in DOMAIN Patterns, start(c).music, start(c).sfx # None
      PROVE  Along(start(c), start(c).sfx, 0)
  <2> DEFINE n == Pattern(p).chan[c]
  <2>1. n \in Sounds
    BY <1>2, PatternSfx
  <2> HIDE DEF n
  <2>2. n # None
    BY <1>1, <1>2 DEF n
  <2>3. cut[c].sfx = None
    <3> SUFFICES ASSUME cut[c].sfx # None PROVE FALSE
      OBVIOUS
    <3>1. start(c) = [cut[c] EXCEPT !.queued = n]
      BY <2>2 DEF n
    <3> HIDE DEF start
    <3> QED BY <1>1, <1>2, <3>1 DEF Voice
  <2>4. start(c) = Launch(cut[c], n, 0, TRUE)
    BY <2>2, <2>3 DEF n
  <2>5. n \in DOMAIN Effects
    BY <2>1, <2>2 DEF Sounds
  <2>6. Resume(n, 0) = 0
    BY <2>5, ResumeNext
  <2>7. Voice(cut[c]) /\ 0 \in Nat
    BY <1>1
  <2>8. /\ Along(Launch(cut[c], n, Resume(n, 0), TRUE), n, 0)
        /\ Launch(cut[c], n, Resume(n, 0), TRUE).sfx = n
    BY <2>5, <2>7, LaunchedAt, Zenon
  <2>9. Launch(cut[c], n, 0, TRUE).sfx = n
    BY <2>6, <2>8
  <2> HIDE DEF start
  <2> QED BY <2>4, <2>6, <2>8, <2>9
<1>3. u = IF p \notin DOMAIN Patterns \/ PatternLen(p) = 0
          THEN [chan |-> cut, music |-> none]
          ELSE [chan |-> [c \in Channels |-> start(c)], music |-> some]
  BY DEF SetPattern, cut
<1>4. none.pattern = None /\ none.pos = 0 /\ some.pos = 0
  BY DEF Tune
<1> HIDE DEF none, some, start, u
<1>5. CASE p \notin DOMAIN Patterns \/ PatternLen(p) = 0
  BY <1>3, <1>4, <1>5 DEF u
<1>6. CASE p \in DOMAIN Patterns /\ PatternLen(p) # 0
  <2>1. u.chan = [c \in Channels |-> start(c)] /\ u.music = some
    BY <1>3, <1>6
  <2> QED BY <1>2, <1>4, <1>6, <2>1 DEF u
<1> QED BY <1>5, <1>6

LEMMA BesideStarts ==
  ASSUME Cartridge, NEW p, NEW t, Voices(t.chan), Tune(t.music), loaded' = loaded,
         chan' = SetPattern(p, t).chan, music' = SetPattern(p, t).music
  PROVE  Beside'
<1> DEFINE u == SetPattern(p, t)
<1>1. /\ u.music.pos = 0
      /\ \A c \in Channels :
           u.music.pattern # None /\ u.chan[c].music /\ u.chan[c].sfx # None =>
             Along(u.chan[c], u.chan[c].sfx, 0)
  BY PatternStarts, Zenon
<1>2. chan' = u.chan /\ music' = u.music
  OBVIOUS
<1> HIDE DEF u
<1>3. 0 \in Ahead'
  BY <1>1, <1>2 DEF Ahead
<1>4. ASSUME NEW c \in Channels, Follows(c, music.pattern, chan[c])'
      PROVE  Along(chan[c], chan[c].sfx, 0)'
  <2>1. Along(u.chan[c], u.chan[c].sfx, 0)
    BY <1>1, <1>2, <1>4 DEF Follows
  <2> QED BY <1>2, <2>1 DEF Along, AtSample, Resume, NoteLen, Loops, Sfx
<1> QED BY <1>1, <1>2, <1>3, <1>4 DEF Beside

(* The sequencer moves on, or starts a pattern.                            *)
LEMMA SequencedBeside ==
  ASSUME Cartridge, IInv, Beside, Sequenced
  PROVE  Beside'
<1> DEFINE t == [chan |-> chan, music |-> music]
           fade == Clip(music.fade + music.step)
           k == [music EXCEPT !.pos = @ + 1, !.fade = fade]
           v == [chan |-> chan, music |-> k]
           u == Sequence(t)
<1>1. /\ chan' = u.chan /\ music' = u.music /\ loaded' = loaded
      /\ ~sequenced /\ sequenced' = TRUE
  BY DEF Sequenced
<1>2. Voices(chan) /\ Tune(music) /\ music.pos \in Nat
  BY DEF IInv, TypeOK, Beside
<1>3. fade \in 0 .. FadeFull
  BY <1>2, ClipFades DEF Tune
<1> HIDE DEF fade
<1>4. Tune(k) /\ k.pattern = music.pattern /\ k.pos = music.pos + 1
  BY <1>2, <1>3 DEF Tune
<1>5. u = IF k.pattern = None THEN t
          ELSE IF k.step < 0 /\ k.fade = 0 THEN SetPattern(None, v)
          ELSE IF k.pos >= k.len THEN SetPattern(NextPattern(k.pattern), v)
          ELSE v
  BY DEF Sequence, fade
<1> HIDE DEF k, u
<1>6. CASE k.pattern = None
  <2>1. chan' = chan /\ music' = music /\ music'.pattern = None
    BY <1>1, <1>4, <1>5, <1>6
  <2> QED BY <1>2, <2>1 DEF Beside, Follows
<1>7. CASE u = v /\ k.pattern # None
  <2>1. chan' = chan /\ music' = k
    BY <1>1, <1>7
  <2>2. Ahead' = Ahead
    BY <1>1, <1>2, <1>4, <2>1 DEF Ahead
  <2>3. \A c \in Channels :
          Follows(c, music.pattern, chan[c])' => Follows(c, music.pattern, chan[c])
    BY <1>1, <1>4, <2>1 DEF Follows, Pattern
  <2>4. ASSUME NEW c \in Channels, NEW q, Along(chan[c], chan[c].sfx, q)
        PROVE  Along(chan[c], chan[c].sfx, q)'
    BY <1>1, <2>1, <2>4 DEF Along, AtSample, Resume, NoteLen, Loops, Sfx
  <2> QED BY <1>2, <1>4, <2>1, <2>2, <2>3, <2>4 DEF Beside
<1>8. ASSUME NEW p, u = SetPattern(p, v)
      PROVE  Beside'
  <2>1. v.chan = chan /\ v.music = k
    OBVIOUS
  <2> HIDE DEF v
  <2>2. Voices(v.chan) /\ Tune(v.music)
    BY <1>2, <1>4, <2>1
  <2>3. chan' = SetPattern(p, v).chan /\ music' = SetPattern(p, v).music
    BY <1>1, <1>8
  <2> QED BY <1>1, <2>2, <2>3, BesideStarts, Zenon
<1> QED BY <1>5, <1>6, <1>7, <1>8

(* A channel plays its next sample, or first picks its sfx up where the    *)
(* music is.                                                               *)
LEMMA SampleBeside ==
  ASSUME Cartridge, IInv, Beside, Sample
  PROVE  Beside'
<1> DEFINE pos == music.pos
<1>1. /\ sequenced /\ sequenced' = FALSE /\ music' = music /\ loaded' = loaded
      /\ chan' = [c \in Channels |-> Rendered(PickUp(chan[c], pos))]
  BY DEF Sample
<1>2. pos \in Nat /\ Ahead = {pos - 1, pos} /\ Ahead' = {pos, pos + 1}
  BY <1>1 DEF Beside, Ahead
<1>3. ASSUME NEW c \in Channels, Follows(c, music.pattern, chan[c])'
      PROVE  \E q \in Ahead' : Along(chan[c], chan[c].sfx, q)'
  <2> DEFINE a == chan[c]
             b == PickUp(a, pos)
             d == Rendered(b)
             n == b.sfx
  <2>1. Voice(a) /\ Voice(b) /\ Spares(a, b)
    BY PickUpSpares DEF IInv, TypeOK, Voices
  <2>2. chan'[c] = d
    BY <1>1
  <2>3. d.music = b.music /\ d.sfx = n /\ n # None
    <3> HIDE DEF b
    <3>1. d.music = b.music /\ (d.sfx = b.sfx \/ d.sfx = None)
      BY <2>1, RenderedVoice
    <3> QED BY <1>3, <2>2, <3>1 DEF Follows
  <2>4. n \in DOMAIN Effects /\ b.music = TRUE
    <3> HIDE DEF b, d
    <3> QED BY <1>3, <2>1, <2>2, <2>3 DEF Follows, Voice, Sounds
  <2>5. \E q \in Ahead : Along(b, n, q)
    <3>1. CASE a.sfx # None
      <4>1. b = a
        BY <3>1 DEF PickUp
      <4>2. Follows(c, music.pattern, a)
        BY <1>1, <1>3, <2>2, <2>3, <2>4, <4>1 DEF Follows, Pattern
      <4> QED BY <4>1, <4>2 DEF Beside
    <3>2. CASE a.sfx = None
      <4> DEFINE e == Launch(a, a.queued, Resume(a.queued, pos), TRUE)
      <4>1. b \in {a, [a EXCEPT !.queued = None], [e EXCEPT !.queued = None]}
            /\ (a.queued = None => b = a)
        BY <3>2 DEF PickUp
      <4> HIDE DEF a, b, e
      <4>2. a.queued # None /\ b = [e EXCEPT !.queued = None]
        BY <2>1, <2>3, <3>2, <4>1 DEF Voice
      <4>3. a.queued \in DOMAIN Effects
        BY <2>1, <4>2 DEF Voice, Sounds
      <4>4. Along(e, a.queued, pos) /\ e.sfx = a.queued
        BY <1>2, <2>1, <4>3, LaunchedAt, Zenon DEF e
      <4>5. Voice(e)
        BY <2>1, <4>3, LaunchVoice, Zenon DEF e
      <4>6. b.note = e.note /\ b.tick = e.tick /\ b.loops = e.loops /\ b.sfx = e.sfx
        BY <4>2, <4>5 DEF Voice
      <4> QED BY <1>2, <4>4, <4>6 DEF Along, AtSample
    <3> QED BY <3>1, <3>2
  <2>6. PICK q \in Ahead : Along(b, n, q)
    BY <2>5
  <2> DEFINE f == Declick(b)
             g == Position(f)
  <2>7. Voice(f) /\ f.sfx = n /\ Along(f, n, q)
    <3> DEFINE fade == Max({0, (IF Audible(b) # b.sounds THEN FadeLen ELSE b.fade) - 1})
               sounds == Audible(b)
    <3>1. f = [b EXCEPT !.sounds = sounds, !.fade = fade]
      BY DEF Declick
    <3> HIDE DEF sounds, fade, f, b
    <3>2. Voice(f) /\ f.sfx = b.sfx /\ f.note = b.note /\ f.tick = b.tick /\ f.loops = b.loops
      BY <2>1, <3>1 DEF Voice
    <3> QED BY <2>6, <3>2 DEF Along, AtSample
  <2> HIDE DEF b, f, n
  <2>8. Along(g, n, q + 1)
    BY <2>3, <2>7, PositionNext
  <2>9. d.note = g.note /\ d.tick = g.tick /\ d.loops = g.loops
    <3> DEFINE time == Min({f.time + 1, Horizon})
               sfx == IF time >= b.end THEN None ELSE g.sfx
    <3>1. d = [g EXCEPT !.time = time, !.sfx = sfx]
      BY <2>3 DEF Rendered, f, n
    <3> HIDE DEF time, sfx, d
    <3>2. DOMAIN g = DOMAIN f
      BY DEF Position
    <3> QED BY <2>7, <3>1, <3>2 DEF Voice
  <2>10. Along(d, n, q + 1)
    BY <2>8, <2>9 DEF Along, AtSample
  <2>11. Along(chan[c], chan[c].sfx, q + 1)'
    BY <1>1, <2>2, <2>3, <2>10 DEF Along, AtSample, Resume, NoteLen, Loops, Sfx
  <2>12. q + 1 \in Ahead'
    BY <1>2
  <2> QED BY <2>11, <2>12
<1> QED BY <1>1, <1>2, <1>3 DEF Beside

(* What a call stops or starts is not the music's, or starts a pattern.    *)
LEMMA CallsBeside ==
  ASSUME Cartridge, IInv, Beside, Calls
  PROVE  Beside'
<1>1. CASE Load \/ Stop
  <2> DEFINE t == Silenced
             s == [chan |-> chan, music |-> music]
             u == SetPattern(None, s)
  <2>1. \A c \in Channels : t.chan[c].sfx = None
    BY SilencedVoices DEF IInv
  <2>2. chan' = t.chan /\ music' = t.music
    BY <1>1 DEF Load, Stop, Set
  <2>3. t.music = u.music
    BY DEF Silenced, SetPattern
  <2>4. s.chan = chan /\ s.music = music
    OBVIOUS
  <2> HIDE DEF t, s
  <2>5. u.music.pos = 0
    <3>1. Voices(s.chan) /\ Tune(s.music)
      BY <2>4 DEF IInv, TypeOK
    <3> QED BY <3>1, PatternStarts
  <2> HIDE DEF u
  <2> QED BY <2>1, <2>2, <2>3, <2>5 DEF Beside, Follows
<1>2. ASSUME NEW C, StopSfx(C) \/ StopLooping(C)
      PROVE  Beside'
  <2>1. ASSUME NEW c \in Channels, chan'[c].music, chan'[c].sfx # None
        PROVE  chan'[c] = chan[c]
    <3>1. Voice(chan[c])
      BY DEF IInv, TypeOK, Voices
    <3>2. CASE StopSfx(C)
      BY <2>1, <3>1, <3>2 DEF StopSfx, Voice
    <3>3. CASE StopLooping(C)
      <4> DEFINE end == IF chan[c].sfx = None THEN chan[c].end ELSE EndOf(chan[c].sfx, FALSE, FALSE)
      <4>1. chan'[c] = IF c \notin C \/ chan[c].music \/ ~chan[c].loops THEN chan[c]
                       ELSE [chan[c] EXCEPT !.loops = FALSE, !.end = end]
        BY <3>3 DEF StopLooping
      <4> HIDE DEF end
      <4> QED BY <2>1, <3>1, <4>1 DEF Voice
    <3> QED BY <1>2, <3>2, <3>3
  <2>2. loaded' = loaded /\ sequenced' = sequenced /\ music' = music
    BY <1>2 DEF StopSfx, StopLooping
  <2> QED BY <2>1, <2>2, BesideKept
<1>3. ASSUME NEW n \in DOMAIN Effects, NEW to, NEW offset, Play(n, to, offset)
      PROVE  Beside'
  <2> DEFINE once == [c \in Channels |-> IF chan[c].sfx = n THEN [chan[c] EXCEPT !.sfx = None]
                                                           ELSE chan[c]]
             old == once[to]
             kept == IF old.sfx # None /\ old.music THEN [old EXCEPT !.queued = old.sfx] ELSE old
             start == offset * NoteLen(n)
             new == Launch(kept, n, start, FALSE)
  <2>1. /\ chan' = [once EXCEPT ![to] = new]
        /\ loaded' = loaded /\ music' = music /\ sequenced' = sequenced
    BY <1>3 DEF Play
  <2>2. ASSUME NEW c \in Channels
        PROVE  Voice(once[c]) /\ (once[c] = chan[c] \/ once[c].sfx = None)
    BY DEF IInv, TypeOK, Voices, Voice, Sounds, Cartridge
  <2>3. to \in Channels => Voice(kept)
    BY <2>2 DEF Voice
  <2> HIDE DEF start, kept
  <2>4. to \in Channels => new.music = FALSE
    <3> DEFINE note == start \div NoteLen(n)
               tick == start % NoteLen(n)
               end == EndOf(n, FALSE, TRUE)
    <3>1. new = [kept EXCEPT !.sfx = n, !.music = FALSE, !.loops = TRUE, !.time = 0,
                             !.note = note, !.tick = tick, !.end = end]
      BY DEF Launch
    <3> HIDE DEF note, tick, end, new
    <3> QED BY <2>3, <3>1 DEF Voice
  <2>5. \A c \in Channels : chan'[c] = IF c = to THEN new ELSE once[c]
    BY <2>1
  <2> HIDE DEF once, new
  <2>6. \A c \in Channels : chan'[c].music /\ chan'[c].sfx # None => chan'[c] = chan[c]
    BY <2>2, <2>4, <2>5
  <2> QED BY <2>1, <2>6, BesideKept
<1>4. ASSUME NEW p, NEW faded \in BOOLEAN, NEW mask, StartMusic(p, faded, mask)
      PROVE  Beside'
  <2> DEFINE fade == IF faded THEN 0 ELSE FadeFull
             step == IF faded THEN Max({1, FadeFull \div FadeSamples}) ELSE 0
             m == [music EXCEPT !.mask = mask, !.ending = FALSE, !.fade = fade, !.step = step]
             t == [chan |-> chan, music |-> m]
  <2>1. chan' = SetPattern(p, t).chan /\ music' = SetPattern(p, t).music /\ loaded' = loaded
    BY <1>4 DEF StartMusic, Set
  <2>2. fade \in 0 .. FadeFull /\ step \in Int
    <3> DEFINE k == FadeFull \div FadeSamples
    <3>1. k \in Int
      BY DEF Cartridge
    <3> HIDE DEF k
    <3>2. Max({1, k}) \in {1, k}
      BY <3>1, MaxOfTwo
    <3>3. step \in Int
      BY <3>1, <3>2 DEF k
    <3> QED BY <3>3 DEF Cartridge
  <2> HIDE DEF fade, step
  <2>3. Tune(m)
    BY <2>2 DEF IInv, TypeOK, Tune
  <2>4. t.chan = chan /\ t.music = m
    OBVIOUS
  <2> HIDE DEF m, t
  <2>5. Voices(t.chan) /\ Tune(t.music)
    BY <2>3, <2>4 DEF IInv, TypeOK
  <2> QED BY <2>1, <2>5, BesideStarts, Zenon
<1>5. ASSUME NEW faded, StopMusic(faded)
      PROVE  Beside'
  <2>1. /\ loaded' = loaded /\ sequenced' = sequenced /\ chan' = chan
        /\ music'.pos = music.pos /\ music'.pattern = music.pattern
    BY <1>5 DEF StopMusic, IInv, TypeOK, Tune
  <2> QED BY <2>1, BesideKept
<1> QED BY <1>1, <1>2, <1>3, <1>4, <1>5 DEF Calls

(* MusicInStep: a channel that plays an sfx of the running pattern is where *)
(* the music is, or one sample ahead ("Resume position in samples equals    *)
(* the master position", set_music_pattern), loops included, whether it     *)
(* began with the pattern or took over from a user's sfx.                  *)
THEOREM MusicKeepsStep == ASSUME Cartridge PROVE Spec => []MusicInStep
<1>1. Init => Beside
  <2> SUFFICES ASSUME Init PROVE Beside
    OBVIOUS
  <2>1. loaded = FALSE /\ music.pos = 0
    BY DEF Init
  <2> QED BY <2>1 DEF Beside, Follows
<1>2. IInv /\ Beside /\ [Next]_vars => Beside'
  <2> SUFFICES ASSUME IInv, Beside, [Next]_vars PROVE Beside'
    OBVIOUS
  <2>1. CASE StartChunk
    BY <2>1, BesideKept DEF StartChunk
  <2>2. CASE Sequenced
    BY <2>2, SequencedBeside
  <2>3. CASE Sample
    BY <2>3, SampleBeside
  <2>4. CASE Calls
    BY <2>4, CallsBeside
  <2>5. CASE UNCHANGED vars
    BY <2>5, BesideKept DEF vars
  <2> QED BY <2>1, <2>2, <2>3, <2>4, <2>5 DEF Next, Mixer
<1>3. Beside => MusicInStep
  <2> SUFFICES ASSUME Beside, NEW c \in Channels, ~sequenced,
                      Follows(c, music.pattern, chan[c])
               PROVE  At(chan[c].sfx, c) \in
                        {Resume(chan[c].sfx, music.pos), Resume(chan[c].sfx, music.pos + 1)}
    BY DEF MusicInStep, Follows
  <2>1. PICK q \in Ahead : Along(chan[c], chan[c].sfx, q)
    BY DEF Beside
  <2> QED BY <2>1 DEF Ahead, Along, AtSample, At
<1> QED BY <1>1, <1>2, <1>3, Invariance, PTL DEF Spec

-----------------------------------------------------------------------------
(* The synth's voices: on one core, for any number of voices, any envelope *)
(* steps and any chunk, a held note sounds and a released one fades,       *)
(* however notes are started, stolen and released around the mixer's       *)
(* samples.  (On two cores neither holds: run sndStuckNote.)               *)
CONSTANTS NumVoices, Full, AttackStep, ReleaseStep, ChunkFrames, MaxNotes, DualCore

VARIABLES state, env, seq, counter, call, mixer, asked

Synth == INSTANCE SndVoices

OneCore == ~DualCore
Sizes ==
  /\ NumVoices \in Nat \ {0}
  /\ ChunkFrames \in Nat /\ Full \in Int /\ AttackStep \in Int /\ ReleaseStep \in Int

States == {"off", "attack", "sustain", "release"}
Asks == {"none", "on", "off"}
MixerPcs == {"voice", "load", "store", "write", "blocked"}
Mixers ==
  [pc : MixerPcs, voice : Synth!Voices, left : Int,
   state : States, env : Int]

SynthTypeOK ==
  /\ state \in [Synth!Voices -> States] /\ env \in [Synth!Voices -> Int]
  /\ seq \in [Synth!Voices -> Nat] /\ counter \in Nat
  /\ asked \in [Synth!Voices -> Asks]
  /\ call \in [op : {"none", "on", "alloff"}, voice : Synth!Voices]
  /\ mixer \in Mixers

(* The lock of the calls keeps the mixer out: it is blocked while one of   *)
(* them is between two stores.                                             *)
CallsExclude == call.op # "none" => mixer.pc = "blocked"

(* ... so that what the mixer loaded is what the voice still is.           *)
LoadedIsCurrent == mixer.pc = "store" => mixer.state = state[mixer.voice]

(* Each voice is as it was last asked to be.                               *)
AskedIsDone ==
  \A v \in Synth!Voices :
    /\ asked[v] = "on" => state[v] \in Synth!Held
    /\ asked[v] = "off" => state[v] \notin Synth!Held

SynthIInv == SynthTypeOK /\ CallsExclude /\ LoadedIsCurrent /\ AskedIsDone

-----------------------------------------------------------------------------
LEMMA LeastExists ==
  ASSUME NEW T, T \subseteq Nat, T # {}
  PROVE  \E x \in T : \A y \in T : x <= y
  <1> DEFINE less == {ss \in Nat \X Nat : ss[1] < ss[2]}
  <1>1. IsWellFoundedOn(less, Nat)
    BY NatLessThanWellFounded DEF OpToRel
  <1>2. PICK x \in T : \A y \in T : <<y, x>> \notin less
    <2> HIDE DEF less
    <2> QED
      BY <1>1, WFMin
  <1>3. ASSUME NEW y \in T, y < x PROVE <<y, x>> \in less
    BY <1>3
  <1>4. ASSUME NEW y \in T PROVE x <= y
    <2>1. ~ (y < x)
      BY <1>2, <1>3, <1>4
    <2> QED
      BY <2>1, <1>4
  <1> QED
    BY <1>4

(* snd_note_on always finds a voice: a free one, or the oldest.            *)
LEMMA AllocateIsVoice ==
  ASSUME SynthTypeOK, Sizes
  PROVE  Synth!Allocate \in Synth!Voices
  <1> DEFINE free == {v \in Synth!Voices : ~Synth!Sounds(v)}
  <1>1. CASE free # {}
    <2>1. free \subseteq Nat
      BY DEF Synth!Voices, Sizes
    <2>2. Synth!Min(free) \in free
      BY <1>1, <2>1, LeastExists DEF Synth!Min
    <2> QED
      BY <1>1, <2>2 DEF Synth!Allocate
  <1>2. CASE free = {}
    <2> DEFINE seqs == {seq[v] : v \in Synth!Voices}
    <2>1. seqs \subseteq Nat /\ seqs # {}
      BY DEF SynthTypeOK, Synth!Voices, Sizes
    <2>2. PICK x \in seqs : \A y \in seqs : x <= y
      BY <2>1, LeastExists
    <2>3. \E v \in Synth!Voices : \A w \in Synth!Voices : seq[v] <= seq[w]
      BY <2>2
    <2> QED
      BY <1>2, <2>3 DEF Synth!Allocate
  <1> QED
    BY <1>1, <1>2

-----------------------------------------------------------------------------
LEMMA SynthInitInv == Sizes /\ Synth!Init => SynthIInv
  <1> SUFFICES ASSUME Sizes, Synth!Init PROVE SynthIInv
    OBVIOUS
  <1>1. 0 \in Synth!Voices
    BY DEF Sizes, Synth!Voices
  <1>2. SynthTypeOK
    BY <1>1 DEF Synth!Init, SynthTypeOK, States, Asks, Synth!NoCall, Mixers, MixerPcs
  <1>3. CallsExclude /\ LoadedIsCurrent
    BY DEF Synth!Init, CallsExclude, LoadedIsCurrent, Synth!NoCall
  <1>4. AskedIsDone
    BY DEF Synth!Init, AskedIsDone
  <1> QED
    BY <1>2, <1>3, <1>4 DEF SynthIInv

(* A call runs while the mixer is blocked: what the mixer loaded before is *)
(* of no account.                                                          *)
LEMMA CallsApart ==
  ASSUME OneCore, Synth!MayCall, UNCHANGED mixer
  PROVE  CallsExclude' /\ LoadedIsCurrent'
  BY DEF OneCore, Synth!MayCall, CallsExclude, LoadedIsCurrent

LEMMA CallsKeep ==
  ASSUME SynthIInv, Sizes, OneCore,
         Synth!NoteOn \/ (\E v \in Synth!Voices : Synth!NoteOff(v)) \/ Synth!AllOff
         \/ Synth!CallGoesOn
  PROVE  SynthIInv'
  <1> USE DEF SynthIInv, Synth!Calls
  <1>1. 0 \in Synth!Voices /\ \A v \in Synth!Voices : v # NumVoices - 1 => v + 1 \in Synth!Voices
    BY DEF Sizes, Synth!Voices
  <1>2. \A v \in Synth!Voices : Synth!Released(v) \in States \ Synth!Held
    BY DEF SynthTypeOK, Synth!Released, Synth!Held, States
  <1>3. CASE Synth!NoteOn
    <2>1. PICK v \in {Synth!Allocate} \cup Synth!Voices :
            /\ seq' = [seq EXCEPT ![v] = counter + 1]
            /\ call' = [op |-> "on", voice |-> v]
      BY <1>3 DEF Synth!NoteOn
    <2>2. v \in Synth!Voices
      BY AllocateIsVoice
    <2>3. SynthTypeOK'
      BY <1>3, <2>1, <2>2 DEF Synth!NoteOn, SynthTypeOK
    <2>4. AskedIsDone'
      BY <1>3 DEF Synth!NoteOn, AskedIsDone
    <2> QED
      BY <1>3, <2>3, <2>4, CallsApart DEF Synth!NoteOn
  <1>4. CASE Synth!Attack
    <2>1. SynthTypeOK'
      BY <1>1, <1>4 DEF Synth!Attack, SynthTypeOK, States, Asks, Synth!NoCall
    <2>2. AskedIsDone'
      BY <1>4 DEF Synth!Attack, SynthTypeOK, AskedIsDone, Synth!Held
    <2> QED
      BY <1>4, <2>1, <2>2, CallsApart DEF Synth!Attack
  <1>5. ASSUME NEW v \in Synth!Voices, Synth!NoteOff(v) PROVE SynthIInv'
    <2>1. SynthTypeOK'
      BY <1>2, <1>5 DEF Synth!NoteOff, SynthTypeOK, Asks
    <2>2. AskedIsDone'
      BY <1>2, <1>5 DEF Synth!NoteOff, SynthTypeOK, AskedIsDone, Asks
    <2> QED
      BY <1>5, <2>1, <2>2, CallsApart DEF Synth!NoteOff
  <1>6. CASE Synth!AllOff
    <2>1. SynthTypeOK' /\ AskedIsDone'
      BY <1>1, <1>6 DEF Synth!AllOff, SynthTypeOK, AskedIsDone
    <2> QED
      BY <1>6, <2>1, CallsApart DEF Synth!AllOff
  <1>7. CASE Synth!AllOffVoice
    <2>1. call.voice \in Synth!Voices /\ call \in [op : {"none", "on", "alloff"},
      voice : Synth!Voices]
      BY DEF SynthTypeOK
    <2>2. call' \in [op : {"none", "on", "alloff"}, voice : Synth!Voices]
      BY <1>1, <1>7, <2>1 DEF Synth!AllOffVoice, Synth!NoCall
    <2>3. SynthTypeOK'
      BY <1>2, <1>7, <2>1, <2>2 DEF Synth!AllOffVoice, SynthTypeOK, Asks
    <2>4. AskedIsDone'
      BY <1>2, <1>7, <2>1 DEF Synth!AllOffVoice, SynthTypeOK, AskedIsDone, Asks
    <2> QED
      BY <1>7, <2>3, <2>4, CallsApart DEF Synth!AllOffVoice
  <1> QED
    BY <1>3, <1>4, <1>5, <1>6, <1>7 DEF Synth!CallGoesOn

(* The mixer's place and locals as a step leaves them.                     *)
LEMMA MixerMoves ==
  ASSUME NEW m \in Mixers, NEW p \in MixerPcs, NEW v \in Synth!Voices
  PROVE  [m EXCEPT !.pc = p, !.voice = v, !.left = 0] \in Mixers
  <1>1. \A x \in Mixers : [x EXCEPT !.pc = p, !.voice = v] \in Mixers
    BY DEF Mixers
  <1>2. \A x \in Mixers : [x EXCEPT !.left = 0] \in Mixers
    BY DEF Mixers
  <1> QED
    BY <1>1, <1>2, Zenon

LEMMA MixerForgets ==
  ASSUME NEW m \in Mixers, NEW n \in Int
  PROVE  [m EXCEPT !.pc = "load", !.left = n, !.state = "off", !.env = 0] \in Mixers
  <1>1. \A x \in Mixers : [x EXCEPT !.pc = "load", !.left = n] \in Mixers
    BY DEF Mixers, MixerPcs
  <1>2. \A x \in Mixers : [x EXCEPT !.state = "off"] \in Mixers
    BY DEF Mixers, States
  <1>3. \A x \in Mixers : [x EXCEPT !.env = 0] \in Mixers
    BY DEF Mixers
  <1> QED
    BY <1>1, <1>2, <1>3, Zenon

(* The mixer leaves the calls and what was asked alone; no call is under   *)
(* way.                                                                    *)
LEMMA MixerKeeps ==
  ASSUME SynthIInv, Sizes, OneCore, Synth!Mixer
  PROVE  SynthIInv'
  <1> USE DEF SynthIInv, Synth!At, Synth!NoCalls, OneCore
  <1>0. 0 \in Synth!Voices /\ \A v \in Synth!Voices : v # NumVoices - 1 => v + 1 \in Synth!Voices
    BY DEF Sizes, Synth!Voices
  <1>1. call.op = "none" /\ UNCHANGED <<seq, counter, call, asked>>
    BY DEF Synth!Mixer, Synth!SkipVoice, Synth!StartVoice, Synth!Load, Synth!StoreAttack,
           Synth!StoreRelease, Synth!StoreNothing, Synth!EndVoice,
           Synth!Write, Synth!Unblock
  <1>2. CallsExclude'
    BY <1>1 DEF CallsExclude
  <1>3. mixer' \in Mixers
    <2> USE DEF MixerPcs
    <2>0. mixer \in Mixers
      BY DEF SynthTypeOK
    <2>1. CASE Synth!NextVoice
      <3>1. mixer.voice = NumVoices - 1 \/ mixer.voice + 1 \in Synth!Voices
        BY <1>0, <2>0 DEF Mixers
      <3>2. \E p \in {"write", "voice"}, v \in Synth!Voices :
              mixer' = [mixer EXCEPT !.pc = p, !.voice = v, !.left = 0]
        BY <1>0, <2>1, <3>1 DEF Synth!NextVoice
      <3>3. PICK p \in {"write", "voice"}, v \in Synth!Voices :
              mixer' = [mixer EXCEPT !.pc = p, !.voice = v, !.left = 0]
        BY <3>2
      <3> QED
        BY <2>0, <3>3, MixerMoves
    <2>2. CASE Synth!Sample
      <3>1. mixer.left - 1 \in Int
        BY <2>0 DEF Mixers
      <3> QED
        BY <2>0, <2>2, <3>1, MixerForgets DEF Synth!Sample
    <2>3. CASE Synth!StartVoice
      <3>1. ChunkFrames \in Int
        BY DEF Sizes
      <3> QED
        BY <2>0, <2>3, <3>1 DEF Synth!StartVoice, Mixers
    <2>4. CASE Synth!Load
      BY <2>0, <2>4 DEF Synth!Load, SynthTypeOK, Mixers
    <2>5. CASE Synth!Write \/ Synth!Unblock
      BY <2>0, <2>5 DEF Synth!Write, Synth!Unblock, Mixers
    <2> QED
      BY <2>1, <2>2, <2>3, <2>4, <2>5
         DEF Synth!Mixer, Synth!SkipVoice, Synth!StoreAttack, Synth!StoreRelease,
             Synth!StoreNothing, Synth!EndVoice
  <1>4. CASE Synth!StoreAttack
    <2>1. mixer.voice \in Synth!Voices /\ state[mixer.voice] = "attack"
      BY <1>4 DEF Synth!StoreAttack, LoadedIsCurrent, SynthTypeOK, Mixers
    <2>2. state' = state \/ state' = [state EXCEPT ![mixer.voice] = "sustain"]
      BY <1>4 DEF Synth!StoreAttack
    <2>0. env' \in [Synth!Voices -> Int]
      BY <1>4 DEF Synth!StoreAttack, SynthTypeOK, Mixers, Sizes
    <2>3. SynthTypeOK'
      BY <1>1, <1>3, <2>0, <2>1, <2>2 DEF SynthTypeOK, States
    <2>4. AskedIsDone'
      BY <1>1, <2>1, <2>2 DEF SynthTypeOK, AskedIsDone, Synth!Held
    <2>5. LoadedIsCurrent'
      BY <1>4 DEF Synth!StoreAttack, Synth!Sample, LoadedIsCurrent, SynthTypeOK, Mixers
    <2> QED
      BY <1>2, <2>3, <2>4, <2>5
  <1>5. CASE Synth!StoreRelease
    <2>1. mixer.voice \in Synth!Voices /\ state[mixer.voice] = "release"
      BY <1>5 DEF Synth!StoreRelease, LoadedIsCurrent, SynthTypeOK, Mixers
    <2>2. state' = state \/ state' = [state EXCEPT ![mixer.voice] = "off"]
      BY <1>5 DEF Synth!StoreRelease
    <2>0. env' \in [Synth!Voices -> Int]
      BY <1>5 DEF Synth!StoreRelease, SynthTypeOK, Mixers, Sizes
    <2>3. SynthTypeOK'
      BY <1>1, <1>3, <2>0, <2>1, <2>2 DEF SynthTypeOK, States
    <2>4. AskedIsDone'
      BY <1>1, <2>1, <2>2 DEF SynthTypeOK, AskedIsDone, Synth!Held
    <2>5. LoadedIsCurrent'
      BY <1>5 DEF Synth!StoreRelease, Synth!Sample, LoadedIsCurrent, SynthTypeOK, Mixers
    <2> QED
      BY <1>2, <2>3, <2>4, <2>5
  <1>6. CASE Synth!Load
    <2>1. SynthTypeOK' /\ AskedIsDone'
      BY <1>1, <1>3, <1>6 DEF Synth!Load, SynthTypeOK, AskedIsDone
    <2>2. LoadedIsCurrent'
      BY <1>6 DEF Synth!Load, LoadedIsCurrent, SynthTypeOK, Mixers
    <2> QED
      BY <1>2, <2>1, <2>2
  <1>7. CASE Synth!SkipVoice \/ Synth!StartVoice \/ Synth!StoreNothing \/ Synth!EndVoice
    \/ Synth!Write \/ Synth!Unblock
    <2>1. UNCHANGED <<state, env>>
      BY <1>7
         DEF Synth!SkipVoice, Synth!StartVoice, Synth!StoreNothing, Synth!EndVoice, Synth!Write,
             Synth!Unblock
    <2>2. SynthTypeOK' /\ AskedIsDone'
      BY <1>1, <1>3, <2>1 DEF SynthTypeOK, AskedIsDone
    <2>3. mixer'.pc # "store"
      BY <1>7, <1>3
         DEF SynthTypeOK, Mixers, MixerPcs, Synth!SkipVoice, Synth!StartVoice, Synth!StoreNothing,
             Synth!EndVoice,
                       Synth!Write, Synth!Unblock, Synth!NextVoice, Synth!Sample
    <2> QED
      BY <1>2, <2>2, <2>3 DEF LoadedIsCurrent
  <1> QED
    BY <1>4, <1>5, <1>6, <1>7 DEF Synth!Mixer

LEMMA SynthStepInv == ASSUME SynthIInv, Sizes, OneCore, [Synth!Next]_Synth!vars PROVE SynthIInv'
  <1>1. CASE UNCHANGED Synth!vars
    BY <1>1 DEF Synth!vars, SynthIInv, SynthTypeOK, CallsExclude, LoadedIsCurrent, AskedIsDone
  <1> QED
    BY <1>1, CallsKeep, MixerKeeps DEF Synth!Next

LEMMA SynthInvariance == ASSUME Sizes, OneCore PROVE Synth!Spec => []SynthIInv
  BY SynthInitInv, SynthStepInv, PTL DEF Synth!Spec

(* A note that was started and not released is on, whatever the mixer was  *)
(* doing to the voice it was given.                                        *)
THEOREM HeldNotesSound ==
  ASSUME Sizes, OneCore PROVE Synth!Spec => []Synth!HeldNoteSounds
  <1>1. SynthIInv => Synth!HeldNoteSounds
    BY DEF SynthIInv, AskedIsDone, Synth!HeldNoteSounds
  <1> QED
    BY <1>1, SynthInvariance, PTL

(* A note that was released is fading or off ("envelope fades it out",     *)
(* snd_core.h).                                                            *)
THEOREM ReleasedNotesFade ==
  ASSUME Sizes, OneCore PROVE Synth!Spec => []Synth!ReleasedNoteFades
  <1>1. SynthIInv => Synth!ReleasedNoteFades
    BY DEF SynthIInv, AskedIsDone, Synth!ReleasedNoteFades
  <1> QED
    BY <1>1, SynthInvariance, PTL
=============================================================================
