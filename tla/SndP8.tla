-------------------------------- MODULE SndP8 --------------------------------
(***************************************************************************)
(* The PICO-8 tracker of breezy_sound (snd_p8.c): channels that play a      *)
(* cartridge's sound effects, the music that plays patterns of them, and    *)
(* the calls of an app.  A note is a number of samples and whether it       *)
(* sounds; what it sounds like is left out.  On one core a call, which holds*)
(* the lock, falls between the chunks of the mixer.                         *)
(***************************************************************************)
EXTENDS Integers, FiniteSetsExt

CONSTANTS
  Channels,        \* 0 .. NUM_CHANNELS - 1
  Effects,         \* the cartridge's sfx: speed, start, stop (the loop), last audible note
  Patterns,        \* its music: each pattern's flags and the sfx of its channels
  Notes,           \* notes of an sfx, 32
  ChunkSamples,    \* samples of a chunk
  FadeFull, FadeSamples,  \* the music's full level, and the samples of a fade
  FadeLen,         \* samples of a declick
  MaxCalls         \* bound on the calls of an app

None == -1

VARIABLES
  loaded,          \* whether snd_p8_load has replaced the empty cartridge
  chan, music,     \* g_chan, g_music; music.ending: it was told to stop while heard
  left, sequenced, \* samples left of the mixer's chunk, and whether the music has moved on
  calls            \* calls the app may still make

vars == <<loaded, chan, music, left, sequenced, calls>>

(* The zeroed cartridge: silent sfx, and every pattern plays sfx 0.        *)
Sfx(n) == IF loaded THEN Effects[n] ELSE [speed |-> 0, start |-> 0, stop |-> 0, last |-> 0]
Pattern(p) == IF loaded THEN Patterns[p] ELSE [flags |-> {}, chan |-> [c \in Channels |-> 0]]

NoteLen(n) == Max({1, Sfx(n).speed})
Loops(n) == Sfx(n).stop > Sfx(n).start
EndsEarly(n) == Sfx(n).stop = 0 /\ Sfx(n).start > 0

(* No sfx lasts longer than Horizon, so that `time` stops there; Never is   *)
(* out of its reach (UINT32_MAX).                                          *)
Horizon == Notes * Max({1} \cup {Effects[n].speed : n \in DOMAIN Effects})
Never == Horizon + 1

(* chan_calc_end                                                           *)
EndOf(n, isMusic, canLoop) ==
  LET forced == ~Loops(n) \/ ~canLoop
      early == EndsEarly(n) /\ ~isMusic
      notes == Min({Notes} \cup (IF early THEN {Sfx(n).start} ELSE {})
                           \cup (IF forced /\ ~isMusic THEN {Sfx(n).last} ELSE {}))
  IN IF forced \/ early THEN notes * NoteLen(n) ELSE Never

(* launch_sfx, from sample pos of the sfx.  prev_key and prev_vol only      *)
(* shape the sound.                                                        *)
Launch(c, n, pos, isMusic) ==
  [c EXCEPT !.sfx = n, !.music = isMusic, !.loops = TRUE, !.time = 0,
            !.note = pos \div NoteLen(n), !.tick = pos % NoteLen(n),
            !.end = EndOf(n, isMusic, TRUE)]

Stopped(c) == [c EXCEPT !.sfx = None, !.queued = None]

-----------------------------------------------------------------------------
(* The samples of a pattern: those of its first channel that does not loop, *)
(* or else of the slowest that does.                                       *)
PatternLen(p) ==
  LET used == {c \in Channels : Pattern(p).chan[c] # None}
      sfx(c) == Pattern(p).chan[c]
      fixed == {c \in used : ~Loops(sfx(c))}
  IN IF fixed = {} THEN Max({0} \cup {Notes * NoteLen(sfx(c)) : c \in used})
     ELSE LET n == sfx(Min(fixed)) IN
          (IF EndsEarly(n) THEN Min({Sfx(n).start, Notes}) ELSE Notes) * NoteLen(n)

(* set_music_pattern: stops the music, then starts a pattern on the channels*)
(* that are free and queues it on the others.                              *)
MutantSetPattern(p, t) ==
  LET cut == [c \in Channels |-> Stopped(t.chan[c])]
      start(c) ==
        IF Pattern(p).chan[c] = None THEN cut[c] ELSE Launch(cut[c], Pattern(p).chan[c], 0, TRUE)
  IN IF p \notin DOMAIN Patterns \/ PatternLen(p) = 0
     THEN [chan |-> cut, music |-> [t.music EXCEPT !.pattern = None, !.pos = 0, !.len = 0, !.mask = {}]]
     ELSE [chan |-> [c \in Channels |-> start(c)],
           music |-> [t.music EXCEPT !.pattern = p, !.pos = 0, !.len = PatternLen(p)]]

SetPattern(p, t) ==
  LET cut == [c \in Channels |-> IF t.chan[c].music THEN Stopped(t.chan[c]) ELSE t.chan[c]]
      start(c) == LET n == Pattern(p).chan[c] IN
        IF n = None THEN cut[c]
        ELSE IF cut[c].sfx = None THEN Launch(cut[c], n, 0, TRUE)
        ELSE [cut[c] EXCEPT !.queued = n]
  IN IF p \notin DOMAIN Patterns \/ PatternLen(p) = 0
     THEN [chan |-> cut, music |-> [t.music EXCEPT !.pattern = None, !.pos = 0, !.len = 0, !.mask = {}]]
     ELSE [chan |-> [c \in Channels |-> start(c)],
           music |-> [t.music EXCEPT !.pattern = p, !.pos = 0, !.len = PatternLen(p)]]

NextPattern(p) ==
  CASE "stop" \in Pattern(p).flags -> None
    [] "end" \in Pattern(p).flags /\ "stop" \notin Pattern(p).flags ->
         Max({0} \cup {b \in 1 .. p : "begin" \in Pattern(b).flags})
    [] OTHER -> p + 1

(* update_music, of a running pattern: the master position, the fade and   *)
(* the pattern's end.                                                      *)
Clip(level) == Max({0, Min({level, FadeFull})})

Sequence(t) ==
  LET m == [t.music EXCEPT !.pos = @ + 1, !.fade = Clip(@ + t.music.step)]
      u == [t EXCEPT !.music = m]
  IN IF m.pattern = None THEN t
     ELSE IF m.step < 0 /\ m.fade = 0 THEN SetPattern(None, u)
     ELSE IF m.pos >= m.len THEN SetPattern(NextPattern(m.pattern), u)
     ELSE u

(* Where a queued sfx is when the pattern is at sample pos.                *)
MutantResume(n, pos) == pos

Resume(n, pos) ==
  LET from == Sfx(n).start * NoteLen(n)
      range == (Sfx(n).stop - Sfx(n).start) * NoteLen(n)
  IN IF Loops(n) /\ pos > from THEN from + ((pos - from) % range) ELSE pos

(* A free channel picks up the sfx queued behind a user's, unless it is over*)
PickUp(c, pos) ==
  LET n == c.queued IN
  IF c.sfx # None \/ n = None THEN c
  ELSE IF ~Loops(n) /\ pos > Notes * NoteLen(n) THEN [c EXCEPT !.queued = None]
  ELSE [Launch(c, n, Resume(n, pos), TRUE) EXCEPT !.queued = None]

(* chan_render: the position, the loop and the end; a channel that starts  *)
(* or stops sounding is faded (the declick).                               *)
Audible(c) == c.sfx # None /\ c.note < Notes /\ c.note < Sfx(c.sfx).last

Declick(c) ==
  LET fade == IF Audible(c) # c.sounds THEN FadeLen ELSE c.fade
  IN [c EXCEPT !.sounds = Audible(c), !.fade = Max({0, fade - 1})]

Position(c) ==
  IF c.tick + 1 < NoteLen(c.sfx) THEN [c EXCEPT !.tick = @ + 1]
  ELSE LET s == Sfx(c.sfx) IN
       [c EXCEPT !.tick = 0,
                 !.note = IF Loops(c.sfx) /\ c.loops /\ c.note + 1 >= s.stop
                          THEN s.start + ((c.note + 1 - s.start) % (s.stop - s.start))
                          ELSE c.note + 1]

Rendered(c) ==
  LET d == Declick(c)
      time == Min({d.time + 1, Horizon}) IN
  IF c.sfx = None THEN d
  ELSE [Position(d) EXCEPT !.time = time, !.sfx = IF time >= c.end THEN None ELSE @]

-----------------------------------------------------------------------------
(* snd_p8_mix, when p8_active says that there is something to play.        *)
StartChunk ==
  /\ left = 0
  /\ music.pattern # None \/ \E c \in Channels : chan[c].sfx # None \/ chan[c].fade > 0
  /\ left' = ChunkSamples
  /\ UNCHANGED <<loaded, chan, music, sequenced, calls>>

(* Each sample first moves the music, then renders the channels.           *)
Sequenced ==
  /\ left > 0 /\ ~sequenced /\ sequenced' = TRUE
  /\ LET t == Sequence([chan |-> chan, music |-> music]) IN chan' = t.chan /\ music' = t.music
  /\ UNCHANGED <<loaded, left, calls>>

Sample ==
  /\ sequenced /\ sequenced' = FALSE /\ left' = left - 1
  /\ chan' = [c \in Channels |-> Rendered(PickUp(chan[c], music.pos))]
  /\ UNCHANGED <<loaded, music, calls>>

Mixer == StartChunk \/ Sequenced \/ Sample

-----------------------------------------------------------------------------
(* The calls.                                                              *)
Called == left = 0 /\ calls > 0 /\ calls' = calls - 1

Set(t) == chan' = t.chan /\ music' = t.music
Silenced == LET t == SetPattern(None, [chan |-> chan, music |-> music])
            IN [t EXCEPT !.chan = [c \in Channels |-> Stopped(t.chan[c])]]

(* snd_p8_load stops everything before it replaces the cartridge.          *)
Load == Called /\ ~loaded /\ loaded' = TRUE /\ Set(Silenced) /\ UNCHANGED <<left, sequenced>>

(* snd_p8_stop                                                             *)
Stop == Called /\ Set(Silenced) /\ UNCHANGED <<loaded, left, sequenced>>

(* snd_p8_sfx(-1 and -2): the channels, or one of them, that play a user's *)
(* sfx stop, or stop looping.                                              *)
StopSfx(C) ==
  /\ Called
  /\ chan' = [c \in Channels |-> IF c \in C /\ ~chan[c].music
                               THEN [chan[c] EXCEPT !.sfx = None] ELSE chan[c]]
  /\ UNCHANGED <<loaded, music, left, sequenced>>

StopLooping(C) ==
  /\ Called
  /\ chan' = [c \in Channels |->
       IF c \notin C \/ chan[c].music \/ ~chan[c].loops THEN chan[c]
       ELSE [chan[c] EXCEPT !.loops = FALSE,
               !.end = IF chan[c].sfx = None THEN @ ELSE EndOf(chan[c].sfx, FALSE, FALSE)]]
  /\ UNCHANGED <<loaded, music, left, sequenced>>

(* The channel for an sfx that names none: a free one or the one that      *)
(* already plays it, else one of the music's, else the fastest; never one  *)
(* that the music reserves.                                                *)
AutoChannel(n) ==
  LET open == Channels \ music.mask
      free == {c \in open : chan[c].sfx \in {None, n}}
      musical == {c \in open : chan[c].music}
      speed(c) == Sfx(chan[c].sfx).speed
  IN IF free # {} THEN Min(free)
     ELSE IF musical # {} THEN Min(musical)
     ELSE IF open # {} THEN Max({c \in open : \A d \in open : speed(c) <= speed(d)})
     ELSE None

(* snd_p8_sfx.  A channel that plays the sfx already is stopped; a music   *)
(* sfx that gives way is queued.                                           *)
Play(n, to, offset) ==
  /\ Called /\ to # None
  /\ LET once == [c \in Channels |-> IF chan[c].sfx = n THEN [chan[c] EXCEPT !.sfx = None]
                                                       ELSE chan[c]]
         old == once[to]
         kept == IF old.sfx # None /\ old.music THEN [old EXCEPT !.queued = old.sfx] ELSE old
     IN chan' = [once EXCEPT ![to] = Launch(kept, n, offset * NoteLen(n), FALSE)]
  /\ UNCHANGED <<loaded, music, left, sequenced>>

(* snd_p8_music(n): at full level, or faded in.                            *)
StartMusic(p, faded, mask) ==
  /\ Called
  /\ Set(SetPattern(p,
       [chan |-> chan,
        music |-> [music EXCEPT !.mask = mask, !.ending = FALSE,
                     !.fade = IF faded THEN 0 ELSE FadeFull,
                     !.step = IF faded THEN Max({1, FadeFull \div FadeSamples}) ELSE 0]]))
  /\ UNCHANGED <<loaded, left, sequenced>>

(* snd_p8_music(-1): at once, or faded out from the level it is at.        *)
MutantStopMusic(faded) ==
  /\ Called
  /\ music' = [music EXCEPT !.ending = music.fade > 0, !.step = IF faded THEN -(music.fade \div FadeSamples) ELSE -FadeFull]
  /\ UNCHANGED <<loaded, chan, left, sequenced>>

StopMusic(faded) ==
  /\ Called
  /\ music' = [music EXCEPT !.ending = music.fade > 0, !.step =
       IF ~faded THEN -FadeFull
       ELSE IF music.fade > 0 THEN Min({-1, -(music.fade \div FadeSamples)})
       ELSE 0]
  /\ UNCHANGED <<loaded, chan, left, sequenced>>

-----------------------------------------------------------------------------
(* Everything is zero at boot: the tracker plays the empty cartridge.      *)
Init ==
  /\ loaded = FALSE /\ left = 0 /\ sequenced = FALSE /\ calls = MaxCalls
  /\ chan = [c \in Channels |->
       [sfx |-> 0, queued |-> 0, music |-> FALSE, loops |-> FALSE, note |-> 0, tick |-> 0,
        time |-> 0, end |-> 0, sounds |-> FALSE, fade |-> 0]]
  /\ music = [pattern |-> 0, pos |-> 0, len |-> 0, mask |-> {}, fade |-> 0, step |-> 0,
               ending |-> FALSE]

Calls ==
  \/ Load \/ Stop
  \/ \E C \in {{c} : c \in Channels} \cup {Channels} : StopSfx(C) \/ StopLooping(C)
  \/ \E n \in DOMAIN Effects : Play(n, AutoChannel(n), 0)
  \/ \E n \in DOMAIN Effects, c \in Channels, k \in {0, 1} : Play(n, c, k)
  \/ \E p \in DOMAIN Patterns, faded \in BOOLEAN, mask \in {{}, {0}} : StartMusic(p, faded, mask)
  \/ \E faded \in BOOLEAN : StopMusic(faded)

Next == Mixer \/ Calls
Spec == Init /\ [][Next]_vars

-----------------------------------------------------------------------------
Owned(c) == chan[c].sfx # None /\ ~chan[c].music

(* "PICO-8 never plays the same sfx on two channels" (snd_p8_sfx), of the   *)
(* sfx that apps play: the music may play it beside them.                  *)
PlaysOnce ==
  loaded => \A c, d \in Channels :
    Owned(c) /\ Owned(d) /\ chan[c].sfx = chan[d].sfx => c = d

(* A channel that plays a sfx of the running pattern is where the music is, *)
(* loops included, whether it began with the pattern or was picked up when *)
(* a user's sfx ended ("Resume position in samples equals the master        *)
(* position"); it is at most one sample ahead.                             *)
At(n, c) == chan[c].note * NoteLen(n) + chan[c].tick

MusicInStep ==
  \A c \in Channels : LET n == chan[c].sfx IN
    loaded /\ ~sequenced /\ chan[c].music /\ n # None /\ music.pattern # None
       /\ n = Pattern(music.pattern).chan[c] =>
      At(n, c) \in {Resume(n, music.pos), Resume(n, music.pos + 1)}

(* The sequencer never takes a channel from an app: a user's sfx plays on  *)
(* until its end, whatever pattern starts meanwhile.                       *)
SfxPlaysOn ==
  \A c \in Channels :
    left > 0 /\ Owned(c) /\ chan'[c].sfx # chan[c].sfx =>
      sequenced /\ chan[c].time + 1 >= chan[c].end

(* An sfx that does not loop, or was told to stop looping, has an end.     *)
EndsWhenAsked ==
  \A c \in Channels :
    loaded /\ Owned(c) /\ ~(chan[c].loops /\ Loops(chan[c].sfx)) => chan[c].end <= Horizon

(* Music that was told to stop while it could be heard gets quieter with   *)
(* every sample until it stops, however slow the fade ("n == -1 stop").    *)
MusicFades ==
  music.ending /\ sequenced' /\ ~sequenced =>
    music'.pattern = None \/ music'.fade < music.fade
=============================================================================
