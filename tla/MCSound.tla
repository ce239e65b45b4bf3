------------------------------ MODULE MCSound ------------------------------
(***************************************************************************)
(* Sound in one run: `part` says whether the stream on one core, the stream*)
(* on two, the synth voices or the tracker is run.  The stream's variables  *)
(* keep their initial values in the other parts, so that its properties can*)
(* be checked as they are; those of the others are 0 where they are unused.*)
(***************************************************************************)
EXTENDS SndStream, TLC

VARIABLES part, renderer, state, env, seq, counter, call, asked,
          loaded, chan, music, left, sequenced, calls

TwoCores == INSTANCE SndStream WITH DualCore <- TRUE, Reopens <- FALSE

Synth == INSTANCE SndVoices WITH
  NumVoices <- 3, Full <- 2, AttackStep <- 1, ReleaseStep <- 1, ChunkFrames <- 2, MaxNotes <- 4,
  DualCore <- FALSE, mixer <- renderer

\* A loop, an early end, and a loop after its first note; patterns that loop
\* back, that leave a channel free and that stop.
Cartridge ==
  (0 :> [speed |-> 1, start |-> 0, stop |-> 2, last |-> 3]) @@
  (1 :> [speed |-> 2, start |-> 1, stop |-> 0, last |-> 2]) @@
  (2 :> [speed |-> 0, start |-> 1, stop |-> 3, last |-> 1])
Songs ==
  (0 :> [flags |-> {"begin"}, chan |-> (0 :> 0 @@ 1 :> 2)]) @@
  (1 :> [flags |-> {"end"}, chan |-> (0 :> 1 @@ 1 :> 0)]) @@
  (2 :> [flags |-> {"stop"}, chan |-> (0 :> 2 @@ 1 :> -1)])

Tracker == INSTANCE SndP8 WITH
  Channels <- {0, 1}, Effects <- Cartridge, Patterns <- Songs, Notes <- 3, ChunkSamples <- 2,
  FadeFull <- 3, FadeSamples <- 3, FadeLen <- 1, MaxCalls <- 3

SynthVars == <<renderer, state, env, seq, counter, call, asked>>
TrackerVars == <<loaded, chan, music, left, sequenced, calls>>
NoSynth == renderer = 0 /\ state = 0 /\ env = 0 /\ seq = 0 /\ counter = 0 /\ call = 0 /\ asked = 0
NoTracker == loaded = 0 /\ chan = 0 /\ music = 0 /\ left = 0 /\ sequenced = 0 /\ calls = 0
NoStream == Init /\ played = CHOOSE f \in Frames : TRUE

MCInit ==
  \/ part \in {"one core", "two cores"} /\ Init /\ NoSynth /\ NoTracker
  \/ part = "synth" /\ Synth!Init /\ NoStream /\ NoTracker
  \/ part = "tracker" /\ Tracker!Init /\ NoStream /\ NoSynth

Only(name) == part = name /\ UNCHANGED part
OnOneCore(A) == Only("one core") /\ A /\ UNCHANGED <<SynthVars, TrackerVars>>
OnTwoCores(A) == Only("two cores") /\ A /\ UNCHANGED <<SynthVars, TrackerVars>>
OnSynth(A) == Only("synth") /\ A /\ UNCHANGED <<vars, TrackerVars>>
OnTracker(A) == Only("tracker") /\ A /\ UNCHANGED <<vars, SynthVars>>

MCNext == OnOneCore(Next) \/ OnTwoCores(TwoCores!Next) \/ OnSynth(Synth!Next)
            \/ OnTracker(Tracker!Next)

MCVars == <<part, vars, SynthVars, TrackerVars>>

(* FreeRTOS runs a ready mixer, the output keeps taking samples, and an app *)
(* finishes the calls it makes.  The part never changes, so that fairness  *)
(* of a disjunction is fairness of each disjunct.                          *)
Fairness ==
  /\ WF_MCVars(OnOneCore(Mixer) \/ OnTwoCores(TwoCores!Mixer))
  /\ SF_MCVars(OnOneCore(AppGoesOn) \/ OnTwoCores(TwoCores!AppGoesOn) \/ OnSynth(Synth!CallGoesOn))
  /\ SF_MCVars(OnSynth(Synth!Mixer))

MCSpec == MCInit /\ [][MCNext]_MCVars /\ Fairness

(* A note that was started and not released is on: no voice that an earlier *)
(* release was fading is silenced under it (render_chunk, snd_note_on).    *)
HeldNoteSounds == part = "synth" => Synth!HeldNoteSounds

(* A released note ends, unless its voice is started again (snd_core.h,     *)
(* "envelope fades it out").                                               *)
ReleasedNoteEnds ==
  \A v \in 0 .. 2 : 
    part = "synth" /\ asked[v] = "off" ~> (part = "synth" => ~Synth!Sounds(v) \/ asked[v] = "on")

(* The tracker's channels agree with the music and with each other: an      *)
(* app's sfx is on one channel only, has an end once it need not loop, and *)
(* a channel of the running pattern is at the music's position however     *)
(* late it was picked up (snd_p8_sfx, chan_calc_end, update_music).        *)
ChannelsInStep ==
  part = "tracker" => Tracker!PlaysOnce /\ Tracker!EndsWhenAsked /\ Tracker!MusicInStep

(* The sequencer never takes a channel from an app: its sfx plays to its    *)
(* end, whatever pattern starts meanwhile (set_music_pattern).             *)
SfxPlaysOn == [][part = "tracker" => Tracker!SfxPlaysOn]_MCVars

(* Music told to stop while it can be heard gets quieter until it stops.   *)
MusicFades == [][part = "tracker" => Tracker!MusicFades]_MCVars
=============================================================================
