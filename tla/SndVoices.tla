----------------------------- MODULE SndVoices -----------------------------
(***************************************************************************)
(* The synth voices of breezy_sound (snd_core.c): the envelopes that        *)
(* render_chunk advances sample by sample, and the calls that start, steal  *)
(* and release notes.  The calls exclude each other with a spinlock; the    *)
(* mixer does not take it.  On one core (DualCore = FALSE) it runs until it *)
(* blocks, and a call, interrupts off, runs to its end; on two, a call's   *)
(* stores fall between the mixer's load of a voice's state and its store.  *)
(***************************************************************************)
EXTENDS Integers, FiniteSetsExt

CONSTANTS
  NumVoices,       \* SND_NUM_VOICES
  Full,            \* the envelope's full level, 32767
  AttackStep, ReleaseStep,
  ChunkFrames,
  MaxNotes,        \* bound on the notes started: seq does not wrap
  DualCore

Voices == 0 .. NumVoices - 1

VARIABLES
  state, env, seq,   \* of each voice: env_state, env, seq
  counter,           \* g_seq
  call,              \* the call in progress
  mixer,             \* the mixer: its place and its locals
  asked              \* the callers' view: the last call on each voice

vars == <<state, env, seq, counter, call, mixer, asked>>

NoCall == [op |-> "none", voice |-> 0]

MayCall == DualCore \/ mixer.pc = "blocked"
Calls == UNCHANGED mixer

Sounds(v) == state[v] # "off"

(* A free voice, the first of them; otherwise the oldest.                  *)
Allocate ==
  LET free == {v \in Voices : ~Sounds(v)} IN
  IF free # {} THEN Min(free)
  ELSE CHOOSE v \in Voices : \A w \in Voices : seq[v] <= seq[w]

(* snd_note_on: a chosen voice, or one it allocates.  The envelope restarts *)
(* before the state says so.                                               *)
NoteOn ==
  /\ call.op = "none" /\ MayCall /\ counter < MaxNotes
  /\ \E v \in {Allocate} \cup Voices :
       /\ env' = [env EXCEPT ![v] = 0]
       /\ seq' = [seq EXCEPT ![v] = counter + 1]
       /\ call' = [op |-> "on", voice |-> v]
  /\ counter' = counter + 1
  /\ Calls /\ UNCHANGED <<state, asked>>

Attack ==
  /\ call.op = "on" /\ MayCall
  /\ state' = [state EXCEPT ![call.voice] = "attack"]
  /\ asked' = [asked EXCEPT ![call.voice] = "on"]
  /\ call' = NoCall
  /\ Calls /\ UNCHANGED <<env, seq, counter>>

Held == {"attack", "sustain"}

Released(v) == IF state[v] \in Held THEN "release" ELSE state[v]

(* snd_note_off.                                                           *)
NoteOff(v) ==
  /\ call.op = "none" /\ MayCall
  /\ state' = [state EXCEPT ![v] = Released(v)]
  /\ asked' = [asked EXCEPT ![v] = IF @ = "on" THEN "off" ELSE @]
  /\ Calls /\ UNCHANGED <<env, seq, counter, call>>

(* The voices' part of snd_all_off: they are released one by one.          *)
AllOff ==
  /\ call.op = "none" /\ MayCall
  /\ call' = [op |-> "alloff", voice |-> 0]
  /\ Calls /\ UNCHANGED <<state, env, seq, counter, asked>>

AllOffVoice ==
  /\ call.op = "alloff" /\ MayCall
  /\ state' = [state EXCEPT ![call.voice] = Released(call.voice)]
  /\ asked' = [asked EXCEPT ![call.voice] = IF @ = "on" THEN "off" ELSE @]
  /\ call' = IF call.voice = NumVoices - 1 THEN NoCall ELSE [call EXCEPT !.voice = @ + 1]
  /\ Calls /\ UNCHANGED <<env, seq, counter>>

-----------------------------------------------------------------------------
(* render_chunk: each voice that sounds, for ChunkFrames samples.          *)

At(p) == mixer.pc = p /\ (DualCore \/ call.op = "none")
NoCalls == UNCHANGED <<seq, counter, call, asked>>

NextVoice ==
  mixer' = IF mixer.voice = NumVoices - 1
           THEN [mixer EXCEPT !.pc = "write", !.voice = 0, !.left = 0]
           ELSE [mixer EXCEPT !.pc = "voice", !.voice = @ + 1, !.left = 0]

SkipVoice ==
  /\ At("voice") /\ ~Sounds(mixer.voice) /\ NextVoice
  /\ NoCalls /\ UNCHANGED <<state, env>>

StartVoice ==
  /\ At("voice") /\ Sounds(mixer.voice)
  /\ mixer' = [mixer EXCEPT !.pc = "load", !.left = ChunkFrames]
  /\ NoCalls /\ UNCHANGED <<state, env>>

Load ==
  /\ At("load") /\ mixer.left > 0
  /\ mixer' = [mixer EXCEPT !.pc = "store",
                 !.state = state[mixer.voice], !.env = env[mixer.voice]]
  /\ NoCalls /\ UNCHANGED <<state, env>>

Sample == mixer' = [mixer EXCEPT !.pc = "load", !.left = @ - 1, !.state = "off", !.env = 0]

MutantStoreAttack ==
  /\ At("store") /\ mixer.state = "attack"
  /\ LET e == mixer.env + AttackStep - ReleaseStep IN
       /\ env' = [env EXCEPT ![mixer.voice] = e]
       /\ state' = [state EXCEPT ![mixer.voice] = IF e <= 0 THEN "off" ELSE @]
  /\ Sample /\ NoCalls

StoreAttack ==
  /\ At("store") /\ mixer.state = "attack"
  /\ LET e == mixer.env + AttackStep IN
       IF e >= Full
       THEN /\ env' = [env EXCEPT ![mixer.voice] = Full]
            /\ state' = [state EXCEPT ![mixer.voice] = "sustain"]
       ELSE env' = [env EXCEPT ![mixer.voice] = e] /\ UNCHANGED state
  /\ Sample /\ NoCalls

MutantStoreRelease ==
  /\ At("store") /\ mixer.state = "release"
  /\ LET e == mixer.env - ReleaseStep IN
       env' = [env EXCEPT ![mixer.voice] = IF e > 0 THEN e ELSE 0]
  /\ UNCHANGED state
  /\ Sample /\ NoCalls

StoreRelease ==
  /\ At("store") /\ mixer.state = "release"
  /\ LET e == mixer.env - ReleaseStep IN
       IF e <= 0
       THEN /\ env' = [env EXCEPT ![mixer.voice] = 0]
            /\ state' = [state EXCEPT ![mixer.voice] = "off"]
       ELSE env' = [env EXCEPT ![mixer.voice] = e] /\ UNCHANGED state
  /\ Sample /\ NoCalls

StoreNothing ==
  /\ At("store") /\ mixer.state \in {"sustain", "off"} /\ Sample
  /\ NoCalls /\ UNCHANGED <<state, env>>

(* A voice is done when it is off or the chunk is full.                    *)
EndVoice ==
  /\ At("load") /\ (mixer.left = 0 \/ ~Sounds(mixer.voice)) /\ NextVoice
  /\ NoCalls /\ UNCHANGED <<state, env>>

(* snd_task writes the chunk, or waits for a notification.                 *)
Write ==
  /\ At("write") /\ mixer' = [mixer EXCEPT !.pc = "blocked"]
  /\ NoCalls /\ UNCHANGED <<state, env>>

Unblock ==
  /\ At("blocked") /\ mixer' = [mixer EXCEPT !.pc = "voice"]
  /\ NoCalls /\ UNCHANGED <<state, env>>

-----------------------------------------------------------------------------
Init ==
  /\ state = [v \in Voices |-> "off"] /\ env = [v \in Voices |-> 0]
  /\ seq = [v \in Voices |-> 0] /\ counter = 0
  /\ call = NoCall /\ asked = [v \in Voices |-> "none"]
  /\ mixer = [pc |-> "voice", voice |-> 0, left |-> 0, state |-> "off", env |-> 0]

CallGoesOn == Attack \/ AllOffVoice

Mixer == SkipVoice \/ StartVoice \/ Load \/ StoreAttack \/ StoreRelease
         \/ StoreNothing \/ EndVoice \/ Write \/ Unblock

Next == NoteOn \/ (\E v \in Voices : NoteOff(v)) \/ AllOff \/ CallGoesOn \/ Mixer

Spec == Init /\ [][Next]_vars

(* The mixer keeps running while a voice sounds, and calls end.  Strong:    *)
(* calls and the mixer hold each other up only briefly, and the mixer,     *)
(* which outranks the callers, runs as soon as it may.                     *)
FairSpec == Spec /\ SF_vars(Mixer) /\ SF_vars(CallGoesOn)

-----------------------------------------------------------------------------
(* A note that was started and not released is on: no voice that an earlier *)
(* release was fading is silenced under it.                                *)
HeldNoteSounds ==
  \A v \in Voices : asked[v] = "on" /\ call.op = "none" => state[v] \in Held

(* A note that was released is fading or off (snd_core.h, "envelope fades  *)
(* it out"), whatever the mixer was doing to its envelope.                 *)
ReleasedNoteFades ==
  \A v \in Voices : asked[v] = "off" /\ call.op = "none" => state[v] \notin Held

(* ... and ends, unless it is started again.                               *)
ReleasedNoteEnds ==
  \A v \in Voices : asked[v] = "off" ~> ~Sounds(v) \/ asked[v] = "on"
=============================================================================
