-------------------------------- MODULE Fifo --------------------------------
(***************************************************************************)
(* What snd_core.h promises of the PCM stream: a bounded queue of frames   *)
(* with one owner.  Accepted frames play once each, in order; nothing but a *)
(* new claim of the stream discards them.                                  *)
(***************************************************************************)
EXTENDS Integers, Sequences

CONSTANTS Frames, Capacity

VARIABLES
  queue,    \* the frames accepted and not yet played
  open,     \* the stream is claimed
  played    \* the last frame played

Init == queue = <<>> /\ open = FALSE /\ played \in Frames

(* Claiming a free stream empties it, then opens it.                       *)
Reset == ~open /\ queue' = <<>> /\ UNCHANGED <<open, played>>

Open == ~open /\ queue = <<>> /\ open' = TRUE /\ UNCHANGED <<queue, played>>

Write ==
  /\ open
  /\ \E n \in 1 .. Capacity - Len(queue) : \E s \in [1 .. n -> Frames] :
       queue' = queue \o s
  /\ UNCHANGED <<open, played>>

(* The mixer plays the oldest frame; after a close, the rest of its chunk. *)
Play ==
  /\ queue # <<>>
  /\ played' = Head(queue) /\ queue' = Tail(queue)
  /\ UNCHANGED open

Close == open /\ open' = FALSE /\ UNCHANGED <<queue, played>>

Next == Reset \/ Open \/ Write \/ Play \/ Close

Spec == Init /\ [][Next]_<<queue, open, played>>
=============================================================================
