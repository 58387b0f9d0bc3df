----------------------------- MODULE SampleFifo -----------------------------
(***************************************************************************)
(* What the MP3 PCM path promises, whatever carries the samples: decoded   *)
(* samples wait in one queue, in decode order, and the 44.1 kHz drain      *)
(* plays the head of it.  A core reset or a song change may discard what   *)
(* has not been played, but only from the tail (a song change) or all of   *)
(* it (a reset); nothing is ever replayed, reordered, or played twice.     *)
(*                                                                         *)
(* A decoded beat carries two stereo samples.  A sample is known by its    *)
(* position in the decode: beat n holds samples 2n and 2n+1.               *)
(***************************************************************************)
EXTENDS Naturals, Sequences

VARIABLES
  decoded,  \* beats decoded so far
  queue,    \* the samples that wait to be played, oldest first
  played    \* the last sample played, plus one (0: none yet)

fifoVars == <<decoded, queue, played>>

(* The two stereo samples of a beat, the first in its low half. *)
SamplesOf(beat) == <<2 * beat, 2 * beat + 1>>

FifoInit ==
  /\ decoded = 0
  /\ queue = <<>>
  /\ played = 0

(* A beat is decoded and joins the queue. *)
Enqueue ==
  /\ decoded' = decoded + 1
  /\ queue' = queue \o SamplesOf(decoded)
  /\ UNCHANGED played

(* A beat is decoded by a service that has not yet heard of a reset: it is lost. *)
DecodeInVain ==
  /\ decoded' = decoded + 1
  /\ UNCHANGED <<queue, played>>

(* A song change or a reset drops a suffix of the queue. *)
Discard ==
  /\ \E n \in 0 .. Len(queue) : queue' = SubSeq(queue, 1, n)
  /\ UNCHANGED <<decoded, played>>

Play ==
  /\ queue # <<>>
  /\ played' = Head(queue) + 1
  /\ queue' = Tail(queue)
  /\ UNCHANGED decoded

FifoNext == Enqueue \/ DecodeInVain \/ Discard \/ Play

FifoSpec == FifoInit /\ [][FifoNext]_fifoVars
=============================================================================
