------------------------------ MODULE Encoder -------------------------------
(***************************************************************************)
(* An encoder behind avcodec_encode_video2 or avcodec_encode_audio2 and    *)
(* the wrappers libx264.c and libfdk-aacenc.c of libavcodec.  A call hands *)
(* one frame to the library and returns one packet or none; frames wait    *)
(* inside and come out later, or when the encoder is flushed.              *)
(*                                                                         *)
(* The libraries themselves, libx264 and libfdk_aac, are not part of the   *)
(* repository.  Which frame comes out next is theirs to say: the sound in  *)
(* the order in which it went in, the video in decoding order.  A library  *)
(* that reports a failure has not taken the frame.  Memory does not run    *)
(* out, so the wrappers fail only when the library does.                   *)
(***************************************************************************)
EXTENDS Integers, Sequences, SequencesExt

\* pending: the frames inside, as [frame, count]; out: packets returned so far.
NewEncoder == [pending |-> << >>, out |-> 0]

EncoderState == [pending : Seq([frame : Nat, count : Nat]), out : Nat]

Feed(e, frame, count) ==
    [e EXCEPT !.pending = Append(@, [frame |-> frame, count |-> count])]

\* The pending frames libx264 may return next.  dts runs `reorder` frames behind
\* and must not overtake the pts of a frame that is still inside.
Candidates(e, reorder) ==
    {i \in DOMAIN e.pending : i = 1 \/ e.pending[1].count > e.out - reorder}

\* One packet comes out, and takes its frame with it.
Emit(e, i) == [pending |-> RemoveAt(e.pending, i), out |-> e.out + 1]
=============================================================================
