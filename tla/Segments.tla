------------------------------ MODULE Segments ------------------------------
(***************************************************************************)
(* What the recording pipeline promises of the picture, without encoders,  *)
(* queues or packets: the frames of the preview are numbered as they are   *)
(* captured; the recordings share them out among themselves, oldest first  *)
(* and each to one recording; and a finished recording never changes.      *)
(*                                                                         *)
(* Nothing says that a frame goes to the recording during which it was     *)
(* captured: a recording begins with whatever the ones before it have left *)
(* in the queue (native-lib.cpp:19).                                       *)
(***************************************************************************)
EXTENDS Integers, FiniteSets

CONSTANTS FrameLimit,     \* a recording with more frames than this is full
          MaxSessions,    \* bound: recordings
          MaxFrames,      \* bound: frames captured
          MayFail         \* may a frame be lost on its way into the file?

VARIABLES captured,   \* frames captured so far
          claimed,    \* of these, how many recordings have taken
          segment,    \* segment[s]: the frames of recording s
          finished    \* finished[s]: its file is complete

Sessions == 1 .. MaxSessions

segVars == <<captured, claimed, segment, finished>>

Init == /\ captured = 0 /\ claimed = 0
        /\ segment = [s \in Sessions |-> {}]
        /\ finished = [s \in Sessions |-> FALSE]

\* The camera delivers a frame.
Capture == /\ captured < MaxFrames
           /\ captured' = captured + 1
           /\ UNCHANGED <<claimed, segment, finished>>

\* A recording takes the oldest frame that none has taken.
Claim(s) == /\ claimed < captured /\ ~finished[s]
            /\ Cardinality(segment[s]) <= FrameLimit
            /\ claimed' = claimed + 1
            /\ segment' = [segment EXCEPT ![s] = @ \cup {claimed'}]
            /\ UNCHANGED <<captured, finished>>

\* An encoder or the output device fails on some of its frames.
Lose(s) == /\ MayFail /\ ~finished[s]
           /\ \E kept \in SUBSET segment[s] : segment' = [segment EXCEPT ![s] = kept]
           /\ UNCHANGED <<captured, claimed, finished>>

\* The file is completed, with all of its frames unless something fails.
Finish(s) == /\ ~finished[s]
             /\ finished' = [finished EXCEPT ![s] = TRUE]
             /\ \E kept \in (IF MayFail THEN SUBSET segment[s] ELSE {segment[s]}) :
                  segment' = [segment EXCEPT ![s] = kept]
             /\ UNCHANGED <<captured, claimed>>

Next == Capture \/ \E s \in Sessions : Claim(s) \/ Lose(s) \/ Finish(s)

Spec == Init /\ [][Next]_segVars
=============================================================================
