----------------------------- MODULE MCRecorder -----------------------------
(* Recorder with a limit of a few frames.                                  *)
EXTENDS Recorder

\* Any number below every timestamp stands for INT64_MIN.
MinusInfinity == -1000
=============================================================================
