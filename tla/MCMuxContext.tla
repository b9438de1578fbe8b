---------------------------- MODULE MCMuxContext ----------------------------
(* MuxContext on a few packets.                                            *)
EXTENDS MuxContext

\* Any number below every timestamp stands for INT64_MIN.
MinusInfinity == -1000
=============================================================================
