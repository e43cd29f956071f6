---------------------------- MODULE MCNoiseStream ----------------------------
(* NoiseStream for TLC: every limit within reach of a few bytes.            *)
EXTENDS NoiseStream
=============================================================================
