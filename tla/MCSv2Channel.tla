---------------------------- MODULE MCSv2Channel ----------------------------
(* Sv2Channel for TLC.                                                      *)
EXTENDS Sv2Channel
=============================================================================
