----------------------------- MODULE MCApiServer -----------------------------
(* ApiServer for TLC.                                                       *)
EXTENDS ApiServer
=============================================================================
