------------------------------- MODULE MCMiner -------------------------------
(* Miner for TLC.  The devices are interchangeable; the symmetry is used    *)
(* only where no liveness property is checked.                              *)
EXTENDS Miner, TLC

RowSymmetry == Permutations(Rows)
=============================================================================
