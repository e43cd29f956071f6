--------------------------- MODULE MCStratumState ---------------------------
(* StratumState for TLC.                                                    *)
EXTENDS StratumState, TLC

CONSTANTS a, b, c, x, y

MCSymmetry == Permutations({a, b, c}) \cup Permutations({x, y})
=============================================================================
