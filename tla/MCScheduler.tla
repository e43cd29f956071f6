----------------------------- MODULE MCScheduler -----------------------------
(* Scheduler for TLC: a CPU slot and a GPU slot with different batches.     *)
EXTENDS Scheduler

\* Batches 2 and 3 straddle the end of a row of Span = 4 nonces.
MCBatch == [w \in Slots |-> IF w = 0 THEN 2 ELSE 3]

\* The first job's time is the largest u32, so its ntime rolls over.
MCJobTime == [g \in Gens |-> TimeMod - g]

\* One nonce in four wins: a scan finds no share or one.
MCWinning(p) == p.nonce % 4 = 1
=============================================================================
