---------------------------- MODULE ShareLedger -----------------------------
(***************************************************************************)
(* What a pool session promises about shares, whatever protocol it speaks: *)
(* shares are sent in the order of their ids; a sent share stays pending   *)
(* until the pool's answer gives it one final verdict; when the session    *)
(* ends, the shares without an answer are lost, and none of them is ever   *)
(* counted.                                                                *)
(***************************************************************************)
EXTENDS Integers

CONSTANTS Ids,      \* share ids, an interval of integers
          Verdicts  \* final answers

VARIABLES status,   \* [Ids -> Statuses]
          closed    \* the session has ended

Statuses == {"unsent", "pending", "lost"} \cup Verdicts

Pending == {s \in Ids : status[s] = "pending"}

Init ==
    /\ status = [s \in Ids |-> "unsent"]
    /\ closed = FALSE

Submit ==
    /\ ~closed
    /\ \E s \in Ids :
          /\ \A t \in Ids : status[t] = "unsent" <=> t >= s
          /\ status' = [status EXCEPT ![s] = "pending"]
    /\ UNCHANGED closed

\* One answer of the pool may settle several shares.
Settle ==
    /\ ~closed
    /\ status' \in [Ids -> Statuses]
    /\ \A s \in Ids :
          status'[s] # status[s] => s \in Pending /\ status'[s] \in Verdicts
    /\ UNCHANGED closed

Close ==
    /\ ~closed
    /\ closed' = TRUE
    /\ status' = [s \in Ids |-> IF s \in Pending THEN "lost" ELSE status[s]]

Spec == Init /\ [][Submit \/ Settle \/ Close]_<<status, closed>>
=============================================================================
