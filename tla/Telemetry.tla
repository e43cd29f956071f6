------------------------------ MODULE Telemetry ------------------------------
(***************************************************************************)
(* Sensor readings and thermal messages of mine() (src/src/miner.cpp): the *)
(* sensor thread (349-363) samples card after card and then publishes the  *)
(* round as a whole; update() (375-421), called by the connection thread,  *)
(* copies the readings into the view and posts an event when a card's      *)
(* temperature level changes.  A sample may lack a temperature             *)
(* (nvml.cpp:85-119, amd.cpp:31-85).                                       *)
(*                                                                         *)
(* Of a reading the model keeps the temperature; rates and the other       *)
(* sensors of the view are left out.                                       *)
(***************************************************************************)
EXTENDS Integers, Sequences

CONSTANTS
    N,          \* selected cards
    Warn, Alarm,\* temperature thresholds
    Temps,      \* temperatures
    None,       \* the driver reports no temperature
    MaxRounds,  \* bound: rounds of sampling
    MaxViews    \* bound: calls of update()

Cards == 1 .. N

ASSUME TelemetryAssumption ==
    /\ N \in Nat \ {0}
    /\ Temps \subseteq Int
    /\ None \notin Int
    /\ {Warn, Alarm} \subseteq Int
    /\ {MaxRounds, MaxViews} \subseteq Nat

VARIABLES
    sensor,    \* the sensor thread: "sample", "store", "sleep" or "done"
    next,      \* readings of the round in progress
    round,     \* rounds completed
    readings,  \* the shared readings
    view,      \* the readings in the dashboard's view
    thermal,   \* level last seen per card, -1 before the first
    events,    \* history: levels announced per card
    stopping,  \* stop requested of the sensor thread
    updates

sensorVars == <<sensor, next, round>>
telemetryVars == <<sensorVars, readings, view, thermal, events, stopping, updates>>

TelemetryInit ==
    /\ sensor = "sample"
    /\ next = <<>>
    /\ round = 0
    /\ readings = [d \in Cards |-> None]
    /\ view = readings
    /\ thermal = [d \in Cards |-> -1]
    /\ events = [d \in Cards |-> <<>>]
    /\ stopping = FALSE
    /\ updates = 0

-----------------------------------------------------------------------------
(* The sensor thread *)

\* What a driver read of a card gives: a temperature or, on any error, none.
Temperatures == Temps \cup {None}

Sample(t) ==
    /\ sensor = "sample"
    /\ next' = Append(next, t)
    /\ sensor' = IF Len(next) + 1 = N THEN "store" ELSE "sample"
    /\ UNCHANGED <<round, readings, view, thermal, events, stopping, updates>>

Store ==
    /\ sensor = "store"
    /\ readings' = next
    /\ next' = <<>>
    /\ round' = round + 1
    /\ sensor' = "sleep"
    /\ UNCHANGED <<view, thermal, events, stopping, updates>>

\* Mutant: the sleep is cut short and the loop goes on.
WakeOnly ==
    /\ sensor = "sleep"
    /\ stopping \/ round < MaxRounds
    /\ sensor' = "sample"
    /\ round' = 0
    /\ UNCHANGED <<next, readings, view, thermal, events, stopping, updates>>

\* The sleep is over or cut short; the loop condition is evaluated.  Bound:
\* after the last round the thread sleeps until it is stopped.
Wake ==
    /\ sensor = "sleep"
    /\ stopping \/ round < MaxRounds
    /\ sensor' = IF stopping THEN "done" ELSE "sample"
    /\ UNCHANGED <<next, round, readings, view, thermal, events, stopping, updates>>

SensorStep == (\E t \in Temperatures : Sample(t)) \/ Store \/ Wake

-----------------------------------------------------------------------------
(* The connection thread *)

Level(t) == IF t >= Alarm THEN 2 ELSE IF t >= Warn THEN 1 ELSE 0

Known(d) == readings[d] # None

NewLevel(d) == IF Known(d) THEN Level(readings[d]) ELSE thermal[d]

\* Mutant: only the end of an alarm is a recovery.
AnnouncesAlarmOnly(d) ==
    NewLevel(d) # thermal[d] /\ (NewLevel(d) > 0 \/ thermal[d] > 1)

\* Reaching a level is announced; level 0 only as a recovery.
Announces(d) == NewLevel(d) # thermal[d] /\ (NewLevel(d) > 0 \/ thermal[d] > 0)

\* Not while the connection thread waits for the sensor thread to end.
update_view ==
    /\ stopping => sensor = "done"
    /\ updates < MaxViews
    /\ updates' = updates + 1
    /\ view' = readings
    /\ thermal' = [d \in Cards |-> NewLevel(d)]
    /\ events' = [d \in Cards |->
          IF Announces(d) THEN Append(events[d], NewLevel(d)) ELSE events[d]]
    /\ UNCHANGED <<sensorVars, readings, stopping>>

\* The end of mine(): the sensor thread is stopped and joined.
RequestStop ==
    /\ ~stopping
    /\ stopping' = TRUE
    /\ UNCHANGED <<sensorVars, readings, view, thermal, events, updates>>

TelemetryNext == SensorStep \/ update_view \/ RequestStop

\* Driver calls return and the sleep is bounded.
TelemetrySpec ==
    TelemetryInit /\ [][TelemetryNext]_telemetryVars /\ WF_telemetryVars(SensorStep)

-----------------------------------------------------------------------------
(* Properties *)

LastLevel(d) == IF events[d] = <<>> THEN 0 ELSE events[d][Len(events[d])]

\* What the last thermal message of a card says is true of the temperature
\* shown: over gaps in the readings, jumps past a level and recoveries no
\* alarm is missed and no recovery is claimed too early (miner.cpp:400-416).
LastMessageTrue ==
    \A d \in Cards : view[d] # None =>
        LastLevel(d) = Level(view[d])

\* The join at the end of mine() returns (miner.cpp:360-361, 706-708).
SensorThreadEnds == stopping ~> sensor = "done"
=============================================================================
