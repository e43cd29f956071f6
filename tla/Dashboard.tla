------------------------------ MODULE Dashboard ------------------------------
(***************************************************************************)
(* The dashboard (src/src/ui/dashboard.cpp:221-390): the mining thread     *)
(* posts events and views under a mutex; the UI thread takes them, writes  *)
(* the events to the log (or to the console when it is not interactive),   *)
(* shows the view, reads the keyboard and sleeps; the destructor asks it   *)
(* to stop and joins it.                                                   *)
(*                                                                         *)
(* Events are numbered in the order in which they are posted.  Rendering,  *)
(* time stamps and the terminal modes are left out.                        *)
(***************************************************************************)
EXTENDS Integers, Sequences, SequencesExt, FiniteSets

CONSTANTS
    EventCap,   \* 200: events kept in the view
    QueueCap,   \* 1000: events waiting for the UI thread
    MaxEvents,  \* bound: events posted
    MaxUpdates  \* bound: views published

ASSUME DashboardAssumption ==
    /\ EventCap \in Nat \ {0}
    /\ QueueCap \in Nat \ {0}
    /\ MaxEvents \in Nat
    /\ MaxUpdates \in Nat

VARIABLES
    posted,   \* events posted so far
    view,     \* the shared view: its version and its events
    queued,   \* events for the log
    owner,    \* the mining thread: "running", in the destructor ("joining"), "gone"
    stop,     \* stop_requested() of the UI thread
    quit,     \* a quit key was seen
    ui,       \* next step of the UI thread
    lines,    \* its local copy of the queue
    copy,     \* its local copy of the view
    log       \* events written, in order

sharedVars == <<posted, view, queued>>
uiVars     == <<ui, lines, copy, log, quit>>
vars       == <<sharedVars, owner, stop, uiVars>>

Init ==
    /\ posted = 0
    /\ view = [version |-> 0, events |-> <<>>]
    /\ queued = <<>>
    /\ owner = "running"
    /\ stop = FALSE
    /\ quit = FALSE
    /\ ui = "take"
    /\ lines = <<>>
    /\ copy = view
    /\ log = <<>>

-----------------------------------------------------------------------------
(* The mining thread *)

\* Mutant: the limit drops the new element instead of the oldest.
PushRefused(q, e, cap) ==
    IF Len(q) >= cap THEN q ELSE Append(q, e)

\* The newest cap elements: push_back, then pop_front when over the limit.
PushCapped(q, e, cap) ==
    IF Len(q) >= cap THEN Tail(Append(q, e)) ELSE Append(q, e)

event ==
    /\ owner = "running"
    /\ posted < MaxEvents
    /\ posted' = posted + 1
    /\ view' = [view EXCEPT !.events = PushCapped(@, posted + 1, EventCap)]
    /\ queued' = PushCapped(queued, posted + 1, QueueCap)
    /\ UNCHANGED <<owner, stop, uiVars>>

\* The caller's view has no events of its own: the shared ones are kept.
update ==
    /\ owner = "running"
    /\ view.version < MaxUpdates
    /\ view' = [version |-> view.version + 1, events |-> view.events]
    /\ UNCHANGED <<posted, queued, owner, stop, uiVars>>

\* Mutant: the destructor joins without asking the thread to stop.
DestroyNoStop ==
    /\ owner = "running"
    /\ owner' = "joining"
    /\ UNCHANGED <<sharedVars, stop, uiVars>>

Destroy ==
    /\ owner = "running"
    /\ owner' = "joining"
    /\ stop' = TRUE
    /\ UNCHANGED <<sharedVars, uiVars>>

Joined ==
    /\ owner = "joining"
    /\ ui = "done"
    /\ owner' = "gone"
    /\ UNCHANGED <<sharedVars, stop, uiVars>>

-----------------------------------------------------------------------------
(* The UI thread *)

\* Mutant: the queue is copied and not emptied.
TakeCopies ==
    /\ ui = "take"
    /\ copy' = view
    /\ lines' = queued
    /\ ui' = "write"
    /\ UNCHANGED <<posted, view, queued, owner, stop, log, quit>>

Take ==
    /\ ui = "take"
    /\ copy' = view
    /\ lines' = queued
    /\ queued' = <<>>
    /\ ui' = "write"
    /\ UNCHANGED <<posted, view, owner, stop, log, quit>>

Write ==
    /\ ui = "write"
    /\ log' = log \o lines
    /\ lines' = <<>>
    /\ quit' \in {quit, TRUE}
    /\ ui' = "check"
    /\ UNCHANGED <<sharedVars, owner, stop, copy>>

Check ==
    /\ ui = "check"
    /\ ui' = IF stop THEN "done" ELSE "sleep"
    /\ UNCHANGED <<sharedVars, owner, stop, lines, copy, log, quit>>

Sleep ==
    /\ ui = "sleep"
    /\ ui' = "take"
    /\ UNCHANGED <<sharedVars, owner, stop, lines, copy, log, quit>>

UiStep == Take \/ Write \/ Check \/ Sleep

Next == event \/ update \/ Destroy \/ Joined \/ UiStep

\* The UI thread keeps running until it leaves its loop: each of its waits is
\* bounded.  join() returns once the thread is done.
Spec == Init /\ [][Next]_vars /\ WF_vars(UiStep) /\ WF_vars(Joined)

-----------------------------------------------------------------------------
(* Properties *)

\* The log lists events in the order in which they were posted and none twice,
\* although the queue is taken, cut at its limit and refilled while lines are
\* being written (dashboard.cpp:277-290, 383-387).
LogInOrder == \A i, j \in 1 .. Len(log) : i < j => log[i] < log[j]

\* Only an overrun takes events out of the queue, and then the oldest: the
\* queue keeps to its limit, and the newest QueueCap events are always written,
\* in hand or still queued (dashboard.cpp:283, 386-387).
NewestKept ==
    /\ Len(queued) <= QueueCap
    /\ \A e \in 1 .. posted :
        e > posted - QueueCap =>
            e \in ToSet(log) \cup ToSet(lines) \cup ToSet(queued)

\* The destructor always comes to an end (dashboard.cpp:338-341, 361-364).
DestructorReturns == owner = "joining" ~> owner = "gone"

\* "The miner keeps its TUI for an interactive console and writes events to
\* /var/log/miner/supryolo/supryolo.log" (docs/RELEASES.md:69): when the
\* dashboard is gone the events that were waiting have been written, the
\* final statistics of mine() among them.
AllWritten == owner = "gone" => queued = <<>>
=============================================================================
