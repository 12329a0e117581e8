---------------------------- MODULE SessionPool ----------------------------
(***************************************************************************)
(* What the session pool promises, without locks, tasks or a waiting list: *)
(* each session goes through its phases one transition at a time, at most  *)
(* Limit sessions hold an agent, and a session that is gone stays gone.    *)
(*                                                                         *)
(*   unborn -> stored -> starting -> idle <-> working,   any -> gone       *)
(*                ^___________|________|__________|                        *)
(*                                                                         *)
(* SessionCoordinator implements this under the mapping at its end.        *)
(***************************************************************************)
EXTENDS Naturals, FiniteSets

CONSTANTS Sessions, Limit

VARIABLE phase

Phases == {"unborn", "stored", "starting", "idle", "working", "gone"}

LivePhases == {"starting", "idle", "working"}

Live == {s \in Sessions : phase[s] \in LivePhases}

Move(s, from, to) ==
    /\ phase[s] \in from
    /\ phase' = [phase EXCEPT ![s] = to]

Init == phase \in [Sessions -> {"unborn", "stored"}]

\* A session appears without an agent when there is no room for one.
Create(s) == Move(s, {"unborn"}, "stored")

\* An agent is started only where there is room for it.
Start(s) ==
    /\ Limit = 0 \/ Cardinality(Live) < Limit
    /\ Move(s, {"unborn", "stored"}, "starting")

\* Nothing but its own start decides what becomes of a starting session.
Started(s) == Move(s, {"starting"}, "idle")
NotStarted(s) == Move(s, {"starting"}, "stored")

Work(s) == Move(s, {"idle"}, "working")
Rest(s) == Move(s, {"working"}, "idle")

Stop(s) == Move(s, {"idle", "working"}, "stored")

\* Deleted, discarded at a stop, never started, or given up before it was
\* there.
Discard(s) == Move(s, Phases \ {"gone"}, "gone")

Next ==
    \E s \in Sessions :
        \/ Create(s) \/ Start(s) \/ Started(s) \/ NotStarted(s)
        \/ Work(s) \/ Rest(s) \/ Stop(s) \/ Discard(s)

Spec == Init /\ [][Next]_phase

=============================================================================
