------------------------------ MODULE WorldView ------------------------------
(***************************************************************************)
(* What the event stream promises its clients: "a pure reflection of       *)
(* engine state" (engine/events.py).  What a client shows is the daemon's  *)
(* sessions as they stood at some moment, whole, and never goes back to an *)
(* earlier one.  Nothing is said of queues, connections or snapshots.      *)
(***************************************************************************)
EXTENDS Naturals, Sequences

CONSTANTS Clients, None

VARIABLES
    history,  \* what the sessions have been, up to what they are now
    shown,    \* what each client shows of them
    moment    \* the place in the history of what it shows

vars == <<history, shown, moment>>

Init ==
    /\ Len(history) = 1
    /\ shown = [c \in Clients |-> None]
    /\ moment = [c \in Clients |-> 0]

Change ==
    /\ Len(history') = Len(history) + 1
    /\ SubSeq(history', 1, Len(history)) = history
    /\ UNCHANGED <<shown, moment>>

Look(c) ==
    \E n \in moment[c]..Len(history) :
        /\ n > 0
        /\ moment' = [moment EXCEPT ![c] = n]
        /\ shown' = [shown EXCEPT ![c] = history[n]]
        /\ UNCHANGED history

Next == Change \/ \E c \in Clients : Look(c)

Spec == Init /\ [][Next]_vars

=============================================================================
