----------------------------- MODULE EventStream -----------------------------
(***************************************************************************)
(* The event bus (engine/events.py), the websocket that carries it to a    *)
(* client (_run_socket and _send_events in web/server.py), and the one     *)
(* request the daemon makes of a client: the delivery of a file (attach in *)
(* coordinator.py, _deliver_attachment in bot.py).                         *)
(*                                                                         *)
(* The sessions are a function, and an event says what became of one of    *)
(* them.  A client applies the snapshot it is greeted with and then every  *)
(* event.  A step of the daemon is what happens between two awaits.        *)
(***************************************************************************)
EXTENDS Naturals, SequencesExt, FiniteSets

CONSTANTS
    Clients, Sessions, States, Files,
    Bound,       \* event_queue_limit
    Window,      \* messages that fit between the daemon and a client
    MaxChanges, MaxLosses, MaxRefusals,
    None

ASSUME StreamAssumption ==
    /\ Bound \in Nat \ {0} /\ Window \in Nat \ {0}
    /\ MaxChanges \in Nat /\ MaxLosses \in Nat /\ MaxRefusals \in Nat
    /\ None \notin States

VARIABLES
    sessions,    \* session -> its state, or None
    subscribed,  \* EventBus._subscribers
    queue,       \* client -> its queue
    socket,      \* client -> where _run_socket is
    wire,        \* client -> what it has been sent and has not read
    answers,     \* client -> attachment_result frames on their way back
    mirror,      \* client -> what it shows of the sessions
    upload,      \* client -> the file it is sending to the chat
    asked,       \* file -> what its `attach` has come to
    arrived,     \* the files that are in the chat
    history, seen, losses, refusals  \* ghosts; a message says how long the history was

stream == <<subscribed, queue, socket, wire, losses, refusals>>
files == <<answers, upload, asked, arrived>>
view == <<mirror, seen>>
vars == <<sessions, history, stream, files, view>>

CLOSED == [type |-> "closed"]
Refusal == [type |-> "action_error", moment |-> Len(history)]
Snapshot == [type |-> "snapshot", sessions |-> sessions, moment |-> Len(history)]

-----------------------------------------------------------------------------
(***************************************************************************)
(* EventBus.  publish never waits: a queue that is full is emptied, its    *)
(* subscriber dropped, and CLOSED is what it finds.                        *)
(***************************************************************************)
Behind(c) == Len(queue[c]) >= Bound

Publish_Unbounded(event) ==
    /\ queue' = [c \in Clients |->
                    IF c \notin subscribed THEN queue[c] ELSE Append(queue[c], event)]
    /\ subscribed' = subscribed
Publish_Oldest(event) ==
    /\ queue' = [c \in Clients |->
                    IF c \notin subscribed THEN queue[c]
                    ELSE IF Behind(c) THEN Append(Tail(queue[c]), event)
                    ELSE Append(queue[c], event)]
    /\ subscribed' = subscribed
Publish_Silent(event) ==
    /\ queue' = [c \in Clients |->
                    IF c \notin subscribed THEN queue[c]
                    ELSE IF Behind(c) THEN <<>> ELSE Append(queue[c], event)]
    /\ subscribed' = {c \in subscribed : ~Behind(c)}
Publish(event) ==
    /\ queue' = [c \in Clients |->
                    IF c \notin subscribed THEN queue[c]
                    ELSE IF Behind(c) THEN <<CLOSED>> ELSE Append(queue[c], event)]
    /\ subscribed' = {c \in subscribed : ~Behind(c)}

Init ==
    /\ sessions = [s \in Sessions |-> None] /\ history = <<sessions>>
    /\ subscribed = {} /\ queue = [c \in Clients |-> <<>>]
    /\ socket = [c \in Clients |-> "off"] /\ wire = [c \in Clients |-> <<>>]
    /\ answers = [c \in Clients |-> <<>>] /\ upload = [c \in Clients |-> None]
    /\ mirror = [c \in Clients |-> None] /\ seen = [c \in Clients |-> 0]
    /\ asked = [f \in Files |-> "no"] /\ arrived = {}
    /\ losses = 0 /\ refusals = 0

\* _emit: the record changes and the event is published in one step.
Emit(s, value) ==
    /\ Len(history) <= MaxChanges /\ sessions[s] # value
    /\ sessions' = [sessions EXCEPT ![s] = value]
    /\ history' = Append(history, sessions')
    /\ Publish([type |-> "session", session |-> s, state |-> value,
                moment |-> Len(history')])
    /\ UNCHANGED <<socket, wire, losses, refusals, files, view>>

-----------------------------------------------------------------------------
(***************************************************************************)
(* _run_socket.  The snapshot is taken as the queue is subscribed; it is   *)
(* sent before the sender starts, so no event overtakes it.                *)
(***************************************************************************)
Accept(c) ==
    /\ socket[c] = "off" /\ socket' = [socket EXCEPT ![c] = "greeting"]
    /\ subscribed' = subscribed \cup {c}
    /\ queue' = [queue EXCEPT ![c] = <<>>]
    /\ wire' = [wire EXCEPT ![c] = <<Snapshot>>]
    /\ answers' = [answers EXCEPT ![c] = <<>>]
    /\ UNCHANGED <<sessions, history, losses, refusals, upload, asked, arrived, view>>

Greeted(c) ==
    /\ socket[c] = "greeting" /\ socket' = [socket EXCEPT ![c] = "open"]
    /\ UNCHANGED <<sessions, history, subscribed, queue, wire, losses, refusals,
                   files, view>>

\* _send_events: a client that does not read makes the send wait; CLOSED ends it.
Send(c) ==
    /\ socket[c] \in {"open", "lost"} /\ queue[c] # <<>>
    /\ queue' = [queue EXCEPT ![c] = Tail(@)]
    /\ IF socket[c] = "lost" THEN UNCHANGED wire
       ELSE Len(wire[c]) < Window /\ wire' = [wire EXCEPT ![c] = Append(@, Head(queue[c]))]
    /\ socket' = [socket EXCEPT ![c] = IF Head(queue[c]) = CLOSED THEN "closing" ELSE @]
    /\ UNCHANGED <<sessions, history, subscribed, losses, refusals, files, view>>

\* A frame that names no action is refused, through the client's own queue.
Refuse(c) ==
    /\ socket[c] \in {"open", "closing"} /\ refusals < MaxRefusals
    /\ refusals' = refusals + 1
    /\ queue' = [queue EXCEPT ![c] = IF Behind(c) THEN @ ELSE Append(@, Refusal)]
    /\ UNCHANGED <<sessions, history, subscribed, socket, wire, losses, files, view>>

\* The connection is lost; until the daemon notices, it goes on sending.
Lose(c) ==
    /\ socket[c] \in {"greeting", "open"} /\ losses < MaxLosses /\ losses' = losses + 1
    /\ socket' = [socket EXCEPT ![c] = "lost"]
    /\ wire' = [wire EXCEPT ![c] = <<>>] /\ answers' = [answers EXCEPT ![c] = <<>>]
    /\ UNCHANGED <<sessions, history, subscribed, queue, refusals, upload, asked,
                   arrived, view>>

\* The end of _run_socket: the queue is unsubscribed, the sender cancelled.
Disconnected(c) ==
    /\ socket[c] \in {"lost", "closing"} /\ wire[c] = <<>>
    /\ socket' = [socket EXCEPT ![c] = "off"]
    /\ subscribed' = subscribed \ {c} /\ queue' = [queue EXCEPT ![c] = <<>>]
    /\ UNCHANGED <<sessions, history, wire, losses, refusals, files, view>>

-----------------------------------------------------------------------------
(***************************************************************************)
(* A client reads one message at a time, and reads nothing while it sends  *)
(* a file.                                                                 *)
(***************************************************************************)
Read(c) ==
    /\ upload[c] = None /\ wire[c] # <<>>
    /\ wire' = [wire EXCEPT ![c] = Tail(@)]
    /\ LET message == Head(wire[c]) IN
       /\ mirror' = [mirror EXCEPT ![c] =
              CASE message.type = "snapshot" -> message.sessions
                [] message.type = "session" -> [@ EXCEPT ![message.session] = message.state]
                [] OTHER -> @]
       /\ seen' = [seen EXCEPT ![c] =
              IF message.type = "closed" THEN @ ELSE message.moment]
       /\ upload' = [upload EXCEPT ![c] =
              IF message.type = "attachment" THEN message.file ELSE @]
    /\ UNCHANGED <<sessions, history, subscribed, queue, socket, losses, refusals,
                   answers, asked, arrived>>

(***************************************************************************)
(* attach: the daemon asks whoever listens, and waits for the answer.      *)
(***************************************************************************)
Attach(f) ==
    /\ asked[f] = "no"
    /\ IF subscribed = {}
       THEN asked' = [asked EXCEPT ![f] = "failed"] /\ UNCHANGED <<subscribed, queue>>
       ELSE /\ asked' = [asked EXCEPT ![f] = "waiting"]
            /\ Publish([type |-> "attachment", file |-> f, moment |-> Len(history)])
    /\ UNCHANGED <<sessions, history, socket, wire, losses, refusals, answers, upload,
                   arrived, view>>

\* _deliver_attachment: an upload that fails may have arrived all the same; the
\* answer goes over the socket, if there is one.
Confirmed_Always(here, ok) == TRUE
Confirmed(here, ok) == ok

Upload(c) ==
    \E here, ok \in BOOLEAN :
        /\ upload[c] # None /\ (ok => here)
        /\ upload' = [upload EXCEPT ![c] = None]
        /\ arrived' = IF here THEN arrived \cup {upload[c]} ELSE arrived
        /\ answers' = IF socket[c] \in {"open", "closing"}
                      THEN [answers EXCEPT ![c] =
                               Append(@, [file |-> upload[c], ok |-> Confirmed(here, ok)])]
                      ELSE answers
        /\ UNCHANGED <<sessions, history, stream, asked, view>>

\* resolve_attachment; an answer that comes late is nobody's.
Resolve(c) ==
    /\ answers[c] # <<>> /\ answers' = [answers EXCEPT ![c] = Tail(@)]
    /\ LET answer == Head(answers[c]) IN
       asked' = IF asked[answer.file] # "waiting" THEN asked
                ELSE [asked EXCEPT ![answer.file] = IF answer.ok THEN "delivered" ELSE "failed"]
    /\ UNCHANGED <<sessions, history, stream, upload, arrived, view>>

\* ATTACHMENT_TIMEOUT.
TimeOut(f) ==
    /\ asked[f] = "waiting" /\ asked' = [asked EXCEPT ![f] = "timed out"]
    /\ UNCHANGED <<sessions, history, stream, answers, upload, arrived, view>>

-----------------------------------------------------------------------------
Next ==
    \/ \E s \in Sessions, value \in States \cup {None} : Emit(s, value)
    \/ \E c \in Clients :
          \/ Accept(c) \/ Greeted(c) \/ Send(c) \/ Refuse(c) \/ Lose(c)
          \/ Disconnected(c) \/ Read(c) \/ Upload(c) \/ Resolve(c)
    \/ \E f \in Files : Attach(f) \/ TimeOut(f)

Spec == Init /\ [][Next]_vars

\* The tasks of the daemon run when they can, a client reads what it is sent and
\* connects again, and an upload comes to an end.  Nothing obliges a session to
\* change, a connection to break or a file to be attached.
FairSpec ==
    /\ Spec
    /\ \A c \in Clients :
          /\ WF_vars(Accept(c)) /\ WF_vars(Greeted(c)) /\ WF_vars(Send(c))
          /\ WF_vars(Disconnected(c)) /\ WF_vars(Read(c)) /\ WF_vars(Upload(c))

-----------------------------------------------------------------------------
(***************************************************************************)
(* Properties.                                                             *)
(***************************************************************************)
TypeOK ==
    /\ sessions \in [Sessions -> States \cup {None}]
    /\ subscribed \subseteq Clients
    /\ \A c \in Clients :
          /\ Len(queue[c]) <= Bound /\ Len(wire[c]) <= Window
          /\ socket[c] \in {"off", "greeting", "open", "closing", "lost"}
          /\ mirror[c] = None \/ mirror[c] \in [Sessions -> States \cup {None}]
          /\ upload[c] \in Files \cup {None}
    /\ asked \in [Files -> {"no", "waiting", "delivered", "failed", "timed out"}]
    /\ arrived \subseteq Files

\* A client that keeps up, falls behind, is dropped, loses its connection or comes
\* back shows the sessions as they were at one moment, and never an earlier one.
Reflection == INSTANCE WorldView WITH shown <- mirror, moment <- seen
PureReflection == Reflection!Spec

\* Once the sessions change no more, every client comes to show them as they are:
\* one that was dropped included, for it is told (events.py 8-14, server.py 355-362).
\* (The model's sessions change at most MaxChanges times.)
CatchesUp == \A c \in Clients : <>[](mirror[c] = sessions)

\* `attach` says that a file was delivered only if it is in the chat, however late,
\* lost or contradictory the answers (coordinator.py 863-912).
DeliveredArrived == \A f \in Files : asked[f] = "delivered" => f \in arrived

=============================================================================
