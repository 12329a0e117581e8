---------------------------- MODULE TelegramTurns ----------------------------
(***************************************************************************)
(* The Telegram bot's turns (bot.py): what is typed in a session's chat,   *)
(* forwarded or queued, carried to the daemon as a prompt, and the reply   *)
(* that comes back as events, is posted, and is accounted for in           *)
(* turns.json, across the loss of the connection, a restart of the bot and *)
(* a restart of the daemon.                                                *)
(*                                                                         *)
(* One session.  Others touch it in one way only: they write the map too   *)
(* (OthersPersist).  Two tasks of the bot take steps from one await to the *)
(* next: the connection's, which settles the map and then handles events,  *)
(* and the poll's.  The daemon is as much of SessionCoordinator as a       *)
(* client can tell apart.                                                  *)
(*                                                                         *)
(* Typed messages are numbered.  The n-th piece of text of the daemon's    *)
(* k-th turn is <<k, n>>.                                                  *)
(***************************************************************************)
EXTENDS Naturals, SequencesExt

CONSTANTS
    MaxMessages,  \* typed by the user
    MaxChunks,    \* pieces of text in a turn
    MaxFaults,    \* how many faults happen
    Ops,          \* commands, and "tool" for tool calls
    Faults,       \* what goes wrong
    None          \* Python's None

AllOps == {"stop", "unqueue", "fullstop", "tool"}
AllFaults == {"drop", "exit", "daemon", "refuse"}

ASSUME TurnsAssumption ==
    /\ MaxMessages \in Nat /\ MaxChunks \in Nat
    /\ MaxFaults \in Nat
    /\ Ops \subseteq AllOps /\ Faults \subseteq AllFaults

VARIABLES
    \* the daemon
    state,     \* of the session; "ready" is the idle between a resume and its turn
    prompt,    \* what is to be sent once the session has started
    asked,     \* the transcript: the prompt of every turn ...
    said,      \* ... and how much the agent said in it
    ending,    \* the turn has been cancelled
    frames,    \* prompts on their way to the daemon
    stream,    \* events on their way to the bot
    link,      \* the websocket is up
    \* the bot
    at,        \* where the connection's task is
    turn,      \* self._turns: the turn that is carried
    queue,     \* self._queues: what was typed during it
    dirty,     \* self._turns_dirty
    leaving,   \* the turn being finished, or the entry being recovered
    disk,      \* turns.json
    poll,      \* where the poll's task is
    offset,    \* the last update handled
    fetched,   \* the last update received
    \* Telegram
    typed,     \* messages typed, when last asked
    confirmed, \* the last update that will not be delivered again
    posted,    \* the text of the replies in the chat
    \* ghosts
    noted,     \* text that was shown as narration, or whose loss was reported
    dropped,   \* messages the user took back
    faults     \* how many faults have happened

daemon == <<state, prompt, asked, said, ending>>
wire == <<frames, stream, link>>
memory == <<at, turn, queue, dirty, leaving, poll, offset, fetched>>
chat == <<typed, confirmed, posted>>
ghosts == <<noted, dropped, faults>>
vars == <<daemon, wire, memory, disk, chat, ghosts>>

-----------------------------------------------------------------------------
Current == Len(asked)
Text(k) == IF k = 0 THEN <<>> ELSE [n \in 1..said[k] |-> <<k, n>>]

\* _turn_text_from_transcript: what the agent said after the last prompt.
Remainder(consumed) == SubSeq(Text(Current), consumed + 1, Len(Text(Current)))

(***************************************************************************)
(* A turn, and what the map on disk says of it.                            *)
(***************************************************************************)
Prompts == Seq(Nat)
Chunks == Nat \X Nat

Turns ==
    [of : Prompts, consumed : Nat, delivered : BOOLEAN, parts : Seq(Chunks),
     lines : Seq(Chunks), working : BOOLEAN, adopted : BOOLEAN]

Entries ==
    [of : Prompts, consumed : Nat, delivered : BOOLEAN, lines : Seq(Chunks),
     queued : Seq(Prompts)]

ASSUME NoneAssumption == None \notin Turns \cup Entries \cup Prompts

NewTurn(messages) ==
    [of |-> messages, consumed |-> 0, delivered |-> FALSE, parts |-> <<>>,
     lines |-> <<>>, working |-> FALSE, adopted |-> FALSE]

\* _persist_turns: the entry of turn t with queue q.
Entry_NoQueue(t, q) ==
    IF t = None THEN None
    ELSE [of |-> t.of, consumed |-> t.consumed, delivered |-> t.delivered,
          lines |-> t.lines, queued |-> <<>>]
Entry(t, q) ==
    IF t = None THEN None
    ELSE [of |-> t.of, consumed |-> t.consumed, delivered |-> t.delivered,
          lines |-> t.lines, queued |-> q]

Adopted(e) ==
    [of |-> e.of, consumed |-> e.consumed, delivered |-> e.delivered,
     parts |-> <<>>, lines |-> e.lines, working |-> TRUE, adopted |-> TRUE]

Persist == disk' = Entry(turn', queue') /\ dirty' = FALSE

\* _flush_queue joins what was queued into one prompt.
Messages_First(q) == IF q = <<>> THEN <<>> ELSE Head(q)
Messages(q) == FlattenSeq(q)

Tell(events) == stream' = IF link = "up" THEN stream \o events ELSE stream

Event(type) == [type |-> type]
Started == <<Event("started"), Event("working")>>
Ended(k) == <<[type |-> "ended", turn |-> k, cancelled |-> ending], Event("idle")>>

\* _forward with q the queue: into the queue of the turn that runs, or as a
\* turn of its own, whose prompt is lost if the socket is.
Forward_Anyway(messages, q) ==
    /\ turn' = NewTurn(messages)
    /\ queue' = q
    /\ frames' = IF link = "up" THEN Append(frames, messages) ELSE frames
    /\ Persist
Forward(messages, q) ==
    /\ IF turn # None
       THEN turn' = turn /\ queue' = Append(q, messages) /\ frames' = frames
       ELSE /\ turn' = NewTurn(messages)
            /\ queue' = q
            /\ frames' = IF link = "up" THEN Append(frames, messages) ELSE frames
    /\ Persist

\* _flush_queue, of queue q, and where its task is then.
Flush(q) ==
    IF q = <<>>
    THEN /\ queue' = q
         /\ at' = "handling"
         /\ UNCHANGED <<turn, frames>>
         /\ Persist
    ELSE /\ Forward(Messages(q), <<>>)
         /\ at' = IF turn = None /\ link = "up" THEN "progress" ELSE "handling"

StartPoll ==
    /\ poll' = IF poll = "off" THEN "fetching" ELSE poll
    /\ UNCHANGED <<offset, fetched>>

\* The next poll starts from what Telegram takes to be confirmed.
StopPoll == poll' = "off" /\ offset' = confirmed /\ fetched' = confirmed

Init ==
    /\ state = "stored" /\ prompt = None /\ asked = <<>> /\ said = <<>>
    /\ ending = FALSE
    /\ frames = <<>> /\ stream = <<>> /\ link = "down"
    /\ at = "down" /\ turn = None /\ queue = <<>> /\ dirty = FALSE
    /\ leaving = None /\ disk = None
    /\ poll = "off" /\ offset = 0 /\ fetched = 0
    /\ typed = 0 /\ confirmed = 0 /\ posted = <<>>
    /\ noted = {} /\ dropped = {} /\ faults = 0

-----------------------------------------------------------------------------
(***************************************************************************)
(* The daemon.                                                             *)
(***************************************************************************)
Fault(kind) == kind \in Faults /\ faults < MaxFaults /\ faults' = faults + 1

\* AgentSession.send: the prompt is recorded, the turn announced.
BeginTurn(messages) ==
    /\ asked' = Append(asked, messages) /\ said' = Append(said, 0)
    /\ state' = "working" /\ ending' = FALSE /\ prompt' = None
    /\ Tell(Started)

Asked(messages) ==
    \/ state = "idle" /\ BeginTurn(messages)
    \/ /\ state = "stored"
       /\ state' = "starting" /\ prompt' = messages
       /\ UNCHANGED <<asked, said, ending, stream>>

\* A prompt of the bot's is taken; while a turn runs it is refused, with a
\* notice that the bot does not show.
Accept ==
    /\ frames # <<>> /\ frames' = Tail(frames)
    /\ \/ Asked(Head(frames))
       \/ state = "working" /\ UNCHANGED <<daemon, stream>>
    /\ UNCHANGED <<link, memory, disk, chat, ghosts>>

Resumed ==
    /\ state = "starting" /\ state' = "ready"
    /\ Tell(<<Event("idle")>>)
    /\ UNCHANGED <<prompt, asked, said, ending, frames, link, memory, disk, chat, ghosts>>

Prompted ==
    /\ state = "ready" /\ BeginTurn(prompt)
    /\ UNCHANGED <<frames, link, memory, disk, chat, ghosts>>

\* The agent says something, and may then call a tool.
Say ==
    /\ state = "working" /\ said[Current] < MaxChunks
    /\ said' = [said EXCEPT ![Current] = @ + 1]
    /\ \E tail \in {<<>>} \cup (IF "tool" \in Ops THEN {<<Event("tool")>>} ELSE {}) :
          Tell(<<[type |-> "text", chunk |-> <<Current, said'[Current]>>]>> \o tail)
    /\ UNCHANGED <<state, prompt, asked, ending, frames, link, memory, disk, chat, ghosts>>

TurnEnds ==
    /\ state = "working" /\ state' = "idle" /\ Tell(Ended(Current))
    /\ UNCHANGED <<prompt, asked, said, ending, frames, link, memory, disk, chat, ghosts>>

Evicted ==
    /\ state = "idle" /\ state' = "stored"
    /\ UNCHANGED <<prompt, asked, said, ending, wire, memory, disk, chat, ghosts>>

(***************************************************************************)
(* What goes wrong.  Of what was on its way, some has arrived.             *)
(***************************************************************************)
Cut(s) == {SubSeq(s, 1, n) : n \in 0..Len(s)}

Drop ==
    /\ link = "up" /\ link' = "down" /\ Fault("drop")
    /\ stream' \in Cut(stream) /\ frames' \in Cut(frames)
    /\ UNCHANGED <<daemon, memory, disk, chat, noted, dropped>>

DaemonDies ==
    /\ Fault("daemon")
    /\ state' = "stored" /\ prompt' = None /\ ending' = FALSE
    /\ link' = "down" /\ stream' \in Cut(stream) /\ frames' = <<>>
    /\ UNCHANGED <<asked, said, memory, disk, chat, noted, dropped>>

Exit ==
    /\ at # "down" /\ Fault("exit")
    /\ link' = "down" /\ stream' = <<>> /\ frames' \in Cut(frames)
    /\ at' = "down" /\ turn' = None /\ queue' = <<>> /\ dirty' = FALSE
    /\ leaving' = None /\ StopPoll
    /\ UNCHANGED <<daemon, disk, chat, noted, dropped>>

-----------------------------------------------------------------------------
(***************************************************************************)
(* A connection: the map is settled before the loops start.                *)
(***************************************************************************)
Connect ==
    /\ at = "down" /\ at' = "joining"
    /\ link' = "up" /\ stream' = <<>>
    /\ UNCHANGED <<daemon, frames, turn, queue, dirty, leaving, poll, offset, fetched,
                   disk, chat, ghosts>>

\* No map; or the daemon does not answer, and it is left as it is.
NothingToSettle ==
    /\ at = "joining" /\ (disk = None \/ ("daemon" \in Faults /\ link = "down"))
    /\ at' = "handling" /\ StartPoll
    /\ UNCHANGED <<daemon, wire, turn, queue, dirty, leaving, disk, chat, ghosts>>

\* _adopt_turn: the daemon says that the turn still runs.
Adopt ==
    /\ at = "joining" /\ disk # None /\ state \in {"starting", "working"}
    /\ turn' = Adopted(disk)
    /\ queue' = IF disk.queued = <<>> THEN queue ELSE disk.queued
    /\ Persist /\ at' = "handling" /\ StartPoll
    /\ UNCHANGED <<daemon, wire, leaving, chat, ghosts>>

FindEnded ==
    /\ at = "joining" /\ disk # None /\ state \notin {"starting", "working"}
    /\ leaving' = disk /\ at' = "recovering"
    /\ UNCHANGED <<daemon, wire, turn, queue, dirty, poll, offset, fetched, disk, chat, ghosts>>

\* _deliver_recovered_turn: what the transcript has and the chat has not.
Recover ==
    /\ at = "recovering" /\ at' = "recovered"
    /\ posted' = posted \o Remainder(leaving.consumed)
    /\ UNCHANGED <<daemon, wire, turn, queue, dirty, leaving, poll, offset, fetched,
                   disk, typed, confirmed, ghosts>>

\* Telegram refuses it, and the entry goes with its queue.
RecoveryRefused ==
    /\ at = "recovering" /\ "refuse" \in Faults
    /\ at' = "handling" /\ StartPoll
    /\ leaving' = None /\ UNCHANGED <<turn, queue>> /\ Persist
    /\ UNCHANGED <<daemon, wire, chat, ghosts>>

Recovered ==
    /\ at = "recovered" /\ leaving' = None
    /\ Flush(IF leaving.queued = <<>> THEN queue ELSE leaving.queued)
    /\ IF at' = "handling" THEN StartPoll ELSE UNCHANGED <<poll, offset, fetched>>
    /\ UNCHANGED <<daemon, stream, link, chat, ghosts>>

-----------------------------------------------------------------------------
(***************************************************************************)
(* _receive_events: one event at a time.                                   *)
(***************************************************************************)
Receives(type) ==
    /\ at = "handling" /\ stream # <<>> /\ Head(stream).type = type
    /\ stream' = Tail(stream)

TextReceived ==
    /\ Receives("text")
    /\ turn' = IF turn = None THEN None
               ELSE [turn EXCEPT !.parts = Append(@, Head(stream).chunk)]
    /\ UNCHANGED <<daemon, frames, link, at, queue, dirty, leaving, poll, offset, fetched,
                   disk, chat, ghosts>>

\* _close_block: the text before a tool call was narration.
CloseBlock(t) ==
    [t EXCEPT !.parts = <<>>, !.lines = @ \o t.parts, !.consumed = @ + Len(t.parts)]

ToolCalled ==
    /\ Receives("tool")
    /\ IF turn = None \/ turn.parts = <<>>
       THEN UNCHANGED <<turn, dirty, noted>>
       ELSE /\ turn' = CloseBlock(turn)
            /\ dirty' = TRUE
            /\ noted' = noted \cup ToSet(turn.parts)
    /\ UNCHANGED <<daemon, frames, link, at, queue, leaving, poll, offset, fetched,
                   disk, chat, dropped, faults>>

TurnStarted ==
    /\ Receives("started")
    /\ IF turn = None THEN UNCHANGED <<turn, queue, dirty, disk>>
                      ELSE UNCHANGED <<turn, queue>> /\ Persist
    /\ UNCHANGED <<daemon, frames, link, at, leaving, poll, offset, fetched, chat, ghosts>>

Working ==
    /\ Receives("working")
    /\ turn' = IF turn = None THEN None ELSE [turn EXCEPT !.working = TRUE]
    /\ UNCHANGED <<daemon, frames, link, at, queue, dirty, leaving, poll, offset, fetched,
                   disk, chat, ghosts>>

\* _finish_turn takes the turn off the map, and the rest follows.
TakeTurn_Late(cancelled) ==
    leaving' = [turn |-> turn, cancelled |-> cancelled] /\ turn' = turn
TakeTurn(cancelled) ==
    leaving' = [turn |-> turn, cancelled |-> cancelled] /\ turn' = None

Finish(cancelled) ==
    /\ IF turn = None
       THEN /\ UNCHANGED <<at, turn, queue, leaving>> /\ Persist
       ELSE /\ TakeTurn(cancelled) /\ at' = "closing"
            /\ UNCHANGED <<queue, dirty, disk>>
    /\ UNCHANGED <<daemon, frames, link, poll, offset, fetched, chat, ghosts>>

TurnEnded == Receives("ended") /\ Finish(Head(stream).cancelled)

\* The idle of a resume comes before the turn: a turn ends only if it began.
Began_Always(t) == TRUE
Began(t) == t.working \/ t.parts # <<>>

Idle ==
    /\ Receives("idle")
    /\ IF turn = None \/ Began(turn)
       THEN Finish(FALSE)
       ELSE UNCHANGED <<daemon, frames, link, memory, disk, chat, ghosts>>

(***************************************************************************)
(* The rest of _finish_turn, between its awaits.                           *)
(***************************************************************************)
\* The refresh loops have settled.  An adopted turn has not seen all of its
\* text; the transcript has, if the daemon can be reached.
Close ==
    /\ at = "closing" /\ at' = "replying"
    /\ \/ /\ leaving.turn.adopted
          /\ leaving' = [leaving EXCEPT !.turn.parts = Remainder(leaving.turn.consumed)]
       \/ (~leaving.turn.adopted \/ "daemon" \in Faults) /\ UNCHANGED leaving
    /\ UNCHANGED <<daemon, wire, turn, queue, dirty, poll, offset, fetched, disk, chat, ghosts>>

\* _send_reply: the text since the last tool call, or the last of the narration.
Answer(t) ==
    IF t.parts # <<>> \/ t.lines = <<>> THEN t.parts ELSE <<Last(t.lines)>>

Reported ==
    /\ at' = "reporting"
    /\ UNCHANGED <<turn, queue>> /\ Persist

Reply ==
    /\ at = "replying" /\ Answer(leaving.turn) # <<>>
    /\ posted' = posted \o Answer(leaving.turn)
    /\ leaving' = None
    /\ Flush(queue)
    /\ UNCHANGED <<daemon, stream, link, poll, offset, fetched, typed, confirmed, ghosts>>

\* Nothing to say, or nothing that Telegram would take: the chat is told,
\* unless the turn was cancelled.
NoReply ==
    /\ at = "replying" /\ (Answer(leaving.turn) = <<>> \/ "refuse" \in Faults)
    /\ leaving' = None
    /\ IF leaving.cancelled
       THEN Flush(queue) /\ UNCHANGED noted
       ELSE /\ Reported /\ UNCHANGED frames
            /\ noted' = noted \cup ToSet(Answer(leaving.turn))
    /\ UNCHANGED <<daemon, stream, link, poll, offset, fetched, chat, dropped, faults>>

Report ==
    /\ at = "reporting" /\ Flush(queue)
    /\ UNCHANGED <<daemon, stream, link, leaving, poll, offset, fetched, chat, ghosts>>

\* The progress message of the turn that _forward has started.
Progress ==
    /\ at = "progress" /\ at' = "handling" /\ StartPoll
    /\ UNCHANGED <<turn, queue>> /\ Persist
    /\ UNCHANGED <<daemon, wire, leaving, chat, ghosts>>

\* The stream has ended: _reset_connection_state.
Forget_Kept == turn' = turn /\ dirty' = FALSE
Forget == turn' = None /\ dirty' = FALSE

Reset ==
    /\ at = "handling" /\ link = "down" /\ stream = <<>>
    /\ disk' = IF dirty THEN Entry(turn, queue) ELSE disk
    /\ at' = "down" /\ Forget /\ StopPoll
    /\ UNCHANGED <<daemon, wire, queue, leaving, chat, ghosts>>

\* The timer of _persist_turns_soon, or another session's turn.
OthersPersist ==
    /\ at \notin {"down", "joining"} /\ disk # Entry(turn, queue)
    /\ UNCHANGED <<turn, queue>> /\ Persist
    /\ UNCHANGED <<daemon, wire, at, leaving, poll, offset, fetched, chat, ghosts>>

-----------------------------------------------------------------------------
(***************************************************************************)
(* _poll_telegram and _handle_update.                                      *)
(***************************************************************************)
\* getUpdates, whose offset confirms what came before it.
Poll ==
    /\ poll = "fetching" /\ poll' = "waiting" /\ confirmed' = offset
    /\ UNCHANGED <<daemon, wire, at, turn, queue, dirty, leaving, offset, fetched,
                   disk, typed, posted, ghosts>>

\* What has been typed, by then.
Fetch ==
    /\ poll = "waiting" /\ poll' = "updating"
    /\ typed' \in typed..MaxMessages /\ fetched' = typed' /\ fetched' > offset
    /\ UNCHANGED <<daemon, wire, at, turn, queue, dirty, leaving, offset, disk,
                   confirmed, posted, ghosts>>

AfterUpdate(n) == IF n < fetched THEN "updating" ELSE "fetching"

\* A message in the session's chat.  A socket that is gone makes the poll
\* drop the update, and what it fetched is fetched again.
Update ==
    /\ poll = "updating" /\ offset < fetched /\ offset' = offset + 1
    /\ Forward(<<offset'>>, queue)
    /\ poll' = IF turn # None THEN AfterUpdate(offset')
               ELSE IF link = "down" THEN "fetching" ELSE "showing"
    /\ UNCHANGED <<daemon, stream, link, at, leaving, fetched, chat, ghosts>>

\* The progress message of the turn that Update has started.
Show ==
    /\ poll = "showing" /\ poll' = AfterUpdate(offset)
    /\ UNCHANGED <<turn, queue>> /\ Persist
    /\ UNCHANGED <<daemon, wire, at, leaving, offset, fetched, chat, ghosts>>

\* _stop_command.
DropQueue ==
    /\ queue' = <<>> /\ dropped' = dropped \cup ToSet(Messages(queue))
    /\ IF queue # <<>> THEN Persist ELSE UNCHANGED <<disk, dirty>>

CancelTurn == ending' = (ending \/ (turn # None /\ state = "working"))

Command(op) ==
    /\ op \in Ops /\ poll = "waiting" /\ UNCHANGED turn
    /\ UNCHANGED <<state, prompt, asked, said, wire, at, leaving, poll, offset,
                   fetched, chat, noted, faults>>

Stop == Command("stop") /\ CancelTurn /\ UNCHANGED <<queue, dropped, disk, dirty>>
Unqueue == Command("unqueue") /\ DropQueue /\ UNCHANGED ending
FullStop == Command("fullstop") /\ DropQueue /\ CancelTurn

-----------------------------------------------------------------------------
DaemonStep == Accept \/ Resumed \/ Prompted \/ Say \/ TurnEnds

ConnectionStep ==
    \/ Connect \/ NothingToSettle \/ Adopt \/ FindEnded \/ Recover \/ RecoveryRefused
    \/ Recovered \/ TextReceived \/ ToolCalled \/ TurnStarted \/ Working \/ TurnEnded
    \/ Idle \/ Close \/ Reply \/ NoReply \/ Report \/ Progress \/ Reset

PollStep == Poll \/ Update \/ Show

Next ==
    \/ DaemonStep \/ Evicted
    \/ Drop \/ DaemonDies \/ Exit
    \/ ConnectionStep \/ OthersPersist
    \/ Fetch \/ PollStep \/ Stop \/ Unqueue \/ FullStop

Spec == Init /\ [][Next]_vars

\* The event loops run what is ready, a connection that is lost is made
\* again, Telegram and the daemon answer, and a turn ends.
FairSpec ==
    /\ Spec /\ WF_vars(ConnectionStep) /\ WF_vars(PollStep)
    /\ WF_vars(Accept) /\ WF_vars(Resumed) /\ WF_vars(Prompted) /\ WF_vars(TurnEnds)

-----------------------------------------------------------------------------
(***************************************************************************)
(* Properties.                                                             *)
(***************************************************************************)
\* _finish_turn: the bot closes a turn only when the daemon's turn for the same
\* prompt has ended -- whatever turn_ended or idle it is told of (bot.py 3137-3174).
EndsItsOwnTurn ==
    [][turn # None /\ at = "handling" /\ at' = "closing" =>
          \E k \in DOMAIN asked :
              asked[k] = turn.of /\ (k < Current \/ state # "working")]_vars

\* A reply, live or recovered, is threaded to the prompt it answers (_send_reply,
\* _deliver_recovered_turn).
RepliesToItsPrompt ==
    [][posted' # posted =>
          \A n \in Len(posted) + 1..Len(posted') :
              asked[posted'[n][1]] =
                  (IF at = "replying" THEN leaving.turn.of ELSE leaving.of)]_vars

\* No part of a reply is delivered twice (_send_for_turn's "can never deliver one of
\* them twice", and the consumed offset of a recovery).
PostedOnce == IsInjective(posted)

\* A message that the bot has handled is queued, on its way, asked, or taken back by
\* the user: none disappears (_forward, _enqueue_message, _flush_queue).
NothingLost ==
    \A n \in 1..offset :
        \/ n \in dropped
        \/ \E messages \in ToSet(queue) \cup ToSet(frames) \cup ToSet(asked) \cup
                           ({prompt} \ {None}) : n \in ToSet(messages)

Quiet ==
    /\ at = "handling" /\ link = "up" /\ stream = <<>> /\ frames = <<>>
    /\ state \in {"stored", "idle"} /\ turn = None

\* Once everything has come to rest, what the agent said in the bot's turns is in the
\* chat, or the chat was told that it is not (_finish_turn, 3286-3316).
SaidIsShown ==
    Quiet => \A k \in DOMAIN asked :
                ToSet(Text(k)) \subseteq ToSet(posted) \cup noted

\* Every change of the turn or of its queue is on disk before the next await, except
\* what a tool call moved, which waits for the timer (_persist_turns, 1089-1095).
MapIsCurrent ==
    turn # None =>
        /\ disk # None /\ disk.of = turn.of /\ disk.queued = queue
        /\ ~dirty => disk.consumed = turn.consumed /\ disk.lines = turn.lines

\* A turn the bot carries does not stay on its map for ever: /stop and a resent
\* message would be queued behind it (3149-3174).
EveryTurnEnds == (turn # None) ~> (turn = None)

\* What the bot has received is asked, or taken back by the user.
EveryMessageAsked ==
    \A n \in 1..MaxMessages :
        (fetched >= n) ~> (n \in dropped \/ \E k \in DOMAIN asked : n \in ToSet(asked[k]))

=============================================================================
