# A verification of FalconFox's session daemon and its Telegram bot

TLA+ models of the FalconFox daemon (`src/falconfox`) and of its Telegram bot
(`src/falconfox_telegram`), the TLC runs that check them on small instances, and
theorems about them that TLAPS has proved for every instance. File and line
references are to the repository; `coordinator.py` is
`src/falconfox/coordinator.py`, `bot.py` is `src/falconfox_telegram/bot.py`.

    tlc -config pool_safety.cfg MCSessionCoordinator     # check a run of the pool
    tlc -config history_kept.cfg SessionHistory          # check a run of the store
    tlapm SessionCoordinatorProofs.tla                   # check the proofs
    tlapm SessionPoolProofs.tla
    tlapm SessionHistoryProofs.tla
    tlapm SessionDiskProofs.tla
    tlapm EventStreamProofs.tla
    tlapm TelegramTurnsProofs.tla
    tlapm TelegramTopicsProofs.tla
    tlapm DaemonLifecycleProofs.tla

## 1. The system

FalconFox is one asyncio process that owns *sessions*: a working directory, a
transcript, and, while the session is *live*, one agent subprocess speaking the
Agent Client Protocol. Clients (a CLI over HTTP, a Telegram bot over a
websocket) send actions and read a stream of events.

| Component | State it keeps | Operations | Talks to | Hard behaviour | What makes it correct |
|---|---|---|---|---|---|
| Session pool, `SessionCoordinator` (`coordinator.py`) | `_records`, `_slot_lock`, `_draining`, in-flight attachments | add, resume, send, cancel, stop, delete, revert, fork, rename, tags, options, attach, inbox | engine (awaits), store (synchronous writes), bus (publishes) | every action is a task; two levels of locks; awaits of any length inside transitions; a background drain | the cap holds; no deadlock; a turn is not destroyed by an eviction; a deleted session stays deleted; what waits for a slot gets one |
| Session record (`record.py`) | agent, state, lock, turn, queue fields, persisted, transcript cache, open turn | `live`, `keeps_state`, `wire`, `stored`, `release` | the pool and the store | what is on disk against what is in memory, across stop and restart | a stop keeps what a write saved; an interrupted turn is reported once; nothing is lost by dropping the cache |
| Engine session (`engine/session.py`) | connection, busy flag, turn statistics | start, resume, send, cancel, stop | the subprocess; emits into the pool | a turn's end runs as callbacks into the pool, at any await | one turn at a time; every turn that starts ends; `turn_ended` before `idle` |
| ACP client (`engine/client.py`) | none | translate updates, answer permissions | the engine | none | every update becomes one event; a permission request never hangs |
| Event bus (`engine/events.py`) | a bounded queue per subscriber | publish, subscribe, drop | the websocket senders | a slow reader; a drop in the middle of a publish; reconnect | a reader that is not dropped sees every event in order; publishing never blocks |
| Store (`storage.py`) | `meta.toml`, `transcript.jsonl`, inbox | write, append, rewrite, delete, load | the pool | a crash between two writes | a reload reads a state the session was in |
| Web server (`web/server.py`, `web/actions.py`) | sockets | run an action as a task; send events | pool, bus | detached websocket actions; snapshot and stream | a client is told of every refusal; no event between snapshot and stream is lost |
| Daemon lifecycle (`state.py`, `cli.py`) | `server.json`, run directories | start, find, stop, restart | processes, the bot's orientation | a file that says more, or less, than is true yet; a crash; a wait given up | the file names the daemon that runs; there is one; it finds what the bot left for it |
| Telegram bot, turns (`bot.py`) | turn map, message queues, `turns.json` | forward, queue, finish, flush, reconcile, `/stop` | daemon (HTTP, websocket), Bot API | two tasks; events that belong to another turn; reconnects and restarts | a message is not lost; a reply is posted once, whole, to its prompt |
| Telegram bot, topics (`bot.py`) | topics, titles, `topics.json` | create, retitle, replace, remove, reconcile | daemon, Bot API | a reconciler beside the event handlers; calls cut off halfway | one topic per session, with its title |
| Telegram bot, files (`bot.py`) | a tray of received files | send a file, answer for it | daemon, Bot API | a late or second answer | delivered means delivered |
| Shell jobs, watchdog | running jobs; a heartbeat | run, cancel; beat, report | bot; event loop | timeouts | a job ends once; a stall is reported |
| Configuration, help, log set-up, echo backend, rendering, deployment, browser UI | none that matters | | | | not modelled: parsing, text and scripts; the browser UI is dead code |

Three kinds of interaction are hard. Inside the daemon, a client action holds
locks across awaits while engine callbacks, other actions and the drain change the
same records. Between the daemon and its clients there is a stream that may be cut
and a snapshot that stands in for what was missed. And the bot keeps, of what it
cannot ask again, its own record on disk.

## 2. The modules

| Module | Stands for |
|---|---|
| `SessionPool` | The abstract specification: what the pool promises of each session's phase, without locks, tasks or waiting list. |
| `SessionCoordinator` | The pool as the code implements it: every await is a step boundary. |
| `MCSessionCoordinator` | Symmetry for TLC. |
| `SessionCoordinatorProofs` | Theorems about `SessionCoordinator`: types, the cap, and its locks, which exclude and do not deadlock. |
| `SessionPoolProofs` | Theorems about its sessions: evictions, turns, the waiting list, and that it implements `SessionPool`. |
| `SessionHistory` | What a session remembers: the record in memory, its two files, and what its agent has been told; every write, crash, shutdown and restart. |
| `SessionHistoryProofs` | Theorems about `SessionHistory`: what is kept, and what is removed. |
| `SessionDiskProofs` | More of them: what is on disk, and what the agent knows. |
| `WorldView` | The abstract specification of the event stream: what a client may show of the sessions, without queues, snapshots or connections. |
| `EventStream` | The bus, the websocket and its client as the code has them, and the delivery of a file. |
| `EventStreamProofs` | Theorems about `EventStream`, that it implements `WorldView` among them. |
| `TelegramTurns` | The bot's turns: a message typed in a chat, its prompt, the reply, and `turns.json`. |
| `TelegramTurnsProofs` | Theorems about `TelegramTurns`: types, the map on disk, and what becomes of a message and its reply. |
| `TelegramTopics` | The bot's topics, which mirror the daemon's sessions. |
| `TelegramTopicsProofs` | Theorems about `TelegramTopics`: types, the lock, one topic for a session, titles, and what a connection settles. |
| `DaemonLifecycle` | The processes that find each other through `server.json` and the run directories. |
| `DaemonLifecycleProofs` | Theorems about `DaemonLifecycle`. |

`SessionCoordinator` and `SessionHistory` are two views of the same transitions.
The first has the tasks, the locks and the slots, and of the record only whether
there is something to keep; the second has the contents of the record and the
disk, and takes from the first that the transitions of one session exclude each
other (`OneTransitionAtATime`) and that turns run beside them. Which sessions may
be live it leaves open, so what holds in it holds for every choice of the pool.

### SessionCoordinator

*Processes.* `Clients` are the tasks of client actions (`_invoke` and `_spawn` in
`web/server.py`), one action at a time each; `Drain` is the task of
`_drain_queue`. `pc[t]` is the await a task is at:

| `pc` | The task is in |
|---|---|
| `slot`, `lock`, `evicting` | `async with` on the slot lock, on its session's lock, on its victim's lock |
| `settling` | `asyncio.wait({turn})` in `_settle_turn` |
| `closing` | `await agent.stop()` |
| `launching` | `await agent.start()` / `resume()` |
| `ready` | `_apply_config_options` |
| `begin`, `overlap` | `asyncio.sleep(0)` in `_begin_turn`; `overlap` when `running` was true |
| `turn`, `woken` | `asyncio.wait({turn})` in `send`, before and after the turn's end |
| `telling` | `await agent.cancel()` |
| `ret`, `raise` | about to return, or to raise, through the `async with` blocks |
| `off`, `scheduled` | no drain; a drain created and not yet run |

*State.* `records`, `live`, `state`, `keeps` (`keeps_state`), `ephemeral`,
`waiting` (the records with `queued`, ordered by `queued_since`), `queuedText`,
`turnHandle` (`record.turn` is the running turn), `engineTurn` (`_busy`, and
whether its task has been cancelled), `slotLock` and `lock` (asyncio locks are
FIFO, so each is the queue of the tasks that asked, its head the holder),
`born` (ids handed out), and per task `req`, `victim`, `todo` (what the drain
iterates over).

*Actions.* `Request` is a new client action up to its first await;
`SlotGranted`, `LockGranted` and `VictimLocked` are what follows the grant of a
lock, including the second look of `_locked`; `Settled`, `Closed`, `LaunchOk`,
`LaunchFails`, `Ready`, `FirstStep`, `Told` and `Return` continue a task after
each other await; `TurnEnds` is the `finally` of `AgentSession.send`, with the
idle event that may schedule a drain; `DrainStart`, `DrainReturns` and
`DrainCatches` are the loop of `_drain_queue`. Operators used by several
handlers carry their names: `EnsureSlot`, `Enqueue`, `Without` (`_dequeue`),
`Settle` (`_settle_turn`), `TearDown` (`_stop_locked`, `_delete_locked`, the
middle of `revert_session`), `Activate`.

*Abstractions.* The victim of an eviction is any idle session, not the least
recently used one, so what holds here holds for any choice of victim. Message
contents are model values. `Refuse` stands for both refusals of
`_resume_locked` (no directory, no backend) and may happen at any time. A
revert's choice of event is nondeterministic. The events themselves are not
modelled, except for the idle event's effect. Closing a connection is assumed to
fail the prompt that runs on it, so that no turn outlives `agent.stop()`; this
is the behaviour of the ACP library, outside the repository. A transition that
raises on an I/O error of the store is not modelled.

### SessionPool and the refinement

`SessionPool` gives every session a phase: unborn, stored, starting, idle,
working, gone. A session starts only where there is room; only its own start
decides what becomes of a starting session; gone is final. The mapping at the
end of `SessionCoordinator` computes the phase from `live`, `state`, `records`
and from whether an `add` is still on its way to `_records`, and `PoolSpec` is
checked as a property of the detailed specification and proved of it
(`SessionPoolProofs`).

### SessionHistory

*State in memory.* `rec[s]` is the `SessionRecord` (`None` when it is not in
`_records`): `named`, `ephemeral`, `persisted`, `oriented`, the cached
`transcript` (`None` until it is read), `acp` (the id of the backend's own
history), `openTurn` (`turn_open`, and `owed` when a restart has found it set),
`pending` (`pending_context` holds the replay of the transcript). `live` is which
records have an agent, `stage` and `ending` the transition a session is in,
`turn` the engine's turn, `handled` whether `record.turn` is that turn.

*State on disk.* `meta[s]` is `meta.toml` as `stored` writes it; `file[s]` is
`transcript.jsonl`: its readable lines, and whether a crash has torn the last one.

*A step* is the code between two awaits. It changes memory at once and leaves
what it writes in `writes`, in the order of the code; `Flush` does the next
write. No other step is taken before `writes` is empty, since the code does not
yield, but `Crash` can come between any two writes and in the middle of one:
`meta.toml` and a rewritten transcript are replaced by a rename, so they are old
or new; an append may leave a torn line, which is skipped on reading together
with the line later appended behind it; an `rmtree` may have removed either file
first. Only the process dies: what was written is on disk, so a loss of power
with unsynced files is not covered.

*Actions and code.*

| Action | Code |
|---|---|
| `Create`, `Started`, `StartFails` | `add_session` up to, after and around `await agent.start()` |
| `Resume`, `Waits`, `Resumed`, `ResumeFails` | `_resume_locked` with native loading or a new backend session and a replay; `_enqueue` |
| `BeginTurn`, `Refused`, `Prompt`, `TurnEvent`, `TurnEnds` | `_begin_turn` and `AgentSession.send`: the parts owed, their events, `turn_started`; the prompt; what comes back; the `finally` |
| `Stop`, `Delete`, `Revert`, then `Settled`, `Closed` | `_settle_turn`, `release`, `await agent.stop()` and what each transition does after it |
| `Rename`, `ReadTranscript`, `Fork` | `rename_session`; `transcript` and `open_session`, which take no lock; `_fork_locked` |
| `Crash`, `Shutdown`, `Exit`, `Restart` | the process; `shutdown`; `load_persisted` with `_adopt_interrupted_turn` |

Operators carry the names of the code where there is one (`Persisted` is
`_persist_meta`, `Emitted` and `Marked` are the two halves of `_emit`, `Loaded`
is `_ensure_transcript`, `Keeps` is `keeps_state`, `Restored`, `Released`).

*Ghosts.* Four variables are in no file and no object, and no guard reads them
but a bound: `epoch` counts the rewrites of a transcript, and a backend id is
named for the epoch whose history it holds; `carried` is what the prompt of a
turn brings beside the user's words; `context` is the live sessions whose agent
knows the conversation; `cut` the turns that the end of a process cut off, until
a prompt tells the session. (`epoch` also bounds the reverts.)

*Abstractions.* An event is named for its kind: orientation, news of an
interrupted turn, the user's text, the agent's, and `notice` for every other
replayable event (tool calls, plans, token counts), which are the kinds that
`keeps_state`, `revert` and the properties tell apart. The two parts of an
orientation are one. A change of a config option when a session starts is an
await of its own in the code and part of `Started` and `Resumed` here; its
warning is kept. Whether a turn has its handle is nondeterministic, since that
race is the subject of `SessionCoordinator`. A connection that is closed fails
the prompt that runs on it.

### WorldView, EventStream and the refinement

*State.* `subscribed` and `queue` are the bus; `socket[c]` is where the
`_run_socket` of a client is (`greeting` while the snapshot is being sent, `open`,
`lost` when the connection is gone and the daemon has not noticed, `closing` when
the sender has ended); `wire[c]` is what was sent and not read, at most `Window`
messages, after which a send waits. The sessions are a function from ids to a
state, and a client's `mirror` is what it makes of the snapshot and the events.
For files: `asked[f]` is the future of an `attach`, `upload[c]` what a client is
sending to the chat, `answers[c]` the `attachment_result` frames on their way back.

| Action | Code |
|---|---|
| `Emit`, `Publish` | `_emit` (coordinator.py) and `EventBus.publish`: a full queue is emptied and its subscriber dropped, with `CLOSED` for it to find |
| `Accept`, `Greeted`, `Send`, `Refuse`, `Lose`, `Disconnected` | `_run_socket` and `_send_events`: subscription and snapshot in one step, the snapshot sent before the sender starts, a refused frame, the end of either task |
| `Read`, `Upload` | the client: one message at a time, none while it uploads |
| `Attach`, `Resolve`, `TimeOut` | `attach`, `resolve_attachment`, `ATTACHMENT_TIMEOUT` |

`WorldView` has a history of the sessions, and of each client what it shows and
which moment of the history that is; a look goes to the same moment or a later
one. `Reflection == INSTANCE WorldView WITH shown <- mirror, moment <- seen` (the
history is a variable of both), and `PureReflection`, its specification, is a
property of the run and a theorem.

*Ghosts.* `history` is what the sessions have been, `seen[c]` the moment of what a
client shows, and a message carries the moment of the history at which it was
made; `CLOSED`, which the code has as a constant, carries none.

### TelegramTurns

One session and its chat. The bot has two tasks: the connection's (`at`), which
settles the persisted map and then handles one event after another, and the poll's
(`poll`), which handles the user's messages. `turn` is the entry of `_turns`,
`queue` that of `_queues`, `disk` what `turns.json` has, `dirty` whether the timer
has yet to write; `leaving` is the turn that `_finish_turn` or the recovery is
working on between its awaits. The daemon is `state`, `asked` and `said` (the
transcript) and the events it emits: as much of `SessionCoordinator` as a client
can tell apart, the idle event between a resume and its turn included. `frames`
and `stream` are the two directions of the websocket.

| Action | Code |
|---|---|
| `Update`, `Show`, `Poll`, `Fetch` | `_handle_update` to `_forward`, the progress message, `_poll_telegram` with its offset |
| `TextReceived`, `ToolCalled`, `TurnStarted`, `Working`, `TurnEnded`, `Idle` | `_handle_event`, by the type of the event |
| `Close`, `Reply`, `NoReply`, `Report` | `_finish_turn`, `_send_reply`, `_flush_queue` |
| `Connect`, `NothingToSettle`, `Adopt`, `FindEnded`, `Recover`, `RecoveryRefused`, `Recovered`, `Reset` | a connection, `_reconcile_turns`, `_adopt_turn`, `_deliver_recovered_turn`, `_reset_connection_state` |
| `Stop`, `Unqueue`, `FullStop` | `_stop_command` and its two relatives |
| `OthersPersist` | `_persist_turns_soon`, and any other session's `_persist_turns`, which writes the whole map |
| `Drop`, `DaemonDies`, `Exit` | what goes wrong; of what was on its way, some prefix has arrived |

Text is in pieces `<<turn, n>>`; the wording of the progress message, usage and
activity are left out. What Telegram refuses is a choice.

### TelegramTopics

`names` is the daemon: a session's name is a number that only grows, so a title
that was given once is not given again. Two tasks, the events' and the
reconciler's, each have a `job`: what the task knew of a session when it came for
the lock, and where it is between the lock, the call to Telegram and the record of
it. `forum` is what Telegram has. `Changed` is a change of the daemon's sessions
with the event that tells of it; `OnAdded`, `OnUpdated`, `OnRemoved` and `OnReply`
with `Replace` are the handlers; `List`, `Orphan` and `ReconcileOne` are
`_reconcile_topics`; `TakeLock`, `Call` and `Record` are `_ensure_topic` and
`_apply_title`. `Drop` cancels both tasks where they are: a call that Telegram has
received is done, its record is not (`cut`).

### DaemonLifecycle

`stage[d]` is how far a daemon's process is: it chooses a port, prepares its run
directory, truncates and writes `server.json`, binds, serves, closes its socket,
removes `server.json` (whoever it names) and exits; a crash may come anywhere.
`cli[c]` is a command: `Find`, `Check` and `Clean` are `find_running_server`,
`Stop`, `Waited` and `Remove` are `stop_server` with `wait_for_exit`, `Spawn`,
`Started` and `GiveUp` are `_start_server` with `_wait_for_server`. The bot reads
the directory that `server.json` names and writes its orientation there
(`BotReads`, `BotWrites`), when it starts and on every connection. Between a
reading of `server.json` and what is done about it there is always a step.
`MaxSlow` bounds how often a wait is given up although its end is on its way;
`slow` counts them.

## 3. The runs

| Run | Instance | Shows | States |
|---|---|---|---|
| `pool_safety` | 2 sessions, 2 clients, the drain, cap 1, every action, 1 text | all safety invariants of the pool, and the refinement of `SessionPool` | 800 000 |
| `answered` | 2 sessions, 2 clients, cap 1; send, stop, cancel; fair event loop, turns may run for ever | every action is answered, or reaches its turn; a drain ends if turns do | 150 000 |
| `history_kept` | 1 session, every operation but fork, crashes and shutdowns, 2 restarts, 1 revert, 4 events | the files hold what the daemon knows; a stop and a delete are what they say; a turn that a crash cut off is reported; every agent that is prompted knows the conversation | 1 300 000 |
| `forks` | 2 sessions, revert and fork, 1 revert each, 2 events | a fork has a file of its own, and no live backend has a history that was rewritten | 570 000 |
| `bot_turns` | 3 messages, 1 piece of text a turn, tool calls, `/stop`, `/unqueue`, `/fullstop`; no faults | no message disappears; a reply is posted once, whole, to its prompt; only a turn that is over is closed; every message is asked | 48 000 |
| `bot_restarts` | 2 messages; one lost connection, exit of the bot, death of the daemon, any refusals | what is on disk is what the bot carries; no turn stays on the map for ever | 910 000 |
| `streams` | 2 clients, 2 sessions, bound 2, window 1, 2 changes, 1 loss, 1 refusal, 1 file | queues keep their bound; `WorldView` is implemented; every client catches up; delivered means delivered | 850 000 |
| `topics` | 2 sessions, 3 changes, 4 topics, 1 lost connection, deletions by hand | one topic a session; titles are remembered; a quiet connection settles; no task waits for ever | 160 000 |
| `lifecycle` | 1 shell, 3 commands, 3 daemons, 1 crash, 1 wait given up | the daemon that serves is found, is alone, and has its directory with the orientation in it; every command ends | 375 000 |

*Why the bounds are enough.*

The pool: with one slot and two sessions every activation of the second session
must evict or queue, so each branch of `_ensure_slot` is reached; two clients and
the drain are three tasks, enough for one to hold both locks, one to wait for the
slot and one for the victim. A session id is used once (`born`), so state spaces
are finite without further bounds. Symmetry in sessions and clients is used for
safety only. The cap itself is proved for every number of everything.

The store: nothing in it relates two sessions but a fork, so `history_kept` has one
session and `forks` two. `MaxEvents` is checked where a turn or a resume begins and
where the agent speaks, so transcripts grow a little beyond it: four is
orientation, the user's text, an answer and one event more, which leaves room for a
revert to cut in the middle and for a second turn after it; `forks` needs only
something to cut. `MaxRuns` is 2 because a turn interrupted in the run that
followed an interruption is the longest chain the marker has: open, owed, owed
again. One revert makes two epochs, which is all that a wrong one needs. A failed
prompt is not among the faults of `history_kept` because it loses what it carried
(section 4, `context_lost`); a turn still fails there when its connection is closed
under it.

The stream: a bound of two and a window of one put a client two events behind with
the third change, refusal or file; two clients are enough for one to be dropped
while the other is not, and for two answers to one file. The refinement and both
invariants are proved without bounds.

The bot's turns: of three messages, one is answered, one queued and one typed while
the queue is flushed. One fault is enough for each of the code's recoveries; two in
a row add nothing that the second, which starts from what is on disk, does not. Of
the properties of `bot_turns`, those about messages and replies are claimed without
faults only, because with them they fail (section 4).

Topics: three changes add, rename and remove a session, or add two and rename one;
one lost connection is two reconciliations. Four topics are two for each session,
so a second one, if it is made, is seen.

Lifecycle: with three daemons a restart can meet a successor that meets another
one. The properties that need it are claimed while no wait was given up (`slow =
0`): the deadlines of `state.py` and `cli.py` are seconds, the ends they wait for
are not theirs to bound. That every command ends is claimed in any case.

Deadlock is not checked because the systems may stop: when every session is
deleted and every id used, every restart spent, every message answered or every
command given, nothing is left to do; that no task of the pool waits in a circle is
the invariant `NoCircularWait`, and that everyone gets on is the liveness of each
module.

*Fairness.* In `SessionCoordinator`, `FairSpec` is weak fairness of each task and of
the drain, because the event loop runs every callback that is ready and asyncio
locks are FIFO; an agent is assumed to answer a start, a stop and a cancel; and
weak fairness of `TurnEnds` only for a turn that was cancelled or whose agent was
given up. It does *not* say that a turn ends by itself: `answered` holds with turns
that run for ever. `TurnsEnd` adds that, as the premise of `DrainEnds` and in
`TurnsEndSpec`, for what is said about the waiting list. `SessionHistory` has safety
properties only. In `EventStream` the tasks of the daemon run and a client reads,
reconnects (the bot's loop does, for ever) and finishes an upload; no session is
obliged to change. In `TelegramTurns` both tasks run, a connection is made again
and turns end. In `TelegramTopics` both tasks run, the daemon and Telegram answer,
and the lock is given strongly fairly to each task that asks: it is an asyncio
lock, whose waiters are served in order, so a task cannot be passed over for ever.
In `DaemonLifecycle` every process runs; nothing obliges anyone to give a command.

`Foo_Bar` beside a definition `Foo` is a faulty version of `Foo`; no specification
uses it. Each property of a run above is known to fail when one of these is put in
place.

## 4. Where the code and its comments disagree

With a run that ends in a counterexample:

| Run | The comment | What happens |
|---|---|---|
| `waiting_starts` | `coordinator.py:539`: "This starts as soon as one goes idle." | the idle event comes while a drain that has found no room is on its way out; nothing wakes the queue again |
| `reply_lost` | `bot.py:1126-1128`: the session gone "is the only case where the reply truly is lost -- and the only one that says so" | a bot that reconnects between a resume and the prompt it was for finds the session idle and drops the turn; the reply that then comes belongs to nobody, and nobody is told |
| `undiscovered` | `state.py:1-9`: `server.json` is there "so that subsequent CLI invocations can discover it" | the file is written before the port is bound; a command in between takes a live process whose port does not respond for a stale one, removes the file, and the daemon that then serves is not found again |

Seen with TLC while the modules were written, and not kept as runs:

| Where | The comment | What happens |
|---|---|---|
| `coordinator.py:859` | `record.py:118-120`: the handle lets a transition "end that turn and wait for it to be over" | `_begin_turn` decides whether a turn is running, then awaits, then sets the handle; a new turn behind a finishing one gets none, and a stop gives its agent up in the middle of it (three clients) |
| `coordinator.py:526` | `coordinator.py:838`: "Held, not lost." | a second message to a waiting session replaces the first; and a resume between the drain's resume and its turn leaves a held message that nobody sends |
| `coordinator.py:1208` | `coordinator.py:250-252`: "a restart mid-turn leaves a marker where it used to leave nothing at all" | a graceful shutdown closes the agents, the turns end in their `finally`, and `turn_ended` clears the marker on disk |
| `coordinator.py:850` (`context_lost`) | `coordinator.py:630-632`: "the conversation is replayed as context rather than lost" | `pending_context` is emptied when the prompt is built; if that prompt fails, the next one goes to an agent that knows nothing |
| `coordinator.py:681` | `record.py:206-209`: without both fields a session "would come back either unoriented forever or oriented as something it is not" | `oriented` is stored before the orientation is recorded; a daemon that dies in between, or a revert to before it, leaves a session that counts as oriented with no orientation in its history |
| `coordinator.py:1055` | `coordinator.py:1047-1048`: the backend's own session id goes "since what it would load is the history being rewritten" | the transcript is rewritten before the metadata; a daemon that dies in between comes back with the short transcript and the id of the full history |
| `bot.py:3156` | `bot.py:3149-3155`: an idle before the turn has begun is the resume's | a turn adopted while its session was still starting counts as working, so the idle of the resume ends it |
| `bot.py:3177` | the topic shows the session's name | the reconciler applies the title of its old listing after a newer `session_updated` has applied the right one; the next reconnect mends it |
| `bot.py:3219` | `bot.py:3209-3231`: what is remembered saves a call | a connection lost between Telegram's answer and the record leaves the old title remembered, and a rename back to it is then not sent |
| `bot.py:1755` | bindings of sessions that are gone are dropped | the orphan pass works on a listing made earlier: it unbinds a session that was added and given its topic since, which gets a second topic on the next connection; and a `session_removed` that comes while the session's topic is being made leaves a topic bound to it, until the next connection |

Others without a comment to compare with: an eviction whose victim is deleted while
its lock is waited for fails the request with an error about another session; a
reply that Telegram refuses to a cancelled turn is told to nobody (`bot.py:2815-2819`);
two shells that start at once, a restart beside a supervisor's, or a wait that is
given up, can each end in two daemons.

## 5. The proofs

### SessionCoordinatorProofs

For all `Sessions`, `Clients`, `Ops`, `Texts` and `Limit` that satisfy the
assumptions of `SessionCoordinator` (ids and texts are not `None`, the drain is
not a client, operations are known ones, the cap is a natural number, sessions
are finitely many):

| Theorem | Statement |
|---|---|
| `TypeCorrect` | `Spec => []TypeOK` |
| `Cap` | `Spec => []CapRespected` |
| `RoomKept` | `Spec => []RoomIsKept` |
| `Exclusion` | `Spec => []OneTransitionAtATime` |
| `NoDeadlock` | `Spec => []NoCircularWait` |

*The cap.* `TypeOK` alone is not inductive: that a task's request is a real
request, and not `NoRequest`, depends on where the task is. `TypeInv` adds
`Serving`, that a task away from rest serves a session. `CapRespected` is not
inductive either. A task that has chosen a victim will activate its session
without counting again, several awaits later. `CapInv` therefore adds, for every
task, `RoomOf(t)`: a task that evicts has a victim; every task that is about to
use a slot holds the slot lock; and while it makes room, the live sessions that
will be left are fewer than the cap. The step that matters is
`StepKeepsCap`: only the holder of the slot lock ever adds to `live`
(`Holds` is a head of a queue, so there is one holder), so no other task's step
takes the room away, and the holder's own activation fills exactly the room it
kept. The proof has one lemma per action, and lemmas about removing from a
queue, entering one and releasing a lock that the actions share.

*The locks.* `Exclusion` is plain if every task in a transition holds the lock of its
subject, but that is not inductive, because of `add_session`: it takes the lock of
its new record without waiting, while it may have spent several awaits on evicting
another session. `LockInv` adds what makes that safe: nobody else has heard of the
new session (`Fresh`), since its id was never handed out before (`Born`); and a task
that makes room holds the lock of the session it makes room for as well (`Locked`),
so the eviction cannot be of that session. `NoDeadlock` needs to know who is in the
queues: `QueueInv` says that a task stands in a lock's queue because it waits for
that lock or holds it, at most once, and that it has left them all when it waits for
its turn. A task that holds a session's lock but not the slot lock waits for nothing
(`HolderGoesOn`): what takes both takes the slot lock first. So if the holder of the
slot lock is blocked, the task it waits for goes on, and if nobody holds the slot
lock, whoever is blocked waits for such a task.

### SessionPoolProofs

| Theorem | Statement |
|---|---|
| `TurnsSpared` | `Spec => []EvictionSparesTurns` |
| `WaitingNotLive` | `Spec => []WaitingIsNotLive` |
| `Implements` | `Spec => PoolSpec`, that is, `SessionCoordinator` implements `SessionPool` |

*Argument.* `PoolInv` says of each live session that it does not wait, is working
exactly while its engine has a turn, and is starting only while a task launches it
(`Session`); of a turn without an agent that somebody is closing it (`Turn`); and of
each task what it may rely on (`Using`): the session it launches, or begins a turn on, is
live and the slot lock is its own; its victim, if live, is idle. The reason why
nothing can disturb that is `Owns`: a task changes a session only under the session's
lock or before anybody else knows it, and it makes one live, or begins a turn, only
under the slot lock, which the evicting task holds. `StepKeepsPool` reduces every action
to the sessions it touches. A turn alone ends without a lock; it leaves a live
session idle, which no part of the invariant minds.

*The refinement.* A step changes the phase of one session at most (`StepAllowed`,
`OneMoves`): the others keep their place in `records` and `live`, and no step ends
another task's `add` (`SamePhase`). That the change is one the pool allows follows
from the invariants above: there is room for a start that an eviction made room for
because of `CapInv`, a session under somebody's lock is not starting (`NotStarting`),
and what is discarded is gone rather than unborn because a known session is nobody's
new one (`Fresh`). A step that gives up an `add` before its record exists, because
the victim it waited for has been deleted, takes its session from unborn to gone.

### SessionHistoryProofs

For all `Sessions`, `Ops`, `Faults` and bounds (operations and faults are known
ones, bounds are natural numbers, and `None` is neither a record, nor metadata, nor a
transcript, nor a number):

| Theorem | Statement |
|---|---|
| `TypeCorrect` | `Spec => []TypeOK` |
| `Kept` | `Spec => []StopKeepsWhatIsSaved` |
| `Removed` | `Spec => []RemovedStaysRemoved` |

*Argument.* One inductive invariant, `Inv`, serves all three. What makes the
properties true is decided several writes, and perhaps a restart, before it
shows. `Saved` says that a record whose metadata is on disk knows it
(`persisted`) and is no throwaway, so `keeps_state` cannot depend on a cache that
may be gone; a write of metadata that is still due must therefore be of such a
record, which is the first conjunct of `Due`. `Nowhere` says that a session that
is gone, or not yet there, has no record and no files; for it to survive `Flush`,
`Due` says that an append or a rewrite belongs to a record that is there, that
what removes files belongs to one that is not, and that the announcement comes
right behind the removal, with nothing left on disk when it is its turn.
`Present` says which transitions have a record (a delete discards it before the
agent is closed, which is why a late event of its turn cannot bring it back), and
`AtRest` that nothing is in progress while the daemon is down. Operators that
build a step from pieces have a lemma each (`PersistedFit`, `EmittedFit`,
`MarkedFit`, `ToldFit`): a block of the session stays a block, whose record is
saved only if it is no throwaway. `DoCore`, `QuietCore`, `RemovalCore`,
`SameCore` and `ForgottenInv` carry the invariant over the shapes that steps
have, and each action has its lemma.

### SessionDiskProofs

Under the same assumptions, and where a theorem says so without one kind of fault:

| Theorem | Statement |
|---|---|
| `MetadataCurrent` | `Spec => []MetaCurrent` |
| `SaidKept` | `Spec => []SaidIsOnDisk` |
| `InterruptedTold` | `Spec => []InterruptedIsTold` |
| `ConversationKnown` | `"prompt" \notin Faults` implies `Spec => []AgentKnowsConversation` |
| `HistoryCurrent` | `"crash" \notin Faults` implies `Spec => []HistoryIsCurrent` |

The two assumptions are those of the runs that check the properties (`forks` and
`history_kept`), and they are needed: section 4 has what a prompt that fails, and a
daemon that dies between the writes of a revert, do to them.

*Argument.* What is on disk is settled several writes after the step that caused it,
and a crash, a write or a second step for another session can come in between. `Path`
therefore follows a session's two files through the writes that are still due, and
`OnDisk` says that they end with the record in them (`Ends`): metadata that
agree with the record (`Current`), and lines that are the end of its transcript and lack
at most notices (`Holds`). The first write is the first step of every path (`Flush` shortens them), a step
for another session adds writes that leave a path where it is (`EndsOther`), and the
operators that steps are made of (`Persisted`, `Emitted`, `Marked`, `Told`) each lead a
path from one record to the next. When nothing is due, the end of the path is the
disk, which is `SaidIsOnDisk` and `MetaCurrent`; a crash leaves a path half way, and
what a restart reads there is a record that is on disk by definition.

The other three are about what can no longer be seen in one state: which turn was cut
off, and what an agent was told. `Known` has four parts. `TurnAt` says which stages of a
transition a turn can run beside. `MarkedAt` follows the marker of an open turn: while
a turn runs, and from the crash that cut it off until the prompt that tells of it, the
marker is in the metadata on disk and in every metadata still to be written
(`MarkLeft`), and the record, once it is read again, owes the news. `ContextAt` says that
the agent of a live session knows the conversation, or is told it by the prompt of its
turn, or is to be told (`pending`). `IdAt` says that the backend's id, in memory, on disk
and in the writes due, is that of the history in the transcript, and that none is kept
where a rewrite is due (`Timely`).

### EventStreamProofs

For all `Clients`, `Sessions`, `States`, `Files` and bounds that satisfy
`StreamAssumption` (the queue's bound and the window are positive, the others are
natural numbers, `None` is no state):

| Theorem | Statement |
|---|---|
| `Reflects` | `Spec => PureReflection`, that is, `EventStream` implements `WorldView` |
| `TypeCorrect` | `Spec => []TypeOK`, with the bounds of queues and wires |
| `DeliveredIsThere` | `Spec => []DeliveredArrived` |

*Argument.* What a client has still to read is its *pipe*: its wire, and behind it,
while the bus knows the client and the socket is up, its queue. `PipeOK` says that
the messages along a pipe are a *chain*: the first follows from what the client has
seen, each of the others from the one before, and, while the client is subscribed,
the last is of the present moment. `Says` says that each of them tells the truth
about the history: a snapshot is what the sessions were then, and an event is the
difference between two successive moments. So a message that is read takes the
client to the next moment that counts (`ReadLooks`). An event published goes to the
end of a pipe that ended in the present (`ChainAppend`), what is sent moves from
the queue to the wire and keeps its place (`PipeSend`), what is read leaves a chain
(`ChainTail`). When the bus gives up on a client, the queue ceases to be part of its
pipe, what is left of it is a chain still (`ChainPrefix`), and `SocketOK` says that
what the sender finds next is `CLOSED`, behind which nothing is sent. Dropping the
oldest event of a full queue instead breaks the chain: that is the faulty version
which TLC refutes.

### TelegramTurnsProofs

For all bounds, `Ops` and `Faults` that satisfy `TurnsAssumption` (the bounds are
natural numbers, operations and faults are known ones) and `NoneAssumption` (`None` is
no turn, entry or prompt):

| Theorem | For | Statement |
|---|---|---|
| `TypeCorrect` | all faults | `Spec => []TypeInv` |
| `MapCurrent` | all faults | `Spec => []MapIsCurrent` |
| `ClosesItsOwn` | refused replies only | `Spec => EndsItsOwnTurn` |
| `NoMessageLost` | refused replies only | `Spec => []NothingLost` |
| `RepliesOnce` | refused replies only | `Spec => []PostedOnce` |
| `RepliesThreaded` | refused replies only | `Spec => RepliesToItsPrompt` |
| `AllIsShown` | no fault | `Spec => []SaidIsShown` |

Refused replies only is `Faults \subseteq {"refuse"}`: no connection, bot or daemon
is lost, and the user may do anything at any time. This is no convenience. A prompt
on a websocket that breaks is nowhere, so `NothingLost` does not hold; a turn that is
settled against a session in the middle of its resume is given up, or ended by the
idle of the resume (section 4, `reply_lost` and `bot.py:3156`). And with a refused
reply `SaidIsShown` is false, since the refusal of a cancelled turn's reply is told
to nobody. TLC finds a counterexample to each of the other four with two messages and
one lost connection, or one restart of the bot (a message that Telegram delivers again,
since its offset was never confirmed, makes the second post of the same reply). The run
`bot_turns` checks all five without any fault, for three messages.

*The map.* `MapIsCurrent` is inductive with the types: every handler that changes the
turn or its queue writes the map in the same step, or marks it.

*Whose turn ends.* The bot does not look at the prompt of a `turn_ended`, and an idle
event names no turn. `Carried` says why none is taken for another's: the turn the bot
carries is either on its way to the daemon (`Sent`), or waits for the session to start
(`Starting`), or is the daemon's last turn, whose end has not been handled (`Running`);
and without a turn the daemon does nothing (`Free`). `Ordered` is about the events on
their way: an end is the last but one, behind it its idle; any other idle, of a resume or
of the turn before, is in front of everything. So a turn that has begun finds no idle
in front but the one that follows its own end.

*The text.* Of what the agent has said in the turn, the bot has a beginning and the
stream has the rest, in order (`Carries`, `Spoken`); when the end is handled nothing of
it is left on its way. `Delivered` says of the turn that is being posted that it is a
closed one, with all its text, and that what is in the chat belongs to turns closed
before it: so a new turn that begins during the awaits of `_finish_turn` changes
nothing about it. `Shown` adds that what was dropped from the turn at a tool call has been
shown as narration. `MessagesJoin` is the lemma about `FlattenSeq`, that joining the
queue keeps every message; it is proved from the least counterexample, since an induction
theorem cannot be cited.

### TelegramTopicsProofs

For all `Sessions` and bounds that satisfy `TopicsAssumption` (the bounds are natural
numbers) and `NoneAssumption` (`None` is no number, task, job or listing):

| Theorem | Statement |
|---|---|
| `TypeCorrect` | `Spec => []TypeOK`, with the holder of the topic lock |
| `OneTopicEach` | `Spec => []OneTopic` |
| `Remembered` | `Spec => []TitleRemembered` |
| `ConnectionSettles` | `Spec => []Settled` |

*One topic.* `OneTopic` counts topics that are there; what makes it true is what is
still to be done about a session. A topic is created only by a task that saw, under
the lock, that the session has none (`Unbinding`), and the lock has one holder
(`OneHolder`). So it is enough that a topic that is there is *known*: `Mirrored` says
that the topic of a session that exists is the one it is bound to, or has just been
created and is about to be bound, and that there is one. Three things
could make a second. An event could announce a session whose topic the reconciler
has made already: `_ensure_topic` looks again under the lock. A session could be
announced twice, or renamed before it is announced: `StreamOK` and `Fresh` say that it
is announced once, and is nowhere before it is used. And the orphan pass of the
reconciler could unbind a session that exists, because it is missing in its old
listing. That does happen (section 4), and the invariant has to say why no second
topic follows while the connection lasts: such a session is `Lost`, nothing
announces it and nothing is about to make it a topic, because it was announced
before the pass (`BeforeOrphans`); nothing but the next connection brings it back.
`IInv` claims all this while `drops = 0`, and types always. `StepFor` is the
shape of most steps, which concern one session, and `Steady` and `QuietStep` are for
the sessions they leave alone.

*Titles.* A task chooses the topic to retitle before it has the lock, and records
the title for a session and not for a topic. By then the session might be bound to
another topic, and what is recorded would be wrong. `StillBound` says why it is not: the
topic is still the session's, or it is gone and the call will be refused, or it is
`Abandoned`: it was unbound while the task waited, and the session gets no other topic
before the task is done, because the other task, which could make one, is past the
session or busy with deleting this one. `JobTitleOK` adds that the title is on the
topic once the call has succeeded, and `BoundOK` that otherwise the remembered title is the
topic's, except where a lost connection came between the call and its record
(`cut`), which `TitleRemembered` excepts too. The theorem holds with any number of lost
connections.

*What a connection settles.* `Settled` looks only at the end of a reconciliation;
`Settling` is the invariant behind it. While nothing has changed since the connection
was made, no event is on its way and the reconciler is the only task at work
(`OnlyTheReconciler`), so the listing it works from stays true. What is left to do about
a session is then on its list, or being done (`LeftToDo`): a session off the list agrees
with its topic, unless the reconciler is at it, with a name and a binding that are still
the session's (`ReconcilingOK`). The one step that takes a session off without a call finds
the title remembered, and that it is also the topic's is `BoundOK`, the invariant of
the titles: here it is used, with every lost connection before.

### DaemonLifecycleProofs

For all `Clis`, `Commands` and bounds that satisfy `LifecycleAssumption` and
`NoneAssumption`; the last three for one shell (`OneShell`):

| Theorem | Statement |
|---|---|
| `TypeCorrect` | `Spec => []TypeOK` |
| `Found` | `OneShell` implies `Spec => []Discoverable` |
| `Alone` | `OneShell` implies `Spec => []OneDaemon` |
| `BotOriented` | `OneShell` implies `Spec => []Oriented` |

With two shells `Discoverable` is false: the run `undiscovered` is the counterexample.
There may be any number of daemons, of crashes and of commands, and waits may be given up; from
then on the properties say nothing, nor does the invariant.

*Argument.* `TypeCorrect` needs that a daemon that looks for a port finds one: there
are as many ports as daemons, and one of the daemons is still looking (`PortLeft`, by the
pigeonhole principle). `Safe` serves the other three. `Living` says of a daemon that is
alive that it is the only one; that on its way up the shell that spawned it waits for it,
and once told to end the shell that told it does; that in between it is the one that
`server.json` names. `Knowing` is the other half, what a command may rely on:
what it has read is the daemon that is alive, if one is, and when it removes the file
or spawns a daemon, none is. The two hold each other up: a command that has read nothing, or finds
that what it read does not respond, knows that nobody is alive, because one that was
would be serving and named (`Settles`); so it may remove the file without looking at it again.
`NotYet` says that nobody names a daemon before it has advertised itself, so what is
spawned is unknown to the file and to the bot; `BotKnows`, that the directory the bot has
read of is that of the daemon it talks to.

### What is only model-checked

The liveness of every module (`EveryJobEnds`, `EveryCommandEnds`, `CatchesUp` and
the others with `~>`). Every invariant and every action property that a passing run
checks is a theorem, some of them under the hypotheses stated above. Liveness and
fairness stay with TLC: TLAPS has no support for `ENABLED` and so for weak fairness.
So does what a recursive function computes for every input, which needs an induction
over data with an operator parameter that the installed provers cannot instantiate;
no module here has a recursive operator.

## 6. What is not modelled, and what is left

Of the parts that are modelled, these are left out: tags, roles, config options,
usage and turn statistics (stored and restored with the record, and nothing else
depends on them); the inbox and the bot's tray (files that clients fetch and send);
the naming of a session by a model call; a reload of the configuration, and with it
a cap that falls below what is live; the reading of arguments and the HTTP answers;
of the bot, its manager chat, the adoption of a forum, icons, usage and the wording
of what it shows. In `TelegramTopics` Telegram does not refuse to create a topic and
no name is given twice. In `TelegramTurns` there is one session.

Out of reach or without interest: the ACP library and the agents themselves
(external), the translation of their updates, text layout, configuration parsing,
the watchdog (it only logs), shell jobs (they share nothing with sessions),
deployment scripts, the dead browser UI.

Left to do, the most valuable first:

1. *The tray*: two messages whose files are saved beside each other rewrite one
   record (`bot.py:2089-2142`).
2. *The pool, second part*: the reload of the cap; subprocesses against agents.
3. *Pure functions*: tag normalisation, safe file names, the packing of messages,
   each against a reference definition.
