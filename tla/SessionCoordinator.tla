------------------------- MODULE SessionCoordinator -------------------------
(***************************************************************************)
(* The session pool of the FalconFox daemon: SessionCoordinator in         *)
(* coordinator.py with the parts of SessionRecord (record.py) and of       *)
(* AgentSession (engine/session.py) that its transitions read and write.   *)
(*                                                                         *)
(* The daemon is one asyncio event loop.  Every client action is a task of *)
(* its own, so any number of actions overlap; a task gives way only where  *)
(* it awaits.  One TLA+ step is the code a task runs from one await to the *)
(* next.  Tasks are the elements of Clients, each serving one request at a *)
(* time, and Drain, the background task that activates waiting sessions.   *)
(*                                                                         *)
(* Both asyncio locks are FIFO: a lock is the queue of the tasks that asked*)
(* for it, and its head is the task that holds it.                         *)
(*                                                                         *)
(* Abstracted: last_active (the victim of an eviction is any idle session  *)
(* rather than the least recently used one), the content of messages and   *)
(* transcripts, and the bus.  Limit is config.max_live_sessions, 0 for no  *)
(* cap; a reload of the configuration is not modelled here.                *)
(*                                                                         *)
(* A definition Foo_Bar is Foo with the fault Bar; it is here to check that*)
(* the properties notice the fault, and nothing uses it.                   *)
(***************************************************************************)
EXTENDS Naturals, FiniteSets, SequencesExt

CONSTANTS
    Sessions,   \* the session ids the daemon ever sees
    Clients,    \* the tasks that serve client actions
    Drain,      \* the task created by _schedule_drain
    Ops,        \* the client actions this instance issues
    Texts,      \* the messages that clients send
    Limit,      \* config.max_live_sessions
    None        \* Python's None

Tasks == Clients \cup {Drain}

SlotOps == {"add", "send", "resume"}            \* take the slot lock
LockOps == {"stop", "delete", "revert", "cancel"}   \* take the session lock only

ASSUME SessionsAssumption == None \notin Sessions \cup Texts
ASSUME TasksAssumption == Drain \notin Clients
ASSUME OpsAssumption == Ops \subseteq SlotOps \cup LockOps
ASSUME LimitAssumption == Limit \in Nat /\ IsFiniteSet(Sessions)

VARIABLES
    records,    \* the ids in self._records
    born,       \* the ids new_session_id has ever returned
    live,       \* the records whose agent is not None
    state,      \* record.state
    keeps,      \* record.keeps_state
    ephemeral,  \* the records created as throwaways
    waiting,    \* the queued records, in queued_since order
    queuedText, \* record.queued_text
    engineTurn, \* what the engine is doing: no turn, a turn, a cancelled turn
    turnHandle, \* the records whose record.turn is the turn that is running
    slotLock,   \* self._slot_lock
    lock,       \* record.lock
    pc,         \* where each task is
    req,        \* the request a task is serving
    victim,     \* the session a task is evicting
    todo        \* the records the drain has not visited yet

poolVars  == <<records, born, live, state, keeps, ephemeral>>
queueVars == <<waiting, queuedText>>
turnVars  == <<engineTurn, turnHandle>>
lockVars  == <<slotLock, lock>>
vars == <<poolVars, queueVars, turnVars, lockVars, pc, req, victim, todo>>

NoRequest == [op |-> None, session |-> None, text |-> None]

(***************************************************************************)
(* What _ensure_slot reads.                                                *)
(***************************************************************************)
HasRoom_OffByOne == Limit = 0 \/ Cardinality(live) <= Limit
HasRoom == Limit = 0 \/ Cardinality(live) < Limit

Candidates_Busy == live
Candidates == {s \in live : state[s] = "idle"}

\* _require, and the second look of _locked once the lock is granted.
Known_Unchecked(s) == TRUE
Known(s) == s \in records

(***************************************************************************)
(* The waiting list.  A record keeps its place when it is queued again.    *)
(***************************************************************************)
Without_Never(q, s) == q
Without(q, s) ==
    IF s \in ToSet(q)
    THEN RemoveAt(q, CHOOSE i \in DOMAIN q : q[i] = s)
    ELSE q

Enqueued_Again(q, s) == Append(q, s)
Enqueued(q, s) == IF s \in ToSet(q) THEN q ELSE Append(q, s)

\* _schedule_drain, on the idle event of _emit: one drain at a time.
Scheduled(counters) ==
    IF waiting # <<>> /\ counters[Drain] = "off"
    THEN [counters EXCEPT ![Drain] = "scheduled"]
    ELSE counters

(***************************************************************************)
(* Leaving the locks a task holds.                                         *)
(***************************************************************************)
Holds(t, q) == q # <<>> /\ Head(q) = t

Released(t, q) == IF Holds(t, q) THEN Tail(q) ELSE q

ReleaseAll(t) ==
    /\ slotLock' = Released(t, slotLock)
    /\ lock' = [s \in Sessions |-> Released(t, lock[s])]

-----------------------------------------------------------------------------
(***************************************************************************)
(* Initially some sessions have been read back from disk (load_persisted): *)
(* stored, and worth keeping.                                              *)
(***************************************************************************)
Init ==
    /\ records \in SUBSET Sessions
    /\ born = records
    /\ live = {}
    /\ state = [s \in Sessions |-> "stored"]
    /\ keeps = records
    /\ ephemeral = {}
    /\ waiting = <<>>
    /\ queuedText = [s \in Sessions |-> None]
    /\ engineTurn = [s \in Sessions |-> "none"]
    /\ turnHandle = {}
    /\ slotLock = <<>>
    /\ lock = [s \in Sessions |-> <<>>]
    /\ pc = [t \in Tasks |-> IF t = Drain THEN "off" ELSE "idle"]
    /\ req = [t \in Tasks |-> NoRequest]
    /\ victim = [t \in Tasks |-> None]
    /\ todo = <<>>

-----------------------------------------------------------------------------
(***************************************************************************)
(* A client action arrives and asks for its first lock.  An action on an   *)
(* id that is not in records raises at once and is not modelled.           *)
(***************************************************************************)
Accept(t, op, s, x) ==
    /\ req' = [req EXCEPT ![t] = [op |-> op, session |-> s, text |-> x]]
    /\ UNCHANGED <<records, live, state, queueVars, turnVars, victim, todo>>

RequestAdd(t, s) ==
    /\ pc[t] = "idle" /\ "add" \in Ops /\ s \notin born
    /\ born' = born \cup {s}
    /\ \/ keeps' = keeps \cup {s} /\ UNCHANGED ephemeral    \* named
       \/ ephemeral' = ephemeral \cup {s} /\ UNCHANGED keeps
       \/ UNCHANGED <<keeps, ephemeral>>    \* unnamed, nothing said yet
    /\ Accept(t, "add", s, None)
    /\ slotLock' = Append(slotLock, t)
    /\ pc' = [pc EXCEPT ![t] = "slot"]
    /\ UNCHANGED lock

RequestSlot(t, op, s, x) ==
    /\ pc[t] = "idle" /\ s \in records
    /\ op \in Ops \cap {"send", "resume"}
    /\ x \in (IF op = "send" THEN Texts ELSE {None})
    /\ Accept(t, op, s, x)
    /\ slotLock' = Append(slotLock, t)
    /\ pc' = [pc EXCEPT ![t] = "slot"]
    /\ UNCHANGED <<born, keeps, ephemeral, lock>>

RequestLock(t, op, s) ==
    /\ pc[t] = "idle" /\ s \in records
    /\ op \in Ops \cap LockOps
    /\ Accept(t, op, s, None)
    /\ lock' = [lock EXCEPT ![s] = Append(@, t)]
    /\ pc' = [pc EXCEPT ![t] = "lock"]
    /\ UNCHANGED <<born, keeps, ephemeral, slotLock>>

Request(t) ==
    \E s \in Sessions :
        \/ RequestAdd(t, s)
        \/ \E op \in Ops, x \in Texts \cup {None} : RequestSlot(t, op, s, x)
        \/ \E op \in Ops : RequestLock(t, op, s)

-----------------------------------------------------------------------------
(***************************************************************************)
(* Ending a session's agent: _stop_locked, _delete_locked and the middle of*)
(* revert_session.  z is the session the task ends, its own or a victim.   *)
(***************************************************************************)
Subject(t) == IF victim[t] # None THEN victim[t] ELSE req[t].session

Ending(t) == IF victim[t] # None THEN "stop" ELSE req[t].op

\* A stop of a session that has nothing worth keeping is a delete.
Discards(t, z) == Ending(t) = "delete" \/ (Ending(t) = "stop" /\ z \notin keeps)

\* The agent is given up before agent.stop() is awaited.
TearDown(t, z) ==
    /\ live' = live \ {z}
    /\ state' = [state EXCEPT ![z] = "stored"]
    /\ waiting' = Without(waiting, z)
    /\ queuedText' = [queuedText EXCEPT ![z] = None]
    /\ IF Discards(t, z)
       THEN /\ records' = records \ {z}
            /\ keeps' = keeps \ {z}
            /\ ephemeral' = ephemeral \ {z}
       ELSE UNCHANGED <<records, keeps, ephemeral>>
    /\ pc' = [pc EXCEPT ![t] = "closing"]
    /\ UNCHANGED born

\* _settle_turn: cancel the turn of record.turn, if it runs, and wait for it.
Settle(t, z) ==
    \/ /\ z \in turnHandle
       /\ turnHandle' = turnHandle \ {z}
       /\ engineTurn' = [engineTurn EXCEPT ![z] = "cancelled"]
       /\ pc' = [pc EXCEPT ![t] = "settling"]
       /\ UNCHANGED <<poolVars, queueVars>>
    \/ /\ z \notin turnHandle
       /\ TearDown(t, z)
       /\ UNCHANGED turnVars

Settled(t) ==
    /\ pc[t] = "settling" /\ engineTurn[Subject(t)] = "none"
    /\ TearDown(t, Subject(t))
    /\ UNCHANGED <<turnVars, lockVars, req, victim, todo>>

-----------------------------------------------------------------------------
(***************************************************************************)
(* Making a session live: the middle of add_session and _resume_locked.    *)
(* held is the state of the session locks as the activation begins.        *)
(***************************************************************************)
\* add_session puts its record in _records once it knows about its slot, and
\* starts it under its lock, which nobody else has asked for yet.
WithNew(t) == IF req[t].op = "add" THEN records \cup {req[t].session} ELSE records

Entered_Unlocked(t, held) == held
Entered(t, held) ==
    IF req[t].op = "add" THEN [held EXCEPT ![req[t].session] = <<t>>] ELSE held

Activate(t, held) ==
    LET s == req[t].session IN
    /\ records' = WithNew(t)
    /\ live' = live \cup {s}
    /\ state' = [state EXCEPT ![s] = "starting"]
    /\ waiting' = Without(waiting, s)
    /\ lock' = Entered(t, held)
    /\ pc' = [pc EXCEPT ![t] = "launching"]
    /\ UNCHANGED <<born, keeps, ephemeral, queuedText>>

\* The session's directory is gone, or its backend is no longer configured.
Refuse(t, held) ==
    /\ req[t].op # "add"
    /\ lock' = held
    /\ pc' = [pc EXCEPT ![t] = "raise"]
    /\ UNCHANGED <<poolVars, queueVars>>

\* _enqueue.  A send is queued with its text, an activation without one.
Enqueue(t) ==
    LET s == req[t].session IN
    /\ records' = WithNew(t)
    /\ waiting' = Enqueued(waiting, s)
    /\ queuedText' = [queuedText EXCEPT ![s] =
                        IF req[t].text # None THEN req[t].text ELSE @]
    /\ pc' = [pc EXCEPT ![t] = "ret"]
    /\ UNCHANGED <<born, live, state, keeps, ephemeral, lock>>

Evict(t, v) ==
    /\ victim' = [victim EXCEPT ![t] = v]
    /\ lock' = [lock EXCEPT ![v] = Append(@, t)]
    /\ pc' = [pc EXCEPT ![t] = "evicting"]
    /\ UNCHANGED <<poolVars, queueVars>>

\* _ensure_slot and what follows it.
EnsureSlot(t) ==
    /\ \/ /\ HasRoom
          /\ Activate(t, lock) \/ Refuse(t, lock)
          /\ UNCHANGED victim
       \/ /\ ~HasRoom
          /\ \E v \in Candidates : Evict(t, v)
       \/ /\ ~HasRoom /\ Candidates = {}
          /\ Enqueue(t)
          /\ UNCHANGED victim
    /\ UNCHANGED turnVars

\* The victim's lock is granted: stop_session(victim) looks it up again.
VictimLocked(t) ==
    /\ pc[t] = "evicting" /\ Holds(t, lock[victim[t]])
    /\ \/ Known(victim[t]) /\ Settle(t, victim[t])
       \/ /\ ~Known(victim[t])
          /\ pc' = [pc EXCEPT ![t] = "raise"]
          /\ UNCHANGED <<poolVars, queueVars, turnVars>>
    /\ UNCHANGED <<lockVars, req, victim, todo>>

\* agent.stop() has returned.  Closing the connection fails the prompt of a
\* turn that still runs on it, so no turn outlives this.
Closed(t) ==
    /\ pc[t] = "closing" /\ engineTurn[Subject(t)] = "none"
    /\ \/ /\ victim[t] = None
          /\ pc' = [pc EXCEPT ![t] = "ret"]
          /\ UNCHANGED <<poolVars, queueVars, lock, victim>>
       \/ /\ victim[t] # None
          /\ LET held == [lock EXCEPT ![victim[t]] = Released(t, @)]
             IN  Activate(t, held) \/ Refuse(t, held)
          /\ victim' = [victim EXCEPT ![t] = None]
    /\ UNCHANGED <<turnVars, slotLock, req, todo>>

\* AgentSession.start or resume succeeds; its idle event may start a drain.
LaunchOk(t) ==
    /\ pc[t] = "launching"
    /\ state' = [state EXCEPT ![req[t].session] = "idle"]
    /\ pc' = Scheduled([pc EXCEPT ![t] = "ready"])
    /\ UNCHANGED <<records, born, live, keeps, ephemeral, queueVars, turnVars,
                   lockVars, req, victim, todo>>

\* It fails: a new session is discarded whole, a stored one stays stored.
LaunchFails(t) ==
    LET s == req[t].session IN
    /\ pc[t] = "launching"
    /\ live' = live \ {s}
    /\ state' = [state EXCEPT ![s] = "stored"]
    /\ IF req[t].op = "add"
       THEN /\ records' = records \ {s}
            /\ keeps' = keeps \ {s}
            /\ ephemeral' = ephemeral \ {s}
       ELSE UNCHANGED <<records, keeps, ephemeral>>
    /\ pc' = [pc EXCEPT ![t] = "raise"]
    /\ UNCHANGED <<born, queueVars, turnVars, lockVars, req, victim, todo>>

-----------------------------------------------------------------------------
(***************************************************************************)
(* A turn: _begin_turn, AgentSession.send and the wait in send.            *)
(***************************************************************************)

\* create_task(agent.send(...)): "overlap" remembers that record.turn was
\* running then, which is the local variable `running`.
StartTurn(t) ==
    pc' = [pc EXCEPT ![t] = IF req[t].session \in turnHandle
                            THEN "overlap" ELSE "begin"]

\* The configured options are applied.
Ready(t) ==
    /\ pc[t] = "ready"
    /\ IF req[t].op = "send" THEN StartTurn(t)
                             ELSE pc' = [pc EXCEPT ![t] = "ret"]
    /\ UNCHANGED <<poolVars, queueVars, turnVars, lockVars, req, victim, todo>>

\* send leaves both locks before it waits for the turn.
GiveUpLocks_Kept(t) == UNCHANGED lockVars
GiveUpLocks(t) == ReleaseAll(t)

\* The first step of the turn task, then the end of _begin_turn and of the
\* locks.  A busy engine refuses the message, and the turn task is over.
FirstStep(t) ==
    LET s == req[t].session IN
    /\ pc[t] \in {"begin", "overlap"}
    /\ \/ /\ engineTurn[s] # "none"
          /\ pc' = [pc EXCEPT ![t] = "ret"]
          /\ UNCHANGED <<poolVars, turnVars, lockVars>>
       \/ /\ engineTurn[s] = "none"
          /\ engineTurn' = [engineTurn EXCEPT ![s] = "running"]
          /\ turnHandle' = IF pc[t] = "begin" THEN turnHandle \cup {s}
                                              ELSE turnHandle
          /\ state' = [state EXCEPT ![s] = "working"]
          /\ keeps' = IF s \in ephemeral THEN keeps ELSE keeps \cup {s}
          /\ GiveUpLocks(t)
          /\ pc' = [pc EXCEPT ![t] = "turn"]
          /\ UNCHANGED <<records, born, live, ephemeral>>
    /\ UNCHANGED <<queueVars, req, victim, todo>>

\* The end of AgentSession.send, whatever ended the turn: busy is cleared,
\* turn_ended and idle are emitted and the send that waits for it wakes up.
TurnEnds(s) ==
    /\ engineTurn[s] # "none"
    /\ engineTurn' = [engineTurn EXCEPT ![s] = "none"]
    /\ turnHandle' = turnHandle \ {s}
    /\ state' = IF s \in records THEN [state EXCEPT ![s] = "idle"] ELSE state
    /\ pc' = Scheduled([t \in Tasks |->
                IF pc[t] = "turn" /\ req[t].session = s THEN "woken" ELSE pc[t]])
    /\ UNCHANGED <<records, born, live, keeps, ephemeral, queueVars, lockVars,
                   req, victim, todo>>

-----------------------------------------------------------------------------
(***************************************************************************)
(* Lock grants.                                                            *)
(***************************************************************************)

\* The slot lock is granted; _locked then looks the session up.
SlotGranted(t) ==
    LET s == req[t].session IN
    /\ pc[t] = "slot" /\ Holds(t, slotLock)
    /\ \/ req[t].op = "add" /\ EnsureSlot(t)
       \/ /\ req[t].op # "add" /\ Known(s)
          /\ lock' = [lock EXCEPT ![s] = Append(@, t)]
          /\ pc' = [pc EXCEPT ![t] = "lock"]
          /\ UNCHANGED <<poolVars, queueVars, turnVars, victim>>
       \/ /\ req[t].op # "add" /\ ~Known(s)
          /\ pc' = [pc EXCEPT ![t] = "raise"]
          /\ UNCHANGED <<poolVars, queueVars, turnVars, lock, victim>>
    /\ UNCHANGED <<slotLock, req, todo>>

\* What a request does under the lock of its session.
Send(t, s) ==
    \/ /\ s \in live
       /\ StartTurn(t)
       /\ UNCHANGED <<poolVars, queueVars, turnVars, lock, victim>>
    \/ s \notin live /\ EnsureSlot(t)

Resume(t, s) ==
    \/ /\ s \in live
       /\ waiting' = Without(waiting, s)
       /\ pc' = [pc EXCEPT ![t] = "ret"]
       /\ UNCHANGED <<poolVars, queuedText, turnVars, lock, victim>>
    \/ s \notin live /\ EnsureSlot(t)

Stop(t, s) == Settle(t, s) /\ UNCHANGED <<lock, victim>>

\* A revert needs a user message to go back to, which only a session that is
\* worth keeping or a throwaway can have; any other event is refused.
Revert(t, s) ==
    \/ s \in keeps \cup ephemeral /\ Stop(t, s)
    \/ /\ pc' = [pc EXCEPT ![t] = "raise"]
       /\ UNCHANGED <<poolVars, queueVars, turnVars, lock, victim>>

\* The backend is told over its connection; the turn ends in its own time.
Cancel(t, s) ==
    /\ pc' = [pc EXCEPT ![t] = IF s \in live THEN "telling" ELSE "ret"]
    /\ UNCHANGED <<poolVars, queueVars, turnVars, lock, victim>>

Told_Activates(t) ==
    /\ pc[t] = "telling"
    /\ slotLock' = Append(slotLock, t)
    /\ pc' = [pc EXCEPT ![t] = "slot"]
    /\ UNCHANGED <<poolVars, queueVars, turnVars, lock, req, victim, todo>>

Told(t) ==
    /\ pc[t] = "telling"
    /\ pc' = [pc EXCEPT ![t] = "ret"]
    /\ UNCHANGED <<poolVars, queueVars, turnVars, lockVars, req, victim, todo>>

\* The session may have been deleted while the task waited for its lock.
LockGranted(t) ==
    LET s == req[t].session IN
    /\ pc[t] = "lock" /\ Holds(t, lock[s])
    /\ \/ /\ ~Known(s)
          /\ pc' = [pc EXCEPT ![t] = "raise"]
          /\ UNCHANGED <<poolVars, queueVars, turnVars, lock, victim>>
       \/ /\ Known(s)
          /\ \/ req[t].op = "send" /\ Send(t, s)
             \/ req[t].op = "resume" /\ Resume(t, s)
             \/ req[t].op \in {"stop", "delete"} /\ Stop(t, s)
             \/ req[t].op = "revert" /\ Revert(t, s)
             \/ req[t].op = "cancel" /\ Cancel(t, s)
    /\ UNCHANGED <<slotLock, req, todo>>

\* A client action is answered, with a result or with an error.
Return(t) ==
    /\ t \in Clients /\ pc[t] \in {"ret", "raise", "woken"}
    /\ ReleaseAll(t)
    /\ pc' = [pc EXCEPT ![t] = "idle"]
    /\ req' = [req EXCEPT ![t] = NoRequest]
    /\ victim' = [victim EXCEPT ![t] = None]
    /\ UNCHANGED <<poolVars, queueVars, turnVars, todo>>

-----------------------------------------------------------------------------
(***************************************************************************)
(* _drain_queue.  The records are those that waited when the drain began;  *)
(* one that has been deleted since is skipped.                             *)
(***************************************************************************)
FirstLeft(q) ==
    CHOOSE i \in DOMAIN q : q[i] \in records /\ \A j \in 1 .. i-1 : q[j] \notin records

DrainAsks(op, s, x, free) ==
    /\ req' = [req EXCEPT ![Drain] = [op |-> op, session |-> s, text |-> x]]
    /\ slotLock' = Append(free, Drain)
    /\ pc' = [pc EXCEPT ![Drain] = "slot"]

DrainOver(free) ==
    /\ req' = [req EXCEPT ![Drain] = NoRequest]
    /\ slotLock' = free
    /\ pc' = [pc EXCEPT ![Drain] = "off"]
    /\ todo' = <<>>

DrainNext_Stuck(q, free) ==
    IF \E i \in DOMAIN q : q[i] \in records
    THEN DrainAsks("resume", q[FirstLeft(q)], None, free) /\ todo' = q
    ELSE DrainOver(free)

DrainNext(q, free) ==
    IF \E i \in DOMAIN q : q[i] \in records
    THEN /\ DrainAsks("resume", q[FirstLeft(q)], None, free)
         /\ todo' = SubSeq(q, FirstLeft(q) + 1, Len(q))
    ELSE DrainOver(free)

DrainStart ==
    /\ pc[Drain] = "scheduled"
    /\ DrainNext(waiting, slotLock)
    /\ UNCHANGED <<poolVars, queueVars, turnVars, lock, victim>>

\* One call of the loop body has returned: the resume of a record, or the
\* send of the text it was queued with.
DrainReturns ==
    LET s == req[Drain].session
        free == Released(Drain, slotLock)
    IN
    /\ pc[Drain] \in {"ret", "woken"}
    /\ \/ /\ req[Drain].op = "resume" /\ s \in ToSet(waiting)
          /\ DrainOver(free)
          /\ UNCHANGED queuedText
       \/ /\ req[Drain].op = "resume" /\ s \notin ToSet(waiting)
          /\ queuedText' = [queuedText EXCEPT ![s] = None]
          /\ IF queuedText[s] # None
             THEN DrainAsks("send", s, queuedText[s], free) /\ UNCHANGED todo
             ELSE DrainNext(todo, free)
       \/ /\ req[Drain].op = "send"
          /\ DrainNext(todo, free)
          /\ UNCHANGED queuedText
    /\ lock' = [z \in Sessions |-> Released(Drain, lock[z])]
    /\ victim' = [victim EXCEPT ![Drain] = None]
    /\ UNCHANGED <<poolVars, turnVars, waiting>>

\* A call raised: the record is off the waiting list, and its text is dropped.
DrainCatches ==
    LET s == req[Drain].session IN
    /\ pc[Drain] = "raise"
    /\ waiting' = Without(waiting, s)
    /\ queuedText' = [queuedText EXCEPT ![s] = None]
    /\ DrainNext(todo, Released(Drain, slotLock))
    /\ lock' = [z \in Sessions |-> Released(Drain, lock[z])]
    /\ victim' = [victim EXCEPT ![Drain] = None]
    /\ UNCHANGED <<poolVars, turnVars>>

-----------------------------------------------------------------------------
Launched(t) == LaunchOk(t) \/ LaunchFails(t)

TaskStep(t) ==
    \/ SlotGranted(t) \/ LockGranted(t) \/ VictimLocked(t)
    \/ Settled(t) \/ Closed(t) \/ Told(t)
    \/ Launched(t) \/ Ready(t) \/ FirstStep(t)
    \/ Return(t)

DrainStep == DrainStart \/ DrainReturns \/ DrainCatches

\* What the drain does when a call returns or raises follows without an
\* await, so no idle event comes between the two.
DrainAwaits == pc[Drain] \notin {"ret", "raise"}

Next ==
    \/ \E t \in Clients : Request(t)
    \/ \E t \in Tasks : TaskStep(t)
    \/ DrainStep
    \/ \E s \in Sessions : DrainAwaits /\ TurnEnds(s)

Spec == Init /\ [][Next]_vars

-----------------------------------------------------------------------------
(***************************************************************************)
(* Types.                                                                  *)
(***************************************************************************)
Requests ==
    [op : SlotOps \cup LockOps, session : Sessions, text : Texts \cup {None}]

Counters == {"idle", "off", "scheduled", "slot", "lock", "evicting", "settling",
             "closing", "launching", "ready", "begin", "overlap", "turn",
             "telling", "woken", "ret", "raise"}

PoolOK ==
    /\ records \subseteq Sessions /\ born \subseteq Sessions
    /\ live \subseteq Sessions
    /\ state \in [Sessions -> {"stored", "starting", "idle", "working"}]
    /\ keeps \subseteq Sessions /\ ephemeral \subseteq Sessions

QueueOK ==
    /\ waiting \in Seq(Sessions) /\ IsInjective(waiting)
    /\ queuedText \in [Sessions -> Texts \cup {None}]

TurnOK ==
    /\ engineTurn \in [Sessions -> {"none", "running", "cancelled"}]
    /\ turnHandle \subseteq Sessions

LockOK == slotLock \in Seq(Tasks) /\ lock \in [Sessions -> Seq(Tasks)]

TaskOK ==
    /\ pc \in [Tasks -> Counters]
    /\ req \in [Tasks -> Requests \cup {NoRequest}]
    /\ victim \in [Tasks -> Sessions \cup {None}]
    /\ todo \in Seq(Sessions)

\* The type invariant.  The waiting list names no record twice: a session that
\* asks again keeps the place it has.
TypeOK == PoolOK /\ QueueOK /\ TurnOK /\ LockOK /\ TaskOK

-----------------------------------------------------------------------------
(***************************************************************************)
(* Safety.                                                                 *)
(***************************************************************************)

\* No more than max_live_sessions sessions hold a live agent, whatever tasks
\* overlap between _ensure_slot and the activation it makes room for.
CapRespected == Limit > 0 => Cardinality(live) <= Limit

\* The room an eviction makes is the room of the task that makes it: until
\* that task has activated its session it holds the slot lock, and all that
\* time the sessions that will be left are fewer than the cap ("a slot that is
\* checked in one step and filled in another can be handed to two callers").
MakesRoom(t) ==
    victim[t] # None /\ pc[t] \in {"evicting", "settling", "closing"}

RoomIsKept ==
    \A t \in Tasks : MakesRoom(t) =>
        /\ Holds(t, slotLock)
        /\ Limit > 0 =>
              Cardinality(IF pc[t] = "closing" THEN live
                                               ELSE live \ {victim[t]}) < Limit

\* An eviction never ends a turn: from the moment _ensure_slot picks an idle
\* session until its lock is granted, however long other transitions of that
\* session take, no turn starts on it.
EvictionSparesTurns ==
    \A t \in Tasks :
        pc[t] = "evicting" /\ victim[t] \in live
            => engineTurn[victim[t]] = "none"

\* A session that waits for a slot does not hold one, so the drain never
\* starts an agent for a session that has one.
WaitingIsNotLive == live \cap ToSet(waiting) = {}

\* The transitions of one session never run beside each other: of two tasks
\* in the middle of one, each on its own session or on a victim, no two are
\* in the middle of the same session's.
InTransition(t) ==
    pc[t] \in {"settling", "closing", "launching", "ready", "begin", "overlap",
              "telling"}

OneTransitionAtATime ==
    \A t, u \in Tasks :
        t # u /\ InTransition(t) /\ InTransition(u) => Subject(t) # Subject(u)

\* Where some task waits for a lock, some task that holds one does not wait:
\* the two locks are never waited for in a circle ("there is no cycle, and
\* nothing to deadlock on").
Blocked(t) ==
    \/ pc[t] = "slot" /\ ~Holds(t, slotLock)
    \/ pc[t] = "lock" /\ ~Holds(t, lock[req[t].session])
    \/ pc[t] = "evicting" /\ ~Holds(t, lock[victim[t]])

NoCircularWait ==
    (\E t \in Tasks : Blocked(t)) =>
        \E t \in Tasks :
            /\ ~Blocked(t)
            /\ Holds(t, slotLock) \/ \E s \in Sessions : Holds(t, lock[s])

-----------------------------------------------------------------------------
(***************************************************************************)
(* Liveness.  The event loop runs every task that can run; an agent answers*)
(* a start, a stop and a cancel; a cancelled turn ends, and so does a turn *)
(* whose agent has been given up.  A turn may otherwise run for ever.      *)
(***************************************************************************)
Fairness ==
    /\ \A t \in Tasks : WF_vars(TaskStep(t))
    /\ WF_vars(DrainStep)
    /\ \A s \in Sessions :
          WF_vars((engineTurn[s] = "cancelled" \/ s \notin live) /\ TurnEnds(s))

FairSpec == Spec /\ Fairness

\* Where turns end, too.
TurnsEnd == \A s \in Sessions : WF_vars(TurnEnds(s))

TurnsEndSpec == FairSpec /\ TurnsEnd

\* Every client action is answered, and a send gets as far as its turn, even
\* when no turn ever ends by itself: stop, delete, revert and cancel reach a
\* busy session, and nothing waits for a lock for ever.
EveryActionAnswered ==
    \A t \in Clients : pc[t] # "idle" ~> pc[t] \in {"idle", "turn"}

\* The drain comes to an end when turns do, so the next idle event can start
\* another one.
DrainEnds == TurnsEnd => (pc[Drain] # "off" ~> pc[Drain] = "off")

\* Once the clients are silent and every turn has ended, no session is left
\* waiting for a slot ("This starts as soon as one goes idle").
WaitingStarts ==
    <>[](\A t \in Clients : pc[t] = "idle") =>
        \A s \in Sessions : s \in ToSet(waiting) ~> s \notin ToSet(waiting)

-----------------------------------------------------------------------------
(***************************************************************************)
(* The promise of the pool, and how the coordinator keeps it.              *)
(***************************************************************************)
Unborn(s) ==
    \/ s \notin born
    \/ \E t \in Tasks :
          /\ req[t].op = "add" /\ req[t].session = s
          /\ pc[t] \in {"slot", "evicting", "settling", "closing"}

PhaseOf ==
    [s \in Sessions |->
        IF s \in live THEN state[s]
        ELSE IF s \in records THEN "stored"
        ELSE IF Unborn(s) THEN "unborn" ELSE "gone"]

Pool == INSTANCE SessionPool WITH phase <- PhaseOf

\* The coordinator implements the pool: a session starts only where there is
\* room, nothing interrupts a start, and a session that is gone stays gone.
PoolSpec == Pool!Spec

=============================================================================
