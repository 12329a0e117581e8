--------------------------- MODULE SessionHistory ---------------------------
(***************************************************************************)
(* What a session remembers: SessionRecord in memory (record.py), its      *)
(* meta.toml and transcript.jsonl on disk (storage.py), and what the agent *)
(* it talks to has been told, through the events of a turn (_emit), the    *)
(* transitions of coordinator.py, and the death of the daemon at any point.*)
(*                                                                         *)
(* A step is the code from one await to the next.  It changes memory at    *)
(* once and leaves what it does to the disk in `writes`, in order; nothing *)
(* else runs until those are done, but the process may be killed between   *)
(* any two.  Transitions of one session exclude each other (record.lock);  *)
(* turns run beside them.  Which sessions may be live is the business of   *)
(* SessionCoordinator: here a session may be started whenever it is asked  *)
(* for.                                                                    *)
(*                                                                         *)
(* An event of a transcript is named for its kind alone.  A definition     *)
(* Foo_Bar is Foo with the fault Bar; nothing uses it.                     *)
(***************************************************************************)
EXTENDS Naturals, SequencesExt

CONSTANTS
    Sessions,   \* the session ids the daemon ever sees
    Ops,        \* the operations this instance issues, beside create and send
    Faults,     \* what goes wrong: "prompt", "crash"
    MaxEvents,  \* no turn or resume begins on a transcript of this length
    MaxReverts, \* of one session
    MaxRuns,    \* restarts of the daemon
    None        \* Python's None

AllOps == {"stop", "delete", "revert", "fork", "rename", "read", "shutdown"}

ASSUME HistoryAssumption ==
    /\ Ops \subseteq AllOps /\ Faults \subseteq {"prompt", "crash"}
    /\ MaxEvents \in Nat /\ MaxReverts \in Nat /\ MaxRuns \in Nat

\* The replayable events: notices (and tool calls, plans, token counts), the
\* parts of a prompt that are recorded, and the agent's messages.
FromUser == {"orientation", "news", "user"}
Messages == FromUser \cup {"agent"}
Events == Messages \cup {"notice"}

VARIABLES
    up,       \* the daemon: "up", shutting down ("stopping"), or "down"
    runs,     \* how often it has been started again
    rec,      \* self._records
    live,     \* the records whose agent is not None
    stage,    \* the transition a session is in
    ending,   \* and, where it gives up its agent, which one
    turn,     \* the engine's turn: none, begun, prompted ("running"), cancelled
    handled,  \* the sessions whose record.turn is the turn that runs
    meta,     \* meta.toml of each session
    file,     \* transcript.jsonl: its lines, and what a crash did to its end
    writes,   \* what the step that is being taken still has to write
    epoch,    \* how often the transcript of a session has been rewritten
    gone,     \* the sessions announced as removed
    carried,  \* what the prompt of the turn carries beside the user's words
    context,  \* the live sessions whose agent knows the conversation
    cut       \* the turns that ended with the daemon, until the session is told

memory == <<rec, live, stage, ending, turn, handled>>
disk == <<meta, file, epoch, gone>>
knowledge == <<carried, context, cut>>
vars == <<up, runs, memory, disk, writes, knowledge>>

-----------------------------------------------------------------------------
(***************************************************************************)
(* The record.                                                             *)
(***************************************************************************)
NoEnding == [kind |-> "none", at |-> 0, kept |-> <<>>]

Spoken(r) ==
    r.transcript # None /\ \E i \in DOMAIN r.transcript : r.transcript[i] \in Messages

Keeps_CacheOnly(r) == ~r.ephemeral /\ (r.named \/ Spoken(r))
Keeps(r) == ~r.ephemeral /\ (r.persisted \/ r.named \/ Spoken(r))

\* record.stored, as far as a restart reads it.
Stored(r) ==
    [named |-> r.named, oriented |-> r.oriented,
     turnOpen |-> r.openTurn # "none", acp |-> r.acp]

\* load_persisted and _adopt_interrupted_turn.
Restored_Misnamed(m) ==
    [named |-> m.named, ephemeral |-> FALSE, persisted |-> TRUE,
     oriented |-> m.oriented, transcript |-> None, acp |-> m.acp,
     openTurn |-> IF m.turnOpen THEN "interrupted" ELSE "none", pending |-> FALSE]
Restored(m) ==
    [named |-> m.named, ephemeral |-> FALSE, persisted |-> TRUE,
     oriented |-> m.oriented, transcript |-> None, acp |-> m.acp,
     openTurn |-> IF m.turnOpen THEN "owed" ELSE "none", pending |-> FALSE]

\* record.release: the cache goes, and with it what was owed to the agent.
Released_Marker(r) ==
    [r EXCEPT !.transcript = None, !.pending = FALSE, !.openTurn = "none"]
Released(r) == [r EXCEPT !.transcript = None, !.pending = FALSE]

(***************************************************************************)
(* The store.  A line torn by a crash is skipped, together with the line   *)
(* that is then appended behind it.                                        *)
(***************************************************************************)
Whole(lines) == [lines |-> lines, tail |-> "clean"]

ReadBack(s) == file[s].lines

Appended(f, e) ==
    IF f.tail = "torn" THEN [f EXCEPT !.tail = "swallowed"]
                       ELSE [f EXCEPT !.lines = Append(@, e)]

\* _ensure_transcript.
Loaded_CacheOnly(s, r) == IF r.transcript = None THEN <<>> ELSE r.transcript
Loaded(s, r) == IF r.transcript = None THEN ReadBack(s) ELSE r.transcript

Read(s, r) == [r EXCEPT !.transcript = Loaded(s, r)]

\* Python's lines[:n].
Slice(lines, n) == SubSeq(lines, 1, IF n < Len(lines) THEN n ELSE Len(lines))

(***************************************************************************)
(* The code of one step, so far: the record as it is, and the writes.      *)
(***************************************************************************)
Write(kind, s, value) == [kind |-> kind, session |-> s, value |-> value]

Block(r) == [rec |-> r, out |-> <<>>]

\* _persist_meta.
Persisted(s, b) ==
    IF Keeps(b.rec)
    THEN [rec |-> [b.rec EXCEPT !.persisted = TRUE],
          out |-> Append(b.out, Write("meta", s, Stored(b.rec)))]
    ELSE b

\* _emit of a replayable event: into the cache, and to disk if it is kept.
Emitted(s, b, e) ==
    LET r == [Read(s, b.rec) EXCEPT !.transcript = Append(@, e)]
        p == Persisted(s, [b EXCEPT !.rec = r])
    IN  IF Keeps(r)
        THEN [p EXCEPT !.out = Append(@, Write("append", s, e))]
        ELSE p

EmittedIf(condition, s, b, e) == IF condition THEN Emitted(s, b, e) ELSE b

\* _emit of turn_started and turn_ended.
Marked_InMemory(s, b, marker) == [b EXCEPT !.rec.openTurn = marker]
Marked(s, b, marker) == Persisted(s, [b EXCEPT !.rec.openTurn = marker])

Do(s, b) == rec' = [rec EXCEPT ![s] = b.rec] /\ writes' = b.out

\* An event of a session that is no longer in _records reaches the bus only.
DoIfKnown(s, b) == IF rec[s] = None THEN UNCHANGED <<rec, writes>> ELSE Do(s, b)

\* store.delete, and then the session_removed event.
Removal_AnnouncedFirst(s) == <<Write("removed", s, None), Write("delete", s, None)>>
Removal(s) == <<Write("delete", s, None), Write("removed", s, None)>>

-----------------------------------------------------------------------------
Init ==
    /\ up = "up" /\ runs = 0
    /\ rec = [s \in Sessions |-> None]
    /\ live = {} /\ handled = {}
    /\ stage = [s \in Sessions |-> "unborn"]
    /\ ending = [s \in Sessions |-> NoEnding]
    /\ turn = [s \in Sessions |-> "none"]
    /\ meta = [s \in Sessions |-> None]
    /\ file = [s \in Sessions |-> Whole(<<>>)]
    /\ epoch = [s \in Sessions |-> 0]
    /\ writes = <<>>
    /\ gone = {} /\ context = {} /\ cut = {}
    /\ carried = [s \in Sessions |-> {}]

\* The event loop takes its next step: the last one has written everything,
\* and a turn that has begun has sent its prompt.
Runs == up # "down" /\ writes = <<>> /\ \A s \in Sessions : turn[s] # "begun"

\* A client's action finds the session, and its lock free.
Free(s) == Runs /\ up = "up" /\ rec[s] # None /\ stage[s] = "free"

Room(s) == Len(Loaded(s, rec[s])) < MaxEvents

-----------------------------------------------------------------------------
(***************************************************************************)
(* add_session.  Without a slot the session is stored, and told to wait.   *)
(***************************************************************************)
NewRecord(named, ephemeral) ==
    [named |-> named, ephemeral |-> ephemeral, persisted |-> FALSE,
     oriented |-> FALSE, transcript |-> None, acp |-> None,
     openTurn |-> "none", pending |-> FALSE]

Create(s, named, ephemeral) ==
    LET b == Persisted(s, Block(NewRecord(named, ephemeral))) IN
    /\ Runs /\ up = "up" /\ stage[s] = "unborn"
    /\ \/ /\ Do(s, b)
          /\ live' = live \cup {s}
          /\ stage' = [stage EXCEPT ![s] = "starting"]
       \/ /\ Do(s, Emitted(s, b, "notice"))
          /\ stage' = [stage EXCEPT ![s] = "free"]
          /\ UNCHANGED live
    /\ UNCHANGED <<up, runs, ending, turn, handled, disk, knowledge>>

\* The new agent's session id, and a notice for an option that is not there.
Started(s, warned) ==
    LET b == EmittedIf(warned, s, Block([rec[s] EXCEPT !.acp = epoch[s]]), "notice") IN
    /\ Runs /\ stage[s] = "starting" /\ s \in live
    /\ Do(s, Persisted(s, b))
    /\ context' = context \cup {s}
    /\ stage' = [stage EXCEPT ![s] = "free"]
    /\ UNCHANGED <<up, runs, live, ending, turn, handled, disk, carried, cut>>

StartFails(s) ==
    /\ Runs /\ stage[s] = "starting"
    /\ rec' = [rec EXCEPT ![s] = None]
    /\ writes' = Removal(s)
    /\ live' = live \ {s}
    /\ stage' = [stage EXCEPT ![s] = "free"]
    /\ UNCHANGED <<up, runs, ending, turn, handled, disk, knowledge>>

(***************************************************************************)
(* _resume_locked.                                                         *)
(***************************************************************************)
Resume(s) ==
    /\ Free(s) /\ s \notin live /\ Room(s)
    /\ live' = live \cup {s}
    /\ stage' = [stage EXCEPT ![s] = "resuming"]
    /\ UNCHANGED <<up, runs, rec, ending, turn, handled, disk, writes, knowledge>>

\* _enqueue, when no slot is free: the session is told that it waits.
Waits(s) ==
    /\ Free(s) /\ s \notin live /\ Room(s)
    /\ Do(s, Emitted(s, Block(rec[s]), "notice"))
    /\ UNCHANGED <<up, runs, live, stage, ending, turn, handled, disk, knowledge>>

\* A backend that has not loaded its own history is owed ours.
Owes_Unread(s, loaded) == ~loaded /\ rec[s].transcript \notin {None, <<>>}
Owes(s, loaded) == ~loaded /\ Loaded(s, rec[s]) # <<>>

Owed(r, owes) == [r EXCEPT !.pending = @ \/ owes]

Resumed(s, loaded, warned) ==
    LET r == [rec[s] EXCEPT !.acp = IF loaded THEN @ ELSE epoch[s]]
        b == Persisted(s, EmittedIf(warned, s, Block(r), "notice"))
        owes == Owes(s, loaded)
        shown == [b EXCEPT !.rec = Owed(Read(s, b.rec), owes)]
    IN
    /\ Runs /\ stage[s] = "resuming" /\ s \in live
    /\ loaded => rec[s].acp # None
    /\ Do(s, EmittedIf(owes, s, shown, "notice"))
    /\ context' = IF loaded \/ Loaded(s, rec[s]) = <<>>
                  THEN context \cup {s} ELSE context \ {s}
    /\ stage' = [stage EXCEPT ![s] = "free"]
    /\ UNCHANGED <<up, runs, live, ending, turn, handled, disk, carried, cut>>

\* A native load that failed has cost the backend's id as well.
ResumeFails(s) ==
    /\ Runs /\ stage[s] = "resuming"
    /\ rec' = [rec EXCEPT ![s].acp = None]
    /\ live' = live \ {s}
    /\ stage' = [stage EXCEPT ![s] = "free"]
    /\ UNCHANGED <<up, runs, ending, turn, handled, disk, writes, knowledge>>

-----------------------------------------------------------------------------
(***************************************************************************)
(* A turn.  _begin_turn collects what is owed to the session, and the first*)
(* step of AgentSession.send records the parts and the start of the turn.  *)
(***************************************************************************)
\* _orientation_parts writes down that the session has been told.
Told(s) ==
    IF rec[s].oriented THEN Block(rec[s])
    ELSE Persisted(s, Block([rec[s] EXCEPT !.oriented = TRUE]))

\* _interrupted_parts, and pending_context.
Collected(b) ==
    [b EXCEPT !.rec.openTurn = IF @ = "owed" THEN "open" ELSE @,
              !.rec.pending = FALSE]

BeginTurn(s) ==
    LET r == rec[s]
        told == Collected(Told(s))
        oriented == EmittedIf(~r.oriented, s, told, "orientation")
        newsed == EmittedIf(r.openTurn = "owed", s, oriented, "news")
    IN
    /\ Free(s) /\ s \in live /\ Room(s) /\ turn[s] = "none"
    /\ Do(s, Marked(s, Emitted(s, newsed, "user"), "open"))
    /\ turn' = [turn EXCEPT ![s] = "begun"]
    /\ \/ handled' = handled \cup {s}
       \/ handled' = handled \ {s}  \* begun behind the handle of another
    /\ carried' = [carried EXCEPT ![s] =
                     {x \in {"news", "context"} :
                        \/ x = "news" /\ r.openTurn = "owed"
                        \/ x = "context" /\ r.pending}]
    /\ UNCHANGED <<up, runs, live, stage, ending, disk, context, cut>>

\* The engine is busy: the parts have been collected, and are refused.
Refused(s) ==
    /\ Free(s) /\ s \in live /\ Room(s) /\ turn[s] = "running"
    /\ Do(s, Emitted(s, Collected(Told(s)), "notice"))
    /\ UNCHANGED <<up, runs, live, stage, ending, turn, handled, disk, knowledge>>

\* With the turn's start on disk, the prompt goes out.
Prompt(s) ==
    /\ up # "down" /\ writes = <<>> /\ turn[s] = "begun"
    /\ turn' = [turn EXCEPT ![s] = "running"]
    /\ cut' = IF "news" \in carried[s] THEN {c \in cut : c[1] # s} ELSE cut
    /\ UNCHANGED <<up, runs, rec, live, stage, ending, handled, disk, writes,
                   carried, context>>

TurnEvent(s, e) ==
    /\ Runs /\ turn[s] = "running"
    /\ rec[s] # None => Room(s)
    /\ DoIfKnown(s, Emitted(s, Block(rec[s]), e))
    /\ UNCHANGED <<up, runs, live, stage, ending, turn, handled, disk, knowledge>>

\* The agent answers, the turn is cancelled, or the prompt fails: always when
\* its connection is closed.
TurnEnds(s, failed) ==
    /\ Runs /\ turn[s] \in {"running", "cancelled"}
    /\ failed => turn[s] = "running" /\ ("prompt" \in Faults \/ s \notin live)
    /\ DoIfKnown(s, Marked(s, EmittedIf(failed, s, Block(rec[s]), "notice"), "none"))
    /\ turn' = [turn EXCEPT ![s] = "none"]
    /\ handled' = handled \ {s}
    /\ context' = IF ~failed /\ s \in live /\ "context" \in carried[s]
                  THEN context \cup {s} ELSE context
    /\ carried' = [carried EXCEPT ![s] = {}]
    /\ UNCHANGED <<up, runs, live, stage, ending, disk, cut>>

-----------------------------------------------------------------------------
(***************************************************************************)
(* The transitions that give up the agent: stop, delete and revert.        *)
(***************************************************************************)
GiveUp(s, kind, at) ==
    /\ rec' = [rec EXCEPT ![s] = IF kind = "delete" THEN None ELSE Released(@)]
    /\ ending' = [ending EXCEPT ![s] =
                    [kind |-> kind, at |-> at,
                     kept |-> IF kind = "revert"
                              THEN Slice(Loaded(s, rec[s]), at) ELSE <<>>]]
    /\ live' = live \ {s}
    /\ context' = context \ {s}
    /\ stage' = [stage EXCEPT ![s] = "closing"]
    /\ UNCHANGED <<up, runs, turn, handled, disk, writes, carried, cut>>

\* _settle_turn, when record.turn runs.
Settle(s, kind, at) ==
    /\ Do(s, Emitted(s, Block(rec[s]), "notice"))
    /\ ending' = [ending EXCEPT ![s] = [kind |-> kind, at |-> at, kept |-> <<>>]]
    /\ turn' = [turn EXCEPT ![s] = "cancelled"]
    /\ handled' = handled \ {s}
    /\ stage' = [stage EXCEPT ![s] = "settling"]
    /\ UNCHANGED <<up, runs, live, disk, knowledge>>

End(s, kind, at) ==
    /\ Free(s)
    /\ IF s \in handled THEN Settle(s, kind, at) ELSE GiveUp(s, kind, at)

\* Stopping a session with nothing worth keeping is deleting it.
Stop(s) == "stop" \in Ops /\ Free(s) /\ End(s, IF Keeps(rec[s]) THEN "stop" ELSE "delete", 0)

Delete(s) == "delete" \in Ops /\ End(s, "delete", 0)

Revert(s) ==
    /\ "revert" \in Ops /\ Free(s) /\ epoch[s] < MaxReverts
    /\ \E i \in DOMAIN Loaded(s, rec[s]) :
          Loaded(s, rec[s])[i] \in FromUser /\ End(s, "revert", i - 1)

Settled(s) ==
    /\ Runs /\ stage[s] = "settling" /\ turn[s] = "none"
    /\ GiveUp(s, ending[s].kind, ending[s].at)

\* The backend's id of the history that is rewritten goes too.
Reverted_KeepsBackend(r, kept) == [r EXCEPT !.transcript = kept]
Reverted(r, kept) == [r EXCEPT !.transcript = kept, !.acp = None]

\* agent.stop() has returned, and no turn outlives its connection.
Closed(s) ==
    LET kind == ending[s].kind
        kept == ending[s].kept
    IN
    /\ Runs /\ stage[s] = "closing" /\ turn[s] = "none"
    /\ \/ kind = "delete" /\ writes' = Removal(s) /\ UNCHANGED rec
       \/ kind = "stop" /\ Do(s, Persisted(s, Block(rec[s])))
       \/ /\ kind = "revert"
          /\ LET b == Block(Reverted(rec[s], kept)) IN
             Do(s, IF rec[s].persisted
                   THEN Persisted(s, [b EXCEPT !.out = <<Write("rewrite", s, kept)>>])
                   ELSE b)
    /\ ending' = [ending EXCEPT ![s] = NoEnding]
    /\ stage' = [stage EXCEPT ![s] = "free"]
    /\ UNCHANGED <<up, runs, live, turn, handled, disk, knowledge>>

-----------------------------------------------------------------------------
Rename(s) ==
    /\ "rename" \in Ops /\ Free(s)
    /\ Do(s, Persisted(s, Block([rec[s] EXCEPT !.named = TRUE])))
    /\ UNCHANGED <<up, runs, live, stage, ending, turn, handled, disk, knowledge>>

\* open_session and transcript take no lock.
ReadTranscript(s) ==
    /\ "read" \in Ops /\ Runs /\ up = "up" /\ rec[s] # None
    /\ rec' = [rec EXCEPT ![s] = Read(s, @)]
    /\ UNCHANGED <<up, runs, live, stage, ending, turn, handled, disk, writes, knowledge>>

Forked_MetaOnly(n, r) ==
    [rec |-> r, out |-> <<Write("meta", n, Stored(r))>>]
Forked(n, r) ==
    [rec |-> r, out |-> <<Write("meta", n, Stored(r)), Write("rewrite", n, r.transcript)>>]

Fork(s, n) ==
    /\ "fork" \in Ops /\ Free(s) /\ stage[n] = "unborn"
    /\ \E at \in 0 .. Len(Loaded(s, rec[s])) :
          LET fork == [NewRecord(TRUE, FALSE) EXCEPT
                         !.persisted = TRUE, !.oriented = rec[s].oriented,
                         !.transcript = Slice(Loaded(s, rec[s]), at)]
              b == Forked(n, fork)
          IN  /\ rec' = [rec EXCEPT ![s] = Read(s, @), ![n] = b.rec]
              /\ writes' = b.out
    /\ stage' = [stage EXCEPT ![n] = "free"]
    /\ UNCHANGED <<up, runs, live, ending, turn, handled, disk, knowledge>>

-----------------------------------------------------------------------------
(***************************************************************************)
(* The disk, and the end of the process.                                   *)
(***************************************************************************)
Flush ==
    LET w == Head(writes)
        s == w.session
    IN
    /\ writes # <<>>
    /\ writes' = Tail(writes)
    /\ meta' = CASE w.kind = "meta" -> [meta EXCEPT ![s] = w.value]
                 [] w.kind = "delete" -> [meta EXCEPT ![s] = None]
                 [] OTHER -> meta
    /\ file' = CASE w.kind = "append" -> [file EXCEPT ![s] = Appended(@, w.value)]
                 [] w.kind = "rewrite" -> [file EXCEPT ![s] = Whole(w.value)]
                 [] w.kind = "delete" -> [file EXCEPT ![s] = Whole(<<>>)]
                 [] OTHER -> file
    /\ epoch' = IF w.kind = "rewrite" THEN [epoch EXCEPT ![s] = @ + 1] ELSE epoch
    /\ gone' = IF w.kind = "removed" THEN gone \cup {s} ELSE gone
    /\ UNCHANGED <<up, runs, memory, knowledge>>

\* The turns that the end of this process cuts off, by a crash or a shutdown.
CutOff(how) ==
    {s \in Sessions : turn[s] = "running" /\ rec[s] # None /\ Keeps(rec[s])} \X {how}

Forgotten ==
    /\ up' = "down"
    /\ rec' = [s \in Sessions |-> None]
    /\ live' = {} /\ handled' = {} /\ context' = {}
    /\ stage' = [s \in Sessions |-> IF stage[s] = "unborn" THEN "unborn" ELSE "free"]
    /\ ending' = [s \in Sessions |-> NoEnding]
    /\ turn' = [s \in Sessions |-> "none"]
    /\ carried' = [s \in Sessions |-> {}]
    /\ writes' = <<>>
    /\ UNCHANGED <<runs, epoch, gone>>

\* A kill in the middle of the first of the writes.  meta.toml and a rewritten
\* transcript are replaced whole; an appended line may be torn, and a
\* directory removed in part.
Killed ==
    LET w == Head(writes)
        s == w.session
    IN
    \/ UNCHANGED <<meta, file>>
    \/ /\ writes # <<>> /\ w.kind = "append"
       /\ file' = [file EXCEPT ![s].tail = "torn"]
       /\ UNCHANGED meta
    \/ /\ writes # <<>> /\ w.kind = "delete"
       /\ \/ meta' = [meta EXCEPT ![s] = None] /\ UNCHANGED file
          \/ file' = [file EXCEPT ![s] = Whole(<<>>)] /\ UNCHANGED meta

Crash ==
    /\ "crash" \in Faults /\ up # "down" /\ runs < MaxRuns
    /\ cut' = cut \cup CutOff("crash")
    /\ Killed
    /\ Forgotten

\* shutdown gives every agent up, and each turn ends as its connection closes.
Shutdown ==
    /\ "shutdown" \in Ops /\ Runs /\ up = "up" /\ runs < MaxRuns
    /\ up' = "stopping"
    /\ live' = {} /\ context' = {}
    /\ cut' = cut \cup CutOff("shutdown")
    /\ UNCHANGED <<runs, rec, stage, ending, turn, handled, disk, writes, carried>>

Exit ==
    /\ up = "stopping" /\ Runs
    /\ \A s \in Sessions : turn[s] = "none"
    /\ UNCHANGED <<cut, meta, file>>
    /\ Forgotten

\* load_persisted.
Restart ==
    /\ up = "down"
    /\ up' = "up"
    /\ runs' = runs + 1
    /\ rec' = [s \in Sessions |-> IF meta[s] = None THEN None ELSE Restored(meta[s])]
    /\ UNCHANGED <<live, stage, ending, turn, handled, disk, writes, knowledge>>

-----------------------------------------------------------------------------
Next ==
    \/ \E s \in Sessions :
        \/ \E named, ephemeral \in BOOLEAN : Create(s, named, ephemeral)
        \/ \E warned \in BOOLEAN : Started(s, warned)
        \/ StartFails(s)
        \/ Resume(s) \/ Waits(s) \/ ResumeFails(s)
        \/ \E loaded, warned \in BOOLEAN : Resumed(s, loaded, warned)
        \/ BeginTurn(s) \/ Refused(s) \/ Prompt(s)
        \/ \E e \in {"agent", "notice"} : TurnEvent(s, e)
        \/ \E failed \in BOOLEAN : TurnEnds(s, failed)
        \/ Stop(s) \/ Delete(s) \/ Revert(s)
        \/ Settled(s) \/ Closed(s)
        \/ Rename(s) \/ ReadTranscript(s)
        \/ \E n \in Sessions : Fork(s, n)
    \/ Flush \/ Crash \/ Shutdown \/ Exit \/ Restart

Spec == Init /\ [][Next]_vars

-----------------------------------------------------------------------------
(***************************************************************************)
(* Types.                                                                  *)
(***************************************************************************)
Records ==
    [named : BOOLEAN, ephemeral : BOOLEAN, persisted : BOOLEAN,
     oriented : BOOLEAN, transcript : Seq(Events) \cup {None},
     acp : Nat \cup {None}, openTurn : {"none", "open", "owed"},
     pending : BOOLEAN]

Metas == [named : BOOLEAN, oriented : BOOLEAN, turnOpen : BOOLEAN, acp : Nat \cup {None}]

ASSUME NoneAssumption == None \notin Records \cup Metas \cup Seq(Events) \cup Nat

\* What a step leaves to be written.
DiskWrites ==
    [kind : {"meta"}, session : Sessions, value : Metas]
    \cup [kind : {"append"}, session : Sessions, value : Events]
    \cup [kind : {"rewrite"}, session : Sessions, value : Seq(Events)]
    \cup [kind : {"delete", "removed"}, session : Sessions, value : {None}]

MemoryOK ==
    /\ up \in {"up", "stopping", "down"} /\ runs \in Nat
    /\ rec \in [Sessions -> Records \cup {None}]
    /\ live \subseteq Sessions /\ handled \subseteq Sessions
    /\ stage \in [Sessions -> {"unborn", "free", "starting", "resuming",
                              "settling", "closing"}]
    /\ ending \in [Sessions -> [kind : {"none", "stop", "delete", "revert"},
                                at : Nat, kept : Seq(Events)]]
    /\ turn \in [Sessions -> {"none", "begun", "running", "cancelled"}]

DiskOK ==
    /\ meta \in [Sessions -> Metas \cup {None}]
    /\ file \in [Sessions -> [lines : Seq(Events), tail : {"clean", "torn", "swallowed"}]]
    /\ writes \in Seq(DiskWrites)
    /\ epoch \in [Sessions -> Nat] /\ gone \subseteq Sessions

KnowledgeOK ==
    /\ carried \in [Sessions -> SUBSET {"news", "context"}]
    /\ context \subseteq Sessions /\ cut \subseteq Sessions \X {"crash", "shutdown"}

\* The type invariant: what is restored from a file is again a record.
TypeOK == MemoryOK /\ DiskOK /\ KnowledgeOK

-----------------------------------------------------------------------------
(***************************************************************************)
(* Safety.                                                                 *)
(***************************************************************************)
Cached(s) == rec[s] # None /\ Keeps(rec[s]) /\ rec[s].transcript # None

\* What was said is on disk: whatever stops, reverts, forks, restarts and late
\* events the cached transcript has been through, the file is the end of it,
\* and what it lacks at the beginning are notices from before there was
\* anything to keep; so dropping the cache loses no message.  (Until the file
\* has swallowed a line behind one that a crash tore.)
SaidIsOnDisk ==
    \A s \in Sessions :
        Runs /\ Cached(s) /\ file[s].tail # "swallowed" =>
            LET said == rec[s].transcript
                lines == file[s].lines
            IN  /\ IsSuffix(lines, said)
                /\ \A i \in 1 .. Len(said) - Len(lines) : said[i] \notin Messages

\* The metadata a restart would read is what the daemon knows: no change of a
\* name, of the orientation or of an open turn stays in memory only.
MetaCurrent ==
    \A s \in Sessions :
        Runs /\ rec[s] # None /\ Keeps(rec[s]) =>
            /\ meta[s] # None
            /\ meta[s].named = rec[s].named
            /\ meta[s].oriented = rec[s].oriented
            /\ meta[s].turnOpen = (rec[s].openTurn # "none")

\* A stop never deletes what a write saved: a session that is on disk is one
\* that keeps its state, though its cache has been dropped or never read.
StopKeepsWhatIsSaved ==
    \A s \in Sessions : rec[s] # None /\ meta[s] # None => Keeps(rec[s])

\* A session announced as removed is not there, not on disk, and not after a
\* restart, whatever turn still ran on it and wherever the daemon died.
RemovedStaysRemoved ==
    \A s \in gone : rec[s] = None /\ meta[s] = None /\ file[s] = Whole(<<>>)

\* A turn that a crash cut off is reported to its session: no prompt is sent
\* to it before one that carries the news, though the session is stopped,
\* reverted or restarted again in between.
InterruptedIsTold ==
    \A s \in Sessions : up = "up" /\ turn[s] = "running" => <<s, "crash">> \notin cut

\* No agent is prompted that does not know the conversation and is not told
\* it now: a backend that cannot load its history is sent ours.
AgentKnowsConversation ==
    \A s \in live :
        turn[s] = "running" => s \in context \/ "context" \in carried[s]

\* The history a live backend has is the one in the transcript, not one that
\* a revert has rewritten.
HistoryIsCurrent ==
    \A s \in live : stage[s] = "free" => rec[s].acp = epoch[s]

=============================================================================
