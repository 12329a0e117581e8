---------------------------- MODULE TelegramTopics ----------------------------
(***************************************************************************)
(* The forum as a mirror of the daemon's sessions (bot.py): every session  *)
(* has a topic, titled like it.  The task of the daemon's events and the   *)
(* reconciler of the connection run beside each other; both create and     *)
(* retitle topics, under _topic_lock, each with one call to Telegram.      *)
(*                                                                         *)
(* The daemon is its list of sessions and the events of its changes.  A    *)
(* topic is a number, in the order of creation.  _bind, _unbind and the    *)
(* record of a title write topics.json in the same step, so what a restart *)
(* reads is what the memory was.                                           *)
(***************************************************************************)
EXTENDS Naturals, FiniteSets, SequencesExt

CONSTANTS
    Sessions,
    MaxTopics,   \* topics created
    MaxChanges,  \* changes of the daemon's sessions
    MaxDrops,    \* connections lost
    Deletions,   \* whether the user deletes topics by hand
    None

ASSUME TopicsAssumption ==
    /\ MaxTopics \in Nat /\ MaxChanges \in Nat /\ MaxDrops \in Nat
    /\ Deletions \in BOOLEAN

Tasks == {"events", "reconciler"}

VARIABLES
    names,    \* the daemon: session -> its name, a number that grows, or None
    stream,   \* events on their way
    link,     \* the connection is up
    topics,   \* self._topics
    titles,   \* self._topic_names
    lock,     \* who holds _topic_lock
    job,      \* what each task is doing
    todo,     \* sessions the reconciler has yet to look at, as it was told of them
    forum,    \* topic -> its session and title, and whether it is there
    changes, drops,
    used,     \* ghost: the session ids given out, none of them twice
    cut,      \* ghost: sessions whose topic a connection lost in a call has retitled
    stale     \* ghost: something has changed since the connection was made

bot == <<topics, titles, lock, job, todo>>
ghosts == <<changes, drops, used, cut, stale>>
vars == <<names, stream, link, bot, forum, ghosts>>

At(t, stage) == job[t] # None /\ job[t].stage = stage
Live(sessions) == {s \in Sessions : sessions[s] # None}
Topic(s) == forum[topics[s]]

Init ==
    /\ names = [s \in Sessions |-> None] /\ stream = <<>> /\ link = FALSE
    /\ topics = [s \in Sessions |-> None] /\ titles = [s \in Sessions |-> None]
    /\ lock = None /\ job = [t \in Tasks |-> None] /\ todo = None
    /\ forum = <<>>
    /\ changes = 0 /\ drops = 0 /\ used = {} /\ cut = {} /\ stale = FALSE

-----------------------------------------------------------------------------
(***************************************************************************)
(* The daemon's sessions change, and the user deletes topics.              *)
(***************************************************************************)
Changed(s, type) ==
    /\ changes < MaxChanges /\ changes' = changes + 1 /\ stale' = link
    /\ stream' = IF link
                 THEN Append(stream, [type |-> type, session |-> s, name |-> names'[s]])
                 ELSE stream
    /\ UNCHANGED <<link, bot, forum, drops, cut>>

Added(s) ==
    /\ s \notin used /\ used' = used \cup {s}
    /\ names' = [names EXCEPT ![s] = changes]
    /\ Changed(s, "session_added")

Renamed(s) ==
    /\ names[s] # None /\ names' = [names EXCEPT ![s] = changes]
    /\ Changed(s, "session_updated") /\ used' = used

Removed(s) ==
    /\ names[s] # None /\ names' = [names EXCEPT ![s] = None]
    /\ Changed(s, "session_removed") /\ used' = used

\* A turn of the session ends, and its reply is sent to the topic.
Replied(s) ==
    /\ Deletions /\ names[s] # None /\ names' = names
    /\ Changed(s, "turn_ended") /\ used' = used

TopicDeleted(n) ==
    /\ Deletions /\ forum[n].there
    /\ forum' = [forum EXCEPT ![n].there = FALSE]
    /\ stale' = TRUE
    /\ UNCHANGED <<names, stream, link, bot, changes, drops, used, cut>>

-----------------------------------------------------------------------------
(***************************************************************************)
(* A connection.  The tasks of the last one are cancelled where they are;  *)
(* a call that Telegram has received is not.                               *)
(***************************************************************************)
Connect ==
    /\ ~link /\ link' = TRUE /\ stale' = FALSE
    /\ job' = [job EXCEPT !["reconciler"] = [stage |-> "listing"]]
    /\ UNCHANGED <<names, stream, topics, titles, lock, todo, forum, changes, drops, used, cut>>

Drop ==
    /\ link /\ drops < MaxDrops /\ drops' = drops + 1
    /\ link' = FALSE /\ stream' = <<>>
    /\ job' = [t \in Tasks |-> None] /\ lock' = None /\ todo' = None
    /\ cut' = cut \cup {job[t].session : t \in {u \in Tasks : At(u, "titled")}}
    /\ UNCHANGED <<names, topics, titles, forum, changes, used, stale>>

-----------------------------------------------------------------------------
(***************************************************************************)
(* _ensure_topic and _apply_title: what the task knew of the session when  *)
(* it came for the lock, the check under the lock, the call and the record *)
(* of it.                                                                  *)
(***************************************************************************)
Ensure(s, name) ==
    IF topics[s] # None THEN None
    ELSE [stage |-> "lock", session |-> s, title |-> name, topic |-> None]

ApplyTitle(s, name) ==
    IF topics[s] = None THEN None
    ELSE [stage |-> "lock", session |-> s, title |-> name, topic |-> topics[s]]

\* What remains to be done is asked again under the lock.
Needed_Unchecked(j) == TRUE
Needed(j) == IF j.topic = None THEN topics[j.session] = None
                               ELSE titles[j.session] # j.title

\* The lock after a task has left it, however it did.
Unlocked_OnSuccess(t) == IF At(t, "refused") THEN t ELSE None
Unlocked(t) == None

TakeLock(t) ==
    /\ At(t, "lock") /\ lock = None
    /\ IF Needed(job[t])
       THEN lock' = t /\ job' = [job EXCEPT ![t].stage = "call"]
       ELSE lock' = Unlocked(t) /\ job' = [job EXCEPT ![t] = None]
    /\ UNCHANGED <<names, stream, link, topics, titles, todo, forum, ghosts>>

\* createForumTopic and editForumTopic, received by Telegram.
Call(t) ==
    /\ At(t, "call")
    /\ IF job[t].topic = None
       THEN /\ Len(forum) < MaxTopics
            /\ forum' = Append(forum, [session |-> job[t].session, title |-> job[t].title,
                                       there |-> TRUE])
            /\ job' = [job EXCEPT ![t].stage = "created", ![t].topic = Len(forum')]
       ELSE IF forum[job[t].topic].there
       THEN /\ forum' = [forum EXCEPT ![job[t].topic].title = job[t].title]
            /\ job' = [job EXCEPT ![t].stage = "titled"]
       ELSE /\ forum' = forum
            /\ job' = [job EXCEPT ![t].stage = "refused"]
    /\ UNCHANGED <<names, stream, link, topics, titles, lock, todo, ghosts>>

Titled_ByRenames(j) ==
    IF j.stage = "titled" THEN [titles EXCEPT ![j.session] = j.title] ELSE titles
Titled(j) ==
    IF j.stage = "refused" THEN titles ELSE [titles EXCEPT ![j.session] = j.title]

Record(t) ==
    /\ job[t] # None /\ job[t].stage \in {"created", "titled", "refused"}
    /\ topics' = IF job[t].stage = "created"
                 THEN [topics EXCEPT ![job[t].session] = job[t].topic] ELSE topics
    /\ titles' = Titled(job[t])
    /\ lock' = Unlocked(t) /\ job' = [job EXCEPT ![t] = None]
    /\ UNCHANGED <<names, stream, link, todo, forum, ghosts>>

\* _unbind: without the lock.
Unbound(unbound) ==
    /\ topics' = [s \in Sessions |-> IF s \in unbound THEN None ELSE topics[s]]
    /\ titles' = [s \in Sessions |->
                     IF s \in unbound /\ topics[s] # None THEN None ELSE titles[s]]

-----------------------------------------------------------------------------
(***************************************************************************)
(* The events, one at a time.                                              *)
(***************************************************************************)
Takes(type) ==
    /\ stream # <<>> /\ job["events"] = None
    /\ Head(stream).type = type /\ stream' = Tail(stream)

OnAdded ==
    /\ Takes("session_added")
    /\ job' = [job EXCEPT !["events"] = Ensure(Head(stream).session, Head(stream).name)]
    /\ UNCHANGED <<names, link, topics, titles, lock, todo, forum, ghosts>>

OnUpdated ==
    /\ Takes("session_updated")
    /\ job' = [job EXCEPT !["events"] = ApplyTitle(Head(stream).session, Head(stream).name)]
    /\ UNCHANGED <<names, link, topics, titles, lock, todo, forum, ghosts>>

\* The topic is unbound, and then deleted.
OnRemoved ==
    /\ Takes("session_removed")
    /\ LET thread == topics[Head(stream).session] IN
       job' = [job EXCEPT !["events"] =
                  IF thread = None THEN None ELSE [stage |-> "delete", topic |-> thread]]
    /\ Unbound({Head(stream).session})
    /\ UNCHANGED <<names, link, lock, todo, forum, ghosts>>

Delete ==
    /\ At("events", "delete")
    /\ forum' = [forum EXCEPT ![job["events"].topic].there = FALSE]
    /\ job' = [job EXCEPT !["events"] = None]
    /\ UNCHANGED <<names, stream, link, topics, titles, lock, todo, ghosts>>

\* _send_for_turn: a topic that is gone is unbound and replaced.
OnReply ==
    /\ Takes("turn_ended")
    /\ LET s == Head(stream).session IN
       IF topics[s] # None /\ ~Topic(s).there
       THEN /\ Unbound({s})
            /\ job' = [job EXCEPT !["events"] = [stage |-> "replace", session |-> s]]
       ELSE UNCHANGED <<topics, titles, job>>
    /\ UNCHANGED <<names, link, lock, todo, forum, ghosts>>

\* _replace_topic: the daemon is asked for the name; without one the id will do.
Replace ==
    /\ At("events", "replace")
    /\ LET s == job["events"].session IN
       job' = [job EXCEPT !["events"] = Ensure(s, names[s])]
    /\ UNCHANGED <<names, stream, link, topics, titles, lock, todo, forum, ghosts>>

-----------------------------------------------------------------------------
(***************************************************************************)
(* _reconcile_topics.                                                      *)
(***************************************************************************)
\* The daemon answers with its sessions; the answer has to arrive.
List ==
    /\ At("reconciler", "listing")
    /\ todo' = names /\ job' = [job EXCEPT !["reconciler"].stage = "listed"]
    /\ UNCHANGED <<names, stream, link, topics, titles, lock, forum, ghosts>>

\* Bindings of sessions that are not in the answer are dropped.
Orphans_None(listing) == {}
Orphans(listing) == Sessions \ Live(listing)

Orphan ==
    /\ At("reconciler", "listed")
    /\ Unbound(Orphans(todo))
    /\ job' = [job EXCEPT !["reconciler"] = None]
    /\ UNCHANGED <<names, stream, link, lock, todo, forum, ghosts>>

\* One session of the answer, then a pause if a call was made.
ReconcileOne(s) ==
    /\ todo # None /\ job["reconciler"] = None /\ todo[s] # None
    /\ todo' = [todo EXCEPT ![s] = None]
    /\ job' = [job EXCEPT !["reconciler"] =
                  IF topics[s] = None THEN Ensure(s, todo[s]) ELSE ApplyTitle(s, todo[s])]
    /\ UNCHANGED <<names, stream, link, topics, titles, lock, forum, ghosts>>

-----------------------------------------------------------------------------
BotStep ==
    \/ Connect \/ OnAdded \/ OnUpdated \/ OnRemoved \/ Delete \/ OnReply \/ Replace
    \/ List \/ Orphan \/ \E s \in Sessions : ReconcileOne(s)

TaskStep(t) == TakeLock(t) \/ Call(t) \/ Record(t)

Next ==
    \/ \E s \in Sessions : Added(s) \/ Renamed(s) \/ Removed(s) \/ Replied(s)
    \/ \E n \in DOMAIN forum : TopicDeleted(n)
    \/ Drop \/ BotStep \/ \E t \in Tasks : TaskStep(t)

Spec == Init /\ [][Next]_vars

\* Both tasks run, the lock is given to who waits for it, the daemon and Telegram
\* answer, and a lost connection is made again.
FairSpec ==
    /\ Spec /\ WF_vars(BotStep)
    /\ \A t \in Tasks : SF_vars(TakeLock(t)) /\ WF_vars(Call(t)) /\ WF_vars(Record(t))

-----------------------------------------------------------------------------
(***************************************************************************)
(* Properties.                                                             *)
(***************************************************************************)
Titles == 0..MaxChanges \cup {None}
Locking == {"lock", "call", "created", "titled", "refused"}
Jobs ==
    [stage : Locking, session : Sessions, title : Titles, topic : 1..MaxTopics \cup {None}]
    \cup [stage : {"listing", "listed"}]
    \cup [stage : {"delete"}, topic : 1..MaxTopics]
    \cup [stage : {"replace"}, session : Sessions]
Events ==
    [type : {"session_added", "session_updated", "session_removed", "turn_ended"},
     session : Sessions, name : Titles]

ASSUME NoneAssumption == None \notin Nat \cup Tasks \cup Jobs \cup [Sessions -> Titles]

\* Each variable has its type, and _topic_lock is held by the task that is under it,
\* from the check to the record (1682-1728, 3195-3232).
TypeOK ==
    /\ names \in [Sessions -> Titles] /\ stream \in Seq(Events) /\ link \in BOOLEAN
    /\ forum \in Seq([session : Sessions, title : Titles, there : BOOLEAN])
    /\ Len(forum) <= MaxTopics
    /\ topics \in [Sessions -> DOMAIN forum \cup {None}] /\ titles \in [Sessions -> Titles]
    /\ job \in [Tasks -> Jobs \cup {None}] /\ lock \in Tasks \cup {None}
    /\ \A t \in Tasks :
          (lock = t) = (job[t] # None
                        /\ job[t].stage \in {"call", "created", "titled", "refused"})
    /\ todo \in [Sessions -> Titles] \cup {None}
    /\ changes \in 0..MaxChanges /\ drops \in 0..MaxDrops
    /\ used \subseteq Sessions /\ cut \subseteq Sessions /\ stale \in BOOLEAN

Idle(t) == job[t] = None
Quiet ==
    /\ link /\ stream = <<>> /\ \A t \in Tasks : Idle(t)
    /\ todo # None /\ Live(todo) = {}

\* While no connection is lost, a session has one topic at most, though both tasks
\* create them and a topic deleted by hand is made again ("makes two topics for one
\* session, and the loser is unreachable", 880-884).
OneTopic ==
    drops = 0 =>
        \A m, n \in DOMAIN forum :
            /\ forum[m].there /\ forum[n].there
            /\ forum[m].session = forum[n].session /\ names[forum[m].session] # None
            => m = n

\* What the bot remembers of a topic's title is the title the topic has: it is what
\* keeps it from asking again (3209-3231).  A call on its way, and one that was cut
\* off between Telegram and the record, are the exceptions.
Calling(s) ==
    \E t \in Tasks : job[t] # None /\ job[t].stage \in {"call", "created", "titled"}
                     /\ job[t].session = s
TitleRemembered ==
    \A s \in Sessions \ cut :
        topics[s] # None /\ Topic(s).there /\ ~Calling(s) => Topic(s).title = titles[s]

\* A connection during which nothing changes leaves the forum in agreement with the
\* daemon, whatever became of the connections before it (1744-1785), but for the
\* title a lost connection wrote and did not record.
Settled ==
    Quiet /\ ~stale =>
        \A s \in Sessions :
            /\ (names[s] = None) = (topics[s] = None)
            /\ topics[s] # None /\ Topic(s).there /\ s \notin cut
               => Topic(s).title = names[s]

\* No task waits for the lock, or for Telegram, for ever (1682-1728, 3195-3232).
EveryJobEnds == \A t \in Tasks : ~Idle(t) ~> Idle(t) \/ Len(forum) = MaxTopics

=============================================================================
