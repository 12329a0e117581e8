------------------------- MODULE TelegramTopicsProofs -------------------------
(***************************************************************************)
(* Proofs about TelegramTopics, for any number of sessions, topics and     *)
(* changes: the types and the lock, that without a lost connection a       *)
(* session has one topic at most, that the title the bot remembers of a    *)
(* topic is the one it has, and that a connection in which nothing changes *)
(* leaves the forum in agreement with the daemon.                          *)
(***************************************************************************)
EXTENDS TelegramTopics, SequenceTheorems, TLAPS

\* What a task is doing fits the task, and names topics there have been.
StageOK(t) ==
    job[t] # None =>
        /\ job[t].stage \in {"listing", "listed"} => t = "reconciler"
        /\ job[t].stage \in {"delete", "replace"} => t = "events"
        /\ job[t].stage \in Locking \cup {"delete"} => job[t].topic \in DOMAIN forum \cup {None}
        /\ job[t].stage \in {"created", "titled", "refused", "delete"} => job[t].topic # None
        /\ job[t].stage = "listed" => todo # None

\* Without a connection nothing is on its way, and nothing is being done.
Offline == ~link => stream = <<>> /\ todo = None /\ \A t \in Tasks : job[t] = None

TypeInv == TypeOK /\ Offline /\ \A t \in Tasks : StageOK(t)

LockJobs ==
    [stage : Locking, session : Sessions, title : Titles, topic : 1..MaxTopics \cup {None}]
Holding == {"call", "created", "titled", "refused"}
ForumTopics == [session : Sessions, title : Titles, there : BOOLEAN]

-----------------------------------------------------------------------------
(***************************************************************************)
(* Jobs.                                                                   *)
(***************************************************************************)
\* A job under the lock, or that comes for it, has a session, a title and a topic.
LEMMA LockingJob ==
    ASSUME NEW j \in Jobs, j.stage \in Locking
    PROVE  j \in LockJobs
BY DEF Jobs, LockJobs, Locking

LEMMA JobsAreSomething ==
    /\ \A j \in Jobs : j # None
    /\ \A f \in [Sessions -> Titles] : f # None
    /\ \A n \in Nat : n # None
    /\ \A t \in Tasks : t # None
BY NoneAssumption

\* What _ensure_topic and _apply_title leave to be done is a job that comes for the lock.
LEMMA EnsureJob ==
    ASSUME TypeInv, NEW s \in Sessions, NEW name \in Titles
    PROVE  /\ Ensure(s, name) # None =>
                /\ topics[s] = None /\ Ensure(s, name) \in Jobs
                /\ Ensure(s, name) = [stage |-> "lock", session |-> s, title |-> name,
                                      topic |-> None]
           /\ ApplyTitle(s, name) # None =>
                /\ topics[s] # None /\ ApplyTitle(s, name) \in Jobs
                /\ ApplyTitle(s, name) = [stage |-> "lock", session |-> s, title |-> name,
                                          topic |-> topics[s]]
<1>1. topics[s] \in DOMAIN forum \cup {None} /\ DOMAIN forum = 1..Len(forum)
      /\ Len(forum) <= MaxTopics /\ Len(forum) \in Nat
  BY LenProperties DEF TypeInv, TypeOK
<1>2. topics[s] \in 1..MaxTopics \cup {None}
  BY <1>1, TopicsAssumption
<1> QED  BY <1>2 DEF Ensure, ApplyTitle, Jobs, Locking

-----------------------------------------------------------------------------
(***************************************************************************)
(* The type invariant.                                                     *)
(***************************************************************************)
LEMMA TypeInit == Init => TypeInv
<1> SUFFICES ASSUME Init
             PROVE  TypeInv
  OBVIOUS
<1>1. names \in [Sessions -> Titles] /\ titles \in [Sessions -> Titles]
      /\ topics \in [Sessions -> DOMAIN forum \cup {None}]
  BY DEF Init, Titles
<1>2. stream \in Seq(Events) /\ Len(forum) = 0
      /\ forum \in Seq([session : Sessions, title : Titles, there : BOOLEAN])
  BY EmptySeq DEF Init
<1>3. job \in [Tasks -> Jobs \cup {None}] /\ lock \in Tasks \cup {None}
      /\ \A t \in Tasks : job[t] = None /\ lock # t
  BY JobsAreSomething DEF Init
<1>4. \A t \in Tasks : StageOK(t)
  BY <1>3 DEF StageOK
<1>5. changes \in 0..MaxChanges /\ drops \in 0..MaxDrops /\ Len(forum) <= MaxTopics
  BY <1>2, TopicsAssumption DEF Init
<1>6. link \in BOOLEAN /\ todo = None /\ used \subseteq Sessions /\ cut \subseteq Sessions
      /\ stale \in BOOLEAN
  BY DEF Init
<1>7. Offline
  BY <1>3, <1>6 DEF Init, Offline
<1> QED  BY <1>1, <1>2, <1>3, <1>4, <1>5, <1>6, <1>7 DEF TypeInv, TypeOK

\* A change of the daemon's sessions.
LEMMA TypeDaemon ==
    ASSUME TypeInv, NEW s \in Sessions, Added(s) \/ Renamed(s) \/ Removed(s) \/ Replied(s)
    PROVE  TypeInv'
<1>1. PICK type \in {"session_added", "session_updated", "session_removed", "turn_ended"} :
         Changed(s, type)
  BY DEF Added, Renamed, Removed, Replied
<1>2. changes \in Titles /\ changes' \in 0..MaxChanges
  BY <1>1, TopicsAssumption DEF Changed, Titles, TypeInv, TypeOK
<1>3. names' \in [Sessions -> Titles] /\ used' \subseteq Sessions
  BY <1>2 DEF Added, Renamed, Removed, Replied, Titles, TypeInv, TypeOK
<1>4. [type |-> type, session |-> s, name |-> names'[s]] \in Events
  BY <1>3 DEF Events
<1>5. stream' \in Seq(Events)
  BY <1>1, <1>4, AppendProperties DEF Changed, TypeInv, TypeOK
<1>6. UNCHANGED <<link, topics, titles, lock, job, todo, forum, drops, cut>>
      /\ stale' \in BOOLEAN
  BY <1>1 DEF Changed, bot, TypeInv, TypeOK
<1>7. Offline'
  BY <1>1, <1>6 DEF Changed, TypeInv, Offline
<1> QED  BY <1>2, <1>3, <1>5, <1>6, <1>7 DEF TypeInv, TypeOK, StageOK

\* A topic's record changes, and nothing the types say of the rest.
LEMMA ForumRecord ==
    ASSUME TypeInv, NEW n \in DOMAIN forum
    PROVE  forum[n] \in [session : Sessions, title : Titles, there : BOOLEAN]
<1> DEFINE R == [session : Sessions, title : Titles, there : BOOLEAN]
<1>1. forum \in Seq(R)
  BY DEF TypeInv, TypeOK
<1>2. n \in 1..Len(forum)
  BY <1>1, LenProperties
<1> HIDE DEF R
<1>3. forum[n] \in R
  BY <1>1, <1>2, ElementOfSeq
<1> QED  BY <1>3 DEF R

LEMMA ForumChange ==
    ASSUME TypeInv, NEW n \in DOMAIN forum,
           NEW r \in [session : Sessions, title : Titles, there : BOOLEAN],
           forum' = [forum EXCEPT ![n] = r]
    PROVE  /\ forum' \in Seq([session : Sessions, title : Titles, there : BOOLEAN])
           /\ Len(forum') = Len(forum) /\ DOMAIN forum' = DOMAIN forum
BY ExceptSeq, LenProperties DEF TypeInv, TypeOK

\* The user deletes a topic.
LEMMA TypeDeletes ==
    ASSUME TypeInv, NEW n \in DOMAIN forum, TopicDeleted(n)
    PROVE  TypeInv'
<1>1. forum[n] \in [session : Sessions, title : Titles, there : BOOLEAN]
  BY ForumRecord
<1>2. PICK r \in [session : Sessions, title : Titles, there : BOOLEAN] :
         forum' = [forum EXCEPT ![n] = r]
  <2>1. [forum[n] EXCEPT !.there = FALSE] \in [session : Sessions, title : Titles, there : BOOLEAN]
    BY <1>1
  <2> QED  BY <2>1 DEF TopicDeleted
<1>3. /\ forum' \in Seq([session : Sessions, title : Titles, there : BOOLEAN])
      /\ Len(forum') = Len(forum) /\ DOMAIN forum' = DOMAIN forum
  BY <1>2, ForumChange
<1>4. UNCHANGED <<names, stream, link, topics, titles, lock, job, todo, changes, drops, used, cut>>
      /\ stale' \in BOOLEAN
  BY DEF TopicDeleted, bot
<1> QED  BY <1>3, <1>4 DEF TypeInv, TypeOK, StageOK, Offline

\* A connection is made.
LEMMA TypeConnect ==
    ASSUME TypeInv, Connect
    PROVE  TypeInv'
<1>1. [stage |-> "listing"] \in Jobs /\ [stage |-> "listing"] # None
  BY JobsAreSomething DEF Jobs
<1>2. job' \in [Tasks -> Jobs \cup {None}]
  BY <1>1 DEF Connect, TypeInv, TypeOK, Tasks
<1>3. \A t \in Tasks : StageOK(t)' /\ lock # t
  BY <1>1 DEF Connect, TypeInv, TypeOK, Offline, StageOK, Tasks, Locking
<1>4. job'["reconciler"].stage = "listing" /\ job'["events"] = None
  BY DEF Connect, TypeInv, TypeOK, Offline, Tasks
<1> QED  BY <1>2, <1>3, <1>4, <1>1 DEF Connect, TypeInv, TypeOK, Offline, Tasks

\* A connection is lost.
LEMMA TypeDrop ==
    ASSUME TypeInv, Drop
    PROVE  TypeInv'
<1>1. \A t \in Tasks : At(t, "titled") => job[t].session \in Sessions
  <2> SUFFICES ASSUME NEW t \in Tasks, At(t, "titled")
               PROVE  job[t].session \in Sessions
    OBVIOUS
  <2>1. job[t] \in Jobs /\ job[t].stage \in Locking
    BY DEF At, TypeInv, TypeOK, Locking
  <2> QED  BY <2>1, LockingJob DEF LockJobs
<1>2. cut' \subseteq Sessions
  BY <1>1 DEF Drop, TypeInv, TypeOK
<1>3. /\ stream' \in Seq(Events) /\ job' \in [Tasks -> Jobs \cup {None}]
      /\ \A t \in Tasks : job'[t] = None /\ lock' # t
      /\ lock' = None /\ todo' = None /\ stream' = <<>> /\ link' = FALSE
  BY EmptySeq, JobsAreSomething DEF Drop
<1>4. drops' \in 0..MaxDrops
  BY TopicsAssumption DEF Drop, TypeInv, TypeOK
<1>5. UNCHANGED <<names, topics, titles, forum, changes, used, stale>>
  BY DEF Drop
<1> QED  BY <1>2, <1>3, <1>4, <1>5 DEF TypeInv, TypeOK, StageOK, Offline

\* A task takes on what an event or a listing asks of it.
LEMMA TypeJob ==
    ASSUME TypeInv, link, NEW t \in Tasks, NEW j \in Jobs \cup {None},
           job' = [job EXCEPT ![t] = j], ~(job[t] # None /\ job[t].stage \in Holding),
           ~(j # None /\ j.stage \in Holding), StageOK(t)',
           forum' = forum, UNCHANGED <<names, link, lock, ghosts>>,
           stream' \in Seq(Events), todo' \in [Sessions -> Titles] \cup {None},
           todo # None => todo' # None,
           topics' \in [Sessions -> DOMAIN forum \cup {None}], titles' \in [Sessions -> Titles]
    PROVE  TypeInv'
<1>1. job' \in [Tasks -> Jobs \cup {None}] /\ job'[t] = j
      /\ \A u \in Tasks \ {t} : job'[u] = job[u]
  BY DEF TypeInv, TypeOK
<1>2. \A u \in Tasks : StageOK(u)'
  <2> SUFFICES ASSUME NEW u \in Tasks, u # t
               PROVE  StageOK(u)'
    OBVIOUS
  <2>1. job'[u] = job[u] /\ StageOK(u)
    BY <1>1 DEF TypeInv
  <2> QED  BY <2>1 DEF StageOK
<1>3. \A u \in Tasks :
         (lock' = u) = (job'[u] # None /\ job'[u].stage \in {"call", "created", "titled", "refused"})
  BY <1>1 DEF TypeInv, TypeOK, Holding
<1> QED  BY <1>1, <1>2, <1>3 DEF TypeInv, TypeOK, Offline, ghosts

\* The event that is taken, and what it leaves of the stream.
LEMMA TakesAnEvent ==
    ASSUME TypeInv, NEW type, Takes(type)
    PROVE  /\ Head(stream) \in Events /\ Head(stream).type = type
           /\ Head(stream).session \in Sessions /\ Head(stream).name \in Titles
           /\ stream' \in Seq(Events) /\ link /\ job["events"] = None
<1>1. stream \in Seq(Events) /\ stream # <<>>
  BY DEF Takes, TypeInv, TypeOK
<1>2. Head(stream) \in Events /\ Tail(stream) \in Seq(Events)
  BY <1>1, HeadTailProperties
<1>3. link
  BY <1>1 DEF TypeInv, TypeOK, Offline
<1> QED  BY <1>2, <1>3 DEF Takes, Events

LEMMA UnboundTypes ==
    ASSUME TypeInv, NEW unbound, Unbound(unbound)
    PROVE  /\ topics' \in [Sessions -> DOMAIN forum \cup {None}]
           /\ titles' \in [Sessions -> Titles]
           /\ \A s \in Sessions : topics'[s] = IF s \in unbound THEN None ELSE topics[s]
BY DEF Unbound, TypeInv, TypeOK, Titles

\* A session that an event announces, renames or ends, and a reply to it.
LEMMA TypeEvents ==
    ASSUME TypeInv, OnAdded \/ OnUpdated \/ OnRemoved \/ OnReply
    PROVE  TypeInv'
<1> DEFINE s == Head(stream).session
           name == Head(stream).name
<1>1. s \in Sessions /\ name \in Titles /\ stream' \in Seq(Events)
      /\ link /\ job["events"] = None
  BY TakesAnEvent DEF OnAdded, OnUpdated, OnRemoved, OnReply
<1>2. /\ "events" \in Tasks /\ job \in [Tasks -> Jobs \cup {None}]
      /\ todo' = todo /\ todo \in [Sessions -> Titles] \cup {None}
      /\ topics \in [Sessions -> DOMAIN forum \cup {None}] /\ titles \in [Sessions -> Titles]
      /\ forum' = forum /\ UNCHANGED <<names, link, lock, ghosts>>
  BY DEF Tasks, TypeInv, TypeOK, OnAdded, OnUpdated, OnRemoved, OnReply
<1>3. CASE OnAdded \/ OnUpdated
  <2>1. PICK j : /\ j \in {Ensure(s, name), ApplyTitle(s, name)}
                 /\ job' = [job EXCEPT !["events"] = j] /\ UNCHANGED <<topics, titles>>
    BY <1>3 DEF OnAdded, OnUpdated
  <2>2. j \in Jobs \cup {None} /\ (j # None => j.stage = "lock" /\ j.topic \in DOMAIN forum \cup {None})
    BY <1>1, <1>2, <2>1, EnsureJob
  <2>3. StageOK("events")'
    BY <1>2, <2>1, <2>2 DEF StageOK, Locking
  <2> QED  BY <1>1, <1>2, <2>1, <2>2, <2>3, TypeJob DEF Holding
<1>4. CASE OnRemoved
  <2>1. topics[s] \in DOMAIN forum \cup {None} /\ (topics[s] # None => topics[s] \in 1..MaxTopics)
    BY <1>1, <1>2, LenProperties, TopicsAssumption DEF TypeInv, TypeOK
  <2>2. PICK j : /\ j = IF topics[s] = None THEN None ELSE [stage |-> "delete", topic |-> topics[s]]
                 /\ job' = [job EXCEPT !["events"] = j]
    BY <1>4 DEF OnRemoved
  <2>3. j \in Jobs \cup {None}
        /\ (j # None => j.stage = "delete" /\ j.topic \in DOMAIN forum /\ j.topic # None)
    BY <2>1, <2>2 DEF Jobs
  <2>4. StageOK("events")'
    BY <1>2, <2>2, <2>3 DEF StageOK, Locking
  <2>5. topics' \in [Sessions -> DOMAIN forum \cup {None}] /\ titles' \in [Sessions -> Titles]
    BY <1>4, UnboundTypes DEF OnRemoved
  <2> QED  BY <1>1, <1>2, <2>2, <2>3, <2>4, <2>5, TypeJob DEF Holding
<1>5. CASE OnReply
  <2>1. topics' \in [Sessions -> DOMAIN forum \cup {None}] /\ titles' \in [Sessions -> Titles]
    BY <1>2, <1>5, UnboundTypes DEF OnReply
  <2>2. PICK j \in Jobs \cup {None} :
           job' = [job EXCEPT !["events"] = j] /\ (j # None => j.stage = "replace")
    <3>1. [stage |-> "replace", session |-> s] \in Jobs
      BY <1>1 DEF Jobs
    <3>2. [job EXCEPT !["events"] = None] = job
      BY <1>1, <1>2
    <3> QED  BY <1>5, <3>1, <3>2 DEF OnReply
  <2>3. StageOK("events")'
    BY <1>2, <2>2 DEF StageOK, Locking
  <2> QED  BY <1>1, <1>2, <2>1, <2>2, <2>3, TypeJob DEF Holding
<1> QED  BY <1>3, <1>4, <1>5

\* A topic that was gone is made again.
LEMMA TypeReplace ==
    ASSUME TypeInv, Replace
    PROVE  TypeInv'
<1> DEFINE s == job["events"].session
<1>1. /\ "events" \in Tasks /\ job["events"] \in Jobs /\ job["events"].stage = "replace"
      /\ job["events"] # None
  BY DEF Replace, At, Tasks, TypeInv, TypeOK
<1>2. s \in Sessions /\ names[s] \in Titles /\ link
  BY <1>1 DEF Jobs, Locking, TypeInv, TypeOK, Offline
<1>3. PICK j : j = Ensure(s, names[s]) /\ job' = [job EXCEPT !["events"] = j]
  BY DEF Replace
<1>4. j \in Jobs \cup {None} /\ (j # None => j.stage = "lock" /\ j.topic = None)
  BY <1>2, <1>3, EnsureJob
<1>5. forum' = forum /\ UNCHANGED <<names, stream, link, topics, titles, lock, todo, ghosts>>
  BY DEF Replace
<1>6. StageOK("events")'
  BY <1>1, <1>3, <1>4, <1>5 DEF StageOK, Locking, TypeInv, TypeOK
<1>7. stream' \in Seq(Events) /\ todo' \in [Sessions -> Titles] \cup {None}
      /\ topics' \in [Sessions -> DOMAIN forum \cup {None}] /\ titles' \in [Sessions -> Titles]
  BY <1>5 DEF TypeInv, TypeOK
<1> QED  BY <1>1, <1>2, <1>3, <1>4, <1>5, <1>6, <1>7, TypeJob DEF Holding

\* The steps of the reconciler.
LEMMA TypeReconciler ==
    ASSUME TypeInv, List \/ Orphan \/ \E s \in Sessions : ReconcileOne(s)
    PROVE  TypeInv'
<1>1. /\ "reconciler" \in Tasks /\ job \in [Tasks -> Jobs \cup {None}]
      /\ stream' = stream /\ stream \in Seq(Events) /\ names \in [Sessions -> Titles]
      /\ todo \in [Sessions -> Titles] \cup {None}
      /\ topics \in [Sessions -> DOMAIN forum \cup {None}] /\ titles \in [Sessions -> Titles]
      /\ forum' = forum /\ UNCHANGED <<names, link, lock, ghosts>>
  BY DEF Tasks, TypeInv, TypeOK, List, Orphan, ReconcileOne
<1>2. CASE List
  <2>1. /\ job["reconciler"] \in Jobs /\ job["reconciler"] # None
        /\ job["reconciler"].stage = "listing" /\ link
    BY <1>1, <1>2 DEF List, At, TypeInv, Offline
  <2>2. job["reconciler"] \in [stage : {"listing", "listed"}]
    BY <2>1 DEF Jobs, Locking
  <2>3. PICK j : j = [job["reconciler"] EXCEPT !.stage = "listed"]
    OBVIOUS
  <2>4. j \in Jobs /\ j.stage = "listed"
    BY <2>2, <2>3 DEF Jobs
  <2>5. job' = [job EXCEPT !["reconciler"] = j] /\ todo' = names
    BY <1>2, <2>3 DEF List
  <2>6. todo' # None
    BY <1>1, <2>5, JobsAreSomething
  <2>7. StageOK("reconciler")'
    BY <1>1, <2>4, <2>5, <2>6 DEF StageOK, Locking
  <2>8. UNCHANGED <<topics, titles>>
    BY <1>2 DEF List
  <2> QED  BY <1>1, <2>1, <2>4, <2>5, <2>6, <2>7, <2>8, TypeJob DEF Holding
<1>3. CASE Orphan
  <2>1. job["reconciler"] # None /\ job["reconciler"].stage = "listed" /\ link
    BY <1>1, <1>3 DEF Orphan, At, TypeInv, Offline
  <2>2. topics' \in [Sessions -> DOMAIN forum \cup {None}] /\ titles' \in [Sessions -> Titles]
    BY <1>3, UnboundTypes DEF Orphan
  <2>3. job' = [job EXCEPT !["reconciler"] = None] /\ todo' = todo
    BY <1>3 DEF Orphan
  <2>4. StageOK("reconciler")'
    BY <1>1, <2>3 DEF StageOK
  <2> QED  BY <1>1, <2>1, <2>2, <2>3, <2>4, TypeJob DEF Holding
<1>4. ASSUME NEW s \in Sessions, ReconcileOne(s)
      PROVE  TypeInv'
  <2>1. /\ todo # None /\ job["reconciler"] = None /\ link
        /\ todo[s] \in Titles /\ todo' \in [Sessions -> Titles] /\ todo' # None
    BY <1>1, <1>4, JobsAreSomething DEF ReconcileOne, TypeInv, Offline, Titles
  <2>2. PICK j : /\ j \in {Ensure(s, todo[s]), ApplyTitle(s, todo[s])}
                 /\ job' = [job EXCEPT !["reconciler"] = j] /\ UNCHANGED <<topics, titles>>
    BY <1>4 DEF ReconcileOne
  <2>3. j \in Jobs \cup {None} /\ (j # None => j.stage = "lock" /\ j.topic \in DOMAIN forum \cup {None})
    BY <1>1, <2>1, <2>2, EnsureJob
  <2>4. StageOK("reconciler")'
    BY <1>1, <2>2, <2>3 DEF StageOK, Locking
  <2> QED  BY <1>1, <2>1, <2>2, <2>3, <2>4, TypeJob DEF Holding
<1> QED  BY <1>2, <1>3, <1>4

\* A topic of a session that has ended is deleted.
LEMMA TypeDelete ==
    ASSUME TypeInv, Delete
    PROVE  /\ TypeInv' /\ job["events"].topic \in DOMAIN forum
           /\ DOMAIN forum' = DOMAIN forum
<1>1. /\ "events" \in Tasks /\ job["events"] \in Jobs /\ job["events"].stage = "delete"
      /\ job["events"] # None /\ StageOK("events") /\ link
  BY DEF Delete, At, Tasks, TypeInv, TypeOK, Offline
<1>2. PICK n : n = job["events"].topic
  OBVIOUS
<1>3. n \in DOMAIN forum
  BY <1>1, <1>2 DEF StageOK
<1>4. forum[n] \in [session : Sessions, title : Titles, there : BOOLEAN]
  BY <1>3, ForumRecord
<1>5. PICK r \in [session : Sessions, title : Titles, there : BOOLEAN] :
         forum' = [forum EXCEPT ![n] = r]
  <2>1. [forum[n] EXCEPT !.there = FALSE] \in [session : Sessions, title : Titles, there : BOOLEAN]
    BY <1>4
  <2> QED  BY <1>2, <2>1 DEF Delete
<1>6. /\ forum' \in Seq([session : Sessions, title : Titles, there : BOOLEAN])
      /\ Len(forum') = Len(forum) /\ DOMAIN forum' = DOMAIN forum
  BY <1>3, <1>5, ForumChange
<1>7. /\ job' = [job EXCEPT !["events"] = None]
      /\ UNCHANGED <<names, stream, link, topics, titles, lock, todo, ghosts>>
  BY DEF Delete
<1>8. /\ job' \in [Tasks -> Jobs \cup {None}] /\ job'["events"] = None
      /\ \A t \in Tasks \ {"events"} : job'[t] = job[t]
  BY <1>1, <1>7 DEF TypeInv, TypeOK
<1>9. \A t \in Tasks : StageOK(t)'
  BY <1>6, <1>7, <1>8 DEF TypeInv, StageOK
<1> QED  BY <1>1, <1>2, <1>3, <1>6, <1>7, <1>8, <1>9 DEF TypeInv, TypeOK, Offline, ghosts

\* A task that is at the lock or under it: its job, part by part.
LEMMA JobAtLock ==
    ASSUME TypeInv, NEW t \in Tasks, job[t] # None, job[t].stage \in Locking
    PROVE  /\ job[t] = [stage |-> job[t].stage, session |-> job[t].session,
                        title |-> job[t].title, topic |-> job[t].topic]
           /\ job[t].session \in Sessions /\ job[t].title \in Titles
           /\ job[t].topic \in 1..MaxTopics \cup {None}
           /\ job[t].topic \in DOMAIN forum \cup {None} /\ link
<1>1. job[t] \in Jobs /\ link /\ StageOK(t)
  BY DEF TypeInv, TypeOK, Offline
<1>2. job[t] \in LockJobs
  BY <1>1, LockingJob
<1>3. job[t].topic \in DOMAIN forum \cup {None}
  BY <1>1 DEF StageOK
<1> QED  BY <1>1, <1>2, <1>3 DEF LockJobs

\* A task takes the lock, and lets it go at once when nothing is needed.
LEMMA TypeTakeLock ==
    ASSUME TypeInv, NEW t \in Tasks, TakeLock(t)
    PROVE  TypeInv'
<1>1. /\ job[t] # None /\ job[t].stage = "lock" /\ job[t].stage \in Locking /\ lock = None
      /\ job \in [Tasks -> Jobs \cup {None}] /\ StageOK(t)
  BY DEF TakeLock, At, Locking, TypeInv, TypeOK
<1>2. PICK r \in LockJobs : r = job[t]
  BY <1>1, LockingJob
<1>3. PICK j : j = [r EXCEPT !.stage = "call"]
  OBVIOUS
<1>4. j \in Jobs /\ j.stage = "call" /\ j.topic = job[t].topic
  BY <1>2, <1>3 DEF Jobs, LockJobs, Locking
<1>5. PICK k : /\ k \in {j, None} /\ job' = [job EXCEPT ![t] = k]
               /\ lock' = IF k = None THEN None ELSE t
  <2>1. j # None
    BY <1>4, JobsAreSomething
  <2> QED  BY <1>2, <1>3, <2>1 DEF TakeLock, Unlocked
<1>6. job' \in [Tasks -> Jobs \cup {None}] /\ job'[t] = k
      /\ \A u \in Tasks \ {t} : job'[u] = job[u]
  BY <1>1, <1>4, <1>5
<1>7. UNCHANGED <<names, stream, link, topics, titles, todo, forum, ghosts>>
  BY DEF TakeLock
<1>8. \A u \in Tasks : StageOK(u)'
  <2>1. StageOK(t)'
    BY <1>1, <1>4, <1>5, <1>6, <1>7 DEF StageOK, Locking
  <2>2. \A u \in Tasks \ {t} : StageOK(u)'
    BY <1>6, <1>7 DEF TypeInv, StageOK
  <2> QED  BY <2>1, <2>2
<1>9. \A u \in Tasks :
         (lock' = u) = (job'[u] # None /\ job'[u].stage \in {"call", "created", "titled", "refused"})
  BY <1>1, <1>4, <1>5, <1>6, JobsAreSomething DEF TypeInv, TypeOK
<1>10. link /\ lock' \in Tasks \cup {None}
  BY <1>1, <1>5 DEF TypeInv, Offline
<1> QED  BY <1>6, <1>7, <1>8, <1>9, <1>10 DEF TypeInv, TypeOK, Offline, ghosts

\* What a call to Telegram comes to.
LEMMA CallOutcome ==
    ASSUME TypeInv, NEW t \in Tasks, Call(t)
    PROVE  /\ job[t] # None /\ job[t].stage = "call" /\ job[t].stage \in Locking /\ lock = t
           /\ UNCHANGED <<names, stream, link, topics, titles, lock, todo, ghosts>>
           /\ \E j \in Jobs :
                 /\ job' = [job EXCEPT ![t] = j] /\ j.session = job[t].session
                 /\ j.title = job[t].title /\ j.topic # None
                 /\ \/ /\ job[t].topic = None /\ j.stage = "created" /\ Len(forum) < MaxTopics
                       /\ j.topic = Len(forum) + 1
                       /\ forum' = Append(forum, [session |-> job[t].session,
                                                  title |-> job[t].title, there |-> TRUE])
                    \/ /\ job[t].topic # None /\ j.topic = job[t].topic /\ j.stage = "titled"
                       /\ forum[j.topic].there
                       /\ forum' = [forum EXCEPT ![j.topic].title = job[t].title]
                    \/ /\ job[t].topic # None /\ j.topic = job[t].topic /\ j.stage = "refused"
                       /\ forum' = forum
<1>1. /\ job[t] # None /\ job[t].stage = "call" /\ job[t].stage \in Locking /\ lock = t
      /\ job \in [Tasks -> Jobs \cup {None}]
      /\ UNCHANGED <<names, stream, link, topics, titles, lock, todo, ghosts>>
  BY DEF Call, At, Locking, TypeInv, TypeOK
<1> PICK r \in LockJobs : r = job[t]
  BY <1>1, LockingJob
<1>2. CASE job[t].topic = None
  <2>1. Len(forum) < MaxTopics /\ Len(forum) \in Nat
        /\ forum' = Append(forum, [session |-> job[t].session, title |-> job[t].title,
                                   there |-> TRUE])
    BY <1>2, LenProperties DEF Call, TypeInv, TypeOK
  <2>2. Len(forum') = Len(forum) + 1
    <3>1. [session |-> job[t].session, title |-> job[t].title, there |-> TRUE]
             \in [session : Sessions, title : Titles, there : BOOLEAN]
      BY <1>1, JobAtLock
    <3> QED  BY <2>1, <3>1, AppendProperties DEF TypeInv, TypeOK
  <2>3. Len(forum) + 1 \in 1..MaxTopics /\ Len(forum) + 1 # None /\ "created" \in Locking
    BY <2>1, TopicsAssumption, JobsAreSomething DEF Locking
  <2>4. PICK j : j = [r EXCEPT !.stage = "created", !.topic = Len(forum) + 1]
    OBVIOUS
  <2>5. /\ j \in Jobs /\ j.session = job[t].session /\ j.title = job[t].title
        /\ j.stage = "created" /\ j.topic = Len(forum) + 1
    BY <2>3, <2>4 DEF Jobs, LockJobs
  <2>6. job' = [job EXCEPT ![t] = j]
    BY <1>1, <1>2, <2>2, <2>4 DEF Call
  <2> QED  BY <1>1, <1>2, <2>1, <2>3, <2>5, <2>6
<1>3. CASE job[t].topic # None
  <2>1. PICK stage \in {"titled", "refused"} :
           /\ job' = [job EXCEPT ![t].stage = stage]
           /\ stage = "titled" =>
                 /\ forum[job[t].topic].there
                 /\ forum' = [forum EXCEPT ![job[t].topic].title = job[t].title]
           /\ stage = "refused" => forum' = forum
    BY <1>3 DEF Call
  <2>2. stage \in Locking
    BY DEF Locking
  <2>3. PICK j : j = [r EXCEPT !.stage = stage]
    OBVIOUS
  <2>4. /\ j \in Jobs /\ j.session = job[t].session /\ j.title = job[t].title
        /\ j.stage = stage /\ j.topic = job[t].topic
    BY <2>2, <2>3 DEF Jobs, LockJobs
  <2>5. job' = [job EXCEPT ![t] = j]
    BY <1>1, <2>1, <2>3
  <2> QED  BY <1>1, <1>3, <2>1, <2>4, <2>5
<1> QED  BY <1>2, <1>3

\* A call is received.
LEMMA TypeCall ==
    ASSUME TypeInv, NEW t \in Tasks, Call(t)
    PROVE  /\ TypeInv' /\ DOMAIN forum \subseteq DOMAIN forum'
<1>1. /\ job[t] # None /\ job[t].stage = "call" /\ job[t].stage \in Locking /\ lock = t
      /\ UNCHANGED <<names, stream, link, topics, titles, lock, todo, ghosts>>
  BY CallOutcome
<1> DEFINE r == [session |-> job[t].session, title |-> job[t].title, there |-> TRUE]
<1>2. PICK j \in Jobs :
         /\ job' = [job EXCEPT ![t] = j] /\ j.topic # None
         /\ \/ /\ j.stage = "created" /\ Len(forum) < MaxTopics
               /\ j.topic = Len(forum) + 1 /\ forum' = Append(forum, r)
            \/ /\ job[t].topic # None /\ j.topic = job[t].topic /\ j.stage = "titled"
               /\ forum' = [forum EXCEPT ![j.topic].title = job[t].title]
            \/ /\ job[t].topic # None /\ j.topic = job[t].topic /\ j.stage = "refused"
               /\ forum' = forum
  BY CallOutcome
<1>3. /\ job[t].topic \in DOMAIN forum \cup {None} /\ link
      /\ job[t].session \in Sessions /\ job[t].title \in Titles
  BY <1>1, JobAtLock
<1>4. /\ forum' \in Seq([session : Sessions, title : Titles, there : BOOLEAN])
      /\ Len(forum') <= MaxTopics /\ DOMAIN forum \subseteq DOMAIN forum'
      /\ j.topic \in DOMAIN forum'
  <2>1. forum \in Seq([session : Sessions, title : Titles, there : BOOLEAN])
        /\ Len(forum) <= MaxTopics /\ Len(forum) \in Nat /\ DOMAIN forum = 1..Len(forum)
    BY LenProperties DEF TypeInv, TypeOK
  <2>2. CASE j.stage = "created"
    <3>1. PICK q \in [session : Sessions, title : Titles, there : BOOLEAN] : q = r
      BY <1>3
    <3>2. forum' = Append(forum, q)
      BY <1>2, <2>2, <3>1
    <3>3. /\ forum' \in Seq([session : Sessions, title : Titles, there : BOOLEAN])
          /\ Len(forum') = Len(forum) + 1 /\ DOMAIN forum' = 1..(Len(forum) + 1)
      BY <2>1, <3>2, AppendProperties, LenProperties
    <3> QED  BY <1>2, <2>1, <2>2, <3>3, TopicsAssumption
  <2>3. CASE j.stage = "titled"
    <3>1. PICK n \in DOMAIN forum : n = job[t].topic
      BY <1>2, <1>3, <2>3
    <3>2. forum[n] \in [session : Sessions, title : Titles, there : BOOLEAN]
      BY ForumRecord
    <3>3. PICK q \in [session : Sessions, title : Titles, there : BOOLEAN] :
             q = [forum[n] EXCEPT !.title = job[t].title]
      BY <1>3, <3>2
    <3>4. forum' = [forum EXCEPT ![n] = q]
      BY <1>2, <2>3, <3>1, <3>3
    <3> QED  BY <1>2, <2>1, <2>3, <3>1, <3>4, ForumChange
  <2>4. CASE j.stage = "refused"
    BY <1>2, <1>3, <2>1, <2>4
  <2> QED  BY <1>2, <2>2, <2>3, <2>4
<1>5. job' \in [Tasks -> Jobs \cup {None}] /\ job'[t] = j
      /\ \A u \in Tasks \ {t} : job'[u] = job[u]
  BY <1>2 DEF TypeInv, TypeOK
<1>6. j # None /\ j.stage \in {"created", "titled", "refused"}
  BY <1>2, JobsAreSomething
<1>7. \A u \in Tasks : StageOK(u)'
  <2>1. StageOK(t)'
    BY <1>2, <1>4, <1>5, <1>6 DEF StageOK, Locking
  <2>2. ASSUME NEW u \in Tasks \ {t}
        PROVE  StageOK(u)'
    <3>1. job'[u] = job[u] /\ StageOK(u) /\ todo' = todo
      BY <1>1, <1>5 DEF TypeInv
    <3> QED  BY <1>4, <3>1 DEF StageOK
  <2> QED  BY <2>1, <2>2
<1>8. \A u \in Tasks :
         (lock' = u) = (job'[u] # None /\ job'[u].stage \in {"call", "created", "titled", "refused"})
  BY <1>1, <1>5, <1>6 DEF TypeInv, TypeOK
<1>9. topics' \in [Sessions -> DOMAIN forum' \cup {None}]
  BY <1>1, <1>4 DEF TypeInv, TypeOK
<1> QED  BY <1>1, <1>3, <1>4, <1>5, <1>7, <1>8, <1>9 DEF TypeInv, TypeOK, Offline, ghosts

\* A task records what the call came to, and leaves the lock.
LEMMA TypeRecord ==
    ASSUME TypeInv, NEW t \in Tasks, Record(t)
    PROVE  TypeInv'
<1>1. /\ job[t] # None /\ job[t].stage \in {"created", "titled", "refused"}
      /\ job[t].stage \in Locking /\ lock = t
      /\ lock' = None /\ job' = [job EXCEPT ![t] = None]
      /\ UNCHANGED <<names, stream, link, todo, forum, ghosts>>
  BY DEF Record, Unlocked, Locking, TypeInv, TypeOK
<1>2. /\ job[t].topic \in DOMAIN forum \cup {None} /\ link
      /\ job[t].session \in Sessions /\ job[t].title \in Titles
  BY <1>1, JobAtLock
<1>3. topics' \in [Sessions -> DOMAIN forum' \cup {None}] /\ titles' \in [Sessions -> Titles]
  BY <1>1, <1>2 DEF Record, Titled, TypeInv, TypeOK
<1>4. job' \in [Tasks -> Jobs \cup {None}] /\ job'[t] = None
      /\ \A u \in Tasks \ {t} : job'[u] = job[u]
  BY <1>1 DEF TypeInv, TypeOK
<1>5. \A u \in Tasks : StageOK(u)'
  BY <1>1, <1>4 DEF TypeInv, StageOK
<1>6. \A u \in Tasks :
         (lock' = u) = (job'[u] # None /\ job'[u].stage \in {"call", "created", "titled", "refused"})
  BY <1>1, <1>4, JobsAreSomething DEF TypeInv, TypeOK
<1> QED  BY <1>1, <1>2, <1>3, <1>4, <1>5, <1>6 DEF TypeInv, TypeOK, Offline, ghosts

LEMMA TypeNext == TypeInv /\ [Next]_vars => TypeInv'
<1> SUFFICES ASSUME TypeInv, [Next]_vars
             PROVE  TypeInv'
  OBVIOUS
<1>1. CASE \E s \in Sessions : Added(s) \/ Renamed(s) \/ Removed(s) \/ Replied(s)
  BY <1>1, TypeDaemon
<1>2. CASE \E n \in DOMAIN forum : TopicDeleted(n)
  BY <1>2, TypeDeletes
<1>3. CASE Drop
  BY <1>3, TypeDrop
<1>4. CASE Connect
  BY <1>4, TypeConnect
<1>5. CASE OnAdded \/ OnUpdated \/ OnRemoved \/ OnReply
  BY <1>5, TypeEvents
<1>6. CASE Delete
  BY <1>6, TypeDelete
<1>7. CASE Replace
  BY <1>7, TypeReplace
<1>8. CASE List \/ Orphan \/ \E s \in Sessions : ReconcileOne(s)
  BY <1>8, TypeReconciler
<1>9. ASSUME NEW t \in Tasks, TaskStep(t)
      PROVE  TypeInv'
  BY <1>9, TypeTakeLock, TypeCall, TypeRecord DEF TaskStep
<1>10. CASE UNCHANGED vars
  BY <1>10 DEF vars, bot, ghosts, TypeInv, TypeOK, Offline, StageOK
<1> QED
  BY <1>1, <1>2, <1>3, <1>4, <1>5, <1>6, <1>7, <1>8, <1>9, <1>10 DEF Next, BotStep

\* Each variable has its type, and _topic_lock is held by the one task that is under
\* it, from the check to the record (1682-1728, 3195-3232).
THEOREM TypeCorrect == Spec => []TypeOK
<1>1. TypeInv => TypeOK
  BY DEF TypeInv
<1> QED  BY TypeInit, TypeNext, <1>1, PTL DEF Spec

-----------------------------------------------------------------------------
(***************************************************************************)
(* One topic for a session.                                                *)
(*                                                                         *)
(* A topic is created by who is Making one: it has been seen, under the    *)
(* lock, that the session has none, and only the lock's holder binds one.  *)
(* So the topic of a session is the one it is bound to, or the one whose   *)
(* binding is yet to be written (Made).                                    *)
(*                                                                         *)
(* The exception is a session that was added after the listing: if its     *)
(* topic is there before the reconciler drops the bindings that were not   *)
(* in the listing, it is Lost.  It is then not made again, since what      *)
(* announces the session is past (BeforeOrphans), and the listing does not *)
(* have it.                                                                *)
(***************************************************************************)
Making(t, s) ==
    /\ job[t] # None
    /\ \/ job[t].stage = "replace" /\ job[t].session = s
       \/ job[t].stage \in {"lock", "call"} /\ job[t].session = s /\ job[t].topic = None
Made(t, s) == At(t, "created") /\ job[t].session = s

There(s, n) == n \in DOMAIN forum /\ forum[n].there /\ forum[n].session = s
Announced(s) ==
    \E i \in DOMAIN stream : stream[i].type = "session_added" /\ stream[i].session = s
Unlisted(s) ==
    \/ At("reconciler", "listing")
    \/ At("reconciler", "listed") /\ todo[s] = None

Lost(s) ==
    /\ topics[s] = None /\ ~Announced(s) /\ \A t \in Tasks : ~Making(t, s) /\ ~Made(t, s)
    /\ link /\ ~At("reconciler", "listing") /\ todo # None /\ todo[s] = None

Mirrored(s) ==
    names[s] # None =>
        /\ \A n \in Nat :
              There(s, n) => \/ topics[s] = n
                             \/ \E t \in Tasks : Made(t, s) /\ job[t].topic = n
                             \/ Lost(s)
        /\ \A m, n \in Nat : There(s, m) /\ There(s, n) => m = n

BeforeOrphans(s) ==
    /\ Unlisted(s)
    /\ topics[s] # None \/ Making("events", s) \/ Made("events", s)
    => /\ ~Announced(s)
       /\ topics[s] # None => ~Making("events", s)

\* A session that the daemon has not had yet is nowhere.
Fresh(s) ==
    /\ topics[s] = None /\ ~Announced(s) /\ (todo # None => todo[s] = None)
    /\ \A t \in Tasks : ~Making(t, s) /\ ~Made(t, s)
    /\ \A n \in DOMAIN forum : forum[n].session # s

\* Who is about to create a topic, or has, is bound to none.
Unbinding(t) ==
    At(t, "created") \/ (At(t, "call") /\ job[t].topic = None)
        => topics[job[t].session] = None

\* A session is announced once, and its end is the end of it.
StreamOK ==
    /\ \A i, j \in DOMAIN stream :
          stream[i].type = "session_added" /\ stream[j].type = "session_added"
          /\ stream[i].session = stream[j].session => i = j
    /\ \A i \in DOMAIN stream :
          /\ stream[i].session \in used
          /\ stream[i].type = "session_removed" => names[stream[i].session] = None

MirrorOK ==
    /\ \A s \in Sessions : Mirrored(s) /\ BeforeOrphans(s)
    /\ \A s \in Sessions : s \notin used => names[s] = None /\ Fresh(s)
    /\ \A t \in Tasks : Unbinding(t)
    /\ StreamOK
    /\ ~link => forum = <<>> /\ \A s \in Sessions : topics[s] = None

IInv == TypeInv /\ (drops = 0 => MirrorOK)

\* The lock has one holder.
LEMMA OneHolder ==
    ASSUME TypeInv, NEW t \in Tasks, NEW u \in Tasks,
           job[t] # None, job[t].stage \in Holding, job[u] # None, job[u].stage \in Holding
    PROVE  t = u
BY DEF TypeInv, TypeOK, Holding

\* A step that changes one task's job leaves what the other one makes.
LEMMA OtherJobs ==
    ASSUME TypeInv, NEW t \in Tasks, NEW j, job' = [job EXCEPT ![t] = j]
    PROVE  /\ job'[t] = j
           /\ \A u \in Tasks \ {t} :
                 /\ job'[u] = job[u] /\ (Unbinding(u) /\ topics' = topics => Unbinding(u)')
                 /\ \A stage \in STRING : At(u, stage)' <=> At(u, stage)
                 /\ \A s \in Sessions : (Making(u, s)' <=> Making(u, s)) /\ (Made(u, s)' <=> Made(u, s))
<1>1. job'[t] = j /\ \A u \in Tasks \ {t} : job'[u] = job[u]
  BY DEF TypeInv, TypeOK
<1> QED  BY <1>1 DEF Making, Made, At, Unbinding

\* A step leaves a session as it was, but that less may be on its way to it.
Steady(s) ==
    /\ topics'[s] = topics[s]
    /\ Announced(s)' => Announced(s)
    /\ \A n \in Nat : There(s, n)' => There(s, n)
    /\ \A t \in Tasks : /\ Making(t, s)' => Making(t, s)
                        /\ Made(t, s)' <=> Made(t, s)
                        /\ Made(t, s) => job'[t].topic = job[t].topic
    /\ At("reconciler", "listing")' <=> At("reconciler", "listing")
    /\ Unlisted(s)' => Unlisted(s)
    /\ todo' # None <=> todo # None
    /\ todo # None => todo'[s] = todo[s]

LEMMA SteadyKeeps ==
    ASSUME NEW s \in Sessions, Mirrored(s), BeforeOrphans(s), Steady(s),
           names'[s] # None => names[s] # None, link' = link
    PROVE  Mirrored(s)' /\ BeforeOrphans(s)'
<1>1. Lost(s) => Lost(s)'
  BY DEF Lost, Steady
<1>2. Mirrored(s)'
  BY <1>1 DEF Mirrored, Steady
<1>3. BeforeOrphans(s)'
  BY DEF BeforeOrphans, Tasks, Steady
<1> QED  BY <1>2, <1>3

LEMMA MirrorInit == Init => MirrorOK
<1> SUFFICES ASSUME Init
             PROVE  MirrorOK
  OBVIOUS
<1>1. /\ forum = <<>> /\ stream = <<>> /\ DOMAIN forum = {} /\ DOMAIN stream = {}
      /\ \A s \in Sessions : topics[s] = None /\ names[s] = None
      /\ \A t \in Tasks : job[t] = None
      /\ todo = None
  BY DEF Init
<1>2. \A s \in Sessions : Mirrored(s) /\ BeforeOrphans(s) /\ Fresh(s)
  BY <1>1 DEF Mirrored, BeforeOrphans, Fresh, Unlisted, Announced, Making, Made, At, Tasks
<1>3. \A t \in Tasks : Unbinding(t)
  <2> SUFFICES ASSUME NEW t \in Tasks
               PROVE  Unbinding(t)
    OBVIOUS
  <2>1. ~At(t, "created") /\ ~At(t, "call")
    BY <1>1 DEF At
  <2> QED  BY <2>1 DEF Unbinding
<1>4. StreamOK
  BY <1>1 DEF StreamOK
<1> QED  BY <1>1, <1>2, <1>3, <1>4 DEF MirrorOK

\* What a change of the daemon's sessions adds to the stream.
LEMMA StreamGrows ==
    ASSUME TypeInv, StreamOK, NEW s \in Sessions, NEW type, Changed(s, type),
           [type |-> type, session |-> s, name |-> names'[s]] \in Events,
           s \in used', used \subseteq used', type = "session_added" => ~Announced(s),
           \A x \in used : names[x] = None => names'[x] = None,
           type = "session_removed" => names'[s] = None
    PROVE  /\ StreamOK'
           /\ \A x \in Sessions :
                 Announced(x)' <=> Announced(x) \/ (link /\ x = s /\ type = "session_added")
<1>1. CASE ~link
  <2>1. stream' = stream
    BY <1>1 DEF Changed
  <2> QED  BY <1>1, <2>1 DEF StreamOK, Announced
<1>2. CASE link
  <2>1. PICK e \in Events : e = [type |-> type, session |-> s, name |-> names'[s]]
    OBVIOUS
  <2>2. stream \in Seq(Events) /\ stream' = Append(stream, e) /\ e.type = type /\ e.session = s
    BY <1>2, <2>1 DEF Changed, TypeInv, TypeOK
  <2>3. /\ Len(stream) \in Nat /\ DOMAIN stream = 1..Len(stream)
        /\ DOMAIN stream' = 1..(Len(stream) + 1) /\ stream'[Len(stream) + 1] = e
        /\ \A i \in 1..Len(stream) : stream'[i] = stream[i]
    BY <2>2, AppendProperties, LenProperties
  <2>4. \A x \in Sessions : Announced(x)' <=> Announced(x) \/ (x = s /\ type = "session_added")
    BY <2>2, <2>3 DEF Announced
  <2>5. \A i, j \in DOMAIN stream' :
           stream'[i].type = "session_added" /\ stream'[j].type = "session_added"
           /\ stream'[i].session = stream'[j].session => i = j
    BY <2>2, <2>3 DEF StreamOK, Announced
  <2>6. \A i \in DOMAIN stream' :
           /\ stream'[i].session \in used'
           /\ stream'[i].type = "session_removed" => names'[stream'[i].session] = None
    BY <2>2, <2>3 DEF StreamOK
  <2> QED  BY <1>2, <2>4, <2>5, <2>6 DEF StreamOK
<1>3. link \in BOOLEAN
  BY DEF TypeInv, TypeOK
<1> QED  BY <1>1, <1>2, <1>3

\* What an event taken from the stream leaves in it.
LEMMA StreamShrinks ==
    ASSUME TypeInv, StreamOK, NEW type, Takes(type),
           NEW s \in Sessions, s = Head(stream).session, UNCHANGED <<names, used>>
    PROVE  /\ StreamOK' /\ \A x \in Sessions : Announced(x)' => Announced(x)
           /\ s \in used
           /\ type = "session_added" => Announced(s) /\ ~Announced(s)'
           /\ type = "session_removed" => names[s] = None
<1>1. stream \in Seq(Events) /\ stream # <<>> /\ stream' = Tail(stream)
      /\ Head(stream).type = type
  BY DEF Takes, TypeInv, TypeOK
<1>2. /\ Len(stream) \in Nat /\ Len(stream) > 0 /\ DOMAIN stream = 1..Len(stream)
      /\ DOMAIN stream' = 1..(Len(stream) - 1) /\ Head(stream) = stream[1]
      /\ \A i \in 1..(Len(stream) - 1) : stream'[i] = stream[i + 1]
  BY <1>1, HeadTailProperties, LenProperties, EmptySeq
<1>3. \A i \in DOMAIN stream' : i + 1 \in DOMAIN stream /\ stream'[i] = stream[i + 1]
  BY <1>2
<1>4. \A x \in Sessions : Announced(x)' => Announced(x)
  BY <1>3 DEF Announced
<1>5. StreamOK'
  <2>1. \A i, j \in DOMAIN stream' :
           stream'[i].type = "session_added" /\ stream'[j].type = "session_added"
           /\ stream'[i].session = stream'[j].session => i = j
    BY <1>2, <1>3 DEF StreamOK
  <2>2. \A i \in DOMAIN stream' :
           /\ stream'[i].session \in used'
           /\ stream'[i].type = "session_removed" => names'[stream'[i].session] = None
    BY <1>3 DEF StreamOK
  <2> QED  BY <2>1, <2>2 DEF StreamOK
<1>6. 1 \in DOMAIN stream /\ stream[1].type = type
  BY <1>1, <1>2
<1>7. /\ s \in used
      /\ type = "session_removed" => names[s] = None
      /\ type = "session_added" => Announced(s)
  BY <1>2, <1>6 DEF StreamOK, Announced
<1>8. ASSUME type = "session_added", Announced(s)'
      PROVE  FALSE
  <2>1. PICK i \in DOMAIN stream' :
           stream'[i].type = "session_added" /\ stream'[i].session = s
    BY <1>8 DEF Announced
  <2> QED  BY <1>2, <1>3, <1>6, <1>8, <2>1 DEF StreamOK
<1> QED  BY <1>4, <1>5, <1>7, <1>8

\* The daemon's sessions change.
LEMMA MirrorDaemon ==
    ASSUME TypeInv, MirrorOK, NEW s \in Sessions,
           Added(s) \/ Renamed(s) \/ Removed(s) \/ Replied(s)
    PROVE  MirrorOK'
<1>1. PICK type \in {"session_added", "session_updated", "session_removed", "turn_ended"} :
         /\ Changed(s, type)
         /\ type = "session_added" => Added(s)
         /\ type # "session_added" => names[s] # None /\ used' = used
         /\ type = "session_removed" => names' = [names EXCEPT ![s] = None]
  BY DEF Added, Renamed, Removed, Replied
<1>2. /\ UNCHANGED <<link, topics, job, todo, forum>> /\ names \in [Sessions -> Titles]
      /\ \A x \in Sessions \ {s} : names'[x] = names[x]
      /\ names' \in [Sessions -> Titles] /\ s \in used' /\ used' = used \cup {s}
      /\ \A x \in Sessions : names[x] = None => type = "session_added" \/ names'[x] = None
  <2>1. changes \in Titles
    BY TopicsAssumption DEF TypeInv, TypeOK, Titles
  <2>2. names[s] # None => s \in used
    BY DEF MirrorOK
  <2>3. UNCHANGED <<link, topics, job, todo, forum>>
    BY <1>1 DEF Changed, bot
  <2>4. names \in [Sessions -> Titles] /\ used \subseteq Sessions
    BY DEF TypeInv, TypeOK
  <2>5. s \in used' /\ used' = used \cup {s}
    BY <1>1, <2>2 DEF Added
  <2>6. PICK v \in Titles : /\ names' = [names EXCEPT ![s] = v]
                            /\ names[s] = None => type = "session_added" \/ v = None
    BY <1>1, <2>1, <2>4 DEF Added, Renamed, Removed, Replied, Titles
  <2> QED  BY <2>3, <2>4, <2>5, <2>6
<1>3. \A x \in Sessions : x \notin used => names[x] = None /\ Fresh(x)
  BY DEF MirrorOK
<1>4. type = "session_added" => s \notin used
  BY <1>1 DEF Added
<1>5. /\ StreamOK'
      /\ \A x \in Sessions :
            Announced(x)' <=> Announced(x) \/ (link /\ x = s /\ type = "session_added")
  <2>1. [type |-> type, session |-> s, name |-> names'[s]] \in Events
    BY <1>2 DEF Events
  <2>2. type = "session_added" => ~Announced(s)
    BY <1>3, <1>4 DEF Fresh
  <2>3. \A x \in used : names[x] = None => names'[x] = None
    BY <1>2, <1>4 DEF TypeInv, TypeOK
  <2>4. type = "session_removed" => names'[s] = None
    BY <1>1, <1>2
  <2> QED  BY <1>1, <1>2, <2>1, <2>2, <2>3, <2>4, StreamGrows DEF MirrorOK
<1>6. /\ \A x \in Sessions, t \in Tasks :
            /\ Making(t, x)' <=> Making(t, x)
            /\ Made(t, x)' <=> Made(t, x)
      /\ \A x \in Sessions, n \in Nat : There(x, n)' <=> There(x, n)
      /\ \A x \in Sessions : Unlisted(x)' <=> Unlisted(x)
  BY <1>2 DEF Making, Made, At, There, Unlisted
<1>7. ASSUME NEW x \in Sessions, x # s \/ type # "session_added"
      PROVE  Mirrored(x)' /\ BeforeOrphans(x)'
  <2>1. names'[x] # None => names[x] # None
    BY <1>1, <1>2, <1>7
  <2>2. At("reconciler", "listing")' <=> At("reconciler", "listing")
    BY <1>2 DEF At
  <2>3. Steady(x)
    BY <1>2, <1>5, <1>6, <1>7, <2>2 DEF Steady
  <2> QED  BY <1>2, <2>1, <2>3, SteadyKeeps DEF MirrorOK
<1>8. ASSUME type = "session_added"
      PROVE  Mirrored(s)' /\ BeforeOrphans(s)'
  <2>1. Fresh(s)
    BY <1>3, <1>4, <1>8
  <2>2. \A n \in Nat : ~There(s, n)
    BY <2>1 DEF Fresh, There
  <2>3. topics'[s] = None /\ \A t \in Tasks : ~Making(t, s)' /\ ~Made(t, s)'
    BY <1>2, <1>6, <2>1 DEF Fresh
  <2> QED  BY <1>6, <2>2, <2>3 DEF Mirrored, BeforeOrphans, Tasks
<1>9. ASSUME NEW x \in Sessions, x \notin used'
      PROVE  names'[x] = None /\ Fresh(x)'
  <2>1. x # s /\ x \notin used
    BY <1>2, <1>9
  <2> QED  BY <1>2, <1>3, <1>5, <1>6, <2>1 DEF Fresh
<1>10. \A t \in Tasks : Unbinding(t)'
  BY <1>2 DEF MirrorOK, Unbinding, At
<1>11. ~link' => forum' = <<>> /\ \A x \in Sessions : topics'[x] = None
  BY <1>2 DEF MirrorOK
<1> QED  BY <1>5, <1>7, <1>8, <1>9, <1>10, <1>11 DEF MirrorOK

\* A step of the bot that leaves all sessions as they were but those in X.
LEMMA QuietStep ==
    ASSUME TypeInv, MirrorOK, UNCHANGED <<names, used, link>>, StreamOK',
           NEW X, X \cap Sessions \subseteq used,
           \A s \in Sessions \ X : Steady(s),
           \A s \in Sessions \cap X : Mirrored(s)' /\ BeforeOrphans(s)',
           \A n \in DOMAIN forum' :
              forum'[n].session \in used
              \/ (n \in DOMAIN forum /\ forum'[n].session = forum[n].session),
           \A t \in Tasks : Unbinding(t)',
           link
    PROVE  MirrorOK'
<1>1. ASSUME NEW s \in Sessions
      PROVE  Mirrored(s)' /\ BeforeOrphans(s)'
  <2>1. CASE s \in X
    BY <2>1
  <2>2. CASE s \notin X
    <3>1. Mirrored(s) /\ BeforeOrphans(s) /\ Steady(s)
      BY <2>2 DEF MirrorOK
    <3> QED  BY <3>1, SteadyKeeps
  <2> QED  BY <2>1, <2>2
<1>2. ASSUME NEW s \in Sessions, s \notin used
      PROVE  names'[s] = None /\ Fresh(s)'
  <2>1. Fresh(s) /\ Steady(s) /\ names[s] = None
    BY <1>2 DEF MirrorOK
  <2>2. \A n \in DOMAIN forum' : forum'[n].session # s
    BY <1>2, <2>1 DEF Fresh
  <2> QED  BY <2>1, <2>2 DEF Fresh, Steady
<1> QED  BY <1>1, <1>2 DEF MirrorOK

LEMMA SteadyStep ==
    ASSUME TypeInv, MirrorOK, link, UNCHANGED <<names, used, link>>, StreamOK',
           \A s \in Sessions : Steady(s),
           \A n \in DOMAIN forum' :
              forum'[n].session \in used
              \/ (n \in DOMAIN forum /\ forum'[n].session = forum[n].session),
           \A t \in Tasks : Unbinding(t)'
    PROVE  MirrorOK'
<1>1. PICK X : X = {}
  OBVIOUS
<1>2. /\ X \cap Sessions \subseteq used /\ \A s \in Sessions \ X : Steady(s)
      /\ \A s \in Sessions \cap X : Mirrored(s)' /\ BeforeOrphans(s)'
  BY <1>1
<1> QED  BY <1>2, QuietStep

\* A topic is deleted, by the user or because its session has ended.
LEMMA MirrorDelete ==
    ASSUME TypeInv, MirrorOK, Delete \/ \E n \in DOMAIN forum : TopicDeleted(n)
    PROVE  MirrorOK'
<1>1. PICK n \in DOMAIN forum :
         /\ forum' = [forum EXCEPT ![n].there = FALSE]
         /\ \/ TopicDeleted(n)
            \/ Delete
  BY TypeDelete DEF TopicDeleted, Delete
<1>2. /\ UNCHANGED <<names, used, link, stream, topics, todo>>
      /\ \/ job' = job
         \/ At("events", "delete") /\ job' = [job EXCEPT !["events"] = None]
  BY <1>1 DEF TopicDeleted, Delete, bot, ghosts
<1>3. /\ DOMAIN forum' = DOMAIN forum
      /\ \A m \in DOMAIN forum : /\ forum'[m].session = forum[m].session
                                 /\ forum'[m].there => forum[m].there
  <2>1. \A m \in DOMAIN forum : forum[m] \in [session : Sessions, title : Titles, there : BOOLEAN]
    BY ForumRecord
  <2> QED  BY <1>1, <2>1
<1>4. link
  <2>1. DOMAIN forum # {}
    BY <1>1
  <2> QED  BY <2>1 DEF MirrorOK, TypeInv, TypeOK
<1>5. job \in [Tasks -> Jobs \cup {None}] /\ "events" \in Tasks /\ "reconciler" # "events"
  BY DEF TypeInv, TypeOK, Tasks
<1>6. /\ \A t \in Tasks : job'[t] = job[t] \/ (t = "events" /\ job'[t] = None /\ At(t, "delete"))
  BY <1>2, <1>5
<1>7. ASSUME NEW s \in Sessions
      PROVE  Steady(s)
  <2>1. Announced(s)' <=> Announced(s)
    BY <1>2 DEF Announced
  <2>2. \A n_1 \in Nat : There(s, n_1)' => There(s, n_1)
    BY <1>3 DEF There
  <2>3. ASSUME NEW t \in Tasks
        PROVE  /\ Making(t, s)' => Making(t, s)
               /\ Made(t, s)' <=> Made(t, s)
               /\ Made(t, s) => job'[t].topic = job[t].topic
    BY <1>6 DEF Making, Made, At
  <2>4. /\ At("reconciler", "listing")' <=> At("reconciler", "listing")
        /\ Unlisted(s)' => Unlisted(s)
    BY <1>2, <1>6 DEF At, Unlisted, Tasks
  <2> QED  BY <1>2, <2>1, <2>2, <2>3, <2>4 DEF Steady
<1>8. \A t \in Tasks : Unbinding(t)'
  BY <1>2, <1>6 DEF MirrorOK, Unbinding, At
<1>9. StreamOK'
  BY <1>2 DEF MirrorOK, StreamOK
<1>10. \A n_1 \in DOMAIN forum' :
          forum'[n_1].session \in used
          \/ (n_1 \in DOMAIN forum /\ forum'[n_1].session = forum[n_1].session)
  BY <1>3
<1> QED  BY <1>2, <1>4, <1>7, <1>8, <1>9, <1>10, SteadyStep

\* A step of one task, for one session.
LEMMA StepFor ==
    ASSUME TypeInv, MirrorOK, link, UNCHANGED <<names, used, link>>, StreamOK',
           NEW s \in Sessions, s \in used,
           NEW t \in Tasks, NEW j, job' = [job EXCEPT ![t] = j],
           At(t, "listing")' <=> At(t, "listing"), At(t, "listed")' <=> At(t, "listed"),
           \A x \in Sessions \ {s} :
              /\ Making(t, x)' => Making(t, x)
              /\ ~Made(t, x)' /\ ~Made(t, x)
              /\ topics'[x] = topics[x] /\ (Announced(x)' => Announced(x))
              /\ \A n \in Nat : There(x, n)' => There(x, n)
              /\ todo # None => todo'[x] = todo[x],
           todo' # None <=> todo # None,
           Mirrored(s)' /\ BeforeOrphans(s)',
           \A n \in DOMAIN forum' :
              forum'[n].session \in used
              \/ (n \in DOMAIN forum /\ forum'[n].session = forum[n].session),
           \A u \in Tasks : Unbinding(u)'
    PROVE  MirrorOK'
<1>1. ASSUME NEW x \in Sessions \ {s}
      PROVE  Steady(x)
  <2>1. \A u \in Tasks \ {t} :
           /\ job'[u] = job[u] /\ (Making(u, x)' <=> Making(u, x)) /\ (Made(u, x)' <=> Made(u, x))
           /\ At(u, "listing")' <=> At(u, "listing")
           /\ At(u, "listed")' <=> At(u, "listed")
    <3>1. \A u \in Tasks \ {t} : job'[u] = job[u]
      BY OtherJobs
    <3> QED  BY <3>1 DEF At, Making, Made
  <2>2. \A u \in Tasks : /\ Making(u, x)' => Making(u, x)
                         /\ Made(u, x)' <=> Made(u, x)
                         /\ Made(u, x) => job'[u].topic = job[u].topic
    BY <2>1
  <2>3. /\ At("reconciler", "listing")' <=> At("reconciler", "listing")
        /\ At("reconciler", "listed")' <=> At("reconciler", "listed")
    BY <2>1 DEF Tasks
  <2>4. Unlisted(x)' => Unlisted(x)
    <3>1. At("reconciler", "listed") => todo # None
      BY DEF TypeInv, StageOK, At, Tasks
    <3> QED  BY <2>3, <3>1 DEF Unlisted
  <2> QED  BY <2>2, <2>3, <2>4 DEF Steady
<1>2. PICK X : X = {s}
  OBVIOUS
<1>3. /\ X \cap Sessions \subseteq used /\ \A x \in Sessions \ X : Steady(x)
      /\ \A x \in Sessions \cap X : Mirrored(x)' /\ BeforeOrphans(x)'
  BY <1>1, <1>2
<1> QED  BY <1>3, QuietStep

\* A session whose task is at the lock, or has an event or a topic, is one the daemon has had.
LEMMA UsedSessions ==
    ASSUME MirrorOK, NEW s \in Sessions,
           \/ topics[s] # None \/ names[s] # None \/ Announced(s)
           \/ todo # None /\ todo[s] # None
           \/ \E t \in Tasks : Making(t, s) \/ Made(t, s)
    PROVE  s \in used
BY DEF MirrorOK, Fresh

\* A connection is made: there is no topic yet, and nothing on its way.
LEMMA MirrorConnect ==
    ASSUME TypeInv, MirrorOK, Connect
    PROVE  MirrorOK'
<1>1. /\ UNCHANGED <<names, used, topics, stream, todo, forum>> /\ forum = <<>>
      /\ stream = <<>> /\ todo = None /\ link' /\ DOMAIN forum = {} /\ DOMAIN stream = {}
      /\ \A s \in Sessions : topics[s] = None
  BY DEF Connect, MirrorOK, TypeInv, Offline
<1>2. /\ job'["events"] = None /\ job'["reconciler"].stage = "listing"
      /\ Tasks = {"events", "reconciler"}
  BY DEF Connect, Tasks, TypeInv, TypeOK, Offline
<1>3. \A t \in Tasks, s \in Sessions : ~Making(t, s)' /\ ~Made(t, s)'
  BY <1>2 DEF Making, Made, At
<1>4. \A s \in Sessions : Mirrored(s)' /\ BeforeOrphans(s)'
  <2>1. \A s \in Sessions, n \in Nat : ~There(s, n)'
    BY <1>1 DEF There
  <2>2. \A s \in Sessions : Mirrored(s)'
    BY <2>1 DEF Mirrored
  <2>3. \A s \in Sessions : BeforeOrphans(s)'
    BY <1>1, <1>2, <1>3 DEF BeforeOrphans
  <2> QED  BY <2>2, <2>3
<1>5. \A s \in Sessions : s \notin used' => names'[s] = None /\ Fresh(s)'
  <2>1. \A s \in Sessions : ~Announced(s)'
    BY <1>1 DEF Announced
  <2>2. \A s \in Sessions : s \notin used => names[s] = None
    BY DEF MirrorOK
  <2> QED  BY <1>1, <1>3, <2>1, <2>2 DEF Fresh
<1>6. \A t \in Tasks : Unbinding(t)'
  <2>1. \A t \in Tasks : ~At(t, "created")' /\ ~At(t, "call")'
    BY <1>2 DEF At
  <2> QED  BY <2>1 DEF Unbinding
<1>7. StreamOK'
  BY <1>1 DEF MirrorOK, StreamOK
<1> QED  BY <1>1, <1>4, <1>5, <1>6, <1>7 DEF MirrorOK

\* A task that takes the lock to create a topic has seen that there is none.
LEMMA MirrorTakeLock ==
    ASSUME TypeInv, MirrorOK, NEW t \in Tasks, TakeLock(t)
    PROVE  MirrorOK'
<1>1. /\ job[t] # None /\ job[t].stage = "lock" /\ job[t].stage \in Locking
      /\ UNCHANGED <<names, stream, link, topics, titles, todo, forum, used>>
  BY DEF TakeLock, At, Locking, ghosts
<1>2. link /\ job[t].session \in Sessions
  BY <1>1, JobAtLock
<1>3. PICK r \in LockJobs : r = job[t]
  BY <1>1, LockingJob DEF TypeInv, TypeOK
<1>4. PICK j : /\ job' = [job EXCEPT ![t] = j]
               /\ j = None \/ (j = [r EXCEPT !.stage = "call"] /\ Needed(r))
  BY <1>3 DEF TakeLock
<1>5. /\ job'[t] = j
      /\ j # None => /\ j.stage = "call" /\ j.session = job[t].session /\ j.topic = job[t].topic
                     /\ Needed(job[t])
  BY <1>3, <1>4, OtherJobs DEF LockJobs
<1>6. ASSUME NEW s \in Sessions
      PROVE  Steady(s)
  <2>1. /\ Making(t, s)' => Making(t, s)
        /\ ~Made(t, s)' /\ ~Made(t, s)
    BY <1>1, <1>5 DEF Making, Made, At
  <2>2. \A u \in Tasks \ {t} :
           /\ job'[u] = job[u] /\ (Making(u, s)' <=> Making(u, s)) /\ (Made(u, s)' <=> Made(u, s))
    BY <1>4, OtherJobs
  <2>3. \A u \in Tasks : /\ At(u, "listing")' <=> At(u, "listing")
                         /\ At(u, "listed")' <=> At(u, "listed")
    BY <1>1, <1>5, <2>2 DEF At
  <2>4. /\ Unlisted(s)' <=> Unlisted(s)
        /\ At("reconciler", "listing")' <=> At("reconciler", "listing")
    BY <1>1, <2>3 DEF Unlisted, Tasks
  <2>5. (Announced(s)' <=> Announced(s)) /\ \A n \in Nat : There(s, n)' <=> There(s, n)
    BY <1>1 DEF Announced, There
  <2> QED  BY <1>1, <2>1, <2>2, <2>4, <2>5 DEF Steady
<1>7. ASSUME NEW u \in Tasks
      PROVE  Unbinding(u)'
  <2>1. CASE u = t
    <3>1. ~At(u, "created")'
      BY <1>5, <2>1 DEF At
    <3>2. At(u, "call")' /\ job'[u].topic = None => topics'[job'[u].session] = None
      BY <1>1, <1>5, <2>1 DEF Needed, At
    <3> QED  BY <3>1, <3>2 DEF Unbinding
  <2>2. CASE u # t
    BY <1>1, <1>4, <2>2, OtherJobs DEF MirrorOK
  <2> QED  BY <2>1, <2>2
<1>8. StreamOK'
  BY <1>1 DEF MirrorOK, StreamOK
<1>9. \A n \in DOMAIN forum' : n \in DOMAIN forum /\ forum'[n].session = forum[n].session
  BY <1>1
<1> QED  BY <1>1, <1>2, <1>6, <1>7, <1>8, <1>9, SteadyStep

\* A call that changes a topic changes no more than its title.
LEMMA MirrorRetitle ==
    ASSUME TypeInv, MirrorOK, NEW t \in Tasks, Call(t), job[t].topic # None
    PROVE  MirrorOK'
<1>1. /\ job[t] # None /\ job[t].stage = "call" /\ job[t].stage \in Locking
      /\ UNCHANGED <<names, stream, link, topics, todo, used>>
  BY CallOutcome DEF ghosts
<1>2. link /\ job[t].session \in Sessions /\ job[t].topic \in DOMAIN forum
  BY <1>1, JobAtLock
<1>3. PICK j \in Jobs :
         /\ job' = [job EXCEPT ![t] = j] /\ j.stage \in {"titled", "refused"}
         /\ \/ forum' = [forum EXCEPT ![job[t].topic].title = job[t].title]
            \/ forum' = forum
  BY CallOutcome
<1>4. /\ DOMAIN forum' = DOMAIN forum
      /\ \A n \in DOMAIN forum : forum'[n].session = forum[n].session
                                 /\ forum'[n].there = forum[n].there
  <2>1. \A n \in DOMAIN forum : forum[n] \in [session : Sessions, title : Titles, there : BOOLEAN]
    BY ForumRecord
  <2> QED  BY <1>2, <1>3, <2>1
<1>5. /\ job'[t] = j
      /\ \A u \in Tasks \ {t} : job'[u] = job[u]
  BY <1>3, OtherJobs
<1>6. ASSUME NEW s \in Sessions
      PROVE  Steady(s)
  <2>1. /\ ~Making(t, s)'
        /\ ~Made(t, s)' /\ ~Made(t, s)
    BY <1>1, <1>3, <1>5 DEF Making, Made, At
  <2>2. \A u \in Tasks \ {t} :
           (Making(u, s)' <=> Making(u, s)) /\ (Made(u, s)' <=> Made(u, s))
    BY <1>5 DEF Making, Made, At
  <2>3. \A u \in Tasks : /\ At(u, "listing")' <=> At(u, "listing")
                         /\ At(u, "listed")' <=> At(u, "listed")
    BY <1>1, <1>3, <1>5 DEF At
  <2>4. /\ Unlisted(s)' <=> Unlisted(s)
        /\ At("reconciler", "listing")' <=> At("reconciler", "listing")
    BY <1>1, <2>3 DEF Unlisted, Tasks
  <2>5. (Announced(s)' <=> Announced(s)) /\ \A n \in Nat : There(s, n)' <=> There(s, n)
    BY <1>1, <1>4 DEF Announced, There
  <2> QED  BY <1>1, <1>5, <2>1, <2>2, <2>4, <2>5 DEF Steady
<1>7. ASSUME NEW u \in Tasks
      PROVE  Unbinding(u)'
  <2>1. CASE u = t
    BY <1>3, <1>5, <2>1 DEF Unbinding, At
  <2>2. CASE u # t
    BY <1>1, <1>5, <2>2 DEF MirrorOK, Unbinding, At
  <2> QED  BY <2>1, <2>2
<1>8. StreamOK'
  BY <1>1 DEF MirrorOK, StreamOK
<1> QED  BY <1>1, <1>2, <1>4, <1>6, <1>7, <1>8, SteadyStep

\* A topic is created for a session that has none.
LEMMA MirrorCreate ==
    ASSUME TypeInv, MirrorOK, NEW t \in Tasks, Call(t), job[t].topic = None
    PROVE  MirrorOK'
<1>1. /\ job[t] # None /\ job[t].stage = "call" /\ job[t].stage \in Locking
      /\ UNCHANGED <<names, stream, link, topics, todo, used>>
  BY CallOutcome DEF ghosts
<1>2. PICK s \in Sessions : s = job[t].session
  BY <1>1, JobAtLock
<1>3. link /\ job[t].title \in Titles
  BY <1>1, JobAtLock
<1>4. PICK j \in Jobs :
         /\ job' = [job EXCEPT ![t] = j] /\ j.stage = "created" /\ j.session = s
         /\ j.topic = Len(forum) + 1
         /\ forum' = Append(forum, [session |-> s, title |-> job[t].title, there |-> TRUE])
  BY <1>2, CallOutcome
<1>5. /\ job'[t] = j /\ j # None
      /\ \A u \in Tasks \ {t} : job'[u] = job[u]
  BY <1>4, OtherJobs, JobsAreSomething
<1>6. /\ Len(forum) \in Nat /\ DOMAIN forum = 1..Len(forum)
      /\ DOMAIN forum' = 1..(Len(forum) + 1)
      /\ forum'[Len(forum) + 1].session = s /\ forum'[Len(forum) + 1].there
      /\ \A n \in DOMAIN forum : forum'[n] = forum[n]
  <2>1. PICK q \in [session : Sessions, title : Titles, there : BOOLEAN] :
           q = [session |-> s, title |-> job[t].title, there |-> TRUE]
    BY <1>3
  <2>2. forum' = Append(forum, q)
    BY <1>4, <2>1
  <2>3. forum \in Seq([session : Sessions, title : Titles, there : BOOLEAN])
    BY DEF TypeInv, TypeOK
  <2>4. /\ Len(forum) \in Nat /\ DOMAIN forum = 1..Len(forum)
        /\ DOMAIN forum' = 1..(Len(forum) + 1) /\ forum'[Len(forum) + 1] = q
        /\ \A n \in 1..Len(forum) : forum'[n] = forum[n]
    BY <2>2, <2>3, AppendProperties, LenProperties
  <2> QED  BY <2>1, <2>4
<1>7. Making(t, s) /\ s \in used /\ topics[s] = None
  <2>1. Making(t, s)
    BY <1>1, <1>2 DEF Making
  <2>2. Unbinding(t)
    BY DEF MirrorOK
  <2> QED  BY <1>1, <1>2, <2>1, <2>2, UsedSessions DEF Unbinding, At
<1>8. names[s] # None => \A n \in Nat : ~There(s, n)
  <2> SUFFICES ASSUME names[s] # None, NEW n \in Nat, There(s, n)
               PROVE  FALSE
    OBVIOUS
  <2>1. topics[s] # n
    BY <1>7, JobsAreSomething
  <2>2. \A u \in Tasks : ~Made(u, s)
    BY <1>1, OneHolder DEF Made, At, Holding
  <2>3. ~Lost(s)
    BY <1>7 DEF Lost
  <2> QED  BY <2>1, <2>2, <2>3 DEF MirrorOK, Mirrored
<1>9. \A n \in Nat, x \in Sessions :
         There(x, n)' <=> There(x, n) \/ (x = s /\ n = Len(forum) + 1)
  BY <1>6 DEF There
<1>10. Made(t, s)'
  BY <1>4, <1>5 DEF Made, At
<1>11. Mirrored(s)'
  BY <1>1, <1>4, <1>5, <1>8, <1>9, <1>10 DEF Mirrored
<1>12. \A u \in Tasks : /\ At(u, "listing")' <=> At(u, "listing")
                        /\ At(u, "listed")' <=> At(u, "listed")
  BY <1>1, <1>4, <1>5 DEF At
<1>13. BeforeOrphans(s)'
  <2>1. (Unlisted(s)' <=> Unlisted(s)) /\ (Announced(s)' <=> Announced(s))
    BY <1>1, <1>12 DEF Unlisted, Announced, Tasks
  <2>2. Unlisted(s) => t = "events"
    BY <1>1 DEF Unlisted, At, Tasks
  <2>3. BeforeOrphans(s)
    BY DEF MirrorOK
  <2> QED  BY <1>1, <1>7, <2>1, <2>2, <2>3 DEF BeforeOrphans
<1>14. ASSUME NEW u \in Tasks
       PROVE  Unbinding(u)'
  <2>1. CASE u = t
    BY <1>1, <1>4, <1>5, <1>7, <2>1 DEF Unbinding, At
  <2>2. CASE u # t
    BY <1>1, <1>5, <2>2 DEF MirrorOK, Unbinding, At
  <2> QED  BY <2>1, <2>2
<1>15. StreamOK'
  BY <1>1 DEF MirrorOK, StreamOK
<1>16. ASSUME NEW x \in Sessions \ {s}
       PROVE  /\ Making(t, x)' => Making(t, x)
              /\ ~Made(t, x)' /\ ~Made(t, x)
              /\ topics'[x] = topics[x] /\ (Announced(x)' => Announced(x))
              /\ \A n \in Nat : There(x, n)' => There(x, n)
              /\ todo # None => todo'[x] = todo[x]
  <2>1. ~Making(t, x)' /\ ~Made(t, x)' /\ ~Made(t, x)
    BY <1>1, <1>2, <1>4, <1>5 DEF Making, Made, At
  <2> QED  BY <1>1, <1>9, <2>1 DEF Announced
<1>17. \A n \in DOMAIN forum' :
          forum'[n].session \in used
          \/ (n \in DOMAIN forum /\ forum'[n].session = forum[n].session)
  BY <1>6, <1>7
<1>18. /\ UNCHANGED <<names, used, link>> /\ job' = [job EXCEPT ![t] = j]
       /\ todo' # None <=> todo # None
  BY <1>1, <1>4
<1> QED  BY <1>3, <1>7, <1>11, <1>12, <1>13, <1>14, <1>15, <1>16, <1>17, <1>18, StepFor

\* A call that changed no more than a title is recorded.
LEMMA MirrorTitled ==
    ASSUME TypeInv, MirrorOK, NEW t \in Tasks, Record(t), job[t].stage # "created"
    PROVE  MirrorOK'
<1>1. /\ job[t] # None /\ job[t].stage \in {"titled", "refused"} /\ job[t].stage \in Locking
      /\ job' = [job EXCEPT ![t] = None]
      /\ UNCHANGED <<names, stream, link, topics, todo, forum, used>>
  BY DEF Record, Locking, ghosts
<1>2. link
  BY <1>1, JobAtLock
<1>3. /\ job'[t] = None
      /\ \A u \in Tasks \ {t} : job'[u] = job[u]
  BY <1>1, OtherJobs
<1>4. ASSUME NEW s \in Sessions
      PROVE  Steady(s)
  <2>1. /\ ~Making(t, s)'
        /\ ~Made(t, s)' /\ ~Made(t, s)
    BY <1>1, <1>3 DEF Making, Made, At
  <2>2. \A u \in Tasks \ {t} :
           (Making(u, s)' <=> Making(u, s)) /\ (Made(u, s)' <=> Made(u, s))
    BY <1>3 DEF Making, Made, At
  <2>3. \A u \in Tasks : /\ At(u, "listing")' <=> At(u, "listing")
                         /\ At(u, "listed")' <=> At(u, "listed")
    BY <1>1, <1>3 DEF At
  <2>4. /\ Unlisted(s)' <=> Unlisted(s)
        /\ At("reconciler", "listing")' <=> At("reconciler", "listing")
    BY <1>1, <2>3 DEF Unlisted, Tasks
  <2>5. (Announced(s)' <=> Announced(s)) /\ \A n \in Nat : There(s, n)' <=> There(s, n)
    BY <1>1 DEF Announced, There
  <2> QED  BY <1>1, <1>3, <2>1, <2>2, <2>4, <2>5 DEF Steady
<1>5. ASSUME NEW u \in Tasks
      PROVE  Unbinding(u)'
  <2>1. CASE u = t
    BY <1>3, <2>1 DEF Unbinding, At
  <2>2. CASE u # t
    BY <1>1, <1>3, <2>2 DEF MirrorOK, Unbinding, At
  <2> QED  BY <2>1, <2>2
<1>6. StreamOK'
  BY <1>1 DEF MirrorOK, StreamOK
<1> QED  BY <1>1, <1>2, <1>4, <1>5, <1>6, SteadyStep

\* A topic that has been created is bound to its session.
LEMMA MirrorBind ==
    ASSUME TypeInv, MirrorOK, NEW t \in Tasks, Record(t), job[t].stage = "created"
    PROVE  MirrorOK'
<1>1. /\ job[t] # None /\ job[t].stage \in Locking /\ job[t].stage \in Holding
      /\ job' = [job EXCEPT ![t] = None]
      /\ topics' = [topics EXCEPT ![job[t].session] = job[t].topic]
      /\ UNCHANGED <<names, stream, link, todo, forum, used>>
  BY DEF Record, Locking, Holding, ghosts
<1>2. PICK s \in Sessions : s = job[t].session
  BY <1>1, JobAtLock
<1>3. link
  BY <1>1, JobAtLock
<1>4. /\ job'[t] = None
      /\ \A u \in Tasks \ {t} : job'[u] = job[u]
  BY <1>1, OtherJobs
<1>5. /\ topics'[s] = job[t].topic
      /\ \A x \in Sessions \ {s} : topics'[x] = topics[x]
  BY <1>1, <1>2 DEF TypeInv, TypeOK
<1>6. Made(t, s) /\ s \in used /\ topics[s] = None
  <2>1. Made(t, s)
    BY <1>1, <1>2 DEF Made, At
  <2>2. Unbinding(t)
    BY DEF MirrorOK
  <2> QED  BY <1>1, <1>2, <2>1, <2>2, UsedSessions DEF Unbinding, At
<1>7. ASSUME names[s] # None, NEW n \in Nat, There(s, n)
      PROVE  n = job[t].topic
  <2>1. topics[s] # n /\ ~Lost(s)
    BY <1>6, JobsAreSomething DEF Lost
  <2>2. \A u \in Tasks : Made(u, s) => u = t
    BY <1>1, OneHolder DEF Made, At, Holding
  <2> QED  BY <1>7, <2>1, <2>2 DEF MirrorOK, Mirrored
<1>8. Mirrored(s)'
  <2>1. \A n \in Nat : There(s, n)' <=> There(s, n)
    BY <1>1 DEF There
  <2> QED  BY <1>1, <1>5, <1>7, <2>1 DEF Mirrored
<1>9. \A u \in Tasks : /\ At(u, "listing")' <=> At(u, "listing")
                       /\ At(u, "listed")' <=> At(u, "listed")
  BY <1>1, <1>4 DEF At
<1>10. BeforeOrphans(s)'
  <2>1. (Unlisted(s)' <=> Unlisted(s)) /\ (Announced(s)' <=> Announced(s))
    BY <1>1, <1>9 DEF Unlisted, Announced, Tasks
  <2>2. Unlisted(s) => t = "events"
    BY <1>1 DEF Unlisted, At, Tasks
  <2>3. BeforeOrphans(s)
    BY DEF MirrorOK
  <2>4. t = "events" => ~Making("events", s)'
    BY <1>4 DEF Making
  <2> QED  BY <1>6, <2>1, <2>2, <2>3, <2>4 DEF BeforeOrphans
<1>11. ASSUME NEW u \in Tasks
       PROVE  Unbinding(u)'
  <2>1. CASE u = t
    BY <1>4, <2>1 DEF Unbinding, At
  <2>2. CASE u # t
    <3>1. ~At(u, "created") /\ ~At(u, "call")
      BY <1>1, <2>2, OneHolder DEF At, Holding
    <3> QED  BY <1>4, <2>2, <3>1 DEF Unbinding, At
  <2> QED  BY <2>1, <2>2
<1>12. StreamOK'
  BY <1>1 DEF MirrorOK, StreamOK
<1>13. ASSUME NEW x \in Sessions \ {s}
       PROVE  /\ Making(t, x)' => Making(t, x)
              /\ ~Made(t, x)' /\ ~Made(t, x)
              /\ topics'[x] = topics[x] /\ (Announced(x)' => Announced(x))
              /\ \A n \in Nat : There(x, n)' => There(x, n)
              /\ todo # None => todo'[x] = todo[x]
  <2>1. ~Making(t, x)' /\ ~Made(t, x)' /\ ~Made(t, x)
    BY <1>1, <1>2, <1>4 DEF Making, Made, At
  <2> QED  BY <1>1, <1>5, <2>1 DEF Announced, There
<1>14. /\ \A n \in DOMAIN forum' : n \in DOMAIN forum /\ forum'[n].session = forum[n].session
       /\ todo' # None <=> todo # None
  BY <1>1
<1> QED
  BY <1>1, <1>3, <1>6, <1>8, <1>9, <1>10, <1>11, <1>12, <1>13, <1>14, StepFor

\* A task takes on a job for one session, which had no job of its own.
LEMMA MirrorJob ==
    ASSUME TypeInv, MirrorOK, link, UNCHANGED <<names, used, link, forum>>, StreamOK',
           NEW s \in Sessions, s \in used,
           NEW t \in Tasks, NEW j, job' = [job EXCEPT ![t] = j],
           job[t] # None => job[t].stage = "replace" /\ job[t].session = s,
           j # None => j.stage \in {"lock", "replace", "delete"},
           j # None /\ j.stage \in {"lock", "replace"} => j.session = s,
           \A x \in Sessions \ {s} :
              /\ topics'[x] = topics[x] /\ (Announced(x)' => Announced(x))
              /\ todo # None => todo'[x] = todo[x],
           topics'[s] \in {topics[s], None},
           todo' # None <=> todo # None,
           Mirrored(s)' /\ BeforeOrphans(s)'
    PROVE  MirrorOK'
<1>1. /\ job'[t] = j
      /\ \A u \in Tasks \ {t} : job'[u] = job[u]
  BY OtherJobs
<1>2. /\ At(t, "listing")' <=> At(t, "listing")
      /\ At(t, "listed")' <=> At(t, "listed")
  BY <1>1 DEF At
<1>3. ASSUME NEW x \in Sessions \ {s}
      PROVE  ~Making(t, x)' /\ ~Made(t, x)' /\ ~Made(t, x)
  BY <1>1 DEF Making, Made, At
<1>4. \A x \in Sessions, n \in Nat : There(x, n)' <=> There(x, n)
  BY DEF There
<1>5. ASSUME NEW u \in Tasks
      PROVE  Unbinding(u)'
  <2>1. CASE u = t
    BY <1>1, <2>1 DEF Unbinding, At
  <2>2. CASE u # t
    <3>1. Unbinding(u) /\ job'[u] = job[u]
      BY <1>1, <2>2 DEF MirrorOK
    <3>2. ASSUME At(u, "created") \/ At(u, "call")
          PROVE  job[u].session \in Sessions
      BY <3>2, JobAtLock DEF At, Locking
    <3> QED  BY <3>1, <3>2 DEF Unbinding, At
  <2> QED  BY <2>1, <2>2
<1>6. \A n \in DOMAIN forum' : n \in DOMAIN forum /\ forum'[n].session = forum[n].session
  OBVIOUS
<1> QED  BY <1>2, <1>3, <1>4, <1>5, <1>6, StepFor

\* A session is announced, and a topic made for it if it has none.
LEMMA MirrorAdded ==
    ASSUME TypeInv, MirrorOK, OnAdded
    PROVE  MirrorOK'
<1>1. /\ Takes("session_added") /\ UNCHANGED <<names, link, topics, todo, forum, used>>
  BY DEF OnAdded, ghosts
<1>2. PICK s \in Sessions : s = Head(stream).session
  BY <1>1, TakesAnEvent
<1>3. PICK name \in Titles : name = Head(stream).name
  BY <1>1, TakesAnEvent
<1>4. link /\ job["events"] = None /\ "events" \in Tasks
  BY <1>1, TakesAnEvent DEF Tasks
<1>5. PICK j : j = Ensure(s, name) /\ job' = [job EXCEPT !["events"] = j]
  BY <1>2, <1>3 DEF OnAdded
<1>6. j # None => /\ topics[s] = None /\ j.stage = "lock" /\ j.session = s /\ j.topic = None
  BY <1>5, EnsureJob
<1>7. /\ StreamOK' /\ \A x \in Sessions : Announced(x)' => Announced(x)
      /\ s \in used /\ Announced(s) /\ ~Announced(s)'
  BY <1>1, <1>2, StreamShrinks DEF MirrorOK
<1>8. /\ job'["events"] = j
      /\ \A u \in Tasks \ {"events"} : /\ job'[u] = job[u]
                                       /\ Made(u, s)' <=> Made(u, s)
  BY <1>4, <1>5, OtherJobs
<1>9. Mirrored(s)'
  <2>1. ~Lost(s) /\ ~Made("events", s)
    BY <1>4, <1>7 DEF Lost, Made, At
  <2>2. \A n \in Nat : There(s, n)' <=> There(s, n)
    BY <1>1 DEF There
  <2>3. Mirrored(s)
    BY DEF MirrorOK
  <2>4. \A u \in Tasks : Made(u, s) => u # "events"
    BY <2>1
  <2> QED  BY <1>1, <1>8, <2>1, <2>2, <2>3, <2>4 DEF Mirrored
<1>10. BeforeOrphans(s)'
  <2>1. Unlisted(s)' <=> Unlisted(s)
    BY <1>1, <1>8 DEF Unlisted, At, Tasks
  <2>2. topics[s] # None => ~Unlisted(s)
    BY <1>7 DEF MirrorOK, BeforeOrphans
  <2> QED  BY <1>1, <1>7, <2>1, <2>2 DEF BeforeOrphans
<1> QED  BY <1>1, <1>4, <1>5, <1>6, <1>7, <1>9, <1>10, MirrorJob

\* A session is renamed, and its topic retitled if it has one.
LEMMA MirrorUpdated ==
    ASSUME TypeInv, MirrorOK, OnUpdated
    PROVE  MirrorOK'
<1>1. Takes("session_updated") /\ UNCHANGED <<names, link, topics, todo, forum, used>>
  BY DEF OnUpdated, ghosts
<1>2. PICK s \in Sessions : s = Head(stream).session
  BY <1>1, TakesAnEvent
<1>3. PICK name \in Titles : name = Head(stream).name
  BY <1>1, TakesAnEvent
<1>4. link /\ job["events"] = None /\ "events" \in Tasks
  BY <1>1, TakesAnEvent DEF Tasks
<1>5. PICK j : j = ApplyTitle(s, name) /\ job' = [job EXCEPT !["events"] = j]
  BY <1>2, <1>3 DEF OnUpdated
<1>6. j # None => /\ j.stage = "lock" /\ j.session = s /\ j.topic # None
  BY <1>5, EnsureJob
<1>7. StreamOK' /\ s \in used /\ \A x \in Sessions : Announced(x)' => Announced(x)
  BY <1>1, <1>2, StreamShrinks DEF MirrorOK
<1>8. /\ job'["events"] = j
      /\ \A u \in Tasks \ {"events"} :
            /\ job'[u] = job[u]
            /\ (Made(u, s)' <=> Made(u, s)) /\ (Making(u, s)' <=> Making(u, s))
  BY <1>4, <1>5, OtherJobs
<1>9. /\ ~Making("events", s)' /\ ~Made("events", s)' /\ ~Made("events", s)
  BY <1>4, <1>6, <1>8 DEF Making, Made, At
<1>10. /\ Unlisted(s)' <=> Unlisted(s)
       /\ At("reconciler", "listing")' <=> At("reconciler", "listing")
  BY <1>1, <1>8 DEF Unlisted, At, Tasks
<1>11. Steady(s)
  <2>1. \A n \in Nat : There(s, n)' <=> There(s, n)
    BY <1>1 DEF There
  <2>2. \A u \in Tasks : /\ Making(u, s)' => Making(u, s)
                         /\ Made(u, s)' <=> Made(u, s)
                         /\ Made(u, s) => job'[u].topic = job[u].topic
    BY <1>8, <1>9
  <2> QED  BY <1>1, <1>7, <1>10, <2>1, <2>2 DEF Steady
<1>12. Mirrored(s)' /\ BeforeOrphans(s)'
  BY <1>1, <1>11, SteadyKeeps DEF MirrorOK
<1> QED  BY <1>1, <1>4, <1>5, <1>6, <1>7, <1>12, MirrorJob

\* A session has ended, and its topic is unbound.
LEMMA MirrorRemoved ==
    ASSUME TypeInv, MirrorOK, OnRemoved
    PROVE  MirrorOK'
<1>1. Takes("session_removed") /\ UNCHANGED <<names, link, todo, forum, used>>
  BY DEF OnRemoved, ghosts
<1>2. PICK s \in Sessions : s = Head(stream).session
  BY <1>1, TakesAnEvent
<1>3. link /\ job["events"] = None /\ "events" \in Tasks
  BY <1>1, TakesAnEvent DEF Tasks
<1>4. PICK j : /\ j = IF topics[s] = None THEN None ELSE [stage |-> "delete", topic |-> topics[s]]
               /\ job' = [job EXCEPT !["events"] = j]
  BY <1>2 DEF OnRemoved
<1>5. j # None => j.stage = "delete"
  BY <1>4
<1>6. \A x \in Sessions : topics'[x] = IF x = s THEN None ELSE topics[x]
  BY <1>2, UnboundTypes DEF OnRemoved
<1>7. /\ StreamOK' /\ \A x \in Sessions : Announced(x)' => Announced(x)
      /\ s \in used /\ names[s] = None
  BY <1>1, <1>2, StreamShrinks DEF MirrorOK
<1>8. job'["events"] = j
  BY <1>3, <1>4 DEF TypeInv, TypeOK
<1>9. Mirrored(s)'
  BY <1>1, <1>7 DEF Mirrored
<1>10. BeforeOrphans(s)'
  <2>1. ~Making("events", s)' /\ ~Made("events", s)'
    BY <1>5, <1>8 DEF Making, Made, At
  <2> QED  BY <1>6, <2>1 DEF BeforeOrphans
<1> QED  BY <1>1, <1>3, <1>4, <1>5, <1>6, <1>7, <1>9, <1>10, MirrorJob

\* A reply that finds its topic gone unbinds it, to make another.
LEMMA MirrorReply ==
    ASSUME TypeInv, MirrorOK, OnReply
    PROVE  MirrorOK'
<1>1. Takes("turn_ended") /\ UNCHANGED <<names, link, todo, forum, used>>
  BY DEF OnReply, ghosts
<1>2. PICK s \in Sessions : s = Head(stream).session
  BY <1>1, TakesAnEvent
<1>3. /\ link /\ job["events"] = None /\ "events" \in Tasks
      /\ job \in [Tasks -> Jobs \cup {None}]
  BY <1>1, TakesAnEvent DEF Tasks, TypeInv, TypeOK
<1>4. /\ StreamOK' /\ s \in used /\ \A x \in Sessions : Announced(x)' => Announced(x)
  BY <1>1, <1>2, StreamShrinks DEF MirrorOK
<1>5. \A n \in Nat, x \in Sessions : There(x, n)' <=> There(x, n)
  BY <1>1 DEF There
<1>6. Mirrored(s) /\ BeforeOrphans(s)
  BY DEF MirrorOK
<1>7. CASE topics[s] # None /\ ~Topic(s).there
  <2>1. PICK j : j = [stage |-> "replace", session |-> s] /\ job' = [job EXCEPT !["events"] = j]
    BY <1>2, <1>7 DEF OnReply
  <2>2. \A x \in Sessions : topics'[x] = IF x = s THEN None ELSE topics[x]
    BY <1>2, <1>7, UnboundTypes DEF OnReply
  <2>3. /\ job'["events"] = j
        /\ \A u \in Tasks \ {"events"} : job'[u] = job[u]
    BY <1>3, <2>1, OtherJobs
  <2>4. Mirrored(s)'
    <3>1. \A n \in Nat : There(s, n) => topics[s] # n
      BY <1>7 DEF There, Topic
    <3>2. ~Lost(s)
      BY <1>7 DEF Lost
    <3>3. \A u \in Tasks : Made(u, s) => Unbinding(u)
      BY DEF MirrorOK
    <3>4. \A u \in Tasks : ~Made(u, s)
      BY <1>7, <3>3 DEF Made, Unbinding
    <3>5. names[s] # None => \A n \in Nat : ~There(s, n)
      BY <1>6, <3>1, <3>2, <3>4 DEF Mirrored
    <3> QED  BY <1>1, <1>5, <3>5 DEF Mirrored
  <2>5. BeforeOrphans(s)'
    <3>1. Unlisted(s)' <=> Unlisted(s)
      BY <1>1, <2>3 DEF Unlisted, At, Tasks
    <3> QED  BY <1>4, <1>6, <1>7, <2>2, <3>1 DEF BeforeOrphans
  <2>6. /\ j.stage = "replace" /\ j.session = s
    BY <2>1
  <2> QED  BY <1>1, <1>3, <1>4, <2>1, <2>2, <2>4, <2>5, <2>6, MirrorJob
<1>8. CASE ~(topics[s] # None /\ ~Topic(s).there)
  <2>1. UNCHANGED <<topics, job>>
    BY <1>2, <1>8 DEF OnReply
  <2>2. \A x \in Sessions : Steady(x)
    BY <1>1, <1>4, <1>5, <2>1 DEF Steady, Making, Made, At, Unlisted
  <2>3. \A t \in Tasks : Unbinding(t)'
    BY <2>1 DEF MirrorOK, Unbinding, At
  <2> QED  BY <1>1, <1>3, <1>4, <2>2, <2>3, SteadyStep
<1> QED  BY <1>7, <1>8

\* The name has arrived: the topic is made, unless there is one by now.
LEMMA MirrorReplace ==
    ASSUME TypeInv, MirrorOK, Replace
    PROVE  MirrorOK'
<1>1. /\ job["events"] \in Jobs /\ job["events"] # None /\ job["events"].stage = "replace"
      /\ "events" \in Tasks /\ link
      /\ UNCHANGED <<names, stream, link, topics, todo, forum, used>>
  BY DEF Replace, At, Tasks, TypeInv, TypeOK, Offline, ghosts
<1>2. PICK s \in Sessions : s = job["events"].session
  BY <1>1 DEF Jobs, Locking
<1>3. PICK j : j = Ensure(s, names[s]) /\ job' = [job EXCEPT !["events"] = j]
  BY <1>2 DEF Replace
<1>4. names[s] \in Titles
  BY DEF TypeInv, TypeOK
<1>5. j # None => /\ topics[s] = None /\ j.stage = "lock" /\ j.session = s /\ j.topic = None
  BY <1>3, <1>4, EnsureJob
<1>6. Making("events", s) /\ s \in used
  <2>1. Making("events", s)
    BY <1>1, <1>2 DEF Making
  <2> QED  BY <1>1, <2>1, UsedSessions
<1>7. /\ job'["events"] = j
      /\ \A u \in Tasks \ {"events"} :
            /\ job'[u] = job[u]
            /\ (Made(u, s)' <=> Made(u, s)) /\ (Making(u, s)' <=> Making(u, s))
  BY <1>1, <1>3, OtherJobs
<1>8. ~Made("events", s)' /\ ~Made("events", s)
  BY <1>1, <1>5, <1>7 DEF Made, At
<1>9. Steady(s)
  <2>1. \A n \in Nat : There(s, n)' <=> There(s, n)
    BY <1>1 DEF There
  <2>2. \A u \in Tasks : /\ Making(u, s)' => Making(u, s)
                         /\ Made(u, s)' <=> Made(u, s)
                         /\ Made(u, s) => job'[u].topic = job[u].topic
    BY <1>6, <1>7, <1>8
  <2>3. /\ Unlisted(s)' <=> Unlisted(s)
        /\ At("reconciler", "listing")' <=> At("reconciler", "listing")
    BY <1>1, <1>7 DEF Unlisted, At, Tasks
  <2> QED  BY <1>1, <2>1, <2>2, <2>3 DEF Steady, Announced
<1>10. Mirrored(s)' /\ BeforeOrphans(s)'
  BY <1>1, <1>9, SteadyKeeps DEF MirrorOK
<1>11. StreamOK'
  BY <1>1 DEF MirrorOK, StreamOK
<1>12. \A x \in Sessions : Announced(x)' <=> Announced(x)
  BY <1>1 DEF Announced
<1> QED  BY <1>1, <1>2, <1>3, <1>5, <1>6, <1>10, <1>11, <1>12, MirrorJob

\* The listing arrives.
LEMMA MirrorList ==
    ASSUME TypeInv, MirrorOK, List
    PROVE  MirrorOK'
<1>1. /\ job["reconciler"] \in Jobs /\ job["reconciler"] # None
      /\ job["reconciler"].stage = "listing" /\ "reconciler" \in Tasks /\ link
      /\ todo' = names /\ UNCHANGED <<names, stream, link, topics, forum, used>>
  BY DEF List, At, Tasks, TypeInv, TypeOK, Offline, ghosts
<1>2. PICK r \in [stage : {"listing", "listed"}] : r = job["reconciler"]
  BY <1>1 DEF Jobs, Locking
<1>3. PICK j : j = [r EXCEPT !.stage = "listed"] /\ job' = [job EXCEPT !["reconciler"] = j]
  BY <1>2 DEF List
<1>4. j.stage = "listed"
  BY <1>3
<1>5. /\ job'["reconciler"] = j
      /\ \A u \in Tasks \ {"reconciler"} : job'[u] = job[u]
  BY <1>1, <1>3, OtherJobs
<1>6. \A s \in Sessions, u \in Tasks :
         /\ (Making(u, s)' <=> Making(u, s)) /\ (Made(u, s)' <=> Made(u, s))
         /\ Made(u, s) => job'[u] = job[u]
  BY <1>1, <1>4, <1>5 DEF Making, Made, At
<1>7. ASSUME NEW s \in Sessions
      PROVE  Mirrored(s)' /\ BeforeOrphans(s)'
  <2>1. At("reconciler", "listing")
    BY <1>1 DEF At
  <2>2. ~Lost(s) /\ Unlisted(s)
    BY <2>1 DEF Lost, Unlisted
  <2>3. /\ \A n \in Nat : There(s, n)' <=> There(s, n)
        /\ Announced(s)' <=> Announced(s)
    BY <1>1 DEF There, Announced
  <2>4. Mirrored(s)'
    BY <1>1, <1>6, <2>2, <2>3 DEF MirrorOK, Mirrored
  <2>5. BeforeOrphans(s)'
    BY <1>1, <1>6, <2>2, <2>3 DEF MirrorOK, BeforeOrphans, Tasks
  <2> QED  BY <2>4, <2>5
<1>8. ASSUME NEW s \in Sessions, s \notin used'
      PROVE  names'[s] = None /\ Fresh(s)'
  <2>1. names[s] = None /\ Fresh(s)
    BY <1>1, <1>8 DEF MirrorOK
  <2>2. Announced(s)' <=> Announced(s)
    BY <1>1 DEF Announced
  <2> QED  BY <1>1, <1>6, <2>1, <2>2 DEF Fresh
<1>9. \A t \in Tasks : Unbinding(t)'
  BY <1>1, <1>4, <1>5 DEF MirrorOK, Unbinding, At
<1>10. StreamOK'
  BY <1>1 DEF MirrorOK, StreamOK
<1> QED  BY <1>1, <1>7, <1>8, <1>9, <1>10 DEF MirrorOK

\* The bindings that are not in the listing are dropped.  One that was made since is of
\* a session whose topic is Lost.
LEMMA MirrorOrphan ==
    ASSUME TypeInv, MirrorOK, Orphan
    PROVE  MirrorOK'
<1>1. /\ At("reconciler", "listed") /\ "reconciler" \in Tasks /\ link /\ todo # None
      /\ job' = [job EXCEPT !["reconciler"] = None]
      /\ UNCHANGED <<names, stream, link, todo, forum, used>>
  BY DEF Orphan, At, Tasks, TypeInv, StageOK, Offline, ghosts
<1>2. \A s \in Sessions : topics'[s] = IF todo[s] = None THEN None ELSE topics[s]
  BY UnboundTypes DEF Orphan, Orphans, Live
<1>3. /\ job'["reconciler"] = None
      /\ \A u \in Tasks \ {"reconciler"} : job'[u] = job[u]
  BY <1>1, OtherJobs
<1>4. /\ \A s \in Sessions : ~Making("reconciler", s) /\ ~Made("reconciler", s)
      /\ \A s \in Sessions, u \in Tasks :
            /\ (Making(u, s)' <=> Making(u, s)) /\ (Made(u, s)' <=> Made(u, s))
            /\ Made(u, s) => job'[u] = job[u]
  BY <1>1, <1>3 DEF Making, Made, At
<1>5. \A s \in Sessions : Announced(s)' <=> Announced(s)
  BY <1>1 DEF Announced
<1>6. ASSUME NEW s \in Sessions
      PROVE  Mirrored(s)'
  <2>1. \A n \in Nat : There(s, n)' <=> There(s, n)
    BY <1>1 DEF There
  <2>2. Mirrored(s) /\ BeforeOrphans(s)
    BY DEF MirrorOK
  <2>3. CASE todo[s] # None
    <3>1. topics'[s] = topics[s] /\ ~Lost(s)
      BY <1>2, <2>3 DEF Lost
    <3> QED  BY <1>1, <1>4, <2>1, <2>2, <3>1 DEF Mirrored
  <2>4. CASE todo[s] = None /\ topics[s] # None
    <3>1. ~Announced(s) /\ ~Making("events", s)
      BY <1>1, <2>2, <2>4 DEF BeforeOrphans, Unlisted
    <3>2. \A u \in Tasks : Made(u, s) => Unbinding(u)
      BY DEF MirrorOK
    <3>3. \A u \in Tasks : ~Made(u, s)
      BY <2>4, <3>2 DEF Made, Unbinding
    <3>4. \A u \in Tasks : ~Making(u, s)
      BY <1>4, <3>1 DEF Tasks
    <3>5. topics'[s] = None /\ ~At("reconciler", "listing")'
      BY <1>2, <1>3, <2>4 DEF At
    <3>6. Lost(s)'
      BY <1>1, <1>4, <1>5, <2>4, <3>1, <3>3, <3>4, <3>5 DEF Lost
    <3> QED  BY <1>1, <2>1, <2>2, <3>6 DEF Mirrored
  <2>5. CASE todo[s] = None /\ topics[s] = None
    <3>1. topics'[s] = topics[s] /\ ~At("reconciler", "listing")'
      BY <1>2, <1>3, <2>5 DEF At
    <3>2. Lost(s) => Lost(s)'
      BY <1>1, <1>4, <1>5, <3>1 DEF Lost
    <3> QED  BY <1>1, <1>4, <2>1, <2>2, <3>1, <3>2 DEF Mirrored
  <2> QED  BY <2>3, <2>4, <2>5
<1>7. \A s \in Sessions : BeforeOrphans(s)'
  BY <1>3 DEF BeforeOrphans, Unlisted, At
<1>8. ASSUME NEW s \in Sessions, s \notin used'
      PROVE  names'[s] = None /\ Fresh(s)'
  <2>1. names[s] = None /\ Fresh(s)
    BY <1>1, <1>8 DEF MirrorOK
  <2> QED  BY <1>1, <1>2, <1>4, <1>5, <2>1 DEF Fresh
<1>9. ASSUME NEW t \in Tasks
      PROVE  Unbinding(t)'
  <2>1. CASE t = "reconciler"
    BY <1>3, <2>1 DEF Unbinding, At
  <2>2. CASE t # "reconciler"
    <3>1. Unbinding(t) /\ job'[t] = job[t]
      BY <1>3, <2>2 DEF MirrorOK
    <3>2. ASSUME At(t, "created") \/ At(t, "call")
          PROVE  job[t].session \in Sessions
      BY <3>2, JobAtLock DEF At, Locking
    <3> QED  BY <1>2, <3>1, <3>2 DEF Unbinding, At
  <2> QED  BY <2>1, <2>2
<1>10. StreamOK'
  BY <1>1 DEF MirrorOK, StreamOK
<1> QED  BY <1>1, <1>6, <1>7, <1>8, <1>9, <1>10 DEF MirrorOK

\* The reconciler comes to a session of the listing.
LEMMA MirrorReconcile ==
    ASSUME TypeInv, MirrorOK, NEW s \in Sessions, ReconcileOne(s)
    PROVE  MirrorOK'
<1>1. /\ todo # None /\ job["reconciler"] = None /\ todo[s] # None /\ "reconciler" \in Tasks
      /\ todo \in [Sessions -> Titles] /\ todo' = [todo EXCEPT ![s] = None] /\ link
      /\ UNCHANGED <<names, stream, link, topics, forum, used>>
  BY DEF ReconcileOne, Tasks, TypeInv, TypeOK, Offline, ghosts
<1>2. PICK j : /\ j \in {Ensure(s, todo[s]), ApplyTitle(s, todo[s])}
               /\ job' = [job EXCEPT !["reconciler"] = j]
  BY DEF ReconcileOne
<1>3. todo[s] \in Titles
  BY <1>1
<1>4. j # None => j.stage = "lock" /\ j.session = s
  BY <1>2, <1>3, EnsureJob
<1>5. s \in used
  BY <1>1, UsedSessions
<1>6. /\ job'["reconciler"] = j
      /\ \A u \in Tasks \ {"reconciler"} :
            job'[u] = job[u] /\ (Made(u, s)' <=> Made(u, s))
  BY <1>1, <1>2, OtherJobs
<1>7. Mirrored(s)'
  <2>1. ~Lost(s) /\ ~Made("reconciler", s)
    BY <1>1 DEF Lost, Made, At
  <2>2. \A n \in Nat : There(s, n)' <=> There(s, n)
    BY <1>1 DEF There
  <2>3. \A u \in Tasks : Made(u, s) => u # "reconciler"
    BY <2>1
  <2> QED  BY <1>1, <1>6, <2>1, <2>2, <2>3 DEF MirrorOK, Mirrored
<1>8. BeforeOrphans(s)'
  BY <1>4, <1>6 DEF BeforeOrphans, Unlisted, At
<1>9. StreamOK'
  BY <1>1 DEF MirrorOK, StreamOK
<1>10. todo' # None
  <2>1. todo' \in [Sessions -> Titles]
    BY <1>1 DEF Titles
  <2> QED  BY <2>1, JobsAreSomething
<1>11. \A x \in Sessions \ {s} :
          /\ topics'[x] = topics[x] /\ (Announced(x)' => Announced(x))
          /\ todo # None => todo'[x] = todo[x]
  BY <1>1 DEF Announced
<1> QED  BY <1>1, <1>2, <1>4, <1>5, <1>7, <1>8, <1>9, <1>10, <1>11, MirrorJob

LEMMA IInvNext == IInv /\ [Next]_vars => IInv'
<1> SUFFICES ASSUME IInv, [Next]_vars
             PROVE  IInv'
  OBVIOUS
<1>1. TypeInv /\ TypeInv'
  BY TypeNext DEF IInv
<1>2. CASE Drop
  <2>1. drops' # 0
    BY <1>1, <1>2 DEF Drop, TypeInv, TypeOK
  <2> QED  BY <1>1, <2>1 DEF IInv
<1>3. ASSUME ~Drop, drops' = 0
      PROVE  MirrorOK'
  <2>1. drops = 0
    BY <1>3 DEF Next, BotStep, TaskStep, Added, Renamed, Removed, Replied, Changed, TopicDeleted,
       Connect, TakeLock, Call, Record, OnAdded, OnUpdated, OnRemoved, Delete, OnReply, Replace,
       List, Orphan, ReconcileOne, vars, ghosts
  <2>2. MirrorOK
    BY <2>1 DEF IInv
  <2>3. CASE \E s \in Sessions : Added(s) \/ Renamed(s) \/ Removed(s) \/ Replied(s)
    BY <1>1, <2>2, <2>3, MirrorDaemon
  <2>4. CASE Delete \/ \E n \in DOMAIN forum : TopicDeleted(n)
    BY <1>1, <2>2, <2>4, MirrorDelete
  <2>5. CASE Connect
    BY <1>1, <2>2, <2>5, MirrorConnect
  <2>6. CASE OnAdded
    BY <1>1, <2>2, <2>6, MirrorAdded
  <2>7. CASE OnUpdated
    BY <1>1, <2>2, <2>7, MirrorUpdated
  <2>8. CASE OnRemoved
    BY <1>1, <2>2, <2>8, MirrorRemoved
  <2>9. CASE OnReply
    BY <1>1, <2>2, <2>9, MirrorReply
  <2>10. CASE Replace
    BY <1>1, <2>2, <2>10, MirrorReplace
  <2>11. CASE List
    BY <1>1, <2>2, <2>11, MirrorList
  <2>12. CASE Orphan
    BY <1>1, <2>2, <2>12, MirrorOrphan
  <2>13. ASSUME NEW s \in Sessions, ReconcileOne(s)
         PROVE  MirrorOK'
    BY <1>1, <2>2, <2>13, MirrorReconcile
  <2>14. ASSUME NEW t \in Tasks, TaskStep(t)
         PROVE  MirrorOK'
    BY <1>1, <2>2, <2>14, MirrorTakeLock, MirrorCreate, MirrorRetitle, MirrorBind, MirrorTitled
       DEF TaskStep
  <2>15. CASE UNCHANGED vars
    BY <2>2, <2>15 DEF vars, bot, ghosts, MirrorOK, Mirrored, BeforeOrphans, Fresh, Unbinding,
       StreamOK, Lost, Made, Making, Announced, Unlisted, There, At
  <2> QED
    BY <1>3, <2>3, <2>4, <2>5, <2>6, <2>7, <2>8, <2>9, <2>10, <2>11, <2>12, <2>13, <2>14, <2>15
       DEF Next, BotStep
<1> QED  BY <1>1, <1>2, <1>3 DEF IInv

\* While no connection is lost, a session has one topic at most, though the events and
\* the reconciler both create them, and one that was deleted by hand is made again
\* (880-885, 1682-1728).
THEOREM OneTopicEach == Spec => []OneTopic
<1>1. Init => IInv
  BY TypeInit, MirrorInit DEF IInv
<1>2. IInv => OneTopic
  <2> SUFFICES ASSUME IInv, drops = 0,
                      NEW m \in DOMAIN forum, NEW n \in DOMAIN forum,
                      forum[m].there, forum[n].there,
                      forum[m].session = forum[n].session, names[forum[m].session] # None
               PROVE  m = n
    BY DEF OneTopic
  <2>1. forum[m].session \in Sessions
    BY ForumRecord DEF IInv
  <2>2. m \in Nat /\ n \in Nat
    BY LenProperties DEF IInv, TypeInv, TypeOK
  <2>3. Mirrored(forum[m].session)
    BY <2>1 DEF IInv, MirrorOK
  <2> QED  BY <2>2, <2>3 DEF Mirrored, There
<1> QED  BY <1>1, <1>2, IInvNext, PTL DEF Spec

-----------------------------------------------------------------------------
(***************************************************************************)
(* Titles: what the bot remembers of a topic's title is the title the      *)
(* topic has, whatever becomes of the connection.                          *)
(*                                                                         *)
(* A task comes for the lock with the topic it means to retitle, and while *)
(* it waits the topic may be unbound.  What it changes is then no longer   *)
(* the topic of a session: its call is refused, because the topic is gone; *)
(* or the session has no topic, and gets none before the task is done.     *)
(***************************************************************************)
\* A task that means to change the topic of its session, or has.
Changing(t) ==
    job[t] # None /\ job[t].stage \in {"lock", "call", "titled", "refused"} /\ job[t].topic # None
Retitled(t, s) == At(t, "titled") /\ job[t].session = s

\* The topic n was unbound from its session, and no other takes its place.
Abandoned(t, s, n) ==
    /\ topics[s] = None
    /\ \/ /\ t = "events" /\ todo # None /\ todo[s] = None
          /\ ~At("reconciler", "listing") /\ ~Making("reconciler", s) /\ ~Made("reconciler", s)
       \/ /\ t = "reconciler" /\ At("events", "delete") /\ job["events"].topic = n

\* The topic a task is about to change is the one its session is bound to, if it is there.
StillBound(t) ==
    Changing(t) => \/ topics[job[t].session] = job[t].topic
                   \/ ~forum[job[t].topic].there
                   \/ Abandoned(t, job[t].session, job[t].topic)

JobTitleOK(t) ==
    /\ Unbinding(t) /\ StillBound(t)
    /\ job[t] # None /\ job[t].stage \in Locking /\ job[t].topic # None =>
          forum[job[t].topic].session = job[t].session
    /\ At(t, "titled") \/ At(t, "created") => forum[job[t].topic].title = job[t].title
    /\ At(t, "titled") => topics[job[t].session] \in {job[t].topic, None}

BoundOK(s) ==
    topics[s] # None =>
        /\ Topic(s).session = s
        /\ Topic(s).there /\ s \notin cut /\ (\A t \in Tasks : ~Retitled(t, s))
              => Topic(s).title = titles[s]

TitlesOK == (\A t \in Tasks : JobTitleOK(t)) /\ \A s \in Sessions : BoundOK(s)

-----------------------------------------------------------------------------
LEMMA TitlesInit == Init => TitlesOK
<1> SUFFICES ASSUME Init
             PROVE  TitlesOK
  OBVIOUS
<1>1. \A t \in Tasks : job[t] = None
  BY DEF Init
<1>2. \A s \in Sessions : topics[s] = None
  BY DEF Init
<1>3. \A t \in Tasks : JobTitleOK(t)
  BY <1>1 DEF JobTitleOK, Unbinding, StillBound, Changing, At
<1>4. \A s \in Sessions : BoundOK(s)
  BY <1>2 DEF BoundOK
<1> QED  BY <1>3, <1>4 DEF TitlesOK

\* A step that has nothing to do with topics.
LEMMA TitlesSame ==
    ASSUME TitlesOK, UNCHANGED <<topics, titles, job, todo, forum, cut>>
    PROVE  TitlesOK'
<1>1. ASSUME NEW t \in Tasks
      PROVE  JobTitleOK(t)'
  BY DEF TitlesOK, JobTitleOK, Unbinding, StillBound, Changing, Abandoned, At, Making, Made
<1>2. ASSUME NEW s \in Sessions
      PROVE  BoundOK(s)'
  BY DEF TitlesOK, BoundOK, Topic, Retitled, At
<1> QED  BY <1>1, <1>2 DEF TitlesOK

\* A connection is made, or lost: no job is left but the listing.
LEMMA TitlesConnection ==
    ASSUME TypeInv, TitlesOK, Connect \/ Drop
    PROVE  TitlesOK'
<1>1. /\ UNCHANGED <<topics, titles, forum>> /\ cut \subseteq cut'
      /\ \A t \in Tasks : job'[t] = None \/ job'[t].stage = "listing"
  BY DEF Connect, Drop, TypeInv, TypeOK, Offline, Tasks
<1>2. \A s \in Sessions : (\E t \in Tasks : Retitled(t, s)) => s \in cut'
  BY DEF Retitled, At, Connect, Drop, TypeInv, Offline
<1>3. ASSUME NEW t \in Tasks
      PROVE  JobTitleOK(t)'
  BY <1>1 DEF JobTitleOK, Unbinding, StillBound, Changing, At, Locking
<1>4. ASSUME NEW s \in Sessions
      PROVE  BoundOK(s)'
  BY <1>1, <1>2 DEF TitlesOK, BoundOK, Topic
<1> QED  BY <1>3, <1>4 DEF TitlesOK

\* A topic is deleted.
LEMMA TitlesDelete ==
    ASSUME TypeInv, TitlesOK, Delete \/ \E n \in DOMAIN forum : TopicDeleted(n)
    PROVE  TitlesOK'
<1>1. PICK n \in DOMAIN forum :
         /\ forum' = [forum EXCEPT ![n].there = FALSE]
         /\ TopicDeleted(n) \/ (Delete /\ n = job["events"].topic)
  BY TypeDelete DEF TopicDeleted, Delete
<1>2. /\ UNCHANGED <<topics, titles, todo, cut>>
      /\ \/ job' = job
         \/ /\ At("events", "delete") /\ job["events"].topic = n
            /\ job' = [job EXCEPT !["events"] = None]
  BY <1>1 DEF TopicDeleted, Delete, bot, ghosts
<1>3. /\ DOMAIN forum' = DOMAIN forum /\ ~forum'[n].there
      /\ \A m \in DOMAIN forum : /\ forum'[m].session = forum[m].session
                                 /\ forum'[m].title = forum[m].title
                                 /\ forum'[m].there => forum[m].there
  <2>1. \A m \in DOMAIN forum : forum[m] \in [session : Sessions, title : Titles, there : BOOLEAN]
    BY ForumRecord
  <2> QED  BY <1>1, <2>1
<1>4. \A t \in Tasks : job'[t] = job[t] \/ (t = "events" /\ job'[t] = None /\ At(t, "delete"))
  BY <1>2 DEF TypeInv, TypeOK, Tasks
<1>5. ASSUME NEW t \in Tasks
      PROVE  JobTitleOK(t)'
  <2>1. CASE job'[t] = None
    BY <2>1 DEF JobTitleOK, Unbinding, StillBound, Changing, At
  <2>2. CASE job'[t] = job[t] /\ job'[t] # None
    <3>1. JobTitleOK(t) /\ StageOK(t)
      BY DEF TitlesOK, TypeInv
    <3>2. job[t].stage \in Locking /\ job[t].topic # None => job[t].topic \in DOMAIN forum
      BY <2>2, <3>1 DEF StageOK
    <3>3. ASSUME Changing(t)
          PROVE  \/ topics[job[t].session] = job[t].topic
                 \/ ~forum'[job[t].topic].there
                 \/ Abandoned(t, job[t].session, job[t].topic)'
      <4>1. job[t].topic \in DOMAIN forum
        BY <3>2, <3>3 DEF Changing, Locking
      <4>2. CASE topics[job[t].session] = job[t].topic \/ ~forum[job[t].topic].there
        BY <1>3, <4>1, <4>2
      <4>3. CASE Abandoned(t, job[t].session, job[t].topic)
        <5>1. CASE job' = job
          BY <1>2, <2>2, <4>3, <5>1 DEF Abandoned, At, Making, Made
        <5>2. CASE At("events", "delete") /\ job["events"].topic = n /\ job'["events"] = None
          BY <1>2, <1>3, <2>2, <4>3, <5>2 DEF Abandoned
        <5>3. "events" \in Tasks /\ job \in [Tasks -> Jobs \cup {None}]
          BY DEF Tasks, TypeInv, TypeOK
        <5> QED  BY <1>2, <5>1, <5>2, <5>3
      <4> QED  BY <3>1, <3>3, <4>2, <4>3 DEF JobTitleOK, StillBound
    <3>4. StillBound(t)'
      BY <1>2, <2>2, <3>3 DEF StillBound, Changing
    <3>5. Unbinding(t)'
      BY <1>2, <2>2, <3>1 DEF JobTitleOK, Unbinding, At
    <3>6. At(t, "titled") \/ At(t, "created") => job[t].topic \in DOMAIN forum
      BY <2>2, <3>1 DEF At, StageOK, Locking
    <3> QED  BY <1>2, <1>3, <2>2, <3>1, <3>2, <3>4, <3>5, <3>6 DEF JobTitleOK, At
  <2> QED  BY <1>4, <2>1, <2>2
<1>6. ASSUME NEW s \in Sessions
      PROVE  BoundOK(s)'
  <2>1. topics[s] # None => topics[s] \in DOMAIN forum
    BY DEF TypeInv, TypeOK
  <2>2. \A t \in Tasks : Retitled(t, s)' <=> Retitled(t, s)
    BY <1>4 DEF Retitled, At
  <2> QED  BY <1>2, <1>3, <2>1, <2>2 DEF TitlesOK, BoundOK, Topic
<1> QED  BY <1>5, <1>6 DEF TitlesOK

\* A task takes on a job, and the other one's topic is still what it was to it.
LEMMA TitlesJob ==
    ASSUME TypeInv, TitlesOK, NEW t \in Tasks, NEW j, job' = [job EXCEPT ![t] = j],
           forum' = forum, cut' = cut,
           job[t] # None => job[t].stage \in {"replace", "listing", "listed"},
           j # None => j.stage \in {"lock", "replace", "delete", "listed"},
           j # None /\ j.stage = "lock" =>
               j.session \in Sessions /\ j.topic \in {topics'[j.session], None},
           \A s \in Sessions :
              (topics'[s] = topics[s] /\ titles'[s] = titles[s]) \/ topics'[s] = None,
           \A u \in Tasks \ {t} : StillBound(u)'
    PROVE  TitlesOK'
<1>1. job'[t] = j /\ \A u \in Tasks \ {t} : job'[u] = job[u]
  BY OtherJobs
<1>2. ASSUME NEW s \in Sessions
      PROVE  BoundOK(s)'
  <2>1. \A u \in Tasks : Retitled(u, s)' <=> Retitled(u, s)
    BY <1>1 DEF Retitled, At
  <2> QED  BY <2>1 DEF TitlesOK, BoundOK, Topic
<1>3. JobTitleOK(t)'
  <2>1. Unbinding(t)' /\ ~At(t, "titled")' /\ ~At(t, "created")'
    BY <1>1 DEF Unbinding, At
  <2>2. j # None /\ j.stage \in Locking /\ j.topic # None =>
           topics'[j.session] = j.topic /\ forum'[j.topic].session = j.session
    BY <1>2 DEF Locking, BoundOK, Topic
  <2> QED  BY <1>1, <2>1, <2>2 DEF JobTitleOK, StillBound, Changing, Locking
<1>4. ASSUME NEW u \in Tasks \ {t}
      PROVE  JobTitleOK(u)'
  <2>1. JobTitleOK(u) /\ job'[u] = job[u]
    BY <1>1 DEF TitlesOK
  <2>2. job[u] # None /\ job[u].stage \in Locking => job[u].session \in Sessions
    BY JobAtLock
  <2>3. Unbinding(u)'
    BY <2>1, <2>2 DEF JobTitleOK, Unbinding, At, Locking
  <2> QED  BY <2>1, <2>2, <2>3 DEF JobTitleOK, At, Locking
<1> QED  BY <1>2, <1>3, <1>4 DEF TitlesOK

\* The events that bind and unbind nothing.
LEMMA TitlesAddedUpdated ==
    ASSUME TypeInv, TitlesOK, OnAdded \/ OnUpdated
    PROVE  TitlesOK'
<1>1. UNCHANGED <<topics, titles, todo, forum, cut>>
  BY DEF OnAdded, OnUpdated, ghosts
<1>2. /\ job["events"] = None /\ "events" \in Tasks
      /\ Head(stream).session \in Sessions /\ Head(stream).name \in Titles
  BY TakesAnEvent DEF OnAdded, OnUpdated, Tasks
<1>3. PICK s \in Sessions, name \in Titles : s = Head(stream).session /\ name = Head(stream).name
  BY <1>2
<1>4. PICK j : /\ j \in {Ensure(s, name), ApplyTitle(s, name)}
               /\ job' = [job EXCEPT !["events"] = j]
  BY <1>3 DEF OnAdded, OnUpdated
<1>5. j # None => /\ j.stage = "lock" /\ j.session = s /\ j.topic \in {topics[s], None}
  BY <1>4, EnsureJob
<1>6. ASSUME NEW u \in Tasks \ {"events"}
      PROVE  StillBound(u)'
  <2>1. job'[u] = job[u] /\ ~Abandoned(u, job[u].session, job[u].topic) /\ StillBound(u)
    BY <1>2, <1>4, OtherJobs DEF Abandoned, At, TitlesOK, JobTitleOK
  <2> QED  BY <1>1, <2>1 DEF StillBound, Changing
<1> QED  BY <1>1, <1>2, <1>4, <1>5, <1>6, TitlesJob

LEMMA TitlesReplace ==
    ASSUME TypeInv, TitlesOK, Replace
    PROVE  TitlesOK'
<1>1. /\ UNCHANGED <<topics, titles, todo, forum, cut>> /\ job["events"] \in Jobs
      /\ job["events"] # None /\ job["events"].stage = "replace" /\ "events" \in Tasks
  BY DEF Replace, At, Tasks, TypeInv, TypeOK, ghosts
<1>2. PICK s \in Sessions : s = job["events"].session
  BY <1>1 DEF Jobs, Locking
<1>3. PICK j : j = Ensure(s, names[s]) /\ job' = [job EXCEPT !["events"] = j]
  BY <1>2 DEF Replace
<1>4. names[s] \in Titles
  BY DEF TypeInv, TypeOK
<1>5. j # None => j.stage = "lock" /\ j.session = s /\ j.topic = None
  BY <1>3, <1>4, EnsureJob
<1>6. ASSUME NEW u \in Tasks \ {"events"}
      PROVE  StillBound(u)'
  <2>1. job'[u] = job[u] /\ ~Abandoned(u, job[u].session, job[u].topic) /\ StillBound(u)
    BY <1>1, <1>3, OtherJobs DEF Abandoned, At, TitlesOK, JobTitleOK
  <2> QED  BY <1>1, <2>1 DEF StillBound, Changing
<1> QED  BY <1>1, <1>3, <1>5, <1>6, TitlesJob

\* A topic is unbound and to be deleted: who would retitle it is too late.
LEMMA TitlesRemoved ==
    ASSUME TypeInv, TitlesOK, OnRemoved
    PROVE  TitlesOK'
<1>1. UNCHANGED <<todo, forum, cut>>
  BY DEF OnRemoved, ghosts
<1>2. job["events"] = None /\ "events" \in Tasks /\ Head(stream).session \in Sessions
  BY TakesAnEvent DEF OnRemoved, Tasks
<1>3. PICK s \in Sessions : s = Head(stream).session
  BY <1>2
<1>4. PICK j : /\ j = IF topics[s] = None THEN None ELSE [stage |-> "delete", topic |-> topics[s]]
               /\ job' = [job EXCEPT !["events"] = j]
  BY <1>3 DEF OnRemoved
<1>5. /\ j # None => j.stage = "delete"
      /\ topics[s] # None => j # None /\ j.stage = "delete" /\ j.topic = topics[s]
  <2>1. topics[s] # None => [stage |-> "delete", topic |-> topics[s]] \in Jobs
    <3>1. topics[s] # None => topics[s] \in 1..MaxTopics
      BY LenProperties, TopicsAssumption DEF TypeInv, TypeOK
    <3> QED  BY <3>1 DEF Jobs
  <2> QED  BY <1>4, <2>1, JobsAreSomething
<1>6. \A x \in Sessions : /\ topics'[x] = IF x = s THEN None ELSE topics[x]
                          /\ x # s => titles'[x] = titles[x]
  BY <1>3 DEF OnRemoved, Unbound
<1>7. ASSUME NEW u \in Tasks \ {"events"}
      PROVE  StillBound(u)'
  <2>1. /\ job'[u] = job[u] /\ u = "reconciler" /\ StillBound(u) /\ job'["events"] = j
        /\ ~Abandoned(u, job[u].session, job[u].topic)
    <3>1. u = "reconciler"
      BY DEF Tasks
    <3>2. job'[u] = job[u] /\ job'["events"] = j
      BY <1>2, <1>4 DEF TypeInv, TypeOK
    <3> QED  BY <1>2, <3>1, <3>2 DEF Abandoned, At, TitlesOK, JobTitleOK
  <2>2. ASSUME Changing(u), job[u].session = s, topics[s] = job[u].topic
        PROVE  Abandoned(u, s, job[u].topic)'
    BY <1>5, <1>6, <2>1, <2>2 DEF Abandoned, At, Changing
  <2>3. Changing(u) => job[u].session \in Sessions
    BY JobAtLock DEF Changing, Locking
  <2> QED  BY <1>1, <1>6, <2>1, <2>2, <2>3 DEF StillBound, Changing
<1> QED  BY <1>1, <1>2, <1>4, <1>5, <1>6, <1>7, TitlesJob

\* A topic that is not there is unbound: who would retitle it is refused.
LEMMA TitlesReply ==
    ASSUME TypeInv, TitlesOK, OnReply
    PROVE  TitlesOK'
<1>1. UNCHANGED <<todo, forum, cut>>
  BY DEF OnReply, ghosts
<1>2. job["events"] = None /\ "events" \in Tasks /\ Head(stream).session \in Sessions
  BY TakesAnEvent DEF OnReply, Tasks
<1>3. PICK s \in Sessions : s = Head(stream).session
  BY <1>2
<1>4. CASE topics[s] # None /\ ~Topic(s).there
  <2>1. PICK j : j = [stage |-> "replace", session |-> s] /\ job' = [job EXCEPT !["events"] = j]
    BY <1>3, <1>4 DEF OnReply
  <2>2. \A x \in Sessions : /\ topics'[x] = IF x = s THEN None ELSE topics[x]
                            /\ x # s => titles'[x] = titles[x]
    BY <1>3, <1>4 DEF OnReply, Unbound
  <2>3. ASSUME NEW u \in Tasks \ {"events"}
        PROVE  StillBound(u)'
    <3>1. /\ job'[u] = job[u] /\ StillBound(u)
          /\ ~Abandoned(u, job[u].session, job[u].topic)
      BY <1>2, <2>1, OtherJobs DEF Abandoned, At, TitlesOK, JobTitleOK
    <3>2. Changing(u) => job[u].session \in Sessions
      BY JobAtLock DEF Changing, Locking
    <3> QED  BY <1>1, <1>4, <2>2, <3>1, <3>2 DEF StillBound, Changing, Topic
  <2>4. j.stage = "replace"
    BY <2>1
  <2> QED  BY <1>1, <1>2, <2>1, <2>2, <2>3, <2>4, TitlesJob
<1>5. CASE ~(topics[s] # None /\ ~Topic(s).there)
  BY <1>1, <1>3, <1>5, TitlesSame DEF OnReply
<1> QED  BY <1>4, <1>5

\* The reconciler's listing, and the sessions of it.
LEMMA TitlesReconciler ==
    ASSUME TypeInv, TitlesOK, List \/ \E s \in Sessions : ReconcileOne(s)
    PROVE  TitlesOK'
<1>1. /\ UNCHANGED <<topics, titles, forum, cut>> /\ "reconciler" \in Tasks
      /\ job \in [Tasks -> Jobs \cup {None}]
  BY DEF List, ReconcileOne, ghosts, Tasks, TypeInv, TypeOK
<1>2. CASE List
  <2>1. job["reconciler"] \in Jobs /\ job["reconciler"].stage = "listing" /\ At("reconciler", "listing")
    BY <1>1, <1>2 DEF List, At
  <2>2. PICK r \in [stage : {"listing", "listed"}] : r = job["reconciler"]
    BY <2>1 DEF Jobs, Locking
  <2>3. PICK j : j = [r EXCEPT !.stage = "listed"] /\ job' = [job EXCEPT !["reconciler"] = j]
    BY <1>2, <2>2 DEF List
  <2>4. j.stage = "listed"
    BY <2>3
  <2>5. ASSUME NEW u \in Tasks \ {"reconciler"}
        PROVE  StillBound(u)'
    <3>1. job'[u] = job[u]
      BY <1>1, <2>3
    <3>2. ~Abandoned(u, job[u].session, job[u].topic) /\ StillBound(u)
      BY <2>1 DEF Abandoned, TitlesOK, JobTitleOK
    <3> QED  BY <1>1, <3>1, <3>2 DEF StillBound, Changing
  <2> QED  BY <1>1, <2>1, <2>3, <2>4, <2>5, TitlesJob
<1>3. ASSUME NEW s \in Sessions, ReconcileOne(s)
      PROVE  TitlesOK'
  <2>1. /\ todo # None /\ job["reconciler"] = None /\ todo[s] # None
        /\ todo \in [Sessions -> Titles] /\ todo' = [todo EXCEPT ![s] = None]
    BY <1>3 DEF ReconcileOne, TypeInv, TypeOK
  <2>2. PICK j : /\ j \in {Ensure(s, todo[s]), ApplyTitle(s, todo[s])}
                 /\ job' = [job EXCEPT !["reconciler"] = j]
    BY <1>3 DEF ReconcileOne
  <2>3. todo[s] \in Titles
    BY <2>1
  <2>4. j # None => /\ j.stage = "lock" /\ j.session = s /\ j.topic \in {topics[s], None}
    BY <2>2, <2>3, EnsureJob
  <2>5. todo' # None
    <3>1. todo' \in [Sessions -> Titles]
      BY <2>1 DEF Titles
    <3> QED  BY <3>1, JobsAreSomething
  <2>6. ASSUME NEW u \in Tasks \ {"reconciler"}
        PROVE  StillBound(u)'
    <3>1. job'[u] = job[u] /\ job'["reconciler"] = j /\ StillBound(u)
      BY <1>1, <2>2 DEF TitlesOK, JobTitleOK
    <3>2. ASSUME Changing(u), Abandoned(u, job[u].session, job[u].topic)
          PROVE  Abandoned(u, job[u].session, job[u].topic)'
      <4>1. PICK x \in Sessions : x = job[u].session
        BY <3>2, JobAtLock DEF Changing, Locking
      <4>2. x # s /\ todo'[x] = None /\ topics'[x] = None
        BY <1>1, <2>1, <3>2, <4>1 DEF Abandoned
      <4>3. ~Making("reconciler", x)' /\ ~Made("reconciler", x)' /\ ~At("reconciler", "listing")'
        BY <2>4, <3>1, <4>2 DEF Making, Made, At
      <4> QED  BY <2>5, <3>1, <3>2, <4>1, <4>2, <4>3 DEF Abandoned
    <3> QED  BY <1>1, <3>1, <3>2 DEF StillBound, Changing
  <2> QED  BY <1>1, <2>1, <2>2, <2>4, <2>6, TitlesJob
<1> QED  BY <1>2, <1>3

\* Bindings are dropped of sessions that the reconciler will not come to.
LEMMA TitlesOrphan ==
    ASSUME TypeInv, TitlesOK, Orphan
    PROVE  TitlesOK'
<1>1. /\ UNCHANGED <<todo, forum, cut>> /\ "reconciler" \in Tasks /\ todo # None
      /\ job["reconciler"].stage = "listed" /\ job \in [Tasks -> Jobs \cup {None}]
  BY DEF Orphan, At, ghosts, Tasks, TypeInv, TypeOK, StageOK
<1>2. PICK j : j = None /\ job' = [job EXCEPT !["reconciler"] = j]
  BY DEF Orphan
<1>3. \A s \in Sessions :
         /\ topics'[s] = IF todo[s] = None THEN None ELSE topics[s]
         /\ todo[s] # None => titles'[s] = titles[s]
  BY DEF Orphan, Unbound, Orphans, Live
<1>4. ASSUME NEW u \in Tasks \ {"reconciler"}
      PROVE  StillBound(u)'
  <2>1. /\ job'[u] = job[u] /\ job'["reconciler"] = None /\ StillBound(u)
    BY <1>1, <1>2 DEF TitlesOK, JobTitleOK
  <2>2. u = "events"
    BY DEF Tasks
  <2>3. ASSUME Changing(u), todo[job[u].session] = None
        PROVE  Abandoned(u, job[u].session, job[u].topic)'
    <3>1. job[u].session \in Sessions
      BY <2>3, JobAtLock DEF Changing, Locking
    <3>2. \A x \in Sessions :
             ~Making("reconciler", x)' /\ ~Made("reconciler", x)' /\ ~At("reconciler", "listing")'
      BY <2>1 DEF Making, Made, At
    <3>3. topics'[job[u].session] = None
      BY <1>3, <2>3, <3>1
    <3> QED  BY <1>1, <2>1, <2>2, <2>3, <3>1, <3>2, <3>3 DEF Abandoned
  <2>4. ASSUME Changing(u), todo[job[u].session] # None
        PROVE  topics'[job[u].session] = topics[job[u].session]
               /\ ~Abandoned(u, job[u].session, job[u].topic)
    <3>1. job[u].session \in Sessions
      BY <2>4, JobAtLock DEF Changing, Locking
    <3> QED  BY <1>3, <2>2, <2>4, <3>1 DEF Abandoned
  <2> QED  BY <1>1, <2>1, <2>3, <2>4 DEF StillBound, Changing
<1> QED  BY <1>1, <1>2, <1>3, <1>4, TitlesJob

\* Another task's job is as it was, while one that is at the lock moves on.
LEMMA OthersAtLock ==
    ASSUME TypeInv, TitlesOK, NEW t \in Tasks, NEW j, job' = [job EXCEPT ![t] = j],
           job[t] # None, job[t].stage \in Locking, todo' = todo,
           j # None => j.stage \in Locking, NEW u \in Tasks \ {t},
           \A s \in Sessions :
              /\ Making(t, s)' \/ Made(t, s)' => Making(t, s) \/ Made(t, s)
              /\ Abandoned(u, s, job[u].topic) => topics'[s] = None
    PROVE  /\ job'[u] = job[u]
           /\ Changing(u) /\ Abandoned(u, job[u].session, job[u].topic) =>
                 Abandoned(u, job[u].session, job[u].topic)'
<1>1. job'[t] = j /\ job'[u] = job[u]
  BY OtherJobs
<1>2. ASSUME Changing(u), Abandoned(u, job[u].session, job[u].topic)
      PROVE  Abandoned(u, job[u].session, job[u].topic)'
  <2>1. PICK s \in Sessions : s = job[u].session
    BY <1>2, JobAtLock DEF Changing, Locking
  <2>2. topics'[s] = None
    BY <1>2, <2>1
  <2>3. CASE u = "events"
    <3>1. t = "reconciler"
      BY <2>3 DEF Tasks
    <3>2. ~Making("reconciler", s)' /\ ~Made("reconciler", s)' /\ ~At("reconciler", "listing")'
      BY <1>1, <1>2, <2>1, <2>3, <3>1 DEF Abandoned, At, Locking
    <3> QED  BY <1>1, <1>2, <2>1, <2>2, <2>3, <3>2 DEF Abandoned
  <2>4. CASE u = "reconciler"
    <3>1. t = "events"
      BY <2>4 DEF Tasks
    <3>2. FALSE
      BY <1>2, <2>4, <3>1 DEF Abandoned, At, Locking
    <3> QED  BY <3>2
  <2> QED  BY <2>3, <2>4 DEF Tasks
<1> QED  BY <1>1, <1>2

\* The lock is taken, or given up at once.
LEMMA TitlesTakeLock ==
    ASSUME TypeInv, TitlesOK, NEW t \in Tasks, TakeLock(t)
    PROVE  TitlesOK'
<1>1. /\ job[t] # None /\ job[t].stage = "lock" /\ job[t].stage \in Locking
      /\ UNCHANGED <<topics, titles, todo, forum, cut>>
  BY DEF TakeLock, At, Locking, ghosts
<1>2. PICK r \in LockJobs : r = job[t]
  BY <1>1, LockingJob DEF TypeInv, TypeOK
<1>3. PICK j : /\ job' = [job EXCEPT ![t] = j]
               /\ j = None \/ (j = [r EXCEPT !.stage = "call"] /\ Needed(r))
  BY <1>2 DEF TakeLock
<1>4. /\ job'[t] = j
      /\ j # None => /\ j.stage = "call" /\ j.session = job[t].session /\ j.topic = job[t].topic
                     /\ Needed(job[t])
  BY <1>2, <1>3, OtherJobs DEF LockJobs
<1>5. \A s \in Sessions : /\ Making(t, s)' \/ Made(t, s)' => Making(t, s) \/ Made(t, s)
                          /\ ~Made(t, s)' /\ ~Made(t, s)
  BY <1>1, <1>4 DEF Making, Made, At
<1>6. ASSUME NEW u \in Tasks \ {t}
      PROVE  JobTitleOK(u)'
  <2>1. JobTitleOK(u) /\ job'[u] = job[u]
    BY <1>3, OtherJobs DEF TitlesOK
  <2>2. j # None => j.stage \in Locking
    BY <1>4 DEF Locking
  <2>3. \A s \in Sessions : Abandoned(u, s, job[u].topic) => topics'[s] = None
    BY <1>1 DEF Abandoned
  <2>4. Changing(u) /\ Abandoned(u, job[u].session, job[u].topic) =>
           Abandoned(u, job[u].session, job[u].topic)'
    BY <1>1, <1>3, <1>5, <2>2, <2>3, OthersAtLock
  <2>5. StillBound(u)'
    BY <1>1, <2>1, <2>4 DEF JobTitleOK, StillBound, Changing
  <2> QED  BY <1>1, <2>1, <2>5 DEF JobTitleOK, Unbinding, At
<1>7. JobTitleOK(t)'
  <2>1. CASE j = None
    BY <1>4, <2>1 DEF JobTitleOK, Unbinding, StillBound, Changing, At
  <2>2. CASE j # None
    <3>1. JobTitleOK(t)
      BY DEF TitlesOK
    <3>2. Unbinding(t)'
      BY <1>1, <1>4, <2>2 DEF Unbinding, Needed, At
    <3>3. Changing(t)' => Changing(t)
      BY <1>1, <1>4, <2>2 DEF Changing
    <3>4. Abandoned(t, job[t].session, job[t].topic) => Abandoned(t, job[t].session, job[t].topic)'
      <4>1. \A u \in Tasks \ {t} : job'[u] = job[u]
        BY <1>3, OtherJobs
      <4>2. CASE t = "events"
        <5>1. job'["reconciler"] = job["reconciler"]
          BY <4>1, <4>2 DEF Tasks
        <5> QED  BY <1>1, <1>4, <2>2, <4>2, <5>1 DEF Abandoned, At, Making, Made
      <4>3. CASE t = "reconciler"
        <5>1. job'["events"] = job["events"]
          BY <4>1, <4>3 DEF Tasks
        <5> QED  BY <1>1, <1>4, <2>2, <4>3, <5>1 DEF Abandoned, At
      <4> QED  BY <4>2, <4>3 DEF Tasks
    <3>5. StillBound(t)'
      BY <1>1, <1>4, <2>2, <3>1, <3>3, <3>4 DEF JobTitleOK, StillBound
    <3> QED  BY <1>1, <1>4, <2>2, <3>1, <3>2, <3>5 DEF JobTitleOK, At, Locking
  <2> QED  BY <2>1, <2>2
<1>8. ASSUME NEW s \in Sessions
      PROVE  BoundOK(s)'
  <2>1. \A u \in Tasks : Retitled(u, s)' <=> Retitled(u, s)
    BY <1>1, <1>3, <1>4, OtherJobs DEF Retitled, At
  <2> QED  BY <1>1, <2>1 DEF TitlesOK, BoundOK, Topic
<1> QED  BY <1>6, <1>7, <1>8 DEF TitlesOK

\* A call is received: a topic is created, retitled, or not there.
LEMMA TitlesCall ==
    ASSUME TypeInv, TitlesOK, NEW t \in Tasks, Call(t)
    PROVE  TitlesOK'
<1>1. /\ job[t] # None /\ job[t].stage = "call" /\ job[t].stage \in Locking
      /\ job[t].stage \in Holding
      /\ UNCHANGED <<topics, titles, todo, cut>>
  BY CallOutcome DEF ghosts, Holding
<1>2. PICK s \in Sessions, title \in Titles, n \in DOMAIN forum \cup {None} :
         s = job[t].session /\ title = job[t].title /\ n = job[t].topic
  BY <1>1, JobAtLock
<1>3. PICK j \in Jobs :
         /\ job' = [job EXCEPT ![t] = j] /\ j.session = s /\ j.title = title /\ j.topic # None
         /\ \/ /\ n = None /\ j.stage = "created" /\ j.topic = Len(forum) + 1
               /\ forum' = Append(forum, [session |-> s, title |-> title, there |-> TRUE])
            \/ /\ n # None /\ j.topic = n /\ j.stage = "titled" /\ forum[n].there
               /\ forum' = [forum EXCEPT ![n].title = title]
            \/ /\ n # None /\ j.topic = n /\ j.stage = "refused"
               /\ forum' = forum
  BY <1>2, CallOutcome
<1>4. /\ job'[t] = j /\ j # None
      /\ \A u \in Tasks \ {t} : job'[u] = job[u]
  BY <1>3, OtherJobs, JobsAreSomething
<1>5. /\ \A m \in DOMAIN forum :
            /\ forum'[m].session = forum[m].session /\ forum'[m].there = forum[m].there
            /\ j.stage # "titled" \/ m # n => forum'[m].title = forum[m].title
      /\ j.stage \in {"created", "titled"} =>
            forum'[j.topic].title = title /\ forum'[j.topic].session = s
      /\ j.topic \notin DOMAIN forum \/ j.stage # "created"
  <2>1. \A m \in DOMAIN forum : forum[m] \in [session : Sessions, title : Titles, there : BOOLEAN]
    BY ForumRecord
  <2>2. CASE j.stage = "created"
    <3>1. PICK q \in [session : Sessions, title : Titles, there : BOOLEAN] :
             q = [session |-> s, title |-> title, there |-> TRUE]
      OBVIOUS
    <3>2. forum \in Seq([session : Sessions, title : Titles, there : BOOLEAN])
          /\ forum' = Append(forum, q)
      BY <1>3, <2>2, <3>1 DEF TypeInv, TypeOK
    <3>3. /\ Len(forum) \in Nat /\ DOMAIN forum = 1..Len(forum) /\ forum'[Len(forum) + 1] = q
          /\ \A m \in 1..Len(forum) : forum'[m] = forum[m]
      BY <3>2, AppendProperties, LenProperties
    <3> QED  BY <1>3, <2>2, <3>1, <3>3
  <2>3. CASE j.stage = "titled"
    <3>1. n \in DOMAIN forum /\ JobTitleOK(t)
      BY <1>2, <1>3, <2>3 DEF TitlesOK
    <3>2. forum[n].session = s
      BY <1>1, <1>2, <1>3, <2>3, <3>1 DEF JobTitleOK
    <3> QED  BY <1>3, <2>1, <2>3, <3>1, <3>2
  <2>4. CASE j.stage = "refused"
    BY <1>3, <2>4
  <2> QED  BY <1>3, <2>2, <2>3, <2>4
<1>6. ASSUME NEW u \in Tasks \ {t}
      PROVE  JobTitleOK(u)'
  <2>1. JobTitleOK(u) /\ StageOK(u)
    BY DEF TitlesOK, TypeInv
  <2>2. j.stage \in Locking
    BY <1>3 DEF Locking
  <2>3. \A x \in Sessions : Making(t, x)' \/ Made(t, x)' => Making(t, x) \/ Made(t, x)
    BY <1>1, <1>2, <1>3, <1>4 DEF Making, Made, At
  <2>4. \A x \in Sessions : Abandoned(u, x, job[u].topic) => topics'[x] = None
    BY <1>1 DEF Abandoned
  <2>5. Changing(u) /\ Abandoned(u, job[u].session, job[u].topic) =>
           Abandoned(u, job[u].session, job[u].topic)'
    BY <1>1, <1>3, <2>2, <2>3, <2>4, OthersAtLock
  <2>6. job[u] # None /\ job[u].stage \in Locking /\ job[u].topic # None => job[u].topic \in DOMAIN forum
    BY <2>1 DEF StageOK
  <2>7. StillBound(u)'
    BY <1>1, <1>4, <1>5, <2>1, <2>5, <2>6 DEF JobTitleOK, StillBound, Changing, Locking
  <2>8. ~At(u, "titled") /\ ~At(u, "created") /\ ~At(u, "call")
    BY <1>1, OneHolder DEF At, Holding
  <2>9. Unbinding(u)' /\ ~At(u, "titled")' /\ ~At(u, "created")'
    BY <1>4, <2>8 DEF Unbinding, At
  <2> QED  BY <1>4, <1>5, <2>1, <2>6, <2>7, <2>9 DEF JobTitleOK
<1>7. JobTitleOK(t)'
  <2>1. JobTitleOK(t)
    BY DEF TitlesOK
  <2>2. CASE j.stage = "created"
    <3>1. topics[s] = None
      BY <1>1, <1>2, <1>3, <2>1, <2>2 DEF JobTitleOK, Unbinding, At
    <3> QED
      BY <1>1, <1>3, <1>4, <1>5, <2>2, <3>1 DEF JobTitleOK, Unbinding, StillBound, Changing, At
  <2>3. CASE j.stage \in {"titled", "refused"}
    <3>1. n # None /\ j.topic = n /\ n \in DOMAIN forum /\ forum[n].session = s
      BY <1>1, <1>2, <1>3, <2>1, <2>3 DEF JobTitleOK
    <3>2. topics[s] = n \/ ~forum[n].there \/ Abandoned(t, s, n)
      BY <1>1, <1>2, <2>1, <3>1 DEF JobTitleOK, StillBound, Changing
    <3>3. Abandoned(t, s, n) => Abandoned(t, s, n)'
      <4>1. CASE t = "events"
        <5>1. job'["reconciler"] = job["reconciler"]
          BY <1>4, <4>1 DEF Tasks
        <5> QED  BY <1>1, <4>1, <5>1 DEF Abandoned, At, Making, Made
      <4>2. CASE t = "reconciler"
        <5>1. job'["events"] = job["events"]
          BY <1>4, <4>2 DEF Tasks
        <5> QED  BY <1>1, <4>2, <5>1 DEF Abandoned, At
      <4> QED  BY <4>1, <4>2 DEF Tasks
    <3>4. StillBound(t)'
      BY <1>1, <1>3, <1>4, <1>5, <3>1, <3>2, <3>3 DEF StillBound
    <3>5. j.stage = "titled" => topics[s] \in {n, None}
      BY <1>3, <3>1, <3>2 DEF Abandoned
    <3>6. Unbinding(t)' /\ ~At(t, "created")'
      BY <1>4, <2>3 DEF Unbinding, At
    <3> QED  BY <1>1, <1>3, <1>4, <1>5, <2>3, <3>1, <3>4, <3>5, <3>6 DEF JobTitleOK, At
  <2> QED  BY <1>3, <2>2, <2>3
<1>8. ASSUME NEW x \in Sessions, topics'[x] # None
      PROVE  BoundOK(x)'
  <2>1. topics[x] \in DOMAIN forum /\ topics'[x] = topics[x] /\ BoundOK(x)
    BY <1>1, <1>8 DEF TypeInv, TypeOK, TitlesOK
  <2>2. \A u \in Tasks : ~Retitled(u, x)
    BY <1>1, OneHolder DEF Retitled, At, Holding
  <2>3. j.stage = "titled" /\ topics[x] = n => Retitled(t, x)'
    <3>1. j.stage = "titled" => forum[n].session = s
      BY <1>1, <1>2, <1>3 DEF TitlesOK, JobTitleOK
    <3> QED  BY <1>3, <1>4, <1>8, <2>1, <3>1 DEF BoundOK, Topic, Retitled, At
  <2> QED  BY <1>1, <1>5, <2>1, <2>2, <2>3 DEF BoundOK, Topic
<1>9. \A x \in Sessions : BoundOK(x)'
  BY <1>8 DEF BoundOK
<1> QED  BY <1>6, <1>7, <1>9 DEF TitlesOK

\* What the call came to is recorded.
LEMMA TitlesRecord ==
    ASSUME TypeInv, TitlesOK, NEW t \in Tasks, Record(t)
    PROVE  TitlesOK'
<1>1. /\ job[t] # None /\ job[t].stage \in {"created", "titled", "refused"}
      /\ job[t].stage \in Locking /\ job[t].stage \in Holding
      /\ UNCHANGED <<todo, forum, cut>>
  BY DEF Record, Locking, Holding, ghosts
<1>2. PICK s \in Sessions, title \in Titles, n \in DOMAIN forum \cup {None} :
         s = job[t].session /\ title = job[t].title /\ n = job[t].topic
  BY <1>1, JobAtLock
<1>3. PICK j : j = None /\ job' = [job EXCEPT ![t] = j]
  BY DEF Record
<1>4. job'[t] = None /\ \A u \in Tasks \ {t} : job'[u] = job[u]
  BY <1>3, OtherJobs
<1>5. /\ \A x \in Sessions \ {s} : topics'[x] = topics[x] /\ titles'[x] = titles[x]
      /\ job[t].stage = "created" => topics'[s] = n /\ titles'[s] = title
      /\ job[t].stage = "titled" => topics'[s] = topics[s] /\ titles'[s] = title
      /\ job[t].stage = "refused" => topics'[s] = topics[s] /\ titles'[s] = titles[s]
  BY <1>1, <1>2 DEF Record, Titled, TypeInv, TypeOK
<1>6. JobTitleOK(t) /\ n \in DOMAIN forum /\ forum[n].session = s
  <2>1. JobTitleOK(t) /\ StageOK(t)
    BY DEF TitlesOK, TypeInv
  <2>2. n # None
    BY <1>1, <1>2, <2>1 DEF StageOK, At, JobTitleOK
  <2> QED  BY <1>1, <1>2, <2>1, <2>2 DEF JobTitleOK
<1>7. /\ job[t].stage = "created" => topics[s] = None
      /\ job[t].stage \in {"created", "titled"} => forum[n].title = title
      /\ job[t].stage = "titled" => topics[s] \in {n, None}
  BY <1>1, <1>2, <1>6 DEF JobTitleOK, Unbinding, At
<1>8. ASSUME NEW u \in Tasks \ {t}
      PROVE  JobTitleOK(u)'
  <2>1. JobTitleOK(u)
    BY DEF TitlesOK
  <2>2. ~At(u, "titled") /\ ~At(u, "created") /\ ~At(u, "call")
    BY <1>1, OneHolder DEF At, Holding
  <2>3. Unbinding(u)' /\ ~At(u, "titled")' /\ ~At(u, "created")'
    BY <1>4, <2>2 DEF Unbinding, At
  <2>4. \A x \in Sessions : ~Making(t, x)' /\ ~Made(t, x)'
    BY <1>4 DEF Making, Made, At
  <2>5. ASSUME NEW x \in Sessions, Abandoned(u, x, job[u].topic)
        PROVE  topics'[x] = None
    <3>1. topics[x] = None
      BY <2>5 DEF Abandoned
    <3>2. CASE x = s /\ job[t].stage = "created"
      <4>1. Made(t, s)
        BY <1>1, <1>2, <3>2 DEF Made, At
      <4>2. FALSE
        BY <1>1, <2>5, <3>2, <4>1 DEF Abandoned, At, Tasks, Locking
      <4> QED  BY <4>2
    <3> QED  BY <1>1, <1>5, <3>1, <3>2
  <2>6. Changing(u) /\ Abandoned(u, job[u].session, job[u].topic) =>
           Abandoned(u, job[u].session, job[u].topic)'
    BY <1>1, <1>3, <2>4, <2>5, OthersAtLock
  <2>7. \A x \in Sessions : topics[x] # None => topics'[x] = topics[x]
    BY <1>1, <1>5, <1>7
  <2>8. StillBound(u)'
    <3>1. Changing(u) => job[u].session \in Sessions /\ job[u].topic # None
      BY JobAtLock DEF Changing, Locking
    <3> QED  BY <1>1, <1>4, <2>1, <2>6, <2>7, <3>1 DEF JobTitleOK, StillBound, Changing
  <2> QED  BY <1>1, <1>4, <2>1, <2>3, <2>8 DEF JobTitleOK
<1>9. JobTitleOK(t)'
  BY <1>4 DEF JobTitleOK, Unbinding, StillBound, Changing, At
<1>10. ASSUME NEW x \in Sessions
       PROVE  BoundOK(x)'
  <2>1. BoundOK(x)
    BY DEF TitlesOK
  <2>2. CASE x # s
    <3>1. \A u \in Tasks : Retitled(u, x)' <=> Retitled(u, x)
      BY <1>2, <1>4, <2>2 DEF Retitled, At
    <3> QED  BY <1>1, <1>5, <2>1, <2>2, <3>1 DEF BoundOK, Topic
  <2>3. CASE x = s /\ job[t].stage \in {"created", "titled"}
    BY <1>1, <1>5, <1>6, <1>7, <2>3 DEF BoundOK, Topic
  <2>4. CASE x = s /\ job[t].stage = "refused"
    <3>1. \A u \in Tasks : ~Retitled(u, x)
      BY <1>1, <2>4, OneHolder DEF Retitled, At, Holding
    <3> QED  BY <1>1, <1>5, <2>1, <2>4, <3>1 DEF BoundOK, Topic
  <2> QED  BY <1>1, <2>2, <2>3, <2>4
<1> QED  BY <1>8, <1>9, <1>10 DEF TitlesOK

LEMMA TitlesNext == TypeInv /\ TitlesOK /\ [Next]_vars => TitlesOK'
<1> SUFFICES ASSUME TypeInv, TitlesOK, [Next]_vars
             PROVE  TitlesOK'
  OBVIOUS
<1>1. CASE \E s \in Sessions : Added(s) \/ Renamed(s) \/ Removed(s) \/ Replied(s)
  <2>1. UNCHANGED <<topics, titles, job, todo, forum, cut>>
    BY <1>1 DEF Added, Renamed, Removed, Replied, Changed, bot
  <2> QED  BY <2>1, TitlesSame
<1>2. CASE Delete \/ \E n \in DOMAIN forum : TopicDeleted(n)
  BY <1>2, TitlesDelete
<1>3. CASE Connect \/ Drop
  BY <1>3, TitlesConnection
<1>4. CASE OnAdded \/ OnUpdated
  BY <1>4, TitlesAddedUpdated
<1>5. CASE OnRemoved
  BY <1>5, TitlesRemoved
<1>6. CASE OnReply
  BY <1>6, TitlesReply
<1>7. CASE Replace
  BY <1>7, TitlesReplace
<1>8. CASE List \/ \E s \in Sessions : ReconcileOne(s)
  BY <1>8, TitlesReconciler
<1>9. CASE Orphan
  BY <1>9, TitlesOrphan
<1>10. ASSUME NEW t \in Tasks, TaskStep(t)
       PROVE  TitlesOK'
  BY <1>10, TitlesTakeLock, TitlesCall, TitlesRecord DEF TaskStep
<1>11. CASE UNCHANGED vars
  BY <1>11, TitlesSame DEF vars, bot, ghosts
<1> QED
  BY <1>1, <1>2, <1>3, <1>4, <1>5, <1>6, <1>7, <1>8, <1>9, <1>10, <1>11 DEF Next, BotStep

\* What the bot remembers of a topic's title is the title the topic has, with any
\* number of sessions, lost connections and topics deleted by hand (3195-3232).
THEOREM Remembered == Spec => []TitleRemembered
<1>1. Init => TypeInv /\ TitlesOK
  BY TypeInit, TitlesInit
<1>2. TypeInv /\ TitlesOK /\ [Next]_vars => (TypeInv /\ TitlesOK)'
  BY TypeNext, TitlesNext
<1>3. TypeInv /\ TitlesOK => TitleRemembered
  <2> SUFFICES ASSUME TitlesOK, NEW s \in Sessions \ cut,
                      topics[s] # None, Topic(s).there, ~Calling(s)
               PROVE  Topic(s).title = titles[s]
    BY DEF TitleRemembered
  <2>1. \A t \in Tasks : ~Retitled(t, s)
    BY DEF Calling, Retitled, At
  <2> QED  BY <2>1 DEF TitlesOK, BoundOK
<1> QED  BY <1>1, <1>2, <1>3, PTL DEF Spec

-----------------------------------------------------------------------------
(***************************************************************************)
(* What a connection settles.  While nothing changes, there are no events, *)
(* and the reconciler alone is at work, on a listing that stays true.  The *)
(* sessions that are off its list are settled, but for the one it is       *)
(* Reconciling.                                                            *)
(***************************************************************************)
Reconciling(s) ==
    /\ job["reconciler"] # None /\ job["reconciler"].stage \in Locking
    /\ job["reconciler"].session = s

\* The reconciler works from a name and a binding that are still those of the session.
ReconcilingOK(s) ==
    Reconciling(s) =>
        /\ names[s] # None /\ job["reconciler"].title = names[s]
        /\ ~At("reconciler", "created") => topics[s] = job["reconciler"].topic
        /\ At("reconciler", "refused") => ~Topic(s).there

Agrees(s) ==
    /\ topics[s] # None
    /\ Topic(s).there /\ s \notin cut => Topic(s).title = names[s]

\* What is left to do about a session is on the list or being done.
LeftToDo(s) ==
    /\ todo[s] \in {None, names[s]}
    /\ names[s] = None => topics[s] = None \/ At("reconciler", "listed")
    /\ names[s] # None /\ todo[s] = None => Agrees(s) \/ Reconciling(s)

Settling ==
    link /\ ~stale =>
        /\ stream = <<>> /\ job["events"] = None
        /\ todo = None <=> At("reconciler", "listing")
        /\ At("reconciler", "listed") => todo = names
        /\ \A s \in Sessions : ReconcilingOK(s) /\ (todo # None => LeftToDo(s))

LEMMA SettlingInit == Init => Settling
BY DEF Init, Settling

\* Where nothing changes only the reconciler has anything to do.
LEMMA OnlyTheReconciler ==
    ASSUME TypeInv, Settling, [Next]_vars, link', ~stale'
    PROVE  \/ Connect
           \/ /\ link /\ ~stale
              /\ \/ List \/ Orphan \/ \E s \in Sessions : ReconcileOne(s)
                 \/ TaskStep("reconciler") \/ UNCHANGED vars
<1>1. ~\E s \in Sessions : Added(s) \/ Renamed(s) \/ Removed(s) \/ Replied(s)
  <2> SUFFICES ASSUME NEW s \in Sessions, NEW type, Changed(s, type)
               PROVE  FALSE
    BY DEF Added, Renamed, Removed, Replied
  <2> QED  BY DEF Changed
<1>2. ~(\E n \in DOMAIN forum : TopicDeleted(n)) /\ ~Drop
  BY DEF TopicDeleted, Drop
<1>3. ASSUME link, ~stale
      PROVE  /\ ~(OnAdded \/ OnUpdated \/ OnRemoved \/ OnReply \/ Delete \/ Replace)
             /\ ~TaskStep("events")
  BY <1>3 DEF Settling, OnAdded, OnUpdated, OnRemoved, OnReply, Takes, Delete, Replace, At,
              TaskStep, TakeLock, Call, Record
<1>4. ASSUME BotStep \/ (\E t \in Tasks : TaskStep(t)) \/ UNCHANGED vars, ~Connect
      PROVE  link /\ ~stale
  <2>1. ASSUME ~link PROVE stream = <<>> /\ todo = None /\ \A t \in Tasks : job[t] = None
    BY <2>1 DEF TypeInv, Offline
  <2>2. "events" \in Tasks /\ "reconciler" \in Tasks
    BY DEF Tasks
  <2>3. CASE OnAdded \/ OnUpdated \/ OnRemoved \/ OnReply
    <3>1. stale' = stale
      BY <2>3 DEF OnAdded, OnUpdated, OnRemoved, OnReply, ghosts
    <3>2. link
      BY <2>3, TakesAnEvent DEF OnAdded, OnUpdated, OnRemoved, OnReply
    <3> QED  BY <3>1, <3>2
  <2>4. CASE Delete \/ Replace \/ List \/ Orphan \/ \E s \in Sessions : ReconcileOne(s)
    <3>1. stale' = stale
      BY <2>4 DEF Delete, Replace, List, Orphan, ReconcileOne, ghosts
    <3>2. job["events"] # None \/ job["reconciler"] # None \/ todo # None
      BY <2>4 DEF Delete, Replace, List, Orphan, ReconcileOne, At
    <3> QED  BY <2>1, <2>2, <3>1, <3>2
  <2>6. ASSUME NEW t \in Tasks, TaskStep(t)
        PROVE  link /\ ~stale
    <3>1. job[t] # None /\ stale' = stale
      BY <2>6 DEF TaskStep, TakeLock, Call, Record, At, ghosts
    <3> QED  BY <2>1, <3>1
  <2>5. CASE UNCHANGED vars
    BY <2>5 DEF vars, ghosts
  <2> QED  BY <1>4, <2>3, <2>4, <2>5, <2>6 DEF BotStep
<1>5. \A t \in Tasks : TaskStep(t) => TaskStep("events") \/ TaskStep("reconciler")
  BY DEF Tasks
<1>6. BotStep \/ (\E t \in Tasks : TaskStep(t)) \/ UNCHANGED vars
  BY <1>1, <1>2 DEF Next
<1>7. CASE ~Connect
  BY <1>3, <1>4, <1>5, <1>6, <1>7 DEF BotStep
<1> QED  BY <1>7

\* The lock is taken, or what is to be done turns out to be done.
LEMMA SettlingTakeLock ==
    ASSUME TypeInv, TitlesOK, Settling, link, ~stale, TakeLock("reconciler")
    PROVE  Settling'
<1> DEFINE j == job["reconciler"]
           s == job["reconciler"].session
<1>1. /\ j # None /\ j.stage = "lock" /\ j.stage \in Locking /\ "reconciler" \in Tasks
      /\ UNCHANGED <<names, stream, link, topics, titles, todo, forum, cut, stale>>
      /\ job \in [Tasks -> Jobs \cup {None}] /\ "events" \in Tasks
  BY DEF TakeLock, At, Locking, Tasks, ghosts, TypeInv, TypeOK
<1>2. s \in Sessions /\ Reconciling(s) /\ ReconcilingOK(s)
  BY <1>1, JobAtLock DEF Reconciling, Settling
<1>3. todo # None /\ \A x \in Sessions : LeftToDo(x)
  BY <1>1 DEF Settling, At
<1>4. job'["events"] = job["events"]
  BY <1>1 DEF TakeLock
<1>5. CASE Needed(j)
  <2>1. PICK r \in LockJobs : r = j
    BY <1>1, LockingJob
  <2>2. PICK k : k = [r EXCEPT !.stage = "call"] /\ job' = [job EXCEPT !["reconciler"] = k]
    BY <1>1, <1>5, <2>1 DEF TakeLock
  <2>3. /\ k \in Jobs /\ k.stage = "call" /\ k.stage \in Locking
        /\ k.session = s /\ k.title = j.title /\ k.topic = j.topic
    BY <2>1, <2>2 DEF LockJobs, Jobs, Locking
  <2>4. job'["reconciler"] = k /\ k # None
    BY <1>1, <2>2, <2>3, JobsAreSomething
  <2>5. \A x \in Sessions : Reconciling(x)' <=> Reconciling(x)
    BY <1>1, <2>3, <2>4 DEF Reconciling
  <2>6. \A x \in Sessions : ReconcilingOK(x)'
    BY <1>1, <1>2, <2>3, <2>4, <2>5 DEF ReconcilingOK, Reconciling, At
  <2>7. \A x \in Sessions : LeftToDo(x)'
    BY <1>1, <1>3, <2>3, <2>4, <2>5 DEF LeftToDo, Agrees, Topic, At
  <2> QED  BY <1>1, <1>3, <1>4, <2>3, <2>4, <2>6, <2>7 DEF Settling, At
<1>6. CASE ~Needed(j)
  <2>1. job'["reconciler"] = None
    BY <1>1, <1>6 DEF TakeLock
  <2>2. names[s] # None /\ j.title = names[s] /\ topics[s] = j.topic
    BY <1>1, <1>2 DEF ReconcilingOK, At
  <2>3. topics[s] # None /\ titles[s] = names[s]
    BY <1>6, <2>2 DEF Needed
  <2>4. \A t \in Tasks : ~Retitled(t, s)
    BY <1>1 DEF Retitled, At, Tasks, Settling
  <2>5. Agrees(s)
    BY <1>2, <2>3, <2>4 DEF Agrees, TitlesOK, BoundOK
  <2>6. \A x \in Sessions : Reconciling(x) => x = s
    BY DEF Reconciling
  <2>7. \A x \in Sessions : LeftToDo(x)'
    BY <1>1, <1>3, <2>1, <2>5, <2>6 DEF LeftToDo, Agrees, Topic, At
  <2> QED  BY <1>1, <1>3, <1>4, <2>1, <2>7 DEF Settling, ReconcilingOK, Reconciling, At
<1> QED  BY <1>5, <1>6

\* A call changes the topic of no other session.
LEMMA SettlingCall ==
    ASSUME TypeInv, TitlesOK, Settling, link, ~stale, Call("reconciler")
    PROVE  Settling'
<1>1. /\ job["reconciler"] # None /\ job["reconciler"].stage = "call"
      /\ job["reconciler"].stage \in Locking /\ "reconciler" \in Tasks /\ "events" \in Tasks
      /\ UNCHANGED <<names, stream, link, topics, titles, todo, cut, stale>>
  BY CallOutcome DEF ghosts, Tasks
<1>2. PICK s \in Sessions, n \in DOMAIN forum \cup {None} :
         /\ s = job["reconciler"].session /\ n = job["reconciler"].topic
         /\ Reconciling(s) /\ ReconcilingOK(s)
  BY <1>1, JobAtLock DEF Reconciling, Settling
<1>3. todo # None /\ \A x \in Sessions : LeftToDo(x)
  BY <1>1 DEF Settling, At
<1>4. /\ names[s] # None /\ job["reconciler"].title = names[s] /\ topics[s] = n
      /\ n # None => forum[n].session = s
  BY <1>1, <1>2, JobsAreSomething DEF ReconcilingOK, At, TitlesOK, JobTitleOK
<1>5. PICK k \in Jobs :
         /\ job' = [job EXCEPT !["reconciler"] = k] /\ k.session = s
         /\ k.title = job["reconciler"].title
         /\ \/ /\ n = None /\ k.stage = "created"
               /\ forum' = Append(forum, [session |-> s, title |-> job["reconciler"].title,
                                          there |-> TRUE])
            \/ /\ n # None /\ k.topic = n /\ k.stage = "titled"
               /\ forum' = [forum EXCEPT ![n].title = job["reconciler"].title]
            \/ /\ n # None /\ k.topic = n /\ k.stage = "refused" /\ forum' = forum
  BY <1>1, <1>2, CallOutcome
<1>6. /\ job'["reconciler"] = k /\ k # None /\ job'["events"] = job["events"]
      /\ k.stage \in Locking
  BY <1>1, <1>5, JobsAreSomething DEF TypeInv, TypeOK, Locking
<1>7. k.stage = "refused" => ~forum[n].there
  <2> SUFFICES ASSUME k.stage = "refused", forum[n].there PROVE FALSE
    OBVIOUS
  <2>1. n # None
    BY <1>5
  <2>2. job' = [job EXCEPT !["reconciler"].stage = "titled"]
    BY <1>2, <2>1 DEF Call
  <2>3. job'["reconciler"].stage = "titled"
    <3>1. PICK r \in LockJobs : r = job["reconciler"]
      BY <1>1, LockingJob DEF TypeInv, TypeOK
    <3>2. [r EXCEPT !.stage = "titled"].stage = "titled"
      BY DEF LockJobs
    <3> QED  BY <1>1, <2>2, <3>1, <3>2 DEF TypeInv, TypeOK
  <2> QED  BY <1>6, <2>3
<1>8. \A m \in DOMAIN forum :
         forum'[m].there = forum[m].there /\ (m # n => forum'[m].title = forum[m].title)
  <2>1. forum \in Seq(ForumTopics) /\ job["reconciler"].title \in Titles
    BY <1>1, JobAtLock DEF TypeInv, TypeOK, ForumTopics
  <2>2. CASE forum' = Append(forum, [session |-> s, title |-> job["reconciler"].title,
                                     there |-> TRUE])
    <3>1. [session |-> s, title |-> job["reconciler"].title, there |-> TRUE] \in ForumTopics
      BY <2>1 DEF ForumTopics
    <3>2. \A m \in 1..Len(forum) : forum'[m] = forum[m]
      BY <2>1, <2>2, <3>1, AppendProperties
    <3> QED  BY <1>2, <1>5, <2>1, <2>2, <3>2, LenProperties
  <2>3. CASE n # None /\ forum' = [forum EXCEPT ![n].title = job["reconciler"].title]
    BY <1>2, <2>1, <2>3, ForumChange
  <2> QED  BY <1>5, <2>2, <2>3
<1>9. \A x \in Sessions : Reconciling(x)' <=> Reconciling(x)
  BY <1>1, <1>2, <1>5, <1>6 DEF Reconciling
<1>10. \A x \in Sessions : ReconcilingOK(x)'
  BY <1>1, <1>2, <1>4, <1>5, <1>6, <1>7, <1>9 DEF ReconcilingOK, Reconciling, At, Topic
<1>11. ASSUME NEW x \in Sessions
       PROVE  LeftToDo(x)'
  <2>1. x # s /\ topics[x] # None => topics[x] \in DOMAIN forum /\ topics[x] # n
    BY <1>4 DEF TypeInv, TypeOK, TitlesOK, BoundOK, Topic
  <2>2. x # s /\ Agrees(x) => Agrees(x)'
    BY <1>1, <1>8, <2>1 DEF Agrees, Topic
  <2>3. Reconciling(s)'
    BY <1>2, <1>9
  <2> QED  BY <1>1, <1>3, <1>9, <2>2, <2>3 DEF LeftToDo, At
<1> QED  BY <1>1, <1>3, <1>5, <1>6, <1>10, <1>11 DEF Settling, At

\* The record of a call, after which its session agrees with its topic.
LEMMA SettlingRecord ==
    ASSUME TypeInv, TitlesOK, Settling, link, ~stale, Record("reconciler")
    PROVE  Settling'
<1> PICK j, s : j = job["reconciler"] /\ s = j.session
  OBVIOUS
<1>1. /\ j # None /\ j.stage \in {"created", "titled", "refused"} /\ j.stage \in Locking
      /\ "reconciler" \in Tasks /\ "events" \in Tasks
      /\ UNCHANGED <<names, stream, link, todo, forum, cut, stale>>
      /\ job'["reconciler"] = None /\ job'["events"] = job["events"]
      /\ topics' = IF j.stage = "created" THEN [topics EXCEPT ![s] = j.topic] ELSE topics
  BY DEF Record, Locking, Tasks, ghosts, TypeInv, TypeOK
<1>2. /\ s \in Sessions /\ Reconciling(s) /\ ReconcilingOK(s)
      /\ j.topic # None /\ topics \in [Sessions -> DOMAIN forum \cup {None}]
  BY <1>1, JobAtLock DEF Reconciling, Settling, TypeInv, TypeOK, StageOK
<1>3. todo # None /\ ~At("reconciler", "listed") /\ \A x \in Sessions : LeftToDo(x)
  BY <1>1 DEF Settling, At
<1>4. names[s] # None /\ j.title = names[s] /\ topics'[s] = j.topic
      /\ \A x \in Sessions \ {s} : topics'[x] = topics[x]
  BY <1>1, <1>2 DEF ReconcilingOK, At
<1>5. Agrees(s)'
  <2>1. CASE j.stage = "refused"
    BY <1>1, <1>2, <1>4, <2>1 DEF ReconcilingOK, At, Agrees, Topic
  <2>2. CASE j.stage # "refused"
    BY <1>1, <1>2, <1>4, <2>2 DEF TitlesOK, JobTitleOK, At, Agrees, Topic
  <2> QED  BY <2>1, <2>2
<1>6. ASSUME NEW x \in Sessions
      PROVE  LeftToDo(x)'
  <2>1. CASE x = s
    BY <1>1, <1>3, <1>4, <1>5, <2>1 DEF LeftToDo
  <2>2. CASE x # s
    BY <1>1, <1>3, <1>4, <2>2 DEF LeftToDo, Agrees, Topic, Reconciling
  <2> QED  BY <2>1, <2>2
<1> QED  BY <1>1, <1>3, <1>6 DEF Settling, ReconcilingOK, Reconciling, At

\* The listing, the orphans and one session of the listing.
LEMMA SettlingReconciler ==
    ASSUME TypeInv, Settling, link, ~stale,
           List \/ Orphan \/ \E s \in Sessions : ReconcileOne(s)
    PROVE  Settling'
<1>1. /\ UNCHANGED <<names, stream, link, forum, cut, stale>>
      /\ "reconciler" \in Tasks /\ "events" \in Tasks /\ job \in [Tasks -> Jobs \cup {None}]
      /\ job'["events"] = job["events"]
  BY DEF List, Orphan, ReconcileOne, ghosts, Tasks, TypeInv, TypeOK
<1>2. names # None /\ names \in [Sessions -> Titles]
  BY JobsAreSomething DEF TypeInv, TypeOK
<1>3. CASE List
  <2>1. job["reconciler"] \in Jobs /\ job["reconciler"].stage = "listing"
    BY <1>1, <1>3 DEF List, At
  <2>2. PICK r \in [stage : {"listing", "listed"}] : r = job["reconciler"]
    BY <2>1 DEF Jobs, Locking
  <2>3. PICK j : j = [r EXCEPT !.stage = "listed"] /\ job' = [job EXCEPT !["reconciler"] = j]
    BY <1>3, <2>2 DEF List
  <2>4. j.stage = "listed" /\ j \in Jobs /\ j # None
    BY <2>3, JobsAreSomething DEF Jobs
  <2>5. job'["reconciler"] = j /\ todo' = names
    BY <1>1, <1>3, <2>3 DEF List
  <2>6. \A s \in Sessions : ~Reconciling(s)'
    BY <2>4, <2>5 DEF Reconciling, Locking
  <2> QED  BY <1>1, <1>2, <2>4, <2>5, <2>6 DEF Settling, ReconcilingOK, LeftToDo, At
<1>4. CASE Orphan
  <2>1. /\ At("reconciler", "listed") /\ todo = names /\ todo' = todo
        /\ job'["reconciler"] = None
    BY <1>1, <1>4 DEF Orphan, Settling
  <2>2. \A s \in Sessions : names[s] = None => topics'[s] = None
    BY <1>4, <2>1 DEF Orphan, Unbound, Orphans, Live
  <2> QED  BY <1>1, <1>2, <2>1, <2>2 DEF Settling, ReconcilingOK, Reconciling, LeftToDo, At
<1>5. ASSUME NEW s \in Sessions, ReconcileOne(s)
      PROVE  Settling'
  <2>1. /\ todo # None /\ job["reconciler"] = None /\ todo[s] # None
        /\ todo \in [Sessions -> Titles] /\ todo' = [todo EXCEPT ![s] = None]
        /\ topics' = topics /\ LeftToDo(s)
    BY <1>5 DEF ReconcileOne, TypeInv, TypeOK, Settling
  <2>2. todo[s] = names[s] /\ names[s] # None /\ names[s] \in Titles
    BY <1>2, <2>1 DEF LeftToDo
  <2>3. PICK j : /\ j = [stage |-> "lock", session |-> s, title |-> names[s],
                         topic |-> topics[s]]
                 /\ job' = [job EXCEPT !["reconciler"] = j]
    BY <1>5, <2>2 DEF ReconcileOne, Ensure, ApplyTitle
  <2>4. j \in Jobs
    <3>1. topics[s] \in 1..MaxTopics \cup {None}
      BY TopicsAssumption, LenProperties DEF TypeInv, TypeOK
    <3> QED  BY <2>2, <2>3, <3>1 DEF Jobs, Locking
  <2>5. job'["reconciler"] = j /\ j # None /\ j.stage = "lock" /\ j.stage \in Locking
        /\ j.session = s /\ j.title = names[s] /\ j.topic = topics[s]
    BY <1>1, <2>3, <2>4, JobsAreSomething DEF Locking
  <2>6. \A x \in Sessions : Reconciling(x)' <=> x = s
    BY <2>5 DEF Reconciling
  <2>7. \A x \in Sessions : ReconcilingOK(x)'
    BY <1>1, <2>1, <2>2, <2>5, <2>6 DEF ReconcilingOK, At
  <2>8. ASSUME NEW x \in Sessions
        PROVE  LeftToDo(x)'
    <3>1. LeftToDo(x) /\ ~Reconciling(x) /\ ~At("reconciler", "listed")
      BY <2>1 DEF Settling, Reconciling, At
    <3>2. Agrees(x) => Agrees(x)'
      BY <1>1, <2>1 DEF Agrees, Topic
    <3>3. todo'[x] = IF x = s THEN None ELSE todo[x]
      BY <2>1
    <3> QED  BY <1>1, <2>1, <2>6, <3>1, <3>2, <3>3 DEF LeftToDo
  <2>9. todo' # None
    <3>1. todo' \in [Sessions -> Titles]
      BY <2>1 DEF Titles
    <3> QED  BY <3>1, JobsAreSomething
  <2> QED  BY <1>1, <2>5, <2>7, <2>8, <2>9 DEF Settling, At
<1> QED  BY <1>3, <1>4, <1>5

LEMMA SettlingNext == TypeInv /\ TitlesOK /\ Settling /\ [Next]_vars => Settling'
<1> SUFFICES ASSUME TypeInv, TitlesOK, Settling, [Next]_vars, link', ~stale'
             PROVE  Settling'
  BY DEF Settling
<1>1. CASE Connect
  <2>1. stream = <<>> /\ todo = None /\ \A t \in Tasks : job[t] = None
    BY <1>1 DEF Connect, TypeInv, Offline
  <2>2. /\ job'["reconciler"] = [stage |-> "listing"] /\ job'["events"] = None
        /\ UNCHANGED <<stream, todo>>
    BY <1>1, <2>1 DEF Connect, TypeInv, TypeOK, Tasks
  <2>3. [stage |-> "listing"] # None
    <3>1. [stage |-> "listing"] \in Jobs
      BY DEF Jobs
    <3> QED  BY <3>1, JobsAreSomething
  <2> QED  BY <2>1, <2>2, <2>3 DEF Settling, ReconcilingOK, Reconciling, Locking, At
<1>2. CASE link /\ ~stale /\ TaskStep("reconciler")
  BY <1>2, SettlingTakeLock, SettlingCall, SettlingRecord DEF TaskStep
<1>3. CASE link /\ ~stale /\ (List \/ Orphan \/ \E s \in Sessions : ReconcileOne(s))
  BY <1>3, SettlingReconciler
<1>4. CASE UNCHANGED vars
  BY <1>4 DEF vars, bot, ghosts, Settling, ReconcilingOK, Reconciling, LeftToDo, Agrees, Topic, At
<1> QED  BY <1>1, <1>2, <1>3, <1>4, OnlyTheReconciler

\* A connection during which nothing changes leaves every session with a topic and its
\* title, and no session that is gone with one, whatever became of the connections
\* before it (_reconcile_topics, 1744-1785).
THEOREM ConnectionSettles == Spec => []Settled
<1>1. Init => TypeInv /\ TitlesOK /\ Settling
  BY TypeInit, TitlesInit, SettlingInit
<1>2. TypeInv /\ TitlesOK /\ Settling /\ [Next]_vars => (TypeInv /\ TitlesOK /\ Settling)'
  BY TypeNext, TitlesNext, SettlingNext
<1>3. TypeInv /\ Settling => Settled
  <2> SUFFICES ASSUME TypeInv, Settling, Quiet, ~stale, NEW s \in Sessions
               PROVE  /\ (names[s] = None) = (topics[s] = None)
                      /\ topics[s] # None /\ Topic(s).there /\ s \notin cut
                         => Topic(s).title = names[s]
    BY DEF Settled
  <2>1. LeftToDo(s) /\ todo[s] = None
    BY DEF Quiet, Settling, Live
  <2>2. ~Reconciling(s) /\ ~At("reconciler", "listed")
    BY DEF Quiet, Idle, Reconciling, At, Tasks
  <2> QED  BY <2>1, <2>2 DEF LeftToDo, Agrees
<1> QED  BY <1>1, <1>2, <1>3, PTL DEF Spec

=============================================================================
