-------------------------- MODULE SessionPoolProofs --------------------------
(***************************************************************************)
(* Theorems about what the tasks of SessionCoordinator do to the sessions: *)
(* that evictions spare turns, that what waits is not live, and that       *)
(* SessionCoordinator implements SessionPool.                              *)
(*                                                                         *)
(* A task changes a session only while it holds the session's lock, or     *)
(* before anybody else has heard of it (Owns); a turn alone ends without a *)
(* lock.  So what is said of one session (Session, Turn) or of one task    *)
(* (Using) is kept by the steps for others, and only one step at a time    *)
(* has to be looked at.                                                    *)
(***************************************************************************)
EXTENDS SessionCoordinatorProofs

\* A task that starts an agent, or a turn behind the locks of a send, holds the
\* slot lock, and its session is live.
Using(t) ==
    /\ pc[t] \in {"launching", "ready", "begin", "overlap"} =>
          Holds(t, slotLock) /\ req[t].session \in live
    /\ pc[t] = "launching" => state[req[t].session] = "starting"
    /\ pc[t] = "evicting" /\ victim[t] \in live => state[victim[t]] = "idle"

\* A live session does not wait, is working exactly while its engine has a turn,
\* and is starting only while some task launches it.
Session(s) ==
    s \in live =>
        /\ s \notin ToSet(waiting)
        /\ state[s] # "stored"
        /\ engineTurn[s] # "none" <=> state[s] = "working"
        /\ state[s] = "starting" =>
              \E t \in Tasks : pc[t] = "launching" /\ req[t].session = s

\* A turn has an agent, or one that is being closed.
Turn(s) ==
    /\ s \in turnHandle => engineTurn[s] # "none"
    /\ s \notin live =>
          \/ engineTurn[s] = "none"
          \/ \E t \in Tasks : pc[t] = "closing" /\ Subject(t) = s

PoolInv ==
    /\ \A t \in Tasks : Using(t)
    /\ \A s \in Sessions : Session(s) /\ Turn(s)

-----------------------------------------------------------------------------
\* What is taken off the waiting list is on it no longer.
LEMMA WithoutGone ==
    ASSUME NEW S, NEW q \in Seq(S), IsInjective(q), NEW s
    PROVE  s \notin ToSet(Without(q, s)) /\ ToSet(Without(q, s)) \subseteq ToSet(q)
<1>1. CASE s \notin ToSet(q)
  BY <1>1 DEF Without
<1>2. CASE s \in ToSet(q)
  <2> DEFINE i == CHOOSE k \in DOMAIN q : q[k] = s
             r == RemoveAt(q, i)
  <2>1. i \in 1 .. Len(q) /\ q[i] = s /\ Len(q) \in Nat /\ DOMAIN q = 1 .. Len(q)
    BY <1>2, LenProperties DEF ToSet
  <2>2. Without(q, s) = r
    BY <1>2 DEF Without
  <2> HIDE DEF i
  <2>3. r \in Seq(S) /\ Len(r) = Len(q) - 1
        /\ \A j \in 1 .. Len(q) - 1 : r[j] = IF j < i THEN q[j] ELSE q[j + 1]
    BY <2>1, RemoveAtProperties
  <2> HIDE DEF r
  <2>4. DOMAIN r = 1 .. Len(q) - 1
    BY <2>3, LenProperties
  <2>5. ASSUME NEW x \in ToSet(r)
        PROVE  x \in ToSet(q) /\ x # s
    <3>1. PICK j \in 1 .. Len(q) - 1 : r[j] = x
      BY <2>4, <2>5 DEF ToSet
    <3>2. PICK k \in 1 .. Len(q) : k # i /\ q[k] = x
      <4>1. CASE j < i
        BY <2>1, <2>3, <3>1, <4>1
      <4>2. CASE ~ (j < i)
        <5>1. j + 1 \in 1 .. Len(q) /\ j + 1 # i /\ q[j + 1] = x
          BY <2>1, <2>3, <3>1, <4>2
        <5> QED BY <5>1
      <4> QED BY <4>1, <4>2
    <3> QED BY <2>1, <3>2 DEF IsInjective, ToSet
  <2> QED BY <2>2, <2>5
<1> QED BY <1>1, <1>2

-----------------------------------------------------------------------------
(***************************************************************************)
(* What a step has to show.                                                *)
(***************************************************************************)

\* A task may change a session under its lock, or if nobody else works on it.
Owns(t, z) == Holds(t, lock[z]) \/ \A u \in Tasks \ {t} : z \notin Named(u)

\* What a step of t, which may change the sessions in Z, does to the others.
OnlyTouches(t, Z) ==
    /\ \A s \in Sessions \ Z :
          /\ (s \in live') = (s \in live) /\ state'[s] = state[s]
          /\ engineTurn'[s] = engineTurn[s] /\ (s \in turnHandle') = (s \in turnHandle)
          /\ s \in ToSet(waiting') => s \in ToSet(waiting)
    /\ \A z \in Z :
          /\ Owns(t, z)
          /\ z \in live' => (z \in live /\ state'[z] = state[z]) \/ Holds(t, slotLock)
    /\ pc[t] = "launching" => req[t].session \in Z
    /\ pc[t] = "closing" => engineTurn[Subject(t)] = "none"

LEMMA NotOthers ==
    ASSUME LockInv, NEW t \in Tasks, NEW z, Owns(t, z), NEW u \in Tasks, u # t,
           InTransition(u)
    PROVE  Subject(u) # z
<1>1. Holds(u, lock[Subject(u)]) /\ Subject(u) \in Named(u)
  BY DEF LockInv, Locked, Subject, Named
<1> QED BY <1>1 DEF Owns, Holds

LEMMA StepKeepsPool ==
    ASSUME LockInv, PoolInv, NEW t \in Tasks, MovesOnly(t), TakesNoSlotFrom(t),
           NEW Z \in SUBSET Sessions, OnlyTouches(t, Z), Using(t)',
           \A z \in Z : Session(z)' /\ Turn(z)'
    PROVE  PoolInv'
<1>1. ASSUME NEW u \in Tasks, u # t, pc'[u] = pc[u]
      PROVE  /\ victim'[u] = victim[u] /\ req'[u] = req[u] /\ Subject(u)' = Subject(u)
  BY <1>1 DEF MovesOnly, Subject
<1>2. ASSUME NEW u \in Tasks, u # t
      PROVE  Using(u)'
  <2>1. CASE pc'[u] # pc[u]
    <3>1. pc'[u] \in {"scheduled", "woken"}
      BY <1>2, <2>1 DEF MovesOnly
    <3> QED BY <3>1 DEF Using
  <2>2. CASE pc'[u] = pc[u]
    <3>1. /\ victim'[u] = victim[u] /\ req'[u] = req[u] /\ Using(u)
          /\ Holds(u, slotLock) => Holds(u, slotLock') /\ ~ Holds(t, slotLock)
      BY <1>1, <1>2, <2>2 DEF PoolInv, TakesNoSlotFrom, Holds
    <3>2. ASSUME pc[u] \in {"launching", "ready", "begin", "overlap"}
          PROVE  /\ Holds(u, slotLock') /\ req[u].session \in live'
                 /\ pc[u] = "launching" => state'[req[u].session] = "starting"
      <4>1. Subject(u) = req[u].session /\ req[u].session \in Sessions
        BY <3>2, VictimOf, RequestOf DEF Subject, LockInv
      <4>2. req[u].session \notin Z
        BY <1>2, <3>2, <4>1, NotOthers DEF OnlyTouches, InTransition
      <4> QED BY <3>1, <3>2, <4>1, <4>2 DEF Using, OnlyTouches
    <3>3. ASSUME pc[u] = "evicting", victim[u] \in live'
          PROVE  state'[victim[u]] = "idle"
      <4>1. victim[u] \in Sessions /\ Holds(u, slotLock)
        BY <3>3, VictimOf DEF LockInv, CapInv, RoomOf, MakesRoom
      <4>2. CASE victim[u] \in Z
        BY <3>1, <3>3, <4>1, <4>2 DEF Using, OnlyTouches
      <4>3. CASE victim[u] \notin Z
        BY <3>1, <3>3, <4>1, <4>3 DEF Using, OnlyTouches
      <4> QED BY <4>2, <4>3
    <3> QED BY <2>2, <3>1, <3>2, <3>3 DEF Using
  <2> QED BY <2>1, <2>2
<1>3. ASSUME NEW s \in Sessions, s \notin Z
      PROVE  Session(s)' /\ Turn(s)'
  <2>1. /\ Session(s) /\ Turn(s)
        /\ (s \in live') = (s \in live) /\ state'[s] = state[s]
        /\ engineTurn'[s] = engineTurn[s] /\ (s \in turnHandle') = (s \in turnHandle)
        /\ s \in ToSet(waiting') => s \in ToSet(waiting)
    BY <1>3 DEF PoolInv, OnlyTouches
  <2>2. ASSUME NEW u \in Tasks, pc[u] = "launching", req[u].session = s
        PROVE  pc'[u] = "launching" /\ req'[u].session = s
    <3>1. u # t
      BY <1>3, <2>2 DEF OnlyTouches
    <3> QED BY <2>2, <3>1 DEF MovesOnly
  <2>3. ASSUME NEW u \in Tasks, pc[u] = "closing", Subject(u) = s, engineTurn[s] # "none"
        PROVE  pc'[u] = "closing" /\ Subject(u)' = s
    <3>1. u # t
      BY <2>3 DEF OnlyTouches
    <3>2. pc'[u] = pc[u]
      BY <2>3, <3>1 DEF MovesOnly
    <3> QED BY <1>1, <2>3, <3>1, <3>2
  <2> QED BY <2>1, <2>2, <2>3 DEF Session, Turn
<1> QED BY <1>2, <1>3 DEF PoolInv

\* A step that changes no session, but may take some off the waiting list.
LEMMA QuietStepKeepsPool ==
    ASSUME LockInv, PoolInv, NEW t \in Tasks, MovesOnly(t), TakesNoSlotFrom(t),
           UNCHANGED <<live, state, turnVars>>, ToSet(waiting') \subseteq ToSet(waiting),
           pc[t] # "launching", pc[t] = "closing" => engineTurn[Subject(t)] = "none",
           Using(t)'
    PROVE  PoolInv'
<1>1. OnlyTouches(t, {})
  BY DEF OnlyTouches, turnVars
<1> QED BY <1>1, StepKeepsPool

LEMMA NotUsing ==
    ASSUME NEW t \in Tasks,
           pc'[t] \notin {"launching", "ready", "begin", "overlap", "evicting"}
    PROVE  Using(t)'
  BY DEF Using

-----------------------------------------------------------------------------
(***************************************************************************)
(* The actions.                                                            *)
(***************************************************************************)
LEMMA TakesNothing ==
    ASSUME TypeInv, NEW t \in Tasks,
           slotLock' \in {slotLock, Released(t, slotLock), Append(slotLock, t)}
    PROVE  TakesNoSlotFrom(t)
  BY HoldsReleased, HoldsAppend DEF TakesNoSlotFrom, TypeInv, TypeOK, LockOK

\* No turn runs on a session that has no agent, for the task that may start one.
LEMMA NoTurnWithoutAgent ==
    ASSUME LockInv, PoolInv, NEW t \in Tasks, NEW s \in Sessions, s \notin live, Owns(t, s),
           pc[t] = "closing" => engineTurn[Subject(t)] = "none"
    PROVE  engineTurn[s] = "none"
<1>1. ASSUME engineTurn[s] # "none"
      PROVE  FALSE
  <2>1. PICK u \in Tasks : pc[u] = "closing" /\ Subject(u) = s
    BY <1>1 DEF PoolInv, Turn
  <2>2. u # t
    BY <1>1, <2>1
  <2> QED BY <2>1, <2>2, NotOthers DEF InTransition
<1> QED BY <1>1

LEMMA ActivateKeepsPool ==
    ASSUME LockInv, PoolInv, NEW t \in Tasks, NEW held,
           Activate(t, held) \/ Refuse(t, held), Holds(t, slotLock),
           UNCHANGED <<slotLock, req, turnVars>>, pc[t] \in {"slot", "lock", "closing"},
           victim' = [victim EXCEPT ![t] = None],
           Owns(t, req[t].session), req[t].session \notin live,
           pc[t] = "closing" => engineTurn[Subject(t)] = "none"
    PROVE  PoolInv'
<1> USE DEF LockInv
<1> DEFINE s == req[t].session
<1>1. s \in Sessions
  BY RequestOf
<1>2. PICK c \in {"launching", "raise"} : pc' = [pc EXCEPT ![t] = c]
  BY DEF Activate, Refuse
<1>3. MovesOnly(t) /\ pc'[t] = c /\ TakesNoSlotFrom(t)
  <2>1. /\ pc'[t] = c /\ c # "scheduled"
        /\ \A u \in Tasks \ {t} : victim'[u] = victim[u]
    BY <1>2 DEF TypeInv, TypeOK, TaskOK
  <2>2. MovesOnly(t)
    BY <1>2, <2>1, OwnStep DEF Counters
  <2> QED BY <2>1, <2>2, TakesNothing
<1>4. CASE Refuse(t, held)
  <2>1. pc' = [pc EXCEPT ![t] = "raise"]
    BY <1>4 DEF Refuse
  <2>2. pc'[t] = "raise"
    BY <2>1 DEF TypeInv, TypeOK, TaskOK
  <2> QED BY <1>3, <1>4, <2>2, QuietStepKeepsPool, NotUsing DEF Refuse, poolVars, queueVars
<1>5. CASE Activate(t, held)
  <2>1. /\ live' = live \cup {s} /\ state' = [state EXCEPT ![s] = "starting"]
        /\ waiting' = Without(waiting, s) /\ pc' = [pc EXCEPT ![t] = "launching"]
    BY <1>5 DEF Activate
  <2>2. pc'[t] = "launching"
    BY <2>1 DEF TypeInv, TypeOK, TaskOK
  <2>3. s \notin ToSet(waiting') /\ ToSet(waiting') \subseteq ToSet(waiting)
    BY <2>1, WithoutGone DEF TypeInv, TypeOK, QueueOK
  <2>4. engineTurn[s] = "none"
    BY <1>1, NoTurnWithoutAgent
  <2>5. OnlyTouches(t, {s})
    BY <1>1, <2>1, <2>3 DEF OnlyTouches, turnVars, TypeInv, TypeOK, PoolOK
  <2>6. Using(t)'
    BY <1>1, <2>1, <2>2 DEF Using, TypeInv, TypeOK, PoolOK
  <2>7. Session(s)' /\ Turn(s)'
    <3>1. state'[s] = "starting" /\ engineTurn'[s] = "none" /\ turnHandle' = turnHandle
      BY <1>1, <2>1, <2>4 DEF turnVars, TypeInv, TypeOK, PoolOK
    <3>2. s \notin turnHandle
      BY <1>1, <2>4 DEF PoolInv, Turn
    <3> QED BY <2>1, <2>2, <2>3, <3>1, <3>2 DEF Session, Turn
  <2> QED BY <1>1, <1>3, <2>5, <2>6, <2>7, StepKeepsPool
<1> QED BY <1>4, <1>5

LEMMA EnsureSlotKeepsPool ==
    ASSUME LockInv, PoolInv, NEW t \in Tasks, EnsureSlot(t), Holds(t, slotLock),
           UNCHANGED <<slotLock, req>>, pc[t] \in {"slot", "lock"},
           Owns(t, req[t].session), req[t].session \notin live
    PROVE  PoolInv'
<1> USE DEF LockInv
<1> DEFINE s == req[t].session
<1>1. s \in Sessions /\ victim[t] = None /\ TakesNoSlotFrom(t) /\ UNCHANGED turnVars
  BY RequestOf, VictimOf, TakesNothing DEF EnsureSlot
<1>2. CASE (Activate(t, lock) \/ Refuse(t, lock)) /\ UNCHANGED victim
  <2>1. victim' = [victim EXCEPT ![t] = None]
    BY <1>1, <1>2 DEF TypeInv, TypeOK, TaskOK
  <2> QED BY <1>1, <1>2, <2>1, ActivateKeepsPool
<1>3. CASE \E v \in Candidates : Evict(t, v)
  <2>1. PICK v \in Candidates : Evict(t, v)
    BY <1>3
  <2>2. /\ victim' = [victim EXCEPT ![t] = v] /\ pc' = [pc EXCEPT ![t] = "evicting"]
        /\ UNCHANGED <<live, state, waiting>> /\ state[v] = "idle"
    BY <2>1 DEF Evict, Candidates, poolVars, queueVars
  <2>3. MovesOnly(t) /\ pc'[t] = "evicting" /\ victim'[t] = v
    <3>1. \A u \in Tasks \ {t} : victim'[u] = victim[u]
      BY <2>2 DEF TypeInv, TypeOK, TaskOK
    <3>2. pc'[t] = "evicting" /\ victim'[t] = v
      BY <2>2 DEF TypeInv, TypeOK, TaskOK
    <3> QED BY <2>2, <3>1, <3>2, OwnStep DEF Counters
  <2>4. Using(t)'
    BY <2>2, <2>3 DEF Using
  <2> QED BY <1>1, <2>2, <2>3, <2>4, QuietStepKeepsPool
<1>4. CASE Enqueue(t) /\ UNCHANGED victim
  <2>1. /\ waiting' = Enqueued(waiting, s) /\ UNCHANGED <<live, state>>
        /\ pc' = [pc EXCEPT ![t] = "ret"]
    BY <1>4 DEF Enqueue
  <2>2. MovesOnly(t) /\ pc'[t] = "ret"
    BY <1>4, <2>1, OwnStep DEF Counters, TypeInv, TypeOK, TaskOK
  <2>3. \A z \in Sessions \ {s} : z \in ToSet(waiting') => z \in ToSet(waiting)
    <3>1. s \notin ToSet(waiting) => ToSet(Append(waiting, s)) = ToSet(waiting) \cup {s}
      BY <1>1, EntersQueue DEF TypeInv, TypeOK, QueueOK
    <3> QED BY <2>1, <3>1 DEF Enqueued
  <2>4. OnlyTouches(t, {s})
    BY <1>1, <2>1, <2>3 DEF OnlyTouches, turnVars
  <2>5. Session(s)'
    BY <2>1 DEF Session
  <2>6. Turn(s)'
    <3>1. engineTurn[s] = "none" /\ s \notin turnHandle
      BY <1>1, NoTurnWithoutAgent DEF PoolInv, Turn
    <3> QED BY <1>1, <3>1 DEF Turn, turnVars
  <2> QED BY <1>1, <2>2, <2>4, <2>5, <2>6, NotUsing, StepKeepsPool
<1> QED BY <1>2, <1>3, <1>4 DEF EnsureSlot

LEMMA TearDownKeepsPool ==
    ASSUME LockInv, PoolInv, NEW t \in Tasks, NEW z, z = Subject(t), z \in Sessions,
           TearDown(t, z), Holds(t, lock[z]),
           UNCHANGED <<req, victim, slotLock, turnVars>>,
           pc[t] \in {"evicting", "settling", "lock"}
    PROVE  PoolInv'
<1> USE DEF LockInv
<1>1. /\ live' = live \ {z} /\ state' = [state EXCEPT ![z] = "stored"]
      /\ waiting' = Without(waiting, z) /\ pc' = [pc EXCEPT ![t] = "closing"]
  BY DEF TearDown
<1>2. MovesOnly(t) /\ pc'[t] = "closing" /\ TakesNoSlotFrom(t)
  BY <1>1, OwnStep, TakesNothing DEF Counters, TypeInv, TypeOK, TaskOK
<1>3. ToSet(waiting') \subseteq ToSet(waiting)
  BY <1>1, WithoutGone DEF TypeInv, TypeOK, QueueOK
<1>4. OnlyTouches(t, {z})
  BY <1>1, <1>3 DEF OnlyTouches, Owns, turnVars, TypeInv, TypeOK, PoolOK
<1>5. Session(z)' /\ Turn(z)'
  <2>1. Subject(t)' = z
    BY DEF Subject
  <2>2. z \in turnHandle => engineTurn[z] # "none"
    BY DEF PoolInv, Turn
  <2> QED BY <1>1, <1>2, <2>1, <2>2 DEF Session, Turn, turnVars
<1> QED BY <1>2, <1>4, <1>5, NotUsing, StepKeepsPool

LEMMA SettleKeepsPool ==
    ASSUME LockInv, PoolInv, NEW t \in Tasks, NEW z, z = Subject(t), z \in Sessions,
           Settle(t, z), Holds(t, lock[z]), UNCHANGED <<req, victim, slotLock>>,
           pc[t] \in {"evicting", "lock"}
    PROVE  PoolInv'
<1> USE DEF LockInv
<1>1. CASE z \notin turnHandle
  BY <1>1, TearDownKeepsPool DEF Settle
<1>2. CASE z \in turnHandle
  <2>1. /\ turnHandle' = turnHandle \ {z}
        /\ engineTurn' = [engineTurn EXCEPT ![z] = "cancelled"]
        /\ pc' = [pc EXCEPT ![t] = "settling"] /\ UNCHANGED <<live, state, waiting>>
    BY <1>2 DEF Settle, poolVars, queueVars
  <2>2. MovesOnly(t) /\ pc'[t] = "settling" /\ TakesNoSlotFrom(t)
    BY <2>1, OwnStep, TakesNothing DEF Counters, TypeInv, TypeOK, TaskOK
  <2>3. OnlyTouches(t, {z})
    BY <2>1 DEF OnlyTouches, Owns, TypeInv, TypeOK, TurnOK
  <2>4. engineTurn[z] # "none" /\ engineTurn'[z] = "cancelled"
    BY <1>2, <2>1 DEF PoolInv, Turn, TypeInv, TypeOK, TurnOK
  <2>5. Session(z)'
    <3>1. z \in live => state[z] = "working"
      BY <2>4 DEF PoolInv, Session
    <3>2. z \in live => z \notin ToSet(waiting)
      BY DEF PoolInv, Session
    <3> QED BY <2>1, <2>4, <3>1, <3>2 DEF Session
  <2>6. Turn(z)'
    <3>1. ASSUME z \notin live
          PROVE  \E u \in Tasks : pc'[u] = "closing" /\ Subject(u)' = z
      <4>1. PICK u \in Tasks : pc[u] = "closing" /\ Subject(u) = z
        BY <2>4, <3>1 DEF PoolInv, Turn
      <4> QED BY <2>2, <4>1 DEF MovesOnly, Subject
    <3> QED BY <2>1, <3>1 DEF Turn
  <2> QED BY <2>2, <2>3, <2>5, <2>6, NotUsing, StepKeepsPool
<1> QED BY <1>1, <1>2

LEMMA RequestKeepsPool ==
    ASSUME LockInv, PoolInv, NEW t \in Clients, Request(t)
    PROVE  PoolInv'
<1> USE DEF LockInv
<1>1. t \in Tasks
  BY DEF Tasks
<1>2. PICK s \in Sessions :
        \/ RequestAdd(t, s)
        \/ \E op \in Ops, x \in Texts \cup {None} : RequestSlot(t, op, s, x)
        \/ \E op \in Ops : RequestLock(t, op, s)
  BY DEF Request
<1>3. /\ pc[t] = "idle" /\ UNCHANGED <<live, state, waiting, turnVars, victim>>
      /\ slotLock' \in {slotLock, Append(slotLock, t)}
      /\ pc' = [pc EXCEPT ![t] = "slot"] \/ pc' = [pc EXCEPT ![t] = "lock"]
  BY <1>2 DEF RequestAdd, RequestSlot, RequestLock, Accept, queueVars
<1>4. \E op, x : req' = [req EXCEPT ![t] = [op |-> op, session |-> s, text |-> x]]
  BY <1>2 DEF RequestAdd, RequestSlot, RequestLock, Accept
<1>5. MovesOnly(t) /\ pc'[t] \in {"slot", "lock"}
  BY <1>1, <1>3, <1>4 DEF MovesOnly, TypeInv, TypeOK, TaskOK
<1> QED BY <1>1, <1>3, <1>5, TakesNothing, NotUsing, QuietStepKeepsPool

LEMMA SlotGrantedKeepsPool ==
    ASSUME LockInv, PoolInv, NEW t \in Tasks, SlotGranted(t)
    PROVE  PoolInv'
<1> USE DEF LockInv
<1>1. pc[t] = "slot" /\ Holds(t, slotLock) /\ UNCHANGED <<slotLock, req>>
  BY DEF SlotGranted
<1>2. CASE req[t].op = "add" /\ EnsureSlot(t)
  <2>1. Adding(t)
    BY <1>1, <1>2 DEF Adding
  <2>2. Owns(t, req[t].session) /\ req[t].session \notin live
    BY <2>1 DEF Fresh, Owns, Born
  <2> QED BY <1>1, <1>2, <2>2, EnsureSlotKeepsPool
<1>3. CASE /\ pc' = [pc EXCEPT ![t] = "lock"] \/ pc' = [pc EXCEPT ![t] = "raise"]
           /\ UNCHANGED <<poolVars, queueVars, turnVars, victim>>
  <2>1. MovesOnly(t) /\ pc'[t] \in {"lock", "raise"}
    BY <1>1, <1>3, OwnStep DEF Counters, TypeInv, TypeOK, TaskOK
  <2> QED BY <1>1, <1>3, <2>1, TakesNothing, NotUsing, QuietStepKeepsPool
          DEF poolVars, queueVars
<1> QED BY <1>2, <1>3 DEF SlotGranted

LEMMA LockGrantedKeepsPool ==
    ASSUME LockInv, PoolInv, NEW t \in Tasks, LockGranted(t)
    PROVE  PoolInv'
<1> USE DEF LockInv
<1> DEFINE s == req[t].session
<1>1. /\ pc[t] = "lock" /\ victim[t] = None /\ Holds(t, lock[s]) /\ s = Subject(t)
      /\ UNCHANGED <<slotLock, req>> /\ s \in Sessions /\ Owns(t, s)
      /\ TakesNoSlotFrom(t)
  BY VictimOf, RequestOf, TakesNothing DEF LockGranted, Subject, Owns
<1>2. req[t].op \in SlotOps => Holds(t, slotLock)
  BY <1>1 DEF CapInv, RoomOf, UsesSlot
<1>3. CASE req[t].op \in SlotOps /\ s \notin live /\ EnsureSlot(t)
  BY <1>1, <1>2, <1>3, EnsureSlotKeepsPool
<1>4. CASE Stop(t, s)
  BY <1>1, <1>4, SettleKeepsPool DEF Stop
<1>5. CASE /\ \E c \in {"ret", "raise", "telling"} : pc' = [pc EXCEPT ![t] = c]
           /\ UNCHANGED <<live, state, turnVars, victim>>
           /\ waiting' \in {waiting, Without(waiting, s)}
  <2>1. MovesOnly(t) /\ pc'[t] \in {"ret", "raise", "telling"}
    BY <1>1, <1>5, OwnStep DEF Counters, TypeInv, TypeOK, TaskOK
  <2>2. ToSet(waiting') \subseteq ToSet(waiting)
    BY <1>5, WithoutGone DEF TypeInv, TypeOK, QueueOK
  <2> QED BY <1>1, <1>5, <2>1, <2>2, NotUsing, QuietStepKeepsPool
<1>6. CASE req[t].op = "send" /\ Send(t, s) /\ s \in live
  <2>1. /\ \E c \in {"begin", "overlap"} : pc' = [pc EXCEPT ![t] = c]
        /\ UNCHANGED <<live, state, waiting, turnVars, victim>>
    BY <1>6 DEF Send, StartTurn, poolVars, queueVars
  <2>2. MovesOnly(t) /\ pc'[t] \in {"begin", "overlap"}
    BY <1>1, <2>1, OwnStep DEF Counters, TypeInv, TypeOK, TaskOK
  <2>3. Using(t)'
    BY <1>1, <1>2, <1>6, <2>1, <2>2 DEF Using, SlotOps
  <2> QED BY <1>1, <2>1, <2>2, <2>3, QuietStepKeepsPool
<1>7. CASE Resume(t, s) /\ s \in live
  BY <1>5, <1>7 DEF Resume, poolVars
<1>8. CASE Cancel(t, s)
  <2>1. pc' = [pc EXCEPT ![t] = "telling"] \/ pc' = [pc EXCEPT ![t] = "ret"]
    BY <1>8 DEF Cancel
  <2> QED BY <1>5, <1>8, <2>1 DEF Cancel, poolVars, queueVars
<1>9. CASE pc' = [pc EXCEPT ![t] = "raise"] /\ UNCHANGED <<poolVars, queueVars, turnVars, victim>>
  BY <1>5, <1>9 DEF poolVars, queueVars
<1> QED BY <1>3, <1>4, <1>6, <1>7, <1>8, <1>9 DEF LockGranted, Revert, Send, Resume, SlotOps

LEMMA EndingKeepsPool ==
    ASSUME LockInv, PoolInv, NEW t \in Tasks, VictimLocked(t) \/ Settled(t)
    PROVE  PoolInv'
<1> USE DEF LockInv
<1>1. Subject(t) \in Sessions
  BY RequestOf DEF VictimLocked, Settled, Subject, TypeInv, TypeOK, TaskOK
<1>2. CASE VictimLocked(t)
  <2>1. /\ pc[t] = "evicting" /\ Holds(t, lock[victim[t]]) /\ victim[t] = Subject(t)
        /\ UNCHANGED <<req, victim, slotLock>>
    BY <1>2 DEF VictimLocked, lockVars, Subject, CapInv, RoomOf
  <2>2. CASE Settle(t, victim[t])
    BY <1>1, <2>1, <2>2, SettleKeepsPool
  <2>3. CASE pc' = [pc EXCEPT ![t] = "raise"] /\ UNCHANGED <<poolVars, queueVars, turnVars>>
    <3>1. MovesOnly(t) /\ pc'[t] = "raise"
      BY <2>1, <2>3, OwnStep DEF Counters, TypeInv, TypeOK, TaskOK
    <3> QED BY <2>1, <2>3, <3>1, TakesNothing, NotUsing, QuietStepKeepsPool
            DEF poolVars, queueVars
  <2> QED BY <1>2, <2>2, <2>3 DEF VictimLocked
<1>3. CASE Settled(t)
  <2>1. /\ pc[t] = "settling" /\ TearDown(t, Subject(t))
        /\ UNCHANGED <<req, victim, slotLock, turnVars>>
    BY <1>3 DEF Settled, lockVars
  <2>2. Holds(t, lock[Subject(t)])
    BY <2>1 DEF Locked, InTransition
  <2> QED BY <1>1, <2>1, <2>2, TearDownKeepsPool
<1> QED BY <1>2, <1>3

LEMMA ClosedKeepsPool ==
    ASSUME LockInv, PoolInv, NEW t \in Tasks, Closed(t)
    PROVE  PoolInv'
<1> USE DEF LockInv
<1>1. /\ pc[t] = "closing" /\ engineTurn[Subject(t)] = "none"
      /\ UNCHANGED <<slotLock, req, turnVars>>
  BY DEF Closed
<1>2. CASE victim[t] = None
  <2>1. pc' = [pc EXCEPT ![t] = "ret"] /\ UNCHANGED <<poolVars, queueVars, victim>>
    BY <1>2 DEF Closed
  <2>2. MovesOnly(t) /\ pc'[t] = "ret"
    BY <1>1, <2>1, OwnStep DEF Counters, TypeInv, TypeOK, TaskOK
  <2> QED BY <1>1, <2>1, <2>2, TakesNothing, NotUsing, QuietStepKeepsPool
          DEF poolVars, queueVars
<1>3. CASE victim[t] # None
  <2>1. MakesRoom(t) /\ Holds(t, slotLock)
    BY <1>1, <1>3, VictimOf DEF MakesRoom
  <2>2. /\ req[t].session \notin live
        /\ req[t].op # "add" => Holds(t, lock[req[t].session])
    BY <2>1 DEF Locked
  <2>3. Owns(t, req[t].session)
    BY <1>1, <2>2 DEF Fresh, Adding, Owns
  <2>4. /\ victim' = [victim EXCEPT ![t] = None]
        /\ \E held : Activate(t, held) \/ Refuse(t, held)
    BY <1>3 DEF Closed
  <2> QED BY <1>1, <2>1, <2>2, <2>3, <2>4, ActivateKeepsPool
<1> QED BY <1>2, <1>3

LEMMA LaunchedKeepsPool ==
    ASSUME LockInv, PoolInv, NEW t \in Tasks, Launched(t)
    PROVE  PoolInv'
<1> USE DEF LockInv
<1> DEFINE s == req[t].session
<1>1. /\ pc[t] = "launching" /\ victim[t] = None
      /\ UNCHANGED <<slotLock, req, victim, turnVars, waiting>>
      /\ s \in Sessions /\ TakesNoSlotFrom(t)
  BY VictimOf, RequestOf, TakesNothing
     DEF Launched, LaunchOk, LaunchFails, lockVars, queueVars
<1>2. /\ Holds(t, slotLock) /\ s \in live /\ state[s] = "starting"
      /\ engineTurn[s] = "none" /\ s \notin ToSet(waiting) /\ s \notin turnHandle
  BY <1>1 DEF PoolInv, Using, Session, Turn
<1>3. Owns(t, s)
  BY <1>1 DEF Locked, InTransition, Subject, Owns
<1>4. CASE LaunchOk(t)
  <2>1. /\ state' = [state EXCEPT ![s] = "idle"] /\ live' = live
        /\ pc' = Scheduled([pc EXCEPT ![t] = "ready"])
    BY <1>4 DEF LaunchOk
  <2>2. MovesOnly(t) /\ (pc'[t] = "ready" \/ pc'[t] = "scheduled")
    BY <1>1, <2>1, OwnStep DEF Counters
  <2>3. OnlyTouches(t, {s})
    BY <1>1, <1>2, <1>3, <2>1 DEF OnlyTouches, turnVars, TypeInv, TypeOK, PoolOK
  <2>4. Using(t)'
    BY <1>1, <1>2, <2>1, <2>2 DEF Using
  <2>5. state'[s] = "idle" /\ engineTurn'[s] = "none" /\ s \notin turnHandle'
    BY <1>1, <1>2, <2>1 DEF turnVars, TypeInv, TypeOK, PoolOK
  <2>6. Session(s)' /\ Turn(s)'
    BY <1>1, <1>2, <2>5 DEF Session, Turn
  <2> QED BY <1>1, <2>2, <2>3, <2>4, <2>6, StepKeepsPool
<1>5. CASE LaunchFails(t)
  <2>1. /\ state' = [state EXCEPT ![s] = "stored"] /\ live' = live \ {s}
        /\ pc' = [pc EXCEPT ![t] = "raise"]
    BY <1>5 DEF LaunchFails
  <2>2. MovesOnly(t) /\ pc'[t] = "raise"
    BY <1>1, <2>1, OwnStep DEF Counters, TypeInv, TypeOK, TaskOK
  <2>3. OnlyTouches(t, {s})
    BY <1>1, <1>2, <1>3, <2>1 DEF OnlyTouches, turnVars, TypeInv, TypeOK, PoolOK
  <2>4. Session(s)' /\ Turn(s)'
    BY <1>1, <1>2, <2>1 DEF Session, Turn, turnVars
  <2> QED BY <1>1, <2>2, <2>3, <2>4, NotUsing, StepKeepsPool
<1> QED BY <1>4, <1>5 DEF Launched

LEMMA TurnKeepsPool ==
    ASSUME LockInv, PoolInv, NEW t \in Tasks, Ready(t) \/ Told(t) \/ FirstStep(t)
    PROVE  PoolInv'
<1> USE DEF LockInv
<1> DEFINE s == req[t].session
<1>1. /\ pc[t] \in {"ready", "telling", "begin", "overlap"} /\ victim[t] = None
      /\ s \in Sessions /\ UNCHANGED <<req, victim, live, waiting>>
      /\ slotLock' \in {slotLock, Released(t, slotLock)} /\ TakesNoSlotFrom(t)
  BY VictimOf, RequestOf, TakesNothing
     DEF Ready, Told, FirstStep, poolVars, queueVars, lockVars, GiveUpLocks, ReleaseAll
<1>2. CASE /\ \E c \in {"ret", "begin", "overlap"} : pc' = [pc EXCEPT ![t] = c]
           /\ UNCHANGED <<state, turnVars, slotLock>> /\ (Ready(t) \/ pc' = [pc EXCEPT ![t] = "ret"])
  <2>1. MovesOnly(t) /\ pc'[t] \in {"ret", "begin", "overlap"}
        /\ (Ready(t) \/ pc'[t] = "ret")
    BY <1>1, <1>2, OwnStep DEF Counters, TypeInv, TypeOK, TaskOK
  <2>2. Using(t)'
    <3>1. CASE pc'[t] = "ret"
      BY <3>1, NotUsing
    <3>2. CASE pc[t] = "ready"
      BY <1>1, <1>2, <2>1, <3>2 DEF PoolInv, Using
    <3> QED BY <2>1, <3>1, <3>2 DEF Ready
  <2> QED BY <1>1, <1>2, <2>1, <2>2, QuietStepKeepsPool
<1>3. CASE FirstStep(t) /\ engineTurn[s] = "none"
  <2>1. /\ pc[t] \in {"begin", "overlap"} /\ pc' = [pc EXCEPT ![t] = "turn"]
        /\ engineTurn' = [engineTurn EXCEPT ![s] = "running"]
        /\ turnHandle' \in {turnHandle, turnHandle \cup {s}}
        /\ state' = [state EXCEPT ![s] = "working"]
    BY <1>3 DEF FirstStep
  <2>2. MovesOnly(t) /\ pc'[t] = "turn"
    BY <1>1, <2>1, OwnStep DEF Counters, TypeInv, TypeOK, TaskOK
  <2>3. Holds(t, slotLock) /\ s \in live /\ Owns(t, s)
    BY <1>1, <2>1 DEF PoolInv, Using, Locked, InTransition, Subject, Owns
  <2>4. OnlyTouches(t, {s})
    BY <1>1, <2>1, <2>3 DEF OnlyTouches, TypeInv, TypeOK, PoolOK, TurnOK
  <2>5. state'[s] = "working" /\ engineTurn'[s] = "running"
    BY <1>1, <2>1 DEF TypeInv, TypeOK, PoolOK, TurnOK
  <2>6. s \notin ToSet(waiting)
    BY <1>1, <2>3 DEF PoolInv, Session
  <2>7. Session(s)' /\ Turn(s)'
    BY <1>1, <2>3, <2>5, <2>6 DEF Session, Turn
  <2> QED BY <1>1, <2>2, <2>4, <2>7, NotUsing, StepKeepsPool
<1>4. CASE FirstStep(t) /\ engineTurn[s] # "none"
  BY <1>2, <1>4 DEF FirstStep, poolVars, lockVars
<1>5. CASE Ready(t) \/ Told(t)
  BY <1>2, <1>5 DEF Ready, Told, StartTurn, poolVars, lockVars
<1> QED BY <1>3, <1>4, <1>5

LEMMA ReturnKeepsPool ==
    ASSUME LockInv, PoolInv, NEW t \in Tasks, Return(t)
    PROVE  PoolInv'
<1>1. MovesOnly(t) /\ pc'[t] = "idle"
  BY DEF Return, MovesOnly, LockInv, TypeInv, TypeOK, TaskOK
<1>2. TakesNoSlotFrom(t)
  BY TakesNothing DEF Return, ReleaseAll, LockInv
<1> QED BY <1>1, <1>2, NotUsing, QuietStepKeepsPool DEF Return, poolVars, queueVars

\* A turn ends without a lock; the session it ends on is working, if it is live.
LEMMA TurnEndsKeepsPool ==
    ASSUME LockInv, PoolInv, NEW s \in Sessions, TurnEnds(s)
    PROVE  PoolInv'
<1> USE DEF LockInv
<1>1. /\ engineTurn[s] # "none" /\ engineTurn' = [engineTurn EXCEPT ![s] = "none"]
      /\ turnHandle' = turnHandle \ {s} /\ UNCHANGED <<live, waiting, slotLock>>
      /\ state' = IF s \in records THEN [state EXCEPT ![s] = "idle"] ELSE state
  BY DEF TurnEnds, queueVars, lockVars
<1>2. s \in live => state[s] = "working" /\ state'[s] = "idle" /\ s \notin ToSet(waiting)
  BY <1>1 DEF PoolInv, Session, Born, TypeInv, TypeOK, PoolOK
<1>3. \A z \in Sessions \ {s} : state'[z] = state[z] /\ engineTurn'[z] = engineTurn[z]
  BY <1>1 DEF TypeInv, TypeOK, PoolOK, TurnOK
<1>4. ASSUME NEW u \in Tasks
      PROVE  Using(u)'
  <2>1. /\ Using(u) /\ victim'[u] = victim[u] /\ req'[u] = req[u]
        /\ pc'[u] # pc[u] => pc'[u] \in {"scheduled", "woken"}
    BY TurnEndsMoves DEF PoolInv
  <2>2. ASSUME pc[u] = "launching"
        PROVE  state'[req[u].session] = "starting"
    <3>1. req[u].session \in Sessions
      BY <2>2, RequestOf
    <3> QED BY <1>2, <1>3, <2>1, <2>2, <3>1 DEF Using
  <2>3. ASSUME pc[u] = "evicting", victim[u] \in live
        PROVE  state'[victim[u]] = "idle"
    <3>1. victim[u] \in Sessions
      BY <2>3 DEF TypeInv, TypeOK, PoolOK
    <3> QED BY <1>2, <1>3, <2>1, <2>3, <3>1 DEF Using
  <2> QED BY <1>1, <2>1, <2>2, <2>3 DEF Using
<1>5. ASSUME NEW z \in Sessions
      PROVE  Session(z)' /\ Turn(z)'
  <2>1. Session(z) /\ Turn(z)
    BY DEF PoolInv
  <2>2. \A u \in Tasks : pc[u] \in {"launching", "closing"} =>
           pc'[u] = pc[u] /\ req'[u] = req[u] /\ Subject(u)' = Subject(u)
    BY TurnEndsMoves DEF Subject
  <2>3. CASE z = s
    <3>1. engineTurn'[s] = "none" /\ s \notin turnHandle'
      BY <1>1 DEF TypeInv, TypeOK, TurnOK
    <3> QED BY <1>1, <1>2, <2>3, <3>1 DEF Session, Turn
  <2>4. CASE z # s
    BY <1>1, <1>3, <2>1, <2>2, <2>4 DEF Session, Turn
  <2> QED BY <2>3, <2>4
<1> QED BY <1>4, <1>5 DEF PoolInv

LEMMA DrainKeepsPool ==
    ASSUME LockInv, PoolInv, DrainStep
    PROVE  PoolInv'
<1> USE DEF LockInv
<1> DEFINE free == Released(Drain, slotLock)
<1>1. /\ Drain \in Tasks /\ UNCHANGED <<live, state, turnVars>>
      /\ pc[Drain] \notin {"launching", "closing"}
  BY DEF Tasks, DrainStep, DrainStart, DrainReturns, DrainCatches, poolVars
<1>2. \A u \in Tasks \ {Drain} : victim'[u] = victim[u]
  BY DEF DrainStep, DrainStart, DrainReturns, DrainCatches, TypeInv, TypeOK, TaskOK
<1>3. ToSet(waiting') \subseteq ToSet(waiting)
  BY WithoutGone DEF DrainStep, DrainStart, DrainReturns, DrainCatches, queueVars,
                     TypeInv, TypeOK, QueueOK
<1>4. free \in Seq(Tasks) /\ slotLock \in Seq(Tasks)
  BY ReleasedType DEF TypeInv, TypeOK, LockOK
<1> HIDE DEF free
<1>5. PICK q \in {slotLock, free} :
        \/ DrainOver(q)
        \/ \E op, s, x : DrainAsks(op, s, x, q)
  <2>1. ASSUME NEW w, NEW q, DrainNext(w, q)
        PROVE  DrainOver(q) \/ \E op, s, x : DrainAsks(op, s, x, q)
    BY <2>1 DEF DrainNext
  <2> QED BY <2>1 DEF DrainStep, DrainStart, DrainReturns, DrainCatches, free
<1>6. \E c \in {"off", "slot"} : \E r :
         pc' = [pc EXCEPT ![Drain] = c] /\ req' = [req EXCEPT ![Drain] = r]
  BY <1>5 DEF DrainOver, DrainAsks
<1>7. MovesOnly(Drain) /\ pc'[Drain] \in {"off", "slot"}
  BY <1>1, <1>2, <1>6 DEF MovesOnly, TypeInv, TypeOK, TaskOK
<1>8. TakesNoSlotFrom(Drain)
  <2>1. slotLock' = q \/ slotLock' = Append(q, Drain)
    BY <1>5 DEF DrainOver, DrainAsks
  <2>2. ASSUME NEW u \in Tasks \ {Drain}, Holds(u, slotLock)
        PROVE  Holds(u, q)
    BY <2>2, HoldsReleased DEF free
  <2> QED BY <1>1, <1>4, <2>1, <2>2, HoldsAppend DEF TakesNoSlotFrom
<1> QED BY <1>1, <1>3, <1>7, <1>8, NotUsing, QuietStepKeepsPool

LEMMA NextKeepsPool ==
    ASSUME LockInv, PoolInv, [Next]_vars
    PROVE  PoolInv'
<1>1. CASE UNCHANGED vars
  BY <1>1 DEF vars, poolVars, queueVars, turnVars, lockVars, PoolInv, Using, Session,
              Turn, Subject
<1>2. CASE \E t \in Clients : Request(t)
  BY <1>2, RequestKeepsPool
<1>3. ASSUME NEW t \in Tasks, TaskStep(t)
      PROVE  PoolInv'
  BY <1>3, SlotGrantedKeepsPool, LockGrantedKeepsPool, EndingKeepsPool, ClosedKeepsPool,
     LaunchedKeepsPool, TurnKeepsPool, ReturnKeepsPool DEF TaskStep
<1>4. CASE DrainStep
  BY <1>4, DrainKeepsPool
<1>5. CASE \E s \in Sessions : TurnEnds(s)
  BY <1>5, TurnEndsKeepsPool
<1> QED BY <1>1, <1>2, <1>3, <1>4, <1>5 DEF Next

LEMMA InitPoolInv == Init => PoolInv
  BY DEF Init, PoolInv, Using, Session, Turn

LEMMA PoolInvariant == Spec => []PoolInv
  BY InitPoolInv, NextKeepsPool, LockInvariant, PTL DEF Spec

\* Between the choice of an idle session in _ensure_slot and the grant of its lock,
\* which may take as long as anything, no turn begins on it.
THEOREM TurnsSpared == Spec => []EvictionSparesTurns
<1>1. ASSUME LockInv, PoolInv, NEW t \in Tasks, pc[t] = "evicting", victim[t] \in live
      PROVE  engineTurn[victim[t]] = "none"
  <2>1. victim[t] \in Sessions /\ state[victim[t]] = "idle"
    BY <1>1 DEF LockInv, TypeInv, TypeOK, PoolOK, PoolInv, Using
  <2> QED BY <1>1, <2>1 DEF PoolInv, Session
<1>2. LockInv /\ PoolInv => EvictionSparesTurns
  BY <1>1 DEF EvictionSparesTurns
<1> QED BY <1>2, LockInvariant, PoolInvariant, PTL

\* A session that waits for a slot has none, whatever queues and activates it.
THEOREM WaitingNotLive == Spec => []WaitingIsNotLive
<1>1. ASSUME LockInv, PoolInv
      PROVE  live \cap ToSet(waiting) = {}
  BY <1>1 DEF LockInv, TypeInv, TypeOK, PoolOK, PoolInv, Session
<1>2. LockInv /\ PoolInv => WaitingIsNotLive
  BY <1>1 DEF WaitingIsNotLive
<1> QED BY <1>2, LockInvariant, PoolInvariant, PTL

-----------------------------------------------------------------------------
(***************************************************************************)
(* The phases.                                                             *)
(*                                                                         *)
(* Whatever the tasks do, each session goes through its phases one         *)
(* transition at a time, it starts only where there is room, and it stays  *)
(* gone once it is gone: SessionCoordinator implements SessionPool.        *)
(*                                                                         *)
(* A step changes the phase of one session at most: what the step changes  *)
(* in the pool is that session's, and no step but an add's own ends the    *)
(* wait that keeps a new session unborn (SamePhase).  That the change is a *)
(* transition the pool allows rests on what PoolInv says of the session's  *)
(* state under its lock.                                                   *)
(***************************************************************************)
Phase(s) == PhaseOf[s]

\* A step leaves session z to the adds that wait for it, or keeps it so.
SameAdds(z) ==
    \A u \in Tasks : (Adding(u) /\ req[u].session = z)' = (Adding(u) /\ req[u].session = z)

\* The transitions of a phase in SessionPool.
Allowed(from, to) ==
    \/ from = "unborn" /\ to = "stored"
    \/ from \in {"unborn", "stored"} /\ to = "starting" /\ HasRoom
    \/ from = "starting" /\ to \in {"idle", "stored"}
    \/ from = "idle" /\ to = "working"
    \/ from = "working" /\ to = "idle"
    \/ from \in {"idle", "working"} /\ to = "stored"
    \/ from # "gone" /\ to = "gone"

PhaseInv == LockInv /\ PoolInv

LEMMA UnbornIs ==
    ASSUME NEW s
    PROVE  Unborn(s) <=>
             s \notin born \/ \E t \in Tasks : Adding(t) /\ req[t].session = s
  BY DEF Unborn, Adding

\* What a phase says.
LEMMA PhaseIs ==
    ASSUME PhaseInv, NEW s \in Sessions
    PROVE  /\ Phase(s) \in Pool!Phases
           /\ s \in live => Phase(s) = state[s] /\ Phase(s) \in Pool!LivePhases
           /\ s \notin live /\ s \in records => Phase(s) = "stored"
           /\ s \notin records /\ Unborn(s) => Phase(s) = "unborn"
           /\ s \notin records /\ ~ Unborn(s) => Phase(s) = "gone"
           /\ s \in records => ~ Unborn(s)
<1>1. s \in live => state[s] \in {"starting", "idle", "working"}
  BY DEF PhaseInv, PoolInv, Session, LockInv, TypeInv, TypeOK, PoolOK
<1>2. live \subseteq records /\ records \subseteq born
  BY DEF PhaseInv, LockInv, Born
<1>3. s \in records => ~ Unborn(s)
  BY <1>2, UnbornIs DEF PhaseInv, LockInv, Fresh
<1>4. Phase(s) = IF s \in live THEN state[s]
                 ELSE IF s \in records THEN "stored"
                 ELSE IF Unborn(s) THEN "unborn" ELSE "gone"
  BY DEF Phase, PhaseOf
<1> QED BY <1>1, <1>2, <1>3, <1>4 DEF Pool!Phases, Pool!LivePhases

LEMMA LiveIs ==
    ASSUME PhaseInv
    PROVE  Pool!Live = live
<1>1. ASSUME NEW s \in Sessions
      PROVE  PhaseOf[s] \in Pool!LivePhases <=> s \in live
  BY PhaseIs DEF Phase, Pool!LivePhases
<1>2. live \subseteq Sessions
  BY DEF PhaseInv, LockInv, TypeInv, TypeOK, PoolOK
<1> QED BY <1>1, <1>2 DEF Pool!Live

-----------------------------------------------------------------------------
(***************************************************************************)
(* What a step has to show.                                                *)
(***************************************************************************)
LEMMA SameUnborn ==
    ASSUME NEW z, SameAdds(z), (z \in born') = (z \in born)
    PROVE  Unborn(z)' <=> Unborn(z)
<1>1. Unborn(z)' <=>
        z \notin born' \/ \E t \in Tasks : (Adding(t) /\ req[t].session = z)'
  BY DEF Unborn, Adding
<1>2. (\E t \in Tasks : (Adding(t) /\ req[t].session = z)')
        <=> \E t \in Tasks : Adding(t) /\ req[t].session = z
  BY DEF SameAdds
<1> QED BY <1>1, <1>2, UnbornIs

LEMMA NextPhase ==
    ASSUME NEW s \in Sessions
    PROVE  Phase(s)' = IF s \in live' THEN state'[s]
                       ELSE IF s \in records' THEN "stored"
                       ELSE IF Unborn(s)' THEN "unborn" ELSE "gone"
  BY DEF Phase, PhaseOf

LEMMA SamePhase ==
    ASSUME NEW z \in Sessions, SameAdds(z), (z \in live') = (z \in live),
           (z \in records') = (z \in records), (z \in born') = (z \in born),
           z \in live => state'[z] = state[z]
    PROVE  Phase(z)' = Phase(z)
<1>1. Unborn(z)' <=> Unborn(z)
  BY SameUnborn
<1>2. Phase(z) = IF z \in live THEN state[z]
                 ELSE IF z \in records THEN "stored"
                 ELSE IF Unborn(z) THEN "unborn" ELSE "gone"
  BY DEF Phase, PhaseOf
<1> QED BY <1>1, <1>2, NextPhase

\* A step that gives session s a new phase, and no other.
LEMMA OneMoves ==
    ASSUME PhaseInv, NEW s \in Sessions,
           \A z \in Sessions \ {s} : Phase(z)' = Phase(z),
           Phase(s)' = Phase(s) \/ Allowed(Phase(s), Phase(s)')
    PROVE  [Pool!Next]_PhaseOf
<1>1. /\ PhaseOf = [z \in Sessions |-> Phase(z)]
      /\ PhaseOf' = [z \in Sessions |-> Phase(z)']
  BY DEF PhaseOf, Phase
<1> DEFINE to == Phase(s)'
<1>2. PhaseOf' = [PhaseOf EXCEPT ![s] = to] /\ PhaseOf[s] = Phase(s)
  BY <1>1
<1>3. CASE Phase(s)' = Phase(s)
  <2>1. PhaseOf' = PhaseOf
    BY <1>1, <1>3
  <2> QED BY <2>1
<1>4. CASE Allowed(Phase(s), Phase(s)')
  <2>1. HasRoom => Limit = 0 \/ Pool!Cardinality(Pool!Live) < Limit
    <3>1. Pool!Cardinality(live) = Cardinality(live)
      BY DEF Pool!Cardinality, Cardinality
    <3> QED BY <3>1, LiveIs DEF HasRoom
  <2>2. Phase(s) \in Pool!Phases
    BY PhaseIs
  <2> HIDE DEF to
  <2>3. Allowed(PhaseOf[s], to)
    BY <1>2, <1>4 DEF to
  <2>4. \/ Pool!Create(s) \/ Pool!Start(s) \/ Pool!Started(s) \/ Pool!NotStarted(s)
        \/ Pool!Work(s) \/ Pool!Rest(s) \/ Pool!Stop(s) \/ Pool!Discard(s)
    BY <1>2, <2>1, <2>2, <2>3
       DEF Allowed, Pool!Create, Pool!Start, Pool!Started, Pool!NotStarted, Pool!Work,
           Pool!Rest, Pool!Stop, Pool!Discard, Pool!Move
  <2> QED BY <2>4 DEF Pool!Next
<1> QED BY <1>3, <1>4

\* A step that keeps the places of all adds, those of t included.
LEMMA AddsStay ==
    ASSUME NEW t \in Tasks, MovesOnly(t), NEW z,
           (Adding(t) /\ req[t].session = z)' = (Adding(t) /\ req[t].session = z)
    PROVE  SameAdds(z)
<1>1. ASSUME NEW u \in Tasks, u # t
      PROVE  (Adding(u) /\ req[u].session = z)' = (Adding(u) /\ req[u].session = z)
  <2>1. /\ req'[u] = req[u]
        /\ \/ pc'[u] = pc[u]
           \/ pc[u] \in {"off", "turn"} /\ pc'[u] \in {"scheduled", "woken"}
    BY <1>1 DEF MovesOnly
  <2> QED BY <2>1 DEF Adding
<1> QED BY <1>1 DEF SameAdds

\* A step of t that changes the pool for the session s only.  If t gives up an
\* add, it is that of s.
LEMMA StepAllowed ==
    ASSUME PhaseInv, NEW t \in Tasks, MovesOnly(t), NEW s \in Sessions,
           \A z \in Sessions \ {s} :
              /\ (z \in live') = (z \in live) /\ (z \in records') = (z \in records)
              /\ z \in live => state'[z] = state[z],
           UNCHANGED <<born, req>>, Adding(t)' => Adding(t),
           Adding(t) => Adding(t)' \/ req[t].session = s,
           Phase(s)' = Phase(s) \/ Allowed(Phase(s), Phase(s)')
    PROVE  [Pool!Next]_PhaseOf
<1>1. ASSUME NEW z \in Sessions \ {s}
      PROVE  Phase(z)' = Phase(z)
  <2>1. SameAdds(z)
    BY <1>1, AddsStay DEF Adding
  <2> QED BY <1>1, <2>1, SamePhase
<1> QED BY <1>1, OneMoves

\* A step that changes nothing in the pool.  An add that is given up before its
\* session is there leaves it gone.
LEMMA QuietStepAllowed ==
    ASSUME PhaseInv, PhaseInv', NEW t \in Tasks, MovesOnly(t),
           UNCHANGED <<live, records, born, state>>,
           Adding(t)' => Adding(t) /\ req'[t] = req[t]
    PROVE  [Pool!Next]_PhaseOf
<1>1. ASSUME NEW z \in Sessions,
             (Adding(t) /\ req[t].session = z)' = (Adding(t) /\ req[t].session = z)
      PROVE  Phase(z)' = Phase(z)
  BY <1>1, AddsStay, SamePhase
<1>2. CASE Adding(t) /\ ~ Adding(t)'
  <2>1. PICK s \in Sessions : s = req[t].session /\ s \notin records /\ Unborn(s)
    BY <1>2, RequestOf, UnbornIs DEF Adding, PhaseInv, LockInv, Fresh
  <2>2. Phase(s) = "unborn"
    BY <2>1, PhaseIs
  <2>3. Phase(s)' \in {"unborn", "gone"}
    <3>1. s \notin records' /\ s \notin live'
      BY <2>1 DEF PhaseInv, LockInv, Born
    <3> QED BY <3>1, NextPhase
  <2>4. \A z \in Sessions \ {s} : Phase(z)' = Phase(z)
    BY <1>1, <1>2, <2>1
  <2> QED BY <2>1, <2>2, <2>3, <2>4, OneMoves DEF Allowed
<1>3. CASE Adding(t) => Adding(t)'
  <2>1. \A z \in Sessions : Phase(z)' = Phase(z)
    BY <1>1, <1>3 DEF Adding
  <2>2. /\ PhaseOf = [z \in Sessions |-> Phase(z)]
        /\ PhaseOf' = [z \in Sessions |-> Phase(z)']
    BY DEF PhaseOf, Phase
  <2>3. PhaseOf' = PhaseOf
    BY <2>1, <2>2
  <2> QED BY <2>3
<1> QED BY <1>2, <1>3

-----------------------------------------------------------------------------
(***************************************************************************)
(* The actions.                                                            *)
(***************************************************************************)
\* Only the task that starts a session finds it starting.
LEMMA NotStarting ==
    ASSUME PhaseInv, NEW t \in Tasks, pc[t] # "launching", NEW z \in live, Owns(t, z)
    PROVE  state[z] # "starting"
<1>1. ASSUME state[z] = "starting"
      PROVE  FALSE
  <2>1. z \in Sessions
    BY DEF PhaseInv, LockInv, TypeInv, TypeOK, PoolOK
  <2>2. PICK u \in Tasks : pc[u] = "launching" /\ req[u].session = z
    BY <1>1, <2>1 DEF PhaseInv, PoolInv, Session
  <2>3. Subject(u) = z
    BY <2>2, VictimOf DEF PhaseInv, LockInv, Subject
  <2> QED BY <2>2, <2>3, NotOthers DEF PhaseInv, InTransition
<1> QED BY <1>1

LEMMA ActivateAllowed ==
    ASSUME PhaseInv, PhaseInv', NEW t \in Tasks, NEW held,
           Activate(t, held) \/ Refuse(t, held), HasRoom,
           UNCHANGED req, pc[t] \in {"slot", "lock", "closing"},
           \A u \in Tasks \ {t} : victim'[u] = victim[u],
           req[t].session \notin live,
           IF req[t].op = "add" THEN Adding(t) ELSE req[t].session \in records
    PROVE  [Pool!Next]_PhaseOf
<1> USE DEF PhaseInv, LockInv
<1>1. PICK s \in Sessions : s = req[t].session
  BY RequestOf
<1>2. PICK c \in {"launching", "raise"} : pc' = [pc EXCEPT ![t] = c]
  BY DEF Activate, Refuse
<1>3. MovesOnly(t) /\ pc'[t] = c /\ ~ Adding(t)'
  BY <1>2, OwnStep DEF Counters, TypeInv, TypeOK, TaskOK, Adding
<1>4. CASE Refuse(t, held)
  BY <1>3, <1>4, QuietStepAllowed DEF Refuse, poolVars
<1>5. CASE Activate(t, held)
  <2>1. /\ live' = live \cup {s} /\ state' = [state EXCEPT ![s] = "starting"]
        /\ records' \in {records, records \cup {s}} /\ born' = born
    BY <1>1, <1>5 DEF Activate, WithNew
  <2>2. Phase(s)' = "starting"
    BY <2>1, NextPhase DEF TypeInv, TypeOK, PoolOK
  <2>3. Phase(s) \in {"unborn", "stored"}
    <3>1. CASE req[t].op = "add"
      BY <1>1, <3>1, UnbornIs, PhaseIs DEF Fresh
    <3>2. CASE req[t].op # "add"
      BY <1>1, <3>2, PhaseIs
    <3> QED BY <3>1, <3>2
  <2>4. \A z \in Sessions \ {s} :
           /\ (z \in live') = (z \in live) /\ (z \in records') = (z \in records)
           /\ z \in live => state'[z] = state[z]
    BY <2>1 DEF TypeInv, TypeOK, PoolOK
  <2>5. Allowed(Phase(s), Phase(s)')
    BY <2>2, <2>3 DEF Allowed
  <2> QED BY <1>1, <1>3, <2>1, <2>4, <2>5, StepAllowed
<1> QED BY <1>4, <1>5

LEMMA EnsureSlotAllowed ==
    ASSUME PhaseInv, PhaseInv', NEW t \in Tasks, EnsureSlot(t),
           UNCHANGED req, pc[t] \in {"slot", "lock"}, req[t].session \notin live,
           IF req[t].op = "add" THEN Adding(t) ELSE req[t].session \in records
    PROVE  [Pool!Next]_PhaseOf
<1> USE DEF PhaseInv, LockInv
<1>1. CASE HasRoom /\ (Activate(t, lock) \/ Refuse(t, lock)) /\ UNCHANGED victim
  BY <1>1, ActivateAllowed
<1>2. CASE \E v \in Candidates : Evict(t, v)
  <2>1. PICK v \in Candidates : Evict(t, v)
    BY <1>2
  <2>2. /\ victim' = [victim EXCEPT ![t] = v] /\ pc' = [pc EXCEPT ![t] = "evicting"]
        /\ UNCHANGED <<live, records, born, state>>
    BY <2>1 DEF Evict, poolVars
  <2>3. MovesOnly(t) /\ (Adding(t)' => Adding(t))
    BY <2>2, OwnStep DEF Counters, TypeInv, TypeOK, TaskOK, Adding
  <2> QED BY <2>2, <2>3, QuietStepAllowed
<1>3. CASE Enqueue(t) /\ UNCHANGED victim
  <2>1. PICK s \in Sessions : s = req[t].session
    BY RequestOf
  <2>2. /\ UNCHANGED <<live, state, born>> /\ pc' = [pc EXCEPT ![t] = "ret"]
        /\ records' = records \cup {s}
    BY <1>3, <2>1 DEF Enqueue, WithNew
  <2>3. MovesOnly(t) /\ ~ Adding(t)'
    BY <1>3, <2>2, OwnStep DEF Counters, TypeInv, TypeOK, TaskOK, Adding
  <2>4. Phase(s)' = "stored"
    BY <2>1, <2>2, NextPhase
  <2>5. Phase(s) \in {"unborn", "stored"}
    <3>1. CASE req[t].op = "add"
      BY <2>1, <3>1, UnbornIs, PhaseIs DEF Fresh
    <3>2. CASE req[t].op # "add"
      BY <2>1, <3>2, PhaseIs
    <3> QED BY <3>1, <3>2
  <2>6. Phase(s)' = Phase(s) \/ Allowed(Phase(s), Phase(s)')
    BY <2>4, <2>5 DEF Allowed
  <2> QED BY <2>1, <2>2, <2>3, <2>6, StepAllowed
<1> QED BY <1>1, <1>2, <1>3 DEF EnsureSlot

\* Stopping a session, or discarding it.
LEMMA TearDownAllowed ==
    ASSUME PhaseInv, PhaseInv', NEW t \in Tasks, NEW z \in Sessions, TearDown(t, z),
           Holds(t, lock[z]), UNCHANGED <<req, victim>>,
           \/ pc[t] \in {"evicting", "settling"}
           \/ pc[t] = "lock" /\ req[t].op # "add"
    PROVE  [Pool!Next]_PhaseOf
<1> USE DEF PhaseInv, LockInv
<1>1. /\ live' = live \ {z} /\ state' = [state EXCEPT ![z] = "stored"]
      /\ records' \in {records, records \ {z}} /\ born' = born
      /\ pc' = [pc EXCEPT ![t] = "closing"]
  BY DEF TearDown
<1>2. MovesOnly(t) /\ Adding(t)' = Adding(t)
  BY <1>1, OwnStep DEF Counters, TypeInv, TypeOK, TaskOK, Adding
<1>3. Unborn(z)' <=> Unborn(z)
  BY <1>1, <1>2, AddsStay, SameUnborn
<1>4. z \in live => Phase(z) \in {"idle", "working"}
  <2>1. z \in live => state[z] # "starting"
    BY NotStarting DEF Owns
  <2> QED BY <2>1, PhaseIs DEF Pool!LivePhases
<1>5. Phase(z)' = Phase(z) \/ Allowed(Phase(z), Phase(z)')
  <2>1. CASE z \in records'
    BY <1>1, <1>4, <2>1, NextPhase, PhaseIs DEF Allowed
  <2>2. CASE z \in records /\ z \notin records'
    <3>1. Phase(z)' = "gone" /\ Phase(z) \in {"idle", "working", "stored"}
      BY <1>1, <1>3, <1>4, <2>2, NextPhase, PhaseIs
    <3> QED BY <3>1 DEF Allowed
  <2>3. CASE z \notin records
    BY <1>1, <1>3, <2>3, NextPhase, PhaseIs DEF Born
  <2> QED BY <2>1, <2>2, <2>3
<1>6. \A y \in Sessions \ {z} :
         /\ (y \in live') = (y \in live) /\ (y \in records') = (y \in records)
         /\ y \in live => state'[y] = state[y]
  BY <1>1 DEF TypeInv, TypeOK, PoolOK
<1> QED BY <1>1, <1>2, <1>5, <1>6, StepAllowed

LEMMA SettleAllowed ==
    ASSUME PhaseInv, PhaseInv', NEW t \in Tasks, NEW z \in Sessions, Settle(t, z),
           Holds(t, lock[z]), UNCHANGED <<req, victim>>,
           pc[t] = "evicting" \/ (pc[t] = "lock" /\ req[t].op # "add")
    PROVE  [Pool!Next]_PhaseOf
<1>1. ASSUME TearDown(t, z)
      PROVE  [Pool!Next]_PhaseOf
  BY <1>1, TearDownAllowed
<1>2. CASE pc' = [pc EXCEPT ![t] = "settling"] /\ UNCHANGED poolVars
  <2>1. MovesOnly(t) /\ (Adding(t)' => Adding(t))
    BY <1>2, OwnStep DEF Counters, TypeInv, TypeOK, TaskOK, Adding, PhaseInv, LockInv
  <2> QED BY <1>2, <2>1, QuietStepAllowed DEF poolVars
<1>3. QED BY <1>1, <1>2 DEF Settle

LEMMA RequestAllowed ==
    ASSUME PhaseInv, PhaseInv', NEW t \in Clients, Request(t)
    PROVE  [Pool!Next]_PhaseOf
<1> USE DEF PhaseInv, LockInv
<1>1. t \in Tasks
  BY DEF Tasks
<1>2. PICK s \in Sessions :
        \/ RequestAdd(t, s)
        \/ \E op \in Ops, x \in Texts \cup {None} : RequestSlot(t, op, s, x)
        \/ \E op \in Ops : RequestLock(t, op, s)
  BY DEF Request
<1>3. /\ pc[t] = "idle" /\ UNCHANGED <<live, records, state, victim>>
      /\ pc' = [pc EXCEPT ![t] = "slot"] \/ pc' = [pc EXCEPT ![t] = "lock"]
  BY <1>2 DEF RequestAdd, RequestSlot, RequestLock, Accept
<1>4. \E op, x : req' = [req EXCEPT ![t] = [op |-> op, session |-> s, text |-> x]]
  BY <1>2 DEF RequestAdd, RequestSlot, RequestLock, Accept
<1>5. MovesOnly(t) /\ ~ Adding(t)
  BY <1>1, <1>3, <1>4 DEF MovesOnly, TypeInv, TypeOK, TaskOK, Adding
<1>6. CASE RequestAdd(t, s)
  <2>1. /\ s \notin born /\ born' = born \cup {s} /\ s \notin records /\ s \notin live
        /\ req' = [req EXCEPT ![t] = [op |-> "add", session |-> s, text |-> None]]
        /\ pc' = [pc EXCEPT ![t] = "slot"]
    BY <1>6 DEF RequestAdd, Accept, Born
  <2>2. Adding(t)' /\ req'[t].session = s
    BY <1>1, <2>1 DEF Adding, TypeInv, TypeOK, TaskOK
  <2>3. Unborn(s) /\ Unborn(s)'
    BY <1>1, <2>1, <2>2 DEF Unborn, Adding
  <2>4. Phase(s)' = Phase(s)
    BY <1>3, <2>1, <2>3, NextPhase, PhaseIs
  <2>5. ASSUME NEW z \in Sessions \ {s}
        PROVE  Phase(z)' = Phase(z)
    <3>1. SameAdds(z)
      BY <1>1, <1>5, <2>2, <2>5, AddsStay
    <3> QED BY <1>3, <2>1, <2>5, <3>1, SamePhase
  <2> QED BY <2>4, <2>5, OneMoves
<1>7. CASE ~ RequestAdd(t, s)
  <2>1. ~ Adding(t)' /\ born' = born
    <3>1. PICK op \in Ops \ {"add"}, x \in Texts \cup {None} :
             /\ Accept(t, op, s, x)
             /\ UNCHANGED born
      BY <1>2, <1>7 DEF RequestSlot, RequestLock, LockOps
    <3>2. req'[t].op = op
      BY <1>1, <3>1 DEF Accept, TypeInv, TypeOK, TaskOK
    <3> QED BY <3>1, <3>2 DEF Adding
  <2> QED BY <1>1, <1>3, <1>5, <2>1, QuietStepAllowed
<1> QED BY <1>6, <1>7

\* A step that moves the task on, and nothing else that a phase depends on.
LEMMA GoesOnAllowed ==
    ASSUME PhaseInv, PhaseInv', NEW t \in Tasks, NEW c \in Counters,
           pc' = [pc EXCEPT ![t] = c], c \notin {"slot", "evicting", "settling", "closing"},
           UNCHANGED <<live, records, born, state, req>>,
           \A u \in Tasks \ {t} : victim'[u] = victim[u]
    PROVE  [Pool!Next]_PhaseOf
<1>1. MovesOnly(t) /\ ~ Adding(t)'
  BY OwnStep DEF PhaseInv, LockInv, TypeInv, TypeOK, TaskOK, Adding
<1> QED BY <1>1, QuietStepAllowed

LEMMA GrantedAllowed ==
    ASSUME PhaseInv, PhaseInv', NEW t \in Tasks, SlotGranted(t) \/ LockGranted(t)
    PROVE  [Pool!Next]_PhaseOf
<1> USE DEF PhaseInv, LockInv
<1> DEFINE s == req[t].session
           moves(c) == /\ pc' = [pc EXCEPT ![t] = c]
                       /\ UNCHANGED <<live, records, born, state, victim>>
<1>1. pc[t] \in {"slot", "lock"} /\ UNCHANGED req /\ s \in Sessions
  BY RequestOf DEF SlotGranted, LockGranted
<1>2. CASE moves("lock") \/ moves("raise") \/ moves("ret") \/ moves("telling")
           \/ moves("begin") \/ moves("overlap")
  BY <1>1, <1>2, GoesOnAllowed DEF Counters
<1> HIDE DEF moves
<1>3. CASE EnsureSlot(t) /\ SlotGranted(t) /\ req[t].op = "add"
  <2>1. Adding(t)
    BY <1>3 DEF SlotGranted, Adding
  <2>2. s \notin live
    BY <2>1 DEF Fresh, Born
  <2> QED BY <1>1, <1>3, <2>1, <2>2, EnsureSlotAllowed
<1>4. CASE EnsureSlot(t) /\ LockGranted(t) /\ s \notin live /\ s \in records
           /\ req[t].op # "add"
  BY <1>1, <1>4, EnsureSlotAllowed
<1>5. CASE LockGranted(t) /\ Stop(t, s) /\ req[t].op # "add"
  BY <1>1, <1>5, SettleAllowed DEF Stop, LockGranted
<1>6. CASE SlotGranted(t)
  BY <1>2, <1>3, <1>6 DEF SlotGranted, poolVars, moves
<1>7. CASE LockGranted(t)
  <2>1. CASE moves("raise")
    BY <1>2, <2>1
  <2>2. CASE req[t].op = "send" /\ Send(t, s) /\ s \in records
    BY <1>2, <1>4, <1>7, <2>2 DEF Send, StartTurn, poolVars, moves
  <2>3. CASE req[t].op = "resume" /\ Resume(t, s) /\ s \in records
    BY <1>2, <1>4, <1>7, <2>3 DEF Resume, poolVars, moves
  <2>4. CASE req[t].op \in {"stop", "delete", "revert"} /\ Stop(t, s)
    BY <1>5, <1>7, <2>4
  <2>5. CASE Cancel(t, s)
    BY <1>2, <2>5 DEF Cancel, poolVars, moves
  <2> QED BY <1>7, <2>1, <2>2, <2>3, <2>4, <2>5
          DEF LockGranted, Known, Revert, poolVars, moves
<1> QED BY <1>6, <1>7

LEMMA EndingAllowed ==
    ASSUME PhaseInv, PhaseInv', NEW t \in Tasks, VictimLocked(t) \/ Settled(t)
    PROVE  [Pool!Next]_PhaseOf
<1> USE DEF PhaseInv, LockInv
<1>1. Subject(t) \in Sessions
  BY RequestOf DEF VictimLocked, Settled, Subject, TypeInv, TypeOK, TaskOK
<1>2. CASE VictimLocked(t)
  <2>1. /\ pc[t] = "evicting" /\ Holds(t, lock[victim[t]]) /\ victim[t] = Subject(t)
        /\ UNCHANGED <<req, victim>>
    BY <1>2 DEF VictimLocked, Subject, CapInv, RoomOf
  <2>2. CASE Settle(t, victim[t])
    BY <1>1, <2>1, <2>2, SettleAllowed
  <2>3. CASE pc' = [pc EXCEPT ![t] = "raise"] /\ UNCHANGED poolVars
    BY <2>1, <2>3, GoesOnAllowed DEF Counters, poolVars
  <2> QED BY <1>2, <2>2, <2>3 DEF VictimLocked
<1>3. CASE Settled(t)
  <2>1. pc[t] = "settling" /\ TearDown(t, Subject(t)) /\ UNCHANGED <<req, victim>>
    BY <1>3 DEF Settled
  <2>2. Holds(t, lock[Subject(t)])
    BY <2>1 DEF Locked, InTransition
  <2> QED BY <1>1, <2>1, <2>2, TearDownAllowed
<1> QED BY <1>2, <1>3

\* The room of an eviction is there until the task that made it fills it.
LEMMA ClosedAllowed ==
    ASSUME PhaseInv, PhaseInv', NEW t \in Tasks, Closed(t)
    PROVE  [Pool!Next]_PhaseOf
<1> USE DEF PhaseInv, LockInv
<1>1. pc[t] = "closing" /\ UNCHANGED req
  BY DEF Closed
<1>2. CASE victim[t] = None
  BY <1>1, <1>2, GoesOnAllowed DEF Closed, Counters, poolVars
<1>3. CASE victim[t] # None
  <2>1. MakesRoom(t)
    BY <1>1, <1>3 DEF MakesRoom
  <2>2. HasRoom
    <3>1. Limit > 0 => Cardinality(live) < Limit
      BY <1>1, <2>1, VictimOf DEF RoomOf, Left
    <3> QED BY <3>1, LimitAssumption DEF HasRoom
  <2>3. /\ req[t].session \notin live
        /\ IF req[t].op = "add" THEN Adding(t) ELSE req[t].session \in records
    BY <1>1, <2>1 DEF Locked, Adding
  <2>4. /\ \A u \in Tasks \ {t} : victim'[u] = victim[u]
        /\ \E held : Activate(t, held) \/ Refuse(t, held)
    BY <1>3 DEF Closed, TypeInv, TypeOK, TaskOK
  <2> QED BY <1>1, <2>2, <2>3, <2>4, ActivateAllowed
<1> QED BY <1>2, <1>3

LEMMA LaunchedAllowed ==
    ASSUME PhaseInv, PhaseInv', NEW t \in Tasks, Launched(t)
    PROVE  [Pool!Next]_PhaseOf
<1> USE DEF PhaseInv, LockInv
<1>1. pc[t] = "launching" /\ UNCHANGED <<req, victim, born>>
  BY DEF Launched, LaunchOk, LaunchFails
<1>2. PICK s \in Sessions : s = req[t].session
  BY <1>1, RequestOf
<1>3. s \in live /\ s \in records /\ state[s] = "starting"
  BY <1>1, <1>2 DEF PoolInv, Using, Born
<1>4. Phase(s) = "starting"
  BY <1>3, PhaseIs
<1>5. PICK c \in {"ready", "raise"} :
         pc' = [pc EXCEPT ![t] = c] \/ pc' = Scheduled([pc EXCEPT ![t] = c])
  BY DEF Launched, LaunchOk, LaunchFails
<1>6. MovesOnly(t) /\ ~ Adding(t) /\ ~ Adding(t)'
  <2>1. MovesOnly(t) /\ pc'[t] \in {c, "scheduled"}
    BY <1>1, <1>5, OwnStep DEF Counters
  <2> QED BY <1>1, <2>1 DEF Adding
<1>7. /\ live' \in {live, live \ {s}} /\ records' \in {records, records \ {s}}
      /\ \E x : state' = [state EXCEPT ![s] = x]
  BY <1>2 DEF Launched, LaunchOk, LaunchFails
<1>8. \A z \in Sessions \ {s} :
         /\ (z \in live') = (z \in live) /\ (z \in records') = (z \in records)
         /\ z \in live => state'[z] = state[z]
  BY <1>7 DEF TypeInv, TypeOK, PoolOK
<1>9. Phase(s)' \in {"idle", "stored", "gone"}
  <2>1. CASE LaunchOk(t)
    BY <1>2, <1>3, <2>1, NextPhase DEF LaunchOk, TypeInv, TypeOK, PoolOK
  <2>2. CASE LaunchFails(t)
    <3>1. s \notin live'
      BY <1>2, <2>2 DEF LaunchFails
    <3>2. ~ Unborn(s)'
      BY <1>1, <1>3, <1>6, AddsStay, SameUnborn, PhaseIs
    <3> QED BY <3>1, <3>2, NextPhase
  <2> QED BY <2>1, <2>2 DEF Launched
<1>10. Allowed(Phase(s), Phase(s)')
  BY <1>4, <1>9 DEF Allowed
<1> QED BY <1>1, <1>6, <1>8, <1>10, StepAllowed

LEMMA TurnAllowed ==
    ASSUME PhaseInv, PhaseInv', NEW t \in Tasks, Ready(t) \/ Told(t) \/ FirstStep(t)
    PROVE  [Pool!Next]_PhaseOf
<1> USE DEF PhaseInv, LockInv
<1>1. /\ pc[t] \in {"ready", "telling", "begin", "overlap"}
      /\ UNCHANGED <<req, victim, live, records, born>>
  BY DEF Ready, Told, FirstStep, poolVars
<1>2. PICK s \in Sessions : s = req[t].session
  BY <1>1, RequestOf
<1>3. CASE FirstStep(t) /\ engineTurn[s] = "none"
  <2>1. /\ pc[t] \in {"begin", "overlap"} /\ pc' = [pc EXCEPT ![t] = "turn"]
        /\ state' = [state EXCEPT ![s] = "working"]
    BY <1>2, <1>3 DEF FirstStep
  <2>2. MovesOnly(t) /\ ~ Adding(t) /\ ~ Adding(t)'
    BY <1>1, <2>1, OwnStep DEF Counters, TypeInv, TypeOK, TaskOK, Adding
  <2>3. s \in live /\ Owns(t, s)
    BY <1>1, <1>2, <2>1, VictimOf
       DEF PoolInv, Using, Locked, InTransition, Subject, Owns
  <2>4. state[s] \notin {"working", "starting"}
    BY <1>1, <1>3, <2>3, NotStarting DEF PoolInv, Session
  <2>5. Phase(s) = "idle"
    BY <2>3, <2>4, PhaseIs DEF Pool!LivePhases
  <2>6. Phase(s)' = "working"
    BY <1>1, <2>1, <2>3, NextPhase DEF TypeInv, TypeOK, PoolOK
  <2>7. \A z \in Sessions \ {s} : state'[z] = state[z]
    BY <2>1 DEF TypeInv, TypeOK, PoolOK
  <2>8. Allowed(Phase(s), Phase(s)')
    BY <2>5, <2>6 DEF Allowed
  <2> QED BY <1>1, <2>2, <2>7, <2>8, StepAllowed
<1>4. CASE FirstStep(t) /\ engineTurn[s] # "none"
  BY <1>1, <1>2, <1>4, GoesOnAllowed DEF FirstStep, Counters, poolVars
<1>5. CASE Ready(t) \/ Told(t)
  <2>1. PICK c \in {"ret", "begin", "overlap"} :
           pc' = [pc EXCEPT ![t] = c] /\ UNCHANGED state
    BY <1>5 DEF Ready, Told, StartTurn, poolVars
  <2> QED BY <1>1, <2>1, GoesOnAllowed DEF Counters
<1> QED BY <1>3, <1>4, <1>5

LEMMA ReturnAllowed ==
    ASSUME PhaseInv, PhaseInv', NEW t \in Tasks, Return(t)
    PROVE  [Pool!Next]_PhaseOf
<1>1. MovesOnly(t) /\ ~ Adding(t)'
  BY DEF Return, MovesOnly, Adding, PhaseInv, LockInv, TypeInv, TypeOK, TaskOK
<1> QED BY <1>1, QuietStepAllowed DEF Return, poolVars

LEMMA DrainAllowed ==
    ASSUME PhaseInv, PhaseInv', DrainStep
    PROVE  [Pool!Next]_PhaseOf
<1> USE DEF PhaseInv, LockInv
<1>1. Drain \in Tasks /\ UNCHANGED <<live, records, born, state>>
  BY DEF Tasks, DrainStep, DrainStart, DrainReturns, DrainCatches, poolVars
<1>2. \A u \in Tasks \ {Drain} : victim'[u] = victim[u]
  BY DEF DrainStep, DrainStart, DrainReturns, DrainCatches, TypeInv, TypeOK, TaskOK
<1>3. \/ \E free : DrainOver(free)
      \/ \E op \in {"resume", "send"} : \E s, x, free : DrainAsks(op, s, x, free)
  <2>1. ASSUME NEW w, NEW q, DrainNext(w, q)
        PROVE  \/ \E free : DrainOver(free)
               \/ \E op \in {"resume", "send"} : \E s, x, free : DrainAsks(op, s, x, free)
    BY <2>1 DEF DrainNext
  <2> QED BY <2>1 DEF DrainStep, DrainStart, DrainReturns, DrainCatches
<1>4. \E c \in {"off", "slot"} : \E r :
         /\ pc' = [pc EXCEPT ![Drain] = c] /\ req' = [req EXCEPT ![Drain] = r]
         /\ c = "slot" => r.op \in {"resume", "send"}
  <2>1. CASE \E free : DrainOver(free)
    BY <2>1 DEF DrainOver
  <2>2. CASE \E op \in {"resume", "send"} : \E s, x, free : DrainAsks(op, s, x, free)
    <3>1. PICK op \in {"resume", "send"} : \E s, x, free : DrainAsks(op, s, x, free)
      BY <2>2
    <3>2. PICK s, x, free : DrainAsks(op, s, x, free)
      BY <3>1
    <3> DEFINE r == [op |-> op, session |-> s, text |-> x]
    <3>3. /\ pc' = [pc EXCEPT ![Drain] = "slot"] /\ req' = [req EXCEPT ![Drain] = r]
          /\ r.op \in {"resume", "send"}
      BY <3>2 DEF DrainAsks
    <3> QED BY <3>3
  <2> QED BY <1>3, <2>1, <2>2
<1>5. MovesOnly(Drain) /\ ~ Adding(Drain)'
  BY <1>1, <1>2, <1>4 DEF MovesOnly, Adding, TypeInv, TypeOK, TaskOK
<1> QED BY <1>1, <1>5, QuietStepAllowed

\* A turn ends without a lock, on a session that works or on one without an agent.
LEMMA TurnEndsAllowed ==
    ASSUME PhaseInv, PhaseInv', NEW s \in Sessions, TurnEnds(s)
    PROVE  [Pool!Next]_PhaseOf
<1> USE DEF PhaseInv, LockInv
<1>1. /\ engineTurn[s] # "none" /\ UNCHANGED <<live, records, born>>
      /\ state' = IF s \in records THEN [state EXCEPT ![s] = "idle"] ELSE state
  BY DEF TurnEnds
<1>2. ASSUME NEW z
      PROVE  SameAdds(z)
  <2>1. ASSUME NEW u \in Tasks
        PROVE  (Adding(u) /\ req[u].session = z)' = (Adding(u) /\ req[u].session = z)
    <3>1. /\ req'[u] = req[u]
          /\ \/ pc'[u] = pc[u]
             \/ pc[u] \in {"off", "turn"} /\ pc'[u] \in {"scheduled", "woken"}
      BY TurnEndsMoves
    <3> QED BY <3>1 DEF Adding
  <2> QED BY <2>1 DEF SameAdds
<1>3. \A z \in Sessions \ {s} : Phase(z)' = Phase(z)
  BY <1>1, <1>2, SamePhase DEF TypeInv, TypeOK, PoolOK
<1>4. Phase(s)' = Phase(s) \/ Allowed(Phase(s), Phase(s)')
  <2>1. CASE s \notin live
    BY <1>1, <1>2, <2>1, SamePhase
  <2>2. CASE s \in live
    <3>1. Phase(s) = "working"
      BY <1>1, <2>2, PhaseIs DEF PoolInv, Session
    <3>2. Phase(s)' = "idle"
      BY <1>1, <2>2, NextPhase DEF Born, TypeInv, TypeOK, PoolOK
    <3> QED BY <3>1, <3>2 DEF Allowed
  <2> QED BY <2>1, <2>2
<1> QED BY <1>3, <1>4, OneMoves

-----------------------------------------------------------------------------
LEMMA NextAllowed ==
    ASSUME PhaseInv, PhaseInv', [Next]_vars
    PROVE  [Pool!Next]_PhaseOf
<1>1. CASE UNCHANGED vars
  BY <1>1 DEF vars, poolVars, PhaseOf, Unborn
<1>2. CASE \E t \in Clients : Request(t)
  BY <1>2, RequestAllowed
<1>3. ASSUME NEW t \in Tasks, TaskStep(t)
      PROVE  [Pool!Next]_PhaseOf
  BY <1>3, GrantedAllowed, EndingAllowed, ClosedAllowed, LaunchedAllowed, TurnAllowed,
     ReturnAllowed DEF TaskStep
<1>4. CASE DrainStep
  BY <1>4, DrainAllowed
<1>5. CASE \E s \in Sessions : TurnEnds(s)
  BY <1>5, TurnEndsAllowed
<1> QED BY <1>1, <1>2, <1>3, <1>4, <1>5 DEF Next

LEMMA InitAllowed == Init => Pool!Init
  BY DEF Init, Pool!Init, PhaseOf, Unborn

\* The coordinator implements the pool: a session starts only where there is room,
\* nothing but its own start decides what becomes of a starting session, and a
\* session that is gone stays gone.
THEOREM Implements == Spec => PoolSpec
<1>1. PhaseInv /\ PhaseInv' /\ [Next]_vars => [Pool!Next]_PhaseOf
  BY NextAllowed
<1>2. Spec => []PhaseInv
  BY LockInvariant, PoolInvariant, PTL DEF PhaseInv
<1> QED BY <1>1, <1>2, InitAllowed, PTL DEF Spec, PoolSpec, Pool!Spec

=============================================================================
