---------------------- MODULE SessionCoordinatorProofs ----------------------
(***************************************************************************)
(* Theorems about SessionCoordinator, for any sessions, clients, messages  *)
(* and cap: the types, the cap, and the two levels of locks.               *)
(*                                                                         *)
(* Neither TypeOK nor CapRespected is inductive.  A task writes the        *)
(* session of its request into records, live and waiting, so its request   *)
(* must be a real one wherever it does (Serving).  A task that has made    *)
(* room by an eviction activates its session without looking at the cap    *)
(* again, so the room must still be there (RoomIsKept); and what keeps it  *)
(* there is that only holders of the slot lock ever activate (SlotHolders).*)
(***************************************************************************)
EXTENDS SessionCoordinator, SequenceTheorems, FiniteSetTheorems, TLAPS

(***************************************************************************)
(* Sequences without repetition.                                           *)
(***************************************************************************)

\* Where an element of a sequence is removed, the sequence closes up: what was
\* behind it moves one place forward.
LEMMA RemoveAtProperties ==
    ASSUME NEW S, NEW q \in Seq(S), NEW i \in 1 .. Len(q)
    PROVE  /\ RemoveAt(q, i) \in Seq(S)
           /\ Len(RemoveAt(q, i)) = Len(q) - 1
           /\ \A j \in 1 .. Len(q) - 1 :
                 RemoveAt(q, i)[j] = IF j < i THEN q[j] ELSE q[j + 1]
<1> DEFINE front == SubSeq(q, 1, i - 1)
           back  == SubSeq(q, i + 1, Len(q))
<1>1. front \in Seq(S) /\ Len(front) = i - 1 /\ \A j \in 1 .. i - 1 : front[j] = q[j]
  BY LenProperties, SubSeqProperties
<1>2. back \in Seq(S) /\ Len(back) = Len(q) - i
      /\ \A j \in 1 .. Len(q) - i : back[j] = q[i + j]
  BY LenProperties, SubSeqProperties
<1> HIDE DEF front, back
<1>3. front \o back \in Seq(S) /\ Len(front \o back) = Len(q) - 1
  BY <1>1, <1>2, ConcatProperties, LenProperties
<1>4. ASSUME NEW j \in 1 .. Len(q) - 1
      PROVE  (front \o back)[j] = IF j < i THEN q[j] ELSE q[j + 1]
  BY <1>1, <1>2, ConcatProperties
<1> QED BY <1>3, <1>4 DEF RemoveAt, front, back

\* Taking a session off the waiting list keeps the others, each once.
LEMMA WithoutType ==
    ASSUME NEW S, NEW q \in Seq(S), IsInjective(q), NEW s
    PROVE  Without(q, s) \in Seq(S) /\ IsInjective(Without(q, s))
<1>1. CASE s \notin ToSet(q)
  BY <1>1 DEF Without
<1>2. CASE s \in ToSet(q)
  <2> DEFINE i == CHOOSE k \in DOMAIN q : q[k] = s
             r == RemoveAt(q, i)
  <2>1. i \in 1 .. Len(q)
    BY <1>2, LenProperties DEF ToSet
  <2>2. Without(q, s) = r
    BY <1>2 DEF Without
  <2> HIDE DEF i
  <2>3. r \in Seq(S) /\ Len(r) = Len(q) - 1
        /\ \A j \in 1 .. Len(q) - 1 : r[j] = IF j < i THEN q[j] ELSE q[j + 1]
    BY <2>1, RemoveAtProperties
  <2> HIDE DEF r
  <2>4. ASSUME NEW a \in DOMAIN r, NEW b \in DOMAIN r, r[a] = r[b]
        PROVE  a = b
    <3>1. /\ DOMAIN q = 1 .. Len(q) /\ Len(q) \in Nat
          /\ DOMAIN r = 1 .. Len(q) - 1
      BY <2>3, LenProperties
    <3>2. \A x, y \in 1 .. Len(q) : q[x] = q[y] => x = y
      BY <3>1 DEF IsInjective
    <3> DEFINE at(j) == IF j < i THEN j ELSE j + 1
    <3>3. q[at(a)] = q[at(b)] /\ at(a) \in 1 .. Len(q) /\ at(b) \in 1 .. Len(q)
      BY <2>1, <2>3, <2>4, <3>1
    <3>4. at(a) = at(b)
      BY <3>2, <3>3
    <3> QED BY <2>1, <3>1, <3>4
  <2> QED BY <2>2, <2>3, <2>4 DEF IsInjective
<1> QED BY <1>1, <1>2

\* Queueing a session again does not make it wait twice.
LEMMA EnqueuedType ==
    ASSUME NEW S, NEW q \in Seq(S), IsInjective(q), NEW s \in S
    PROVE  Enqueued(q, s) \in Seq(S) /\ IsInjective(Enqueued(q, s))
<1>1. CASE s \in ToSet(q)
  BY <1>1 DEF Enqueued
<1>2. CASE s \notin ToSet(q)
  <2>1. \A j \in 1 .. Len(q) : q[j] # s
    BY <1>2, LenProperties DEF ToSet
  <2>2. IsInjective(Append(q, s))
    BY <2>1, AppendProperties, LenProperties DEF IsInjective
  <2> QED BY <1>2, <2>2, AppendProperties DEF Enqueued
<1> QED BY <1>1, <1>2

\* Giving up a lock leaves the other tasks in the order they asked for it, and
\* takes it away from no other holder.
LEMMA ReleasedType ==
    ASSUME NEW S, NEW q \in Seq(S), NEW t
    PROVE  Released(t, q) \in Seq(S)
  BY HeadTailProperties DEF Released, Holds

LEMMA HoldsReleased ==
    ASSUME NEW t, NEW u, t # u, NEW q, Holds(u, q)
    PROVE  Holds(u, Released(t, q))
  BY DEF Released, Holds

\* A task that asks for a lock takes it away from no holder.
LEMMA HoldsAppend ==
    ASSUME NEW S, NEW q \in Seq(S), NEW t \in S, NEW u, Holds(u, q)
    PROVE  Holds(u, Append(q, t))
  BY AppendProperties, HeadTailProperties, LenProperties DEF Holds

(***************************************************************************)
(* The drain goes to the first record on a list that still exists.  That   *)
(* there is a first one is that the natural numbers are well-founded.      *)
(***************************************************************************)

LEMMA NatIsWellFounded ==
    \E R : IsWellFoundedOn(R, Nat) /\ \A i, j \in Nat : j < i => <<j, i>> \in R
<1>1. \A i, j \in Nat : j < i => <<j, i>> \in OpToRel(<, Nat)
  BY DEF OpToRel
<1> QED BY <1>1, NatLessThanWellFounded

LEMMA LeastNumber ==
    ASSUME NEW T \in SUBSET Nat, T # {}
    PROVE  \E i \in T : \A j \in T : i <= j
<1>1. PICK R : IsWellFoundedOn(R, Nat) /\ \A i, j \in Nat : j < i => <<j, i>> \in R
  BY NatIsWellFounded
<1>2. PICK i \in T : \A j \in T : ~ (<<j, i>> \in R)
  BY <1>1, WFMin
<1>3. ASSUME NEW j \in T
      PROVE  i <= j
  <2>1. ~ (<<j, i>> \in R)
    BY <1>2
  <2>2. ~ (j < i)
    BY <1>1, <2>1, j \in Nat, i \in Nat, Zenon
  <2> QED BY <2>2
<1> QED BY <1>3

LEMMA FirstLeftProperties ==
    ASSUME NEW q \in Seq(Sessions), \E i \in DOMAIN q : q[i] \in records
    PROVE  /\ FirstLeft(q) \in 1 .. Len(q)
           /\ q[FirstLeft(q)] \in records
           /\ \A j \in 1 .. FirstLeft(q) - 1 : q[j] \notin records
<1>1. DOMAIN q = 1 .. Len(q) /\ Len(q) \in Nat
  BY LenProperties
<1> DEFINE left == {i \in DOMAIN q : q[i] \in records}
<1>2. left \in SUBSET Nat /\ left # {}
  BY <1>1
<1>3. PICK i \in left : \A j \in left : i <= j
  BY <1>2, LeastNumber
<1>4. \A j \in 1 .. i - 1 : q[j] \notin records
  BY <1>1, <1>3
<1>5. /\ FirstLeft(q) \in DOMAIN q
      /\ q[FirstLeft(q)] \in records
      /\ \A j \in 1 .. FirstLeft(q) - 1 : q[j] \notin records
  BY <1>3, <1>4 DEF FirstLeft
<1> QED BY <1>1, <1>5

-----------------------------------------------------------------------------
(***************************************************************************)
(* Types.  The lemmas follow the operators that the actions share.         *)
(***************************************************************************)

\* A task that is in the middle of an action has the request it serves.
Serving ==
    \A t \in Tasks : pc[t] \notin {"idle", "off", "scheduled"} => req[t] \in Requests

TypeInv == TypeOK /\ Serving

LEMMA RequestFields ==
    ASSUME NEW r \in Requests
    PROVE  /\ r.op \in SlotOps \cup LockOps
           /\ r.session \in Sessions
           /\ r.text \in Texts \cup {None}
  BY DEF Requests

\* The drain is scheduled only where it was off.
LEMMA ScheduledType ==
    ASSUME NEW counters \in [Tasks -> Counters]
    PROVE  /\ Scheduled(counters) \in [Tasks -> Counters]
           /\ \A t \in Tasks :
                 \/ Scheduled(counters)[t] = counters[t]
                 \/ t = Drain /\ Scheduled(counters)[t] = "scheduled"
  BY DEF Scheduled, Counters, Tasks

LEMMA ReleaseAllType ==
    ASSUME TypeOK, NEW t, ReleaseAll(t)
    PROVE  LockOK'
  BY ReleasedType DEF TypeOK, LockOK, ReleaseAll

LEMMA TearDownType ==
    ASSUME TypeOK, NEW t \in Tasks, NEW z, TearDown(t, z)
    PROVE  PoolOK' /\ QueueOK' /\ pc' = [pc EXCEPT ![t] = "closing"]
<1>1. PoolOK' /\ pc' = [pc EXCEPT ![t] = "closing"]
  BY DEF TypeOK, PoolOK, TearDown
<1>2. QueueOK'
  BY WithoutType DEF TypeOK, QueueOK, TearDown
<1> QED BY <1>1, <1>2

LEMMA SettleType ==
    ASSUME TypeOK, NEW t \in Tasks, NEW z, Settle(t, z)
    PROVE  /\ PoolOK' /\ QueueOK' /\ TurnOK'
           /\ \E c \in {"settling", "closing"} : pc' = [pc EXCEPT ![t] = c]
<1>1. CASE z \notin turnHandle
  BY <1>1, TearDownType DEF Settle, TypeOK, TurnOK, turnVars
<1>2. CASE z \in turnHandle
  BY <1>2 DEF Settle, TypeOK, PoolOK, QueueOK, TurnOK, poolVars, queueVars
<1> QED BY <1>1, <1>2

LEMMA ActivateType ==
    ASSUME TypeOK, NEW t \in Tasks, req[t] \in Requests,
           NEW held \in [Sessions -> Seq(Tasks)],
           Activate(t, held) \/ Refuse(t, held)
    PROVE  /\ PoolOK' /\ QueueOK'
           /\ lock' \in [Sessions -> Seq(Tasks)]
           /\ \E c \in {"launching", "raise"} : pc' = [pc EXCEPT ![t] = c]
<1>1. req[t].session \in Sessions
  BY RequestFields
<1>2. CASE Activate(t, held)
  <2>1. <<t>> \in Seq(Tasks)
    OBVIOUS
  <2>2. PoolOK' /\ lock' \in [Sessions -> Seq(Tasks)]
    BY <1>1, <1>2, <2>1 DEF TypeOK, PoolOK, Activate, WithNew, Entered
  <2>3. QueueOK'
    BY <1>1, <1>2, WithoutType DEF TypeOK, QueueOK, Activate
  <2> QED BY <1>2, <2>2, <2>3 DEF Activate
<1>3. CASE Refuse(t, held)
  BY <1>3 DEF Refuse, TypeOK, PoolOK, QueueOK, poolVars, queueVars
<1> QED BY <1>2, <1>3

LEMMA EnsureSlotType ==
    ASSUME TypeOK, NEW t \in Tasks, req[t] \in Requests, EnsureSlot(t)
    PROVE  /\ PoolOK' /\ QueueOK' /\ TurnOK'
           /\ lock' \in [Sessions -> Seq(Tasks)]
           /\ victim' \in [Tasks -> Sessions \cup {None}]
           /\ \E c \in {"launching", "raise", "evicting", "ret"} :
                 pc' = [pc EXCEPT ![t] = c]
<1>1. TurnOK'
  BY DEF EnsureSlot, TypeOK, TurnOK, turnVars
<1>2. CASE (Activate(t, lock) \/ Refuse(t, lock)) /\ UNCHANGED victim
  BY <1>1, <1>2, ActivateType DEF TypeOK, LockOK, TaskOK
<1>3. CASE \E v \in Candidates : Evict(t, v)
  <2> PICK v \in Candidates : Evict(t, v)
    BY <1>3
  <2>1. v \in Sessions
    BY DEF Candidates, TypeOK, PoolOK
  <2>2. lock' \in [Sessions -> Seq(Tasks)]
    BY <2>1, AppendProperties DEF Evict, TypeOK, LockOK
  <2> QED BY <1>1, <2>1, <2>2
        DEF Evict, TypeOK, PoolOK, QueueOK, TaskOK, poolVars, queueVars
<1>4. CASE Enqueue(t) /\ UNCHANGED victim
  <2>1. req[t].session \in Sessions /\ req[t].text \in Texts \cup {None}
    BY RequestFields
  <2>2. PoolOK'
    BY <1>4, <2>1 DEF Enqueue, TypeOK, PoolOK, WithNew
  <2>3. QueueOK'
    BY <1>4, <2>1, EnqueuedType DEF Enqueue, TypeOK, QueueOK
  <2> QED BY <1>1, <1>4, <2>2, <2>3 DEF Enqueue, TypeOK, LockOK, TaskOK
<1> QED BY <1>2, <1>3, <1>4 DEF EnsureSlot

\* A step that moves only task t, or moves it and schedules the drain, and
\* leaves every request as it is, keeps Serving.
LEMMA ServingKept ==
    ASSUME TypeInv, NEW t \in Tasks, NEW c, c \in Counters,
           pc[t] \notin {"idle", "off", "scheduled"}, UNCHANGED req,
           \/ pc' = [pc EXCEPT ![t] = c]
           \/ pc' = Scheduled([pc EXCEPT ![t] = c])
    PROVE  Serving' /\ pc' \in [Tasks -> Counters]
<1>1. [pc EXCEPT ![t] = c] \in [Tasks -> Counters]
  BY DEF TypeInv, TypeOK, TaskOK
<1>2. pc' \in [Tasks -> Counters]
  BY <1>1, ScheduledType
<1>3. ASSUME NEW u \in Tasks, pc'[u] \notin {"idle", "off", "scheduled"}
      PROVE  pc[u] \notin {"idle", "off", "scheduled"}
  BY <1>1, <1>3, ScheduledType DEF TypeInv, TypeOK, TaskOK
<1> QED BY <1>2, <1>3 DEF TypeInv, Serving

LEMMA RequestTypeInv ==
    ASSUME TypeInv, NEW t \in Clients, Request(t)
    PROVE  TypeInv'
<1> USE DEF TypeInv
<1>1. t \in Tasks
  BY DEF Tasks
<1>2. PICK s \in Sessions :
        \/ RequestAdd(t, s)
        \/ \E op \in Ops, x \in Texts \cup {None} : RequestSlot(t, op, s, x)
        \/ \E op \in Ops : RequestLock(t, op, s)
  BY DEF Request
<1>3. \E op \in SlotOps \cup LockOps, x \in Texts \cup {None} : Accept(t, op, s, x)
  BY <1>2, OpsAssumption DEF RequestAdd, RequestSlot, RequestLock, SlotOps
<1>4. /\ req' \in [Tasks -> Requests \cup {NoRequest}]
      /\ req'[t] \in Requests
      /\ \A u \in Tasks : u # t => req'[u] = req[u]
  BY <1>1, <1>3 DEF Accept, Requests, TypeOK, TaskOK
<1>5. pc' = [pc EXCEPT ![t] = "slot"] \/ pc' = [pc EXCEPT ![t] = "lock"]
  BY <1>2 DEF RequestAdd, RequestSlot, RequestLock
<1>6. PoolOK' /\ QueueOK' /\ TurnOK'
  BY <1>2 DEF RequestAdd, RequestSlot, RequestLock, Accept, TypeOK, PoolOK,
              QueueOK, TurnOK, queueVars, turnVars
<1>7. LockOK'
  <2>1. /\ Append(slotLock, t) \in Seq(Tasks)
        /\ Append(lock[s], t) \in Seq(Tasks)
    BY <1>1, AppendProperties DEF TypeOK, LockOK
  <2>2. \/ slotLock' = Append(slotLock, t) /\ UNCHANGED lock
        \/ lock' = [lock EXCEPT ![s] = Append(@, t)] /\ UNCHANGED slotLock
    BY <1>2 DEF RequestAdd, RequestSlot, RequestLock
  <2> QED BY <2>1, <2>2 DEF TypeOK, LockOK
<1>8. TaskOK'
  BY <1>1, <1>3, <1>4, <1>5 DEF Accept, TypeOK, TaskOK, Counters
<1>9. Serving'
  BY <1>1, <1>4, <1>5 DEF Serving, TypeOK, TaskOK
<1> QED BY <1>6, <1>7, <1>8, <1>9 DEF TypeOK

LEMMA SlotGrantedTypeInv ==
    ASSUME TypeInv, NEW t \in Tasks, SlotGranted(t)
    PROVE  TypeInv'
<1> USE DEF TypeInv
<1> DEFINE s == req[t].session
<1>1. req[t] \in Requests /\ s \in Sessions
  BY RequestFields DEF SlotGranted, Serving
<1>2. slotLock' = slotLock /\ req' = req /\ todo' = todo
  BY DEF SlotGranted
<1>3. CASE EnsureSlot(t)
  BY <1>1, <1>2, <1>3, EnsureSlotType, ServingKept
     DEF SlotGranted, TypeOK, LockOK, TaskOK, Counters
<1>4. CASE /\ lock' = [lock EXCEPT ![s] = Append(@, t)]
           /\ pc' = [pc EXCEPT ![t] = "lock"]
           /\ UNCHANGED <<poolVars, queueVars, turnVars, victim>>
  <2>1. LockOK'
    BY <1>1, <1>2, <1>4, AppendProperties DEF TypeOK, LockOK
  <2>2. Serving' /\ pc' \in [Tasks -> Counters]
    BY <1>2, <1>4, ServingKept DEF SlotGranted, Counters
  <2> QED BY <1>2, <1>4, <2>1, <2>2
      DEF TypeOK, PoolOK, QueueOK, TurnOK, TaskOK, poolVars, queueVars, turnVars
<1>5. CASE /\ pc' = [pc EXCEPT ![t] = "raise"]
           /\ UNCHANGED <<poolVars, queueVars, turnVars, lock, victim>>
  <2>1. Serving' /\ pc' \in [Tasks -> Counters]
    BY <1>2, <1>5, ServingKept DEF SlotGranted, Counters
  <2> QED BY <1>2, <1>5, <2>1
      DEF TypeOK, PoolOK, QueueOK, TurnOK, LockOK, TaskOK, poolVars, queueVars,
          turnVars
<1> QED BY <1>3, <1>4, <1>5 DEF SlotGranted

LEMMA LockGrantedTypeInv ==
    ASSUME TypeInv, NEW t \in Tasks, LockGranted(t)
    PROVE  TypeInv'
<1> USE DEF TypeInv
<1> DEFINE s == req[t].session
<1>1. req[t] \in Requests /\ s \in Sessions
  BY RequestFields DEF LockGranted, Serving
<1>2. slotLock' = slotLock /\ req' = req /\ todo' = todo
  BY DEF LockGranted
<1>3. CASE EnsureSlot(t)
  BY <1>1, <1>2, <1>3, EnsureSlotType, ServingKept
     DEF LockGranted, TypeOK, LockOK, TaskOK, Counters
<1>4. CASE Stop(t, s)
  <2>1. PoolOK' /\ QueueOK' /\ TurnOK'
        /\ \E c \in {"settling", "closing"} : pc' = [pc EXCEPT ![t] = c]
    BY <1>1, <1>4, SettleType DEF Stop
  <2>2. Serving' /\ pc' \in [Tasks -> Counters]
    BY <1>2, <2>1, ServingKept DEF LockGranted, Counters
  <2> QED BY <1>2, <1>4, <2>1, <2>2 DEF Stop, TypeOK, LockOK, TaskOK
<1>5. CASE /\ \E c \in Counters : pc' = [pc EXCEPT ![t] = c]
           /\ waiting' \in {waiting, Without(waiting, s)}
           /\ UNCHANGED <<poolVars, queuedText, turnVars, lock, victim>>
  <2>1. Serving' /\ pc' \in [Tasks -> Counters]
    BY <1>2, <1>5, ServingKept DEF LockGranted
  <2>2. QueueOK'
    BY <1>5, WithoutType DEF TypeOK, QueueOK
  <2> QED BY <1>2, <1>5, <2>1, <2>2
      DEF TypeOK, PoolOK, TurnOK, LockOK, TaskOK, poolVars, turnVars
<1>6. CASE Send(t, s) /\ ~EnsureSlot(t)
  BY <1>5, <1>6 DEF Send, StartTurn, Counters, queueVars
<1>7. CASE Resume(t, s) /\ ~EnsureSlot(t)
  BY <1>5, <1>7 DEF Resume, Counters
<1>8. CASE Revert(t, s) /\ ~Stop(t, s)
  BY <1>5, <1>8 DEF Revert, Counters, queueVars
<1>9. CASE Cancel(t, s)
  BY <1>5, <1>9 DEF Cancel, Counters, queueVars
<1>10. CASE /\ pc' = [pc EXCEPT ![t] = "raise"]
            /\ UNCHANGED <<poolVars, queueVars, turnVars, lock, victim>>
  BY <1>5, <1>10 DEF Counters, queueVars
<1> QED BY <1>3, <1>4, <1>6, <1>7, <1>8, <1>9, <1>10 DEF LockGranted

LEMMA VictimLockedTypeInv ==
    ASSUME TypeInv, NEW t \in Tasks, VictimLocked(t)
    PROVE  TypeInv'
<1> USE DEF TypeInv
<1>1. UNCHANGED <<lockVars, req, victim, todo>>
  BY DEF VictimLocked
<1>2. CASE Settle(t, victim[t])
  <2>1. PoolOK' /\ QueueOK' /\ TurnOK'
        /\ \E c \in {"settling", "closing"} : pc' = [pc EXCEPT ![t] = c]
    BY <1>2, SettleType
  <2>2. Serving' /\ pc' \in [Tasks -> Counters]
    BY <1>1, <2>1, ServingKept DEF VictimLocked, Counters
  <2> QED BY <1>1, <2>1, <2>2 DEF TypeOK, LockOK, TaskOK, lockVars
<1>3. CASE /\ pc' = [pc EXCEPT ![t] = "raise"]
           /\ UNCHANGED <<poolVars, queueVars, turnVars>>
  <2>1. Serving' /\ pc' \in [Tasks -> Counters]
    BY <1>1, <1>3, ServingKept DEF VictimLocked, Counters
  <2> QED BY <1>1, <1>3, <2>1 DEF TypeOK, PoolOK, QueueOK, TurnOK, LockOK, TaskOK,
                                  poolVars, queueVars, turnVars, lockVars
<1> QED BY <1>2, <1>3 DEF VictimLocked

LEMMA SettledTypeInv ==
    ASSUME TypeInv, NEW t \in Tasks, Settled(t)
    PROVE  TypeInv'
<1> USE DEF TypeInv
<1>1. PoolOK' /\ QueueOK' /\ pc' = [pc EXCEPT ![t] = "closing"]
  BY TearDownType DEF Settled
<1>2. Serving' /\ pc' \in [Tasks -> Counters]
  BY <1>1, ServingKept DEF Settled, Counters
<1> QED BY <1>1, <1>2 DEF Settled, TypeOK, TurnOK, LockOK, TaskOK, turnVars, lockVars

LEMMA ClosedTypeInv ==
    ASSUME TypeInv, NEW t \in Tasks, Closed(t)
    PROVE  TypeInv'
<1> USE DEF TypeInv
<1>1. UNCHANGED <<turnVars, slotLock, req, todo>> /\ pc[t] = "closing"
  BY DEF Closed
<1>2. CASE victim[t] = None
  <2>1. pc' = [pc EXCEPT ![t] = "ret"] /\ UNCHANGED <<poolVars, queueVars, lock, victim>>
    BY <1>2 DEF Closed
  <2>2. Serving' /\ pc' \in [Tasks -> Counters]
    BY <1>1, <2>1, ServingKept DEF Counters
  <2> QED BY <1>1, <2>1, <2>2 DEF TypeOK, PoolOK, QueueOK, TurnOK, LockOK, TaskOK,
                                  poolVars, queueVars, turnVars
<1>3. CASE victim[t] # None
  <2> DEFINE held == [lock EXCEPT ![victim[t]] = Released(t, @)]
  <2>1. victim[t] \in Sessions
    BY <1>3 DEF TypeOK, TaskOK
  <2>2. held \in [Sessions -> Seq(Tasks)]
    BY <2>1, ReleasedType DEF TypeOK, LockOK
  <2>3. victim' = [victim EXCEPT ![t] = None]
    BY <1>3 DEF Closed
  <2>4. Activate(t, held) \/ Refuse(t, held)
    BY <1>3 DEF Closed
  <2>5. req[t] \in Requests
    BY <1>1 DEF Serving
  <2> HIDE DEF held
  <2>6. /\ PoolOK' /\ QueueOK' /\ lock' \in [Sessions -> Seq(Tasks)]
        /\ \E c \in {"launching", "raise"} : pc' = [pc EXCEPT ![t] = c]
    BY <2>2, <2>4, <2>5, ActivateType
  <2>7. Serving' /\ pc' \in [Tasks -> Counters]
    BY <1>1, <2>6, ServingKept DEF Counters
  <2> QED BY <1>1, <2>3, <2>6, <2>7 DEF TypeOK, TurnOK, LockOK, TaskOK, turnVars
<1> QED BY <1>2, <1>3

LEMMA LaunchedTypeInv ==
    ASSUME TypeInv, NEW t \in Tasks, Launched(t)
    PROVE  TypeInv'
<1> USE DEF TypeInv
<1>1. /\ UNCHANGED <<born, queueVars, turnVars, lockVars, req, victim, todo>>
      /\ pc[t] = "launching"
  BY DEF Launched, LaunchOk, LaunchFails
<1>2. PoolOK'
  BY DEF Launched, LaunchOk, LaunchFails, TypeOK, PoolOK
<1>3. Serving' /\ pc' \in [Tasks -> Counters]
  BY <1>1, ServingKept DEF Launched, LaunchOk, LaunchFails, Counters
<1> QED BY <1>1, <1>2, <1>3
    DEF TypeOK, QueueOK, TurnOK, LockOK, TaskOK, queueVars, turnVars, lockVars

LEMMA TurnTypeInv ==
    ASSUME TypeInv, NEW t \in Tasks, Ready(t) \/ Told(t) \/ FirstStep(t)
    PROVE  TypeInv'
<1> USE DEF TypeInv
<1>1. UNCHANGED <<queueVars, req, victim, todo>>
  BY DEF Ready, Told, FirstStep
<1>2. PoolOK' /\ TurnOK'
  <2>1. CASE Ready(t) \/ Told(t)
    BY <2>1 DEF Ready, Told, TypeOK, PoolOK, TurnOK, poolVars, turnVars
  <2>2. CASE FirstStep(t)
    <3>1. req[t].session \in Sessions
      BY <2>2, RequestFields DEF FirstStep, Serving
    <3> QED BY <2>2, <3>1 DEF FirstStep, TypeOK, PoolOK, TurnOK, poolVars, turnVars
  <2> QED BY <2>1, <2>2
<1>3. LockOK'
  BY ReleaseAllType
     DEF Ready, Told, FirstStep, GiveUpLocks, TypeOK, LockOK, lockVars
<1>4. Serving' /\ pc' \in [Tasks -> Counters]
  BY <1>1, ServingKept DEF Ready, Told, FirstStep, StartTurn, Counters
<1> QED BY <1>1, <1>2, <1>3, <1>4 DEF TypeOK, QueueOK, TaskOK, queueVars

LEMMA ReturnTypeInv ==
    ASSUME TypeInv, NEW t \in Tasks, Return(t)
    PROVE  TypeInv'
<1> USE DEF TypeInv
<1>1. LockOK'
  BY ReleaseAllType DEF Return
<1>2. TaskOK' /\ Serving'
  BY DEF Return, TypeOK, TaskOK, Serving, Counters
<1> QED BY <1>1, <1>2 DEF Return, TypeOK, PoolOK, QueueOK, TurnOK, poolVars,
                          queueVars, turnVars

LEMMA TurnEndsTypeInv ==
    ASSUME TypeInv, NEW s \in Sessions, TurnEnds(s)
    PROVE  TypeInv'
<1> USE DEF TypeInv
<1> DEFINE woken == [t \in Tasks |->
                IF pc[t] = "turn" /\ req[t].session = s THEN "woken" ELSE pc[t]]
<1>1. woken \in [Tasks -> Counters] /\ pc' = Scheduled(woken) /\ req' = req
  BY DEF TurnEnds, TypeOK, TaskOK, Counters
<1>2. \A t \in Tasks : woken[t] \in {"woken", pc[t]} /\ (woken[t] = "woken" => pc[t] \in {"turn", "woken"})
  OBVIOUS
<1> HIDE DEF woken
<1>3. pc' \in [Tasks -> Counters] /\ Serving'
  BY <1>1, <1>2, ScheduledType DEF Serving
<1> QED BY <1>3 DEF TurnEnds, TypeOK, PoolOK, QueueOK, TurnOK, LockOK, TaskOK,
                    queueVars, lockVars

\* The drain asks for its next record, or it is over: either way its request
\* fits its place, and nobody else's changes.
LEMMA DrainAsksType ==
    ASSUME TypeInv, NEW op \in {"send", "resume"}, NEW s \in Sessions,
           NEW x \in Texts \cup {None}, NEW free \in Seq(Tasks),
           DrainAsks(op, s, x, free)
    PROVE  /\ slotLock' \in Seq(Tasks)
           /\ pc' \in [Tasks -> Counters]
           /\ req' \in [Tasks -> Requests \cup {NoRequest}]
           /\ Serving'
<1> USE DEF TypeInv
<1>1. Drain \in Tasks
  BY DEF Tasks
<1>2. slotLock' \in Seq(Tasks)
  BY <1>1, AppendProperties DEF DrainAsks
<1>3. [op |-> op, session |-> s, text |-> x] \in Requests
  BY DEF Requests, SlotOps
<1> QED BY <1>1, <1>2, <1>3 DEF DrainAsks, TypeOK, TaskOK, Serving, Counters

LEMMA DrainNextType ==
    ASSUME TypeInv, NEW q \in Seq(Sessions), NEW free \in Seq(Tasks),
           DrainNext(q, free)
    PROVE  /\ slotLock' \in Seq(Tasks)
           /\ pc' \in [Tasks -> Counters]
           /\ req' \in [Tasks -> Requests \cup {NoRequest}]
           /\ todo' \in Seq(Sessions)
           /\ Serving'
<1>1. CASE \E i \in DOMAIN q : q[i] \in records
  <2> DEFINE first == FirstLeft(q)
  <2>1. first \in 1 .. Len(q) /\ Len(q) \in Nat /\ q[first] \in Sessions
    BY <1>1, FirstLeftProperties, LenProperties, ElementOfSeq
  <2>2. DrainAsks("resume", q[first], None, free)
        /\ todo' = SubSeq(q, first + 1, Len(q))
    BY <1>1 DEF DrainNext
  <2> HIDE DEF first
  <2>3. todo' \in Seq(Sessions)
    BY <2>1, <2>2, SubSeqProperties, ElementOfSeq
  <2> QED BY <2>1, <2>2, <2>3, DrainAsksType
<1>2. CASE ~ \E i \in DOMAIN q : q[i] \in records
  BY <1>2 DEF DrainNext, DrainOver, TypeInv, TypeOK, TaskOK, Serving, Counters, Tasks
<1> QED BY <1>1, <1>2

LEMMA DrainStartTypeInv ==
    ASSUME TypeInv, DrainStart
    PROVE  TypeInv'
<1>1. /\ slotLock' \in Seq(Tasks)
      /\ pc' \in [Tasks -> Counters]
      /\ req' \in [Tasks -> Requests \cup {NoRequest}]
      /\ todo' \in Seq(Sessions)
      /\ Serving'
  BY DrainNextType DEF DrainStart, TypeInv, TypeOK, QueueOK, LockOK
<1> QED BY <1>1 DEF DrainStart, TypeInv, TypeOK, PoolOK, QueueOK, TurnOK, LockOK,
                    TaskOK, poolVars, queueVars, turnVars

LEMMA DrainReturnsTypeInv ==
    ASSUME TypeInv, DrainReturns
    PROVE  TypeInv'
<1> USE DEF TypeInv
<1> DEFINE s == req[Drain].session
           free == Released(Drain, slotLock)
<1>1. Drain \in Tasks
  BY DEF Tasks
<1>2. s \in Sessions
  BY <1>1, RequestFields DEF DrainReturns, Serving
<1>3. free \in Seq(Tasks) /\ lock' \in [Sessions -> Seq(Tasks)]
  BY ReleasedType DEF DrainReturns, TypeOK, LockOK
<1>4. victim' \in [Tasks -> Sessions \cup {None}]
  BY DEF DrainReturns, TypeOK, TaskOK
<1>5. QueueOK'
  BY DEF DrainReturns, TypeOK, QueueOK
<1> HIDE DEF free
<1>6. /\ slotLock' \in Seq(Tasks)
      /\ pc' \in [Tasks -> Counters]
      /\ req' \in [Tasks -> Requests \cup {NoRequest}]
      /\ todo' \in Seq(Sessions)
      /\ Serving'
  <2>1. CASE DrainOver(free)
    BY <1>1, <1>3, <2>1 DEF DrainOver, TypeOK, TaskOK, Serving, Counters
  <2>2. CASE DrainAsks("send", s, queuedText[s], free) /\ UNCHANGED todo
    <3>1. queuedText[s] \in Texts \cup {None}
      BY <1>2 DEF TypeOK, QueueOK
    <3> QED BY <1>2, <1>3, <2>2, <3>1, DrainAsksType DEF TypeOK, TaskOK
  <2>3. CASE DrainNext(todo, free)
    BY <1>3, <2>3, DrainNextType DEF TypeOK, TaskOK
  <2> QED BY <2>1, <2>2, <2>3 DEF DrainReturns, free
<1> QED BY <1>3, <1>4, <1>5, <1>6
    DEF DrainReturns, TypeOK, PoolOK, TurnOK, LockOK, TaskOK, poolVars, turnVars

LEMMA DrainCatchesTypeInv ==
    ASSUME TypeInv, DrainCatches
    PROVE  TypeInv'
<1> USE DEF TypeInv
<1>1. Released(Drain, slotLock) \in Seq(Tasks) /\ lock' \in [Sessions -> Seq(Tasks)]
  BY ReleasedType DEF DrainCatches, TypeOK, LockOK
<1>2. victim' \in [Tasks -> Sessions \cup {None}]
  BY DEF DrainCatches, TypeOK, TaskOK
<1>3. QueueOK'
  BY WithoutType DEF DrainCatches, TypeOK, QueueOK
<1>4. /\ slotLock' \in Seq(Tasks)
      /\ pc' \in [Tasks -> Counters]
      /\ req' \in [Tasks -> Requests \cup {NoRequest}]
      /\ todo' \in Seq(Sessions)
      /\ Serving'
  BY <1>1, DrainNextType DEF DrainCatches, TypeOK, TaskOK
<1> QED BY <1>1, <1>2, <1>3, <1>4
    DEF DrainCatches, TypeOK, PoolOK, TurnOK, LockOK, TaskOK, poolVars, turnVars

LEMMA InitTypeInv == Init => TypeInv
<1> SUFFICES ASSUME Init
             PROVE  TypeInv
  OBVIOUS
<1>1. <<>> \in Seq(Sessions) /\ <<>> \in Seq(Tasks) /\ IsInjective(<<>>)
  BY EmptySeq DEF IsInjective
<1> QED BY <1>1 DEF Init, TypeInv, TypeOK, PoolOK, QueueOK, TurnOK, LockOK, TaskOK,
                    Serving, Counters

LEMMA NextTypeInv ==
    ASSUME TypeInv, [Next]_vars
    PROVE  TypeInv'
<1>1. CASE UNCHANGED vars
  BY <1>1 DEF vars, poolVars, queueVars, turnVars, lockVars, TypeInv, TypeOK, PoolOK,
              QueueOK, TurnOK, LockOK, TaskOK, Serving
<1>2. CASE \E t \in Clients : Request(t)
  BY <1>2, RequestTypeInv
<1>3. ASSUME NEW t \in Tasks, TaskStep(t)
      PROVE  TypeInv'
  BY <1>3, SlotGrantedTypeInv, LockGrantedTypeInv, VictimLockedTypeInv, SettledTypeInv,
     ClosedTypeInv, LaunchedTypeInv, TurnTypeInv, ReturnTypeInv DEF TaskStep
<1>4. CASE DrainStep
  BY <1>4, DrainStartTypeInv, DrainReturnsTypeInv, DrainCatchesTypeInv DEF DrainStep
<1>5. CASE \E s \in Sessions : TurnEnds(s)
  BY <1>5, TurnEndsTypeInv
<1> QED BY <1>1, <1>2, <1>3, <1>4, <1>5 DEF Next

LEMMA TypeInvariant == Spec => []TypeInv
  BY InitTypeInv, NextTypeInv, PTL DEF Spec

\* Every variable keeps its type; above all, no session ever waits for a slot
\* twice, however often it is asked for.
THEOREM TypeCorrect == Spec => []TypeOK
<1>1. TypeInv => TypeOK
  BY DEF TypeInv
<1> QED BY <1>1, TypeInvariant, PTL

-----------------------------------------------------------------------------
(***************************************************************************)
(* The cap.  CapInv is the inductive invariant: RoomOf says of one task    *)
(* what the slot lock and an eviction in progress promise it.              *)
(***************************************************************************)

\* Between _ensure_slot and the activation, and with the session lock asked
\* for on the way there, a task is the holder of the slot lock.
UsesSlot(t) == MakesRoom(t) \/ (pc[t] = "lock" /\ req[t].op \in SlotOps)

Left(t) == IF pc[t] = "closing" THEN live ELSE live \ {victim[t]}

RoomOf(t) ==
    /\ pc[t] = "evicting" => victim[t] # None
    /\ victim[t] # None => pc[t] \in {"evicting", "settling", "closing", "raise"}
    /\ UsesSlot(t) => Holds(t, slotLock)
    /\ MakesRoom(t) /\ Limit > 0 => Cardinality(Left(t)) < Limit

CapInv == CapRespected /\ \A t \in Tasks : RoomOf(t)

\* A step of task t: the others stay where they are, but for a drain that is
\* scheduled and for sends whose turn is over.
MovesOnly(t) ==
    \A u \in Tasks \ {t} :
        /\ victim'[u] = victim[u] /\ req'[u] = req[u]
        /\ \/ pc'[u] = pc[u]
           \/ pc[u] \in {"off", "turn"} /\ pc'[u] \in {"scheduled", "woken"}

TakesNoSlotFrom(t) ==
    \A u \in Tasks \ {t} : Holds(u, slotLock) => Holds(u, slotLock')

LEMMA LiveFinite ==
    ASSUME TypeInv, NEW S \in SUBSET live
    PROVE  /\ IsFiniteSet(S) /\ Cardinality(S) \in Nat
           /\ IsFiniteSet(live) /\ Cardinality(live) \in Nat
           /\ Cardinality(S) <= Cardinality(live)
<1>1. IsFiniteSet(live)
  BY LimitAssumption, FS_Subset DEF TypeInv, TypeOK, PoolOK
<1> QED BY <1>1, FS_Subset, FS_CardinalityType

\* The room one task has made outlives the step of another: either that step
\* makes no session live, or the task that takes it holds the slot lock, and
\* then no other task is making room.
LEMMA RoomOfOthers ==
    ASSUME TypeInv, CapInv, NEW t \in Tasks, MovesOnly(t), TakesNoSlotFrom(t),
           live' \subseteq live \/ Holds(t, slotLock),
           NEW u \in Tasks, u # t
    PROVE  RoomOf(u)'
<1>1. victim'[u] = victim[u] /\ req'[u] = req[u]
  BY DEF MovesOnly
<1>2. RoomOf(u)
  BY DEF CapInv
<1>3. CASE pc'[u] # pc[u]
  <2>1. pc[u] \in {"off", "turn"} /\ pc'[u] \in {"scheduled", "woken"}
    BY <1>3 DEF MovesOnly
  <2> QED BY <1>1, <1>2, <2>1 DEF RoomOf, UsesSlot, MakesRoom
<1>4. CASE pc'[u] = pc[u]
  <2>1. MakesRoom(u)' = MakesRoom(u) /\ UsesSlot(u)' = UsesSlot(u)
    BY <1>1, <1>4 DEF MakesRoom, UsesSlot
  <2>2. UsesSlot(u) => Holds(u, slotLock')
    BY <1>2 DEF RoomOf, TakesNoSlotFrom
  <2>3. ASSUME MakesRoom(u), Limit > 0
        PROVE  Cardinality(Left(u)') < Limit
    <3>1. Holds(u, slotLock)
      BY <1>2, <2>3 DEF RoomOf, UsesSlot
    <3>2. live' \subseteq live
      BY <3>1 DEF Holds
    <3>3. Left(u)' \subseteq Left(u) /\ Left(u) \subseteq live
      BY <1>1, <1>4, <3>2 DEF Left
    <3>4. Cardinality(Left(u)') <= Cardinality(Left(u))
          /\ Cardinality(Left(u)') \in Nat /\ Cardinality(Left(u)) \in Nat
      BY <3>3, LiveFinite, FS_Subset, FS_CardinalityType
    <3>5. Cardinality(Left(u)) < Limit
      BY <1>2, <2>3 DEF RoomOf
    <3> QED BY <3>4, <3>5, LimitAssumption
  <2> QED BY <1>1, <1>2, <1>4, <2>1, <2>2, <2>3 DEF RoomOf
<1> QED BY <1>3, <1>4

\* What a step of task t has to show: it takes nothing from the others, and
\* it leaves the cap and its own room as they must be.
LEMMA StepKeepsCap ==
    ASSUME TypeInv, CapInv, NEW t \in Tasks, MovesOnly(t), TakesNoSlotFrom(t),
           live' \subseteq live \/ (Holds(t, slotLock) /\ CapRespected'),
           RoomOf(t)'
    PROVE  CapInv'
<1>1. \A u \in Tasks : RoomOf(u)'
  BY RoomOfOthers
<1>2. CASE live' \subseteq live
  <2>1. Cardinality(live') \in Nat /\ Cardinality(live) \in Nat
        /\ Cardinality(live') <= Cardinality(live)
    BY <1>2, LiveFinite
  <2> QED BY <1>1, <2>1, LimitAssumption DEF CapInv, CapRespected
<1> QED BY <1>1, <1>2 DEF CapInv

\* A step that only moves its own task moves nobody else, whether or not it
\* schedules the drain.
LEMMA OwnStep ==
    ASSUME TypeInv, NEW t \in Tasks, NEW c \in Counters, UNCHANGED req,
           \A u \in Tasks \ {t} : victim'[u] = victim[u],
           \/ pc' = [pc EXCEPT ![t] = c]
           \/ pc' = Scheduled([pc EXCEPT ![t] = c])
    PROVE  /\ MovesOnly(t)
           /\ pc'[t] = c \/ (t = Drain /\ pc'[t] = "scheduled")
<1> DEFINE moved == [pc EXCEPT ![t] = c]
<1>1. moved \in [Tasks -> Counters] /\ moved[t] = c
      /\ \A u \in Tasks \ {t} : moved[u] = pc[u]
  BY DEF TypeInv, TypeOK, TaskOK
<1> HIDE DEF moved
<1>2. CASE pc' = moved
  BY <1>1, <1>2 DEF MovesOnly
<1>3. CASE pc' = Scheduled(moved)
  <2>1. \A u \in Tasks : pc'[u] = moved[u]
          \/ (u = Drain /\ moved[u] = "off" /\ pc'[u] = "scheduled")
    BY <1>1, <1>3 DEF Scheduled
  <2> QED BY <1>1, <2>1 DEF MovesOnly
<1> QED BY <1>2, <1>3 DEF moved

\* A task that makes no room, and is not on its way to the lock of its session
\* with the slot lock in hand, is promised nothing.
LEMMA NoRoomNeeded ==
    ASSUME NEW t \in Tasks, victim'[t] = None, pc'[t] # "evicting",
           pc'[t] # "lock" \/ req'[t].op \notin SlotOps
    PROVE  RoomOf(t)'
  BY DEF RoomOf, UsesSlot, MakesRoom

LEMMA VictimOf ==
    ASSUME TypeInv, CapInv, NEW t \in Tasks
    PROVE  /\ RoomOf(t)
           /\ victim[t] \in Sessions \cup {None}
           /\ pc[t] \notin {"evicting", "settling", "closing", "raise"} => victim[t] = None
           /\ MakesRoom(t) => Holds(t, slotLock)
  BY DEF CapInv, RoomOf, UsesSlot, TypeInv, TypeOK, TaskOK

\* One session more fits where there are fewer than the cap.
LEMMA OneMoreFits ==
    ASSUME TypeInv, NEW s, Limit > 0, Cardinality(live) < Limit
    PROVE  Cardinality(live \cup {s}) <= Limit
<1>1. IsFiniteSet(live) /\ Cardinality(live) \in Nat
  BY LiveFinite
<1>2. Cardinality(live \cup {s}) =
        IF s \in live THEN Cardinality(live) ELSE Cardinality(live) + 1
  BY <1>1, FS_AddElement
<1> QED BY <1>1, <1>2, LimitAssumption

\* _ensure_slot and what follows it: there is room, or an idle session makes
\* way and the others are fewer than the cap.
LEMMA EnsureSlotKeepsCap ==
    ASSUME TypeInv, CapInv, NEW t \in Tasks, EnsureSlot(t), Holds(t, slotLock),
           UNCHANGED <<slotLock, req>>, victim[t] = None
    PROVE  CapInv'
<1> DEFINE s == req[t].session
<1>1. TakesNoSlotFrom(t)
  BY DEF TakesNoSlotFrom
<1>2. CASE HasRoom /\ Activate(t, lock) /\ UNCHANGED victim
  <2>1. MovesOnly(t) /\ RoomOf(t)'
    <3>1. pc' = [pc EXCEPT ![t] = "launching"] /\ "launching" \in Counters
      BY <1>2 DEF Activate, Counters
    <3>2. MovesOnly(t) /\ pc'[t] \in {"launching", "scheduled"}
      BY <1>2, <3>1, OwnStep
    <3> QED BY <1>2, <3>2, NoRoomNeeded
  <2>2. Limit > 0 => Cardinality(live) < Limit
    BY <1>2, LimitAssumption DEF HasRoom
  <2>3. live' = live \cup {s}
    BY <1>2 DEF Activate
  <2>4. CapRespected'
    BY <2>2, <2>3, OneMoreFits DEF CapRespected
  <2> QED BY <1>1, <2>1, <2>4, StepKeepsCap
<1>3. CASE Refuse(t, lock) /\ UNCHANGED victim
  <2>1. pc' = [pc EXCEPT ![t] = "raise"] /\ "raise" \in Counters /\ live' = live
    BY <1>3 DEF Refuse, Counters, poolVars
  <2>2. MovesOnly(t) /\ pc'[t] \in {"raise", "scheduled"}
    BY <1>3, <2>1, OwnStep
  <2> QED BY <1>1, <1>3, <2>1, <2>2, NoRoomNeeded, StepKeepsCap
<1>4. CASE ~HasRoom /\ \E v \in Candidates : Evict(t, v)
  <2>1. PICK v \in Candidates : Evict(t, v)
    BY <1>4
  <2>2. v \in live /\ v \in Sessions /\ v # None
    BY SessionsAssumption DEF Candidates, TypeInv, TypeOK, PoolOK
  <2>3. /\ victim' = [victim EXCEPT ![t] = v]
        /\ pc' = [pc EXCEPT ![t] = "evicting"]
        /\ "evicting" \in Counters /\ live' = live
    BY <2>1 DEF Evict, Counters, poolVars
  <2>4. MovesOnly(t)
    BY <2>3, OwnStep DEF TypeInv, TypeOK, TaskOK
  <2>5. pc'[t] = "evicting" /\ victim'[t] = v
    BY <2>3 DEF TypeInv, TypeOK, TaskOK
  <2>6. Limit > 0 => Cardinality(live \ {v}) < Limit
    <3>1. Limit > 0 => Cardinality(live) <= Limit
      BY DEF CapInv, CapRespected
    <3>2. Cardinality(live \ {v}) = Cardinality(live) - 1 /\ Cardinality(live) \in Nat
      BY <2>2, LiveFinite, FS_RemoveElement
    <3> QED BY <3>1, <3>2, LimitAssumption
  <2>7. Left(t)' = live \ {v}
    BY <2>3, <2>5 DEF Left
  <2>8. RoomOf(t)'
    BY <2>2, <2>5, <2>6, <2>7 DEF RoomOf, UsesSlot
  <2> QED BY <1>1, <2>3, <2>4, <2>8, StepKeepsCap
<1>5. CASE Enqueue(t) /\ UNCHANGED victim
  <2>1. pc' = [pc EXCEPT ![t] = "ret"] /\ "ret" \in Counters /\ live' = live
    BY <1>5 DEF Enqueue, Counters
  <2>2. MovesOnly(t) /\ pc'[t] \in {"ret", "scheduled"}
    BY <1>5, <2>1, OwnStep
  <2> QED BY <1>1, <1>5, <2>1, <2>2, NoRoomNeeded, StepKeepsCap
<1> QED BY <1>2, <1>3, <1>4, <1>5 DEF EnsureSlot

\* Ending an agent leaves the pool with one session fewer.
LEMMA SettleKeepsCap ==
    ASSUME TypeInv, CapInv, NEW t \in Tasks, NEW z,
           Settle(t, z) \/ TearDown(t, z), pc[t] # "closing",
           UNCHANGED <<slotLock, req, victim>>, victim[t] \in {z, None},
           victim[t] # None => pc[t] \in {"evicting", "settling"}
    PROVE  CapInv'
<1>1. TakesNoSlotFrom(t)
  BY DEF TakesNoSlotFrom
<1>2. live' \subseteq live /\ \E c \in {"settling", "closing"} :
         /\ pc' = [pc EXCEPT ![t] = c]
         /\ live' = IF c = "closing" THEN live \ {z} ELSE live
  BY DEF Settle, TearDown, poolVars
<1>3. PICK c \in {"settling", "closing"} :
         /\ pc' = [pc EXCEPT ![t] = c]
         /\ live' = IF c = "closing" THEN live \ {z} ELSE live
  BY <1>2
<1>4. MovesOnly(t) /\ pc'[t] = c
  BY <1>3, OwnStep DEF Counters, TypeInv, TypeOK, TaskOK
<1>5. CASE victim[t] = None
  BY <1>1, <1>2, <1>4, <1>5, NoRoomNeeded, StepKeepsCap
<1>6. CASE victim[t] # None
  <2>1. MakesRoom(t) /\ RoomOf(t)
    BY <1>6, VictimOf DEF MakesRoom
  <2>2. MakesRoom(t)' /\ victim'[t] = z
    BY <1>4, <1>6 DEF MakesRoom
  <2>3. Left(t)' = Left(t)
    BY <1>3, <1>4, <1>6, <2>2 DEF Left
  <2>4. RoomOf(t)'
    BY <1>4, <2>1, <2>2, <2>3 DEF RoomOf, UsesSlot
  <2> QED BY <1>1, <1>2, <1>4, <2>4, StepKeepsCap
<1> QED BY <1>5, <1>6

\* Most steps make no session live, take no lock, and end in a place that is
\* promised nothing.
LEMMA QuietStepKeepsCap ==
    ASSUME TypeInv, CapInv, NEW t \in Tasks, NEW c \in Counters,
           pc' = [pc EXCEPT ![t] = c] \/ pc' = Scheduled([pc EXCEPT ![t] = c]),
           c \notin {"evicting", "lock"},
           live' \subseteq live, UNCHANGED req, UNCHANGED victim, victim[t] = None,
           slotLock' = slotLock \/ slotLock' = Released(t, slotLock)
    PROVE  CapInv'
<1>1. TakesNoSlotFrom(t)
  BY HoldsReleased DEF TakesNoSlotFrom
<1>2. MovesOnly(t) /\ (pc'[t] = c \/ pc'[t] = "scheduled")
  BY OwnStep
<1> QED BY <1>1, <1>2, NoRoomNeeded, StepKeepsCap

LEMMA RequestKeepsCap ==
    ASSUME TypeInv, CapInv, NEW t \in Clients, Request(t)
    PROVE  CapInv'
<1>1. t \in Tasks
  BY DEF Tasks
<1>2. PICK s \in Sessions :
        \/ RequestAdd(t, s)
        \/ \E op \in Ops, x \in Texts \cup {None} : RequestSlot(t, op, s, x)
        \/ \E op \in Ops : RequestLock(t, op, s)
  BY DEF Request
<1>3. PICK c \in {"slot", "lock"}, op \in SlotOps \cup LockOps, x \in Texts \cup {None} :
        /\ req' = [req EXCEPT ![t] = [op |-> op, session |-> s, text |-> x]]
        /\ pc' = [pc EXCEPT ![t] = c]
        /\ c = "lock" => op \in LockOps
  <2>1. CASE RequestAdd(t, s)
    BY <2>1 DEF RequestAdd, Accept, SlotOps
  <2>2. CASE \E op \in Ops, x \in Texts \cup {None} : RequestSlot(t, op, s, x)
    BY <2>2 DEF RequestSlot, Accept, SlotOps
  <2>3. CASE \E op \in Ops : RequestLock(t, op, s)
    BY <2>3 DEF RequestLock, Accept
  <2> QED BY <1>2, <2>1, <2>2, <2>3
<1>4. pc[t] = "idle" /\ UNCHANGED <<live, victim>>
      /\ slotLock' \in {slotLock, Append(slotLock, t)}
  BY <1>2 DEF RequestAdd, RequestSlot, RequestLock, Accept
<1>5. victim'[t] = None
  BY <1>1, <1>4, VictimOf
<1>6. MovesOnly(t) /\ pc'[t] = c /\ req'[t].op = op
  BY <1>1, <1>3, <1>4 DEF MovesOnly, TypeInv, TypeOK, TaskOK
<1>7. TakesNoSlotFrom(t)
  BY <1>1, <1>4, HoldsAppend DEF TakesNoSlotFrom, TypeInv, TypeOK, LockOK
<1>8. RoomOf(t)'
  BY <1>1, <1>3, <1>5, <1>6, NoRoomNeeded DEF LockOps, SlotOps
<1> QED BY <1>1, <1>4, <1>6, <1>7, <1>8, StepKeepsCap

LEMMA SlotGrantedKeepsCap ==
    ASSUME TypeInv, CapInv, NEW t \in Tasks, SlotGranted(t)
    PROVE  CapInv'
<1> DEFINE s == req[t].session
<1>1. /\ pc[t] = "slot" /\ Holds(t, slotLock) /\ victim[t] = None
      /\ UNCHANGED <<slotLock, req>>
  BY VictimOf DEF SlotGranted
<1>2. CASE EnsureSlot(t)
  BY <1>1, <1>2, EnsureSlotKeepsCap
<1>3. CASE /\ pc' = [pc EXCEPT ![t] = "lock"]
           /\ UNCHANGED <<poolVars, victim>>
  <2>1. MovesOnly(t) /\ pc'[t] \in {"lock", "scheduled"}
    BY <1>1, <1>3, OwnStep DEF Counters
  <2>2. RoomOf(t)'
    BY <1>1, <1>3, <2>1 DEF RoomOf, MakesRoom
  <2>3. TakesNoSlotFrom(t) /\ live' = live
    BY <1>1, <1>3 DEF TakesNoSlotFrom, poolVars
  <2> QED BY <2>1, <2>2, <2>3, StepKeepsCap
<1>4. CASE /\ pc' = [pc EXCEPT ![t] = "raise"]
           /\ UNCHANGED <<poolVars, victim>>
  BY <1>1, <1>4, QuietStepKeepsCap DEF Counters, poolVars
<1> QED BY <1>2, <1>3, <1>4 DEF SlotGranted

LEMMA LockGrantedKeepsCap ==
    ASSUME TypeInv, CapInv, NEW t \in Tasks, LockGranted(t)
    PROVE  CapInv'
<1> DEFINE s == req[t].session
<1>1. pc[t] = "lock" /\ victim[t] = None /\ UNCHANGED <<slotLock, req>>
  BY VictimOf DEF LockGranted
<1>2. CASE EnsureSlot(t) /\ req[t].op \in SlotOps
  <2>1. Holds(t, slotLock)
    BY <1>1, <1>2 DEF CapInv, RoomOf, UsesSlot
  <2> QED BY <1>1, <1>2, <2>1, EnsureSlotKeepsCap
<1>3. CASE Stop(t, s)
  BY <1>1, <1>3, SettleKeepsCap DEF Stop
<1>4. CASE /\ \E c \in Counters \ {"evicting", "lock"} : pc' = [pc EXCEPT ![t] = c]
           /\ UNCHANGED <<live, victim>>
  BY <1>1, <1>4, QuietStepKeepsCap
<1>5. CASE req[t].op = "send" /\ Send(t, s) /\ ~EnsureSlot(t)
  BY <1>4, <1>5 DEF Send, StartTurn, Counters, poolVars
<1>6. CASE req[t].op = "resume" /\ Resume(t, s) /\ ~EnsureSlot(t)
  BY <1>4, <1>6 DEF Resume, Counters, poolVars
<1>7. CASE Revert(t, s) /\ ~Stop(t, s)
  BY <1>4, <1>7 DEF Revert, Counters, poolVars
<1>8. CASE Cancel(t, s)
  <2>1. pc' = [pc EXCEPT ![t] = "telling"] \/ pc' = [pc EXCEPT ![t] = "ret"]
    BY <1>8 DEF Cancel
  <2> QED BY <1>4, <1>8, <2>1 DEF Cancel, Counters, poolVars
<1>9. CASE pc' = [pc EXCEPT ![t] = "raise"] /\ UNCHANGED <<poolVars, victim>>
  BY <1>4, <1>9 DEF Counters, poolVars
<1>10. \/ pc' = [pc EXCEPT ![t] = "raise"] /\ UNCHANGED <<poolVars, victim>>
       \/ req[t].op = "send" /\ Send(t, s)
       \/ req[t].op = "resume" /\ Resume(t, s)
       \/ Stop(t, s) \/ Revert(t, s) \/ Cancel(t, s)
  BY DEF LockGranted
<1> QED BY <1>2, <1>3, <1>5, <1>6, <1>7, <1>8, <1>9, <1>10 DEF SlotOps

LEMMA VictimLockedKeepsCap ==
    ASSUME TypeInv, CapInv, NEW t \in Tasks, VictimLocked(t)
    PROVE  CapInv'
<1>1. pc[t] = "evicting" /\ UNCHANGED <<slotLock, req, victim>>
  BY DEF VictimLocked, lockVars
<1>2. CASE Settle(t, victim[t])
  BY <1>1, <1>2, SettleKeepsCap
<1>3. CASE pc' = [pc EXCEPT ![t] = "raise"] /\ UNCHANGED poolVars
  <2>1. MovesOnly(t) /\ pc'[t] = "raise" /\ live' = live
    BY <1>1, <1>3, OwnStep DEF Counters, poolVars, TypeInv, TypeOK, TaskOK
  <2>2. TakesNoSlotFrom(t)
    BY <1>1 DEF TakesNoSlotFrom
  <2>3. RoomOf(t)'
    BY <2>1 DEF RoomOf, UsesSlot, MakesRoom
  <2> QED BY <2>1, <2>2, <2>3, StepKeepsCap
<1> QED BY <1>2, <1>3 DEF VictimLocked

LEMMA SettledKeepsCap ==
    ASSUME TypeInv, CapInv, NEW t \in Tasks, Settled(t)
    PROVE  CapInv'
<1>1. victim[t] \in {Subject(t), None}
  BY DEF Subject
<1> QED BY <1>1, SettleKeepsCap DEF Settled, lockVars

LEMMA ClosedKeepsCap ==
    ASSUME TypeInv, CapInv, NEW t \in Tasks, Closed(t)
    PROVE  CapInv'
<1>1. pc[t] = "closing" /\ UNCHANGED <<slotLock, req>>
  BY DEF Closed
<1>2. CASE victim[t] = None
  <2>1. pc' = [pc EXCEPT ![t] = "ret"] /\ UNCHANGED <<poolVars, victim>>
    BY <1>2 DEF Closed
  <2> QED BY <1>1, <1>2, <2>1, QuietStepKeepsCap DEF Counters, poolVars
<1>3. CASE victim[t] # None
  <2>1. MakesRoom(t) /\ Holds(t, slotLock)
    BY <1>1, <1>3, VictimOf DEF MakesRoom
  <2>2. Limit > 0 => Cardinality(live) < Limit
    BY <1>1, <2>1 DEF CapInv, RoomOf, Left
  <2>3. PICK held : Activate(t, held) \/ Refuse(t, held)
    BY <1>3 DEF Closed
  <2>4. victim' = [victim EXCEPT ![t] = None]
    BY <1>3 DEF Closed
  <2>5. \E c \in {"launching", "raise"} : pc' = [pc EXCEPT ![t] = c]
    BY <2>3 DEF Activate, Refuse
  <2>6. MovesOnly(t) /\ pc'[t] \in {"launching", "raise"} /\ victim'[t] = None
    BY <1>1, <2>4, <2>5, OwnStep DEF Counters, TypeInv, TypeOK, TaskOK
  <2>7. RoomOf(t)' /\ TakesNoSlotFrom(t)
    BY <1>1, <2>6, NoRoomNeeded DEF TakesNoSlotFrom
  <2>8. live' = live \/ live' = live \cup {req[t].session}
    BY <2>3 DEF Activate, Refuse, poolVars
  <2>9. CapRespected'
    BY <2>2, <2>8, OneMoreFits DEF CapInv, CapRespected
  <2> QED BY <2>1, <2>6, <2>7, <2>9, StepKeepsCap
<1> QED BY <1>2, <1>3

LEMMA LaunchedKeepsCap ==
    ASSUME TypeInv, CapInv, NEW t \in Tasks, Launched(t)
    PROVE  CapInv'
<1>1. pc[t] = "launching" /\ victim[t] = None /\ UNCHANGED <<slotLock, req, victim>>
  BY VictimOf DEF Launched, LaunchOk, LaunchFails, lockVars
<1>2. live' \subseteq live /\ \E c \in {"ready", "raise"} :
         pc' = [pc EXCEPT ![t] = c] \/ pc' = Scheduled([pc EXCEPT ![t] = c])
  BY DEF Launched, LaunchOk, LaunchFails
<1> QED BY <1>1, <1>2, QuietStepKeepsCap DEF Counters

LEMMA TurnKeepsCap ==
    ASSUME TypeInv, CapInv, NEW t \in Tasks, Ready(t) \/ Told(t) \/ FirstStep(t)
    PROVE  CapInv'
<1>1. pc[t] \in {"ready", "telling", "begin", "overlap"} /\ UNCHANGED <<req, victim>>
      /\ victim[t] = None
  BY VictimOf DEF Ready, Told, FirstStep
<1>2. live' = live /\ \E c \in {"ret", "turn", "begin", "overlap"} :
         pc' = [pc EXCEPT ![t] = c]
  BY DEF Ready, Told, FirstStep, StartTurn, poolVars
<1>3. slotLock' = slotLock \/ slotLock' = Released(t, slotLock)
  BY DEF Ready, Told, FirstStep, GiveUpLocks, ReleaseAll, lockVars
<1> QED BY <1>1, <1>2, <1>3, QuietStepKeepsCap DEF Counters

LEMMA ReturnKeepsCap ==
    ASSUME TypeInv, CapInv, NEW t \in Tasks, Return(t)
    PROVE  CapInv'
<1>1. pc' = [pc EXCEPT ![t] = "idle"] /\ req' = [req EXCEPT ![t] = NoRequest]
      /\ victim' = [victim EXCEPT ![t] = None]
      /\ slotLock' = Released(t, slotLock) /\ live' = live
  BY DEF Return, ReleaseAll, poolVars
<1>2. MovesOnly(t) /\ RoomOf(t)'
  BY <1>1 DEF MovesOnly, RoomOf, UsesSlot, MakesRoom, TypeInv, TypeOK, TaskOK
<1>3. TakesNoSlotFrom(t)
  BY <1>1, HoldsReleased DEF TakesNoSlotFrom
<1> QED BY <1>1, <1>2, <1>3, StepKeepsCap

LEMMA TurnEndsKeepsCap ==
    ASSUME TypeInv, CapInv, NEW s \in Sessions, TurnEnds(s)
    PROVE  CapInv'
<1> DEFINE woken == [t \in Tasks |->
                IF pc[t] = "turn" /\ req[t].session = s THEN "woken" ELSE pc[t]]
<1>1. Drain \in Tasks
  BY DEF Tasks
<1>2. UNCHANGED <<live, slotLock, req, victim>> /\ pc' = Scheduled(woken)
  BY DEF TurnEnds, lockVars
<1>3. woken \in [Tasks -> Counters]
      /\ \A u \in Tasks : woken[u] = pc[u] \/ (pc[u] = "turn" /\ woken[u] = "woken")
  BY DEF TypeInv, TypeOK, TaskOK, Counters
<1> HIDE DEF woken
<1>4. \A u \in Tasks :
         \/ pc'[u] = pc[u]
         \/ pc[u] \in {"off", "turn"} /\ pc'[u] \in {"scheduled", "woken"}
  BY <1>2, <1>3 DEF Scheduled
<1>5. MovesOnly(Drain) /\ TakesNoSlotFrom(Drain)
  BY <1>2, <1>4 DEF MovesOnly, TakesNoSlotFrom
<1>6. RoomOf(Drain)'
  <2>1. CASE pc'[Drain] = pc[Drain]
    BY <1>1, <1>2, <2>1, VictimOf DEF RoomOf, UsesSlot, MakesRoom, Left
  <2>2. CASE pc[Drain] \in {"off", "turn"} /\ pc'[Drain] \in {"scheduled", "woken"}
    BY <1>1, <1>2, <2>2, VictimOf, NoRoomNeeded
  <2> QED BY <1>1, <1>4, <2>1, <2>2
<1> QED BY <1>1, <1>2, <1>5, <1>6, StepKeepsCap

\* The drain gives up the slot lock, and asks for it again or is over.
LEMMA DrainKeepsCap ==
    ASSUME TypeInv, CapInv, DrainStep
    PROVE  CapInv'
<1> DEFINE free == Released(Drain, slotLock)
<1>1. Drain \in Tasks /\ live' = live
  BY DEF Tasks, DrainStep, DrainStart, DrainReturns, DrainCatches, poolVars
<1>2. free \in Seq(Tasks) /\ slotLock \in Seq(Tasks)
  BY ReleasedType DEF TypeInv, TypeOK, LockOK
<1>3. \A u \in Tasks \ {Drain} : victim'[u] = victim[u]
  BY DEF DrainStep, DrainStart, DrainReturns, DrainCatches, TypeInv, TypeOK, TaskOK
<1>4. victim'[Drain] = None
  BY <1>1, VictimOf
     DEF DrainStep, DrainStart, DrainReturns, DrainCatches, TypeInv, TypeOK, TaskOK
<1> HIDE DEF free
<1>5. PICK q \in {slotLock, free} :
        \/ DrainOver(q)
        \/ \E op, s, x : DrainAsks(op, s, x, q)
  <2>1. ASSUME NEW w, NEW q, DrainNext(w, q)
        PROVE  DrainOver(q) \/ \E op, s, x : DrainAsks(op, s, x, q)
    BY <2>1 DEF DrainNext
  <2> QED BY <2>1 DEF DrainStep, DrainStart, DrainReturns, DrainCatches, free
<1>6. \E c \in {"off", "slot"} : \E r :
         pc' = [pc EXCEPT ![Drain] = c] /\ req' = [req EXCEPT ![Drain] = r]
  BY <1>5 DEF DrainOver, DrainAsks
<1>7. MovesOnly(Drain) /\ pc'[Drain] \in {"off", "slot"}
  BY <1>1, <1>3, <1>6 DEF MovesOnly, TypeInv, TypeOK, TaskOK
<1>8. RoomOf(Drain)'
  BY <1>1, <1>4, <1>7, NoRoomNeeded
<1>9. TakesNoSlotFrom(Drain)
  <2>1. slotLock' = q \/ slotLock' = Append(q, Drain)
    BY <1>5 DEF DrainOver, DrainAsks
  <2>2. ASSUME NEW u \in Tasks \ {Drain}, Holds(u, slotLock)
        PROVE  Holds(u, q)
    BY <2>2, HoldsReleased DEF free
  <2> QED BY <1>1, <1>2, <2>1, <2>2, HoldsAppend DEF TakesNoSlotFrom
<1> QED BY <1>1, <1>7, <1>8, <1>9, StepKeepsCap

LEMMA NextKeepsCap ==
    ASSUME TypeInv, CapInv, [Next]_vars
    PROVE  CapInv'
<1>1. CASE UNCHANGED vars
  BY <1>1 DEF vars, poolVars, lockVars, CapInv, CapRespected, RoomOf, UsesSlot,
              MakesRoom, Left
<1>2. CASE \E t \in Clients : Request(t)
  BY <1>2, RequestKeepsCap
<1>3. ASSUME NEW t \in Tasks, TaskStep(t)
      PROVE  CapInv'
  BY <1>3, SlotGrantedKeepsCap, LockGrantedKeepsCap, VictimLockedKeepsCap,
     SettledKeepsCap, ClosedKeepsCap, LaunchedKeepsCap, TurnKeepsCap, ReturnKeepsCap
     DEF TaskStep
<1>4. CASE DrainStep
  BY <1>4, DrainKeepsCap
<1>5. CASE \E s \in Sessions : TurnEnds(s)
  BY <1>5, TurnEndsKeepsCap
<1> QED BY <1>1, <1>2, <1>3, <1>4, <1>5 DEF Next

LEMMA InitCapInv == Init => CapInv
<1> SUFFICES ASSUME Init
             PROVE  CapInv
  OBVIOUS
<1>1. CapRespected
  BY FS_EmptySet, LimitAssumption DEF Init, CapRespected
<1>2. ASSUME NEW t \in Tasks
      PROVE  RoomOf(t)
  BY DEF Init, RoomOf, UsesSlot, MakesRoom
<1> QED BY <1>1, <1>2 DEF CapInv

LEMMA CapInvariant == Spec => []CapInv
  BY InitCapInv, NextKeepsCap, TypeInvariant, PTL DEF Spec

\* However many actions overlap, and whatever they wait for between the look
\* of _ensure_slot at the cap and the activation it makes room for, no more
\* than max_live_sessions sessions are ever live.
THEOREM Cap == Spec => []CapRespected
<1>1. CapInv => CapRespected
  BY DEF CapInv
<1> QED BY <1>1, CapInvariant, PTL

\* The room an eviction makes goes to the task that made it.
THEOREM RoomKept == Spec => []RoomIsKept
<1>1. CapInv => RoomIsKept
  BY DEF CapInv, RoomOf, UsesSlot, RoomIsKept, Left
<1> QED BY <1>1, CapInvariant, PTL

-----------------------------------------------------------------------------
(***************************************************************************)
(* The two levels of locks: the transitions of one session exclude each    *)
(* other, and the locks are never waited for in a circle.                  *)
(*                                                                         *)
(* A task in the middle of a transition holds the lock of its session.     *)
(* That is kept by every action but one: an add takes the lock of its new  *)
(* session without waiting, which takes it from nobody because nobody has  *)
(* heard of that session yet (Fresh).                                      *)
(***************************************************************************)
\* The sessions a task works on.
Named(u) == {req[u].session, victim[u]}

\* An add that has not put its record in _records yet.
Adding(t) ==
    req[t].op = "add" /\ pc[t] \in {"slot", "evicting", "settling", "closing"}

Fresh(t) ==
    Adding(t) =>
        /\ req[t].session \notin records
        /\ \A u \in Tasks \ {t} : req[t].session \notin Named(u)

Born ==
    /\ live \subseteq records /\ records \subseteq born
    /\ \A t \in Tasks : Named(t) \subseteq born \cup {None}

\* What a task holds: in a transition, the lock of its subject; while it makes
\* room, that of the session it makes room for, unless it is new.
Locked(t) ==
    /\ InTransition(t) => Holds(t, lock[Subject(t)])
    /\ MakesRoom(t) =>
          /\ victim[t] # req[t].session /\ req[t].session \notin live
          /\ req[t].op # "add" => /\ Holds(t, lock[req[t].session])
                                  /\ req[t].session \in records

LockInv == TypeInv /\ CapInv /\ Born /\ \A t \in Tasks : Locked(t) /\ Fresh(t)

-----------------------------------------------------------------------------
(***************************************************************************)
(* What a step has to show.                                                *)
(***************************************************************************)

\* A step of t takes no lock from a task that works on that lock's session.
KeepsHeld(t, held) ==
    \A u \in Tasks \ {t} : \A s \in Named(u) \cap Sessions :
        Holds(u, lock[s]) => Holds(u, held[s])

\* What it does to the pool: only the session it works for comes, and only
\* what it holds the lock of goes.
PoolStep(t) ==
    /\ live' \subseteq records' /\ born \subseteq born'
    /\ records' \subseteq records \cup {req[t].session}
    /\ live' \subseteq live \/ Holds(t, slotLock)
    /\ \A z \in records \ records' : Holds(t, lock[z])

LEMMA RequestOf ==
    ASSUME TypeInv, NEW t \in Tasks, pc[t] \notin {"idle", "off", "scheduled"}
    PROVE  /\ req[t] \in Requests /\ req[t].session \in Sessions
           /\ req[t].session # None
  BY RequestFields, SessionsAssumption DEF TypeInv, Serving

\* What others hold and what is said of a new session outlives the step of t.
LEMMA StepKeepsLocks ==
    ASSUME LockInv, TypeInv', CapInv', NEW t \in Tasks, MovesOnly(t),
           KeepsHeld(t, lock'), PoolStep(t),
           Named(t)' \subseteq Named(t) \cup {None} \cup records \cup (born' \ born),
           Locked(t)', Fresh(t)'
    PROVE  LockInv'
<1>1. Born'
  <2>1. records' \subseteq born'
    <3>1. records' \subseteq Sessions
      BY DEF TypeInv, TypeOK, PoolOK
    <3>2. req[t].session \in born \cup {None}
      BY DEF LockInv, Born, Named
    <3> QED BY <3>1, <3>2, SessionsAssumption DEF LockInv, Born, PoolStep
  <2>2. ASSUME NEW u \in Tasks
        PROVE  Named(u)' \subseteq born' \cup {None}
    <3>1. CASE u = t
      BY <3>1, <2>1 DEF LockInv, Born, PoolStep
    <3>2. CASE u # t
      BY <3>2 DEF LockInv, Born, PoolStep, MovesOnly, Named
    <3> QED BY <3>1, <3>2
  <2> QED BY <2>1, <2>2 DEF Born, PoolStep
<1>2. ASSUME NEW u \in Tasks, u # t
      PROVE  Locked(u)' /\ Fresh(u)'
  <2>1. victim'[u] = victim[u] /\ req'[u] = req[u]
    BY <1>2 DEF MovesOnly
  <2>2. CASE pc'[u] # pc[u]
    <3>1. pc'[u] \in {"scheduled", "woken"}
      BY <1>2, <2>2 DEF MovesOnly
    <3> QED BY <3>1 DEF Locked, Fresh, Adding, InTransition, MakesRoom
  <2>3. CASE pc'[u] = pc[u]
    <3>1. /\ InTransition(u)' = InTransition(u) /\ MakesRoom(u)' = MakesRoom(u)
          /\ Adding(u)' = Adding(u) /\ Subject(u)' = Subject(u)
          /\ Named(u)' = Named(u)
      BY <2>1, <2>3 DEF InTransition, MakesRoom, Adding, Subject, Named
    <3>2. /\ InTransition(u) \/ MakesRoom(u) \/ Adding(u) =>
                req[u] \in Requests /\ req[u].session \in Sessions /\ req[u].session # None
          /\ victim[u] \in Sessions \cup {None}
      BY RequestOf DEF InTransition, MakesRoom, Adding, LockInv, TypeInv, TypeOK, TaskOK
    <3>3. Locked(u) /\ Fresh(u)
      BY DEF LockInv
    <3>4. ASSUME InTransition(u)
          PROVE  Holds(u, lock'[Subject(u)])
      <4>1. Subject(u) \in Named(u) \cap Sessions
        BY <3>2, <3>4 DEF Subject, Named
      <4> QED BY <1>2, <3>3, <3>4, <4>1 DEF KeepsHeld, Locked
    <3>5. ASSUME MakesRoom(u)
          PROVE  /\ victim[u] # req[u].session /\ req[u].session \notin live'
                 /\ req[u].op # "add" => /\ Holds(u, lock'[req[u].session])
                                         /\ req[u].session \in records'
      <4>1. req[u].session \in Named(u) \cap Sessions
        BY <3>2, <3>5 DEF Named
      <4>2. live' \subseteq live
        BY <1>2, <3>5, VictimOf DEF LockInv, PoolStep, Holds
      <4>3. ASSUME req[u].op # "add"
            PROVE  Holds(u, lock'[req[u].session]) /\ req[u].session \in records'
        <5>1. Holds(u, lock[req[u].session]) /\ req[u].session \in records
          BY <3>3, <3>5, <4>3 DEF Locked
        <5>2. Holds(u, lock'[req[u].session])
          BY <1>2, <4>1, <5>1 DEF KeepsHeld
        <5>3. ~ Holds(t, lock[req[u].session])
          BY <1>2, <5>1 DEF Holds
        <5> QED BY <5>1, <5>2, <5>3 DEF PoolStep
      <4> QED BY <3>3, <3>5, <4>2, <4>3 DEF Locked
    <3>6. Locked(u)'
      BY <2>1, <3>1, <3>4, <3>5 DEF Locked
    <3>7. ASSUME Adding(u)
          PROVE  /\ req[u].session \notin records'
                 /\ \A v \in Tasks \ {u} : req[u].session \notin Named(v)'
      <4>1. /\ req[u].session \notin records
            /\ \A v \in Tasks \ {u} : req[u].session \notin Named(v)
        BY <3>3, <3>7 DEF Fresh
      <4>2. req[u].session \notin Named(t)
        BY <1>2, <4>1
      <4>3. req[u].session \notin records'
        BY <4>1, <4>2 DEF PoolStep, Named
      <4>4. req[u].session \in born
        BY <3>2, <3>7 DEF LockInv, Born, Named
      <4>5. req[u].session \notin Named(t)'
        BY <3>2, <3>7, <4>1, <4>2, <4>4
      <4>6. \A v \in Tasks \ {t} : Named(v)' = Named(v)
        BY DEF MovesOnly, Named
      <4> QED BY <4>1, <4>3, <4>5, <4>6
    <3> QED BY <2>1, <3>1, <3>6, <3>7 DEF Fresh
  <2> QED BY <2>2, <2>3
<1> QED BY <1>1, <1>2 DEF LockInv

-----------------------------------------------------------------------------
(***************************************************************************)
(* The shapes that steps have.                                             *)
(***************************************************************************)
\* A task that is in no transition, makes no room and adds nothing is promised
\* nothing.
LEMMA NothingHeld ==
    ASSUME NEW t \in Tasks,
           pc'[t] \in {"ret", "raise", "idle", "turn", "off", "scheduled", "lock", "woken"}
    PROVE  Locked(t)' /\ Fresh(t)'
  BY DEF Locked, Fresh, InTransition, MakesRoom, Adding

LEMMA HeldStays ==
    ASSUME NEW t \in Tasks
    PROVE  /\ KeepsHeld(t, lock)
           /\ \A held : (\A s \in Sessions : held[s] = Released(t, lock[s]))
                 => KeepsHeld(t, held)
  BY HoldsReleased DEF KeepsHeld

\* Asking for a lock.
LEMMA AskedFor ==
    ASSUME TypeInv, NEW t \in Tasks, NEW s \in Sessions
    PROVE  /\ KeepsHeld(t, [lock EXCEPT ![s] = Append(@, t)])
           /\ \A z \in Sessions : Holds(t, lock[z])
                 => Holds(t, [lock EXCEPT ![s] = Append(@, t)][z])
<1>1. \A z \in Sessions : lock[z] \in Seq(Tasks)
  BY DEF TypeInv, TypeOK, LockOK
<1>2. \A u \in Tasks, z \in Sessions : Holds(u, lock[z])
          => Holds(u, [lock EXCEPT ![s] = Append(@, t)][z])
  <2> SUFFICES ASSUME NEW u \in Tasks, NEW z \in Sessions, Holds(u, lock[z])
               PROVE  Holds(u, [lock EXCEPT ![s] = Append(@, t)][z])
    OBVIOUS
  <2>1. CASE z = s
    <3>1. Holds(u, Append(lock[s], t))
      BY <1>1, <2>1, HoldsAppend
    <3> QED BY <2>1, <3>1 DEF TypeInv, TypeOK, LockOK
  <2>2. CASE z # s
    BY <2>2 DEF TypeInv, TypeOK, LockOK
  <2> QED BY <2>1, <2>2
<1> QED BY <1>2 DEF KeepsHeld

\* The task moves on and keeps its locks: from one place in a transition to
\* another, or out of it.
LEMMA QuietStepKeepsLocks ==
    ASSUME LockInv, TypeInv', CapInv', NEW t \in Tasks, NEW c \in Counters,
           UNCHANGED <<req, records, live, lock>>, born \subseteq born',
           victim' \in {victim, [victim EXCEPT ![t] = None]},
           \/ pc' = [pc EXCEPT ![t] = c]
           \/ pc' = Scheduled([pc EXCEPT ![t] = c]),
           \/ c \in {"ret", "raise", "turn", "lock"}
           \/ c \in {"ready", "begin", "overlap", "telling"} /\ InTransition(t)
              /\ victim[t] = None /\ UNCHANGED victim
           \/ c = "settling" /\ UNCHANGED victim /\ Holds(t, lock[Subject(t)])
              /\ (pc[t] = "evicting" \/ (pc[t] = "lock" /\ req[t].op # "add"))
           \/ c \in {"begin", "overlap", "telling"} /\ UNCHANGED victim
              /\ victim[t] = None /\ Holds(t, lock[req[t].session])
    PROVE  LockInv'
<1> USE DEF LockInv
<1>1. MovesOnly(t) /\ (pc'[t] = c \/ pc'[t] = "scheduled")
  BY OwnStep DEF TypeInv, TypeOK, TaskOK
<1>2. KeepsHeld(t, lock')
  BY HeldStays
<1>3. PoolStep(t)
  BY DEF PoolStep, Born
<1>4. Named(t)' \subseteq Named(t) \cup {None}
  BY DEF Named, TypeInv, TypeOK, TaskOK
<1>5. Locked(t)' /\ Fresh(t)'
  <2>1. CASE c \in {"ret", "raise", "turn", "lock"}
    BY <1>1, <2>1, NothingHeld
  <2>2. CASE pc'[t] = "scheduled"
    BY <2>2, NothingHeld
  <2>3. CASE c \in {"ready", "begin", "overlap", "telling"} /\ UNCHANGED victim
             /\ pc'[t] = c /\ victim[t] = None
             /\ (InTransition(t) \/ Holds(t, lock[req[t].session]))
    <3>1. Holds(t, lock[req[t].session])
      BY <2>3 DEF Locked, Subject
    <3> QED BY <2>3, <3>1 DEF Locked, Fresh, InTransition, MakesRoom, Adding, Subject
  <2>4. CASE /\ c = "settling" /\ pc'[t] = c /\ UNCHANGED victim
             /\ Holds(t, lock[Subject(t)])
             /\ (pc[t] = "evicting" \/ (pc[t] = "lock" /\ req[t].op # "add"))
    <3>1. pc[t] = "lock" => victim[t] = None
      BY VictimOf
    <3>2. Locked(t)'
      BY <2>4, <3>1 DEF Locked, InTransition, MakesRoom, Subject
    <3>3. Adding(t)' => Adding(t)
      BY <2>4 DEF Adding
    <3>4. \A u \in Tasks : Named(u)' = Named(u)
      BY <2>4 DEF Named
    <3> QED BY <3>2, <3>3, <3>4 DEF Fresh
  <2> QED BY <1>1, <2>1, <2>2, <2>3, <2>4
<1> QED BY <1>1, <1>2, <1>3, <1>4, <1>5, StepKeepsLocks

\* The agent is given up under the lock of its session.
LEMMA TearDownKeepsLocks ==
    ASSUME LockInv, TypeInv', CapInv', NEW t \in Tasks, NEW z, z = Subject(t),
           TearDown(t, z), Holds(t, lock[z]), UNCHANGED <<req, victim, lockVars>>,
           pc[t] \in {"evicting", "settling"} \/ (pc[t] = "lock" /\ req[t].op # "add")
    PROVE  LockInv'
<1> USE DEF LockInv
<1>1. MovesOnly(t) /\ pc'[t] = "closing"
  BY OwnStep DEF TearDown, Counters, TypeInv, TypeOK, TaskOK
<1>2. KeepsHeld(t, lock')
  BY HeldStays DEF lockVars
<1>3. /\ records' \in {records, records \ {z}} /\ live' = live \ {z} /\ born' = born
  BY DEF TearDown
<1>4. PoolStep(t)
  BY <1>3 DEF PoolStep, Born
<1>5. \A u \in Tasks : Named(u)' = Named(u)
  BY DEF Named
<1>6. Fresh(t)'
  <2>1. Adding(t)' => Adding(t)
    BY DEF Adding
  <2> QED BY <1>3, <1>5, <2>1 DEF Fresh
<1>7. Locked(t)'
  <2>1. Holds(t, lock'[Subject(t)'])
    BY DEF Subject, lockVars
  <2>2. ASSUME MakesRoom(t)'
        PROVE  MakesRoom(t) /\ z = victim[t]
    <3>1. pc[t] \in {"evicting", "settling"}
      BY <2>2, VictimOf DEF MakesRoom
    <3> QED BY <2>2, <3>1 DEF MakesRoom, Subject
  <2>3. MakesRoom(t)' =>
          /\ victim[t] # req[t].session /\ req[t].session \notin live'
          /\ req[t].op # "add" => Holds(t, lock[req[t].session])
                                  /\ req[t].session \in records'
    BY <1>3, <2>2 DEF Locked
  <2> QED BY <2>1, <2>3 DEF Locked, lockVars
<1> QED BY <1>1, <1>2, <1>4, <1>5, <1>6, <1>7, StepKeepsLocks

LEMMA SettleKeepsLocks ==
    ASSUME LockInv, TypeInv', CapInv', NEW t \in Tasks, NEW z, z = Subject(t),
           Settle(t, z), Holds(t, lock[z]), UNCHANGED <<req, victim, lockVars>>,
           pc[t] = "evicting" \/ (pc[t] = "lock" /\ req[t].op # "add")
    PROVE  LockInv'
<1>1. CASE TearDown(t, z)
  BY <1>1, TearDownKeepsLocks
<1>2. CASE pc' = [pc EXCEPT ![t] = "settling"] /\ UNCHANGED poolVars
  BY <1>2, QuietStepKeepsLocks DEF poolVars, lockVars, Counters
<1> QED BY <1>1, <1>2 DEF Settle

\* A session becomes live under its lock, an add under the lock of a session
\* nobody else works on.
LEMMA ActivateKeepsLocks ==
    ASSUME LockInv, TypeInv', CapInv', NEW t \in Tasks, NEW held,
           held \in [Sessions -> Seq(Tasks)], KeepsHeld(t, held),
           Activate(t, held) \/ Refuse(t, held), Holds(t, slotLock),
           UNCHANGED <<req, slotLock>>, req[t] \in Requests,
           victim' = [victim EXCEPT ![t] = None],
           req[t].op = "add" => Adding(t),
           req[t].op # "add" => Holds(t, held[req[t].session])
                                /\ req[t].session \in records
    PROVE  LockInv'
<1> USE DEF LockInv
<1> DEFINE s == req[t].session
<1>1. s \in Sessions /\ victim'[t] = None /\ \A u \in Tasks \ {t} : victim'[u] = victim[u]
  BY RequestFields DEF TypeInv, TypeOK, TaskOK
<1>2. Named(t)' \subseteq Named(t) \cup {None}
  BY <1>1 DEF Named
<1>3. CASE Refuse(t, held)
  <2>1. MovesOnly(t) /\ pc'[t] \in {"raise", "scheduled"}
    BY <1>1, <1>3, OwnStep DEF Refuse, Counters
  <2>2. PoolStep(t) /\ lock' = held
    BY <1>3 DEF Refuse, PoolStep, Born, poolVars
  <2> QED BY <1>2, <2>1, <2>2, NothingHeld, StepKeepsLocks
<1>4. CASE Activate(t, held)
  <2>1. MovesOnly(t) /\ pc'[t] = "launching"
    <3>1. pc' = [pc EXCEPT ![t] = "launching"]
      BY <1>4 DEF Activate
    <3> QED BY <1>1, <3>1, OwnStep DEF Counters, TypeInv, TypeOK, TaskOK
  <2>2. records' = records \cup {s} /\ live' = live \cup {s} /\ born' = born
    BY <1>4 DEF Activate, WithNew
  <2>3. PoolStep(t)
    BY <2>2 DEF PoolStep, Born
  <2>4. KeepsHeld(t, lock') /\ Holds(t, lock'[s])
    <3>1. CASE req[t].op = "add"
      <4>1. lock' = [held EXCEPT ![s] = <<t>>]
        BY <1>4, <3>1 DEF Activate, Entered
      <4>2. \A u \in Tasks \ {t} : s \notin Named(u)
        BY <3>1 DEF Fresh
      <4>3. Holds(t, <<t>>)
        BY DEF Holds
      <4> QED BY <1>1, <4>1, <4>2, <4>3 DEF KeepsHeld
    <3>2. CASE req[t].op # "add"
      BY <1>4, <3>2 DEF Activate, Entered
    <3> QED BY <3>1, <3>2
  <2>5. Locked(t)' /\ Fresh(t)'
    BY <1>1, <2>1, <2>4 DEF Locked, Fresh, InTransition, MakesRoom, Adding, Subject
  <2> QED BY <1>2, <2>1, <2>3, <2>4, <2>5, StepKeepsLocks
<1> QED BY <1>3, <1>4

LEMMA EnsureSlotKeepsLocks ==
    ASSUME LockInv, TypeInv', CapInv', NEW t \in Tasks, EnsureSlot(t),
           pc[t] \in {"slot", "lock"}, Holds(t, slotLock), UNCHANGED <<slotLock, req>>,
           req[t].op = "add" => pc[t] = "slot",
           req[t].op # "add" => /\ Holds(t, lock[req[t].session])
                                /\ req[t].session \in records \ live
    PROVE  LockInv'
<1> USE DEF LockInv
<1> DEFINE s == req[t].session
<1>1. req[t] \in Requests /\ s \in Sessions /\ victim[t] = None
  BY RequestOf, VictimOf
<1>2. lock \in [Sessions -> Seq(Tasks)] /\ KeepsHeld(t, lock)
  BY HeldStays DEF TypeInv, TypeOK, LockOK
<1>3. req[t].op = "add" => Adding(t)
  BY DEF Adding
<1>4. s \notin live
  BY <1>3 DEF Fresh, Born
<1>5. CASE (Activate(t, lock) \/ Refuse(t, lock)) /\ UNCHANGED victim
  <2>1. victim' = [victim EXCEPT ![t] = None]
    BY <1>1, <1>5 DEF TypeInv, TypeOK, TaskOK
  <2> QED BY <1>1, <1>2, <1>3, <1>5, <2>1, ActivateKeepsLocks
<1>6. CASE \E v \in Candidates : Evict(t, v)
  <2>1. PICK v \in Candidates : Evict(t, v)
    BY <1>6
  <2>2. v \in live /\ v \in Sessions /\ v # None /\ v # s
    BY <1>4, SessionsAssumption DEF Candidates, TypeInv, TypeOK, PoolOK
  <2>3. /\ victim' = [victim EXCEPT ![t] = v] /\ pc' = [pc EXCEPT ![t] = "evicting"]
        /\ lock' = [lock EXCEPT ![v] = Append(@, t)] /\ UNCHANGED poolVars
    BY <2>1 DEF Evict
  <2>4. MovesOnly(t) /\ pc'[t] = "evicting" /\ victim'[t] = v
    <3>1. \A u \in Tasks \ {t} : victim'[u] = victim[u]
      BY <2>3 DEF TypeInv, TypeOK, TaskOK
    <3>2. pc'[t] = "evicting" /\ victim'[t] = v
      BY <2>3 DEF TypeInv, TypeOK, TaskOK
    <3> QED BY <2>3, <3>1, <3>2, OwnStep DEF Counters
  <2>5. PoolStep(t)
    BY <2>3 DEF PoolStep, Born, poolVars
  <2>6. KeepsHeld(t, lock') /\ (req[t].op # "add" => Holds(t, lock'[s]))
    BY <1>1, <2>2, <2>3, AskedFor
  <2>7. Named(t)' \subseteq Named(t) \cup records
    BY <2>2, <2>4 DEF Named, Born
  <2>8. Locked(t)'
    BY <1>4, <2>2, <2>3, <2>4, <2>6 DEF Locked, InTransition, MakesRoom, poolVars
  <2>9. Fresh(t)'
    <3>1. Adding(t)' => Adding(t)
      BY <1>3 DEF Adding
    <3>2. \A u \in Tasks \ {t} : Named(u)' = Named(u)
      BY <2>4 DEF MovesOnly, Named
    <3> QED BY <2>3, <3>1, <3>2 DEF Fresh, poolVars
  <2> QED BY <2>4, <2>5, <2>6, <2>7, <2>8, <2>9, StepKeepsLocks
<1>7. CASE Enqueue(t) /\ UNCHANGED victim
  <2>1. MovesOnly(t) /\ pc'[t] \in {"ret", "scheduled"}
    BY <1>7, OwnStep DEF Enqueue, Counters
  <2>2. PoolStep(t) /\ lock' = lock
    BY <1>7 DEF Enqueue, WithNew, PoolStep, Born
  <2>3. Named(t)' = Named(t)
    BY <1>7 DEF Named
  <2> QED BY <1>2, <2>1, <2>2, <2>3, NothingHeld, StepKeepsLocks
<1> QED BY <1>5, <1>6, <1>7 DEF EnsureSlot

-----------------------------------------------------------------------------
(***************************************************************************)
(* The actions.                                                            *)
(***************************************************************************)
LEMMA RequestKeepsLocks ==
    ASSUME LockInv, TypeInv', CapInv', NEW t \in Clients, Request(t)
    PROVE  LockInv'
<1> USE DEF LockInv
<1>1. t \in Tasks
  BY DEF Tasks
<1>2. PICK s \in Sessions :
        \/ RequestAdd(t, s)
        \/ \E op \in Ops, x \in Texts \cup {None} : RequestSlot(t, op, s, x)
        \/ \E op \in Ops : RequestLock(t, op, s)
  BY DEF Request
<1>3. pc[t] = "idle" /\ UNCHANGED <<records, live, victim>> /\ victim[t] = None
  BY <1>1, <1>2, VictimOf DEF RequestAdd, RequestSlot, RequestLock, Accept
<1>4. PICK c \in {"slot", "lock"}, op \in SlotOps \cup LockOps, x \in Texts \cup {None} :
        /\ req' = [req EXCEPT ![t] = [op |-> op, session |-> s, text |-> x]]
        /\ pc' = [pc EXCEPT ![t] = c]
        /\ \/ /\ op = "add" /\ c = "slot" /\ s \notin born /\ born' = born \cup {s}
              /\ UNCHANGED lock
           \/ /\ op # "add" /\ s \in records /\ born' = born
              /\ \/ c = "slot" /\ UNCHANGED lock
                 \/ c = "lock" /\ lock' = [lock EXCEPT ![s] = Append(@, t)]
  <2>1. CASE RequestAdd(t, s)
    BY <2>1 DEF RequestAdd, Accept, SlotOps
  <2>2. CASE \E op \in Ops, x \in Texts \cup {None} : RequestSlot(t, op, s, x)
    BY <2>2 DEF RequestSlot, Accept, SlotOps
  <2>3. CASE \E op \in Ops : RequestLock(t, op, s)
    BY <2>3 DEF RequestLock, Accept, LockOps
  <2> QED BY <1>2, <2>1, <2>2, <2>3
<1>5. /\ req'[t].op = op /\ req'[t].session = s /\ pc'[t] = c /\ victim'[t] = None
      /\ MovesOnly(t)
  BY <1>1, <1>3, <1>4 DEF MovesOnly, TypeInv, TypeOK, TaskOK
<1>6. KeepsHeld(t, lock')
  BY <1>1, <1>4, AskedFor, HeldStays
<1>7. PoolStep(t)
  BY <1>3, <1>4 DEF PoolStep, Born
<1>8. Named(t)' \subseteq {None} \cup records \cup (born' \ born)
  BY <1>4, <1>5 DEF Named
<1>9. Locked(t)'
  BY <1>5 DEF Locked, InTransition, MakesRoom
<1>10. Fresh(t)'
  <2>1. ASSUME op = "add", NEW u \in Tasks \ {t}
        PROVE  s \notin Named(u)'
    <3>1. Named(u)' = Named(u)
      BY <1>5 DEF MovesOnly, Named
    <3>2. Named(u) \subseteq born \cup {None} /\ s # None
      BY SessionsAssumption DEF Born
    <3> QED BY <1>4, <2>1, <3>1, <3>2
  <2> QED BY <1>3, <1>4, <1>5, <2>1 DEF Fresh, Adding, Born
<1> QED BY <1>1, <1>5, <1>6, <1>7, <1>8, <1>9, <1>10, StepKeepsLocks

LEMMA SlotGrantedKeepsLocks ==
    ASSUME LockInv, TypeInv', CapInv', NEW t \in Tasks, SlotGranted(t)
    PROVE  LockInv'
<1> USE DEF LockInv
<1> DEFINE s == req[t].session
<1>1. /\ pc[t] = "slot" /\ Holds(t, slotLock) /\ UNCHANGED <<slotLock, req>>
      /\ s \in Sessions
  BY RequestOf DEF SlotGranted
<1>2. CASE req[t].op = "add" /\ EnsureSlot(t)
  BY <1>1, <1>2, EnsureSlotKeepsLocks
<1>3. CASE /\ lock' = [lock EXCEPT ![s] = Append(@, t)]
           /\ pc' = [pc EXCEPT ![t] = "lock"]
           /\ UNCHANGED <<poolVars, victim>>
  <2>1. MovesOnly(t) /\ pc'[t] \in {"lock", "scheduled"}
    BY <1>1, <1>3, OwnStep DEF Counters
  <2>2. KeepsHeld(t, lock')
    BY <1>1, <1>3, AskedFor
  <2>3. PoolStep(t) /\ Named(t)' = Named(t)
    BY <1>1, <1>3 DEF PoolStep, Born, Named, poolVars
  <2> QED BY <2>1, <2>2, <2>3, NothingHeld, StepKeepsLocks
<1>4. CASE /\ pc' = [pc EXCEPT ![t] = "raise"]
           /\ UNCHANGED <<poolVars, lock, victim>>
  BY <1>1, <1>4, QuietStepKeepsLocks DEF Counters, poolVars
<1> QED BY <1>2, <1>3, <1>4 DEF SlotGranted

LEMMA LockGrantedKeepsLocks ==
    ASSUME LockInv, TypeInv', CapInv', NEW t \in Tasks, LockGranted(t)
    PROVE  LockInv'
<1> USE DEF LockInv
<1> DEFINE s == req[t].session
<1>1. /\ pc[t] = "lock" /\ victim[t] = None /\ Holds(t, lock[s]) /\ s = Subject(t)
      /\ UNCHANGED <<slotLock, req>>
  BY VictimOf DEF LockGranted, Subject
<1>2. CASE req[t].op \in {"send", "resume"} /\ s \in records \ live /\ EnsureSlot(t)
  <2>1. Holds(t, slotLock)
    BY <1>1, <1>2 DEF CapInv, RoomOf, UsesSlot, SlotOps
  <2> QED BY <1>1, <1>2, <2>1, EnsureSlotKeepsLocks
<1>3. CASE req[t].op # "add" /\ Stop(t, s)
  BY <1>1, <1>3, SettleKeepsLocks DEF Stop, lockVars
<1>4. CASE /\ \E c \in {"ret", "raise", "begin", "overlap", "telling"} :
                 pc' = [pc EXCEPT ![t] = c]
           /\ UNCHANGED <<records, live, born, lock, victim>>
  BY <1>1, <1>4, QuietStepKeepsLocks DEF Counters
<1>5. CASE req[t].op = "send" /\ Send(t, s) /\ s \in live
  BY <1>4, <1>5 DEF Send, StartTurn, poolVars
<1>6. CASE req[t].op = "resume" /\ Resume(t, s) /\ s \in live
  BY <1>4, <1>6 DEF Resume, poolVars
<1>7. CASE Revert(t, s) /\ ~Stop(t, s)
  BY <1>4, <1>7 DEF Revert, poolVars
<1>8. CASE Cancel(t, s)
  <2>1. pc' = [pc EXCEPT ![t] = "telling"] \/ pc' = [pc EXCEPT ![t] = "ret"]
    BY <1>8 DEF Cancel
  <2> QED BY <1>4, <1>8, <2>1 DEF Cancel, poolVars
<1>9. CASE ~Known(s)
  BY <1>4, <1>9 DEF LockGranted, poolVars
<1>10. CASE Known(s)
  <2>1. \/ req[t].op = "send" /\ Send(t, s)
        \/ req[t].op = "resume" /\ Resume(t, s)
        \/ req[t].op # "add" /\ Stop(t, s)
        \/ req[t].op # "add" /\ Revert(t, s)
        \/ Cancel(t, s)
    BY <1>10 DEF LockGranted
  <2>2. s \in records
    BY <1>10 DEF Known
  <2> QED BY <1>2, <1>3, <1>5, <1>6, <1>7, <1>8, <2>1, <2>2 DEF Send, Resume
<1> QED BY <1>9, <1>10

LEMMA EndingKeepsLocks ==
    ASSUME LockInv, TypeInv', CapInv', NEW t \in Tasks, VictimLocked(t) \/ Settled(t)
    PROVE  LockInv'
<1> USE DEF LockInv
<1>1. CASE VictimLocked(t)
  <2>1. /\ pc[t] = "evicting" /\ Holds(t, lock[victim[t]]) /\ victim[t] # None
        /\ UNCHANGED <<lockVars, req, victim>>
    BY <1>1 DEF VictimLocked, CapInv, RoomOf
  <2>2. victim[t] = Subject(t)
    BY <2>1 DEF Subject
  <2>3. CASE Settle(t, victim[t])
    BY <2>1, <2>2, <2>3, SettleKeepsLocks
  <2>4. CASE pc' = [pc EXCEPT ![t] = "raise"] /\ UNCHANGED poolVars
    BY <2>1, <2>4, QuietStepKeepsLocks DEF Counters, poolVars, lockVars
  <2> QED BY <1>1, <2>3, <2>4 DEF VictimLocked
<1>2. CASE Settled(t)
  <2>1. pc[t] = "settling" /\ TearDown(t, Subject(t)) /\ UNCHANGED <<lockVars, req, victim>>
    BY <1>2 DEF Settled
  <2>2. Holds(t, lock[Subject(t)])
    BY <2>1 DEF Locked, InTransition
  <2> QED BY <2>1, <2>2, TearDownKeepsLocks
<1> QED BY <1>1, <1>2

LEMMA ClosedKeepsLocks ==
    ASSUME LockInv, TypeInv', CapInv', NEW t \in Tasks, Closed(t)
    PROVE  LockInv'
<1> USE DEF LockInv
<1>1. pc[t] = "closing" /\ UNCHANGED <<slotLock, req>> /\ req[t] \in Requests
  BY RequestOf DEF Closed
<1>2. CASE victim[t] = None
  <2>1. pc' = [pc EXCEPT ![t] = "ret"] /\ UNCHANGED <<poolVars, lock, victim>>
    BY <1>2 DEF Closed
  <2> QED BY <1>1, <2>1, QuietStepKeepsLocks DEF Counters, poolVars
<1>3. CASE victim[t] # None
  <2> DEFINE held == [lock EXCEPT ![victim[t]] = Released(t, @)]
  <2>1. MakesRoom(t) /\ Holds(t, slotLock)
    BY <1>1, <1>3, VictimOf DEF MakesRoom
  <2>2. /\ victim[t] \in Sessions /\ victim[t] # req[t].session
        /\ req[t].op # "add" => Holds(t, lock[req[t].session])
                                /\ req[t].session \in records
    BY <1>3, <2>1, VictimOf DEF Locked
  <2>3. held \in [Sessions -> Seq(Tasks)]
    BY ReleasedType DEF TypeInv, TypeOK, LockOK
  <2>4. KeepsHeld(t, held)
    BY <2>2, HoldsReleased DEF KeepsHeld, TypeInv, TypeOK, LockOK
  <2>5. req[t].op # "add" => Holds(t, held[req[t].session])
    <3>1. req[t].session \in Sessions
      BY <1>1, RequestFields
    <3> QED BY <2>2, <3>1 DEF TypeInv, TypeOK, LockOK
  <2>6. (Activate(t, held) \/ Refuse(t, held)) /\ victim' = [victim EXCEPT ![t] = None]
    BY <1>3 DEF Closed
  <2>7. req[t].op = "add" => Adding(t)
    BY <1>1 DEF Adding
  <2> HIDE DEF held
  <2> QED BY <1>1, <2>1, <2>2, <2>3, <2>4, <2>5, <2>6, <2>7, ActivateKeepsLocks
<1> QED BY <1>2, <1>3

LEMMA LaunchedKeepsLocks ==
    ASSUME LockInv, TypeInv', CapInv', NEW t \in Tasks, Launched(t)
    PROVE  LockInv'
<1> USE DEF LockInv
<1>1. pc[t] = "launching" /\ victim[t] = None /\ InTransition(t)
      /\ UNCHANGED <<lock, slotLock, req, victim, born>>
  BY VictimOf DEF Launched, LaunchOk, LaunchFails, lockVars, InTransition
<1>2. CASE LaunchOk(t)
  BY <1>1, <1>2, QuietStepKeepsLocks DEF LaunchOk, Counters
<1>3. CASE LaunchFails(t)
  <2>1. MovesOnly(t) /\ pc'[t] \in {"raise", "scheduled"}
    BY <1>1, <1>3, OwnStep DEF LaunchFails, Counters
  <2>2. Holds(t, lock[req[t].session])
    BY <1>1 DEF Locked, Subject
  <2>3. PoolStep(t)
    BY <1>1, <1>3, <2>2 DEF LaunchFails, PoolStep, Born
  <2>4. Named(t)' = Named(t) /\ KeepsHeld(t, lock')
    BY <1>1, HeldStays DEF Named
  <2> QED BY <2>1, <2>3, <2>4, NothingHeld, StepKeepsLocks
<1> QED BY <1>2, <1>3 DEF Launched

\* Leaving all locks takes none from the others.
LEMMA LeavingKeepsLocks ==
    ASSUME LockInv, TypeInv', CapInv', NEW t \in Tasks, ReleaseAll(t), MovesOnly(t),
           pc'[t] \in {"turn", "idle"}, UNCHANGED <<records, live, born>>,
           Named(t)' \subseteq Named(t) \cup {None}
    PROVE  LockInv'
<1>1. KeepsHeld(t, lock')
  BY HeldStays DEF ReleaseAll
<1>2. PoolStep(t)
  BY DEF PoolStep, LockInv, Born
<1> QED BY <1>1, <1>2, NothingHeld, StepKeepsLocks

LEMMA TurnKeepsLocks ==
    ASSUME LockInv, TypeInv', CapInv', NEW t \in Tasks, Ready(t) \/ Told(t) \/ FirstStep(t)
    PROVE  LockInv'
<1> USE DEF LockInv
<1>1. /\ pc[t] \in {"ready", "telling", "begin", "overlap"} /\ victim[t] = None
      /\ InTransition(t) /\ UNCHANGED <<req, victim, records, live, born>>
  BY VictimOf DEF Ready, Told, FirstStep, InTransition, poolVars
<1>2. CASE UNCHANGED lockVars /\ \E c \in {"ret", "begin", "overlap"} :
              pc' = [pc EXCEPT ![t] = c]
  BY <1>1, <1>2, QuietStepKeepsLocks DEF Counters, lockVars
<1>3. CASE ReleaseAll(t) /\ pc' = [pc EXCEPT ![t] = "turn"]
  <2>1. MovesOnly(t) /\ pc'[t] = "turn"
    BY <1>1, <1>3, OwnStep DEF Counters, TypeInv, TypeOK, TaskOK
  <2> QED BY <1>1, <1>3, <2>1, LeavingKeepsLocks DEF Named
<1> QED BY <1>2, <1>3 DEF Ready, Told, FirstStep, StartTurn, GiveUpLocks

LEMMA ReturnKeepsLocks ==
    ASSUME LockInv, TypeInv', CapInv', NEW t \in Tasks, Return(t)
    PROVE  LockInv'
<1>1. /\ req' = [req EXCEPT ![t] = NoRequest] /\ victim' = [victim EXCEPT ![t] = None]
      /\ pc' = [pc EXCEPT ![t] = "idle"]
      /\ ReleaseAll(t) /\ UNCHANGED <<records, live, born>>
  BY DEF Return, poolVars
<1>2. MovesOnly(t) /\ pc'[t] = "idle" /\ Named(t)' = {None}
  BY <1>1 DEF MovesOnly, Named, NoRequest, LockInv, TypeInv, TypeOK, TaskOK
<1> QED BY <1>1, <1>2, LeavingKeepsLocks

LEMMA TurnEndsMoves ==
    ASSUME TypeInv, NEW s \in Sessions, TurnEnds(s)
    PROVE  \A u \in Tasks :
              /\ victim'[u] = victim[u] /\ req'[u] = req[u]
              /\ \/ pc'[u] = pc[u]
                 \/ pc[u] \in {"off", "turn"} /\ pc'[u] \in {"scheduled", "woken"}
<1> DEFINE woken == [t \in Tasks |->
                IF pc[t] = "turn" /\ req[t].session = s THEN "woken" ELSE pc[t]]
<1>1. UNCHANGED <<req, victim>> /\ pc' = Scheduled(woken)
  BY DEF TurnEnds
<1>2. /\ woken \in [Tasks -> Counters]
      /\ \A u \in Tasks : woken[u] = pc[u] \/ (pc[u] = "turn" /\ woken[u] = "woken")
  BY DEF TypeInv, TypeOK, TaskOK, Counters
<1> HIDE DEF woken
<1> QED BY <1>1, <1>2 DEF Scheduled

LEMMA TurnEndsKeepsLocks ==
    ASSUME LockInv, TypeInv', CapInv', NEW s \in Sessions, TurnEnds(s)
    PROVE  LockInv'
<1> USE DEF LockInv
<1>1. UNCHANGED <<records, live, born, lock, slotLock>>
  BY DEF TurnEnds, lockVars
<1>2. Drain \in Tasks /\ MovesOnly(Drain) /\ Named(Drain)' = Named(Drain)
  BY TurnEndsMoves DEF Tasks, MovesOnly, Named
<1>3. KeepsHeld(Drain, lock') /\ PoolStep(Drain)
  BY <1>1, <1>2, HeldStays DEF PoolStep, Born
<1>4. Locked(Drain)' /\ Fresh(Drain)'
  <2>1. CASE pc'[Drain] \in {"scheduled", "woken"}
    BY <1>2, <2>1, NothingHeld
  <2>2. CASE pc'[Drain] = pc[Drain]
    <3>1. victim'[Drain] = victim[Drain] /\ req'[Drain] = req[Drain]
      BY <1>2, TurnEndsMoves
    <3>2. \A u \in Tasks : Named(u)' = Named(u)
      BY TurnEndsMoves DEF Named
    <3>3. Locked(Drain)'
      BY <1>1, <1>2, <2>2, <3>1 DEF Locked, InTransition, MakesRoom, Subject
    <3> QED BY <1>1, <1>2, <2>2, <3>1, <3>2, <3>3 DEF Fresh, Adding
  <2> QED BY <1>2, <2>1, <2>2, TurnEndsMoves
<1> QED BY <1>2, <1>3, <1>4, StepKeepsLocks

\* The drain turns to a session that exists, or stays with its own.
LEMMA DrainKeepsLocks ==
    ASSUME LockInv, TypeInv', CapInv', DrainStep
    PROVE  LockInv'
<1> USE DEF LockInv
<1>1. Drain \in Tasks /\ UNCHANGED <<records, live, born>>
  BY DEF Tasks, DrainStep, DrainStart, DrainReturns, DrainCatches, poolVars
<1>2. \A u \in Tasks \ {Drain} : victim'[u] = victim[u]
  BY DEF DrainStep, DrainStart, DrainReturns, DrainCatches, TypeInv, TypeOK, TaskOK
<1>3. victim'[Drain] = None
  BY <1>1, VictimOf
     DEF DrainStep, DrainStart, DrainReturns, DrainCatches, TypeInv, TypeOK, TaskOK
<1>4. KeepsHeld(Drain, lock')
  BY <1>1, HeldStays DEF DrainStep, DrainStart, DrainReturns, DrainCatches
<1> DEFINE Moves(z, c, x, op) ==
              /\ pc' = [pc EXCEPT ![Drain] = c]
              /\ req' = [req EXCEPT ![Drain] = [op |-> op, session |-> z, text |-> x]]
<1>5. \E z \in {req[Drain].session, None} \cup records, x \in {None, queuedText[req[Drain].session]} :
         \/ Moves(z, "off", x, None) \/ Moves(z, "slot", x, "send")
         \/ Moves(z, "slot", x, "resume")
  <2>1. ASSUME NEW q \in Seq(Sessions), NEW free, DrainNext(q, free)
        PROVE  \/ DrainOver(free)
               \/ \E z \in records : DrainAsks("resume", z, None, free)
    BY <2>1, FirstLeftProperties DEF DrainNext
  <2>2. PICK free :
          \/ DrainOver(free)
          \/ \E z \in records : DrainAsks("resume", z, None, free)
          \/ DrainAsks("send", req[Drain].session, queuedText[req[Drain].session], free)
    BY <2>1 DEF DrainStep, DrainStart, DrainReturns, DrainCatches,
                TypeInv, TypeOK, QueueOK, TaskOK
  <2>3. CASE DrainOver(free)
    <3>1. Moves(None, "off", None, None)
      BY <2>3 DEF DrainOver, NoRequest
    <3> HIDE DEF Moves
    <3> QED BY <3>1
  <2>4. CASE \E z \in records : DrainAsks("resume", z, None, free)
    <3>1. PICK z \in records : DrainAsks("resume", z, None, free)
      BY <2>4
    <3>2. Moves(z, "slot", None, "resume")
      BY <3>1 DEF DrainAsks
    <3> HIDE DEF Moves
    <3> QED BY <3>2
  <2>5. CASE DrainAsks("send", req[Drain].session, queuedText[req[Drain].session], free)
    <3>1. Moves(req[Drain].session, "slot", queuedText[req[Drain].session], "send")
      BY <2>5 DEF DrainAsks
    <3> HIDE DEF Moves
    <3> QED BY <3>1
  <2> QED BY <2>2, <2>3, <2>4, <2>5
<1>6. /\ MovesOnly(Drain) /\ pc'[Drain] \in {"off", "slot"}
      /\ Named(Drain)' \subseteq Named(Drain) \cup {None} \cup records
      /\ req'[Drain].op # "add" \/ pc'[Drain] = "off"
  BY <1>1, <1>2, <1>3, <1>5 DEF MovesOnly, Named, TypeInv, TypeOK, TaskOK
<1>7. PoolStep(Drain)
  BY <1>1 DEF PoolStep, Born
<1>8. Locked(Drain)' /\ Fresh(Drain)'
  BY <1>6 DEF Locked, Fresh, InTransition, MakesRoom, Adding
<1> QED BY <1>1, <1>4, <1>6, <1>7, <1>8, StepKeepsLocks

LEMMA NextKeepsLocks ==
    ASSUME LockInv, [Next]_vars
    PROVE  LockInv'
<1>0. TypeInv' /\ CapInv'
  BY NextTypeInv, NextKeepsCap DEF LockInv
<1>1. CASE UNCHANGED vars
  BY <1>0, <1>1 DEF vars, poolVars, lockVars, LockInv, Born, Locked, Fresh, Adding,
              Named, InTransition, MakesRoom, Subject
<1>2. CASE \E t \in Clients : Request(t)
  BY <1>0, <1>2, RequestKeepsLocks
<1>3. ASSUME NEW t \in Tasks, TaskStep(t)
      PROVE  LockInv'
  BY <1>0, <1>3, SlotGrantedKeepsLocks, LockGrantedKeepsLocks, EndingKeepsLocks,
     ClosedKeepsLocks, LaunchedKeepsLocks, TurnKeepsLocks, ReturnKeepsLocks DEF TaskStep
<1>4. CASE DrainStep
  BY <1>0, <1>4, DrainKeepsLocks
<1>5. CASE \E s \in Sessions : TurnEnds(s)
  BY <1>0, <1>5, TurnEndsKeepsLocks
<1> QED BY <1>1, <1>2, <1>3, <1>4, <1>5 DEF Next

LEMMA InitLockInv == Init => LockInv
<1> SUFFICES ASSUME Init
             PROVE  LockInv
  OBVIOUS
<1>1. TypeInv /\ CapInv
  BY InitTypeInv, InitCapInv
<1>2. Born
  BY DEF Init, Born, Named, NoRequest
<1>3. ASSUME NEW t \in Tasks
      PROVE  Locked(t) /\ Fresh(t)
  BY DEF Init, Locked, Fresh, Adding, InTransition, MakesRoom
<1> QED BY <1>1, <1>2, <1>3 DEF LockInv

LEMMA LockInvariant == Spec => []LockInv
  BY InitLockInv, NextKeepsLocks, PTL DEF Spec

\* The transitions of a session, client actions, evictions and the drain's, run
\* one after the other (the session lock, record.py and _locked in coordinator.py).
THEOREM Exclusion == Spec => []OneTransitionAtATime
<1>1. LockInv => OneTransitionAtATime
  BY DEF LockInv, Locked, OneTransitionAtATime, Holds
<1> QED BY <1>1, LockInvariant, PTL

-----------------------------------------------------------------------------
(***************************************************************************)
(* The queues of the locks.  A task is in a queue because it waits there   *)
(* or because it holds the lock, and in no queue once it has left.         *)
(***************************************************************************)
Outside == {"idle", "off", "scheduled", "turn", "woken"}

InQueues(t) ==
    /\ t \in ToSet(slotLock) =>
          pc[t] \notin Outside /\ (Holds(t, slotLock) \/ pc[t] = "slot")
    /\ \A s \in Sessions : t \in ToSet(lock[s]) =>
          /\ pc[t] \notin Outside \cup {"slot"}
          /\ pc[t] = "lock" => req[t].session = s
          /\ \/ Holds(t, lock[s]) \/ pc[t] = "lock"
             \/ pc[t] = "evicting" /\ victim[t] = s
    /\ pc[t] = "slot" => t \in ToSet(slotLock)
    /\ pc[t] = "lock" => t \in ToSet(lock[req[t].session])
    /\ pc[t] = "evicting" => t \in ToSet(lock[victim[t]])

QueueInv ==
    /\ IsInjective(slotLock) /\ \A s \in Sessions : IsInjective(lock[s])
    /\ \A t \in Tasks : InQueues(t)

\* A step of t on a queue: it leaves the queue alone, gets in at the end, leaves
\* it, or does both.
QueueStep(t, q, r) ==
    \/ r = q
    \/ t \notin ToSet(q) /\ r = Append(q, t)
    \/ r = Released(t, q)
    \/ (t \in ToSet(q) => Holds(t, q)) /\ r = Append(Released(t, q), t)

LEMMA HeadIsIn ==
    ASSUME NEW S, NEW q \in Seq(S)
    PROVE  /\ q # <<>> => Head(q) \in ToSet(q)
           /\ \A x : x \in ToSet(q) => q # <<>> /\ x \in S
           /\ \A x : Holds(x, q) => x \in ToSet(q)
<1>1. ToSet(q) = {q[i] : i \in 1 .. Len(q)}
  BY LenProperties DEF ToSet
<1>2. q # <<>> => Head(q) = q[1] /\ 1 \in 1 .. Len(q)
  BY LenProperties, HeadTailProperties, EmptySeq
<1>3. \A i \in 1 .. Len(q) : q[i] \in S
  BY ElementOfSeq
<1> QED BY <1>1, <1>2, <1>3, EmptySeq DEF Holds

\* A task that leaves a lock is in its queue no longer.
LEMMA LeavesQueue ==
    ASSUME NEW S, NEW q \in Seq(S), IsInjective(q), NEW t
    PROVE  LET r == Released(t, q) IN
           /\ IsInjective(r)
           /\ \A u : u # t => (u \in ToSet(r) <=> u \in ToSet(q))
           /\ (t \in ToSet(q) => Holds(t, q)) => t \notin ToSet(r)
<1> DEFINE r == Released(t, q)
<1>1. CASE ~ Holds(t, q)
  BY <1>1 DEF Released
<1>2. CASE Holds(t, q)
  <2>1. Len(q) \in Nat /\ DOMAIN q = 1 .. Len(q) /\ ToSet(q) = {q[i] : i \in 1 .. Len(q)}
    BY LenProperties DEF ToSet
  <2>2. r = Tail(q) /\ q # <<>> /\ q[1] = t
    BY <1>2, HeadTailProperties DEF Released, Holds
  <2> HIDE DEF r
  <2>3. Len(r) = Len(q) - 1 /\ Len(q) >= 1 /\ DOMAIN r = 1 .. Len(q) - 1
        /\ \A i \in 1 .. Len(q) - 1 : r[i] = q[i + 1]
    BY <2>1, <2>2, HeadTailProperties, LenProperties, EmptySeq
  <2>4. IsInjective(r)
    BY <2>1, <2>3 DEF IsInjective
  <2>5. t \notin ToSet(r)
    BY <2>1, <2>2, <2>3 DEF IsInjective, ToSet
  <2>6. ASSUME NEW u, u # t
        PROVE  u \in ToSet(r) <=> u \in ToSet(q)
    <3>1. ASSUME u \in ToSet(q)
          PROVE  u \in ToSet(r)
      <4>1. PICK i \in 1 .. Len(q) : q[i] = u
        BY <2>1, <3>1
      <4>2. i # 1 /\ i - 1 \in 1 .. Len(q) - 1 /\ r[i - 1] = u
        BY <2>1, <2>2, <2>3, <2>6, <4>1
      <4> QED BY <2>3, <4>2 DEF ToSet
    <3>2. ASSUME u \in ToSet(r)
          PROVE  u \in ToSet(q)
      BY <2>1, <2>3, <3>2 DEF ToSet
    <3> QED BY <3>1, <3>2
  <2> QED BY <2>4, <2>5, <2>6 DEF r
<1> QED BY <1>1, <1>2

\* A task that asks for a lock is behind those that asked before.
LEMMA EntersQueue ==
    ASSUME NEW S, NEW q \in Seq(S), IsInjective(q), NEW t \in S, t \notin ToSet(q)
    PROVE  /\ IsInjective(Append(q, t))
           /\ ToSet(Append(q, t)) = ToSet(q) \cup {t}
<1>1. Len(q) \in Nat /\ DOMAIN q = 1 .. Len(q) /\ ToSet(q) = {q[i] : i \in 1 .. Len(q)}
  BY LenProperties DEF ToSet
<1> DEFINE r == Append(q, t)
<1>2. /\ Len(r) = Len(q) + 1 /\ DOMAIN r = 1 .. Len(q) + 1 /\ r[Len(q) + 1] = t
      /\ \A i \in 1 .. Len(q) : r[i] = q[i]
  BY AppendProperties, LenProperties
<1> HIDE DEF r
<1>3. ToSet(r) = ToSet(q) \cup {t}
  BY <1>1, <1>2 DEF ToSet
<1>4. IsInjective(r)
  BY <1>1, <1>2 DEF IsInjective
<1> QED BY <1>3, <1>4 DEF r

LEMMA QueueStepProperties ==
    ASSUME NEW S, NEW q \in Seq(S), IsInjective(q), NEW t \in S, NEW r,
           QueueStep(t, q, r)
    PROVE  /\ IsInjective(r)
           /\ \A u : u # t => /\ u \in ToSet(r) <=> u \in ToSet(q)
                              /\ Holds(u, q) => Holds(u, r)
<1>1. CASE t \notin ToSet(q) /\ r = Append(q, t)
  BY <1>1, EntersQueue, HoldsAppend
<1>2. CASE r = Released(t, q)
  BY <1>2, LeavesQueue, HoldsReleased
<1>3. CASE (t \in ToSet(q) => Holds(t, q)) /\ r = Append(Released(t, q), t)
  <2> DEFINE left == Released(t, q)
  <2>1. /\ left \in Seq(S) /\ IsInjective(left) /\ t \notin ToSet(left)
        /\ \A u : u # t => (u \in ToSet(left) <=> u \in ToSet(q))
        /\ \A u : u # t => (Holds(u, q) => Holds(u, left))
    BY <1>3, ReleasedType, LeavesQueue, HoldsReleased
  <2> HIDE DEF left
  <2>2. IsInjective(Append(left, t)) /\ ToSet(Append(left, t)) = ToSet(left) \cup {t}
    BY <2>1, EntersQueue
  <2>3. \A u : Holds(u, left) => Holds(u, Append(left, t))
    BY <2>1, HoldsAppend
  <2> QED BY <1>3, <2>1, <2>2, <2>3 DEF left
<1> QED BY <1>1, <1>2, <1>3 DEF QueueStep

\* An add takes the lock of its session with an empty queue.
TakesNew(t, s, r) == r = <<t>> /\ \A u \in Tasks \ {t} : s \notin Named(u)

LEMMA StepKeepsQueues ==
    ASSUME LockInv, QueueInv, NEW t \in Tasks, MovesOnly(t),
           QueueStep(t, slotLock, slotLock'),
           \A s \in Sessions : QueueStep(t, lock[s], lock'[s]) \/ TakesNew(t, s, lock'[s]),
           InQueues(t)'
    PROVE  QueueInv'
<1>1. slotLock \in Seq(Tasks) /\ \A s \in Sessions : lock[s] \in Seq(Tasks)
  BY DEF LockInv, TypeInv, TypeOK, LockOK
<1>2. /\ IsInjective(slotLock')
      /\ \A u \in Tasks \ {t} : /\ u \in ToSet(slotLock') <=> u \in ToSet(slotLock)
                                /\ Holds(u, slotLock) => Holds(u, slotLock')
  BY <1>1, QueueStepProperties DEF QueueInv
<1>3. ASSUME NEW s \in Sessions
      PROVE  /\ IsInjective(lock'[s])
             /\ \A u \in Tasks \ {t} :
                  /\ u \in ToSet(lock'[s]) => u \in ToSet(lock[s])
                  /\ u \in ToSet(lock[s]) /\ s \in Named(u) => u \in ToSet(lock'[s])
                  /\ Holds(u, lock[s]) /\ u \in ToSet(lock'[s]) => Holds(u, lock'[s])
  <2>1. CASE QueueStep(t, lock[s], lock'[s])
    BY <1>1, <2>1, QueueStepProperties DEF QueueInv
  <2>2. CASE TakesNew(t, s, lock'[s])
    <3>1. ToSet(<<t>>) = {t} /\ IsInjective(<<t>>)
      BY DEF ToSet, IsInjective
    <3> QED BY <2>2, <3>1 DEF TakesNew
  <2> QED BY <1>3, <2>1, <2>2
<1>4. ASSUME NEW u \in Tasks, u # t
      PROVE  InQueues(u)'
  <2>1. victim'[u] = victim[u] /\ req'[u] = req[u] /\ InQueues(u)
    BY <1>4 DEF MovesOnly, QueueInv
  <2>2. CASE pc'[u] # pc[u]
    <3>1. pc[u] \in Outside /\ pc'[u] \in {"scheduled", "woken"}
      BY <1>4, <2>2 DEF MovesOnly, Outside
    <3>2. u \notin ToSet(slotLock) /\ \A s \in Sessions : u \notin ToSet(lock[s])
      BY <2>1, <3>1 DEF InQueues
    <3> QED BY <1>2, <1>3, <1>4, <3>1, <3>2 DEF InQueues
  <2>3. CASE pc'[u] = pc[u]
    <3>1. pc[u] = "lock" => req[u].session \in Named(u) \cap Sessions
      BY RequestOf DEF LockInv, Named
    <3>2. pc[u] = "evicting" => victim[u] \in Named(u) \cap Sessions
      BY DEF LockInv, CapInv, RoomOf, TypeInv, TypeOK, TaskOK, Named
    <3>3. /\ u \in ToSet(slotLock') => pc[u] \notin Outside
                                       /\ (Holds(u, slotLock') \/ pc[u] = "slot")
          /\ pc[u] = "slot" => u \in ToSet(slotLock')
      BY <1>2, <1>4, <2>1 DEF InQueues
    <3>4. ASSUME NEW s \in Sessions, u \in ToSet(lock'[s])
          PROVE  /\ pc[u] \notin Outside \cup {"slot"}
                 /\ pc[u] = "lock" => req[u].session = s
                 /\ \/ Holds(u, lock'[s]) \/ pc[u] = "lock"
                    \/ pc[u] = "evicting" /\ victim[u] = s
      <4>1. u \in ToSet(lock[s])
        BY <1>3, <1>4, <3>4
      <4> QED BY <1>3, <1>4, <2>1, <3>4, <4>1 DEF InQueues
    <3>5. pc[u] = "lock" => u \in ToSet(lock'[req[u].session])
      BY <1>3, <1>4, <2>1, <3>1 DEF InQueues
    <3>6. pc[u] = "evicting" => u \in ToSet(lock'[victim[u]])
      BY <1>3, <1>4, <2>1, <3>2 DEF InQueues
    <3> QED BY <2>1, <2>3, <3>3, <3>4, <3>5, <3>6 DEF InQueues
  <2> QED BY <2>2, <2>3
<1> QED BY <1>2, <1>3, <1>4 DEF QueueInv

\* A task that goes on has what it is in the queue for.
HoldsAll(t) ==
    /\ t \in ToSet(slotLock) => Holds(t, slotLock)
    /\ \A s \in Sessions : t \in ToSet(lock[s]) => Holds(t, lock[s])

LEMMA GoesOn ==
    ASSUME QueueInv, NEW t \in Tasks,
           \/ pc[t] \notin {"slot", "lock", "evicting"}
           \/ pc[t] = "slot" /\ Holds(t, slotLock)
           \/ pc[t] = "lock" /\ Holds(t, lock[req[t].session])
           \/ pc[t] = "evicting" /\ Holds(t, lock[victim[t]])
    PROVE  /\ HoldsAll(t)
           /\ pc[t] \in Outside => t \notin ToSet(slotLock)
           /\ pc[t] \in Outside \cup {"slot"} => \A s \in Sessions : t \notin ToSet(lock[s])
  BY DEF QueueInv, InQueues, HoldsAll

\* A step that keeps the locks it has, or leaves some, and asks for none.
LEMMA QuietStepKeepsQueues ==
    ASSUME LockInv, QueueInv, NEW t \in Tasks, MovesOnly(t), HoldsAll(t),
           pc'[t] \notin Outside \cup {"slot", "lock", "evicting"},
           UNCHANGED slotLock,
           \A s \in Sessions : \/ lock'[s] = lock[s] \/ lock'[s] = Released(t, lock[s])
                               \/ TakesNew(t, s, lock'[s])
    PROVE  QueueInv'
<1>1. \A s \in Sessions : lock[s] \in Seq(Tasks) /\ IsInjective(lock[s])
  BY DEF LockInv, TypeInv, TypeOK, LockOK, QueueInv
<1>2. ASSUME NEW s \in Sessions, t \in ToSet(lock'[s])
      PROVE  Holds(t, lock'[s])
  <2>1. CASE lock'[s] = lock[s]
    BY <1>2, <2>1 DEF HoldsAll
  <2>2. CASE lock'[s] = Released(t, lock[s])
    BY <1>1, <1>2, <2>2, LeavesQueue DEF HoldsAll
  <2>3. CASE TakesNew(t, s, lock'[s])
    BY <2>3 DEF TakesNew, Holds
  <2> QED BY <1>2, <2>1, <2>2, <2>3
<1>3. InQueues(t)'
  BY <1>2 DEF InQueues, HoldsAll
<1> QED BY <1>3, StepKeepsQueues DEF QueueStep

\* A step that leaves every lock.
LEMMA LeavingKeepsQueues ==
    ASSUME LockInv, QueueInv, NEW t \in Tasks, MovesOnly(t), HoldsAll(t),
           pc'[t] \in Outside, ReleaseAll(t)
    PROVE  QueueInv'
<1>1. /\ slotLock \in Seq(Tasks) /\ \A s \in Sessions : lock[s] \in Seq(Tasks)
      /\ IsInjective(slotLock) /\ \A s \in Sessions : IsInjective(lock[s])
  BY DEF LockInv, TypeInv, TypeOK, LockOK, QueueInv
<1>2. /\ t \notin ToSet(slotLock') /\ slotLock' = Released(t, slotLock)
      /\ \A s \in Sessions : t \notin ToSet(lock'[s]) /\ lock'[s] = Released(t, lock[s])
  BY <1>1, LeavesQueue DEF ReleaseAll, HoldsAll
<1>3. InQueues(t)'
  BY <1>2 DEF InQueues, Outside
<1> QED BY <1>2, <1>3, StepKeepsQueues DEF QueueStep

LEMMA EnsureSlotKeepsQueues ==
    ASSUME LockInv, QueueInv, NEW t \in Tasks, EnsureSlot(t), HoldsAll(t),
           pc[t] \in {"slot", "lock"}, UNCHANGED <<slotLock, req>>,
           req[t].op = "add" => Adding(t),
           req[t].session \notin live,
           pc[t] = "lock" => Holds(t, lock[req[t].session])
    PROVE  QueueInv'
<1> USE DEF LockInv
<1> DEFINE s == req[t].session
<1>1. s \in Sessions /\ victim[t] = None
  BY RequestOf, VictimOf
<1>2. CASE Activate(t, lock) /\ UNCHANGED victim
  <2>1. MovesOnly(t) /\ pc'[t] = "launching"
    <3>1. pc' = [pc EXCEPT ![t] = "launching"]
      BY <1>2 DEF Activate
    <3> QED BY <1>2, <3>1, OwnStep DEF Counters, TypeInv, TypeOK, TaskOK
  <2>2. \A z \in Sessions : lock'[z] = lock[z] \/ TakesNew(t, z, lock'[z])
    <3>1. CASE req[t].op = "add"
      <4>1. lock' = [lock EXCEPT ![s] = <<t>>]
        BY <1>2, <3>1 DEF Activate, Entered
      <4>2. \A u \in Tasks \ {t} : s \notin Named(u)
        BY <3>1 DEF Fresh
      <4> QED BY <1>1, <4>1, <4>2 DEF TakesNew, TypeInv, TypeOK, LockOK
    <3>2. CASE req[t].op # "add"
      BY <1>2, <3>2 DEF Activate, Entered
    <3> QED BY <3>1, <3>2
  <2> QED BY <2>1, <2>2, QuietStepKeepsQueues DEF Outside
<1>3. CASE (Refuse(t, lock) \/ Enqueue(t)) /\ UNCHANGED victim
  <2>1. PICK c \in {"raise", "ret"} : pc' = [pc EXCEPT ![t] = c]
    BY <1>3 DEF Refuse, Enqueue
  <2>2. MovesOnly(t) /\ pc'[t] = c /\ lock' = lock
    BY <1>3, <2>1, OwnStep DEF Refuse, Enqueue, Counters, TypeInv, TypeOK, TaskOK
  <2> QED BY <2>2, QuietStepKeepsQueues DEF Outside
<1>4. CASE \E v \in Candidates : Evict(t, v)
  <2>1. PICK v \in Candidates : Evict(t, v)
    BY <1>4
  <2>2. v \in Sessions /\ v # s
    BY DEF Candidates, TypeInv, TypeOK, PoolOK
  <2>3. /\ victim' = [victim EXCEPT ![t] = v] /\ pc' = [pc EXCEPT ![t] = "evicting"]
        /\ lock' = [lock EXCEPT ![v] = Append(@, t)]
    BY <2>1 DEF Evict
  <2>4. MovesOnly(t) /\ pc'[t] = "evicting" /\ victim'[t] = v
    <3>1. \A u \in Tasks \ {t} : victim'[u] = victim[u]
      BY <2>3 DEF TypeInv, TypeOK, TaskOK
    <3>2. pc'[t] = "evicting" /\ victim'[t] = v
      BY <2>3 DEF TypeInv, TypeOK, TaskOK
    <3> QED BY <2>3, <3>1, <3>2, OwnStep DEF Counters
  <2>5. t \notin ToSet(lock[v])
    BY <2>2 DEF QueueInv, InQueues
  <2>6. /\ lock'[v] = Append(lock[v], t)
        /\ \A z \in Sessions \ {v} : lock'[z] = lock[z]
        /\ \A z \in Sessions : lock[z] \in Seq(Tasks) /\ IsInjective(lock[z])
    BY <2>2, <2>3 DEF TypeInv, TypeOK, LockOK, QueueInv
  <2>7. t \in ToSet(lock'[v])
    BY <2>2, <2>5, <2>6, EntersQueue
  <2>8. InQueues(t)'
    BY <2>2, <2>4, <2>6, <2>7 DEF InQueues, HoldsAll, Outside
  <2> QED BY <2>4, <2>5, <2>6, <2>8, StepKeepsQueues DEF QueueStep
<1> QED BY <1>2, <1>3, <1>4 DEF EnsureSlot

LEMMA RequestKeepsQueues ==
    ASSUME LockInv, QueueInv, NEW t \in Clients, Request(t)
    PROVE  QueueInv'
<1> USE DEF LockInv
<1>1. t \in Tasks
  BY DEF Tasks
<1>2. PICK s \in Sessions :
        \/ RequestAdd(t, s)
        \/ \E op \in Ops, x \in Texts \cup {None} : RequestSlot(t, op, s, x)
        \/ \E op \in Ops : RequestLock(t, op, s)
  BY DEF Request
<1>3. pc[t] = "idle" /\ UNCHANGED victim
  BY <1>2 DEF RequestAdd, RequestSlot, RequestLock, Accept
<1>4. PICK op \in SlotOps \cup LockOps, x \in Texts \cup {None}, c \in {"slot", "lock"} :
        /\ req' = [req EXCEPT ![t] = [op |-> op, session |-> s, text |-> x]]
        /\ pc' = [pc EXCEPT ![t] = c]
        /\ \/ c = "slot" /\ slotLock' = Append(slotLock, t) /\ UNCHANGED lock
           \/ c = "lock" /\ lock' = [lock EXCEPT ![s] = Append(@, t)] /\ UNCHANGED slotLock
  <2>1. CASE RequestAdd(t, s)
    BY <2>1 DEF RequestAdd, Accept, SlotOps
  <2>2. CASE \E op \in Ops, x \in Texts \cup {None} : RequestSlot(t, op, s, x)
    BY <2>2 DEF RequestSlot, Accept, SlotOps
  <2>3. CASE \E op \in Ops : RequestLock(t, op, s)
    BY <2>3 DEF RequestLock, Accept, LockOps
  <2> QED BY <1>2, <2>1, <2>2, <2>3
<1>5. /\ req'[t].session = s /\ pc'[t] = c /\ MovesOnly(t)
  BY <1>1, <1>3, <1>4 DEF MovesOnly, TypeInv, TypeOK, TaskOK
<1>6. t \notin ToSet(slotLock) /\ \A z \in Sessions : t \notin ToSet(lock[z])
  BY <1>1, <1>3, GoesOn DEF Outside
<1>7. /\ slotLock \in Seq(Tasks) /\ \A z \in Sessions : lock[z] \in Seq(Tasks)
      /\ IsInjective(slotLock) /\ \A z \in Sessions : IsInjective(lock[z])
  BY DEF TypeInv, TypeOK, LockOK, QueueInv
<1>8. CASE c = "slot"
  <2>1. slotLock' = Append(slotLock, t) /\ lock' = lock
    BY <1>4, <1>8
  <2>2. t \in ToSet(slotLock')
    BY <1>1, <1>6, <1>7, <2>1, EntersQueue
  <2>3. InQueues(t)'
    BY <1>5, <1>6, <1>8, <2>1, <2>2 DEF InQueues, Outside
  <2> QED BY <1>1, <1>5, <1>6, <2>1, <2>3, StepKeepsQueues DEF QueueStep
<1>9. CASE c = "lock"
  <2>1. /\ slotLock' = slotLock /\ lock'[s] = Append(lock[s], t)
        /\ \A z \in Sessions \ {s} : lock'[z] = lock[z]
    BY <1>4, <1>9 DEF TypeInv, TypeOK, LockOK
  <2>2. t \in ToSet(lock'[s])
    BY <1>1, <1>6, <1>7, <2>1, EntersQueue
  <2>3. InQueues(t)'
    BY <1>5, <1>6, <1>9, <2>1, <2>2 DEF InQueues, Outside
  <2> QED BY <1>1, <1>5, <1>6, <2>1, <2>3, StepKeepsQueues DEF QueueStep
<1> QED BY <1>8, <1>9

LEMMA SlotGrantedKeepsQueues ==
    ASSUME LockInv, QueueInv, NEW t \in Tasks, SlotGranted(t)
    PROVE  QueueInv'
<1> USE DEF LockInv
<1> DEFINE s == req[t].session
<1>1. /\ pc[t] = "slot" /\ Holds(t, slotLock) /\ UNCHANGED <<slotLock, req>>
      /\ s \in Sessions /\ HoldsAll(t) /\ \A z \in Sessions : t \notin ToSet(lock[z])
  BY RequestOf, GoesOn DEF SlotGranted
<1>2. CASE req[t].op = "add" /\ EnsureSlot(t)
  <2>1. Adding(t)
    BY <1>1, <1>2 DEF Adding
  <2>2. s \notin live
    BY <2>1 DEF Fresh, Born
  <2> QED BY <1>1, <1>2, <2>1, <2>2, EnsureSlotKeepsQueues
<1>3. CASE /\ lock' = [lock EXCEPT ![s] = Append(@, t)]
           /\ pc' = [pc EXCEPT ![t] = "lock"]
           /\ UNCHANGED victim
  <2>1. MovesOnly(t) /\ pc'[t] = "lock"
    BY <1>1, <1>3, OwnStep DEF Counters, TypeInv, TypeOK, TaskOK
  <2>2. /\ lock'[s] = Append(lock[s], t)
        /\ \A z \in Sessions \ {s} : lock'[z] = lock[z]
        /\ lock[s] \in Seq(Tasks) /\ IsInjective(lock[s])
    BY <1>1, <1>3 DEF TypeInv, TypeOK, LockOK, QueueInv
  <2>3. t \in ToSet(lock'[s])
    BY <1>1, <2>2, EntersQueue
  <2>4. InQueues(t)'
    BY <1>1, <2>1, <2>2, <2>3 DEF InQueues, HoldsAll, Outside
  <2> QED BY <1>1, <2>1, <2>2, <2>4, StepKeepsQueues DEF QueueStep
<1>4. CASE /\ pc' = [pc EXCEPT ![t] = "raise"]
           /\ UNCHANGED <<lock, victim>>
  <2>1. MovesOnly(t) /\ pc'[t] = "raise"
    BY <1>1, <1>4, OwnStep DEF Counters, TypeInv, TypeOK, TaskOK
  <2> QED BY <1>1, <1>4, <2>1, QuietStepKeepsQueues DEF Outside
<1> QED BY <1>2, <1>3, <1>4 DEF SlotGranted

\* The steps of a transition, but for its grants and its end, keep their locks.
LEMMA MiddleKeepsQueues ==
    ASSUME LockInv, QueueInv, NEW t \in Tasks, HoldsAll(t), UNCHANGED <<req, lockVars, victim>>,
           NEW c \in {"settling", "closing", "ret", "raise", "ready", "begin", "overlap",
                      "telling", "launching"},
           pc' = [pc EXCEPT ![t] = c] \/ pc' = Scheduled([pc EXCEPT ![t] = c])
    PROVE  QueueInv'
<1>1. /\ [pc EXCEPT ![t] = c] \in [Tasks -> Counters] /\ [pc EXCEPT ![t] = c][t] = c
      /\ c \in Counters
  BY DEF LockInv, TypeInv, TypeOK, TaskOK, Counters
<1>2. pc'[t] = c
  <2>1. CASE pc' = [pc EXCEPT ![t] = c]
    BY <1>1, <2>1
  <2>2. CASE pc' = Scheduled([pc EXCEPT ![t] = c])
    BY <1>1, <2>2 DEF Scheduled
  <2> QED BY <2>1, <2>2
<1>3. MovesOnly(t)
  BY <1>1, OwnStep DEF LockInv
<1> QED BY <1>2, <1>3, QuietStepKeepsQueues DEF Outside, lockVars

LEMMA SettleMoves ==
    ASSUME NEW t, NEW z, Settle(t, z)
    PROVE  \E c \in {"settling", "closing"} : pc' = [pc EXCEPT ![t] = c]
  BY DEF Settle, TearDown

LEMMA LockGrantedKeepsQueues ==
    ASSUME LockInv, QueueInv, NEW t \in Tasks, LockGranted(t)
    PROVE  QueueInv'
<1> DEFINE s == req[t].session
<1>1. /\ pc[t] = "lock" /\ Holds(t, lock[s]) /\ UNCHANGED <<slotLock, req>>
      /\ HoldsAll(t)
  BY GoesOn DEF LockGranted
<1>2. CASE req[t].op # "add" /\ s \notin live /\ EnsureSlot(t)
  BY <1>1, <1>2, EnsureSlotKeepsQueues
<1>3. CASE /\ UNCHANGED <<lock, victim>>
           /\ \E c \in {"settling", "closing", "ret", "raise", "begin", "overlap", "telling"} :
                 pc' = [pc EXCEPT ![t] = c]
  BY <1>1, <1>3, MiddleKeepsQueues DEF lockVars
<1>4. CASE Stop(t, s)
  BY <1>3, <1>4, SettleMoves DEF Stop
<1>5. CASE \/ req[t].op = "send" /\ Send(t, s)
           \/ req[t].op = "resume" /\ Resume(t, s)
  <2>1. s \in live => \E c \in {"ret", "begin", "overlap"} : pc' = [pc EXCEPT ![t] = c]
    BY <1>5 DEF Send, Resume, StartTurn
  <2>2. s \in live => UNCHANGED <<lock, victim>>
    BY <1>5 DEF Send, Resume
  <2> QED BY <1>2, <1>3, <1>5, <2>1, <2>2 DEF Send, Resume
<1>6. CASE Cancel(t, s)
  <2>1. pc' = [pc EXCEPT ![t] = "telling"] \/ pc' = [pc EXCEPT ![t] = "ret"]
    BY <1>6 DEF Cancel
  <2> QED BY <1>3, <1>6, <2>1 DEF Cancel
<1> QED BY <1>3, <1>4, <1>5, <1>6 DEF LockGranted, Revert

LEMMA MiddlesKeepQueues ==
    ASSUME LockInv, QueueInv, NEW t \in Tasks,
           \/ VictimLocked(t) \/ Settled(t) \/ Launched(t) \/ Ready(t) \/ Told(t)
    PROVE  QueueInv'
<1>1. HoldsAll(t) /\ UNCHANGED <<req, lockVars, victim>>
  BY GoesOn DEF VictimLocked, Settled, Launched, LaunchOk, LaunchFails, Ready, Told
<1>2. \E c \in {"settling", "closing", "ret", "raise", "ready", "begin", "overlap"} :
         pc' = [pc EXCEPT ![t] = c] \/ pc' = Scheduled([pc EXCEPT ![t] = c])
  BY SettleMoves DEF VictimLocked, Settled, TearDown, Launched, LaunchOk, LaunchFails,
                     Ready, StartTurn, Told
<1> QED BY <1>1, <1>2, MiddleKeepsQueues

LEMMA ClosedKeepsQueues ==
    ASSUME LockInv, QueueInv, NEW t \in Tasks, Closed(t)
    PROVE  QueueInv'
<1> USE DEF LockInv
<1>1. pc[t] = "closing" /\ HoldsAll(t) /\ UNCHANGED <<slotLock, req>>
  BY GoesOn DEF Closed
<1>2. CASE victim[t] = None
  BY <1>1, <1>2, MiddleKeepsQueues DEF Closed, lockVars
<1>3. CASE victim[t] # None
  <2> DEFINE held == [lock EXCEPT ![victim[t]] = Released(t, @)]
  <2>1. victim[t] \in Sessions /\ req[t].session \in Sessions
        /\ victim[t] # req[t].session
    BY <1>1, <1>3, RequestOf DEF TypeInv, TypeOK, TaskOK, Locked, MakesRoom
  <2>2. \A z \in Sessions : held[z] = lock[z] \/ held[z] = Released(t, lock[z])
    BY <2>1 DEF TypeInv, TypeOK, LockOK
  <2>3. held \in [Sessions -> Seq(Tasks)]
    BY ReleasedType DEF TypeInv, TypeOK, LockOK
  <2>4. victim' = [victim EXCEPT ![t] = None] /\ (Activate(t, held) \/ Refuse(t, held))
    BY <1>3 DEF Closed
  <2> HIDE DEF held
  <2>5. PICK c \in {"launching", "raise"} : pc' = [pc EXCEPT ![t] = c]
    BY <2>4 DEF Activate, Refuse
  <2>6. MovesOnly(t) /\ pc'[t] = c
    BY <1>1, <2>4, <2>5, OwnStep DEF Counters, TypeInv, TypeOK, TaskOK
  <2>7. \A z \in Sessions : lock'[z] = held[z] \/ TakesNew(t, z, lock'[z])
    <3>1. CASE req[t].op = "add" /\ Activate(t, held)
      <4>1. lock' = [held EXCEPT ![req[t].session] = <<t>>]
        BY <3>1 DEF Activate, Entered
      <4>2. \A u \in Tasks \ {t} : req[t].session \notin Named(u)
        BY <1>1, <3>1 DEF Fresh, Adding
      <4> QED BY <2>1, <2>3, <4>1, <4>2 DEF TakesNew
    <3>2. CASE req[t].op # "add" \/ Refuse(t, held)
      BY <2>4, <3>2 DEF Activate, Entered, Refuse
    <3> QED BY <2>4, <3>1, <3>2
  <2> QED BY <1>1, <2>2, <2>6, <2>7, QuietStepKeepsQueues DEF Outside
<1> QED BY <1>2, <1>3

LEMMA FirstStepKeepsQueues ==
    ASSUME LockInv, QueueInv, NEW t \in Tasks, FirstStep(t)
    PROVE  QueueInv'
<1>1. HoldsAll(t) /\ UNCHANGED <<req, victim>>
  BY GoesOn DEF FirstStep
<1>2. CASE pc' = [pc EXCEPT ![t] = "ret"] /\ UNCHANGED lockVars
  BY <1>1, <1>2, MiddleKeepsQueues
<1>3. CASE pc' = [pc EXCEPT ![t] = "turn"] /\ ReleaseAll(t)
  <2>1. MovesOnly(t) /\ pc'[t] = "turn"
    BY <1>1, <1>3, OwnStep DEF Counters, LockInv, TypeInv, TypeOK, TaskOK
  <2> QED BY <1>1, <1>3, <2>1, LeavingKeepsQueues DEF Outside
<1> QED BY <1>2, <1>3 DEF FirstStep, GiveUpLocks

LEMMA ReturnKeepsQueues ==
    ASSUME LockInv, QueueInv, NEW t \in Tasks, Return(t)
    PROVE  QueueInv'
<1>1. HoldsAll(t) /\ ReleaseAll(t)
  BY GoesOn DEF Return
<1>2. MovesOnly(t) /\ pc'[t] = "idle"
  BY DEF Return, MovesOnly, LockInv, TypeInv, TypeOK, TaskOK
<1> QED BY <1>1, <1>2, LeavingKeepsQueues DEF Outside

LEMMA TurnEndsKeepsQueues ==
    ASSUME LockInv, QueueInv, NEW s \in Sessions, TurnEnds(s)
    PROVE  QueueInv'
<1>1. UNCHANGED <<lock, slotLock>>
  BY DEF TurnEnds, lockVars
<1>2. Drain \in Tasks /\ MovesOnly(Drain)
  BY TurnEndsMoves DEF LockInv, Tasks, MovesOnly
<1>3. InQueues(Drain)'
  <2>1. InQueues(Drain) /\ req'[Drain] = req[Drain] /\ victim'[Drain] = victim[Drain]
    BY <1>2, TurnEndsMoves DEF LockInv, QueueInv
  <2>2. \/ pc'[Drain] = pc[Drain]
        \/ pc[Drain] \in {"off", "turn"} /\ pc'[Drain] \in {"scheduled", "woken"}
    BY <1>2, TurnEndsMoves DEF LockInv
  <2> QED BY <1>1, <2>1, <2>2 DEF InQueues, Outside
<1> QED BY <1>1, <1>2, <1>3, StepKeepsQueues DEF QueueStep

\* The drain leaves its locks and asks for the slot lock again, or is over.
LEMMA DrainKeepsQueues ==
    ASSUME LockInv, QueueInv, DrainStep
    PROVE  QueueInv'
<1> USE DEF LockInv
<1> DEFINE free == Released(Drain, slotLock)
<1>1. Drain \in Tasks
  BY DEF Tasks
<1>2. /\ slotLock \in Seq(Tasks) /\ IsInjective(slotLock)
      /\ \A s \in Sessions : lock[s] \in Seq(Tasks) /\ IsInjective(lock[s])
  BY DEF TypeInv, TypeOK, LockOK, QueueInv
<1>3. HoldsAll(Drain)
  BY <1>1, GoesOn DEF DrainStep, DrainStart, DrainReturns, DrainCatches
<1>4. \A u \in Tasks \ {Drain} : victim'[u] = victim[u]
  BY DEF DrainStep, DrainStart, DrainReturns, DrainCatches, TypeInv, TypeOK, TaskOK
<1>5. \A s \in Sessions : /\ lock'[s] = lock[s] \/ lock'[s] = Released(Drain, lock[s])
                          /\ Drain \notin ToSet(lock'[s])
  <2>1. CASE DrainStart
    BY <1>1, <2>1, GoesOn DEF DrainStart, Outside
  <2>2. CASE \A s \in Sessions : lock'[s] = Released(Drain, lock[s])
    BY <1>2, <1>3, <2>2, LeavesQueue DEF HoldsAll
  <2> QED BY <2>1, <2>2 DEF DrainStep, DrainReturns, DrainCatches
<1>6. /\ free \in Seq(Tasks) /\ IsInjective(free) /\ Drain \notin ToSet(free)
      /\ DrainStart => free = slotLock
  <2>1. DrainStart => free = slotLock
    <3>1. DrainStart => ~ Holds(Drain, slotLock)
      BY <1>1, <1>2, GoesOn, HeadIsIn DEF DrainStart, Outside
    <3> QED BY <3>1 DEF Released
  <2> QED BY <1>2, <1>3, <2>1, ReleasedType, LeavesQueue DEF HoldsAll
<1> HIDE DEF free
<1>7. \/ DrainOver(free)
      \/ \E op, s, x : DrainAsks(op, s, x, free)
  BY <1>6 DEF DrainStep, DrainStart, DrainReturns, DrainCatches, DrainNext, free
<1>8. CASE DrainOver(free)
  <2>1. /\ slotLock' = free /\ MovesOnly(Drain) /\ pc'[Drain] = "off"
    BY <1>1, <1>4, <1>8 DEF DrainOver, MovesOnly, TypeInv, TypeOK, TaskOK
  <2>2. InQueues(Drain)'
    BY <1>5, <1>6, <2>1 DEF InQueues
  <2>3. QueueStep(Drain, slotLock, slotLock')
    BY <2>1 DEF QueueStep, free
  <2> QED BY <1>1, <1>5, <2>1, <2>2, <2>3, StepKeepsQueues DEF QueueStep
<1>9. CASE \E op, s, x : DrainAsks(op, s, x, free)
  <2>1. /\ slotLock' = Append(free, Drain) /\ MovesOnly(Drain) /\ pc'[Drain] = "slot"
    BY <1>1, <1>4, <1>9 DEF DrainAsks, MovesOnly, TypeInv, TypeOK, TaskOK
  <2>2. Drain \in ToSet(slotLock')
    BY <1>1, <1>6, <2>1, EntersQueue
  <2>3. InQueues(Drain)'
    BY <1>5, <2>1, <2>2 DEF InQueues, Outside
  <2>4. QueueStep(Drain, slotLock, slotLock')
    BY <1>3, <2>1 DEF QueueStep, HoldsAll, free
  <2> QED BY <1>1, <1>5, <2>1, <2>3, <2>4, StepKeepsQueues DEF QueueStep
<1> QED BY <1>7, <1>8, <1>9

LEMMA NextKeepsQueues ==
    ASSUME LockInv, QueueInv, [Next]_vars
    PROVE  QueueInv'
<1>1. CASE UNCHANGED vars
  BY <1>1 DEF vars, lockVars, QueueInv, InQueues
<1>2. CASE \E t \in Clients : Request(t)
  BY <1>2, RequestKeepsQueues
<1>3. ASSUME NEW t \in Tasks, TaskStep(t)
      PROVE  QueueInv'
  BY <1>3, SlotGrantedKeepsQueues, LockGrantedKeepsQueues, MiddlesKeepQueues,
     ClosedKeepsQueues, FirstStepKeepsQueues, ReturnKeepsQueues DEF TaskStep
<1>4. CASE DrainStep
  BY <1>4, DrainKeepsQueues
<1>5. CASE \E s \in Sessions : TurnEnds(s)
  BY <1>5, TurnEndsKeepsQueues
<1> QED BY <1>1, <1>2, <1>3, <1>4, <1>5 DEF Next

LEMMA InitQueueInv == Init => QueueInv
<1> SUFFICES ASSUME Init
             PROVE  QueueInv
  OBVIOUS
<1>1. IsInjective(<<>>) /\ ToSet(<<>>) = {}
  BY DEF IsInjective, ToSet
<1>2. ASSUME NEW t \in Tasks
      PROVE  InQueues(t)
  BY <1>1 DEF Init, InQueues
<1> QED BY <1>1, <1>2 DEF Init, QueueInv

LEMMA QueueInvariant == Spec => []QueueInv
  BY InitQueueInv, NextKeepsQueues, LockInvariant, PTL DEF Spec

\* A task that holds the lock of a session and not the slot lock waits for
\* nothing: what takes both, takes the slot lock first.
LEMMA HolderGoesOn ==
    ASSUME LockInv, QueueInv, NEW u \in Tasks, NEW s \in Sessions, Holds(u, lock[s]),
           ~ Holds(u, slotLock)
    PROVE  ~ Blocked(u)
<1>1. u \in ToSet(lock[s])
  BY HeadIsIn DEF LockInv, TypeInv, TypeOK, LockOK
<1>2. pc[u] # "slot" /\ (pc[u] = "lock" => req[u].session = s)
  BY <1>1 DEF QueueInv, InQueues
<1>3. pc[u] # "evicting"
  BY VictimOf DEF LockInv, MakesRoom, CapInv, RoomOf
<1> QED BY <1>2, <1>3 DEF Blocked

\* The head of a queue in which a task waits holds the lock.
LEMMA QueueHasHolder ==
    ASSUME LockInv, NEW t \in Tasks, NEW s \in Sessions, t \in ToSet(lock[s])
    PROVE  \E u \in Tasks : Holds(u, lock[s])
<1>1. lock[s] \in Seq(Tasks)
  BY DEF LockInv, TypeInv, TypeOK, LockOK
<1> QED BY <1>1, HeadIsIn DEF Holds

\* Whoever waits, somebody who holds a lock goes on: the holder of the slot lock,
\* or the holder of the session lock that it waits for ("there is no cycle, and
\* nothing to deadlock on", coordinator.py).
THEOREM NoDeadlock == Spec => []NoCircularWait
<1>1. ASSUME LockInv, QueueInv, NEW t \in Tasks, Blocked(t)
      PROVE  \E u \in Tasks :
                /\ ~Blocked(u)
                /\ Holds(u, slotLock) \/ \E s \in Sessions : Holds(u, lock[s])
  <2>1. slotLock \in Seq(Tasks)
    BY <1>1 DEF LockInv, TypeInv, TypeOK, LockOK
  <2>2. ASSUME NEW h \in Tasks, Blocked(h), pc[h] # "slot"
        PROVE  \E s \in Sessions : \E u \in Tasks : u # h /\ Holds(u, lock[s])
    <3>1. PICK s \in Sessions : h \in ToSet(lock[s]) /\ ~ Holds(h, lock[s])
      <4>1. CASE pc[h] = "lock"
        BY <1>1, <2>2, <4>1, RequestOf DEF Blocked, LockInv, QueueInv, InQueues
      <4>2. CASE pc[h] = "evicting"
        BY <1>1, <2>2, <4>2 DEF Blocked, LockInv, CapInv, RoomOf, TypeInv, TypeOK, TaskOK,
                                QueueInv, InQueues
      <4> QED BY <2>2, <4>1, <4>2 DEF Blocked
    <3> QED BY <1>1, <3>1, QueueHasHolder
  <2>3. CASE \E h \in Tasks : Holds(h, slotLock)
    <3>1. PICK h \in Tasks : Holds(h, slotLock)
      BY <2>3
    <3>2. CASE Blocked(h)
      <4>1. pc[h] # "slot"
        BY <3>1, <3>2 DEF Blocked
      <4>2. PICK s \in Sessions : \E u \in Tasks : u # h /\ Holds(u, lock[s])
        BY <2>2, <3>2, <4>1
      <4>3. PICK u \in Tasks : u # h /\ Holds(u, lock[s])
        BY <4>2
      <4>4. ~ Holds(u, slotLock)
        BY <3>1, <4>3 DEF Holds
      <4> QED BY <1>1, <4>3, <4>4, HolderGoesOn
    <3> QED BY <3>1, <3>2
  <2>4. CASE ~ \E h \in Tasks : Holds(h, slotLock)
    <3>1. \A u \in Tasks : u \notin ToSet(slotLock)
      BY <2>1, <2>4, HeadIsIn DEF Holds
    <3>2. pc[t] # "slot"
      BY <1>1, <3>1 DEF QueueInv, InQueues
    <3>3. PICK s \in Sessions : \E u \in Tasks : u # t /\ Holds(u, lock[s])
      BY <1>1, <2>2, <3>2
    <3> QED BY <1>1, <2>4, <3>3, HolderGoesOn
  <2> QED BY <2>3, <2>4
<1>2. LockInv /\ QueueInv => NoCircularWait
  BY <1>1 DEF NoCircularWait
<1> QED BY <1>2, LockInvariant, QueueInvariant, PTL

=============================================================================
