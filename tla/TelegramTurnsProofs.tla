-------------------------- MODULE TelegramTurnsProofs --------------------------
(***************************************************************************)
(* Theorems about TelegramTurns, for any number of messages, pieces of text*)
(* and faults: the types, that the map on disk is current, and what becomes*)
(* of a message and of its reply.                                          *)
(*                                                                         *)
(* The types and the map are kept through lost connections, restarts of the*)
(* bot and deaths of the daemon.  The rest is about a connection that      *)
(* nothing breaks, on which Telegram may refuse replies: a message in      *)
(* flight when a connection breaks, or a turn settled against a session    *)
(* that is just being resumed, is lost.                                    *)
(*                                                                         *)
(* None of these properties is inductive.  The turn the bot carries is on  *)
(* its way to the daemon, waits there, or is the daemon's last (Carried),  *)
(* and what an event may end depends on the order of those behind it       *)
(* (Ordered).  What the bot has of a turn and what is still on its way     *)
(* make up the turn's text (Spoken); so what it posts is the text of one   *)
(* turn, which it has closed and none of which it posted before            *)
(* (Delivered).                                                            *)
(***************************************************************************)
EXTENDS TelegramTurns, SequenceTheorems, WellFoundedInduction, TLAPS

-----------------------------------------------------------------------------
(***************************************************************************)
(* What is joined is what was queued.                                      *)
(***************************************************************************)
\* A set of numbers has a least one.
LEMMA Least ==
    ASSUME NEW S \in SUBSET Nat, S # {}
    PROVE  \E m \in S : \A n \in S : m <= n
<1> DEFINE R == {ss \in Nat \X Nat : ss[1] < ss[2]}
<1>1. IsWellFoundedOn(R, Nat)
  BY NatLessThanWellFounded DEF OpToRel
<1>2. PICK m \in S : \A n \in S : ~(<<n, m>> \in R)
  BY <1>1, WFMin
<1>3. ASSUME NEW n \in S PROVE m <= n
  <2>1. <<n, m>> \in Nat \X Nat /\ ~(<<n, m>> \in R)
    BY <1>2
  <2>2. ~(<<n, m>>[1] < <<n, m>>[2])
    BY <2>1, Zenon
  <2> QED  BY <2>2
<1> QED  BY <1>3

LEMMA SetOfConcat ==
    ASSUME NEW S, NEW s \in Seq(S), NEW r \in Seq(S)
    PROVE  ToSet(s \o r) = ToSet(s) \cup ToSet(r)
<1>1. Range(s \o r) = Range(s) \cup Range(r)
  BY RangeConcatenation
<1>2. \A f : ToSet(f) = Range(f)
  BY DEF ToSet, Range
<1> QED  BY <1>1, <1>2

\* g joins the first of q, the first two, and so on up to the first n.
Joins(q, n, g) ==
    /\ g \in [1..n -> Prompts]
    /\ \A i \in 1..n : g[i] = IF i = 1 THEN q[i] ELSE g[i - 1] \o q[i]

LEMMA JoinsExist ==
    ASSUME NEW q \in Seq(Prompts), NEW n \in 1..Len(q)
    PROVE  \E g : Joins(q, n, g)
<1> DEFINE S == {m \in 1..Len(q) : ~\E g : Joins(q, m, g)}
<1> SUFFICES ASSUME S # {} PROVE FALSE
  OBVIOUS
<1>0. S \in SUBSET Nat
  OBVIOUS
<1>1. PICK m \in S : \A k \in S : m <= k
  <2> HIDE DEF S
  <2> QED  BY <1>0, Least
<1>2. m \in 1..Len(q) /\ ~\E g : Joins(q, m, g)
  OBVIOUS
<1>3. CASE m = 1
  <2>1. Joins(q, 1, [i \in 1..1 |-> q[i]])
    BY <1>2, <1>3 DEF Joins
  <2> QED  BY <1>2, <1>3, <2>1
<1>4. CASE m # 1
  <2>1. m - 1 \in 1..Len(q) /\ ~(m <= m - 1)
    BY <1>2, <1>4
  <2>2. PICK g : Joins(q, m - 1, g)
    BY <1>1, <2>1
  <2> DEFINE h == [i \in 1..m |-> IF i = m THEN g[m - 1] \o q[m] ELSE g[i]]
  <2>3. g[m - 1] \in Prompts /\ q[m] \in Prompts
    BY <1>2, <2>1, <2>2 DEF Joins
  <2>4. g[m - 1] \o q[m] \in Prompts
    BY <2>3 DEF Prompts
  <2>5. h \in [1..m -> Prompts]
    BY <1>2, <2>2, <2>4 DEF Joins
  <2>6. ASSUME NEW i \in 1..m
        PROVE  h[i] = IF i = 1 THEN q[i] ELSE h[i - 1] \o q[i]
    <3>1. CASE i = m
      <4>1. m - 1 \in 1..m /\ m - 1 # m
        BY <1>2, <2>1
      <4> QED  BY <1>4, <3>1, <4>1
    <3>2. CASE i # m
      <4>1. i \in 1..(m - 1) /\ i - 1 # m /\ (i # 1 => i - 1 \in 1..m)
        BY <1>2, <3>2
      <4>2. g[i] = IF i = 1 THEN q[i] ELSE g[i - 1] \o q[i]
        BY <2>2, <4>1 DEF Joins
      <4> QED  BY <3>2, <4>1, <4>2
    <3> QED  BY <3>1, <3>2
  <2> HIDE DEF h
  <2>7. Joins(q, m, h)
    BY <2>5, <2>6 DEF Joins
  <2> QED  BY <1>2, <2>7
<1> QED  BY <1>3, <1>4

\* What is in a joined prompt is in one of those it is made of.
LEMMA JoinsWhole ==
    ASSUME NEW q \in Seq(Prompts), NEW g, Joins(q, Len(q), g), NEW x
    PROVE  \A n \in 1..Len(q) : x \in ToSet(g[n]) <=> \E i \in 1..n : x \in ToSet(q[i])
<1> DEFINE S == {n \in 1..Len(q) : ~(x \in ToSet(g[n]) <=> \E i \in 1..n : x \in ToSet(q[i]))}
<1> SUFFICES ASSUME S # {} PROVE FALSE
  OBVIOUS
<1>0. S \in SUBSET Nat
  OBVIOUS
<1>1. PICK m \in S : \A k \in S : m <= k
  <2> HIDE DEF S
  <2> QED  BY <1>0, Least
<1>2. m \in 1..Len(q) /\ ~(x \in ToSet(g[m]) <=> \E i \in 1..m : x \in ToSet(q[i]))
  OBVIOUS
<1>3. CASE m = 1
  <2>1. g[1] = q[1]
    BY <1>2, <1>3 DEF Joins
  <2>2. \A i \in 1..m : i = 1
    BY <1>3
  <2> QED  BY <1>2, <1>3, <2>1, <2>2
<1>4. CASE m # 1
  <2>1. m - 1 \in 1..Len(q) /\ ~(m <= m - 1)
    BY <1>2, <1>4
  <2>2. x \in ToSet(g[m - 1]) <=> \E i \in 1..(m - 1) : x \in ToSet(q[i])
    BY <1>1, <2>1
  <2>3. g[m] = g[m - 1] \o q[m] /\ g[m - 1] \in Prompts /\ q[m] \in Prompts
    <3> HIDE DEF S
    <3>1. \A i \in 1..Len(q) : g[i] = IF i = 1 THEN q[i] ELSE g[i - 1] \o q[i]
      BY DEF Joins
    <3>2. g[m] = g[m - 1] \o q[m]
      BY <1>2, <1>4, <3>1
    <3>3. g[m - 1] \in Prompts
      BY <2>1 DEF Joins
    <3> QED  BY <1>2, <3>2, <3>3
  <2>4. ToSet(g[m]) = ToSet(g[m - 1]) \cup ToSet(q[m])
    BY <2>3, SetOfConcat DEF Prompts
  <2>5. \A i \in 1..m : i \in 1..(m - 1) \/ i = m
    BY <1>2
  <2>6. \A i \in 1..(m - 1) : i \in 1..m
    BY <1>2
  <2> QED  BY <1>2, <2>2, <2>4, <2>5, <2>6
<1> QED  BY <1>3, <1>4

LEMMA JoinsUnique ==
    ASSUME NEW q \in Seq(Prompts), NEW n \in 1..Len(q), NEW h, Joins(q, n, h),
           NEW g, \A i \in 1..n : g[i] = IF i = 1 THEN q[i] ELSE g[i - 1] \o q[i]
    PROVE  \A i \in 1..n : g[i] = h[i]
<1> DEFINE S == {i \in 1..n : g[i] # h[i]}
<1> SUFFICES ASSUME S # {} PROVE FALSE
  OBVIOUS
<1>0. S \in SUBSET Nat
  OBVIOUS
<1>1. PICK m \in S : \A k \in S : m <= k
  <2> HIDE DEF S
  <2> QED  BY <1>0, Least
<1>2. m \in 1..n /\ g[m] # h[m] /\ \A k \in 1..n : k < m => g[k] = h[k]
  BY <1>1
<1>3. g[m] = IF m = 1 THEN q[m] ELSE g[m - 1] \o q[m]
  BY <1>2
<1>4. h[m] = IF m = 1 THEN q[m] ELSE h[m - 1] \o q[m]
  BY <1>2 DEF Joins
<1>5. m # 1 => g[m - 1] = h[m - 1]
  <2>1. m # 1 => m - 1 \in 1..n /\ m - 1 < m
    BY <1>2
  <2> QED  BY <1>2, <2>1
<1> QED  BY <1>2, <1>3, <1>4, <1>5

LEMMA MessagesJoin ==
    ASSUME NEW q \in Seq(Prompts)
    PROVE  /\ Messages(q) \in Prompts
           /\ \A x : x \in ToSet(Messages(q)) <=> \E p \in ToSet(q) : x \in ToSet(p)
<1>1. CASE q = <<>>
  <2>1. Messages(q) = <<>>
    BY <1>1 DEF Messages, FlattenSeq
  <2>2. ToSet(<<>>) = {} /\ <<>> \in Prompts
    BY DEF Prompts, ToSet
  <2> QED  BY <1>1, <2>1, <2>2
<1>2. CASE q # <<>>
  <2> DEFINE n == Len(q)
             F(f) == [i \in 1..n |-> IF i = 1 THEN q[i] ELSE f[i - 1] \o q[i]]
             g == CHOOSE f : f = F(f)
  <2>1. n \in 1..Len(q) /\ Len(q) # 0 /\ q # <<>>
    BY <1>2
  <2>2. PICK h : Joins(q, n, h)
    BY <2>1, JoinsExist
  <2>3. h = F(h)
    BY <2>2 DEF Joins
  <2>4. g = F(g)
    BY <2>3
  <2>5. Messages(q) = g[n]
    BY <2>1 DEF Messages, FlattenSeq
  <2>6. g[n] = h[n]
    <3> HIDE DEF g
    <3>1. \A i \in 1..n : g[i] = IF i = 1 THEN q[i] ELSE g[i - 1] \o q[i]
      BY <2>4
    <3> HIDE DEF n, F
    <3> QED  BY <2>1, <2>2, <3>1, JoinsUnique
  <2>7. Messages(q) \in Prompts
    BY <2>1, <2>2, <2>5, <2>6 DEF Joins
  <2>8. \A x : x \in ToSet(Messages(q)) <=> \E i \in 1..n : x \in ToSet(q[i])
    <3> SUFFICES ASSUME NEW x
                 PROVE  x \in ToSet(Messages(q)) <=> \E i \in 1..n : x \in ToSet(q[i])
      OBVIOUS
    <3>1. \A m \in 1..Len(q) : x \in ToSet(h[m]) <=> \E i \in 1..m : x \in ToSet(q[i])
      BY <2>2, JoinsWhole
    <3>2. Messages(q) = h[n]
      BY <2>5, <2>6
    <3> HIDE DEF n
    <3> QED  BY <2>1, <3>1, <3>2
  <2>9. \A p : p \in ToSet(q) <=> \E i \in 1..n : p = q[i]
    BY DEF ToSet
  <2> HIDE DEF n
  <2> QED  BY <2>7, <2>8, <2>9, Zenon
<1> QED  BY <1>1, <1>2

-----------------------------------------------------------------------------
(***************************************************************************)
(* Types.                                                                  *)
(***************************************************************************)
StreamEvents ==
    [type : {"started", "working", "tool", "idle"}]
        \cup [type : {"text"}, chunk : Chunks]
        \cup [type : {"ended"}, turn : Nat, cancelled : BOOLEAN]

Leavings == [turn : Turns, cancelled : BOOLEAN]

DaemonOK ==
    /\ state \in {"stored", "starting", "ready", "idle", "working"}
    /\ prompt \in Prompts \cup {None} /\ ending \in BOOLEAN
    /\ asked \in Seq(Prompts) /\ said \in Seq(Nat) /\ Len(said) = Len(asked)
    /\ state \in {"starting", "ready"} => prompt # None
    /\ state = "working" => asked # <<>>

WireOK ==
    frames \in Seq(Prompts) /\ stream \in Seq(StreamEvents) /\ link \in {"up", "down"}

BotOK ==
    /\ at \in {"down", "joining", "recovering", "recovered", "handling", "closing",
               "replying", "reporting", "progress"}
    /\ turn \in Turns \cup {None} /\ queue \in Seq(Prompts) /\ dirty \in BOOLEAN
    /\ at \in {"recovering", "recovered"} => leaving \in Entries
    /\ at \in {"closing", "replying"} => leaving \in Leavings
    /\ poll \in {"off", "fetching", "waiting", "updating", "showing"}
    /\ offset \in Nat /\ fetched \in Nat

DiskOK == disk \in Entries \cup {None}

ChatOK == typed \in Nat /\ confirmed \in Nat /\ posted \in Seq(Chunks)

TypeInv == DaemonOK /\ WireOK /\ BotOK /\ DiskOK /\ ChatOK

LEMMA NoneIsNone ==
    /\ \A t \in Turns : t # None
    /\ \A e \in Entries : e # None
    /\ \A p \in Prompts : p # None
BY NoneAssumption

\* What the map is written from, and what it is read into.
LEMMA EntryType ==
    ASSUME NEW t \in Turns \cup {None}, NEW q \in Seq(Prompts)
    PROVE  Entry(t, q) \in Entries \cup {None}
BY DEF Entry, Turns, Entries

LEMMA NewTurnType ==
    ASSUME NEW p \in Prompts
    PROVE  NewTurn(p) \in Turns
<1>1. <<>> \in Seq(Chunks)
  OBVIOUS
<1> QED  BY <1>1 DEF NewTurn, Turns

LEMMA AdoptedType ==
    ASSUME NEW e \in Entries
    PROVE  Adopted(e) \in Turns
<1>1. <<>> \in Seq(Chunks)
  OBVIOUS
<1> QED  BY <1>1 DEF Adopted, Turns, Entries

\* The map, once it is written, is that of the turn.
LEMMA PersistCurrent ==
    ASSUME Persist, turn' \in Turns \cup {None}, queue' \in Seq(Prompts)
    PROVE  DiskOK' /\ dirty' = FALSE /\ MapIsCurrent'
<1>1. DiskOK' /\ dirty' = FALSE
  BY EntryType DEF Persist, DiskOK
<1>2. turn' # None =>
        /\ disk' = [of |-> turn'.of, consumed |-> turn'.consumed,
                    delivered |-> turn'.delivered, lines |-> turn'.lines, queued |-> queue']
        /\ disk' # None
  BY <1>1, EntryType, NoneAssumption DEF Persist, Entry, Turns, Entries
<1> QED  BY <1>1, <1>2 DEF MapIsCurrent

LEMMA ForwardTyped ==
    ASSUME WireOK, BotOK, NEW p \in Prompts, NEW q \in Seq(Prompts), Forward(p, q)
    PROVE  /\ turn' \in Turns \cup {None} /\ queue' \in Seq(Prompts)
           /\ frames' \in Seq(Prompts) /\ DiskOK' /\ dirty' = FALSE /\ MapIsCurrent'
<1>1. turn' \in Turns \cup {None} /\ queue' \in Seq(Prompts) /\ frames' \in Seq(Prompts)
  <2>0. Append(q, p) \in Seq(Prompts) /\ Append(frames, p) \in Seq(Prompts)
    BY AppendProperties DEF WireOK
  <2>1. CASE turn # None
    BY <2>0, <2>1 DEF Forward, WireOK, BotOK
  <2>2. CASE turn = None
    <3>1. turn' \in Turns /\ queue' = q
      BY <2>2, NewTurnType DEF Forward
    <3>2. frames' \in Seq(Prompts)
      BY <2>0, <2>2 DEF Forward, WireOK
    <3> QED  BY <3>1, <3>2
  <2> QED  BY <2>1, <2>2
<1>2. Persist
  BY DEF Forward
<1> QED  BY <1>1, <1>2, PersistCurrent

LEMMA FlushTyped ==
    ASSUME WireOK, BotOK, NEW q \in Seq(Prompts), Flush(q)
    PROVE  /\ turn' \in Turns \cup {None} /\ queue' \in Seq(Prompts)
           /\ frames' \in Seq(Prompts) /\ DiskOK' /\ dirty' = FALSE /\ MapIsCurrent'
           /\ at' \in {"handling", "progress"}
<1>1. CASE q = <<>>
  <2>1. /\ turn' \in Turns \cup {None} /\ queue' \in Seq(Prompts) /\ frames' \in Seq(Prompts)
        /\ Persist /\ at' = "handling"
    BY <1>1 DEF Flush, WireOK, BotOK
  <2> QED  BY <2>1, PersistCurrent
<1>2. CASE q # <<>>
  <2>1. Forward(Messages(q), <<>>) /\ at' \in {"handling", "progress"}
    BY <1>2 DEF Flush
  <2>2. Messages(q) \in Prompts /\ <<>> \in Seq(Prompts)
    BY MessagesJoin
  <2> QED  BY <2>1, <2>2, ForwardTyped
<1> QED  BY <1>1, <1>2

LEMMA TellTyped ==
    ASSUME WireOK, NEW events \in Seq(StreamEvents), Tell(events)
    PROVE  stream' \in Seq(StreamEvents)
BY DEF WireOK, Tell

LEMMA EventTypes ==
    /\ Started \in Seq(StreamEvents)
    /\ <<Event("idle")>> \in Seq(StreamEvents)
    /\ \A c \in Chunks : <<[type |-> "text", chunk |-> c]>> \in Seq(StreamEvents)
    /\ <<Event("tool")>> \in Seq(StreamEvents)
    /\ DaemonOK => Ended(Current) \in Seq(StreamEvents)
<1>1. \A type \in {"started", "working", "tool", "idle"} : Event(type) \in StreamEvents
  BY DEF Event, StreamEvents
<1>2. \A c \in Chunks : [type |-> "text", chunk |-> c] \in StreamEvents
  BY DEF StreamEvents
<1>3. DaemonOK => [type |-> "ended", turn |-> Current, cancelled |-> ending] \in StreamEvents
  BY DEF StreamEvents, DaemonOK, Current
<1> QED  BY <1>1, <1>2, <1>3 DEF Started, Ended

-----------------------------------------------------------------------------
\* A step of the daemon.
DaemonTypes == DaemonOK' /\ WireOK' /\ UNCHANGED <<memory, disk, chat>>

LEMMA BeginTyped ==
    ASSUME DaemonOK, WireOK, NEW p \in Prompts, BeginTurn(p)
    PROVE  DaemonOK' /\ stream' \in Seq(StreamEvents)
<1>1. stream' \in Seq(StreamEvents)
  BY EventTypes, TellTyped DEF BeginTurn
<1>2. asked' \in Seq(Prompts) /\ asked' # <<>> /\ said' \in Seq(Nat) /\ Len(said') = Len(asked')
  BY DEF BeginTurn, DaemonOK
<1> QED  BY <1>1, <1>2 DEF BeginTurn, DaemonOK

LEMMA AcceptTyped ==
    ASSUME TypeInv, Accept
    PROVE  DaemonTypes
<1>1. Head(frames) \in Prompts /\ frames' \in Seq(Prompts)
  BY DEF Accept, TypeInv, WireOK
<1>2. DaemonOK' /\ stream' \in Seq(StreamEvents)
  <2>1. CASE state = "idle" /\ BeginTurn(Head(frames))
    BY <1>1, <2>1, BeginTyped DEF TypeInv
  <2>2. CASE state = "stored" /\ Asked(Head(frames)) /\ state' = "starting"
    BY <1>1, <2>2, NoneIsNone DEF Asked, TypeInv, DaemonOK, WireOK
  <2>3. CASE UNCHANGED <<daemon, stream>>
    BY <2>3 DEF daemon, TypeInv, DaemonOK, WireOK
  <2> QED  BY <2>1, <2>2, <2>3 DEF Accept, Asked
<1> QED  BY <1>1, <1>2 DEF Accept, DaemonTypes, TypeInv, WireOK

LEMMA SayTyped ==
    ASSUME TypeInv, Say
    PROVE  DaemonTypes
<1>1. Current \in DOMAIN said /\ Current \in Nat
  BY DEF Say, TypeInv, DaemonOK, Current
<1>2. said' \in Seq(Nat) /\ Len(said') = Len(said) /\ said'[Current] \in Nat
  BY <1>1 DEF Say, TypeInv, DaemonOK
<1>3. PICK tail \in {<<>>} \cup (IF "tool" \in Ops THEN {<<Event("tool")>>} ELSE {}) :
         Tell(<<[type |-> "text", chunk |-> <<Current, said'[Current]>>]>> \o tail)
  BY DEF Say
<1>4. tail \in Seq(StreamEvents)
  <2>1. tail = <<>> \/ tail = <<Event("tool")>>
    BY <1>3
  <2>2. <<>> \in Seq(StreamEvents)
    OBVIOUS
  <2> QED  BY <2>1, <2>2, EventTypes
<1>5. <<[type |-> "text", chunk |-> <<Current, said'[Current]>>]>> \in Seq(StreamEvents)
  BY <1>1, <1>2, EventTypes DEF Chunks
<1>6. stream' \in Seq(StreamEvents)
  <2>1. <<[type |-> "text", chunk |-> <<Current, said'[Current]>>]>> \o tail \in Seq(StreamEvents)
    BY <1>4, <1>5
  <2> QED  BY <1>3, <2>1, TellTyped DEF TypeInv
<1> QED  BY <1>2, <1>6 DEF Say, DaemonTypes, TypeInv, DaemonOK, WireOK

LEMMA DaemonTyped ==
    ASSUME TypeInv, DaemonStep \/ Evicted
    PROVE  DaemonTypes
<1>1. CASE Accept
  BY <1>1, AcceptTyped
<1>2. CASE Resumed
  <2>1. stream' \in Seq(StreamEvents)
    BY <1>2, EventTypes, TellTyped DEF Resumed, TypeInv
  <2> QED  BY <1>2, <2>1 DEF Resumed, DaemonTypes, TypeInv, DaemonOK, WireOK
<1>3. CASE Prompted
  <2>1. prompt \in Prompts
    BY <1>3 DEF Prompted, TypeInv, DaemonOK
  <2> QED  BY <1>3, <2>1, BeginTyped DEF Prompted, DaemonTypes, TypeInv, WireOK
<1>4. CASE Say
  BY <1>4, SayTyped
<1>5. CASE TurnEnds
  <2>1. stream' \in Seq(StreamEvents)
    BY <1>5, EventTypes, TellTyped DEF TurnEnds, TypeInv
  <2> QED  BY <1>5, <2>1 DEF TurnEnds, DaemonTypes, TypeInv, DaemonOK, WireOK
<1>6. CASE Evicted
  BY <1>6 DEF Evicted, DaemonTypes, TypeInv, DaemonOK, WireOK, wire
<1> QED  BY <1>1, <1>2, <1>3, <1>4, <1>5, <1>6 DEF DaemonStep

\* What has arrived of what was on its way.
LEMMA CutTyped ==
    ASSUME NEW S, NEW s \in Seq(S), NEW r \in Cut(s)
    PROVE  r \in Seq(S)
BY DEF Cut

LEMMA FaultTyped ==
    ASSUME TypeInv, MapIsCurrent, Drop \/ DaemonDies \/ Exit
    PROVE  TypeInv' /\ MapIsCurrent'
<1>1. \A r \in Cut(stream) : r \in Seq(StreamEvents)
  BY CutTyped DEF TypeInv, WireOK
<1>2. \A r \in Cut(frames) : r \in Seq(Prompts)
  BY CutTyped DEF TypeInv, WireOK
<1>3. CASE Drop
  BY <1>1, <1>2, <1>3
     DEF Drop, TypeInv, DaemonOK, WireOK, BotOK, DiskOK, ChatOK, daemon, memory, chat,
         MapIsCurrent
<1>4. CASE DaemonDies
  <2>1. <<>> \in Seq(Prompts)
    OBVIOUS
  <2>2. DaemonOK' /\ WireOK'
    BY <1>1, <1>4, <2>1 DEF DaemonDies, TypeInv, DaemonOK, WireOK
  <2>3. BotOK' /\ DiskOK' /\ ChatOK'
    BY <1>4 DEF DaemonDies, TypeInv, BotOK, DiskOK, ChatOK, memory, chat
  <2> QED  BY <1>4, <2>2, <2>3 DEF DaemonDies, TypeInv, memory, MapIsCurrent
<1>5. CASE Exit
  <2>1. <<>> \in Seq(Prompts) /\ <<>> \in Seq(StreamEvents)
    OBVIOUS
  <2> QED  BY <1>2, <1>5, <2>1
              DEF Exit, StopPoll, TypeInv, DaemonOK, WireOK, BotOK, DiskOK, ChatOK, daemon, chat,
                  MapIsCurrent
<1> QED  BY <1>3, <1>4, <1>5

-----------------------------------------------------------------------------
\* A step of the bot leaves the daemon alone, but for a cancellation.
TurnsTypes == TypeInv' /\ MapIsCurrent'

LEMMA TextTyped ==
    ASSUME DaemonOK, NEW k \in 0..Current
    PROVE  Text(k) \in Seq(Chunks)
<1>1. CASE k = 0
  BY <1>1 DEF Text
<1>2. CASE k # 0
  <2>1. said[k] \in Nat /\ k \in Nat
    BY <1>2 DEF DaemonOK, Current
  <2>2. Text(k) = [n \in 1..said[k] |-> <<k, n>>]
    BY <1>2 DEF Text
  <2> QED  BY <2>1, <2>2 DEF Chunks
<1> QED  BY <1>1, <1>2

LEMMA RemainderTyped ==
    ASSUME DaemonOK, NEW n \in Nat
    PROVE  Remainder(n) \in Seq(Chunks)
<1>1. Text(Current) \in Seq(Chunks)
  BY TextTyped DEF DaemonOK, Current
<1>2. \A s \in Seq(Chunks) : SubSeq(s, n + 1, Len(s)) \in Seq(Chunks)
  OBVIOUS
<1> QED  BY <1>1, <1>2 DEF Remainder

LEMMA AnswerTyped ==
    ASSUME NEW t \in Turns
    PROVE  Answer(t) \in Seq(Chunks)
<1>1. t.parts \in Seq(Chunks) /\ t.lines \in Seq(Chunks)
  BY DEF Turns
<1>2. t.lines # <<>> => Last(t.lines) \in Chunks
  BY <1>1 DEF Last
<1>3. t.lines # <<>> => <<Last(t.lines)>> \in Seq(Chunks)
  BY <1>2
<1> QED  BY <1>1, <1>3 DEF Answer

\* What a step of the bot has to show, apart from the map.
LEMMA BotStepTyped ==
    ASSUME TypeInv, UNCHANGED <<state, prompt, asked, said>>, ending' \in BOOLEAN,
           frames' \in Seq(Prompts), stream' \in Seq(StreamEvents), link' \in {"up", "down"},
           BotOK', DiskOK', ChatOK'
    PROVE  TypeInv'
BY DEF TypeInv, DaemonOK, WireOK

LEMMA HeadTyped ==
    ASSUME WireOK, NEW type, Receives(type)
    PROVE  /\ stream # <<>> /\ Head(stream) \in StreamEvents /\ Head(stream).type = type
           /\ stream' = Tail(stream) /\ stream' \in Seq(StreamEvents)
BY DEF WireOK, Receives

\* Connecting, and settling the map.
LEMMA SettleTyped ==
    ASSUME TypeInv, MapIsCurrent,
           Connect \/ NothingToSettle \/ Adopt \/ FindEnded \/ Recover \/ RecoveryRefused
    PROVE  TurnsTypes
<1> USE DEF TypeInv, BotOK, WireOK, DaemonOK
<1>1. <<>> \in Seq(StreamEvents)
  OBVIOUS
<1>2. CASE Connect
  <2>1. BotOK' /\ DiskOK' /\ ChatOK'
    BY <1>2 DEF Connect, DiskOK, ChatOK, chat
  <2>2. TypeInv'
    BY <1>1, <1>2, <2>1 DEF Connect, daemon
  <2> QED  BY <1>2, <2>2 DEF Connect, MapIsCurrent, TurnsTypes
<1>3. CASE NothingToSettle
  <2>1. BotOK' /\ DiskOK' /\ ChatOK'
    BY <1>3 DEF NothingToSettle, StartPoll, DiskOK, ChatOK, chat
  <2>2. TypeInv'
    BY <1>3, <2>1 DEF NothingToSettle, daemon, wire
  <2> QED  BY <1>3, <2>2 DEF NothingToSettle, MapIsCurrent, TurnsTypes
<1>4. CASE Adopt
  <2>1. disk \in Entries
    BY <1>4 DEF Adopt, DiskOK
  <2>2. turn' \in Turns \cup {None} /\ queue' \in Seq(Prompts) /\ Persist
    <3>1. turn' \in Turns
      BY <1>4, <2>1, AdoptedType DEF Adopt
    <3>2. disk.queued \in Seq(Prompts)
      BY <2>1 DEF Entries
    <3> QED  BY <1>4, <3>1, <3>2 DEF Adopt
  <2>3. DiskOK' /\ dirty' = FALSE /\ MapIsCurrent'
    BY <2>2, PersistCurrent
  <2>4. BotOK' /\ ChatOK'
    BY <1>4, <2>2, <2>3 DEF Adopt, StartPoll, ChatOK, chat
  <2>5. TypeInv'
    BY <1>4, <2>3, <2>4 DEF Adopt, daemon, wire
  <2> QED  BY <2>3, <2>5 DEF TurnsTypes
<1>5. CASE FindEnded
  <2>1. BotOK' /\ DiskOK' /\ ChatOK'
    BY <1>5 DEF FindEnded, DiskOK, ChatOK, chat
  <2>2. TypeInv'
    BY <1>5, <2>1 DEF FindEnded, daemon, wire
  <2> QED  BY <1>5, <2>2 DEF FindEnded, MapIsCurrent, TurnsTypes
<1>6. CASE Recover
  <2>1. Remainder(leaving.consumed) \in Seq(Chunks)
    <3>1. leaving.consumed \in Nat
      BY <1>6 DEF Recover, Entries
    <3> QED  BY <3>1, RemainderTyped
  <2>2. posted' \in Seq(Chunks)
    BY <1>6, <2>1 DEF Recover, ChatOK
  <2>3. BotOK' /\ DiskOK' /\ ChatOK'
    BY <1>6, <2>2 DEF Recover, DiskOK, ChatOK
  <2>4. TypeInv'
    BY <1>6, <2>3 DEF Recover, daemon, wire
  <2> QED  BY <1>6, <2>4 DEF Recover, MapIsCurrent, TurnsTypes
<1>7. CASE RecoveryRefused
  <2>1. DiskOK' /\ dirty' = FALSE /\ MapIsCurrent'
    BY <1>7, PersistCurrent DEF RecoveryRefused
  <2>2. BotOK' /\ ChatOK'
    BY <1>7, <2>1 DEF RecoveryRefused, StartPoll, ChatOK, chat
  <2>3. TypeInv'
    BY <1>7, <2>1, <2>2 DEF RecoveryRefused, daemon, wire
  <2> QED  BY <2>1, <2>3 DEF TurnsTypes
<1> QED  BY <1>2, <1>3, <1>4, <1>5, <1>6, <1>7

LEMMA RecoveredTyped ==
    ASSUME TypeInv, MapIsCurrent, Recovered
    PROVE  TurnsTypes
<1> USE DEF TypeInv, BotOK, WireOK, DaemonOK
<1> DEFINE q == IF leaving.queued = <<>> THEN queue ELSE leaving.queued
<1>1. q \in Seq(Prompts) /\ Flush(q)
  BY DEF Recovered, Entries
<1> HIDE DEF q
<1>2. /\ turn' \in Turns \cup {None} /\ queue' \in Seq(Prompts)
      /\ frames' \in Seq(Prompts) /\ DiskOK' /\ dirty' = FALSE /\ MapIsCurrent'
      /\ at' \in {"handling", "progress"}
  BY <1>1, FlushTyped
<1>3. poll' \in {"off", "fetching", "waiting", "updating", "showing"}
      /\ offset' \in Nat /\ fetched' \in Nat
  BY DEF Recovered, StartPoll
<1>4. BotOK' /\ ChatOK'
  BY <1>2, <1>3 DEF Recovered, ChatOK, chat
<1>5. TypeInv'
  BY <1>2, <1>4 DEF Recovered, daemon
<1> QED  BY <1>2, <1>5 DEF TurnsTypes

\* Events.
LEMMA TextReceivedTyped ==
    ASSUME TypeInv, MapIsCurrent, TextReceived
    PROVE  TurnsTypes
<1> USE DEF TypeInv, BotOK
<1>1. stream' \in Seq(StreamEvents) /\ Head(stream).chunk \in Chunks
  BY HeadTyped DEF TextReceived, StreamEvents
<1>2. CASE turn = None
  <2>1. turn' = None
    BY <1>2 DEF TextReceived
  <2>2. BotOK' /\ DiskOK' /\ ChatOK'
    BY <2>1 DEF TextReceived, DiskOK, ChatOK, chat
  <2>3. TypeInv'
    BY <1>1, <2>2, BotStepTyped DEF TextReceived, daemon, WireOK, DaemonOK
  <2> QED  BY <2>1, <2>3 DEF MapIsCurrent, TurnsTypes
<1>3. CASE turn # None
  <2>1. turn' = [turn EXCEPT !.parts = Append(@, Head(stream).chunk)] /\ turn \in Turns
    BY <1>3 DEF TextReceived
  <2>2. turn' \in Turns
    <3>1. Append(turn.parts, Head(stream).chunk) \in Seq(Chunks)
      BY <1>1, <2>1 DEF Turns
    <3> QED  BY <2>1, <3>1 DEF Turns
  <2>3. turn'.of = turn.of /\ turn'.consumed = turn.consumed /\ turn'.lines = turn.lines
    BY <2>1 DEF Turns
  <2>4. BotOK' /\ DiskOK' /\ ChatOK'
    BY <2>2 DEF TextReceived, DiskOK, ChatOK, chat
  <2>5. TypeInv'
    BY <1>1, <2>4, BotStepTyped DEF TextReceived, daemon, WireOK, DaemonOK
  <2> QED  BY <1>3, <2>3, <2>5 DEF TextReceived, MapIsCurrent, TurnsTypes
<1> QED  BY <1>2, <1>3

LEMMA CloseBlockTyped ==
    ASSUME NEW t \in Turns
    PROVE  /\ CloseBlock(t) \in Turns
           /\ CloseBlock(t).parts = <<>> /\ CloseBlock(t).lines = t.lines \o t.parts
           /\ t.lines \in Seq(Chunks) /\ t.parts \in Seq(Chunks)
           /\ CloseBlock(t).of = t.of /\ CloseBlock(t).adopted = t.adopted
<1>1. /\ t.lines \o t.parts \in Seq(Chunks) /\ t.consumed + Len(t.parts) \in Nat
      /\ <<>> \in Seq(Chunks)
      /\ t.lines \in Seq(Chunks) /\ t.parts \in Seq(Chunks)
  BY DEF Turns
<1>2. CloseBlock(t) = [t EXCEPT !.parts = <<>>, !.lines = t.lines \o t.parts,
                                !.consumed = t.consumed + Len(t.parts)]
  BY DEF CloseBlock
<1> QED  BY <1>1, <1>2 DEF Turns

LEMMA ToolCalledTyped ==
    ASSUME TypeInv, MapIsCurrent, ToolCalled
    PROVE  TurnsTypes
<1> USE DEF TypeInv, BotOK
<1>1. stream' \in Seq(StreamEvents)
  BY HeadTyped DEF ToolCalled
<1>2. CASE turn = None \/ turn.parts = <<>>
  <2>1. BotOK' /\ DiskOK' /\ ChatOK'
    BY <1>2 DEF ToolCalled, DiskOK, ChatOK, chat
  <2>2. TypeInv'
    BY <1>1, <2>1, BotStepTyped DEF ToolCalled, daemon, WireOK, DaemonOK
  <2> QED  BY <1>2, <2>2 DEF ToolCalled, MapIsCurrent, TurnsTypes
<1>3. CASE turn # None /\ turn.parts # <<>>
  <2>1. turn' = CloseBlock(turn) /\ dirty' = TRUE /\ turn \in Turns
    BY <1>3 DEF ToolCalled
  <2>2. turn' \in Turns /\ turn'.of = turn.of
    BY <2>1, CloseBlockTyped
  <2>3. BotOK' /\ DiskOK' /\ ChatOK'
    BY <2>1, <2>2 DEF ToolCalled, DiskOK, ChatOK, chat
  <2>4. TypeInv'
    BY <1>1, <2>3, BotStepTyped DEF ToolCalled, daemon, WireOK, DaemonOK
  <2> QED  BY <1>3, <2>1, <2>2, <2>4 DEF ToolCalled, MapIsCurrent, TurnsTypes
<1> QED  BY <1>2, <1>3

LEMMA StartedTyped ==
    ASSUME TypeInv, MapIsCurrent, TurnStarted \/ Working
    PROVE  TurnsTypes
<1> USE DEF TypeInv, BotOK
<1>1. stream' \in Seq(StreamEvents)
  BY HeadTyped DEF TurnStarted, Working
<1>2. CASE TurnStarted
  <2>1. turn' = turn /\ queue' = queue
    BY <1>2 DEF TurnStarted
  <2>2. DiskOK' /\ dirty' \in BOOLEAN /\ MapIsCurrent'
    <3>1. CASE turn = None
      BY <1>2, <3>1 DEF TurnStarted, DiskOK, MapIsCurrent
    <3>2. CASE turn # None
      BY <1>2, <2>1, <3>2, PersistCurrent DEF TurnStarted
    <3> QED  BY <3>1, <3>2
  <2>3. BotOK' /\ ChatOK'
    BY <1>2, <2>1, <2>2 DEF TurnStarted, ChatOK, chat
  <2>4. TypeInv'
    BY <1>1, <1>2, <2>2, <2>3, BotStepTyped DEF TurnStarted, daemon, WireOK, DaemonOK
  <2> QED  BY <2>2, <2>4 DEF TurnsTypes
<1>3. CASE Working
  <2>1. /\ turn' \in Turns \cup {None}
        /\ turn = None => turn' = None
        /\ turn # None =>
              turn'.of = turn.of /\ turn'.consumed = turn.consumed /\ turn'.lines = turn.lines
    BY <1>3 DEF Working, Turns
  <2>2. BotOK' /\ DiskOK' /\ ChatOK'
    BY <1>3, <2>1 DEF Working, DiskOK, ChatOK, chat
  <2>3. TypeInv'
    BY <1>1, <1>3, <2>2, BotStepTyped DEF Working, daemon, WireOK, DaemonOK
  <2> QED  BY <1>3, <2>1, <2>3 DEF Working, MapIsCurrent, TurnsTypes
<1> QED  BY <1>2, <1>3

LEMMA FinishTyped ==
    ASSUME TypeInv, MapIsCurrent, NEW cancelled \in BOOLEAN, Finish(cancelled),
           stream' \in Seq(StreamEvents)
    PROVE  TurnsTypes
<1> USE DEF TypeInv, BotOK
<1>1. CASE turn = None
  <2>1. UNCHANGED <<at, turn, queue, leaving, poll, offset, fetched>> /\ Persist
    BY <1>1 DEF Finish
  <2>2. DiskOK' /\ dirty' = FALSE /\ MapIsCurrent'
    BY <2>1, PersistCurrent
  <2>3. BotOK' /\ ChatOK'
    BY <2>1, <2>2 DEF Finish, ChatOK, chat
  <2>4. TypeInv'
    BY <2>2, <2>3, BotStepTyped DEF Finish, daemon, WireOK, DaemonOK
  <2> QED  BY <2>2, <2>4 DEF TurnsTypes
<1>2. CASE turn # None
  <2>1. leaving' \in Leavings /\ turn' = None /\ at' = "closing" /\ UNCHANGED <<queue, dirty, disk>>
    BY <1>2 DEF Finish, TakeTurn, Leavings
  <2>2. BotOK' /\ DiskOK' /\ ChatOK'
    BY <2>1 DEF Finish, DiskOK, ChatOK, chat
  <2>3. TypeInv'
    BY <2>2, BotStepTyped DEF Finish, daemon, WireOK, DaemonOK
  <2> QED  BY <2>1, <2>3 DEF MapIsCurrent, TurnsTypes
<1> QED  BY <1>1, <1>2

LEMMA EndedTyped ==
    ASSUME TypeInv, MapIsCurrent, TurnEnded \/ Idle
    PROVE  TurnsTypes
<1>1. stream' \in Seq(StreamEvents)
  BY HeadTyped DEF TurnEnded, Idle, TypeInv
<1>2. CASE TurnEnded
  <2>1. Head(stream).cancelled \in BOOLEAN
    BY <1>2, HeadTyped DEF TurnEnded, StreamEvents, TypeInv
  <2> QED  BY <1>1, <1>2, <2>1, FinishTyped DEF TurnEnded
<1>3. CASE Idle /\ Finish(FALSE)
  BY <1>1, <1>3, FinishTyped
<1>4. CASE Idle /\ UNCHANGED <<daemon, frames, link, memory, disk, chat, ghosts>>
  BY <1>1, <1>4, BotStepTyped
     DEF TypeInv, BotOK, DaemonOK, WireOK, DiskOK, ChatOK, daemon, memory, chat, MapIsCurrent,
         TurnsTypes
<1> QED  BY <1>2, <1>3, <1>4 DEF Idle

\* Closing a turn.
LEMMA ClosingTyped ==
    ASSUME TypeInv, MapIsCurrent, Close
    PROVE  TurnsTypes
<1> USE DEF TypeInv, BotOK
<1>1. leaving \in Leavings
  BY DEF Close
<1>2. leaving' \in Leavings
  <2>1. leaving.turn \in Turns
    BY <1>1 DEF Leavings
  <2>2. CASE leaving' = [leaving EXCEPT !.turn.parts = Remainder(leaving.turn.consumed)]
    <3>1. Remainder(leaving.turn.consumed) \in Seq(Chunks)
      BY <2>1, RemainderTyped DEF Turns
    <3>2. [leaving.turn EXCEPT !.parts = Remainder(leaving.turn.consumed)] \in Turns
      BY <2>1, <3>1 DEF Turns
    <3> QED  BY <1>1, <2>2, <3>2 DEF Leavings
  <2>3. CASE UNCHANGED leaving
    BY <1>1, <2>3
  <2> QED  BY <2>2, <2>3 DEF Close
<1>3. BotOK' /\ DiskOK' /\ ChatOK'
  BY <1>2 DEF Close, DiskOK, ChatOK, chat
<1>4. TypeInv'
  BY <1>3, BotStepTyped DEF Close, daemon, wire, WireOK, DaemonOK
<1> QED  BY <1>4 DEF Close, MapIsCurrent, TurnsTypes

LEMMA RepliedTyped ==
    ASSUME TypeInv, MapIsCurrent, Reply \/ NoReply \/ Report
    PROVE  TurnsTypes
<1> USE DEF TypeInv, BotOK
<1>1. CASE Flush(queue)
  <2>1. /\ turn' \in Turns \cup {None} /\ queue' \in Seq(Prompts)
        /\ frames' \in Seq(Prompts) /\ DiskOK' /\ dirty' = FALSE /\ MapIsCurrent'
        /\ at' \in {"handling", "progress"}
    BY <1>1, FlushTyped
  <2>2. ChatOK'
    <3>1. CASE Reply
      <4>1. leaving.turn \in Turns
        BY <3>1 DEF Reply, Leavings
      <4>2. posted' \in Seq(Chunks)
        BY <3>1, <4>1, AnswerTyped DEF Reply, ChatOK
      <4> QED  BY <3>1, <4>2 DEF Reply, ChatOK
    <3>2. CASE NoReply \/ Report
      BY <3>2 DEF NoReply, Report, ChatOK, chat
    <3> QED  BY <3>1, <3>2
  <2>3. BotOK'
    BY <2>1 DEF Reply, NoReply, Report
  <2>4. TypeInv'
    BY <2>1, <2>2, <2>3, BotStepTyped DEF Reply, NoReply, Report, daemon, WireOK, DaemonOK
  <2> QED  BY <2>1, <2>4 DEF TurnsTypes
<1>2. CASE NoReply /\ ~Flush(queue)
  <2>1. Reported /\ UNCHANGED frames
    BY <1>2 DEF NoReply
  <2>2. DiskOK' /\ dirty' = FALSE /\ MapIsCurrent'
    BY <2>1, PersistCurrent DEF Reported
  <2>3. BotOK' /\ ChatOK'
    BY <1>2, <2>1, <2>2 DEF NoReply, Reported, ChatOK, chat
  <2>4. TypeInv'
    BY <1>2, <2>1, <2>2, <2>3, BotStepTyped DEF NoReply, daemon, WireOK, DaemonOK
  <2> QED  BY <2>2, <2>4 DEF TurnsTypes
<1> QED  BY <1>1, <1>2 DEF Reply, NoReply, Report

\* The steps that write the map, whatever it held.
LEMMA PersistTyped ==
    ASSUME TypeInv, MapIsCurrent, Progress \/ OthersPersist \/ Show
    PROVE  TurnsTypes
<1> USE DEF TypeInv, BotOK
<1>1. turn' = turn /\ queue' = queue /\ Persist
  BY DEF Progress, OthersPersist, Show
<1>2. DiskOK' /\ dirty' = FALSE /\ MapIsCurrent'
  BY <1>1, PersistCurrent
<1>3. BotOK' /\ ChatOK'
  BY <1>1, <1>2 DEF Progress, OthersPersist, Show, StartPoll, AfterUpdate, ChatOK, chat
<1>4. TypeInv'
  BY <1>2, <1>3, BotStepTyped
     DEF Progress, OthersPersist, Show, daemon, wire, WireOK, DaemonOK
<1> QED  BY <1>2, <1>4 DEF TurnsTypes

LEMMA ResetTyped ==
    ASSUME TypeInv, MapIsCurrent, Reset
    PROVE  TurnsTypes
<1> USE DEF TypeInv, BotOK
<1>1. turn' = None /\ DiskOK'
  BY EntryType DEF Reset, Forget, DiskOK
<1>2. BotOK' /\ ChatOK'
  BY <1>1 DEF Reset, Forget, StopPoll, ChatOK, chat
<1>3. TypeInv'
  BY <1>1, <1>2, BotStepTyped DEF Reset, daemon, wire, WireOK, DaemonOK
<1> QED  BY <1>1, <1>3 DEF MapIsCurrent, TurnsTypes

\* The poll's steps, and the user's commands.
LEMMA PollTyped ==
    ASSUME TypeInv, MapIsCurrent, Poll \/ Fetch
    PROVE  TurnsTypes
<1> USE DEF TypeInv, BotOK
<1>1. typed' \in Nat /\ fetched' \in Nat
  BY TurnsAssumption DEF Poll, Fetch, ChatOK
<1>2. BotOK' /\ DiskOK' /\ ChatOK'
  BY <1>1 DEF Poll, Fetch, DiskOK, ChatOK
<1>3. TypeInv'
  BY <1>2, BotStepTyped DEF Poll, Fetch, daemon, wire, WireOK, DaemonOK
<1> QED  BY <1>3 DEF Poll, Fetch, MapIsCurrent, TurnsTypes

LEMMA UpdateTyped ==
    ASSUME TypeInv, MapIsCurrent, Update
    PROVE  TurnsTypes
<1> USE DEF TypeInv, BotOK
<1>1. offset' \in Nat /\ <<offset'>> \in Prompts
  BY DEF Update, Prompts
<1>2. /\ turn' \in Turns \cup {None} /\ queue' \in Seq(Prompts)
      /\ frames' \in Seq(Prompts) /\ DiskOK' /\ dirty' = FALSE /\ MapIsCurrent'
  BY <1>1, ForwardTyped DEF Update
<1>3. BotOK' /\ ChatOK'
  BY <1>1, <1>2 DEF Update, AfterUpdate, ChatOK, chat
<1>4. TypeInv'
  BY <1>2, <1>3, BotStepTyped DEF Update, daemon, WireOK, DaemonOK
<1> QED  BY <1>2, <1>4 DEF TurnsTypes

LEMMA CommandTyped ==
    ASSUME TypeInv, MapIsCurrent, Stop \/ Unqueue \/ FullStop
    PROVE  TurnsTypes
<1> USE DEF TypeInv, BotOK
<1>1. ending' \in BOOLEAN
  BY DEF Stop, Unqueue, FullStop, CancelTurn, DaemonOK
<1>2. queue' \in Seq(Prompts) /\ DiskOK' /\ dirty' \in BOOLEAN /\ MapIsCurrent'
  <2>1. CASE UNCHANGED <<queue, disk, dirty>>
    BY <2>1 DEF Stop, Unqueue, FullStop, Command, DiskOK, MapIsCurrent
  <2>2. CASE queue' = <<>> /\ Persist
    <3>1. turn' = turn /\ queue' \in Seq(Prompts)
      BY <2>2 DEF Stop, Unqueue, FullStop, Command
    <3> QED  BY <2>2, <3>1, PersistCurrent
  <2> QED  BY <2>1, <2>2 DEF Stop, Unqueue, FullStop, DropQueue
<1>3. BotOK' /\ ChatOK'
  BY <1>2 DEF Stop, Unqueue, FullStop, Command, ChatOK, chat
<1>4. TypeInv'
  BY <1>1, <1>2, <1>3, BotStepTyped
     DEF Stop, Unqueue, FullStop, Command, wire, WireOK, DaemonOK
<1> QED  BY <1>2, <1>4 DEF TurnsTypes

LEMMA TurnsInit == Init => TypeInv /\ MapIsCurrent
<1> SUFFICES ASSUME Init PROVE TypeInv /\ MapIsCurrent
  OBVIOUS
<1>1. \A S : <<>> \in Seq(S)
  OBVIOUS
<1> QED  BY <1>1 DEF Init, TypeInv, DaemonOK, WireOK, BotOK, DiskOK, ChatOK, MapIsCurrent

LEMMA TurnsNext == TypeInv /\ MapIsCurrent /\ [Next]_vars => TurnsTypes
<1> SUFFICES ASSUME TypeInv, MapIsCurrent, [Next]_vars
             PROVE  TurnsTypes
  OBVIOUS
<1>1. CASE DaemonStep \/ Evicted
  BY <1>1, DaemonTyped
     DEF DaemonTypes, memory, chat, TypeInv, BotOK, DiskOK, ChatOK, MapIsCurrent, TurnsTypes
<1>2. CASE Drop \/ DaemonDies \/ Exit
  BY <1>2, FaultTyped DEF TurnsTypes
<1>3. CASE ConnectionStep
  BY <1>3, SettleTyped, RecoveredTyped, TextReceivedTyped, ToolCalledTyped, StartedTyped,
     EndedTyped, ClosingTyped, RepliedTyped, PersistTyped, ResetTyped DEF ConnectionStep
<1>4. CASE OthersPersist
  BY <1>4, PersistTyped
<1>5. CASE Fetch \/ PollStep
  BY <1>5, PollTyped, UpdateTyped, PersistTyped DEF PollStep
<1>6. CASE Stop \/ Unqueue \/ FullStop
  BY <1>6, CommandTyped
<1>7. CASE UNCHANGED vars
  BY <1>7 DEF vars, daemon, wire, memory, chat, TypeInv, DaemonOK, WireOK, BotOK, DiskOK,
              ChatOK, MapIsCurrent, TurnsTypes
<1> QED  BY <1>1, <1>2, <1>3, <1>4, <1>5, <1>6, <1>7 DEF Next

\* The turn, the map on disk, what is on the websocket and what the two tasks hold are
\* well typed, whatever connection, bot or daemon is lost (Turn, _persist_turns).
THEOREM TypeCorrect == Spec => []TypeInv
<1>1. TypeInv /\ MapIsCurrent /\ [Next]_vars => (TypeInv /\ MapIsCurrent)'
  BY TurnsNext DEF TurnsTypes
<1> QED  BY <1>1, TurnsInit, PTL DEF Spec

\* Whatever goes wrong, the map on disk says of the turn that is carried what the bot
\* knows of it, but for what a tool call has moved (_persist_turns).
THEOREM MapCurrent == Spec => []MapIsCurrent
<1>1. TypeInv /\ MapIsCurrent /\ [Next]_vars => (TypeInv /\ MapIsCurrent)'
  BY TurnsNext DEF TurnsTypes
<1> QED  BY <1>1, TurnsInit, PTL DEF Spec

-----------------------------------------------------------------------------
(***************************************************************************)
(* Without a fault, but for replies that Telegram refuses.  The events on  *)
(* their way to the bot are in this order: the idles of the turns before,  *)
(* then what the turn it carries has sent, then its end.                   *)
(***************************************************************************)
Idles(s) == \A i \in 1..Len(s) : s[i].type = "idle"
HasEnd(s) == \E i \in 1..Len(s) : s[i].type = "ended"

Ordered(s) ==
    /\ \A i \in 1..Len(s) :
          s[i].type = "ended" => i = Len(s) - 1 /\ s[Len(s)].type = "idle"
    /\ \A i \in 1..Len(s) :
          s[i].type = "idle" =>
              (\A j \in 1..i - 1 : s[j].type = "idle") \/ (i = Len(s) /\ s[i - 1].type = "ended")

LEMMA TailAt ==
    ASSUME NEW S, NEW s \in Seq(S), s # <<>>
    PROVE  /\ Tail(s) \in Seq(S) /\ Len(Tail(s)) = Len(s) - 1 /\ Len(s) \in Nat /\ Len(s) > 0
           /\ Head(s) = s[1]
           /\ \A i \in 1..Len(s) - 1 : Tail(s)[i] = s[i + 1]
OBVIOUS

LEMMA ConcatAt ==
    ASSUME NEW S, NEW s \in Seq(S), NEW r \in Seq(S)
    PROVE  /\ s \o r \in Seq(S) /\ Len(s \o r) = Len(s) + Len(r)
           /\ Len(s) \in Nat /\ Len(r) \in Nat
           /\ \A i \in 1..Len(s) + Len(r) :
                 (s \o r)[i] = IF i <= Len(s) THEN s[i] ELSE r[i - Len(s)]
OBVIOUS

LEMMA Joined ==
    ASSUME NEW s \in Seq(StreamEvents), NEW r \in Seq(StreamEvents), NEW u \in Seq(StreamEvents)
    PROVE  (s \o r) \o u = s \o (r \o u)
BY ConcatAssociative

LEMMA OrderedTail ==
    ASSUME NEW s \in Seq(StreamEvents), s # <<>>, Ordered(s)
    PROVE  /\ Ordered(Tail(s))
           /\ Idles(s) => Idles(Tail(s))
           /\ Head(s).type # "ended" => (HasEnd(Tail(s)) <=> HasEnd(s))
           /\ Head(s).type = "ended" => Idles(Tail(s)) /\ HasEnd(s)
           /\ Head(s).type \notin {"idle", "ended"} /\ Tail(s) # <<>> => Tail(s)[1].type # "idle"
<1> DEFINE t == Tail(s)
<1>1. /\ t \in Seq(StreamEvents) /\ Len(t) = Len(s) - 1 /\ Len(s) \in Nat /\ Len(s) > 0
      /\ Head(s) = s[1]
      /\ \A i \in 1..Len(t) : t[i] = s[i + 1]
  BY TailAt
<1>2. \A i \in 1..Len(t) : i + 1 \in 1..Len(s) /\ i \in Nat
  BY <1>1
<1> HIDE DEF t
<1>3. Ordered(t)
  <2>1. ASSUME NEW i \in 1..Len(t), t[i].type = "ended"
        PROVE  i = Len(t) - 1 /\ t[Len(t)].type = "idle"
    <3>1. i + 1 = Len(s) - 1 /\ s[Len(s)].type = "idle"
      BY <1>1, <1>2, <2>1 DEF Ordered
    <3>2. Len(t) \in 1..Len(t) /\ Len(t) + 1 = Len(s)
      BY <1>1, <3>1
    <3> QED  BY <1>1, <3>1, <3>2
  <2>2. ASSUME NEW i \in 1..Len(t), t[i].type = "idle"
        PROVE  (\A j \in 1..i - 1 : t[j].type = "idle") \/ (i = Len(t) /\ t[i - 1].type = "ended")
    <3>1. i + 1 \in 1..Len(s) /\ s[i + 1].type = "idle"
      BY <1>1, <1>2, <2>2
    <3>2. CASE \A j \in 1..(i + 1) - 1 : s[j].type = "idle"
      <4>1. \A j \in 1..i - 1 : j + 1 \in 1..(i + 1) - 1 /\ j \in 1..Len(t)
        BY <1>1
      <4> QED  BY <1>1, <3>2, <4>1
    <3>3. CASE i + 1 = Len(s) /\ s[(i + 1) - 1].type = "ended"
      <4>1. CASE i = 1
        BY <4>1
      <4>2. CASE i # 1
        <5>1. i - 1 \in 1..Len(t) /\ t[i - 1] = s[(i - 1) + 1] /\ (i - 1) + 1 = (i + 1) - 1
          BY <1>1, <4>2
        <5> QED  BY <1>1, <3>3, <5>1
      <4> QED  BY <4>1, <4>2
    <3> QED  BY <3>1, <3>2, <3>3 DEF Ordered
  <2> QED  BY <2>1, <2>2 DEF Ordered
<1>4. Idles(s) => Idles(t)
  BY <1>1, <1>2 DEF Idles
<1>5. Head(s).type # "ended" => (HasEnd(t) <=> HasEnd(s))
  <2>1. HasEnd(t) => HasEnd(s)
    BY <1>1, <1>2 DEF HasEnd
  <2>2. ASSUME Head(s).type # "ended", HasEnd(s) PROVE HasEnd(t)
    <3>1. PICK i \in 1..Len(s) : s[i].type = "ended"
      BY <2>2 DEF HasEnd
    <3>2. i # 1
      BY <1>1, <2>2, <3>1
    <3>3. i - 1 \in 1..Len(t) /\ (i - 1) + 1 = i
      BY <1>1, <3>2
    <3> QED  BY <1>1, <3>1, <3>3 DEF HasEnd
  <2> QED  BY <2>1, <2>2
<1>6. Head(s).type = "ended" => Idles(t) /\ HasEnd(s)
  <2> SUFFICES ASSUME Head(s).type = "ended" PROVE Idles(t) /\ HasEnd(s)
    OBVIOUS
  <2>1. 1 \in 1..Len(s) /\ s[1].type = "ended"
    BY <1>1
  <2>2. 1 = Len(s) - 1 /\ s[Len(s)].type = "idle"
    BY <2>1 DEF Ordered
  <2>3. \A i \in 1..Len(t) : t[i] = s[Len(s)]
    BY <1>1, <2>2
  <2> QED  BY <2>1, <2>2, <2>3 DEF Idles, HasEnd
<1>7. Head(s).type \notin {"idle", "ended"} /\ t # <<>> => t[1].type # "idle"
  <2> SUFFICES ASSUME Head(s).type \notin {"idle", "ended"}, t # <<>>, t[1].type = "idle"
               PROVE  FALSE
    OBVIOUS
  <2>1. 1 \in 1..Len(t) /\ t[1] = s[1 + 1] /\ 2 \in 1..Len(s) /\ 1 \in 1..(2 - 1)
    BY <1>1
  <2>2. s[2].type = "idle"
    BY <2>1
  <2>3. (\A j \in 1..2 - 1 : s[j].type = "idle") \/ s[2 - 1].type = "ended"
    BY <2>1, <2>2 DEF Ordered
  <2> QED  BY <1>1, <2>1, <2>3
<1> QED  BY <1>3, <1>4, <1>5, <1>6, <1>7 DEF t

LEMMA IdlesOrdered ==
    ASSUME NEW s, Idles(s)
    PROVE  Ordered(s) /\ ~HasEnd(s)
BY DEF Idles, Ordered, HasEnd

\* A turn starts, and speaks.
LEMMA OrderedSay ==
    ASSUME NEW s \in Seq(StreamEvents), Ordered(s), ~HasEnd(s), NEW r \in Seq(StreamEvents),
           \A i \in 1..Len(r) : r[i].type \notin {"idle", "ended"}
    PROVE  Ordered(s \o r) /\ ~HasEnd(s \o r)
<1>1. /\ s \o r \in Seq(StreamEvents) /\ Len(s \o r) = Len(s) + Len(r)
      /\ Len(s) \in Nat /\ Len(r) \in Nat
      /\ \A i \in 1..Len(s) + Len(r) :
            (s \o r)[i] = IF i <= Len(s) THEN s[i] ELSE r[i - Len(s)]
  BY ConcatAt
<1> DEFINE t == s \o r
<1>2. \A i \in 1..Len(t) :
         \/ i \in 1..Len(s) /\ t[i] = s[i]
         \/ t[i].type \notin {"idle", "ended"}
  BY <1>1
<1>3. \A i \in 1..Len(s) : i \in 1..Len(t) /\ t[i] = s[i]
  BY <1>1
<1> HIDE DEF t
<1>4. \A i \in 1..Len(t) : t[i].type # "ended"
  BY <1>2 DEF HasEnd
<1>5. ASSUME NEW i \in 1..Len(t), t[i].type = "idle"
      PROVE  \A j \in 1..i - 1 : t[j].type = "idle"
  <2>1. i \in 1..Len(s) /\ s[i].type = "idle"
    BY <1>2, <1>5
  <2>2. \A j \in 1..i - 1 : j \in 1..Len(s)
    BY <1>1, <2>1
  <2>3. \A j \in 1..i - 1 : s[j].type = "idle"
    <3>1. s[i - 1].type = "ended" => i - 1 \notin 1..Len(s)
      BY DEF HasEnd
    <3>2. CASE i = 1
      BY <3>2
    <3>3. CASE i # 1
      BY <1>1, <2>1, <3>1, <3>3 DEF Ordered
    <3> QED  BY <3>2, <3>3
  <2> QED  BY <1>3, <2>2, <2>3
<1> QED  BY <1>4, <1>5 DEF Ordered, HasEnd, t

LEMMA OrderedEnd ==
    ASSUME NEW s \in Seq(StreamEvents), Ordered(s), ~HasEnd(s),
           NEW r \in Seq(StreamEvents), Len(r) = 2, r[1].type = "ended", r[2].type = "idle"
    PROVE  Ordered(s \o r) /\ HasEnd(s \o r)
<1>1. /\ s \o r \in Seq(StreamEvents) /\ Len(s \o r) = Len(s) + 2 /\ Len(s) \in Nat
      /\ \A i \in 1..Len(s) + 2 :
            (s \o r)[i] = IF i <= Len(s) THEN s[i] ELSE r[i - Len(s)]
  <2>1. /\ s \o r \in Seq(StreamEvents) /\ Len(s \o r) = Len(s) + Len(r) /\ Len(s) \in Nat
        /\ \A i \in 1..Len(s) + Len(r) :
              (s \o r)[i] = IF i <= Len(s) THEN s[i] ELSE r[i - Len(s)]
    BY ConcatAt
  <2> QED  BY <2>1
<1> DEFINE t == s \o r
<1>2. \A i \in 1..Len(s) : i \in 1..Len(t) /\ t[i] = s[i]
  BY <1>1
<1>3. /\ \A i \in 1..Len(t) : i \in 1..Len(s) \/ i = Len(t) - 1 \/ i = Len(t)
      /\ Len(t) - 1 \in 1..Len(t) /\ Len(t) \in 1..Len(t)
      /\ t[Len(t) - 1] = r[1] /\ t[Len(t)] = r[2]
  BY <1>1
<1>4. \A i \in 1..Len(s) : s[i].type # "ended"
  BY DEF HasEnd
<1> HIDE DEF t
<1>5. \A i \in 1..Len(t) : t[i].type = "ended" => i = Len(t) - 1 /\ t[Len(t)].type = "idle"
  BY <1>2, <1>3, <1>4
<1>6. ASSUME NEW i \in 1..Len(t), t[i].type = "idle"
      PROVE  (\A j \in 1..i - 1 : t[j].type = "idle") \/ (i = Len(t) /\ t[i - 1].type = "ended")
  <2>1. CASE i \in 1..Len(s)
    <3>1. s[i].type = "idle"
      BY <1>2, <1>6, <2>1
    <3>2. \A j \in 1..i - 1 : s[j].type = "idle" /\ j \in 1..Len(s)
      <4>1. i - 1 \in 1..Len(s) => s[i - 1].type # "ended"
        BY <1>4
      <4>2. CASE i = 1
        BY <4>2
      <4>3. CASE i # 1
        BY <1>1, <2>1, <3>1, <4>1, <4>3 DEF Ordered
      <4> QED  BY <4>2, <4>3
    <3> QED  BY <1>2, <3>2
  <2>2. CASE i = Len(t)
    BY <1>3, <2>2
  <2>3. CASE i = Len(t) - 1
    BY <1>3, <1>6, <2>3
  <2> QED  BY <1>3, <2>1, <2>2, <2>3
<1> QED  BY <1>3, <1>5, <1>6 DEF Ordered, HasEnd, t

LEMMA IdlesMore ==
    ASSUME NEW s \in Seq(StreamEvents), Idles(s)
    PROVE  Idles(s \o <<Event("idle")>>)
<1>1. <<Event("idle")>> \in Seq(StreamEvents)
  BY EventTypes
<1>2. /\ Len(s \o <<Event("idle")>>) = Len(s) + 1 /\ Len(s) \in Nat
      /\ \A i \in 1..Len(s) + 1 :
            (s \o <<Event("idle")>>)[i] =
                IF i <= Len(s) THEN s[i] ELSE <<Event("idle")>>[i - Len(s)]
  BY <1>1, ConcatAt
<1>3. \A i \in 1..Len(s) + 1 : i \in 1..Len(s) \/ (i - Len(s) = 1 /\ ~(i <= Len(s)))
  BY <1>2
<1>4. <<Event("idle")>>[1].type = "idle"
  BY DEF Event
<1> QED  BY <1>2, <1>3, <1>4 DEF Idles

-----------------------------------------------------------------------------
(***************************************************************************)
(* One connection, which nothing breaks; and the turn the bot carries is   *)
(* on its way to the daemon, waits there for the session to start, or is   *)
(* the daemon's last, of which the end has not been handled.               *)
(***************************************************************************)
Calm ==
    /\ at \notin {"recovering", "recovered"}
    /\ at \in {"down", "joining"} =>
          /\ state = "stored" /\ prompt = None /\ asked = <<>> /\ frames = <<>>
          /\ stream = <<>> /\ turn = None /\ queue = <<>> /\ disk = None /\ poll = "off"
    /\ at = "down" <=> link = "down"

Sent ==
    /\ frames = <<turn.of>> /\ prompt = None /\ state \in {"idle", "stored"}
    /\ turn = NewTurn(turn.of) /\ Idles(stream)

Starting ==
    /\ frames = <<>> /\ prompt = turn.of /\ state \in {"starting", "ready"}
    /\ turn = NewTurn(turn.of) /\ Idles(stream)

Running ==
    /\ frames = <<>> /\ prompt = None /\ asked # <<>> /\ asked[Current] = turn.of
    /\ \/ state = "working" /\ ~HasEnd(stream)
       \/ state \in {"idle", "stored"} /\ HasEnd(stream)

Free ==
    /\ frames = <<>> /\ prompt = None /\ state \in {"idle", "stored"} /\ Idles(stream)

Carried ==
    /\ turn = None => Free
    /\ turn # None => ~turn.adopted /\ (Sent \/ Starting \/ Running)
    /\ Ordered(stream)
    /\ turn # None /\ Began(turn) /\ stream # <<>> => stream[1].type # "idle"

Orderly == Calm /\ Carried

LEMMA NewNotBegun == \A p : ~Began(NewTurn(p)) /\ ~NewTurn(p).adopted /\ NewTurn(p).of = p
BY DEF Began, NewTurn

LEMMA CalmKept ==
    ASSUME Faults \subseteq {"refuse"}, TypeInv, Calm, [Next]_vars
    PROVE  Calm'
<1> USE DEF Calm, daemon, wire, memory, chat, ghosts
<1>1. "drop" \notin Faults /\ "daemon" \notin Faults /\ "exit" \notin Faults
  OBVIOUS
<1>2. ~Drop /\ ~DaemonDies /\ ~Exit
  BY <1>1 DEF Drop, DaemonDies, Exit, Fault
<1>3. CASE DaemonStep \/ Evicted
  <2>1. at \notin {"down", "joining"}
    BY <1>3 DEF DaemonStep, Accept, Resumed, Prompted, Say, TurnEnds, Evicted
  <2>2. at' = at /\ link' = link
    BY <1>3 DEF DaemonStep, Accept, Resumed, Prompted, Say, TurnEnds, Evicted
  <2> QED  BY <2>1, <2>2
<1>4. CASE Connect
  BY <1>4 DEF Connect
<1>5. CASE ConnectionStep /\ ~Connect
  <2>1. at # "down" /\ link = "up" /\ ~FindEnded /\ ~Recover /\ ~RecoveryRefused /\ ~Recovered
        /\ ~Adopt
    <3>1. ~FindEnded /\ ~Adopt
      BY DEF FindEnded, Adopt
    <3>2. ~Recover /\ ~RecoveryRefused /\ ~Recovered
      BY DEF Recover, RecoveryRefused, Recovered
    <3>3. at # "down"
      BY <1>5, <3>1, <3>2
         DEF ConnectionStep, NothingToSettle, TextReceived, ToolCalled, TurnStarted, Working,
             TurnEnded, Idle, Receives, Close, Reply, NoReply, Report, Progress, Reset
    <3> QED  BY <3>1, <3>2, <3>3 DEF TypeInv, WireOK
  <2>2. ~Reset
    BY <2>1 DEF Reset
  <2>3. \A q : Flush(q) => at' \in {"handling", "progress"}
    BY DEF Flush
  <2>4. at' \notin {"down", "joining", "recovering", "recovered"}
    BY <1>5, <2>1, <2>2, <2>3
       DEF ConnectionStep, NothingToSettle, TextReceived, ToolCalled, TurnStarted, Working,
           TurnEnded, Idle, Finish, Receives, Close, Reply, NoReply, Reported, Report, Progress
  <2>5. link' = link
    BY <1>5, <2>1, <2>2
       DEF ConnectionStep, NothingToSettle, TextReceived, ToolCalled, TurnStarted, Working,
           TurnEnded, Idle, Finish, Close, Reply, NoReply, Report, Progress
  <2> QED  BY <2>1, <2>4, <2>5
<1>6. CASE OthersPersist \/ Fetch \/ PollStep \/ Stop \/ Unqueue \/ FullStop
  <2>1. at \notin {"down", "joining"} /\ at' = at /\ link' = link
    BY <1>6 DEF OthersPersist, Fetch, PollStep, Poll, Update, Show, Stop, Unqueue, FullStop,
                Command
  <2> QED  BY <2>1
<1>7. CASE UNCHANGED vars
  BY <1>7 DEF vars
<1> QED  BY <1>2, <1>3, <1>4, <1>5, <1>6, <1>7 DEF Next

\* The steps that leave what Carried is about as it is.
LEMMA CarriedSame ==
    ASSUME Carried, UNCHANGED <<state, prompt, asked, frames, stream, turn>>
    PROVE  Carried'
BY DEF Carried, Free, Sent, Starting, Running, Began, Current

\* A turn begins in the daemon.
LEMMA CarriedBegin ==
    ASSUME TypeInv, Carried, Sent \/ Starting, turn # None, link = "up",
           BeginTurn(turn.of), frames' = <<>>, UNCHANGED turn
    PROVE  Carried' /\ Running' /\ Current' = Current + 1
<1> USE DEF TypeInv, DaemonOK, WireOK
<1>1. stream' = stream \o Started /\ Idles(stream)
  BY DEF BeginTurn, Tell, Sent, Starting
<1>2. /\ Started \in Seq(StreamEvents)
      /\ \A i \in 1..Len(Started) : Started[i].type \notin {"idle", "ended"}
  BY EventTypes DEF Started, Event
<1>3. Ordered(stream') /\ ~HasEnd(stream')
  BY <1>1, <1>2, IdlesOrdered, OrderedSay
<1>4. asked' = Append(asked, turn.of) /\ asked' # <<>> /\ asked'[Len(asked')] = turn.of
      /\ Len(asked') = Len(asked) + 1
  BY DEF BeginTurn
<1>5. ~Began(turn)
  BY NewNotBegun DEF Sent, Starting
<1>6. Running' /\ Current' = Current + 1
  BY <1>3, <1>4 DEF Running, BeginTurn, Current
<1> QED  BY <1>3, <1>5, <1>6 DEF Carried, Began

LEMMA CarriedDaemon ==
    ASSUME TypeInv, Orderly, DaemonStep \/ Evicted
    PROVE  Carried'
<1> USE DEF TypeInv, DaemonOK, WireOK, daemon, memory, Orderly
<1>0. turn' = turn /\ at' = at
  BY DEF DaemonStep, Accept, Resumed, Prompted, Say, TurnEnds, Evicted
<1>1. CASE Accept
  <2>1. turn # None /\ Sent
    BY <1>1 DEF Accept, Carried, Free, Starting, Running
  <2>2. Head(frames) = turn.of /\ frames' = <<>> /\ link = "up"
    BY <1>1, <2>1 DEF Accept, Sent, Calm
  <2>3. CASE BeginTurn(turn.of)
    BY <1>0, <2>1, <2>2, <2>3, CarriedBegin
  <2>4. CASE state' = "starting" /\ prompt' = turn.of /\ UNCHANGED <<asked, said, ending, stream>>
    <3>1. Starting'
      BY <1>0, <2>1, <2>2, <2>4 DEF Sent, Starting
    <3> QED  BY <1>0, <2>1, <2>4, <3>1 DEF Carried, Began
  <2> QED  BY <1>1, <2>1, <2>2, <2>3, <2>4 DEF Accept, Asked, Sent
<1>2. CASE Resumed
  <2>1. turn # None /\ Starting /\ link = "up"
    BY <1>2 DEF Resumed, Carried, Free, Sent, Running, Calm
  <2>2. stream' = stream \o <<Event("idle")>> /\ Idles(stream')
    BY <1>2, <2>1, IdlesMore DEF Resumed, Tell, Starting
  <2>3. Starting' /\ ~Began(turn)
    BY <1>0, <1>2, <2>1, <2>2, NewNotBegun DEF Resumed, Starting
  <2> QED  BY <1>0, <2>1, <2>2, <2>3, IdlesOrdered DEF Carried, Began
<1>3. CASE Prompted
  <2>1. turn # None /\ Starting /\ link = "up"
    BY <1>3 DEF Prompted, Carried, Free, Sent, Running, Calm
  <2> QED  BY <1>0, <1>3, <2>1, CarriedBegin DEF Prompted, Starting
<1>4. CASE Say
  <2>1. turn # None /\ Running /\ ~HasEnd(stream) /\ link = "up"
    BY <1>4 DEF Say, Carried, Free, Sent, Starting, Running, Calm
  <2>2. PICK r \in Seq(StreamEvents) :
           /\ stream' = stream \o r /\ r # <<>>
           /\ \A i \in 1..Len(r) : r[i].type \notin {"idle", "ended"}
    <3> DEFINE text == [type |-> "text", chunk |-> <<Current, said'[Current]>>]
    <3>1. PICK tail \in {<<>>} \cup (IF "tool" \in Ops THEN {<<Event("tool")>>} ELSE {}) :
             Tell(<<text>> \o tail)
      BY <1>4 DEF Say
    <3>2. text \in StreamEvents /\ Event("tool") \in StreamEvents /\ text.type = "text"
          /\ Event("tool").type = "tool"
      <4>1. Current \in DOMAIN said /\ Current \in Nat /\ said'[Current] \in Nat
        BY <1>4 DEF Say, Current
      <4>2. text \in StreamEvents
        BY <4>1 DEF StreamEvents, Chunks
      <4> QED  BY <4>2 DEF Event, StreamEvents
    <3> HIDE DEF text
    <3> DEFINE r == <<text>> \o tail
    <3>3. tail \in Seq(StreamEvents) /\ \A i \in 1..Len(tail) : tail[i].type = "tool"
      <4>1. tail = <<>> \/ tail = <<Event("tool")>>
        BY <3>1
      <4>2. CASE tail = <<>>
        <5>1. <<>> \in Seq(StreamEvents) /\ Len(<<>>) = 0
          OBVIOUS
        <5> QED  BY <4>2, <5>1
      <4>3. CASE tail = <<Event("tool")>>
        <5>1. Len(tail) = 1 /\ tail[1] = Event("tool")
          BY <4>3
        <5>2. \A i \in 1..Len(tail) : i = 1
          BY <5>1
        <5> QED  BY <3>2, <4>3, <5>1, <5>2, EventTypes
      <4> QED  BY <4>1, <4>2, <4>3
    <3>4. /\ r \in Seq(StreamEvents) /\ Len(r) = 1 + Len(tail)
          /\ \A i \in 1..Len(r) : r[i] = IF i <= 1 THEN text ELSE tail[i - 1]
      BY <3>2, <3>3
    <3>5. \A i \in 1..Len(r) : r[i].type \in {"text", "tool"}
      <4> SUFFICES ASSUME NEW i \in 1..Len(r) PROVE r[i].type \in {"text", "tool"}
        OBVIOUS
      <4>1. i <= 1 \/ i - 1 \in 1..Len(tail)
        BY <3>3, <3>4
      <4> QED  BY <3>2, <3>3, <3>4, <4>1
    <3>6. stream' = stream \o r
      BY <2>1, <3>1 DEF Tell
    <3>7. r # <<>>
      BY <3>3, <3>4
    <3> HIDE DEF r
    <3> QED  BY <3>4, <3>5, <3>6, <3>7
  <2>3. Ordered(stream') /\ ~HasEnd(stream')
    BY <2>1, <2>2, OrderedSay DEF Carried
  <2>4. Running'
    BY <1>0, <1>4, <2>1, <2>3 DEF Running, Say, Current
  <2>5. stream'[1].type # "idle" \/ (stream # <<>> /\ stream'[1] = stream[1])
    <3>1. CASE stream = <<>>
      BY <2>2, <3>1
    <3>2. CASE stream # <<>>
      BY <2>2, <3>2
    <3> QED  BY <3>1, <3>2
  <2> QED  BY <1>0, <2>1, <2>3, <2>4, <2>5 DEF Carried, Began
<1>5. CASE TurnEnds
  <2>1. turn # None /\ Running /\ ~HasEnd(stream) /\ link = "up"
    BY <1>5 DEF TurnEnds, Carried, Free, Sent, Starting, Running, Calm
  <2>2. stream' = stream \o Ended(Current)
    BY <1>5, <2>1 DEF TurnEnds, Tell
  <2>3. /\ Ended(Current) \in Seq(StreamEvents) /\ Len(Ended(Current)) = 2
        /\ Ended(Current)[1].type = "ended" /\ Ended(Current)[2].type = "idle"
    BY EventTypes DEF Ended, Event
  <2>4. Ordered(stream') /\ HasEnd(stream')
    BY <2>1, <2>2, <2>3, OrderedEnd DEF Carried
  <2>5. Running'
    BY <1>0, <1>5, <2>1, <2>4 DEF Running, TurnEnds, Current
  <2>6. stream'[1].type # "idle" \/ (stream # <<>> /\ stream'[1] = stream[1])
    <3> HIDE DEF TypeInv
    <3>0. stream \in Seq(StreamEvents)
      BY DEF TypeInv
    <3>1. CASE stream = <<>>
      BY <2>2, <2>3, <3>1
    <3>2. CASE stream # <<>>
      BY <2>2, <2>3, <3>0, <3>2
    <3> QED  BY <3>1, <3>2
  <2> QED  BY <1>0, <2>1, <2>4, <2>5, <2>6 DEF Carried, Began
<1>6. CASE Evicted
  <2>1. frames' = frames /\ stream' = stream /\ prompt' = prompt /\ asked' = asked
        /\ state = "idle" /\ state' = "stored"
    BY <1>6 DEF Evicted, wire
  <2> QED  BY <1>0, <2>1 DEF Carried, Free, Sent, Starting, Running, Began, Current
<1> QED  BY <1>1, <1>2, <1>3, <1>4, <1>5, <1>6 DEF DaemonStep

\* An event is handled, which is not the end of the turn.
LEMMA CarriedTail ==
    ASSUME TypeInv, Carried, NEW type, Receives(type), type # "ended",
           UNCHANGED <<state, prompt, asked, frames>>,
           turn = None => turn' = None,
           turn # None =>
              /\ turn' # None
              /\ turn' = turn \/ (type # "idle" /\ ~turn'.adopted /\ turn'.of = turn.of),
           turn # None /\ type = "idle" => ~Began(turn)
    PROVE  Carried' /\ (turn # None /\ type # "idle" => Running /\ Running')
<1> USE DEF TypeInv, WireOK
<1>1. stream \in Seq(StreamEvents) /\ stream # <<>> /\ Head(stream).type = type
      /\ stream' = Tail(stream) /\ Ordered(stream)
  BY HeadTyped DEF Carried
<1>2. /\ Ordered(stream') /\ (Idles(stream) => Idles(stream'))
      /\ HasEnd(stream') <=> HasEnd(stream)
      /\ type # "idle" /\ stream' # <<>> => stream'[1].type # "idle"
  BY <1>1, OrderedTail
<1>3. type # "idle" => ~Idles(stream)
  <2>1. stream[1].type = type /\ 1 \in 1..Len(stream)
    BY <1>1
  <2> QED  BY <2>1 DEF Idles
<1>4. CASE turn = None
  BY <1>2, <1>4 DEF Carried, Free
<1>5. CASE turn # None /\ type # "idle"
  <2>1. Running /\ turn' # None /\ ~turn'.adopted /\ turn'.of = turn.of
    BY <1>3, <1>5 DEF Carried, Sent, Starting
  <2>2. Running'
    BY <1>2, <2>1 DEF Running, Current
  <2> QED  BY <1>2, <1>5, <2>1, <2>2 DEF Carried
<1>6. CASE turn # None /\ type = "idle"
  <2>1. turn' = turn /\ ~Began(turn)
    BY <1>6
  <2>2. (Sent \/ Starting \/ Running)'
    BY <1>2, <1>6, <2>1 DEF Carried, Sent, Starting, Running, Current
  <2> QED  BY <1>2, <1>6, <2>1, <2>2 DEF Carried, Began
<1> QED  BY <1>4, <1>5, <1>6

\* A turn is finished when the daemon's turn for its prompt has ended.
LEMMA CarriedEnd ==
    ASSUME TypeInv, Carried, turn # None, TurnEnded \/ Idle, turn' # turn
    PROVE  /\ Running /\ state # "working" /\ TurnEnded /\ turn' = None
           /\ at = "handling" /\ at' = "closing" /\ leaving'.turn = turn
           /\ Head(stream).type = "ended" /\ stream' = Tail(stream)
           /\ UNCHANGED <<state, prompt, asked, said, frames>>
           /\ Carried'
<1> USE DEF TypeInv, WireOK
<1>1. stream \in Seq(StreamEvents) /\ stream # <<>> /\ stream' = Tail(stream) /\ Ordered(stream)
      /\ Head(stream).type \in {"ended", "idle"} /\ Head(stream) = stream[1] /\ at = "handling"
  <2>1. stream \in Seq(StreamEvents) /\ Ordered(stream)
    BY DEF Carried
  <2>2. stream # <<>> /\ stream' = Tail(stream) /\ Head(stream).type \in {"ended", "idle"}
        /\ at = "handling"
    BY DEF TurnEnded, Idle, Receives
  <2> QED  BY <2>1, <2>2
<1>2. ~Idle
  <2>1. Idle => Began(turn)
    BY DEF Idle, memory
  <2>2. Idle => stream[1].type = "idle"
    BY <1>1 DEF Idle, Receives
  <2> QED  BY <1>1, <2>1, <2>2 DEF Carried
<1>3. /\ TurnEnded /\ turn' = None /\ leaving'.turn = turn /\ at' = "closing"
      /\ Head(stream).type = "ended"
      /\ UNCHANGED <<state, prompt, asked, said, frames>>
  BY <1>2 DEF TurnEnded, Receives, Finish, TakeTurn, daemon
<1>4. Idles(stream') /\ HasEnd(stream)
  BY <1>1, <1>3, OrderedTail
<1>5. Running /\ state # "working"
  BY <1>4, IdlesOrdered DEF Carried, Sent, Starting, Running
<1>6. Free'
  BY <1>3, <1>4, <1>5 DEF Running, Free
<1> QED  BY <1>1, <1>3, <1>4, <1>5, <1>6, IdlesOrdered DEF Carried

\* An event that does not end the turn leaves whose turn it is.
LEMMA EventTurn ==
    ASSUME TypeInv, TextReceived \/ ToolCalled \/ TurnStarted \/ Working
    PROVE  /\ turn = None => turn' = None
           /\ turn # None =>
                 turn' # None /\ turn'.of = turn.of /\ turn'.adopted = turn.adopted
<1>0. turn # None => turn \in Turns
  BY DEF TypeInv, BotOK
<1>1. CASE TextReceived /\ turn # None
  <2>1. turn' = [turn EXCEPT !.parts = Append(@, Head(stream).chunk)]
    BY <1>1 DEF TextReceived
  <2>2. Append(turn.parts, Head(stream).chunk) \in Seq(Chunks)
    <3>1. Head(stream) \in StreamEvents /\ Head(stream).type = "text"
      BY <1>1, HeadTyped DEF TextReceived, TypeInv
    <3>2. Head(stream).chunk \in Chunks
      BY <3>1 DEF StreamEvents
    <3>3. turn.parts \in Seq(Chunks)
      BY <1>0, <1>1 DEF Turns
    <3> QED  BY <3>2, <3>3
  <2>3. turn' \in Turns
    BY <1>0, <1>1, <2>1, <2>2 DEF Turns
  <2> QED  BY <1>0, <1>1, <2>1, <2>3, NoneIsNone DEF Turns
<1>2. CASE ToolCalled /\ turn # None
  <2>1. CASE turn.parts = <<>>
    BY <1>2, <2>1 DEF ToolCalled
  <2>2. CASE turn.parts # <<>>
    <3>1. turn \in Turns /\ turn' = CloseBlock(turn)
      BY <1>0, <1>2, <2>2 DEF ToolCalled
    <3>2. turn' \in Turns /\ turn'.of = turn.of /\ turn'.adopted = turn.adopted
      BY <3>1, CloseBlockTyped
    <3> QED  BY <1>2, <3>2, NoneIsNone
  <2> QED  BY <2>1, <2>2
<1>3. CASE TurnStarted
  BY <1>3 DEF TurnStarted
<1>4. CASE Working /\ turn # None
  <2>1. turn' \in Turns /\ turn'.of = turn.of /\ turn'.adopted = turn.adopted
    BY <1>0, <1>4 DEF Working, Turns
  <2> QED  BY <1>4, <2>1, NoneIsNone
<1>5. CASE turn = None
  BY <1>5 DEF TextReceived, ToolCalled, TurnStarted, Working
<1> QED  BY <1>1, <1>2, <1>3, <1>4, <1>5

LEMMA CarriedEvent ==
    ASSUME TypeInv, Orderly,
           TextReceived \/ ToolCalled \/ TurnStarted \/ Working \/ TurnEnded \/ Idle
    PROVE  Carried'
<1> USE DEF daemon, memory, Orderly
<1>0. turn # None => ~turn.adopted
  BY DEF Carried
<1>1. CASE TextReceived
  BY <1>0, <1>1, EventTurn, CarriedTail DEF TextReceived
<1>2. CASE ToolCalled
  BY <1>0, <1>2, EventTurn, CarriedTail DEF ToolCalled
<1>3. CASE TurnStarted
  BY <1>0, <1>3, EventTurn, CarriedTail DEF TurnStarted
<1>4. CASE Working
  BY <1>0, <1>4, EventTurn, CarriedTail DEF Working
<1>5. CASE turn # None /\ (TurnEnded \/ Idle) /\ turn' # turn
  BY <1>5, CarriedEnd
<1>6. CASE Idle /\ turn' = turn
  <2>1. UNCHANGED <<state, prompt, asked, frames>>
    BY <1>6 DEF Idle, Finish
  <2>2. turn # None => ~Began(turn)
    BY <1>6, NoneIsNone DEF Idle, Finish, TakeTurn
  <2> QED  BY <1>6, <2>1, <2>2, CarriedTail DEF Idle
<1>7. CASE turn = None /\ Idle
  BY <1>6, <1>7 DEF Idle, Finish, Persist
<1>8. CASE turn = None /\ TurnEnded
  <2>1. ~Idles(stream)
    <3>1. stream # <<>> /\ stream \in Seq(StreamEvents) /\ Head(stream).type = "ended"
      BY <1>8, HeadTyped DEF TurnEnded, TypeInv, WireOK
    <3>2. stream[1].type = "ended" /\ 1 \in 1..Len(stream)
      BY <3>1
    <3> QED  BY <3>2 DEF Idles
  <2> QED  BY <1>8, <2>1 DEF Carried, Free
<1>9. CASE turn # None /\ TurnEnded /\ turn' = turn
  <2>1. turn' = None
    BY <1>9 DEF TurnEnded, Finish, TakeTurn
  <2> QED  BY <1>9, <2>1
<1> QED  BY <1>1, <1>2, <1>3, <1>4, <1>5, <1>6, <1>7, <1>8, <1>9

\* A message is forwarded.
LEMMA CarriedForward ==
    ASSUME TypeInv, Carried, link = "up", NEW p \in Prompts, NEW q, Forward(p, q),
           UNCHANGED <<state, prompt, asked, stream>>
    PROVE  Carried'
<1>1. CASE turn # None
  BY <1>1, CarriedSame DEF Forward
<1>2. CASE turn = None
  <2>1. Free /\ turn' = NewTurn(p) /\ frames' = <<p>>
    BY <1>2 DEF Carried, Free, Forward
  <2>2. turn' # None /\ turn'.of = p /\ ~turn'.adopted /\ ~Began(turn')
    BY <2>1, NewNotBegun, NewTurnType, NoneIsNone
  <2>3. Sent'
    BY <2>1, <2>2 DEF Free, Sent
  <2>4. (~turn.adopted)' /\ (~Began(turn))' /\ (turn # None)'
    BY <2>2 DEF Began
  <2> QED  BY <2>3, <2>4 DEF Carried
<1> QED  BY <1>1, <1>2

\* What the steps of the bot that handle no event have in common.
LEMMA QuietSteps ==
    ASSUME Faults \subseteq {"refuse"}, TypeInv, Orderly,
           \/ Connect \/ NothingToSettle \/ Close \/ Progress \/ OthersPersist
           \/ Poll \/ Fetch \/ Show \/ Stop \/ Unqueue \/ FullStop
           \/ Reply \/ NoReply \/ Report \/ Update \/ UNCHANGED vars
    PROVE  /\ UNCHANGED <<state, prompt, asked, said, stream>>
           /\ \/ UNCHANGED <<turn, frames>>
              \/ link = "up" /\ \E q : \E p \in Prompts : Forward(p, q)
<1> USE DEF daemon, wire, memory, Orderly
<1>1. CASE Connect
  <2>1. stream' = <<>> /\ stream = <<>>
    BY <1>1 DEF Connect, Calm
  <2> QED  BY <1>1, <2>1 DEF Connect
<1>2. CASE \/ NothingToSettle \/ Close \/ Progress \/ OthersPersist
           \/ Poll \/ Fetch \/ Show \/ Stop \/ Unqueue \/ FullStop
  BY <1>2 DEF NothingToSettle, Close, Progress, OthersPersist, Poll, Fetch, Show, Stop,
              Unqueue, FullStop, Command
<1>3. CASE UNCHANGED vars
  BY <1>3 DEF vars
<1>4. CASE Reply \/ NoReply \/ Report \/ Update
  <2>1. link = "up" /\ UNCHANGED <<state, prompt, asked, said, stream>>
    <3>1. at # "down"
      BY <1>4 DEF Calm, Reply, NoReply, Report, Update
    <3> QED  BY <1>4, <3>1 DEF Calm, TypeInv, WireOK, Reply, NoReply, Report, Update
  <2>2. CASE Update
    <3>1. <<offset'>> \in Prompts /\ Forward(<<offset'>>, queue)
      BY <2>2 DEF Update, TypeInv, BotOK, Prompts
    <3> QED  BY <2>1, <3>1
  <2>3. CASE Flush(queue)
    <3>1. CASE queue = <<>>
      BY <2>1, <2>3, <3>1 DEF Flush
    <3>2. CASE queue # <<>>
      <4>1. Messages(queue) \in Prompts /\ Forward(Messages(queue), <<>>)
        BY <2>3, <3>2, MessagesJoin DEF TypeInv, BotOK, Flush
      <4> QED  BY <2>1, <4>1
    <3> QED  BY <3>1, <3>2
  <2>4. CASE Reported /\ UNCHANGED frames
    BY <2>1, <2>4 DEF Reported
  <2> QED  BY <1>4, <2>2, <2>3, <2>4 DEF Reply, NoReply, Report
<1> QED  BY <1>1, <1>2, <1>3, <1>4

LEMMA CarriedQuiet ==
    ASSUME TypeInv, Carried, UNCHANGED <<state, prompt, asked, stream>>,
           \/ UNCHANGED <<turn, frames>>
           \/ link = "up" /\ \E q : \E p \in Prompts : Forward(p, q)
    PROVE  Carried'
BY CarriedSame, CarriedForward

\* The steps that a connection which nothing breaks never takes.
LEMMA NeverTaken ==
    ASSUME Faults \subseteq {"refuse"}, TypeInv, Calm
    PROVE  ~Drop /\ ~DaemonDies /\ ~Exit /\ ~Adopt /\ ~FindEnded /\ ~Recover /\ ~RecoveryRefused
           /\ ~Recovered /\ ~Reset
<1>1. "drop" \notin Faults /\ "daemon" \notin Faults /\ "exit" \notin Faults
  OBVIOUS
<1>2. ~Drop /\ ~DaemonDies /\ ~Exit
  BY <1>1 DEF Drop, DaemonDies, Exit, Fault
<1>3. ~Adopt /\ ~FindEnded
  BY DEF Adopt, FindEnded, Calm
<1>4. ~Recover /\ ~RecoveryRefused /\ ~Recovered
  BY DEF Recover, RecoveryRefused, Recovered, Calm
<1>5. ~Reset
  BY DEF Reset, Calm
<1> QED  BY <1>2, <1>3, <1>4, <1>5

LEMMA OrderlyKept ==
    ASSUME Faults \subseteq {"refuse"}, TypeInv, Orderly, [Next]_vars
    PROVE  Orderly'
<1>1. Calm'
  BY CalmKept DEF Orderly
<1>2. Carried'
  <2>1. CASE DaemonStep \/ Evicted
    BY <2>1, CarriedDaemon
  <2>2. CASE TextReceived \/ ToolCalled \/ TurnStarted \/ Working \/ TurnEnded \/ Idle
    BY <2>2, CarriedEvent
  <2>3. CASE \/ Connect \/ NothingToSettle \/ Close \/ Progress \/ OthersPersist
             \/ Poll \/ Fetch \/ Show \/ Stop \/ Unqueue \/ FullStop
             \/ Reply \/ NoReply \/ Report \/ Update \/ UNCHANGED vars
    BY <2>3, QuietSteps, CarriedQuiet DEF Orderly
  <2> QED  BY <2>1, <2>2, <2>3, NeverTaken DEF Next, ConnectionStep, PollStep, Orderly
<1> QED  BY <1>1, <1>2 DEF Orderly

LEMMA OrderlyInit == Init => Orderly
BY DEF Init, Orderly, Calm, Carried, Free, Idles, Ordered

\* The bot closes a turn only when the daemon's turn for the same prompt has ended,
\* whatever turn_ended or idle it is told of, as long as no connection and no process is
\* lost (_finish_turn).
THEOREM ClosesItsOwn ==
    ASSUME Faults \subseteq {"refuse"}
    PROVE  Spec => EndsItsOwnTurn
<1> DEFINE A == turn # None /\ at = "handling" /\ at' = "closing" =>
                    \E k \in DOMAIN asked : asked[k] = turn.of /\ (k < Current \/ state # "working")
<1>1. TypeInv /\ MapIsCurrent /\ [Next]_vars => TypeInv' /\ MapIsCurrent'
  BY TurnsNext DEF TurnsTypes
<1>2. TypeInv /\ Orderly /\ [Next]_vars => Orderly'
  BY OrderlyKept
<1>3. TypeInv /\ Orderly /\ [Next]_vars => [A]_vars
  <2> SUFFICES ASSUME TypeInv, Orderly, [Next]_vars, turn # None, at = "handling", at' = "closing"
               PROVE  \E k \in DOMAIN asked :
                         asked[k] = turn.of /\ (k < Current \/ state # "working")
    OBVIOUS
  <2>1. \A q : Flush(q) => at' \in {"handling", "progress"}
    BY DEF Flush
  <2>2. TurnEnded \/ Idle
    BY <2>1, NeverTaken
       DEF Orderly, Next, vars, daemon, wire, memory, DaemonStep, Accept, Resumed, Prompted, Say,
           TurnEnds, Evicted, ConnectionStep, Connect, NothingToSettle, TextReceived, ToolCalled,
           TurnStarted, Working, Close, Reply, NoReply, Reported, Report, Progress,
           OthersPersist, Fetch, PollStep, Poll, Update, Show, Stop, Unqueue, FullStop, Command
  <2>3. turn' # turn
    BY <2>2 DEF TurnEnded, Idle, Finish, TakeTurn, memory
  <2>4. Running /\ state # "working"
    BY <2>2, <2>3, CarriedEnd DEF Orderly
  <2>5. Current \in DOMAIN asked
    BY <2>4 DEF Running, Current, TypeInv, DaemonOK
  <2> QED  BY <2>4, <2>5 DEF Running
<1> QED  BY <1>1, <1>2, <1>3, TurnsInit, OrderlyInit, PTL DEF Spec, EndsItsOwnTurn

-----------------------------------------------------------------------------
(***************************************************************************)
(* Where a message is that the bot has handled.                            *)
(***************************************************************************)
Kept(n) ==
    \/ n \in dropped
    \/ \E messages \in ToSet(queue) : n \in ToSet(messages)
    \/ \E messages \in ToSet(frames) : n \in ToSet(messages)
    \/ \E messages \in ToSet(asked) : n \in ToSet(messages)
    \/ prompt # None /\ n \in ToSet(prompt)

LEMMA KeptAll == NothingLost <=> \A n \in 1..offset : Kept(n)
BY DEF NothingLost, Kept

LEMMA SetOfAppend ==
    ASSUME NEW S, NEW s \in Seq(S), NEW e \in S
    PROVE  ToSet(Append(s, e)) = ToSet(s) \cup {e}
<1>1. Append(s, e) \in Seq(S) /\ Len(Append(s, e)) = Len(s) + 1 /\ Len(s) \in Nat
      /\ \A i \in 1..Len(s) + 1 : Append(s, e)[i] = IF i <= Len(s) THEN s[i] ELSE e
  OBVIOUS
<1>2. ToSet(Append(s, e)) \subseteq ToSet(s) \cup {e}
  BY <1>1 DEF ToSet
<1>3. ToSet(s) \subseteq ToSet(Append(s, e))
  BY <1>1 DEF ToSet
<1>4. e \in ToSet(Append(s, e))
  <2>1. Len(s) + 1 \in 1..Len(s) + 1 /\ ~(Len(s) + 1 <= Len(s))
    BY <1>1
  <2> QED  BY <1>1, <2>1 DEF ToSet
<1> QED  BY <1>2, <1>3, <1>4

LEMMA SetOfOne == \A e : ToSet(<<e>>) = {e} /\ ToSet(<<>>) = {}
<1>1. \A e : DOMAIN <<e>> = {1} /\ <<e>>[1] = e
  OBVIOUS
<1>2. DOMAIN <<>> = {}
  OBVIOUS
<1>3. \A e : ToSet(<<e>>) = {e}
  <2> SUFFICES ASSUME NEW e PROVE ToSet(<<e>>) = {e}
    OBVIOUS
  <2> QED  BY <1>1 DEF ToSet
<1> QED  BY <1>3 DEF ToSet

LEMMA KeptDaemon ==
    ASSUME TypeInv, Orderly, DaemonStep \/ Evicted, NEW n, Kept(n)
    PROVE  Kept(n)'
<1> USE DEF TypeInv, DaemonOK, WireOK, daemon, memory, ghosts, Orderly
<1>0. UNCHANGED <<queue, dropped, turn>>
  BY DEF DaemonStep, Accept, Resumed, Prompted, Say, TurnEnds, Evicted
<1>1. CASE Accept
  <2>1. turn # None /\ Sent
    BY <1>1 DEF Accept, Carried, Free, Starting, Running
  <2>2. frames = <<turn.of>> /\ Head(frames) = turn.of /\ frames' = <<>> /\ prompt = None
        /\ turn.of \in Prompts /\ asked \in Seq(Prompts)
    BY <1>1, <2>1 DEF Accept, Sent
  <2>3. ToSet(frames) = {turn.of} /\ turn.of # None
    BY <2>2, SetOfOne, NoneIsNone
  <2>4. \/ asked' = Append(asked, turn.of)
        \/ asked' = asked /\ prompt' = turn.of
    BY <1>1, <2>1, <2>2 DEF Accept, Asked, BeginTurn, Sent
  <2>5. ToSet(Append(asked, turn.of)) = ToSet(asked) \cup {turn.of}
    BY <2>2, SetOfAppend
  <2> QED  BY <1>0, <2>2, <2>3, <2>4, <2>5 DEF Kept
<1>2. CASE Prompted
  <2>1. prompt \in Prompts /\ asked \in Seq(Prompts) /\ asked' = Append(asked, prompt)
        /\ frames' = frames
    BY <1>2 DEF Prompted, BeginTurn
  <2>2. ToSet(asked') = ToSet(asked) \cup {prompt}
    BY <2>1, SetOfAppend
  <2> QED  BY <1>0, <2>1, <2>2 DEF Kept
<1>3. CASE Resumed \/ Say \/ TurnEnds \/ Evicted
  <2>1. UNCHANGED <<frames, asked, prompt>>
    BY <1>3 DEF Resumed, Say, TurnEnds, Evicted, wire
  <2> QED  BY <1>0, <2>1 DEF Kept
<1> QED  BY <1>1, <1>2, <1>3 DEF DaemonStep

\* Forwarding keeps what is forwarded, and the queue.
LEMMA KeptForward ==
    ASSUME TypeInv, link = "up", NEW p \in Prompts, NEW q \in Seq(Prompts), Forward(p, q),
           UNCHANGED <<prompt, asked, dropped>>, NEW n,
           \/ n \in ToSet(p)
           \/ \E messages \in ToSet(q) : n \in ToSet(messages)
           \/ Kept(n) /\ ~\E messages \in ToSet(queue) : n \in ToSet(messages)
    PROVE  Kept(n)'
<1>1. CASE turn # None
  <2>1. queue' = Append(q, p) /\ frames' = frames
    BY <1>1 DEF Forward
  <2>2. ToSet(queue') = ToSet(q) \cup {p}
    BY <2>1, SetOfAppend
  <2> QED  BY <2>1, <2>2 DEF Kept
<1>2. CASE turn = None
  <2>1. queue' = q /\ frames' = Append(frames, p)
    BY <1>2 DEF Forward
  <2>2. ToSet(frames') = ToSet(frames) \cup {p}
    BY <2>1, SetOfAppend DEF TypeInv, WireOK
  <2> QED  BY <2>1, <2>2 DEF Kept
<1> QED  BY <1>1, <1>2

LEMMA KeptFlush ==
    ASSUME TypeInv, link = "up", Flush(queue), UNCHANGED <<prompt, asked, dropped>>,
           NEW n, Kept(n)
    PROVE  Kept(n)'
<1>1. CASE queue = <<>>
  BY <1>1 DEF Flush, Kept
<1>2. CASE queue # <<>>
  <2>1. Forward(Messages(queue), <<>>)
    BY <1>2 DEF Flush
  <2>2. Messages(queue) \in Prompts
        /\ ((\E messages \in ToSet(queue) : n \in ToSet(messages)) => n \in ToSet(Messages(queue)))
    BY MessagesJoin DEF TypeInv, BotOK
  <2>3. <<>> \in Seq(Prompts)
    OBVIOUS
  <2> QED  BY <2>1, <2>2, <2>3, KeptForward
<1> QED  BY <1>1, <1>2

LEMMA KeptNext ==
    ASSUME Faults \subseteq {"refuse"}, TypeInv, Orderly, NothingLost, [Next]_vars
    PROVE  NothingLost'
<1> SUFFICES ASSUME NEW n \in 1..offset'
             PROVE  Kept(n)'
  BY DEF NothingLost, Kept
<1> USE DEF daemon, wire, memory, chat, ghosts
<1>0. n \in 1..offset => Kept(n)
  BY KeptAll
<1>1. CASE DaemonStep \/ Evicted
  <2>1. offset' = offset
    BY <1>1 DEF DaemonStep, Accept, Resumed, Prompted, Say, TurnEnds, Evicted
  <2> QED  BY <1>0, <1>1, <2>1, KeptDaemon
<1>2. CASE Connect \/ NothingToSettle \/ TextReceived \/ ToolCalled \/ TurnStarted \/ Working
           \/ TurnEnded \/ Idle \/ Close \/ Progress \/ OthersPersist \/ Poll \/ Fetch \/ Show
  <2>1. UNCHANGED <<queue, frames, asked, prompt, dropped, offset>>
    BY <1>2 DEF Connect, NothingToSettle, StartPoll, TextReceived, ToolCalled, TurnStarted,
                Working, TurnEnded, Idle, Finish, TakeTurn, Close, Progress, OthersPersist, Poll,
                Fetch, Show
  <2> QED  BY <1>0, <2>1 DEF Kept
<1>3. CASE Reply \/ NoReply \/ Report
  <2>1. UNCHANGED <<offset, prompt, asked, dropped>> /\ link = "up"
    BY <1>3 DEF Reply, NoReply, Report, Orderly, Calm, TypeInv, WireOK
  <2>2. CASE Flush(queue)
    BY <1>0, <2>1, <2>2, KeptFlush
  <2>3. CASE Reported /\ UNCHANGED frames
    BY <1>0, <2>1, <2>3 DEF Reported, Kept
  <2> QED  BY <1>3, <2>2, <2>3 DEF Reply, NoReply, Report
<1>4. CASE Update
  <2>1. /\ offset' = offset + 1 /\ Forward(<<offset'>>, queue) /\ link = "up"
        /\ UNCHANGED <<prompt, asked, dropped>>
    BY <1>4 DEF Update, Orderly, Calm, TypeInv, WireOK
  <2>2. <<offset'>> \in Prompts /\ queue \in Seq(Prompts) /\ ToSet(<<offset'>>) = {offset'}
    BY <2>1, SetOfOne DEF TypeInv, BotOK, Prompts
  <2>3. n \in 1..offset \/ n \in ToSet(<<offset'>>)
    BY <2>1, <2>2 DEF TypeInv, BotOK
  <2> QED  BY <1>0, <2>1, <2>2, <2>3, KeptForward
<1>5. CASE Stop \/ Unqueue \/ FullStop
  <2>1. UNCHANGED <<frames, asked, prompt, offset>>
    BY <1>5 DEF Stop, Unqueue, FullStop, Command
  <2>2. (\E messages \in ToSet(queue) : n \in ToSet(messages)) => n \in ToSet(Messages(queue))
    BY MessagesJoin DEF TypeInv, BotOK
  <2>3. CASE UNCHANGED <<queue, dropped>>
    BY <1>0, <2>1, <2>3 DEF Kept
  <2>4. CASE DropQueue
    BY <1>0, <2>1, <2>2, <2>4 DEF DropQueue, Kept
  <2> QED  BY <1>5, <2>3, <2>4 DEF Stop, Unqueue, FullStop
<1>6. CASE UNCHANGED vars
  BY <1>0, <1>6 DEF vars, Kept
<1> QED  BY <1>1, <1>2, <1>3, <1>4, <1>5, <1>6, NeverTaken
         DEF Next, ConnectionStep, PollStep, Orderly

\* A message that the bot has handled is queued, on its way, asked, or taken back by
\* the user, as long as no connection and no process is lost (_forward, _flush_queue).
THEOREM NoMessageLost ==
    ASSUME Faults \subseteq {"refuse"}
    PROVE  Spec => []NothingLost
<1>1. TypeInv /\ MapIsCurrent /\ [Next]_vars => TypeInv' /\ MapIsCurrent'
  BY TurnsNext DEF TurnsTypes
<1>2. TypeInv /\ Orderly /\ [Next]_vars => Orderly'
  BY OrderlyKept
<1>3. TypeInv /\ Orderly /\ NothingLost /\ [Next]_vars => NothingLost'
  BY KeptNext
<1>4. Init => NothingLost
  BY DEF Init, NothingLost
<1> QED  BY <1>1, <1>2, <1>3, <1>4, TurnsInit, OrderlyInit, PTL DEF Spec

-----------------------------------------------------------------------------
(***************************************************************************)
(* The text of a turn.  Of the m pieces of the k-th turn, the bot has the  *)
(* first r; the others are on their way, in order.                         *)
(***************************************************************************)
Carries(s, k, r, m) ==
    /\ r \in Nat /\ m \in Nat /\ r <= m
    /\ \A i \in 1..Len(s) :
          s[i].type = "text" => \E n \in Nat : s[i].chunk = <<k, n>> /\ r < n /\ n <= m
    /\ \A i, j \in 1..Len(s) :
          i < j /\ s[i].type = "text" /\ s[j].type = "text" => s[i].chunk[2] < s[j].chunk[2]
    /\ \A n \in Nat :
          r < n /\ n <= m => \E i \in 1..Len(s) : s[i].type = "text" /\ s[i].chunk = <<k, n>>

LEMMA CarriesNothing ==
    ASSUME NEW s, NEW k, \A i \in 1..Len(s) : s[i].type # "text"
    PROVE  Carries(s, k, 0, 0)
BY DEF Carries

LEMMA CarriesTail ==
    ASSUME NEW s \in Seq(StreamEvents), s # <<>>, NEW k, NEW r, NEW m, Carries(s, k, r, m)
    PROVE  /\ Head(s).type # "text" => Carries(Tail(s), k, r, m)
           /\ Head(s).type = "text" => Head(s).chunk = <<k, r + 1>> /\ Carries(Tail(s), k, r + 1, m)
<1> DEFINE t == Tail(s)
<1>1. /\ Len(t) = Len(s) - 1 /\ Len(s) \in Nat /\ Len(s) > 0
      /\ Head(s) = s[1]
      /\ \A i \in 1..Len(t) : t[i] = s[i + 1]
  BY TailAt
<1>2. \A i \in 1..Len(t) : i + 1 \in 1..Len(s) /\ i \in Nat
  BY <1>1
<1>3. \A i \in 1..Len(s) : i = 1 \/ (i - 1 \in 1..Len(t) /\ s[i] = t[i - 1])
  <2> SUFFICES ASSUME NEW i \in 1..Len(s), i # 1 PROVE i - 1 \in 1..Len(t) /\ s[i] = t[i - 1]
    OBVIOUS
  <2>1. i - 1 \in 1..Len(t) /\ (i - 1) + 1 = i
    BY <1>1
  <2> QED  BY <1>1, <2>1
<1> HIDE DEF t
<1>4. r \in Nat /\ m \in Nat /\ r <= m
  BY DEF Carries
<1>5. \A i, j \in 1..Len(t) :
         i < j /\ t[i].type = "text" /\ t[j].type = "text" => t[i].chunk[2] < t[j].chunk[2]
  <2> SUFFICES ASSUME NEW i \in 1..Len(t), NEW j \in 1..Len(t), i < j,
                      t[i].type = "text", t[j].type = "text"
               PROVE  t[i].chunk[2] < t[j].chunk[2]
    OBVIOUS
  <2>1. i + 1 \in 1..Len(s) /\ j + 1 \in 1..Len(s) /\ i + 1 < j + 1
        /\ t[i] = s[i + 1] /\ t[j] = s[j + 1]
    BY <1>1, <1>2
  <2>2. \A a, b \in 1..Len(s) :
           a < b /\ s[a].type = "text" /\ s[b].type = "text" => s[a].chunk[2] < s[b].chunk[2]
    BY DEF Carries
  <2> QED  BY <2>1, <2>2
<1>6. \A i \in 1..Len(t) :
         t[i].type = "text" => \E n \in Nat : t[i].chunk = <<k, n>> /\ r < n /\ n <= m
  <2>1. \A i \in 1..Len(s) :
           s[i].type = "text" => \E n \in Nat : s[i].chunk = <<k, n>> /\ r < n /\ n <= m
    BY DEF Carries
  <2>2. \A i \in 1..Len(t) : i + 1 \in 1..Len(s) /\ t[i] = s[i + 1]
    BY <1>1, <1>2
  <2> QED  BY <2>1, <2>2
<1>7. ASSUME Head(s).type # "text"
      PROVE  Carries(t, k, r, m)
  <2>1. ASSUME NEW n \in Nat, r < n, n <= m
        PROVE  \E i \in 1..Len(t) : t[i].type = "text" /\ t[i].chunk = <<k, n>>
    <3>1. PICK i \in 1..Len(s) : s[i].type = "text" /\ s[i].chunk = <<k, n>>
      BY <2>1 DEF Carries
    <3>2. i # 1
      BY <1>1, <1>7, <3>1
    <3> QED  BY <1>3, <3>1, <3>2
  <2> QED  BY <1>4, <1>5, <1>6, <2>1 DEF Carries
<1>8. ASSUME Head(s).type = "text"
      PROVE  Head(s).chunk = <<k, r + 1>> /\ Carries(t, k, r + 1, m)
  <2>1. 1 \in 1..Len(s) /\ s[1].type = "text"
    BY <1>1, <1>8
  <2>2. PICK h \in Nat : s[1].chunk = <<k, h>> /\ r < h /\ h <= m
    BY <2>1 DEF Carries
  <2>3. \A i \in 1..Len(t) : t[i].type = "text" => h < t[i].chunk[2]
    <3> SUFFICES ASSUME NEW i \in 1..Len(t), t[i].type = "text" PROVE h < t[i].chunk[2]
      OBVIOUS
    <3>1. i + 1 \in 1..Len(s) /\ 1 < i + 1 /\ t[i] = s[i + 1]
      BY <1>1, <1>2
    <3>2. s[1].chunk[2] < s[i + 1].chunk[2]
      BY <2>1, <3>1 DEF Carries
    <3> QED  BY <2>2, <3>1, <3>2
  <2>4. h = r + 1
    <3> SUFFICES ASSUME h # r + 1 PROVE FALSE
      OBVIOUS
    <3>1. r + 1 \in Nat /\ r < r + 1 /\ r + 1 <= m /\ r + 1 < h
      BY <1>4, <2>2
    <3>2. PICK i \in 1..Len(s) : s[i].type = "text" /\ s[i].chunk = <<k, r + 1>>
      BY <3>1 DEF Carries
    <3>3. i # 1
      BY <2>2, <3>1, <3>2
    <3>4. h < r + 1
      <4>1. i - 1 \in 1..Len(t) /\ s[i] = t[i - 1]
        BY <1>3, <3>3
      <4> QED  BY <2>3, <3>2, <4>1
    <3> QED  BY <2>2, <3>1, <3>4
  <2>5. ASSUME NEW i \in 1..Len(t), t[i].type = "text"
        PROVE  \E n \in Nat : t[i].chunk = <<k, n>> /\ r + 1 < n /\ n <= m
    <3>1. PICK n \in Nat : t[i].chunk = <<k, n>> /\ r < n /\ n <= m
      BY <1>6, <2>5
    <3>2. h < t[i].chunk[2]
      BY <2>3, <2>5
    <3> QED  BY <2>4, <3>1, <3>2
  <2>6. ASSUME NEW n \in Nat, r + 1 < n, n <= m
        PROVE  \E i \in 1..Len(t) : t[i].type = "text" /\ t[i].chunk = <<k, n>>
    <3>1. r < n
      BY <1>4, <2>6
    <3>2. PICK i \in 1..Len(s) : s[i].type = "text" /\ s[i].chunk = <<k, n>>
      BY <2>6, <3>1 DEF Carries
    <3>3. i # 1
      BY <2>2, <2>4, <2>6, <3>2
    <3> QED  BY <1>3, <3>2, <3>3
  <2>7. r + 1 \in Nat /\ r + 1 <= m
    BY <1>4, <2>2
  <2> QED  BY <1>1, <1>4, <1>5, <2>2, <2>4, <2>5, <2>6, <2>7 DEF Carries
<1> QED  BY <1>7, <1>8 DEF t

\* Something is sent that is not text.
LEMMA CarriesMore ==
    ASSUME NEW s \in Seq(StreamEvents), NEW k, NEW r, NEW m, Carries(s, k, r, m),
           NEW u \in Seq(StreamEvents), \A i \in 1..Len(u) : u[i].type # "text"
    PROVE  Carries(s \o u, k, r, m)
<1> DEFINE t == s \o u
<1>1. /\ Len(t) = Len(s) + Len(u) /\ Len(s) \in Nat /\ Len(u) \in Nat
      /\ \A i \in 1..Len(t) : t[i] = IF i <= Len(s) THEN s[i] ELSE u[i - Len(s)]
  BY ConcatAt
<1>2. \A i \in 1..Len(t) : t[i].type = "text" => i \in 1..Len(s) /\ t[i] = s[i]
  <2> SUFFICES ASSUME NEW i \in 1..Len(t), t[i].type = "text" PROVE i \in 1..Len(s) /\ t[i] = s[i]
    OBVIOUS
  <2>1. i <= Len(s) \/ i - Len(s) \in 1..Len(u)
    BY <1>1
  <2> QED  BY <1>1, <2>1
<1>3. \A i \in 1..Len(s) : i \in 1..Len(t) /\ t[i] = s[i]
  BY <1>1
<1> HIDE DEF t
<1>4. Carries(t, k, r, m)
  <2>1. \A i \in 1..Len(t) :
           t[i].type = "text" => \E n \in Nat : t[i].chunk = <<k, n>> /\ r < n /\ n <= m
    BY <1>2 DEF Carries
  <2>2. \A i, j \in 1..Len(t) :
           i < j /\ t[i].type = "text" /\ t[j].type = "text" => t[i].chunk[2] < t[j].chunk[2]
    BY <1>2 DEF Carries
  <2>3. \A n \in Nat :
           r < n /\ n <= m => \E i \in 1..Len(t) : t[i].type = "text" /\ t[i].chunk = <<k, n>>
    BY <1>3 DEF Carries
  <2> QED  BY <2>1, <2>2, <2>3 DEF Carries
<1> QED  BY <1>4 DEF t

\* A piece of text is sent.
LEMMA CarriesSay ==
    ASSUME NEW s \in Seq(StreamEvents), NEW k, NEW r, NEW m, Carries(s, k, r, m),
           NEW e \in StreamEvents, e.type = "text", e.chunk = <<k, m + 1>>
    PROVE  Carries(s \o <<e>>, k, r, m + 1)
<1> DEFINE t == s \o <<e>>
<1>1. /\ Len(t) = Len(s) + 1 /\ Len(s) \in Nat
      /\ \A i \in 1..Len(t) : t[i] = IF i <= Len(s) THEN s[i] ELSE e
  OBVIOUS
<1>2. \A i \in 1..Len(t) : (i \in 1..Len(s) /\ t[i] = s[i]) \/ (i = Len(t) /\ t[i] = e)
  BY <1>1
<1>3. /\ \A i \in 1..Len(s) : i \in 1..Len(t) /\ t[i] = s[i] /\ i < Len(t)
      /\ Len(t) \in 1..Len(t) /\ t[Len(t)] = e
  BY <1>1
<1>4. r \in Nat /\ m \in Nat /\ r <= m /\ m + 1 \in Nat /\ r <= m + 1 /\ r < m + 1 /\ m < m + 1
  BY DEF Carries
<1> HIDE DEF t
<1>5. ASSUME NEW i \in 1..Len(t), t[i].type = "text"
      PROVE  \E n \in Nat : t[i].chunk = <<k, n>> /\ r < n /\ n <= m + 1
  <2>1. CASE i \in 1..Len(s) /\ t[i] = s[i]
    <3>1. PICK n \in Nat : s[i].chunk = <<k, n>> /\ r < n /\ n <= m
      BY <1>5, <2>1 DEF Carries
    <3> QED  BY <1>4, <2>1, <3>1
  <2>2. CASE i = Len(t) /\ t[i] = e
    BY <1>4, <2>2
  <2> QED  BY <1>2, <2>1, <2>2
<1>6. ASSUME NEW i \in 1..Len(t), NEW j \in 1..Len(t), i < j, t[i].type = "text",
             t[j].type = "text"
      PROVE  t[i].chunk[2] < t[j].chunk[2]
  <2>1. i \in 1..Len(s) /\ t[i] = s[i]
    BY <1>1, <1>2, <1>6
  <2>2. CASE j \in 1..Len(s) /\ t[j] = s[j]
    BY <1>6, <2>1, <2>2 DEF Carries
  <2>3. CASE j = Len(t) /\ t[j] = e
    <3>1. PICK n \in Nat : s[i].chunk = <<k, n>> /\ n <= m
      BY <1>6, <2>1 DEF Carries
    <3> QED  BY <1>4, <2>1, <2>3, <3>1
  <2> QED  BY <1>2, <2>2, <2>3
<1>7. ASSUME NEW n \in Nat, r < n, n <= m + 1
      PROVE  \E i \in 1..Len(t) : t[i].type = "text" /\ t[i].chunk = <<k, n>>
  <2>1. CASE n <= m
    BY <1>3, <1>7, <2>1 DEF Carries
  <2>2. CASE n = m + 1
    BY <1>3, <2>2
  <2> QED  BY <1>4, <1>7, <2>1, <2>2
<1> QED  BY <1>4, <1>5, <1>6, <1>7 DEF Carries, t

\* When the end of the turn is first in line, there is nothing left to come.
LEMMA CarriesEnd ==
    ASSUME NEW s \in Seq(StreamEvents), s # <<>>, Ordered(s), Head(s).type = "ended",
           NEW k, NEW r, NEW m, Carries(s, k, r, m)
    PROVE  r = m
<1>1. Head(s) = s[1] /\ Len(s) \in Nat /\ Len(s) > 0 /\ 1 \in 1..Len(s)
  BY TailAt
<1>2. Len(s) = 2 /\ s[2].type = "idle"
  <2>1. s[1].type = "ended"
    BY <1>1
  <2>2. 1 = Len(s) - 1 /\ s[Len(s)].type = "idle"
    BY <1>1, <2>1 DEF Ordered
  <2>3. Len(s) = 2
    BY <1>1, <2>2
  <2> QED  BY <2>2, <2>3
<1>3. \A i \in 1..Len(s) : s[i].type # "text"
  BY <1>1, <1>2
<1>4. r \in Nat /\ m \in Nat /\ r <= m
  BY DEF Carries
<1>5. ~(r < m)
  <2>1. r < m => \E i \in 1..Len(s) : s[i].type = "text" /\ s[i].chunk = <<k, m>>
    BY <1>4 DEF Carries
  <2> QED  BY <1>3, <2>1
<1> QED  BY <1>4, <1>5

-----------------------------------------------------------------------------
\* What the bot has of the turn: the text of its narration, and that since.
Got(t) == t.lines \o t.parts

Spoken ==
    turn # None /\ Running =>
        /\ Carries(stream, Current, Len(Got(turn)), said[Current])
        /\ \A i \in 1..Len(Got(turn)) : Got(turn)[i] = <<Current, i>>

LEMMA GotTyped ==
    ASSUME NEW t \in Turns
    PROVE  /\ Got(t) \in Seq(Chunks) /\ Len(Got(t)) = Len(t.lines) + Len(t.parts)
           /\ Len(t.lines) \in Nat /\ Len(t.parts) \in Nat
           /\ \A i \in 1..Len(Got(t)) :
                 Got(t)[i] = IF i <= Len(t.lines) THEN t.lines[i] ELSE t.parts[i - Len(t.lines)]
<1> DEFINE l == t.lines
           p == t.parts
<1>1. l \in Seq(Chunks) /\ p \in Seq(Chunks)
  BY DEF Turns
<1>2. Got(t) = l \o p
  BY DEF Got
<1> HIDE DEF l, p
<1>3. /\ l \o p \in Seq(Chunks) /\ Len(l \o p) = Len(l) + Len(p)
      /\ Len(l) \in Nat /\ Len(p) \in Nat
      /\ \A i \in 1..Len(l) + Len(p) :
            (l \o p)[i] = IF i <= Len(l) THEN l[i] ELSE p[i - Len(l)]
  BY <1>1, ConcatAt
<1> QED  BY <1>2, <1>3 DEF l, p

LEMMA GotNothing == \A p : Len(Got(NewTurn(p))) = 0
BY DEF Got, NewTurn

\* A tool call makes narration of what there is.
LEMMA GotClosed ==
    ASSUME NEW t \in Turns
    PROVE  Got(CloseBlock(t)) = Got(t)
<1>1. /\ CloseBlock(t).parts = <<>> /\ CloseBlock(t).lines = t.lines \o t.parts
      /\ t.lines \in Seq(Chunks) /\ t.parts \in Seq(Chunks)
  BY CloseBlockTyped
<1>2. \A s \in Seq(Chunks) : s \o <<>> = s
  OBVIOUS
<1>3. t.lines \o t.parts \in Seq(Chunks)
  BY <1>1
<1> QED  BY <1>1, <1>2, <1>3 DEF Got

LEMMA SpokenSame ==
    ASSUME Spoken, UNCHANGED <<asked, said, stream, turn>>, turn # None /\ Running' => Running
    PROVE  Spoken'
BY DEF Spoken, Current

LEMMA SpokenBegin ==
    ASSUME TypeInv, Carried, Sent \/ Starting, turn # None, link = "up",
           BeginTurn(turn.of), UNCHANGED turn
    PROVE  Spoken'
<1>1. stream' = stream \o Started /\ Idles(stream) /\ stream \in Seq(StreamEvents)
  BY DEF BeginTurn, Tell, Sent, Starting, TypeInv, WireOK
<1>2. Started \in Seq(StreamEvents) /\ \A i \in 1..Len(Started) : Started[i].type # "text"
  BY EventTypes DEF Started, Event
<1>3. \A i \in 1..Len(stream) : stream[i].type # "text"
  BY <1>1 DEF Idles
<1>4. Carries(stream', Len(asked'), 0, 0)
  BY <1>1, <1>2, <1>3, CarriesNothing, CarriesMore
<1>5. Len(Got(turn)) = 0
  BY GotNothing DEF Sent, Starting
<1>6. said'[Len(asked')] = 0
  BY DEF BeginTurn, TypeInv, DaemonOK
<1> QED  BY <1>4, <1>5, <1>6 DEF Spoken, Current

LEMMA SpokenDaemon ==
    ASSUME TypeInv, Orderly, Spoken, DaemonStep \/ Evicted
    PROVE  Spoken'
<1> USE DEF TypeInv, DaemonOK, WireOK, daemon, memory, wire, Orderly
<1>0. turn' = turn
  BY DEF DaemonStep, Accept, Resumed, Prompted, Say, TurnEnds, Evicted
<1>1. CASE Accept
  <2>1. turn # None /\ Sent
    BY <1>1 DEF Accept, Carried, Free, Starting, Running
  <2>2. Head(frames) = turn.of /\ link = "up" /\ turn.of \in Prompts
    BY <1>1, <2>1 DEF Accept, Sent, Calm
  <2>3. CASE BeginTurn(turn.of)
    BY <1>0, <2>1, <2>2, <2>3, SpokenBegin
  <2>4. CASE prompt' = turn.of
    BY <2>2, <2>4, NoneIsNone DEF Spoken, Running
  <2> QED  BY <1>1, <2>1, <2>2, <2>3, <2>4 DEF Accept, Asked, Sent
<1>2. CASE Resumed
  <2>1. prompt' # None
    BY <1>2 DEF Resumed
  <2> QED  BY <2>1 DEF Spoken, Running
<1>3. CASE Prompted
  <2>1. turn # None /\ Starting /\ link = "up"
    BY <1>3 DEF Prompted, Carried, Free, Sent, Running, Calm
  <2> QED  BY <1>0, <1>3, <2>1, SpokenBegin DEF Prompted, Starting
<1>4. CASE Say
  <2>1. turn # None /\ Running /\ link = "up" /\ asked' = asked
    BY <1>4 DEF Say, Carried, Free, Sent, Starting, Running, Calm
  <2> DEFINE text == [type |-> "text", chunk |-> <<Current, said[Current] + 1>>]
  <2>2. Current \in DOMAIN said /\ Current \in Nat /\ said[Current] \in Nat
        /\ said'[Current] = said[Current] + 1
    BY <1>4 DEF Say, Current
  <2>3. PICK tail \in {<<>>} \cup (IF "tool" \in Ops THEN {<<Event("tool")>>} ELSE {}) :
           stream' = stream \o (<<text>> \o tail)
    <3>1. PICK tail \in {<<>>} \cup (IF "tool" \in Ops THEN {<<Event("tool")>>} ELSE {}) :
             Tell(<<[type |-> "text", chunk |-> <<Current, said'[Current]>>]>> \o tail)
      BY <1>4 DEF Say
    <3>2. Tell(<<text>> \o tail)
      BY <2>2, <3>1
    <3> QED  BY <2>1, <3>2 DEF Tell
  <2>4. text \in StreamEvents /\ text.type = "text"
    <3>1. <<Current, said[Current] + 1>> \in Chunks
      BY <2>2 DEF Chunks
    <3> QED  BY <3>1 DEF StreamEvents
  <2>5. tail \in Seq(StreamEvents) /\ \A i \in 1..Len(tail) : tail[i].type # "text"
    <3>1. tail = <<>> \/ tail = <<Event("tool")>>
      BY <2>3
    <3>2. CASE tail = <<>>
      <4>1. <<>> \in Seq(StreamEvents) /\ Len(<<>>) = 0
        OBVIOUS
      <4> QED  BY <3>2, <4>1
    <3>3. CASE tail = <<Event("tool")>>
      <4>1. Len(tail) = 1 /\ tail[1] = Event("tool")
        BY <3>3
      <4>2. Event("tool").type = "tool" /\ \A i \in 1..Len(tail) : i = 1
        BY <4>1 DEF Event
      <4> QED  BY <3>3, <4>1, <4>2, EventTypes
    <3> QED  BY <3>1, <3>2, <3>3
  <2> DEFINE r == Len(Got(turn))
  <2>6. Carries(stream, Current, r, said[Current])
    BY <2>1 DEF Spoken
  <2>7. text.chunk = <<Current, said[Current] + 1>>
    OBVIOUS
  <2> HIDE DEF text, r
  <2>8. Carries(stream \o <<text>>, Current, r, said[Current] + 1)
    BY <2>4, <2>6, <2>7, CarriesSay
  <2>9. Carries((stream \o <<text>>) \o tail, Current, r, said[Current] + 1)
    <3>1. stream \o <<text>> \in Seq(StreamEvents)
      BY <2>4
    <3> QED  BY <2>5, <2>8, <3>1, CarriesMore
  <2>10. stream' = (stream \o <<text>>) \o tail
    <3>1. <<text>> \in Seq(StreamEvents)
      BY <2>4
    <3>2. \A s, a, b \in Seq(StreamEvents) : (s \o a) \o b = s \o (a \o b)
      BY Joined
    <3>3. stream \in Seq(StreamEvents)
      OBVIOUS
    <3> QED  BY <2>3, <2>5, <3>1, <3>2, <3>3
  <2>11. Current' = Current
    BY <2>1 DEF Current
  <2>12. \A i \in 1..r : Got(turn)[i] = <<Current, i>>
    BY <2>1 DEF Spoken, r
  <2> QED  BY <1>0, <2>2, <2>9, <2>10, <2>11, <2>12 DEF Spoken, r
<1>5. CASE TurnEnds
  <2>1. turn # None /\ Running /\ link = "up" /\ asked' = asked /\ said' = said
    BY <1>5 DEF TurnEnds, Carried, Free, Sent, Starting, Running, Calm
  <2>2. stream' = stream \o Ended(Current)
    BY <1>5, <2>1 DEF TurnEnds, Tell
  <2>3. Ended(Current) \in Seq(StreamEvents) /\ \A i \in 1..Len(Ended(Current)) :
           Ended(Current)[i].type # "text"
    BY EventTypes DEF Ended, Event
  <2>4. Carries(stream', Current, Len(Got(turn)), said[Current])
    BY <2>1, <2>2, <2>3, CarriesMore DEF Spoken
  <2> QED  BY <1>0, <2>1, <2>4 DEF Spoken, Current
<1>6. CASE Evicted
  <2>1. UNCHANGED <<asked, said, stream, turn, frames, prompt>> /\ state = "idle"
        /\ state' = "stored"
    BY <1>6 DEF Evicted
  <2>2. Running' => Running
    BY <2>1 DEF Running, Current
  <2> QED  BY <2>1, <2>2, SpokenSame
<1> QED  BY <1>1, <1>2, <1>3, <1>4, <1>5, <1>6 DEF DaemonStep

\* An event that is not text, and that leaves what the bot has.
LEMMA SpokenTail ==
    ASSUME TypeInv, Carried, Spoken, NEW type, Receives(type), type \notin {"text", "ended"},
           UNCHANGED <<state, prompt, asked, said, frames>>,
           turn' # None => turn # None /\ turn'.of = turn.of /\ Got(turn') = Got(turn)
    PROVE  Spoken'
<1> SUFFICES ASSUME turn' # None, Running' PROVE Spoken'
  BY DEF Spoken
<1>1. stream \in Seq(StreamEvents) /\ stream # <<>> /\ stream' = Tail(stream)
      /\ Head(stream).type \notin {"text", "ended"} /\ Ordered(stream)
  BY HeadTyped DEF TypeInv, WireOK, Carried
<1>2. HasEnd(stream') <=> HasEnd(stream)
  BY <1>1, OrderedTail
<1>3. Running
  BY <1>2 DEF Running, Current
<1>4. Carries(stream', Current, Len(Got(turn)), said[Current])
  BY <1>1, <1>3, CarriesTail DEF Spoken
<1> QED  BY <1>3, <1>4 DEF Spoken, Current

LEMMA SpokenText ==
    ASSUME TypeInv, Orderly, Spoken, TextReceived
    PROVE  Spoken'
<1> SUFFICES ASSUME turn' # None PROVE Spoken'
  BY DEF Spoken
<1> USE DEF TypeInv, BotOK, WireOK, Orderly
<1>1. turn # None /\ turn \in Turns
      /\ turn' = [turn EXCEPT !.parts = Append(@, Head(stream).chunk)]
      /\ UNCHANGED <<state, prompt, asked, said, frames>>
  BY DEF TextReceived, daemon
<1>2. stream # <<>> /\ Head(stream) \in StreamEvents /\ Head(stream).type = "text"
      /\ stream' = Tail(stream)
  BY HeadTyped DEF TextReceived
<1>3. Head(stream).chunk \in Chunks /\ turn.parts \in Seq(Chunks) /\ turn.lines \in Seq(Chunks)
  BY <1>1, <1>2 DEF StreamEvents, Turns
<1>4. /\ turn'.parts = Append(turn.parts, Head(stream).chunk)
      /\ turn'.lines = turn.lines /\ turn'.of = turn.of /\ turn'.adopted = turn.adopted
  BY <1>1 DEF Turns
<1>5. ~Idles(stream)
  <2>1. stream[1] = Head(stream) /\ 1 \in 1..Len(stream)
    BY <1>2
  <2> QED  BY <1>2, <2>1 DEF Idles
<1>6. Running
  BY <1>1, <1>5 DEF Carried, Sent, Starting
<1> DEFINE r == Len(Got(turn))
<1>7. /\ Carries(stream, Current, r, said[Current])
      /\ \A i \in 1..r : Got(turn)[i] = <<Current, i>>
  BY <1>1, <1>6 DEF Spoken
<1> HIDE DEF r
<1>8. Head(stream).chunk = <<Current, r + 1>> /\ Carries(stream', Current, r + 1, said[Current])
  BY <1>2, <1>7, CarriesTail
<1>9. Got(turn') = Append(Got(turn), Head(stream).chunk)
  <2>1. \A s, u \in Seq(Chunks), e \in Chunks : s \o Append(u, e) = Append(s \o u, e)
    OBVIOUS
  <2> QED  BY <1>3, <1>4, <2>1 DEF Got
<1>10. Got(turn) \in Seq(Chunks)
  BY <1>1, GotTyped
<1>11. Len(Got(turn')) = r + 1 /\ \A i \in 1..r + 1 :
          Got(turn')[i] = IF i <= r THEN Got(turn)[i] ELSE Head(stream).chunk
  BY <1>3, <1>9, <1>10 DEF r
<1>12. r \in Nat
  BY <1>10 DEF r
<1>13. \A i \in 1..r + 1 : Got(turn')[i] = <<Current, i>>
  <2> SUFFICES ASSUME NEW i \in 1..r + 1 PROVE Got(turn')[i] = <<Current, i>>
    OBVIOUS
  <2>1. i \in 1..r \/ (i = r + 1 /\ ~(i <= r))
    BY <1>12
  <2> QED  BY <1>7, <1>8, <1>11, <2>1
<1>14. Current' = Current /\ said' = said
  BY <1>1 DEF Current
<1> QED  BY <1>8, <1>11, <1>13, <1>14 DEF Spoken

LEMMA SpokenEvent ==
    ASSUME TypeInv, Orderly, Spoken,
           TextReceived \/ ToolCalled \/ TurnStarted \/ Working \/ TurnEnded \/ Idle
    PROVE  Spoken'
<1> USE DEF daemon, memory, Orderly
<1>0. turn # None => turn \in Turns
  BY DEF TypeInv, BotOK
<1>1. CASE TextReceived
  BY <1>1, SpokenText
<1>2. CASE ToolCalled
  <2>1. turn' # None => turn # None /\ turn'.of = turn.of /\ Got(turn') = Got(turn)
    <3>1. CASE turn = None \/ turn.parts = <<>>
      BY <1>2, <3>1 DEF ToolCalled
    <3>2. CASE turn # None /\ turn.parts # <<>>
      <4>1. turn \in Turns /\ turn' = CloseBlock(turn)
        BY <1>0, <1>2, <3>2 DEF ToolCalled
      <4>2. turn'.of = turn.of
        BY <4>1, CloseBlockTyped
      <4> QED  BY <3>2, <4>1, <4>2, GotClosed
    <3> QED  BY <3>1, <3>2
  <2> QED  BY <1>2, <2>1, SpokenTail DEF ToolCalled
<1>3. CASE TurnStarted
  <2>1. turn' = turn
    BY <1>3 DEF TurnStarted
  <2> QED  BY <1>3, <2>1, SpokenTail DEF TurnStarted
<1>4. CASE Working
  <2>1. turn' # None => /\ turn # None /\ turn'.of = turn.of
                        /\ turn'.lines = turn.lines /\ turn'.parts = turn.parts
    BY <1>0, <1>4 DEF Working, Turns
  <2> QED  BY <1>4, <2>1, SpokenTail DEF Working, Got
<1>5. CASE TurnEnded \/ Idle
  <2>1. CASE turn' = None
    BY <2>1 DEF Spoken
  <2>2. CASE turn' # None
    <3>1. turn' = turn /\ Idle /\ UNCHANGED <<state, prompt, asked, said, frames>>
      BY <1>5, <2>2 DEF TurnEnded, Idle, Finish, TakeTurn
    <3> QED  BY <3>1, SpokenTail DEF Idle
  <2> QED  BY <2>1, <2>2
<1> QED  BY <1>1, <1>2, <1>3, <1>4, <1>5

\* The steps that leave the daemon and its events alone: the turn of the bot is
\* the same, or it has been sent and is not running.
LEMMA SpokenQuiet ==
    ASSUME TypeInv, Orderly, Spoken, UNCHANGED <<state, prompt, asked, said, stream>>,
           \/ UNCHANGED <<turn, frames>>
           \/ link = "up" /\ \E q : \E p \in Prompts : Forward(p, q)
    PROVE  Spoken'
<1>1. CASE UNCHANGED <<turn, frames>>
  BY <1>1, SpokenSame DEF Running, Current
<1>2. CASE link = "up" /\ \E q : \E p \in Prompts : Forward(p, q)
  <2>1. PICK q : \E p \in Prompts : Forward(p, q)
    BY <1>2
  <2>2. CASE turn # None
    BY <2>1, <2>2, SpokenSame DEF Forward, Running, Current
  <2>3. CASE turn = None
    <3>1. frames' # <<>>
      BY <1>2, <2>1, <2>3 DEF Forward, TypeInv, WireOK
    <3> QED  BY <3>1 DEF Spoken, Running
  <2> QED  BY <2>2, <2>3
<1> QED  BY <1>1, <1>2

LEMMA SpokenKept ==
    ASSUME Faults \subseteq {"refuse"}, TypeInv, Orderly, Spoken, [Next]_vars
    PROVE  Spoken'
<1>1. CASE DaemonStep \/ Evicted
  BY <1>1, SpokenDaemon
<1>2. CASE TextReceived \/ ToolCalled \/ TurnStarted \/ Working \/ TurnEnded \/ Idle
  BY <1>2, SpokenEvent
<1>3. CASE \/ Connect \/ NothingToSettle \/ Close \/ Progress \/ OthersPersist
           \/ Poll \/ Fetch \/ Show \/ Stop \/ Unqueue \/ FullStop
           \/ Reply \/ NoReply \/ Report \/ Update \/ UNCHANGED vars
  BY <1>3, QuietSteps, SpokenQuiet
<1> QED  BY <1>1, <1>2, <1>3, NeverTaken DEF Next, ConnectionStep, PollStep, Orderly

-----------------------------------------------------------------------------
(***************************************************************************)
(* What is in the chat: text of the turns that the bot has closed, each    *)
(* piece once.                                                             *)
(***************************************************************************)
Closed == IF turn # None /\ frames = <<>> /\ prompt = None THEN Current - 1 ELSE Current

Leaves == at \in {"closing", "replying"}

Delivered ==
    /\ \A i \in 1..Len(posted) :
          posted[i][1] <= Closed /\ (Leaves => posted[i][1] < Closed)
    /\ PostedOnce
    /\ Leaves =>
          /\ Closed \in 1..Len(asked) /\ asked[Closed] = leaving.turn.of
          /\ ~leaving.turn.adopted
          /\ Len(Got(leaving.turn)) = said[Closed]
          /\ \A i \in 1..Len(Got(leaving.turn)) : Got(leaving.turn)[i] = <<Closed, i>>

\* The last turn that is closed is the daemon's last, or the one before.
LEMMA ClosedIs ==
    ASSUME TypeInv, Orderly
    PROVE  /\ Closed \in 0..Len(asked)
           /\ turn = None => Closed = Len(asked)
           /\ turn # None /\ ~Running => Closed = Len(asked)
           /\ turn # None /\ Running => Closed = Len(asked) - 1 /\ Len(asked) > 0
<1> USE DEF TypeInv, DaemonOK, WireOK, Orderly
<1>1. Len(asked) \in Nat /\ (Running => Len(asked) > 0)
  BY DEF Running
<1>2. CASE turn = None
  BY <1>1, <1>2 DEF Closed, Current
<1>3. CASE turn # None /\ Running
  BY <1>1, <1>3 DEF Closed, Current, Running
<1>4. CASE turn # None /\ ~Running
  <2>1. Sent \/ Starting
    BY <1>4 DEF Carried
  <2>2. turn \in Turns
    BY <1>4 DEF BotOK
  <2>3. frames # <<>> \/ prompt # None
    <3>1. turn.of \in Prompts
      BY <2>2 DEF Turns
    <3>2. Sent => frames # <<>>
      BY DEF Sent
    <3>3. Starting => prompt # None
      BY <3>1, NoneIsNone DEF Starting
    <3> QED  BY <2>1, <3>2, <3>3
  <2> QED  BY <1>1, <1>4, <2>3 DEF Closed, Current
<1> QED  BY <1>2, <1>3, <1>4

\* Of the turns that are closed nothing changes, and a turn is closed by TurnEnded.
LEMMA ClosedKept ==
    ASSUME Faults \subseteq {"refuse"}, TypeInv, Orderly, [Next]_vars,
           turn # None => turn' # None
    PROVE  /\ Closed' = Closed
           /\ \A k \in 1..Closed :
                 k \in 1..Len(asked') /\ asked'[k] = asked[k] /\ said'[k] = said[k]
<1> USE DEF TypeInv, DaemonOK, WireOK, Orderly, daemon, wire, memory
<1> DEFINE Same == \A k \in 1..Closed :
                      k \in 1..Len(asked') /\ asked'[k] = asked[k] /\ said'[k] = said[k]
<1>0. /\ Closed \in 0..Len(asked) /\ Len(asked) \in Nat
      /\ turn = None => Closed = Len(asked)
      /\ turn # None /\ ~Running => Closed = Len(asked)
      /\ turn # None /\ Running => Closed = Len(asked) - 1 /\ Len(asked) > 0
  BY ClosedIs
<1>1. ASSUME UNCHANGED <<asked, said, frames, prompt>>, turn' = None <=> turn = None
      PROVE  Closed' = Closed /\ Same
  BY <1>0, <1>1 DEF Closed, Current
<1>2. CASE DaemonStep \/ Evicted
  <2>0. turn' = turn
    BY <1>2 DEF DaemonStep, Accept, Resumed, Prompted, Say, TurnEnds, Evicted
  <2>1. CASE Resumed \/ TurnEnds \/ Evicted
    BY <1>1, <2>0, <2>1 DEF Resumed, TurnEnds, Evicted
  <2>2. CASE Say
    <3>1. turn # None /\ Running
      BY <2>2 DEF Say, Carried, Free, Sent, Starting
    <3>2. Closed' = Closed
      BY <2>0, <2>2 DEF Say, Closed, Current
    <3>3. \A k \in 1..Closed : k # Len(asked) /\ k \in 1..Len(asked) /\ k \in DOMAIN said
      BY <1>0, <3>1
    <3>4. Same
      BY <2>2, <3>3 DEF Say, Current
    <3> QED  BY <3>2, <3>4
  <2>3. ASSUME turn # None, BeginTurn(turn.of), frames' = <<>>, Closed = Len(asked)
        PROVE  Closed' = Closed /\ Same
    <3>1. asked' = Append(asked, turn.of) /\ said' = Append(said, 0) /\ prompt' = None
      BY <2>3 DEF BeginTurn
    <3>2. Closed' = Len(asked') - 1
      BY <2>0, <2>3, <3>1 DEF Closed, Current
    <3>3. Len(asked') = Len(asked) + 1 /\ Len(said) = Len(asked)
          /\ \A k \in 1..Len(asked) : asked'[k] = asked[k] /\ said'[k] = said[k]
      BY <3>1
    <3> QED  BY <1>0, <2>3, <3>2, <3>3
  <2>4. CASE Accept
    <3>1. turn # None /\ Sent /\ Head(frames) = turn.of /\ frames' = <<>> /\ ~Running
      <4>1. frames # <<>> /\ frames' = Tail(frames)
        BY <2>4 DEF Accept
      <4>2. turn # None /\ Sent /\ ~Running
        BY <4>1 DEF Carried, Free, Starting, Running
      <4>3. frames = <<turn.of>>
        BY <4>2 DEF Sent
      <4> QED  BY <4>1, <4>2, <4>3
    <3>2. CASE BeginTurn(turn.of)
      BY <1>0, <2>3, <3>1, <3>2
    <3>3. CASE prompt' = turn.of /\ UNCHANGED <<asked, said>>
      <4>1. prompt' # None
        BY <3>1, <3>3, NoneIsNone DEF BotOK, Turns
      <4>2. Closed' = Len(asked)
        BY <3>3, <4>1 DEF Closed, Current
      <4> QED  BY <1>0, <3>1, <3>3, <4>2
    <3> QED  BY <2>4, <3>1, <3>2, <3>3 DEF Accept, Asked, Sent
  <2>5. CASE Prompted
    <3>1. turn # None /\ Starting /\ frames' = <<>> /\ BeginTurn(turn.of)
      BY <2>5 DEF Prompted, Carried, Free, Sent, Starting, Running
    <3>2. ~Running
      BY <2>5 DEF Prompted, Running
    <3> QED  BY <1>0, <2>3, <3>1, <3>2
  <2> QED  BY <1>2, <2>1, <2>2, <2>4, <2>5 DEF DaemonStep
<1>3. CASE TextReceived \/ ToolCalled \/ TurnStarted \/ Working \/ TurnEnded \/ Idle
  <2>1. turn = None => turn' = None
    BY <1>3, EventTurn DEF TurnEnded, Idle, Finish
  <2>2. UNCHANGED <<asked, said, frames, prompt>>
    BY <1>3 DEF TextReceived, ToolCalled, TurnStarted, Working, TurnEnded, Idle, Finish
  <2> QED  BY <1>1, <2>1, <2>2
<1>4. CASE \/ Connect \/ NothingToSettle \/ Close \/ Progress \/ OthersPersist
           \/ Poll \/ Fetch \/ Show \/ Stop \/ Unqueue \/ FullStop
           \/ Reply \/ NoReply \/ Report \/ Update \/ UNCHANGED vars
  <2>1. UNCHANGED <<asked, said, prompt>>
    BY <1>4, QuietSteps
  <2>2. CASE UNCHANGED <<turn, frames>>
    BY <1>1, <2>1, <2>2
  <2>3. ASSUME link = "up", NEW p \in Prompts, NEW q, Forward(p, q)
        PROVE  Closed' = Closed /\ Same
    <3>1. CASE turn # None
      BY <1>1, <2>1, <2>3, <3>1 DEF Forward
    <3>2. CASE turn = None
      <4>1. frames' # <<>>
        BY <2>3, <3>2 DEF Forward
      <4>2. Closed' = Len(asked)
        BY <2>1, <4>1 DEF Closed, Current
      <4> QED  BY <1>0, <2>1, <3>2, <4>2
    <3> QED  BY <3>1, <3>2
  <2> QED  BY <1>4, <2>2, <2>3, QuietSteps
<1> QED  BY <1>2, <1>3, <1>4, NeverTaken DEF Next, ConnectionStep, PollStep

\* A step that delivers nothing and closes no turn.
LEMMA DeliveredSame ==
    ASSUME TypeInv, Orderly, Delivered, Closed' = Closed,
           \A k \in 1..Closed : k \in 1..Len(asked') /\ asked'[k] = asked[k] /\ said'[k] = said[k],
           posted' = posted, Leaves' => Leaves /\ leaving' = leaving
    PROVE  Delivered'
<1>1. Closed \in 0..Len(asked)
  BY ClosedIs
<1>2. \A i \in 1..Len(posted') :
         posted'[i][1] <= Closed' /\ (Leaves' => posted'[i][1] < Closed')
  BY DEF Delivered
<1>3. PostedOnce'
  BY DEF Delivered, PostedOnce
<1>4. ASSUME Leaves'
      PROVE  /\ Closed' \in 1..Len(asked') /\ asked'[Closed'] = leaving'.turn.of
             /\ ~leaving'.turn.adopted
             /\ Len(Got(leaving'.turn)) = said'[Closed']
             /\ \A i \in 1..Len(Got(leaving'.turn)) : Got(leaving'.turn)[i] = <<Closed', i>>
  <2>1. Leaves /\ leaving' = leaving
    BY <1>4
  <2>2. Closed \in 1..Closed
    BY <1>1, <2>1 DEF Delivered
  <2> QED  BY <2>1, <2>2 DEF Delivered
<1> QED  BY <1>2, <1>3, <1>4 DEF Delivered

\* What is posted for a turn is text of that turn, and no piece comes twice.
LEMMA AnswerOf ==
    ASSUME NEW t \in Turns, NEW k \in Nat,
           \A i \in 1..Len(Got(t)) : Got(t)[i] = <<k, i>>
    PROVE  /\ Answer(t) \in Seq(Chunks)
           /\ \A j \in 1..Len(Answer(t)) : Answer(t)[j][1] = k
           /\ \A i, j \in 1..Len(Answer(t)) : Answer(t)[i] = Answer(t)[j] => i = j
<1>1. /\ Got(t) \in Seq(Chunks) /\ Len(Got(t)) = Len(t.lines) + Len(t.parts)
      /\ Len(t.lines) \in Nat /\ Len(t.parts) \in Nat
      /\ \A i \in 1..Len(Got(t)) :
            Got(t)[i] = IF i <= Len(t.lines) THEN t.lines[i] ELSE t.parts[i - Len(t.lines)]
  BY GotTyped
<1>2. Answer(t) \in Seq(Chunks)
  BY AnswerTyped
<1>3. CASE t.parts # <<>> \/ t.lines = <<>>
  <2>1. Answer(t) = t.parts
    BY <1>3 DEF Answer
  <2>2. \A j \in 1..Len(t.parts) : t.parts[j] = <<k, Len(t.lines) + j>>
    <3> SUFFICES ASSUME NEW j \in 1..Len(t.parts) PROVE t.parts[j] = <<k, Len(t.lines) + j>>
      OBVIOUS
    <3> DEFINE a == Len(t.lines)
               b == Len(t.parts)
               n == Len(Got(t))
    <3>1. a \in Nat /\ b \in Nat /\ n = a + b /\ j \in 1..b
      BY <1>1
    <3>2. \A i \in 1..n : Got(t)[i] = IF i <= a THEN t.lines[i] ELSE t.parts[i - a]
      BY <1>1
    <3>3. \A i \in 1..n : Got(t)[i] = <<k, i>>
      OBVIOUS
    <3> HIDE DEF a, b, n
    <3>4. a + j \in 1..n /\ ~(a + j <= a) /\ (a + j) - a = j
      BY <3>1
    <3>5. t.parts[j] = <<k, a + j>>
      BY <3>2, <3>3, <3>4
    <3> QED  BY <3>5 DEF a
  <2>3. \A i, j \in 1..Len(t.parts) : t.parts[i] = t.parts[j] => i = j
    <3> SUFFICES ASSUME NEW i \in 1..Len(t.parts), NEW j \in 1..Len(t.parts),
                        t.parts[i] = t.parts[j]
                 PROVE  i = j
      OBVIOUS
    <3>1. <<k, Len(t.lines) + i>>[2] = <<k, Len(t.lines) + j>>[2]
      BY <2>2
    <3> QED  BY <1>1, <3>1
  <2> QED  BY <1>2, <2>1, <2>2, <2>3
<1>4. CASE t.parts = <<>> /\ t.lines # <<>>
  <2>1. Answer(t) = <<t.lines[Len(t.lines)]>>
    BY <1>4 DEF Answer, Last
  <2>2. Len(t.lines) \in 1..Len(Got(t)) /\ Len(t.lines) <= Len(t.lines)
    BY <1>1, <1>4 DEF Turns
  <2>3. t.lines[Len(t.lines)] = <<k, Len(t.lines)>>
    BY <1>1, <2>2
  <2>4. Len(Answer(t)) = 1 /\ Answer(t)[1] = <<k, Len(t.lines)>>
    BY <2>1, <2>3
  <2>5. \A j \in 1..Len(Answer(t)) : j = 1
    BY <2>4
  <2> QED  BY <1>2, <2>4, <2>5
<1> QED  BY <1>3, <1>4

\* The bot has done with a turn only when it is told of its end.
LEMMA TurnKept ==
    ASSUME Faults \subseteq {"refuse"}, TypeInv, Orderly, [Next]_vars, turn # None, turn' = None
    PROVE  TurnEnded
<1> USE DEF daemon, wire, memory, Orderly
<1>1. ~(DaemonStep \/ Evicted)
  BY DEF DaemonStep, Accept, Resumed, Prompted, Say, TurnEnds, Evicted
<1>2. ~(TextReceived \/ ToolCalled \/ TurnStarted \/ Working)
  BY EventTurn
<1>3. Idle => TurnEnded
  BY CarriedEnd
<1>4. ~(\/ Connect \/ NothingToSettle \/ Close \/ Progress \/ OthersPersist
        \/ Poll \/ Fetch \/ Show \/ Stop \/ Unqueue \/ FullStop
        \/ Reply \/ NoReply \/ Report \/ Update \/ UNCHANGED vars)
  BY QuietSteps DEF Forward
<1> QED  BY <1>1, <1>2, <1>3, <1>4, NeverTaken DEF Next, ConnectionStep, PollStep

LEMMA PostedTyped ==
    ASSUME TypeInv
    PROVE  \A i \in 1..Len(posted) : posted[i][1] \in Nat
<1>1. posted \in Seq(Chunks)
  BY DEF TypeInv, ChatOK
<1>2. \A i \in 1..Len(posted) : posted[i] \in Chunks
  BY <1>1
<1> QED  BY <1>2 DEF Chunks

LEMMA DeliveredEnd ==
    ASSUME TypeInv, Orderly, Spoken, Delivered, turn # None, turn' = None, TurnEnded
    PROVE  Delivered' /\ Closed' = Closed + 1 /\ Closed' = Len(asked) /\ Leaves' /\ ~Leaves
           /\ leaving'.turn = turn /\ UNCHANGED <<asked, said, posted, noted>>
<1> USE DEF TypeInv, DaemonOK, WireOK, Orderly
<1>1. /\ Running /\ at = "handling" /\ at' = "closing" /\ leaving'.turn = turn
      /\ Head(stream).type = "ended" /\ UNCHANGED <<asked, said>>
  BY CarriedEnd
<1>2. posted' = posted /\ noted' = noted
  BY DEF TurnEnded, Finish, chat, ghosts
<1>3. Closed = Len(asked) - 1 /\ Len(asked) > 0 /\ Len(asked) \in Nat
  BY <1>1, ClosedIs
<1>4. Closed' = Len(asked)
  BY <1>1 DEF Closed, Current
<1>5. ~Leaves /\ Leaves'
  BY <1>1 DEF Leaves
<1>6. turn \in Turns /\ ~turn.adopted /\ asked[Len(asked)] = turn.of
  BY <1>1 DEF BotOK, Carried, Running, Current
<1>7. /\ Carries(stream, Len(asked), Len(Got(turn)), said[Len(asked)])
      /\ \A i \in 1..Len(Got(turn)) : Got(turn)[i] = <<Len(asked), i>>
  BY <1>1 DEF Spoken, Current
<1>8. Len(Got(turn)) = said[Len(asked)]
  <2>1. stream # <<>> /\ stream \in Seq(StreamEvents) /\ Ordered(stream)
    BY HeadTyped DEF TurnEnded, Carried
  <2> QED  BY <1>1, <1>7, <2>1, CarriesEnd
<1>9. ASSUME NEW i \in 1..Len(posted)
      PROVE  posted[i][1] < Len(asked)
  <2>1. posted[i][1] <= Closed
    BY DEF Delivered
  <2>2. posted[i][1] \in Nat
    BY PostedTyped
  <2> QED  BY <1>3, <2>1, <2>2
<1>10. \A i \in 1..Len(posted) : posted[i][1] <= Len(asked)
  <2>1. \A i \in 1..Len(posted) : posted[i][1] \in Nat
    BY PostedTyped
  <2> QED  BY <1>3, <1>9, <2>1
<1>11. PostedOnce'
  BY <1>2 DEF Delivered, PostedOnce
<1>12. Delivered'
  BY <1>1, <1>2, <1>3, <1>4, <1>6, <1>7, <1>8, <1>9, <1>10, <1>11 DEF Delivered
<1> QED  BY <1>1, <1>2, <1>3, <1>4, <1>5, <1>12

\* A reply.
LEMMA DeliveredReply ==
    ASSUME TypeInv, Orderly, Delivered, Reply, Closed' = Closed
    PROVE  /\ Delivered' /\ ~Leaves'
           /\ posted' = posted \o Answer(leaving.turn) /\ Len(posted) \in Nat
           /\ \A n \in Len(posted) + 1..Len(posted') : posted'[n][1] = Closed
<1> USE DEF TypeInv
<1> DEFINE t == leaving.turn
           a == Answer(t)
<1>1. /\ at = "replying" /\ posted' = posted \o a /\ t \in Turns
      /\ posted \in Seq(Chunks) /\ Closed \in Nat
  BY ClosedIs DEF Reply, BotOK, Leavings, ChatOK, DaemonOK
<1>2. \A i \in 1..Len(Got(t)) : Got(t)[i] = <<Closed, i>>
  BY <1>1 DEF Delivered, Leaves
<1> HIDE DEF t
<1>3. /\ a \in Seq(Chunks)
      /\ \A j \in 1..Len(a) : a[j][1] = Closed
      /\ \A i, j \in 1..Len(a) : a[i] = a[j] => i = j
  BY <1>1, <1>2, AnswerOf
<1>4. \A i \in 1..Len(posted) : posted[i][1] < Closed
  BY <1>1 DEF Delivered, Leaves
<1> HIDE DEF a
<1>5. /\ Len(posted') = Len(posted) + Len(a) /\ Len(posted) \in Nat /\ Len(a) \in Nat
      /\ \A i \in 1..Len(posted) + Len(a) :
            posted'[i] = IF i <= Len(posted) THEN posted[i] ELSE a[i - Len(posted)]
      /\ posted' \in Seq(Chunks)
  BY <1>1, <1>3, ConcatAt
<1>6. ASSUME NEW i \in 1..Len(posted')
      PROVE  \/ i \in 1..Len(posted) /\ posted'[i] = posted[i] /\ posted'[i][1] < Closed
             \/ /\ i - Len(posted) \in 1..Len(a) /\ posted'[i] = a[i - Len(posted)]
                /\ posted'[i][1] = Closed /\ i > Len(posted)
  <2>1. CASE i <= Len(posted)
    BY <1>4, <1>5, <2>1
  <2>2. CASE ~(i <= Len(posted))
    <3>1. i - Len(posted) \in 1..Len(a)
      BY <1>5, <2>2
    <3> QED  BY <1>3, <1>5, <2>2, <3>1
  <2> QED  BY <2>1, <2>2
<1>7. PostedOnce'
  <2> SUFFICES ASSUME NEW i \in 1..Len(posted'), NEW j \in 1..Len(posted'),
                      posted'[i] = posted'[j]
               PROVE  i = j
    BY <1>5 DEF PostedOnce, IsInjective
  <2>1. CASE i \in 1..Len(posted) /\ posted'[i] = posted[i] /\ posted'[i][1] < Closed
    <3>1. j \in 1..Len(posted) /\ posted'[j] = posted[j]
      BY <1>1, <1>6, <2>1
    <3>2. \A b, c \in 1..Len(posted) : posted[b] = posted[c] => b = c
      BY <1>1 DEF Delivered, PostedOnce, IsInjective
    <3> QED  BY <2>1, <3>1, <3>2
  <2>2. CASE i - Len(posted) \in 1..Len(a) /\ posted'[i] = a[i - Len(posted)]
             /\ posted'[i][1] = Closed
    <3>1. j - Len(posted) \in 1..Len(a) /\ posted'[j] = a[j - Len(posted)]
      BY <1>1, <1>6, <2>2
    <3>2. i - Len(posted) = j - Len(posted)
      BY <1>3, <2>2, <3>1
    <3> QED  BY <1>5, <3>2
  <2> QED  BY <1>6, <2>1, <2>2
<1>8. ~Leaves'
  <2>1. at' \in {"handling", "progress"}
    BY DEF Reply, Flush
  <2> QED  BY <2>1 DEF Leaves
<1>9. \A i \in 1..Len(posted') : posted'[i][1] <= Closed'
  <2>1. \A i \in 1..Len(posted') : posted'[i][1] \in Nat
    BY <1>5 DEF Chunks
  <2> QED  BY <1>1, <1>6, <2>1
<1>10. Delivered'
  BY <1>7, <1>8, <1>9 DEF Delivered
<1>11. ASSUME NEW n \in Len(posted) + 1..Len(posted')
       PROVE  posted'[n][1] = Closed
  <2>1. n \in 1..Len(posted') /\ n \notin 1..Len(posted)
    BY <1>5
  <2> QED  BY <1>6, <2>1
<1> QED  BY <1>1, <1>5, <1>8, <1>10, <1>11 DEF t, a

\* The other steps deliver nothing, and do not touch the turn that is being finished.
LEMMA LeavingKept ==
    ASSUME Faults \subseteq {"refuse"}, TypeInv, Orderly, Delivered, [Next]_vars, ~Reply,
           turn # None => turn' # None
    PROVE  posted' = posted /\ (Leaves' => Leaves /\ leaving' = leaving)
<1> USE DEF daemon, wire, memory, chat, ghosts
<1>1. CASE DaemonStep \/ Evicted
  BY <1>1 DEF DaemonStep, Accept, Resumed, Prompted, Say, TurnEnds, Evicted, Leaves
<1>2. CASE TextReceived \/ ToolCalled \/ TurnStarted \/ Working
  BY <1>2 DEF TextReceived, ToolCalled, TurnStarted, Working, Leaves
<1>3. CASE TurnEnded \/ Idle
  <2>1. UNCHANGED <<at, leaving, posted>>
    BY <1>3 DEF TurnEnded, Idle, Finish, TakeTurn
  <2> QED  BY <2>1 DEF Leaves
<1>4. CASE Close
  <2>1. ~leaving.turn.adopted
    BY <1>4 DEF Close, Delivered, Leaves
  <2>2. leaving' = leaving /\ Leaves /\ posted' = posted
    BY <1>4, <2>1 DEF Close, Leaves
  <2> QED  BY <2>2
<1>5. CASE NoReply \/ Report
  <2>1. \A q : Flush(q) => at' \in {"handling", "progress"}
    BY DEF Flush
  <2>2. ~Leaves' /\ posted' = posted
    BY <1>5, <2>1 DEF NoReply, Reported, Report, Leaves
  <2> QED  BY <2>2
<1>6. CASE \/ Connect \/ NothingToSettle \/ Progress \/ OthersPersist
           \/ Poll \/ Fetch \/ Show \/ Update \/ Stop \/ Unqueue \/ FullStop
  BY <1>6 DEF Connect, NothingToSettle, Progress, OthersPersist, Poll, Fetch, Show, Update,
              Stop, Unqueue, FullStop, Command, Leaves
<1>7. CASE UNCHANGED vars
  BY <1>7 DEF vars, Leaves
<1> QED  BY <1>1, <1>2, <1>3, <1>4, <1>5, <1>6, <1>7, NeverTaken
         DEF Next, ConnectionStep, PollStep, Orderly

LEMMA DeliveredKept ==
    ASSUME Faults \subseteq {"refuse"}, TypeInv, Orderly, Spoken, Delivered, [Next]_vars
    PROVE  Delivered'
<1>1. CASE turn # None /\ turn' = None
  BY <1>1, TurnKept, DeliveredEnd
<1>2. CASE turn # None => turn' # None
  <2>1. /\ Closed' = Closed
        /\ \A k \in 1..Closed :
              k \in 1..Len(asked') /\ asked'[k] = asked[k] /\ said'[k] = said[k]
    BY <1>2, ClosedKept
  <2>2. CASE Reply
    BY <2>1, <2>2, DeliveredReply
  <2>3. CASE ~Reply
    BY <1>2, <2>1, <2>3, LeavingKept, DeliveredSame
  <2> QED  BY <2>2, <2>3
<1> QED  BY <1>1, <1>2

InOrder == Orderly /\ Spoken /\ Delivered

LEMMA InOrderInit == Init => InOrder
<1> SUFFICES ASSUME Init PROVE Spoken /\ Delivered
  BY OrderlyInit DEF InOrder
<1>1. Spoken
  BY DEF Init, Spoken
<1>2. Delivered
  BY DEF Init, Delivered, PostedOnce, IsInjective, Leaves
<1> QED  BY <1>1, <1>2

LEMMA InOrderNext ==
    ASSUME Faults \subseteq {"refuse"}, TypeInv, InOrder, [Next]_vars
    PROVE  InOrder'
BY OrderlyKept, SpokenKept, DeliveredKept DEF InOrder

\* No part of a reply is delivered twice, whichever replies Telegram refuses, as long as
\* no connection and no process is lost (_send_reply).
THEOREM RepliesOnce ==
    ASSUME Faults \subseteq {"refuse"}
    PROVE  Spec => []PostedOnce
<1>1. TypeInv /\ MapIsCurrent /\ [Next]_vars => TypeInv' /\ MapIsCurrent'
  BY TurnsNext DEF TurnsTypes
<1>2. TypeInv /\ InOrder /\ [Next]_vars => InOrder'
  BY InOrderNext
<1>3. InOrder => PostedOnce
  BY DEF InOrder, Delivered
<1> QED  BY <1>1, <1>2, <1>3, TurnsInit, InOrderInit, PTL DEF Spec

\* A reply is threaded to the prompt it answers, as long as no connection and no process
\* is lost, whatever the user sends or stops meanwhile (_finish_turn, _send_reply).
THEOREM RepliesThreaded ==
    ASSUME Faults \subseteq {"refuse"}
    PROVE  Spec => RepliesToItsPrompt
<1> DEFINE A == posted' # posted =>
                    \A n \in Len(posted) + 1..Len(posted') :
                        asked[posted'[n][1]] =
                            (IF at = "replying" THEN leaving.turn.of ELSE leaving.of)
<1>1. TypeInv /\ MapIsCurrent /\ [Next]_vars => TypeInv' /\ MapIsCurrent'
  BY TurnsNext DEF TurnsTypes
<1>2. TypeInv /\ InOrder /\ [Next]_vars => InOrder'
  BY InOrderNext
<1>3. TypeInv /\ InOrder /\ [Next]_vars => [A]_vars
  <2> SUFFICES ASSUME TypeInv, InOrder, [Next]_vars, posted' # posted,
                      NEW n \in Len(posted) + 1..Len(posted')
               PROVE  asked[posted'[n][1]] =
                          (IF at = "replying" THEN leaving.turn.of ELSE leaving.of)
    OBVIOUS
  <2>1. turn # None => turn' # None
    BY TurnKept, DeliveredEnd DEF InOrder
  <2>2. Reply
    BY <2>1, LeavingKept DEF InOrder
  <2>3. posted'[n][1] = Closed
    BY <2>1, <2>2, ClosedKept, DeliveredReply DEF InOrder
  <2>4. at = "replying" /\ asked[Closed] = leaving.turn.of
    BY <2>2 DEF Reply, InOrder, Delivered, Leaves
  <2> QED  BY <2>3, <2>4
<1> QED  BY <1>1, <1>2, <1>3, TurnsInit, InOrderInit, PTL DEF Spec, RepliesToItsPrompt

-----------------------------------------------------------------------------
(***************************************************************************)
(* When nothing at all goes wrong, what the agent said is in the chat: as  *)
(* the reply, or, before it, as narration.                                 *)
(***************************************************************************)
Shown ==
    /\ \A k \in 1..Closed :
          (Leaves /\ k = Closed) \/ ToSet(Text(k)) \subseteq ToSet(posted) \cup noted
    /\ Leaves => ToSet(leaving.turn.lines) \subseteq noted
    /\ turn # None => ToSet(turn.lines) \subseteq noted

LEMMA NarrationKept ==
    ASSUME Faults = {}, TypeInv, Orderly, [Next]_vars,
           turn # None => ToSet(turn.lines) \subseteq noted
    PROVE  noted \subseteq noted' /\ (turn' # None => ToSet(turn'.lines) \subseteq noted')
<1> USE DEF daemon, wire, memory, chat, ghosts
<1>0. turn # None => turn \in Turns
  BY DEF TypeInv, BotOK
<1>1. ASSUME UNCHANGED turn, noted \subseteq noted'
      PROVE  noted \subseteq noted' /\ (turn' # None => ToSet(turn'.lines) \subseteq noted')
  BY <1>1
<1>2. CASE DaemonStep \/ Evicted
  BY <1>1, <1>2 DEF DaemonStep, Accept, Resumed, Prompted, Say, TurnEnds, Evicted
<1>3. CASE TextReceived \/ Working
  <2>1. noted' = noted
    BY <1>3 DEF TextReceived, Working
  <2>2. turn' # None => turn # None /\ turn'.lines = turn.lines
    BY <1>0, <1>3 DEF TextReceived, Working, Turns
  <2> QED  BY <2>1, <2>2
<1>4. CASE ToolCalled
  <2>1. CASE turn = None \/ turn.parts = <<>>
    BY <1>1, <1>4, <2>1 DEF ToolCalled
  <2>2. CASE turn # None /\ turn.parts # <<>>
    <3>1. turn' = CloseBlock(turn) /\ noted' = noted \cup ToSet(turn.parts)
      BY <1>4, <2>2 DEF ToolCalled
    <3>2. turn.lines \in Seq(Chunks) /\ turn.parts \in Seq(Chunks)
          /\ turn'.lines = turn.lines \o turn.parts
      BY <1>0, <2>2, <3>1, CloseBlockTyped
    <3>3. ToSet(turn'.lines) = ToSet(turn.lines) \cup ToSet(turn.parts)
      BY <3>2, SetOfConcat
    <3> QED  BY <2>2, <3>1, <3>3
  <2> QED  BY <2>1, <2>2
<1>5. CASE TurnStarted \/ TurnEnded \/ Idle
  <2>1. noted' = noted /\ (turn' = turn \/ turn' = None)
    BY <1>5 DEF TurnStarted, TurnEnded, Idle, Finish, TakeTurn
  <2> QED  BY <2>1
<1>6. CASE \/ Connect \/ NothingToSettle \/ Close \/ Progress \/ OthersPersist
           \/ Poll \/ Fetch \/ Show \/ Stop \/ Unqueue \/ FullStop
           \/ Reply \/ NoReply \/ Report \/ Update \/ UNCHANGED vars
  <2>1. noted \subseteq noted'
    BY <1>6 DEF Connect, NothingToSettle, Close, Progress, OthersPersist, Poll, Fetch, Show,
                Stop, Unqueue, FullStop, Command, Reply, NoReply, Report, Update, vars
  <2>2. UNCHANGED <<turn, frames>> \/ \E q : \E p \in Prompts : Forward(p, q)
    BY <1>6, QuietSteps
  <2>3. ASSUME NEW p \in Prompts, NEW q, Forward(p, q), turn = None
        PROVE  ToSet(turn'.lines) = {}
    <3>1. turn'.lines = <<>>
      BY <2>3 DEF Forward, NewTurn
    <3> QED  BY <3>1, SetOfOne
  <2>4. (\E q : \E p \in Prompts : Forward(p, q)) => turn' = turn \/ ToSet(turn'.lines) = {}
    BY <2>3 DEF Forward
  <2> QED  BY <1>1, <2>1, <2>2, <2>4
<1> QED  BY <1>2, <1>3, <1>4, <1>5, <1>6, NeverTaken
         DEF Next, ConnectionStep, PollStep, Orderly

\* What is left of a turn's text, when its reply is posted or there is none.
LEMMA ReplyShows ==
    ASSUME TypeInv, Orderly, Delivered, Leaves,
           ToSet(leaving.turn.lines) \subseteq noted
    PROVE  ToSet(Text(Closed)) \subseteq ToSet(Answer(leaving.turn)) \cup noted
<1> DEFINE t == leaving.turn
           g == Len(Got(t))
<1>1. t \in Turns /\ Closed \in 1..Len(asked) /\ g = said[Closed]
      /\ \A i \in 1..g : Got(t)[i] = <<Closed, i>>
  BY DEF Leaves, Leavings, Delivered, TypeInv, BotOK
<1>2. /\ g = Len(t.lines) + Len(t.parts)
      /\ Len(t.lines) \in Nat /\ Len(t.parts) \in Nat
      /\ \A i \in 1..g :
            Got(t)[i] = IF i <= Len(t.lines) THEN t.lines[i] ELSE t.parts[i - Len(t.lines)]
  BY <1>1, GotTyped
<1>3. Text(Closed) = [n \in 1..g |-> <<Closed, n>>]
  BY <1>1 DEF Text
<1> SUFFICES ASSUME NEW x \in ToSet(Text(Closed)) PROVE x \in ToSet(Answer(t)) \cup noted
  OBVIOUS
<1>4. PICK i \in 1..g : x = <<Closed, i>>
  <2>1. PICK i \in DOMAIN Text(Closed) : x = Text(Closed)[i]
    BY DEF ToSet
  <2> HIDE DEF g
  <2> QED  BY <1>3, <2>1
<1> HIDE DEF g
<1>5. x = Got(t)[i]
  BY <1>1, <1>4
<1> HIDE DEF t
<1>6. CASE i <= Len(t.lines)
  <2>1. i \in DOMAIN t.lines /\ x = t.lines[i]
    BY <1>1, <1>2, <1>5, <1>6 DEF Turns
  <2>2. x \in ToSet(t.lines)
    BY <2>1 DEF ToSet
  <2> QED  BY <2>2 DEF t
<1>7. CASE ~(i <= Len(t.lines))
  <2> DEFINE a == Len(t.lines)
             b == Len(t.parts)
  <2>0. a \in Nat /\ b \in Nat /\ g = a + b /\ i \in 1..g /\ ~(i <= a)
    BY <1>2, <1>7
  <2>1. i - Len(t.lines) \in 1..Len(t.parts) /\ x = t.parts[i - Len(t.lines)]
    <3>1. Got(t)[i] = t.parts[i - a]
      BY <1>2, <1>7
    <3> HIDE DEF a, b
    <3>2. i - a \in 1..b
      BY <2>0
    <3> QED  BY <1>5, <3>1, <3>2 DEF a, b
  <2> HIDE DEF a, b
  <2>2. t.parts # <<>>
    BY <2>1
  <2>3. Answer(t) = t.parts
    BY <2>2 DEF Answer
  <2>4. t.parts \in Seq(Chunks)
    BY <1>1 DEF Turns
  <2> QED  BY <2>1, <2>3, <2>4 DEF ToSet
<1> QED  BY <1>6, <1>7

LEMMA TextKept ==
    ASSUME NEW k \in Nat, said'[k] = said[k]
    PROVE  Text(k)' = Text(k)
BY DEF Text

LEMMA ShownKept ==
    ASSUME Faults = {}, TypeInv, InOrder, Shown, [Next]_vars
    PROVE  Shown'
<1> USE DEF InOrder
<1>0. /\ Faults \subseteq {"refuse"} /\ Closed \in Nat
      /\ noted \subseteq noted' /\ (turn' # None => ToSet(turn'.lines) \subseteq noted')
  BY ClosedIs, NarrationKept DEF Shown
<1>1. CASE turn # None /\ turn' = None
  <2>1. /\ Closed' = Closed + 1 /\ Leaves' /\ ~Leaves /\ leaving'.turn = turn
        /\ UNCHANGED <<asked, said, posted, noted>>
    BY <1>0, <1>1, TurnKept, DeliveredEnd
  <2>2. ASSUME NEW k \in 1..Closed', k # Closed'
        PROVE  ToSet(Text(k)') \subseteq ToSet(posted') \cup noted'
    <3>1. k \in 1..Closed /\ k \in Nat
      BY <1>0, <2>1, <2>2
    <3>2. Text(k)' = Text(k)
      BY <2>1, <3>1, TextKept
    <3> QED  BY <2>1, <3>1, <3>2 DEF Shown
  <2> QED  BY <1>1, <2>1, <2>2 DEF Shown
<1>2. CASE turn # None => turn' # None
  <2>1. /\ Closed' = Closed
        /\ \A k \in 1..Closed :
              k \in 1..Len(asked') /\ asked'[k] = asked[k] /\ said'[k] = said[k]
    BY <1>0, <1>2, ClosedKept
  <2>2. ASSUME NEW k \in 1..Closed
        PROVE  Text(k)' = Text(k)
    BY <1>0, <2>1, TextKept
  <2>3. CASE Reply
    <3>1. posted' = posted \o Answer(leaving.turn) /\ ~Leaves' /\ Leaves
          /\ posted \in Seq(Chunks) /\ leaving.turn \in Turns
      BY <2>1, <2>3, DeliveredReply DEF Reply, Leaves, TypeInv, BotOK, ChatOK, Leavings
    <3>2. ToSet(posted') = ToSet(posted) \cup ToSet(Answer(leaving.turn))
      BY <3>1, AnswerTyped, SetOfConcat
    <3>3. ToSet(Text(Closed)) \subseteq ToSet(Answer(leaving.turn)) \cup noted
      BY <3>1, ReplyShows DEF Shown
    <3>4. ASSUME NEW k \in 1..Closed
          PROVE  ToSet(Text(k)) \subseteq ToSet(posted') \cup noted'
      BY <1>0, <3>2, <3>3 DEF Shown
    <3> QED  BY <1>0, <2>1, <2>2, <3>1, <3>4 DEF Shown
  <2>4. CASE NoReply
    <3>1. Answer(leaving.turn) = <<>> /\ Leaves /\ ~Leaves' /\ posted' = posted
      <4>1. at = "replying" /\ Answer(leaving.turn) = <<>> /\ posted' = posted
        BY <2>4 DEF NoReply, chat
      <4>2. at' \in {"handling", "progress", "reporting"}
        BY <2>4 DEF NoReply, Flush, Reported
      <4> QED  BY <4>1, <4>2 DEF Leaves
    <3>2. ToSet(Text(Closed)) \subseteq noted
      BY <3>1, ReplyShows, SetOfOne DEF Shown
    <3>3. ASSUME NEW k \in 1..Closed
          PROVE  ToSet(Text(k)) \subseteq ToSet(posted') \cup noted'
      BY <1>0, <3>1, <3>2, <3>3 DEF Shown
    <3> QED  BY <1>0, <2>1, <2>2, <3>1, <3>3 DEF Shown
  <2>5. CASE ~Reply /\ ~NoReply
    <3>1. posted' = posted /\ (Leaves' => Leaves /\ leaving' = leaving)
      BY <1>0, <1>2, <2>5, LeavingKept
    <3>2. Leaves => Leaves'
      <4> USE DEF daemon, wire, memory, Leaves
      <4>1. CASE DaemonStep \/ Evicted
        BY <4>1 DEF DaemonStep, Accept, Resumed, Prompted, Say, TurnEnds, Evicted
      <4>2. ~Leaves \/ ~(TextReceived \/ ToolCalled \/ TurnStarted \/ Working \/ TurnEnded \/ Idle)
        BY DEF TextReceived, ToolCalled, TurnStarted, Working, TurnEnded, Idle, Receives
      <4>3. ~Leaves \/ ~(Connect \/ NothingToSettle \/ Report \/ Progress)
        BY DEF Connect, NothingToSettle, Report, Progress
      <4>4. CASE Close
        BY <4>4 DEF Close
      <4>5. CASE OthersPersist \/ Poll \/ Fetch \/ Show \/ Update \/ Stop \/ Unqueue \/ FullStop
        BY <4>5 DEF OthersPersist, Poll, Fetch, Show, Update, Stop, Unqueue, FullStop, Command
      <4>6. CASE UNCHANGED vars
        BY <4>6 DEF vars
      <4> QED  BY <1>0, <2>5, <4>1, <4>2, <4>3, <4>4, <4>5, <4>6, NeverTaken
               DEF Next, ConnectionStep, PollStep, Orderly
    <3>3. ASSUME NEW k \in 1..Closed, ~(Leaves /\ k = Closed)
          PROVE  ToSet(Text(k)) \subseteq ToSet(posted') \cup noted'
      BY <1>0, <3>1, <3>3 DEF Shown
    <3>4. Leaves' => ToSet(leaving'.turn.lines) \subseteq noted'
      BY <1>0, <3>1 DEF Shown
    <3> QED  BY <1>0, <2>1, <2>2, <3>1, <3>2, <3>3, <3>4 DEF Shown
  <2> QED  BY <2>3, <2>4, <2>5
<1> QED  BY <1>1, <1>2

LEMMA ShownInit == Init => Shown
BY DEF Init, Shown, Closed, Current, Leaves

\* While nothing goes wrong: once everything has come to rest, what the agent said in
\* the bot's turns is in the chat, as reply or as narration (_finish_turn, _send_reply).
THEOREM AllIsShown ==
    ASSUME Faults = {}
    PROVE  Spec => []SaidIsShown
<1>1. TypeInv /\ MapIsCurrent /\ [Next]_vars => TypeInv' /\ MapIsCurrent'
  BY TurnsNext DEF TurnsTypes
<1>2. TypeInv /\ InOrder /\ [Next]_vars => InOrder'
  BY InOrderNext
<1>3. TypeInv /\ InOrder /\ Shown /\ [Next]_vars => Shown'
  BY ShownKept
<1>4. TypeInv /\ InOrder /\ Shown => SaidIsShown
  <2> SUFFICES ASSUME TypeInv, InOrder, Shown, Quiet, NEW k \in DOMAIN asked
               PROVE  ToSet(Text(k)) \subseteq ToSet(posted) \cup noted
    BY DEF SaidIsShown
  <2>1. ~Leaves /\ turn = None
    BY DEF Quiet, Leaves
  <2>2. Closed = Len(asked)
    BY <2>1, ClosedIs DEF InOrder
  <2>3. k \in 1..Closed
    BY <2>2 DEF TypeInv, DaemonOK
  <2> QED  BY <2>1, <2>3 DEF Shown
<1> QED  BY <1>1, <1>2, <1>3, <1>4, TurnsInit, InOrderInit, ShownInit, PTL DEF Spec

=============================================================================
