-------------------------- MODULE EventStreamProofs --------------------------
(***************************************************************************)
(* Proofs about EventStream: that it implements WorldView, for any number  *)
(* of clients and sessions, any bound of the queues and any window.        *)
(*                                                                         *)
(* What a client has still to read is its Pipe: what is on the wire and,   *)
(* while it is subscribed, what is in its queue.  The moments along a pipe *)
(* begin where the client is, leave none out, and end at the present; so   *)
(* whichever message is read, what the client shows is the next moment of  *)
(* the history.  A queue that the bus has given up on is no longer part of *)
(* the pipe, and begins with CLOSED.                                       *)
(***************************************************************************)
EXTENDS EventStream, SequenceTheorems, TLAPS

Worlds == [Sessions -> States \cup {None}]

Messages ==
    [type : {"snapshot"}, sessions : Worlds, moment : Nat]
    \cup [type : {"session"}, session : Sessions, state : States \cup {None}, moment : Nat]
    \cup [type : {"attachment"}, file : Files, moment : Nat]
    \cup [type : {"action_error"}, moment : Nat]
    \cup [type : {"closed"}]

Open(c) == socket[c] \in {"greeting", "open"}
Listens(c) == Open(c) /\ c \in subscribed
Pipe(c) == IF Listens(c) THEN wire[c] \o queue[c] ELSE wire[c]

\* A message that a client may read when it has seen moment n.
Follows(m, n) ==
    CASE m.type = "snapshot" -> n <= m.moment
      [] m.type = "session" -> n > 0 /\ m.moment = n + 1
      [] m.type = "closed" -> TRUE
      [] OTHER -> m.moment = n

Before(n, p, i) == IF i = 1 THEN n ELSE p[i - 1].moment
Chain(n, p) == \A i \in 1..Len(p) : Follows(p[i], Before(n, p, i))
EndOf(n, p) == IF p = <<>> THEN n ELSE p[Len(p)].moment

\* What a message says is what the history says.
Says(m, h) ==
    /\ m.type = "snapshot" => m.moment \in 1..Len(h) /\ m.sessions = h[m.moment]
    /\ m.type = "session" =>
          /\ m.moment \in 2..Len(h)
          /\ h[m.moment] = [h[m.moment - 1] EXCEPT ![m.session] = m.state]

HistoryOK ==
    /\ history \in Seq(Worlds) /\ history # <<>>
    /\ sessions \in Worlds /\ history[Len(history)] = sessions

ShapeOK ==
    /\ subscribed \subseteq Clients
    /\ socket \in [Clients -> {"off", "greeting", "open", "closing", "lost"}]
    /\ wire \in [Clients -> Seq(Messages)] /\ queue \in [Clients -> Seq(Messages)]
    /\ seen \in [Clients -> Nat] /\ mirror \in [Clients -> Worlds \cup {None}]
    /\ upload \in [Clients -> Files \cup {None}]

ViewOK(c) ==
    /\ seen[c] <= Len(history)
    /\ seen[c] > 0 => mirror[c] = history[seen[c]]

PipeOK(c) ==
    /\ Chain(seen[c], Pipe(c))
    /\ \A i \in 1..Len(Pipe(c)) : Says(Pipe(c)[i], history)
    /\ \A i \in 1..Len(Pipe(c)) :
          Pipe(c)[i].type = "closed" => i = Len(Pipe(c)) /\ socket[c] = "closing"
    /\ Listens(c) => EndOf(seen[c], Pipe(c)) = Len(history)

SocketOK(c) ==
    /\ Open(c) /\ c \notin subscribed => queue[c] # <<>> /\ Head(queue[c]) = CLOSED
    /\ socket[c] \in {"off", "lost"} => wire[c] = <<>>

IInv == HistoryOK /\ ShapeOK /\ \A c \in Clients : ViewOK(c) /\ PipeOK(c) /\ SocketOK(c)

-----------------------------------------------------------------------------
(***************************************************************************)
(* Chains.                                                                 *)
(***************************************************************************)
\* CLOSED is a message without a moment, and the only one of its type.
LEMMA ClosedIsAMessage == CLOSED \in Messages /\ CLOSED.type = "closed"
BY DEF CLOSED, Messages

\* After the first message of a chain has been read, the rest is a chain from there.
LEMMA ChainTail ==
    ASSUME NEW p \in Seq(Messages), p # <<>>, NEW n \in Nat, Chain(n, p)
    PROVE  /\ Chain(p[1].moment, Tail(p))
           /\ EndOf(p[1].moment, Tail(p)) = EndOf(n, p)
<1>1. /\ Len(Tail(p)) = Len(p) - 1 /\ Len(p) > 0
      /\ \A i \in 1..Len(Tail(p)) : Tail(p)[i] = p[i + 1]
  BY HeadTailProperties, LenProperties, EmptySeq
<1>2. Chain(p[1].moment, Tail(p))
  <2> SUFFICES ASSUME NEW i \in 1..Len(Tail(p))
               PROVE  Follows(Tail(p)[i], Before(p[1].moment, Tail(p), i))
    BY DEF Chain
  <2>1. i + 1 \in 1..Len(p) /\ i + 1 # 1
    BY <1>1, LenProperties
  <2>2. Before(p[1].moment, Tail(p), i) = p[i].moment
    BY <1>1, LenProperties DEF Before
  <2>3. Before(n, p, i + 1) = p[i].moment
    BY <2>1, LenProperties DEF Before
  <2> QED  BY <1>1, <2>1, <2>2, <2>3 DEF Chain
<1>3. EndOf(p[1].moment, Tail(p)) = EndOf(n, p)
  <2>1. PICK t \in Seq(Messages) : t = Tail(p)
    BY HeadTailProperties
  <2>2. /\ Len(t) = Len(p) - 1 /\ \A i \in 1..Len(t) : t[i] = p[i + 1]
        /\ Len(p) \in Nat /\ Len(t) \in Nat
    BY <1>1, <2>1, LenProperties
  <2>3. CASE t = <<>>
    <3>1. Len(t) = 0
      BY <2>3, EmptySeq
    <3>2. Len(p) = 1
      BY <2>2, <3>1
    <3> QED  BY <2>1, <2>3, <3>2 DEF EndOf
  <2>4. CASE t # <<>>
    <3>1. Len(t) \in 1..Len(t) /\ Len(t) + 1 = Len(p)
      BY <2>1, <2>2, <2>4, EmptySeq
    <3> QED  BY <2>1, <2>2, <2>4, <3>1 DEF EndOf
  <2> QED  BY <2>3, <2>4
<1> QED  BY <1>2, <1>3

\* A message that follows the end of a chain makes it longer.
LEMMA ChainAppend ==
    ASSUME NEW p \in Seq(Messages), NEW n \in Nat, Chain(n, p),
           NEW m \in Messages, Follows(m, EndOf(n, p))
    PROVE  Chain(n, Append(p, m)) /\ EndOf(n, Append(p, m)) = m.moment
<1>1. /\ Append(p, m) \in Seq(Messages) /\ Append(p, m) # <<>>
      /\ Len(Append(p, m)) = Len(p) + 1 /\ Len(p) \in Nat
      /\ \A i \in 1..Len(p) : Append(p, m)[i] = p[i]
      /\ Append(p, m)[Len(p) + 1] = m
  BY AppendProperties, LenProperties
<1>2. ASSUME NEW i \in 1..(Len(p) + 1)
      PROVE  Follows(Append(p, m)[i], Before(n, Append(p, m), i))
  <2>1. CASE i = Len(p) + 1
    <3>1. Before(n, Append(p, m), i) = EndOf(n, p)
      BY <1>1, <2>1, EmptySeq, LenProperties DEF Before, EndOf
    <3> QED  BY <1>1, <2>1, <3>1
  <2>2. CASE i # Len(p) + 1
    <3>1. i \in 1..Len(p)
      BY <1>1, <2>2
    <3>2. Before(n, Append(p, m), i) = Before(n, p, i)
      BY <1>1, <3>1 DEF Before
    <3> QED  BY <1>1, <3>1, <3>2 DEF Chain
  <2> QED  BY <2>1, <2>2
<1> QED  BY <1>1, <1>2 DEF Chain, EndOf

\* The beginning of a chain is a chain.
LEMMA ChainPrefix ==
    ASSUME NEW w \in Seq(Messages), NEW q \in Seq(Messages), NEW n \in Nat, Chain(n, w \o q)
    PROVE  Chain(n, w)
<1>1. /\ Len(w \o q) = Len(w) + Len(q) /\ Len(w) \in Nat /\ Len(q) \in Nat
      /\ \A i \in 1..Len(w) : (w \o q)[i] = w[i]
  BY ConcatProperties, LenProperties
<1> SUFFICES ASSUME NEW i \in 1..Len(w) PROVE Follows(w[i], Before(n, w, i))
  BY DEF Chain
<1>2. Before(n, w \o q, i) = Before(n, w, i)
  BY <1>1 DEF Before
<1> QED  BY <1>1, <1>2 DEF Chain

-----------------------------------------------------------------------------
(***************************************************************************)
(* Pipes: a wire followed by a queue.                                      *)
(***************************************************************************)
\* What is published to a queue comes last.
LEMMA PipeAppend ==
    ASSUME NEW w \in Seq(Messages), NEW q \in Seq(Messages), NEW m \in Messages
    PROVE  w \o Append(q, m) = Append(w \o q, m)
<1>1. <<m>> \in Seq(Messages)
  OBVIOUS
<1>2. Append(q, m) = q \o <<m>> /\ Append(w \o q, m) = (w \o q) \o <<m>>
  BY AppendIsConcat, ConcatProperties
<1> QED  BY <1>1, <1>2, ConcatAssociative

\* The wire comes first.
LEMMA PipePrefix ==
    ASSUME NEW w \in Seq(Messages), NEW q \in Seq(Messages)
    PROVE  /\ Len(w) \in Nat /\ Len(w) <= Len(w \o q)
           /\ \A i \in 1..Len(w) : (w \o q)[i] = w[i]
<1>1. Len(w) \in Nat /\ Len(q) \in Nat
  BY LenProperties
<1> QED  BY <1>1, ConcatProperties

\* What is in the queue is in the pipe.
LEMMA PipeMiddle ==
    ASSUME NEW w \in Seq(Messages), NEW q \in Seq(Messages), q # <<>>
    PROVE  \E i \in 1..Len(w \o q) : (w \o q)[i] = Head(q)
<1>1. Len(w) \in Nat /\ Len(q) \in Nat \ {0}
  BY LenProperties, EmptySeq
<1>2. Len(w) + 1 \in 1..Len(w \o q)
  BY <1>1, ConcatProperties
<1>3. (w \o q)[Len(w) + 1] = q[1]
  <2>1. (w \o q)[Len(w) + 1] =
           IF Len(w) + 1 <= Len(w) THEN w[Len(w) + 1] ELSE q[Len(w) + 1 - Len(w)]
    BY <1>1, ConcatProperties
  <2> QED  BY <1>1, <2>1
<1> QED  BY <1>2, <1>3

\* A message that leaves the queue for the wire keeps its place.
LEMMA PipeSend ==
    ASSUME NEW w \in Seq(Messages), NEW q \in Seq(Messages), q # <<>>
    PROVE  Append(w, Head(q)) \o Tail(q) = w \o q
<1>1. Head(q) \in Messages /\ Tail(q) \in Seq(Messages)
  BY HeadTailProperties
<1>2. PICK h \in Messages, t \in Seq(Messages) : h = Head(q) /\ t = Tail(q)
  BY <1>1
<1>3. <<h>> \in Seq(Messages) /\ Append(w, h) = w \o <<h>>
  BY AppendIsConcat
<1>4. Append(w, h) \o t = w \o (<<h>> \o t)
  BY <1>3, ConcatAssociative
<1>5. <<h>> \o t = q
  <2>1. /\ <<h>> \o t \in Seq(Messages) /\ Len(<<h>> \o t) = 1 + Len(t)
        /\ \A i \in 1..(1 + Len(t)) :
              (<<h>> \o t)[i] = IF i <= 1 THEN <<h>>[i] ELSE t[i - 1]
    BY <1>3, ConcatProperties
  <2>2. /\ Len(t) = Len(q) - 1 /\ \A i \in 1..Len(t) : t[i] = q[i + 1]
        /\ h = q[1] /\ Len(q) \in Nat /\ Len(t) \in Nat
    BY <1>2, HeadTailProperties, LenProperties
  <2>3. ASSUME NEW i \in 1..Len(q) PROVE (<<h>> \o t)[i] = q[i]
    <3>1. CASE i = 1
      BY <2>1, <2>2, <3>1
    <3>2. CASE i # 1
      <4>1. i - 1 \in 1..Len(t) /\ i \in 1..(1 + Len(t)) /\ ~(i <= 1)
        BY <2>2, <3>2
      <4> QED  BY <2>1, <2>2, <4>1
    <3> QED  BY <3>1, <3>2
  <2>4. Len(<<h>> \o t) = Len(q)
    BY <2>1, <2>2
  <2> QED  BY <2>1, <2>3, <2>4, SeqEqual
<1> QED  BY <1>2, <1>4, <1>5

\* What is read is the first message of the pipe.
LEMMA PipeRead ==
    ASSUME NEW w \in Seq(Messages), NEW q \in Seq(Messages), w # <<>>
    PROVE  /\ Tail(w) \o q = Tail(w \o q)
           /\ w \o q \in Seq(Messages) /\ w \o q # <<>>
           /\ (w \o q)[1] = Head(w)
<1>1. Head(w) \in Messages /\ Tail(w) \in Seq(Messages) /\ Len(w) \in Nat \ {0}
  BY HeadTailProperties, EmptySeq
<1>2. PICK h \in Messages, t \in Seq(Messages) : h = Head(w) /\ t = Tail(w)
  BY <1>1
<1>3. PICK p \in Seq(Messages) : p = w \o q
  BY ConcatProperties
<1>4. /\ Len(p) = Len(w) + Len(q) /\ Len(q) \in Nat
      /\ \A i \in 1..Len(p) : p[i] = IF i <= Len(w) THEN w[i] ELSE q[i - Len(w)]
  BY <1>3, ConcatProperties, LenProperties
<1>5. p # <<>> /\ p[1] = w[1] /\ w[1] = h
  BY <1>1, <1>2, <1>4, EmptySeq
<1>6. PICK r \in Seq(Messages) : r = Tail(p)
  BY <1>5, HeadTailProperties
<1>7. Len(r) = Len(p) - 1 /\ \A i \in 1..Len(r) : r[i] = p[i + 1]
  BY <1>5, <1>6, HeadTailProperties
<1>8. /\ Len(t) = Len(w) - 1 /\ \A i \in 1..Len(t) : t[i] = w[i + 1]
      /\ Len(t) \in Nat
  BY <1>2, HeadTailProperties, LenProperties
<1>9. PICK u \in Seq(Messages) : u = t \o q
  BY ConcatProperties
<1>10. /\ Len(u) = Len(t) + Len(q)
       /\ \A i \in 1..Len(u) : u[i] = IF i <= Len(t) THEN t[i] ELSE q[i - Len(t)]
  BY <1>9, ConcatProperties
<1>11. Len(u) = Len(r)
  BY <1>1, <1>4, <1>7, <1>8, <1>10
<1>12. ASSUME NEW i \in 1..Len(u) PROVE u[i] = r[i]
  <2>1. i + 1 \in 1..Len(p) /\ i \in 1..Len(r) /\ i \in Nat
    BY <1>1, <1>4, <1>7, <1>8, <1>10
  <2>2. r[i] = p[i + 1]
    BY <1>7, <2>1
  <2>3. CASE i <= Len(t)
    <3>1. i \in 1..Len(t) /\ i + 1 <= Len(w)
      BY <1>1, <1>8, <2>1, <2>3
    <3>2. u[i] = t[i] /\ t[i] = w[i + 1]
      BY <1>8, <1>10, <2>3, <3>1
    <3>3. p[i + 1] = w[i + 1]
      BY <1>4, <2>1, <3>1
    <3> QED  BY <2>2, <3>2, <3>3
  <2>4. CASE ~(i <= Len(t))
    <3>1. ~(i + 1 <= Len(w)) /\ i + 1 - Len(w) = i - Len(t)
      BY <1>1, <1>8, <2>1, <2>4
    <3>2. u[i] = q[i - Len(t)]
      BY <1>10, <2>4
    <3>3. p[i + 1] = q[i + 1 - Len(w)]
      BY <1>4, <2>1, <3>1
    <3> QED  BY <2>2, <3>1, <3>2, <3>3
  <2> QED  BY <2>3, <2>4
<1>13. u = r
  BY <1>11, <1>12, SeqEqual
<1> QED  BY <1>2, <1>3, <1>5, <1>6, <1>9, <1>13

-----------------------------------------------------------------------------
(***************************************************************************)
(* What a step does to one client.                                         *)
(***************************************************************************)
ClientOK(c) == ViewOK(c) /\ PipeOK(c) /\ SocketOK(c)

LEMMA PipeIsASeq ==
    ASSUME ShapeOK, NEW c \in Clients
    PROVE  /\ wire[c] \in Seq(Messages) /\ queue[c] \in Seq(Messages)
           /\ Pipe(c) \in Seq(Messages) /\ Len(Pipe(c)) \in Nat
           /\ seen[c] \in Nat
<1>1. wire[c] \in Seq(Messages) /\ queue[c] \in Seq(Messages) /\ seen[c] \in Nat
  BY DEF ShapeOK
<1>2. wire[c] \o queue[c] \in Seq(Messages)
  BY <1>1, ConcatProperties
<1>3. Pipe(c) \in Seq(Messages)
  BY <1>1, <1>2 DEF Pipe
<1> QED  BY <1>1, <1>3, LenProperties

\* The history only grows, so what was true of it stays true.
LEMMA HistoryStays ==
    ASSUME HistoryOK, NEW w \in Worlds,
           history' = history \/ history' = Append(history, w)
    PROVE  /\ Len(history) \in Nat \ {0} /\ Len(history') >= Len(history)
           /\ \A i \in 1..Len(history) : history'[i] = history[i]
           /\ \A m \in Messages : Says(m, history) => Says(m, history')
<1>1. history \in Seq(Worlds) /\ Len(history) \in Nat \ {0}
  BY EmptySeq DEF HistoryOK
<1>2. Len(history') >= Len(history) /\ Len(history') \in Nat
  BY <1>1, AppendProperties
<1>3. \A i \in 1..Len(history) : history'[i] = history[i]
  BY <1>1, AppendProperties
<1>4. ASSUME NEW m \in Messages, Says(m, history) PROVE Says(m, history')
  <2>1. CASE m.type = "snapshot"
    BY <1>1, <1>2, <1>3, <1>4, <2>1 DEF Says
  <2>2. CASE m.type = "session"
    <3>1. m.moment \in 2..Len(history) /\ m.moment - 1 \in 1..Len(history)
          /\ m.moment \in 1..Len(history)
      BY <1>1, <1>4, <2>2 DEF Says
    <3>2. /\ history'[m.moment] = history[m.moment]
          /\ history'[m.moment - 1] = history[m.moment - 1]
      BY <1>3, <3>1
    <3>3. m.moment \in 2..Len(history')
      BY <1>1, <1>2, <3>1
    <3> QED  BY <1>4, <2>2, <3>2, <3>3 DEF Says
  <2>3. CASE m.type \notin {"snapshot", "session"}
    BY <2>3 DEF Says
  <2> QED  BY <2>1, <2>2, <2>3
<1> QED  BY <1>1, <1>2, <1>3, <1>4

\* A client that a step leaves alone, while the history stands still.
LEMMA Steady ==
    ASSUME NEW c \in Clients, ClientOK(c), history' = history,
           wire'[c] = wire[c], queue'[c] = queue[c], socket'[c] = socket[c],
           seen'[c] = seen[c], mirror'[c] = mirror[c],
           (c \in subscribed') <=> (c \in subscribed)
    PROVE  ClientOK(c)'
<1>1. Pipe(c)' = Pipe(c) /\ (Listens(c)' <=> Listens(c)) /\ (Open(c)' <=> Open(c))
  BY DEF Pipe, Listens, Open
<1>2. \A n, p : /\ Chain(n, p)' <=> Chain(n, p)
                /\ EndOf(n, p)' = EndOf(n, p)
  BY DEF Chain, EndOf, Follows, Before
<1>4. ViewOK(c)'
  BY DEF ClientOK, ViewOK
<1>5. PipeOK(c)'
  BY <1>1 DEF ClientOK, PipeOK
<1>6. SocketOK(c)'
  BY <1>1 DEF ClientOK, SocketOK
<1> QED  BY <1>4, <1>5, <1>6 DEF ClientOK

\* Publishing: a client that listens has one more message at the end of its pipe, or
\* its queue is no longer part of it.
LEMMA Published ==
    ASSUME IInv, NEW w \in Worlds, NEW event \in Messages, Publish(event),
           UNCHANGED <<socket, wire, seen, mirror>>,
           \/ history' = history /\ event.type = "attachment"
           \/ history' = Append(history, w) /\ event.type = "session",
           event.moment = Len(history'), Says(event, history'),
           NEW c \in Clients
    PROVE  /\ ClientOK(c)'
           /\ queue'[c] \in Seq(Messages)
<1> USE DEF ClientOK
<1>1. HistoryOK /\ ShapeOK /\ ViewOK(c) /\ PipeOK(c) /\ SocketOK(c)
  BY DEF IInv
<1>2. /\ wire[c] \in Seq(Messages) /\ queue[c] \in Seq(Messages)
      /\ Pipe(c) \in Seq(Messages) /\ Len(Pipe(c)) \in Nat /\ seen[c] \in Nat
  BY <1>1, PipeIsASeq
<1>3. /\ Len(history) \in Nat \ {0} /\ Len(history') >= Len(history)
      /\ \A i \in 1..Len(history) : history'[i] = history[i]
      /\ \A m \in Messages : Says(m, history) => Says(m, history')
  BY <1>1, HistoryStays
<1>4. \A i \in 1..Len(Pipe(c)) : Pipe(c)[i] \in Messages /\ Says(Pipe(c)[i], history')
  <2>1. \A i \in 1..Len(Pipe(c)) : Pipe(c)[i] \in Messages
    BY <1>2, ElementOfSeq
  <2> QED  BY <1>1, <1>3, <2>1 DEF PipeOK
<1>5. ViewOK(c)'
  BY <1>1, <1>2, <1>3 DEF ViewOK
<1>6. Open(c)' <=> Open(c)
  BY DEF Open
<1>7. CASE c \notin subscribed
  <2>1. queue'[c] = queue[c] /\ c \notin subscribed'
    BY <1>7 DEF Publish
  <2>2. Pipe(c) = wire[c] /\ Pipe(c)' = wire[c] /\ ~Listens(c)'
    BY <1>7, <2>1 DEF Pipe, Listens
  <2>3. PipeOK(c)'
    BY <1>1, <1>4, <2>2 DEF PipeOK
  <2>4. SocketOK(c)'
    BY <1>1, <1>6, <1>7, <2>1 DEF SocketOK
  <2> QED  BY <1>2, <1>5, <2>1, <2>3, <2>4
<1>8. CASE c \in subscribed /\ Behind(c)
  <2>1. queue'[c] = <<CLOSED>> /\ c \notin subscribed'
    BY <1>8 DEF Publish
  <2>2. Pipe(c)' = wire[c] /\ ~Listens(c)'
    BY <2>1 DEF Pipe, Listens
  <2>3. Len(wire[c]) <= Len(Pipe(c)) /\ Len(wire[c]) \in Nat
        /\ \A i \in 1..Len(wire[c]) : Pipe(c)[i] = wire[c][i]
    <3>1. Pipe(c) = wire[c] \o queue[c] \/ Pipe(c) = wire[c]
      BY DEF Pipe
    <3>2. CASE Pipe(c) = wire[c] \o queue[c]
      <4>1. wire[c] \in Seq(Messages) /\ queue[c] \in Seq(Messages)
        BY <1>2
      <4>2. /\ Len(wire[c]) \in Nat /\ Len(wire[c]) <= Len(wire[c] \o queue[c])
            /\ \A i \in 1..Len(wire[c]) : (wire[c] \o queue[c])[i] = wire[c][i]
        BY ONLY <4>1, PipePrefix
      <4> QED  BY <3>2, <4>2
    <3>3. CASE Pipe(c) = wire[c]
      BY <1>2, <3>3
    <3> QED  BY <3>1, <3>2, <3>3
  <2>4. Chain(seen[c], wire[c])
    BY <1>1, <1>2, ChainPrefix DEF Pipe, PipeOK
  <2>5. \A i \in 1..Len(wire[c]) : Says(wire[c][i], history')
    BY <1>2, <1>4, <2>3
  <2>6. \A i \in 1..Len(wire[c]) :
           wire[c][i].type = "closed" => i = Len(wire[c]) /\ socket[c] = "closing"
    BY <1>1, <1>2, <2>3 DEF PipeOK
  <2>7. PipeOK(c)'
    BY <2>2, <2>4, <2>5, <2>6 DEF PipeOK
  <2>8. SocketOK(c)'
    BY <1>1, <2>1 DEF SocketOK
  <2>9. <<CLOSED>> \in Seq(Messages)
    BY ClosedIsAMessage
  <2> QED  BY <1>5, <2>1, <2>7, <2>8, <2>9
<1>9. CASE c \in subscribed /\ ~Behind(c)
  <2>1. queue'[c] = Append(queue[c], event) /\ c \in subscribed'
    BY <1>9 DEF Publish
  <2>2. queue'[c] \in Seq(Messages)
    BY <1>2, <2>1, AppendProperties
  <2>3. SocketOK(c)'
    BY <1>1, <2>1 DEF SocketOK
  <2>4. CASE ~Open(c)
    <3>1. Pipe(c) = wire[c] /\ Pipe(c)' = wire[c] /\ ~Listens(c)'
      BY <1>6, <2>4 DEF Pipe, Listens
    <3>2. PipeOK(c)'
      BY <1>1, <1>4, <3>1 DEF PipeOK
    <3> QED  BY <1>5, <2>2, <2>3, <3>2
  <2>5. CASE Open(c)
    <3>1. Listens(c) /\ Listens(c)' /\ Pipe(c) = wire[c] \o queue[c]
      BY <1>6, <1>9, <2>1, <2>5 DEF Listens, Pipe
    <3>2. Pipe(c)' = Append(Pipe(c), event)
      <4>1. wire[c] \o Append(queue[c], event) = Append(wire[c] \o queue[c], event)
        BY <1>2, PipeAppend
      <4>2. Pipe(c)' = wire'[c] \o queue'[c] /\ wire'[c] = wire[c]
        BY <3>1 DEF Pipe
      <4> QED  BY <2>1, <3>1, <4>1, <4>2
    <3>3. Chain(seen[c], Pipe(c)) /\ EndOf(seen[c], Pipe(c)) = Len(history)
      BY <1>1, <3>1 DEF PipeOK
    <3>4. Follows(event, Len(history))
      BY <1>1, <1>3, AppendProperties DEF Follows, HistoryOK
    <3>5. /\ Chain(seen[c], Append(Pipe(c), event))
          /\ EndOf(seen[c], Append(Pipe(c), event)) = Len(history')
      BY <1>2, <3>3, <3>4, ChainAppend
    <3>6. /\ Len(Append(Pipe(c), event)) = Len(Pipe(c)) + 1
          /\ \A i \in 1..Len(Append(Pipe(c), event)) :
                Append(Pipe(c), event)[i] = IF i = Len(Pipe(c)) + 1 THEN event ELSE Pipe(c)[i]
      BY <1>2, AppendProperties
    <3>7. \A i \in 1..Len(Pipe(c)) : Pipe(c)[i].type # "closed"
      BY <1>1, <2>5 DEF PipeOK, Open
    <3>8. PipeOK(c)'
      <4> DEFINE p == Append(Pipe(c), event)
      <4>1. \A i \in 1..Len(p) : i = Len(Pipe(c)) + 1 \/ i \in 1..Len(Pipe(c))
        BY <1>2, <3>6
      <4>2. \A i \in 1..Len(p) : Says(p[i], history')
        BY <1>4, <3>6, <4>1
      <4>3. \A i \in 1..Len(p) : p[i].type # "closed"
        BY <3>6, <3>7, <4>1
      <4> HIDE DEF p
      <4>4. Pipe(c)' = p /\ Chain(seen'[c], p) /\ EndOf(seen'[c], p) = Len(history')
        BY <3>2, <3>5 DEF p
      <4> QED  BY <4>2, <4>3, <4>4 DEF PipeOK
    <3> QED  BY <1>5, <2>2, <2>3, <3>8
  <2> QED  BY <2>4, <2>5
<1> QED  BY <1>7, <1>8, <1>9

-----------------------------------------------------------------------------
(***************************************************************************)
(* The invariant is inductive: one lemma for each action.                  *)
(***************************************************************************)
LEMMA IInvSplit ==
    IInv <=> HistoryOK /\ ShapeOK /\ \A c \in Clients : ClientOK(c)
BY DEF IInv, ClientOK

LEMMA Starts == Init => IInv
<1> SUFFICES ASSUME Init PROVE IInv
  OBVIOUS
<1>1. sessions \in Worlds /\ history = <<sessions>>
  BY DEF Init, Worlds
<1>2. HistoryOK
  BY <1>1 DEF HistoryOK
<1>3. ShapeOK
  BY EmptySeq DEF Init, ShapeOK
<1>4. ASSUME NEW c \in Clients PROVE ClientOK(c)
  <2>1. Pipe(c) = <<>> /\ ~Listens(c) /\ ~Open(c) /\ wire[c] = <<>> /\ seen[c] = 0
    BY DEF Init, Pipe, Listens, Open
  <2>2. Len(history) = 1
    BY <1>1
  <2>3. ViewOK(c)
    BY <2>1, <2>2 DEF ViewOK
  <2>4. PipeOK(c)
    BY <2>1 DEF PipeOK, Chain
  <2>5. SocketOK(c)
    BY <2>1 DEF SocketOK
  <2> QED  BY <2>3, <2>4, <2>5 DEF ClientOK
<1> QED  BY <1>2, <1>3, <1>4, IInvSplit

LEMMA EmitKeeps ==
    ASSUME IInv, NEW s \in Sessions, NEW value \in States \cup {None}, Emit(s, value)
    PROVE  IInv'
<1> DEFINE event == [type |-> "session", session |-> s, state |-> value,
                     moment |-> Len(history')]
<1>1. HistoryOK /\ ShapeOK /\ \A c \in Clients : ClientOK(c)
  BY IInvSplit
<1>2. /\ sessions' = [sessions EXCEPT ![s] = value] /\ sessions' \in Worlds
      /\ history' = Append(history, sessions') /\ Publish(event)
      /\ UNCHANGED <<socket, wire, seen, mirror, upload>>
  BY <1>1 DEF Emit, HistoryOK, Worlds, stream, files, view
<1>3. /\ history \in Seq(Worlds) /\ Len(history) \in Nat \ {0}
      /\ history' \in Seq(Worlds) /\ Len(history') = Len(history) + 1
      /\ history'[Len(history')] = sessions'
      /\ \A i \in 1..Len(history) : history'[i] = history[i]
  BY <1>1, <1>2, AppendProperties, EmptySeq DEF HistoryOK
<1>4. event \in Messages
  BY <1>3 DEF Messages
<1>5. Says(event, history')
  <2>1. history'[Len(history') - 1] = sessions
    BY <1>1, <1>3 DEF HistoryOK
  <2>2. Len(history') \in 2..Len(history')
    BY <1>3
  <2>3. history'[Len(history')] = [history'[Len(history') - 1] EXCEPT ![s] = value]
    BY <1>2, <1>3, <2>1
  <2> QED  BY <2>2, <2>3 DEF Says
<1>6. event.type = "session" /\ event.moment = Len(history')
  OBVIOUS
<1> HIDE DEF event
<1>7. \A c \in Clients : ClientOK(c)' /\ queue'[c] \in Seq(Messages)
  BY <1>2, <1>4, <1>5, <1>6, Published
<1>8. HistoryOK'
  BY <1>2, <1>3, EmptySeq DEF HistoryOK
<1>9. queue' \in [Clients -> Seq(Messages)] /\ subscribed' \subseteq Clients
  BY <1>1, <1>2, <1>7 DEF Publish, ShapeOK
<1>10. ShapeOK'
  BY <1>1, <1>2, <1>9 DEF ShapeOK
<1> QED  BY <1>7, <1>8, <1>10 DEF IInv, ClientOK

LEMMA AttachKeeps ==
    ASSUME IInv, NEW f \in Files, Attach(f)
    PROVE  IInv'
<1> DEFINE event == [type |-> "attachment", file |-> f, moment |-> Len(history)]
<1>1. HistoryOK /\ ShapeOK /\ \A c \in Clients : ClientOK(c)
  BY IInvSplit
<1>2. UNCHANGED <<sessions, history, socket, wire, seen, mirror, upload>>
  BY DEF Attach, view
<1>3. HistoryOK'
  BY <1>1, <1>2 DEF HistoryOK
<1>4. CASE subscribed = {}
  <2>1. UNCHANGED <<subscribed, queue>>
    BY <1>4 DEF Attach
  <2>2. ShapeOK'
    BY <1>1, <1>2, <2>1 DEF ShapeOK
  <2>3. \A c \in Clients : ClientOK(c)'
    BY <1>1, <1>2, <2>1, Steady
  <2> QED  BY <1>3, <2>2, <2>3 DEF IInv, ClientOK
<1>5. CASE subscribed # {}
  <2>1. Publish(event)
    BY <1>5 DEF Attach
  <2>2. event \in Messages /\ sessions \in Worlds
    BY <1>1, EmptySeq DEF HistoryOK, Messages
  <2>3. Says(event, history')
    BY DEF Says
  <2>4. event.type = "attachment" /\ event.moment = Len(history')
    BY <1>2
  <2> HIDE DEF event
  <2>5. \A c \in Clients : ClientOK(c)' /\ queue'[c] \in Seq(Messages)
    BY <1>2, <2>1, <2>2, <2>3, <2>4, Published
  <2>6. queue' \in [Clients -> Seq(Messages)] /\ subscribed' \subseteq Clients
    BY <1>1, <2>1, <2>5 DEF Publish, ShapeOK
  <2>7. ShapeOK'
    BY <1>1, <1>2, <2>6 DEF ShapeOK
  <2> QED  BY <1>3, <2>5, <2>7 DEF IInv, ClientOK
<1> QED  BY <1>4, <1>5

LEMMA AcceptKeeps ==
    ASSUME IInv, NEW c \in Clients, Accept(c)
    PROVE  IInv'
<1>1. HistoryOK /\ ShapeOK /\ \A d \in Clients : ClientOK(d)
  BY IInvSplit
<1>2. /\ UNCHANGED <<sessions, history, seen, mirror, upload>>
      /\ socket' = [socket EXCEPT ![c] = "greeting"] /\ subscribed' = subscribed \cup {c}
      /\ queue' = [queue EXCEPT ![c] = <<>>] /\ wire' = [wire EXCEPT ![c] = <<Snapshot>>]
  BY DEF Accept, view
<1>3. sessions \in Worlds /\ Len(history) \in Nat \ {0}
  BY <1>1, EmptySeq DEF HistoryOK
<1>4. Snapshot \in Messages /\ Snapshot.type = "snapshot" /\ Snapshot.moment = Len(history)
      /\ Says(Snapshot, history)
  BY <1>1, <1>3 DEF Snapshot, Messages, Says, HistoryOK
<1>5. HistoryOK'
  BY <1>1, <1>2 DEF HistoryOK
<1>6. ShapeOK'
  <2>1. <<Snapshot>> \in Seq(Messages) /\ <<>> \in Seq(Messages)
    BY <1>4
  <2> QED  BY <1>1, <1>2, <2>1 DEF ShapeOK
<1>7. ASSUME NEW d \in Clients, d # c PROVE ClientOK(d)'
  <2>1. /\ wire'[d] = wire[d] /\ queue'[d] = queue[d] /\ socket'[d] = socket[d]
        /\ d \in subscribed' <=> d \in subscribed
    BY <1>1, <1>2, <1>7 DEF ShapeOK
  <2> QED  BY <1>1, <1>2, <2>1, Steady
<1>8. ClientOK(c)'
  <2>1. /\ wire'[c] = <<Snapshot>> /\ queue'[c] = <<>> /\ socket'[c] = "greeting"
        /\ c \in subscribed'
    BY <1>1, <1>2 DEF ShapeOK
  <2>2. <<Snapshot>> \o <<>> = <<Snapshot>>
    <3>1. <<Snapshot>> \in Seq(Messages)
      BY <1>4
    <3> QED  BY <3>1, ConcatEmptySeq
  <2>3. Pipe(c)' = <<Snapshot>> /\ Listens(c)' /\ Open(c)'
    BY <2>1, <2>2 DEF Pipe, Listens, Open
  <2>4. ViewOK(c)'
    BY <1>1, <1>2 DEF ClientOK, ViewOK
  <2>5. SocketOK(c)'
    BY <2>1 DEF SocketOK
  <2>6. Follows(Snapshot, seen[c])
    BY <1>1, <1>4 DEF Follows, ClientOK, ViewOK
  <2>7. seen'[c] = seen[c] /\ history' = history
    BY <1>2
  <2>8. Chain(seen[c], <<Snapshot>>) /\ EndOf(seen[c], <<Snapshot>>) = Len(history)
    BY <1>4, <2>6 DEF Chain, Before, EndOf
  <2> HIDE DEF Snapshot
  <2>9. PipeOK(c)'
    <3> DEFINE p == <<Snapshot>>
    <3>1. \A i \in 1..Len(p) : p[i].type # "closed" /\ Says(p[i], history)
      BY <1>4
    <3> HIDE DEF p
    <3>2. /\ Pipe(c)' = p /\ seen'[c] = seen[c] /\ Chain(seen[c], p)
          /\ EndOf(seen[c], p) = Len(history)
      BY <2>3, <2>7, <2>8 DEF p
    <3> QED  BY <2>7, <3>1, <3>2 DEF PipeOK
  <2> QED  BY <2>4, <2>5, <2>9 DEF ClientOK
<1> QED  BY <1>5, <1>6, <1>7, <1>8 DEF IInv, ClientOK

LEMMA GreetedKeeps ==
    ASSUME IInv, NEW c \in Clients, Greeted(c)
    PROVE  IInv'
<1>1. HistoryOK /\ ShapeOK /\ \A d \in Clients : ClientOK(d)
  BY IInvSplit
<1>2. /\ UNCHANGED <<sessions, history, seen, mirror, upload, subscribed, queue, wire>>
      /\ socket[c] = "greeting" /\ socket' = [socket EXCEPT ![c] = "open"]
  BY DEF Greeted, view, files
<1>3. HistoryOK'
  BY <1>1, <1>2 DEF HistoryOK
<1>4. ShapeOK'
  BY <1>1, <1>2 DEF ShapeOK
<1>5. ASSUME NEW d \in Clients, d # c PROVE ClientOK(d)'
  <2>1. socket'[d] = socket[d]
    BY <1>1, <1>2, <1>5 DEF ShapeOK
  <2> QED  BY <1>1, <1>2, <2>1, Steady
<1>6. ClientOK(c)'
  <2>1. socket'[c] = "open"
    BY <1>1, <1>2 DEF ShapeOK
  <2>2. Open(c) /\ Open(c)' /\ (Listens(c)' <=> Listens(c)) /\ Pipe(c)' = Pipe(c)
    BY <1>2, <2>1 DEF Open, Listens, Pipe
  <2>3. ViewOK(c)'
    BY <1>1, <1>2 DEF ClientOK, ViewOK
  <2>4. PipeOK(c)'
    BY <1>1, <1>2, <2>2 DEF ClientOK, PipeOK
  <2>5. SocketOK(c)'
    BY <1>1, <1>2, <2>1, <2>2 DEF ClientOK, SocketOK
  <2> QED  BY <2>3, <2>4, <2>5 DEF ClientOK
<1> QED  BY <1>3, <1>4, <1>5, <1>6 DEF IInv, ClientOK

\* A client whose pipe ends where its wire does: nothing of its queue counts.
LEMMA WireAlone ==
    ASSUME NEW c \in Clients, ClientOK(c), ~Listens(c), ~Listens(c)', history' = history,
           wire'[c] = wire[c], seen'[c] = seen[c], mirror'[c] = mirror[c],
           socket[c] = "closing" => socket'[c] = "closing"
    PROVE  ViewOK(c)' /\ PipeOK(c)'
<1>1. Pipe(c)' = Pipe(c)
  BY DEF Pipe
<1> QED  BY <1>1 DEF ClientOK, ViewOK, PipeOK

LEMMA SendKeeps ==
    ASSUME IInv, NEW c \in Clients, Send(c)
    PROVE  IInv'
<1>1. HistoryOK /\ ShapeOK /\ \A d \in Clients : ClientOK(d)
  BY IInvSplit
<1>2. /\ UNCHANGED <<sessions, history, seen, mirror, upload, subscribed>>
      /\ socket[c] \in {"open", "lost"} /\ queue[c] # <<>>
      /\ queue' = [queue EXCEPT ![c] = Tail(@)]
      /\ socket[c] = "lost" => UNCHANGED wire
      /\ socket[c] # "lost" => wire' = [wire EXCEPT ![c] = Append(@, Head(queue[c]))]
      /\ socket' = [socket EXCEPT ![c] = IF Head(queue[c]) = CLOSED THEN "closing" ELSE @]
  BY DEF Send, view, files
<1>3. /\ wire[c] \in Seq(Messages) /\ queue[c] \in Seq(Messages) /\ seen[c] \in Nat
      /\ Head(queue[c]) \in Messages /\ Tail(queue[c]) \in Seq(Messages)
  BY <1>1, <1>2, PipeIsASeq, HeadTailProperties
<1>4. Append(wire[c], Head(queue[c])) \in Seq(Messages)
  BY <1>3, AppendProperties
<1>5. HistoryOK'
  BY <1>1, <1>2 DEF HistoryOK
<1>6. ShapeOK'
  <2>1. queue' \in [Clients -> Seq(Messages)] /\ wire' \in [Clients -> Seq(Messages)]
    BY <1>1, <1>2, <1>3, <1>4 DEF ShapeOK
  <2> QED  BY <1>1, <1>2, <2>1 DEF ShapeOK
<1>7. ASSUME NEW d \in Clients, d # c PROVE ClientOK(d)'
  <2>1. wire'[d] = wire[d] /\ queue'[d] = queue[d] /\ socket'[d] = socket[d]
    BY <1>1, <1>2, <1>7 DEF ShapeOK
  <2> QED  BY <1>1, <1>2, <2>1, Steady
<1>8. ClientOK(c)'
  <2>1. CASE socket[c] = "lost"
    <3>1. socket'[c] \in {"lost", "closing"} /\ wire'[c] = wire[c] /\ wire[c] = <<>>
      BY <1>1, <1>2, <2>1 DEF ShapeOK, ClientOK, SocketOK
    <3>2. ~Listens(c) /\ ~Listens(c)' /\ ~Open(c)'
      BY <2>1, <3>1 DEF Listens, Open
    <3>3. ViewOK(c)' /\ PipeOK(c)'
      BY <1>1, <1>2, <2>1, <3>1, <3>2, WireAlone
    <3>4. SocketOK(c)'
      BY <3>1, <3>2 DEF SocketOK
    <3> QED  BY <3>3, <3>4 DEF ClientOK
  <2>2. CASE socket[c] = "open" /\ c \in subscribed
    <3>1. Listens(c) /\ Pipe(c) = wire[c] \o queue[c]
      BY <2>2 DEF Listens, Open, Pipe
    <3>2. Head(queue[c]) # CLOSED
      <4>1. PICK i \in 1..Len(wire[c] \o queue[c]) : (wire[c] \o queue[c])[i] = Head(queue[c])
        BY ONLY <1>2, <1>3, PipeMiddle
      <4>2. \A j \in 1..Len(Pipe(c)) : Pipe(c)[j].type # "closed"
        BY <1>1, <2>2 DEF ClientOK, PipeOK
      <4>3. Head(queue[c]).type # "closed"
        BY <3>1, <4>1, <4>2
      <4> QED  BY <4>3, ClosedIsAMessage
    <3>3. /\ socket'[c] = "open" /\ wire'[c] = Append(wire[c], Head(queue[c]))
          /\ queue'[c] = Tail(queue[c])
      BY <1>1, <1>2, <2>2, <3>2 DEF ShapeOK
    <3>4. Listens(c)' /\ Open(c)' /\ c \in subscribed'
      BY <1>2, <2>2, <3>3 DEF Listens, Open
    <3>5. Pipe(c)' = Pipe(c)
      <4>1. Append(wire[c], Head(queue[c])) \o Tail(queue[c]) = wire[c] \o queue[c]
        BY ONLY <1>2, <1>3, PipeSend
      <4>2. Pipe(c)' = wire'[c] \o queue'[c]
        BY <3>4 DEF Pipe
      <4> QED  BY <3>1, <3>3, <4>1, <4>2
    <3>6. ViewOK(c)'
      BY <1>1, <1>2 DEF ClientOK, ViewOK
    <3>7. PipeOK(c)'
      BY <1>1, <1>2, <2>2, <3>1, <3>3, <3>4, <3>5 DEF ClientOK, PipeOK
    <3>8. SocketOK(c)'
      BY <3>3, <3>4 DEF SocketOK
    <3> QED  BY <3>6, <3>7, <3>8 DEF ClientOK
  <2>3. CASE socket[c] = "open" /\ c \notin subscribed
    <3>1. Head(queue[c]) = CLOSED
      BY <1>1, <2>3 DEF ClientOK, SocketOK, Open
    <3>2. socket'[c] = "closing" /\ wire'[c] = Append(wire[c], CLOSED)
      BY <1>1, <1>2, <2>3, <3>1 DEF ShapeOK
    <3>3. Pipe(c) = wire[c] /\ Pipe(c)' = Append(wire[c], CLOSED) /\ ~Listens(c)' /\ ~Open(c)'
      BY <2>3, <3>2 DEF Pipe, Listens, Open
    <3>4. ViewOK(c)'
      BY <1>1, <1>2 DEF ClientOK, ViewOK
    <3>5. PipeOK(c)'
      <4>1. PICK w \in Seq(Messages), p \in Seq(Messages) :
                 w = wire[c] /\ p = Append(w, CLOSED)
        BY <1>3, ClosedIsAMessage, AppendProperties
      <4>2. /\ Len(w) \in Nat /\ Len(p) = Len(w) + 1 /\ p[Len(w) + 1] = CLOSED
            /\ \A i \in 1..Len(w) : p[i] = w[i]
        BY <4>1, ClosedIsAMessage, AppendProperties, LenProperties
      <4>3. /\ Chain(seen[c], w) /\ \A i \in 1..Len(w) : Says(w[i], history)
            /\ \A i \in 1..Len(w) : w[i].type # "closed"
        BY <1>1, <2>3, <3>3, <4>1 DEF ClientOK, PipeOK
      <4>4. Chain(seen[c], p)
        <5>1. Follows(CLOSED, EndOf(seen[c], w))
          BY ClosedIsAMessage DEF Follows
        <5> QED  BY <1>3, <4>1, <4>3, <5>1, ClosedIsAMessage, ChainAppend
      <4>5. \A i \in 1..Len(p) : i \in 1..Len(w) \/ i = Len(w) + 1
        BY <4>2
      <4>6. Says(CLOSED, history)
        BY ClosedIsAMessage DEF Says
      <4>7. \A i \in 1..Len(p) : Says(p[i], history) /\ (p[i].type = "closed" => i = Len(p))
        BY <4>2, <4>3, <4>5, <4>6
      <4>8. Pipe(c)' = p /\ seen'[c] = seen[c] /\ history' = history
        BY <1>2, <3>3, <4>1
      <4> QED  BY <3>2, <3>3, <4>4, <4>7, <4>8 DEF PipeOK
    <3>6. SocketOK(c)'
      BY <3>2, <3>3 DEF SocketOK
    <3> QED  BY <3>4, <3>5, <3>6 DEF ClientOK
  <2> QED  BY <1>2, <2>1, <2>2, <2>3
<1> QED  BY <1>5, <1>6, <1>7, <1>8 DEF IInv, ClientOK

LEMMA RefuseKeeps ==
    ASSUME IInv, NEW c \in Clients, Refuse(c)
    PROVE  IInv'
<1>1. HistoryOK /\ ShapeOK /\ \A d \in Clients : ClientOK(d)
  BY IInvSplit
<1>2. /\ UNCHANGED <<sessions, history, seen, mirror, upload, subscribed, socket, wire>>
      /\ socket[c] \in {"open", "closing"}
      /\ queue' = [queue EXCEPT ![c] = IF Behind(c) THEN @ ELSE Append(@, Refusal)]
  BY DEF Refuse, view, files
<1>3. /\ wire[c] \in Seq(Messages) /\ queue[c] \in Seq(Messages) /\ seen[c] \in Nat
      /\ Pipe(c) \in Seq(Messages)
  BY <1>1, PipeIsASeq
<1>4. Len(history) \in Nat \ {0} /\ Refusal \in Messages /\ Says(Refusal, history)
      /\ Refusal.type = "action_error" /\ Refusal.moment = Len(history)
  BY <1>1, EmptySeq DEF HistoryOK, Refusal, Messages, Says
<1>5. HistoryOK'
  BY <1>1, <1>2 DEF HistoryOK
<1>6. ShapeOK'
  <2>1. Append(queue[c], Refusal) \in Seq(Messages)
    BY <1>3, <1>4, AppendProperties
  <2> QED  BY <1>1, <1>2, <2>1 DEF ShapeOK
<1> HIDE DEF Refusal
<1>7. ASSUME NEW d \in Clients, d # c PROVE ClientOK(d)'
  <2>1. queue'[d] = queue[d]
    BY <1>1, <1>2, <1>7 DEF ShapeOK
  <2> QED  BY <1>1, <1>2, <2>1, Steady
<1>8. ClientOK(c)'
  <2>1. CASE Behind(c)
    <3>1. queue'[c] = queue[c]
      BY <1>1, <1>2, <2>1 DEF ShapeOK
    <3> QED  BY <1>1, <1>2, <3>1, Steady
  <2>2. CASE ~Behind(c) /\ ~Listens(c)
    <3>1. queue'[c] = Append(queue[c], Refusal) /\ ~Listens(c)'
      BY <1>1, <1>2, <2>2 DEF ShapeOK, Listens, Open
    <3>2. ViewOK(c)' /\ PipeOK(c)'
      BY <1>1, <1>2, <2>2, <3>1, WireAlone
    <3>3. queue[c] # <<>> => queue'[c] # <<>> /\ Head(queue'[c]) = Head(queue[c])
      <4>1. \A q \in Seq(Messages) : q # <<>> =>
               Append(q, Refusal) # <<>> /\ Head(Append(q, Refusal)) = Head(q)
        BY <1>4, AppendProperties, LenProperties, EmptySeq
      <4> QED  BY <1>3, <3>1, <4>1
    <3>4. SocketOK(c)'
      BY <1>1, <1>2, <3>3 DEF ClientOK, SocketOK, Open
    <3> QED  BY <3>2, <3>4 DEF ClientOK
  <2>3. CASE ~Behind(c) /\ Listens(c)
    <3>1. queue'[c] = Append(queue[c], Refusal) /\ Listens(c)' /\ socket[c] = "open"
      BY <1>1, <1>2, <2>3 DEF ShapeOK, Listens, Open
    <3>2. Pipe(c)' = Append(Pipe(c), Refusal)
      <4>1. wire[c] \o Append(queue[c], Refusal) = Append(wire[c] \o queue[c], Refusal)
        BY ONLY <1>3, <1>4, PipeAppend
      <4>2. Pipe(c)' = wire[c] \o queue'[c] /\ Pipe(c) = wire[c] \o queue[c]
        BY <1>2, <2>3, <3>1 DEF Pipe
      <4> QED  BY <3>1, <4>1, <4>2
    <3>3. PICK p \in Seq(Messages), q \in Seq(Messages) : p = Pipe(c) /\ q = Append(p, Refusal)
      BY <1>3, <1>4, AppendProperties
    <3>4. /\ Chain(seen[c], p) /\ EndOf(seen[c], p) = Len(history)
          /\ \A i \in 1..Len(p) : Says(p[i], history) /\ p[i].type # "closed"
      BY <1>1, <2>3, <3>1, <3>3 DEF ClientOK, PipeOK
    <3>5. Chain(seen[c], q) /\ EndOf(seen[c], q) = Len(history)
      <4>1. Follows(Refusal, Len(history))
        BY <1>4 DEF Follows
      <4> QED  BY <1>3, <1>4, <3>3, <3>4, <4>1, ChainAppend
    <3>6. /\ Len(p) \in Nat /\ Len(q) = Len(p) + 1 /\ q[Len(p) + 1] = Refusal
          /\ \A i \in 1..Len(p) : q[i] = p[i]
      BY <1>4, <3>3, AppendProperties, LenProperties
    <3>7. \A i \in 1..Len(q) : i \in 1..Len(p) \/ i = Len(p) + 1
      BY <3>6
    <3>8. \A i \in 1..Len(q) : Says(q[i], history) /\ q[i].type # "closed"
      BY <1>4, <3>4, <3>6, <3>7
    <3>9. Pipe(c)' = q
      BY <3>2, <3>3
    <3>10. PipeOK(c)'
      BY <1>2, <3>5, <3>8, <3>9 DEF PipeOK
    <3>11. ViewOK(c)' /\ SocketOK(c)'
      BY <1>1, <1>2, <2>3 DEF ClientOK, ViewOK, SocketOK, Listens
    <3> QED  BY <3>10, <3>11 DEF ClientOK
  <2> QED  BY <2>1, <2>2, <2>3
<1> QED  BY <1>5, <1>6, <1>7, <1>8 DEF IInv, ClientOK

\* A client that loses its connection, or leaves, has nothing more to read.
LEMMA EmptyPipe ==
    ASSUME NEW c \in Clients, ClientOK(c), history' = history,
           seen'[c] = seen[c], mirror'[c] = mirror[c],
           wire'[c] = <<>>, socket'[c] \in {"off", "lost"}
    PROVE  ClientOK(c)'
<1>1. ~Open(c)' /\ ~Listens(c)' /\ Pipe(c)' = <<>>
  BY DEF Open, Listens, Pipe
<1>2. PipeOK(c)'
  BY <1>1 DEF PipeOK, Chain
<1>3. ViewOK(c)' /\ SocketOK(c)'
  BY <1>1 DEF ClientOK, ViewOK, SocketOK
<1> QED  BY <1>2, <1>3 DEF ClientOK

LEMMA LoseKeeps ==
    ASSUME IInv, NEW c \in Clients, Lose(c)
    PROVE  IInv'
<1>1. HistoryOK /\ ShapeOK /\ \A d \in Clients : ClientOK(d)
  BY IInvSplit
<1>2. /\ UNCHANGED <<sessions, history, seen, mirror, upload, subscribed, queue>>
      /\ socket' = [socket EXCEPT ![c] = "lost"] /\ wire' = [wire EXCEPT ![c] = <<>>]
  BY DEF Lose, view
<1>3. HistoryOK' /\ ShapeOK'
  BY <1>1, <1>2, EmptySeq DEF HistoryOK, ShapeOK
<1>4. ASSUME NEW d \in Clients PROVE ClientOK(d)'
  <2>1. CASE d = c
    BY <1>1, <1>2, <2>1, EmptyPipe DEF ShapeOK
  <2>2. CASE d # c
    <3>1. wire'[d] = wire[d] /\ socket'[d] = socket[d]
      BY <1>1, <1>2, <2>2 DEF ShapeOK
    <3> QED  BY <1>1, <1>2, <3>1, Steady
  <2> QED  BY <2>1, <2>2
<1> QED  BY <1>3, <1>4 DEF IInv, ClientOK

LEMMA DisconnectedKeeps ==
    ASSUME IInv, NEW c \in Clients, Disconnected(c)
    PROVE  IInv'
<1>1. HistoryOK /\ ShapeOK /\ \A d \in Clients : ClientOK(d)
  BY IInvSplit
<1>2. /\ UNCHANGED <<sessions, history, seen, mirror, upload, wire>> /\ wire[c] = <<>>
      /\ socket' = [socket EXCEPT ![c] = "off"]
      /\ subscribed' = subscribed \ {c} /\ queue' = [queue EXCEPT ![c] = <<>>]
  BY DEF Disconnected, view, files
<1>3. HistoryOK' /\ ShapeOK'
  BY <1>1, <1>2, EmptySeq DEF HistoryOK, ShapeOK
<1>4. ASSUME NEW d \in Clients PROVE ClientOK(d)'
  <2>1. CASE d = c
    BY <1>1, <1>2, <2>1, EmptyPipe DEF ShapeOK
  <2>2. CASE d # c
    <3>1. queue'[d] = queue[d] /\ socket'[d] = socket[d] /\ (d \in subscribed' <=> d \in subscribed)
      BY <1>1, <1>2, <2>2 DEF ShapeOK
    <3> QED  BY <1>1, <1>2, <3>1, Steady
  <2> QED  BY <2>1, <2>2
<1> QED  BY <1>3, <1>4 DEF IInv, ClientOK

\* Uploads and answers are another matter.
LEMMA AsideKeeps ==
    ASSUME IInv, UNCHANGED <<sessions, history, stream, view>>,
           upload' \in [Clients -> Files \cup {None}]
    PROVE  IInv'
<1>1. HistoryOK /\ ShapeOK /\ \A d \in Clients : ClientOK(d)
  BY IInvSplit
<1>2. UNCHANGED <<sessions, history, seen, mirror, subscribed, queue, socket, wire>>
  BY DEF stream, view
<1>3. HistoryOK' /\ ShapeOK'
  BY <1>1, <1>2 DEF HistoryOK, ShapeOK
<1>4. \A d \in Clients : ClientOK(d)'
  BY <1>1, <1>2, Steady
<1> QED  BY <1>3, <1>4 DEF IInv, ClientOK

\* The first message of a wire, for a client that has seen what it has: it says
\* nothing of the sessions, or it says what they were at the next moment that counts.
LEMMA FirstMessage ==
    ASSUME IInv, NEW c \in Clients, wire[c] # <<>>, NEW m, m = Head(wire[c])
    PROVE  /\ m \in Messages /\ Says(m, history) /\ Follows(m, seen[c])
           /\ Pipe(c) \in Seq(Messages) /\ Pipe(c) # <<>> /\ Pipe(c)[1] = m
<1>1. ShapeOK /\ PipeOK(c) /\ wire[c] \in Seq(Messages) /\ queue[c] \in Seq(Messages)
      /\ Pipe(c) \in Seq(Messages)
  BY PipeIsASeq DEF IInv
<1>2. Pipe(c) # <<>> /\ Pipe(c)[1] = Head(wire[c])
  <2>1. wire[c] \o queue[c] # <<>> /\ (wire[c] \o queue[c])[1] = Head(wire[c])
    BY ONLY wire[c] # <<>>, <1>1, PipeRead
  <2>2. Head(wire[c]) = wire[c][1]
    OBVIOUS
  <2> QED  BY <2>1, <2>2 DEF Pipe
<1>3. PICK p \in Seq(Messages) : p = Pipe(c)
  BY <1>1
<1>4. 1 \in 1..Len(p) /\ p[1] \in Messages
  BY <1>2, <1>3, EmptySeq, LenProperties, ElementOfSeq
<1>5. Says(p[1], history) /\ Follows(p[1], Before(seen[c], p, 1))
  BY <1>1, <1>3, <1>4 DEF PipeOK, Chain
<1>6. Before(seen[c], p, 1) = seen[c]
  BY DEF Before
<1> QED  BY <1>1, <1>2, <1>3, <1>4, <1>5, <1>6

\* To read is to look at a moment that is no earlier, or to see nothing.
LEMMA ReadLooks ==
    ASSUME IInv, NEW c \in Clients, Read(c)
    PROVE  \/ UNCHANGED <<mirror, seen>>
           \/ \E n \in seen[c]..Len(history) :
                 /\ n > 0
                 /\ seen' = [seen EXCEPT ![c] = n]
                 /\ mirror' = [mirror EXCEPT ![c] = history[n]]
<1> DEFINE m == Head(wire[c])
<1>1. /\ wire[c] # <<>>
      /\ mirror' = [mirror EXCEPT ![c] =
            CASE m.type = "snapshot" -> m.sessions
              [] m.type = "session" -> [@ EXCEPT ![m.session] = m.state]
              [] OTHER -> @]
      /\ seen' = [seen EXCEPT ![c] = IF m.type = "closed" THEN @ ELSE m.moment]
  BY DEF Read
<1>2. m \in Messages /\ Says(m, history) /\ Follows(m, seen[c])
  BY <1>1, FirstMessage
<1>3. /\ seen \in [Clients -> Nat] /\ mirror \in [Clients -> Worlds \cup {None}]
      /\ ViewOK(c) /\ Len(history) \in Nat
  BY EmptySeq DEF IInv, ShapeOK, HistoryOK
<1> HIDE DEF m
<1>4. CASE m.type = "snapshot"
  <2>1. m.moment \in seen[c]..Len(history) /\ m.moment > 0 /\ m.sessions = history[m.moment]
    BY <1>2, <1>3, <1>4 DEF Says, Follows
  <2>2. seen' = [seen EXCEPT ![c] = m.moment] /\ mirror' = [mirror EXCEPT ![c] = history[m.moment]]
    BY <1>1, <1>4, <2>1
  <2> QED  BY <2>1, <2>2
<1>5. CASE m.type = "session"
  <2>1. /\ seen[c] > 0 /\ m.moment = seen[c] + 1 /\ m.moment \in 2..Len(history)
        /\ history[m.moment] = [history[m.moment - 1] EXCEPT ![m.session] = m.state]
    BY <1>2, <1>5 DEF Says, Follows
  <2>2. m.moment \in seen[c]..Len(history) /\ m.moment > 0 /\ m.moment - 1 = seen[c]
    BY <1>3, <2>1
  <2>3. mirror[c] = history[seen[c]]
    BY <1>3, <2>1 DEF ViewOK
  <2>4. [mirror[c] EXCEPT ![m.session] = m.state] = history[m.moment]
    BY <2>1, <2>2, <2>3
  <2>5. seen' = [seen EXCEPT ![c] = m.moment] /\ mirror' = [mirror EXCEPT ![c] = history[m.moment]]
    BY <1>1, <1>5, <2>4
  <2> QED  BY <2>2, <2>5
<1>6. CASE m.type \notin {"snapshot", "session"}
  <2>1. m.type = "closed" \/ m.moment = seen[c]
    BY <1>2, <1>6 DEF Follows
  <2>2. seen' = [seen EXCEPT ![c] = seen[c]] /\ mirror' = [mirror EXCEPT ![c] = mirror[c]]
    BY <1>1, <1>6, <2>1
  <2> QED  BY <1>3, <2>2
<1> QED  BY <1>4, <1>5, <1>6

LEMMA ReadKeeps ==
    ASSUME IInv, NEW c \in Clients, Read(c)
    PROVE  IInv'
<1> DEFINE m == Head(wire[c])
<1>1. HistoryOK /\ ShapeOK /\ \A d \in Clients : ClientOK(d)
  BY IInvSplit
<1>2. /\ UNCHANGED <<sessions, history, subscribed, queue, socket>> /\ wire[c] # <<>>
      /\ wire' = [wire EXCEPT ![c] = Tail(@)]
      /\ seen' = [seen EXCEPT ![c] = IF m.type = "closed" THEN @ ELSE m.moment]
      /\ upload' = [upload EXCEPT ![c] = IF m.type = "attachment" THEN m.file ELSE @]
      /\ \E x : mirror' = [mirror EXCEPT ![c] = x]
  BY DEF Read
<1>3. /\ m \in Messages /\ Follows(m, seen[c])
      /\ Pipe(c) \in Seq(Messages) /\ Pipe(c) # <<>> /\ Pipe(c)[1] = m
  BY <1>2, FirstMessage
<1>4. /\ wire[c] \in Seq(Messages) /\ queue[c] \in Seq(Messages)
      /\ Tail(wire[c]) \in Seq(Messages) /\ seen[c] \in Nat
  BY <1>1, <1>2, PipeIsASeq, HeadTailProperties
<1>5. m.type # "closed" => m.moment \in Nat
  BY <1>3 DEF Messages
<1>6. m.type = "attachment" => m.file \in Files
  BY <1>3 DEF Messages
<1> HIDE DEF m
<1>7. \/ UNCHANGED <<mirror, seen>>
      \/ \E n \in seen[c]..Len(history) :
            /\ n > 0
            /\ seen' = [seen EXCEPT ![c] = n]
            /\ mirror' = [mirror EXCEPT ![c] = history[n]]
  BY ReadLooks
<1>8. mirror' \in [Clients -> Worlds \cup {None}]
  <2>1. CASE UNCHANGED <<mirror, seen>>
    BY <1>1, <2>1 DEF ShapeOK
  <2>2. ASSUME NEW n \in seen[c]..Len(history), n > 0, mirror' = [mirror EXCEPT ![c] = history[n]]
        PROVE  mirror' \in [Clients -> Worlds \cup {None}]
    <3>1. history[n] \in Worlds
      <4>1. history \in Seq(Worlds) /\ n \in 1..Len(history)
        BY <1>1, <1>4, <2>2, LenProperties DEF HistoryOK
      <4> QED  BY <4>1, ElementOfSeq
    <3> QED  BY <1>1, <2>2, <3>1 DEF ShapeOK
  <2> QED  BY <1>7, <2>1, <2>2
<1>9. HistoryOK' /\ ShapeOK'
  BY <1>1, <1>2, <1>4, <1>5, <1>6, <1>8 DEF HistoryOK, ShapeOK
<1>10. ASSUME NEW d \in Clients, d # c PROVE ClientOK(d)'
  <2>1. wire'[d] = wire[d] /\ seen'[d] = seen[d] /\ mirror'[d] = mirror[d]
    BY <1>1, <1>2, <1>10 DEF ShapeOK
  <2> QED  BY <1>1, <1>2, <2>1, Steady
<1>11. ViewOK(c)'
  <2>1. CASE UNCHANGED <<mirror, seen>>
    BY <1>1, <1>2, <2>1 DEF ClientOK, ViewOK
  <2>2. ASSUME NEW n \in seen[c]..Len(history), n > 0, seen' = [seen EXCEPT ![c] = n],
               mirror' = [mirror EXCEPT ![c] = history[n]]
        PROVE  ViewOK(c)'
    <3>1. seen'[c] = n /\ mirror'[c] = history[n] /\ n <= Len(history)
      BY <1>1, <1>4, <2>2 DEF ShapeOK
    <3> QED  BY <1>2, <3>1 DEF ViewOK
  <2> QED  BY <1>7, <2>1, <2>2
<1>12. Pipe(c)' = Tail(Pipe(c)) /\ (Listens(c)' <=> Listens(c)) /\ (Open(c)' <=> Open(c))
  <2>1. Tail(wire[c]) \o queue[c] = Tail(wire[c] \o queue[c])
    BY ONLY <1>2, <1>4, PipeRead
  <2>2. wire'[c] = Tail(wire[c]) /\ queue'[c] = queue[c]
    BY <1>1, <1>2 DEF ShapeOK
  <2>3. (Listens(c)' <=> Listens(c)) /\ (Open(c)' <=> Open(c))
    BY <1>2 DEF Listens, Open
  <2> QED  BY <2>1, <2>2, <2>3 DEF Pipe
<1>13. SocketOK(c)'
  BY <1>1, <1>2, <1>12 DEF ClientOK, SocketOK
<1>14. PipeOK(c)'
  <2>1. PICK p \in Seq(Messages), t \in Seq(Messages) : p = Pipe(c) /\ t = Tail(p)
    BY <1>3, HeadTailProperties
  <2>2. /\ Len(p) \in Nat \ {0} /\ Len(t) = Len(p) - 1
        /\ \A i \in 1..Len(t) : i + 1 \in 1..Len(p) /\ t[i] = p[i + 1]
    <3>1. Len(p) \in Nat \ {0} /\ Len(t) = Len(p) - 1 /\ \A i \in 1..Len(t) : t[i] = p[i + 1]
      BY <1>3, <2>1, HeadTailProperties, EmptySeq
    <3> QED  BY <3>1
  <2>3. /\ Chain(seen[c], p) /\ \A i \in 1..Len(p) : Says(p[i], history)
        /\ \A i \in 1..Len(p) : p[i].type = "closed" => i = Len(p) /\ socket[c] = "closing"
        /\ Listens(c) => EndOf(seen[c], p) = Len(history)
    BY <1>1, <2>1 DEF ClientOK, PipeOK
  <2>4. /\ \A i \in 1..Len(t) : Says(t[i], history)
        /\ \A i \in 1..Len(t) : t[i].type = "closed" => i = Len(t) /\ socket[c] = "closing"
    BY SMTT(30), <2>2, <2>3
  <2>5. Pipe(c)' = t /\ p[1] = m /\ p # <<>>
    BY <1>3, <1>12, <2>1
  <2>6. Chain(m.moment, t) /\ EndOf(m.moment, t) = EndOf(seen[c], p)
    BY <1>4, <2>1, <2>3, <2>5, ChainTail
  <2>7. CASE m.type # "closed"
    <3>1. seen'[c] = m.moment
      BY <1>1, <1>2, <2>7 DEF ShapeOK
    <3> QED  BY <1>2, <1>12, <2>3, <2>4, <2>5, <2>6, <3>1 DEF PipeOK
  <2>8. CASE m.type = "closed"
    <3>1. Len(p) = 1 /\ socket[c] = "closing"
      BY <2>2, <2>3, <2>5, <2>8
    <3>2. Len(t) = 0
      BY <2>2, <3>1
    <3>3. ~Listens(c)
      BY <3>1 DEF Listens, Open
    <3> QED  BY <1>2, <1>12, <2>4, <2>5, <3>2, <3>3 DEF PipeOK, Chain
  <2> QED  BY <2>7, <2>8
<1> QED  BY <1>9, <1>10, <1>11, <1>13, <1>14 DEF IInv, ClientOK

-----------------------------------------------------------------------------
(***************************************************************************)
(* The theorems.                                                           *)
(***************************************************************************)
LEMMA StepKeeps == IInv /\ [Next]_vars => IInv'
<1> SUFFICES ASSUME IInv, [Next]_vars PROVE IInv'
  OBVIOUS
<1>1. upload \in [Clients -> Files \cup {None}]
  BY DEF IInv, ShapeOK
<1>2. ASSUME NEW s \in Sessions, NEW value \in States \cup {None}, Emit(s, value) PROVE IInv'
  BY <1>2, EmitKeeps
<1>3. ASSUME NEW c \in Clients, Accept(c) PROVE IInv'
  BY <1>3, AcceptKeeps
<1>4. ASSUME NEW c \in Clients, Greeted(c) PROVE IInv'
  BY <1>4, GreetedKeeps
<1>5. ASSUME NEW c \in Clients, Send(c) PROVE IInv'
  BY <1>5, SendKeeps
<1>6. ASSUME NEW c \in Clients, Refuse(c) PROVE IInv'
  BY <1>6, RefuseKeeps
<1>7. ASSUME NEW c \in Clients, Lose(c) PROVE IInv'
  BY <1>7, LoseKeeps
<1>8. ASSUME NEW c \in Clients, Disconnected(c) PROVE IInv'
  BY <1>8, DisconnectedKeeps
<1>9. ASSUME NEW c \in Clients, Read(c) PROVE IInv'
  BY <1>9, ReadKeeps
<1>10. ASSUME NEW c \in Clients, Upload(c) PROVE IInv'
  <2>1. UNCHANGED <<sessions, history, stream, view>> /\ upload' = [upload EXCEPT ![c] = None]
    BY <1>10 DEF Upload
  <2> QED  BY <1>1, <2>1, AsideKeeps
<1>11. ASSUME NEW c \in Clients, Resolve(c) PROVE IInv'
  BY <1>1, <1>11, AsideKeeps DEF Resolve
<1>12. ASSUME NEW f \in Files, Attach(f) PROVE IInv'
  BY <1>12, AttachKeeps
<1>13. ASSUME NEW f \in Files, TimeOut(f) PROVE IInv'
  BY <1>1, <1>13, AsideKeeps DEF TimeOut
<1>14. CASE UNCHANGED vars
  BY <1>1, <1>14, AsideKeeps DEF vars, files
<1> QED  BY <1>2, <1>3, <1>4, <1>5, <1>6, <1>7, <1>8, <1>9, <1>10, <1>11, <1>12, <1>13,
            <1>14 DEF Next

\* A step of the stream is a step of what it promises: an event is a change, a message
\* that is read is a look, and the rest is nobody's concern.
LEMMA StepReflects ==
    ASSUME IInv, [Next]_vars
    PROVE  [Reflection!Next]_(Reflection!vars)
<1> USE DEF Reflection!vars
<1>1. history \in Seq(Worlds) /\ Len(history) \in Nat \ {0}
  BY EmptySeq DEF IInv, HistoryOK
<1>2. ASSUME NEW s \in Sessions, NEW value \in States \cup {None}, Emit(s, value)
      PROVE  Reflection!Change
  <2>1. PICK h \in Seq(Worlds), w \in Worlds, g \in Seq(Worlds) :
           h = history /\ g = history' /\ g = Append(h, w)
    BY <1>1, <1>2, AppendProperties DEF Emit, IInv, HistoryOK, Worlds
  <2>2. /\ Len(h) \in Nat /\ Len(g) = Len(h) + 1
        /\ \A i \in 1..Len(h) : g[i] = h[i] /\ h[i] \in Worlds
    BY <2>1, AppendProperties, LenProperties, ElementOfSeq
  <2>3. SubSeq(g, 1, Len(h)) = h
    <3>1. \A i \in 1..Len(h) : g[i] \in Worlds
      BY <2>2
    <3>2. /\ SubSeq(g, 1, Len(h)) \in Seq(Worlds)
          /\ Len(SubSeq(g, 1, Len(h))) = Len(h)
          /\ \A i \in 1..Len(h) : SubSeq(g, 1, Len(h))[i] = g[i]
      BY <2>2, <3>1, SubSeqProperties
    <3> QED  BY <2>1, <2>2, <3>2, SeqEqual
  <2>4. UNCHANGED <<mirror, seen>>
    BY <1>2 DEF Emit, view
  <2> QED  BY <2>1, <2>2, <2>3, <2>4 DEF Reflection!Change
<1>3. ASSUME NEW c \in Clients, Read(c)
      PROVE  Reflection!Look(c) \/ UNCHANGED <<history, mirror, seen>>
  <2>1. history' = history
    BY <1>3 DEF Read
  <2>2. \/ UNCHANGED <<mirror, seen>>
        \/ \E n \in seen[c]..Len(history) :
              /\ n > 0
              /\ seen' = [seen EXCEPT ![c] = n]
              /\ mirror' = [mirror EXCEPT ![c] = history[n]]
    BY <1>3, ReadLooks
  <2> QED  BY <2>1, <2>2 DEF Reflection!Look
<1>4. ASSUME NEW c \in Clients,
             Accept(c) \/ Greeted(c) \/ Send(c) \/ Refuse(c) \/ Lose(c)
                \/ Disconnected(c) \/ Upload(c) \/ Resolve(c)
      PROVE  UNCHANGED <<history, mirror, seen>>
  BY <1>4 DEF Accept, Greeted, Send, Refuse, Lose, Disconnected, Upload, Resolve, view
<1>5. ASSUME NEW f \in Files, Attach(f) \/ TimeOut(f)
      PROVE  UNCHANGED <<history, mirror, seen>>
  BY <1>5 DEF Attach, TimeOut, view
<1>6. CASE UNCHANGED vars
  BY <1>6 DEF vars, view
<1> QED  BY <1>2, <1>3, <1>4, <1>5, <1>6 DEF Next, Reflection!Next

\* Every client's view is a pure reflection of the engine's state (engine/events.py
\* 1-14): what it shows is the sessions at one moment, and moments never go back.
THEOREM Reflects == Spec => PureReflection
<1>1. Init => Reflection!Init
  <2>1. Len(<<sessions>>) = 1
    OBVIOUS
  <2> QED  BY <2>1 DEF Init, Reflection!Init
<1>2. IInv /\ [Next]_vars => [Reflection!Next]_(Reflection!vars)
  BY StepReflects
<1>3. Spec => []IInv
  BY Starts, StepKeeps, PTL DEF Spec
<1> QED  BY <1>1, <1>2, <1>3, PTL DEF Spec, PureReflection, Reflection!Spec

-----------------------------------------------------------------------------
(***************************************************************************)
(* The bounds.                                                             *)
(***************************************************************************)
Bounded == \A c \in Clients : Len(queue[c]) <= Bound /\ Len(wire[c]) <= Window

Answers == [file : Files, ok : BOOLEAN]
AskedOK ==
    /\ asked \in [Files -> {"no", "waiting", "delivered", "failed", "timed out"}]
    /\ arrived \subseteq Files /\ answers \in [Clients -> Seq(Answers)]

\* An answer that says yes is of a file that is there.
AnswersOK ==
    /\ \A c \in Clients : \A i \in 1..Len(answers[c]) :
          answers[c][i].ok => answers[c][i].file \in arrived
    /\ DeliveredArrived

AInv == AskedOK /\ AnswersOK

LEMMA Shorter ==
    ASSUME NEW S, NEW q \in Seq(S), q # <<>>
    PROVE  /\ Tail(q) \in Seq(S) /\ Len(Tail(q)) <= Len(q)
           /\ Head(q) \in S /\ Head(q) = q[1] /\ 1 \in 1..Len(q)
           /\ \A i \in 1..Len(Tail(q)) : i + 1 \in 1..Len(q) /\ Tail(q)[i] = q[i + 1]
<1>1. Len(q) \in Nat \ {0}
  BY EmptySeq
<1>2. /\ Tail(q) \in Seq(S) /\ Len(Tail(q)) = Len(q) - 1 /\ Head(q) \in S
      /\ \A i \in 1..Len(Tail(q)) : Tail(q)[i] = q[i + 1]
  BY HeadTailProperties
<1>3. PICK t \in Seq(S) : t = Tail(q) /\ Len(t) = Len(q) - 1
  BY <1>2
<1>4. \A i \in 1..Len(t) : i + 1 \in 1..Len(q)
  BY <1>1, <1>3
<1>5. Len(t) <= Len(q) /\ 1 \in 1..Len(q)
  BY <1>1, <1>3
<1>6. Head(q) = q[1]
  OBVIOUS
<1> QED  BY <1>2, <1>3, <1>4, <1>5, <1>6

LEMMA BoundKept ==
    ASSUME IInv, IInv', Bounded, [Next]_vars
    PROVE  Bounded'
<1>1. /\ wire \in [Clients -> Seq(Messages)] /\ queue \in [Clients -> Seq(Messages)]
      /\ wire' \in [Clients -> Seq(Messages)] /\ queue' \in [Clients -> Seq(Messages)]
  BY DEF IInv, ShapeOK
<1>2. Bound \in Nat \ {0} /\ Window \in Nat \ {0}
  BY StreamAssumption
<1>3. \A q \in Seq(Messages), m \in Messages :
         Len(q) \in Nat /\ Len(Append(q, m)) = Len(q) + 1
  BY AppendProperties, LenProperties
<1>4. Len(<<>>) = 0 /\ \A x : Len(<<x>>) = 1
  OBVIOUS
<1>5. ASSUME NEW event \in Messages, Publish(event), NEW c \in Clients
      PROVE  Len(queue'[c]) <= Bound
  <2>1. \/ queue'[c] = queue[c]
        \/ queue'[c] = <<CLOSED>>
        \/ queue'[c] = Append(queue[c], event) /\ ~(Len(queue[c]) >= Bound)
    BY <1>5 DEF Publish, Behind
  <2>2. Len(queue[c]) \in Nat /\ Len(Append(queue[c], event)) = Len(queue[c]) + 1
    BY <1>1, <1>3, <1>5
  <2>3. Len(<<CLOSED>>) <= Bound
    BY <1>2, <1>4
  <2>4. Len(queue[c]) <= Bound
    BY DEF Bounded
  <2>5. ~(Len(queue[c]) >= Bound) => Len(Append(queue[c], event)) <= Bound
    BY <1>2, <2>2
  <2> QED  BY <2>1, <2>3, <2>4, <2>5
<1>6. ASSUME NEW s \in Sessions, NEW value \in States \cup {None}, Emit(s, value)
      PROVE  Bounded'
  <2>1. Len(history') \in Nat
    BY EmptySeq DEF IInv, HistoryOK
  <2>2. [type |-> "session", session |-> s, state |-> value, moment |-> Len(history')]
           \in Messages
    BY <2>1 DEF Messages
  <2>3. wire' = wire
    BY <1>6 DEF Emit
  <2> QED  BY <1>5, <1>6, <2>2, <2>3 DEF Emit, Bounded
<1>7. ASSUME NEW f \in Files, Attach(f) PROVE Bounded'
  <2>1. [type |-> "attachment", file |-> f, moment |-> Len(history)] \in Messages
    BY EmptySeq DEF IInv, HistoryOK, Messages
  <2>2. wire' = wire
    BY <1>7 DEF Attach
  <2> QED  BY <1>5, <1>7, <2>1, <2>2 DEF Attach, Bounded
<1>8. ASSUME NEW c \in Clients, Accept(c) PROVE Bounded'
  BY <1>1, <1>2, <1>4, <1>8 DEF Accept, Bounded
<1>9. ASSUME NEW c \in Clients, Greeted(c) PROVE Bounded'
  BY <1>9 DEF Greeted, Bounded
<1>10. ASSUME NEW c \in Clients, Send(c) PROVE Bounded'
  <2>1. queue[c] # <<>> /\ queue[c] \in Seq(Messages) /\ wire[c] \in Seq(Messages)
    BY <1>1, <1>10 DEF Send
  <2>2. Len(Tail(queue[c])) <= Len(queue[c]) /\ Head(queue[c]) \in Messages
        /\ Len(Tail(queue[c])) \in Nat /\ Len(queue[c]) \in Nat /\ Len(wire[c]) \in Nat
    BY ONLY <2>1, Shorter, LenProperties
  <2>3. Len(Append(wire[c], Head(queue[c]))) = Len(wire[c]) + 1
    BY <1>3, <2>1, <2>2
  <2>4. \/ wire' = wire
        \/ Len(wire[c]) < Window /\ wire' = [wire EXCEPT ![c] = Append(@, Head(queue[c]))]
    BY <1>10 DEF Send
  <2>5. ASSUME NEW d \in Clients PROVE Len(wire'[d]) <= Window
    <3>1. \/ wire'[d] = wire[d]
          \/ wire'[d] = Append(wire[c], Head(queue[c])) /\ Len(wire[c]) < Window
      BY <1>1, <2>4
    <3> QED  BY <1>2, <2>2, <2>3, <3>1 DEF Bounded
  <2>6. ASSUME NEW d \in Clients PROVE Len(queue'[d]) <= Bound
    <3>1. queue'[d] = IF d = c THEN Tail(queue[c]) ELSE queue[d]
      BY <1>1, <1>10 DEF Send
    <3> QED  BY <1>2, <2>2, <3>1 DEF Bounded
  <2> QED  BY <2>5, <2>6 DEF Bounded
<1>11. ASSUME NEW c \in Clients, Refuse(c) PROVE Bounded'
  <2>1. Refusal \in Messages
    BY EmptySeq DEF IInv, HistoryOK, Messages, Refusal
  <2> HIDE DEF Refusal
  <2>2. ASSUME NEW d \in Clients PROVE Len(queue'[d]) <= Bound
    <3>1. \/ queue'[d] = queue[d]
          \/ queue'[d] = Append(queue[d], Refusal) /\ ~(Len(queue[d]) >= Bound)
      BY <1>1, <1>11 DEF Refuse, Behind
    <3>2. Len(queue[d]) \in Nat /\ Len(Append(queue[d], Refusal)) = Len(queue[d]) + 1
      BY <1>1, <1>3, <2>1
    <3> QED  BY <1>2, <3>1, <3>2 DEF Bounded
  <2> QED  BY <1>11, <2>2 DEF Refuse, Bounded
<1>12. ASSUME NEW c \in Clients, Lose(c) PROVE Bounded'
  BY <1>1, <1>2, <1>4, <1>12 DEF Lose, Bounded
<1>13. ASSUME NEW c \in Clients, Disconnected(c) PROVE Bounded'
  BY <1>1, <1>2, <1>4, <1>13 DEF Disconnected, Bounded
<1>14. ASSUME NEW c \in Clients, Read(c) PROVE Bounded'
  <2>1. wire[c] # <<>> /\ wire[c] \in Seq(Messages) /\ UNCHANGED queue
    BY <1>1, <1>14 DEF Read
  <2>2. /\ Len(Tail(wire[c])) <= Len(wire[c])
        /\ Len(Tail(wire[c])) \in Nat /\ Len(wire[c]) \in Nat
    BY ONLY <2>1, Shorter, LenProperties
  <2>3. ASSUME NEW d \in Clients PROVE Len(wire'[d]) <= Window
    <3>1. wire'[d] = IF d = c THEN Tail(wire[c]) ELSE wire[d]
      BY <1>1, <1>14 DEF Read
    <3> QED  BY <1>2, <2>2, <3>1 DEF Bounded
  <2> QED  BY <2>1, <2>3 DEF Bounded
<1>15. ASSUME NEW c \in Clients, Upload(c) \/ Resolve(c) PROVE Bounded'
  BY <1>15 DEF Upload, Resolve, stream, Bounded
<1>16. ASSUME NEW f \in Files, TimeOut(f) PROVE Bounded'
  BY <1>16 DEF TimeOut, stream, Bounded
<1>17. CASE UNCHANGED vars
  BY <1>17 DEF vars, stream, Bounded
<1> QED  BY <1>6, <1>7, <1>8, <1>9, <1>10, <1>11, <1>12, <1>13, <1>14, <1>15, <1>16, <1>17
         DEF Next

LEMMA AnswersKept ==
    ASSUME IInv, AInv, [Next]_vars
    PROVE  AInv'
<1>1. /\ upload \in [Clients -> Files \cup {None}] /\ subscribed \subseteq Clients
      /\ answers \in [Clients -> Seq(Answers)]
  BY DEF IInv, ShapeOK, AInv, AskedOK
<1>2. ASSUME UNCHANGED <<asked, arrived, answers>> PROVE AInv'
  BY <1>2 DEF AInv, AskedOK, AnswersOK, DeliveredArrived
<1>3. ASSUME NEW c \in Clients,
             UNCHANGED <<asked, arrived>>, answers' = [answers EXCEPT ![c] = <<>>]
      PROVE  AInv'
  <2>1. <<>> \in Seq(Answers) /\ Len(<<>>) = 0
    OBVIOUS
  <2>2. AskedOK'
    BY <1>3, <2>1 DEF AInv, AskedOK
  <2>3. \A d \in Clients : answers'[d] = IF d = c THEN <<>> ELSE answers[d]
    BY <1>1, <1>3
  <2>4. ASSUME NEW d \in Clients, NEW i \in 1..Len(answers'[d]), answers'[d][i].ok
        PROVE  answers'[d][i].file \in arrived
    <3>1. answers'[d] = answers[d] /\ d # c
      BY <2>1, <2>3, <2>4
    <3> QED  BY <2>4, <3>1 DEF AInv, AnswersOK
  <2> QED  BY <1>3, <2>2, <2>4 DEF AInv, AnswersOK, DeliveredArrived
<1>4. ASSUME NEW f \in Files, NEW w \in {"waiting", "failed", "timed out"},
             UNCHANGED <<arrived, answers>>, asked' = [asked EXCEPT ![f] = w]
      PROVE  AInv'
  BY <1>4 DEF AInv, AskedOK, AnswersOK, DeliveredArrived
<1>5. ASSUME NEW c \in Clients, Accept(c) \/ Lose(c) PROVE AInv'
  BY <1>3, <1>5 DEF Accept, Lose
<1>6. ASSUME NEW f \in Files, Attach(f) \/ TimeOut(f) PROVE AInv'
  BY <1>4, <1>6 DEF Attach, TimeOut
<1>7. ASSUME NEW c \in Clients, Upload(c) PROVE AInv'
  <2>1. PICK here \in BOOLEAN, ok \in BOOLEAN :
           /\ upload[c] # None /\ (ok => here) /\ asked' = asked
           /\ arrived' = IF here THEN arrived \cup {upload[c]} ELSE arrived
           /\ \/ answers' = answers
              \/ answers' = [answers EXCEPT ![c] = Append(@, [file |-> upload[c], ok |-> ok])]
    BY <1>7 DEF Upload, Confirmed
  <2>2. PICK a \in Answers : a = [file |-> upload[c], ok |-> ok]
    BY <1>1, <2>1 DEF Answers
  <2>3. upload[c] \in Files /\ arrived \subseteq arrived' /\ (a.ok => a.file \in arrived')
    BY <1>1, <2>1, <2>2
  <2>4. /\ Append(answers[c], a) \in Seq(Answers) /\ Len(answers[c]) \in Nat
        /\ Len(Append(answers[c], a)) = Len(answers[c]) + 1
        /\ \A i \in 1..Len(answers[c]) : Append(answers[c], a)[i] = answers[c][i]
        /\ Append(answers[c], a)[Len(answers[c]) + 1] = a
    <3>1. answers[c] \in Seq(Answers)
      BY <1>1
    <3> QED  BY ONLY <3>1, a \in Answers, AppendProperties, LenProperties
  <2>5. AskedOK'
    BY <2>1, <2>2, <2>3, <2>4 DEF AInv, AskedOK
  <2>6. ASSUME NEW d \in Clients, NEW i \in 1..Len(answers'[d]), answers'[d][i].ok
        PROVE  answers'[d][i].file \in arrived'
    <3>1. CASE answers'[d] = answers[d]
      BY <2>3, <2>6, <3>1 DEF AInv, AnswersOK
    <3>2. CASE answers'[d] # answers[d]
      <4>1. d = c /\ answers'[c] = Append(answers[c], a)
        BY <1>1, <2>1, <2>2, <3>2
      <4>2. CASE i = Len(answers[c]) + 1
        BY <2>3, <2>4, <2>6, <4>1, <4>2
      <4>3. CASE i # Len(answers[c]) + 1
        <5>1. i \in 1..Len(answers[c])
          BY <2>4, <2>6, <4>1, <4>3
        <5>2. answers'[d][i] = answers[c][i]
          BY <2>4, <4>1, <5>1
        <5> QED  BY <2>3, <2>6, <5>1, <5>2 DEF AInv, AnswersOK
      <4> QED  BY <4>2, <4>3
    <3> QED  BY <3>1, <3>2
  <2>7. DeliveredArrived'
    BY <2>1, <2>3 DEF AInv, AnswersOK, DeliveredArrived
  <2> QED  BY <2>5, <2>6, <2>7 DEF AInv, AnswersOK
<1>8. ASSUME NEW c \in Clients, Resolve(c) PROVE AInv'
  <2>1. PICK a : a = Head(answers[c])
    OBVIOUS
  <2>2. /\ answers[c] # <<>> /\ answers' = [answers EXCEPT ![c] = Tail(@)] /\ arrived' = arrived
        /\ asked' = IF asked[a.file] # "waiting" THEN asked
                    ELSE [asked EXCEPT ![a.file] = IF a.ok THEN "delivered" ELSE "failed"]
    BY <1>8, <2>1 DEF Resolve
  <2>3. /\ Tail(answers[c]) \in Seq(Answers) /\ a \in Answers
        /\ a = answers[c][1] /\ 1 \in 1..Len(answers[c])
        /\ \A i \in 1..Len(Tail(answers[c])) :
              i + 1 \in 1..Len(answers[c]) /\ Tail(answers[c])[i] = answers[c][i + 1]
    <3>1. answers[c] \in Seq(Answers)
      BY <1>1
    <3> QED  BY ONLY <2>1, <2>2, <3>1, Shorter
  <2>4. a.ok \in BOOLEAN /\ a.file \in Files /\ (a.ok => a.file \in arrived)
    BY <2>3 DEF AInv, AnswersOK, Answers
  <2>5. AskedOK'
    BY <2>2, <2>3, <2>4 DEF AInv, AskedOK
  <2>6. ASSUME NEW d \in Clients, NEW i \in 1..Len(answers'[d]), answers'[d][i].ok
        PROVE  answers'[d][i].file \in arrived
    <3>1. CASE d # c
      <4>1. answers'[d] = answers[d]
        BY <1>1, <2>2, <3>1
      <4> QED  BY <2>6, <4>1 DEF AInv, AnswersOK
    <3>2. CASE d = c
      <4>1. answers'[d] = Tail(answers[c])
        BY <1>1, <2>2, <3>2
      <4>2. i + 1 \in 1..Len(answers[c]) /\ answers'[d][i] = answers[c][i + 1]
        BY <2>3, <2>6, <4>1
      <4> QED  BY <2>6, <4>2 DEF AInv, AnswersOK
    <3> QED  BY <3>1, <3>2
  <2>7. DeliveredArrived'
    BY <2>2, <2>4 DEF AInv, AskedOK, AnswersOK, DeliveredArrived
  <2> QED  BY <2>2, <2>5, <2>6, <2>7 DEF AInv, AnswersOK
<1>9. ASSUME NEW s \in Sessions, NEW value \in States \cup {None}, Emit(s, value) PROVE AInv'
  BY <1>2, <1>9 DEF Emit, files
<1>10. ASSUME NEW c \in Clients,
              Greeted(c) \/ Send(c) \/ Refuse(c) \/ Disconnected(c) \/ Read(c)
       PROVE  AInv'
  BY <1>2, <1>10 DEF Greeted, Send, Refuse, Disconnected, Read, files
<1>11. CASE UNCHANGED vars
  BY <1>2, <1>11 DEF vars, files
<1> QED  BY <1>5, <1>6, <1>7, <1>8, <1>9, <1>10, <1>11 DEF Next

LEMMA Invariants == Spec => [](IInv /\ Bounded /\ AInv)
<1>1. Init => IInv /\ Bounded /\ AInv
  <2> SUFFICES ASSUME Init PROVE Bounded /\ AInv
    BY Starts
  <2>1. Len(<<>>) = 0 /\ <<>> \in Seq(Answers)
    OBVIOUS
  <2>2. Bounded
    BY <2>1, StreamAssumption DEF Init, Bounded
  <2>3. AskedOK
    BY <2>1 DEF Init, AskedOK
  <2>4. AnswersOK
    BY <2>1 DEF Init, AnswersOK, DeliveredArrived
  <2> QED  BY <2>2, <2>3, <2>4 DEF AInv
<1>2. IInv /\ Bounded /\ AInv /\ [Next]_vars => (IInv /\ Bounded /\ AInv)'
  BY StepKeeps, BoundKept, AnswersKept
<1> QED  BY <1>1, <1>2, PTL DEF Spec

\* No queue outgrows event_queue_limit and no connection its window, whoever falls
\* behind and however often he is refused (events.py 36-58, server.py 320-330).
THEOREM TypeCorrect == Spec => []TypeOK
<1>1. IInv /\ Bounded /\ AInv => TypeOK
  BY DEF IInv, HistoryOK, ShapeOK, Bounded, AInv, AskedOK, TypeOK, Worlds
<1> QED  BY <1>1, Invariants, PTL

\* What attach calls delivered is in the chat (coordinator.py 863-912, bot.py's
\* _deliver_attachment): for any number of clients that answer for the same file.
THEOREM DeliveredIsThere == Spec => []DeliveredArrived
<1>1. AInv => DeliveredArrived
  BY DEF AInv, AnswersOK
<1> QED  BY <1>1, Invariants, PTL

=============================================================================
