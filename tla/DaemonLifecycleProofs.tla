------------------------- MODULE DaemonLifecycleProofs -------------------------
(***************************************************************************)
(* Theorems about DaemonLifecycle, for every number of daemons, commands,  *)
(* crashes and waits given up:                                             *)
(*                                                                         *)
(*   TypeCorrect     the state is well typed;                              *)
(*                                                                         *)
(* and, where one shell gives the commands,                                *)
(*                                                                         *)
(*   Found           the daemon that serves is the one server.json names;  *)
(*   Alone           there is one;                                         *)
(*   BotOriented     the bot's orientation is where that daemon looks.     *)
(*                                                                         *)
(* Two shells that start a daemon at once break the first (the run         *)
(* `undiscovered`), so the assumption cannot be dropped.  The other three  *)
(* follow from Safe, which holds until a wait is given up: it says that a  *)
(* daemon on its way up is waited for, that one that has been told to end  *)
(* is waited for too, and what the shell may therefore rely on.            *)
(***************************************************************************)
EXTENDS DaemonLifecycle, FiniteSetTheorems, WellFoundedInduction, TLAPS

-----------------------------------------------------------------------------
(***************************************************************************)
(* Types.                                                                  *)
(***************************************************************************)
\* A set of numbers has a least one.
LEMMA MinIsIn ==
    ASSUME NEW S \in SUBSET Nat, S # {}
    PROVE  Min(S) \in S
<1> DEFINE R == {ss \in Nat \X Nat : ss[1] < ss[2]}
<1>1. IsWellFoundedOn(R, Nat)
  BY NatLessThanWellFounded DEF OpToRel
<1>2. PICK x \in S : \A y \in S : ~(<<y, x>> \in R)
  BY <1>1, WFMin
<1>3. ASSUME NEW y \in S PROVE x <= y
  <2>1. <<y, x>> \in Nat \X Nat /\ ~(<<y, x>> \in R)
    BY <1>2
  <2>2. ~(<<y, x>>[1] < <<y, x>>[2])
    BY <2>1, Zenon
  <2> QED  BY <2>2
<1> QED  BY <1>3 DEF Min

\* A daemon that looks for a port finds one: the others cannot have them all.
LEMMA PortLeft ==
    ASSUME TypeOK, NEW d \in Daemons, At(d, "loading")
    PROVE  {p \in Ports : ~Responding(p)} # {}
<1> DEFINE f == [p \in Ports |-> CHOOSE e \in Daemons : At(e, "serving") /\ port[e] = p]
<1> SUFFICES ASSUME \A p \in Ports : Responding(p) PROVE FALSE
  OBVIOUS
<1>1. \A p \in Ports : f[p] \in Daemons \ {d} /\ port[f[p]] = p
  <2> SUFFICES ASSUME NEW p \in Ports PROVE f[p] \in Daemons \ {d} /\ port[f[p]] = p
    OBVIOUS
  <2>1. \E e \in Daemons : At(e, "serving") /\ port[e] = p
    BY DEF Responding
  <2>2. f[p] \in Daemons /\ At(f[p], "serving") /\ port[f[p]] = p
    BY <2>1
  <2> QED  BY <2>2 DEF At
<1>2. f \in [Ports -> Daemons \ {d}]
  BY <1>1
<1> HIDE DEF f
<1>3. /\ IsFiniteSet(Ports) /\ IsFiniteSet(Daemons) /\ Cardinality(Ports) = MaxDaemons
      /\ Cardinality(Daemons) = MaxDaemons
  BY LifecycleAssumption, FS_Interval DEF Ports, Daemons
<1>4. IsFiniteSet(Daemons \ {d}) /\ Cardinality(Daemons \ {d}) < Cardinality(Ports)
  BY <1>3, FS_RemoveElement, LifecycleAssumption
<1>5. PICK p, q \in Ports : p # q /\ f[p] = f[q]
  BY <1>2, <1>3, <1>4, FS_PigeonHole
<1> QED  BY <1>1, <1>5

LEMMA ReadableType ==
    ASSUME TypeOK
    PROVE  Readable \in Daemons \cup {None}
BY DEF TypeOK, Readable

LEMMA StagesTyped ==
    ASSUME TypeOK, NEW d \in Daemons,
           DaemonStep(d) \/ Crash(d)
    PROVE  TypeOK'
<1>1. ASSUME NEW from \in Stages, NEW to \in Stages \ {"unborn", "loading"}, Goes(d, from, to),
             from # "loading"
      PROVE  /\ stage' \in [Daemons -> Stages]
             /\ port' = port => \A e \in Daemons :
                   stage'[e] \in {"unborn", "loading"} => port'[e] = None
  BY <1>1 DEF Goes, TypeOK
<1>2. CASE ChoosePort(d)
  <2> DEFINE p == Min({q \in Ports : ~Responding(q)})
  <2>1. p \in Ports
    <3>1. At(d, "loading")
      BY <1>2 DEF ChoosePort, Goes
    <3>2. {q \in Ports : ~Responding(q)} \in SUBSET Nat
      BY DEF Ports
    <3> QED  BY <3>1, <3>2, PortLeft, MinIsIn
  <2>2. port' = [port EXCEPT ![d] = p] /\ stage' = [stage EXCEPT ![d] = "preparing"]
    BY <1>2 DEF ChoosePort, Goes, Follows
  <2> HIDE DEF p
  <2> QED  BY <1>2, <2>1, <2>2 DEF ChoosePort, TypeOK, Stages, files, counts
<1>3. CASE PrepareDirs(d)
  <2>1. Goes(d, "preparing", "writing")
    BY <1>3 DEF PrepareDirs, Follows
  <2> QED  BY <1>1, <1>3, <2>1 DEF PrepareDirs, TypeOK, Stages, counts
<1>4. CASE Truncate(d)
  BY <1>1, <1>4 DEF Truncate, TypeOK, Stages, counts
<1>5. CASE WriteInfo(d)
  <2>1. Goes(d, "written", "binding")
    BY <1>5 DEF WriteInfo, Follows
  <2> QED  BY <1>1, <1>5, <2>1 DEF WriteInfo, TypeOK, Stages, counts
<1>6. CASE Bind(d)
  BY <1>1, <1>6 DEF Bind, TypeOK, Stages, files, counts
<1>7. CASE Close(d)
  BY <1>1, <1>7 DEF Close, TypeOK, Stages, files, counts
<1>8. CASE Unadvertise(d)
  BY <1>1, <1>8 DEF Unadvertise, TypeOK, Stages, counts
<1>9. CASE Exit(d)
  BY <1>1, <1>9 DEF Exit, TypeOK, Stages, files, counts
<1>10. CASE Crash(d)
  BY <1>10 DEF Crash, TypeOK, Stages, files
<1> QED  BY <1>2, <1>3, <1>4, <1>5, <1>6, <1>7, <1>8, <1>9, <1>10 DEF DaemonStep

\* What the steps of a command make of it.
LEMMA ThenTyped ==
    ASSUME TypeOK, NEW c \in Clis, cli[c] # None,
           NEW where \in {"find", "check", "clean", "stop", "stopping", "remove", "spawn", "wait"},
           NEW d \in Daemons \cup {None}
    PROVE  /\ [cli EXCEPT ![c].stage = where] \in [Clis -> Running \cup {None}]
           /\ [cli EXCEPT ![c].seen = d, ![c].stage = where] \in [Clis -> Running \cup {None}]
           /\ [cli EXCEPT ![c].stage = where, ![c].child = d] \in [Clis -> Running \cup {None}]
           /\ [cli EXCEPT ![c] = None] \in [Clis -> Running \cup {None}]
<1>1. cli[c] \in Running
  BY DEF TypeOK
<1>2. /\ [cli[c] EXCEPT !.stage = where] \in Running
      /\ [[cli[c] EXCEPT !.seen = d] EXCEPT !.stage = where] \in Running
      /\ [[cli[c] EXCEPT !.stage = where] EXCEPT !.child = d] \in Running
  BY <1>1 DEF Running
<1> QED  BY <1>2 DEF TypeOK

LEMMA MovedTyped ==
    ASSUME TypeOK, NEW c \in Clis, cli[c] # None,
           NEW where \in {"find", "check", "clean", "stop", "stopping", "remove", "spawn", "wait"},
           Over(c) \/ Then(c, where)
    PROVE  cli' \in [Clis -> Running \cup {None}]
<1>1. CASE Over(c)
  <2>1. cli' = [cli EXCEPT ![c] = None]
    BY <1>1 DEF Over
  <2> QED  BY <2>1, ThenTyped
<1>2. CASE Then(c, where)
  <2>1. cli' = [cli EXCEPT ![c].stage = where]
    BY <1>2 DEF Then
  <2> QED  BY <2>1, ThenTyped
<1> QED  BY <1>1, <1>2

LEMMA IssueTyped ==
    ASSUME TypeOK, NEW c \in Clis, Issue(c)
    PROVE  TypeOK'
<1>1. PICK command \in Commands :
         cli' = [cli EXCEPT ![c] =
                    [command |-> command, seen |-> None, child |-> None,
                     stage |-> IF command \in {"stop", "restart"} THEN "stop" ELSE "find"]]
  BY DEF Issue
<1>2. cli' \in [Clis -> Running \cup {None}]
  BY <1>1 DEF TypeOK, Running
<1> QED  BY <1>2 DEF Issue, TypeOK, processes, files

LEMMA CliTyped ==
    ASSUME TypeOK, NEW c \in Clis, CliStep(c)
    PROVE  TypeOK'
<1>1. CASE Find(c)
  <2>1. cli' \in [Clis -> Running \cup {None}]
    <3>1. cli[c] # None
      BY <1>1 DEF Find, Doing
    <3>2. CASE Readable = None
      <4>1. Over(c) \/ Then(c, "spawn")
        BY <1>1, <3>2 DEF Find, NotFound
      <4> QED  BY <3>1, <4>1, MovedTyped
    <3>3. CASE Readable # None
      <4>1. cli' = [cli EXCEPT ![c].seen = Readable, ![c].stage = "check"]
        BY <1>1, <3>3 DEF Find
      <4> QED  BY <3>1, <4>1, ReadableType, ThenTyped
    <3> QED  BY <3>2, <3>3
  <2> QED  BY <1>1, <2>1 DEF Find, TypeOK, processes, files, counts
<1>2. CASE Check(c)
  <2>1. cli' \in [Clis -> Running \cup {None}]
    <3>1. cli[c] # None /\ (Over(c) \/ Then(c, "clean"))
      BY <1>2 DEF Check, Doing
    <3> QED  BY <3>1, MovedTyped
  <2> QED  BY <1>2, <2>1 DEF Check, TypeOK, processes, files, counts
<1>3. CASE Clean(c)
  <2>1. cli' \in [Clis -> Running \cup {None}]
    <3>1. cli[c] # None /\ (Over(c) \/ Then(c, "spawn"))
      BY <1>3 DEF Clean, Doing, NotFound
    <3> QED  BY <3>1, MovedTyped
  <2> QED  BY <1>3, <2>1 DEF Clean, TypeOK, processes, counts
<1>4. CASE Stop(c)
  <2>1. cli' \in [Clis -> Running \cup {None}]
    <3>1. cli[c] # None
      BY <1>4 DEF Stop, Doing
    <3>2. CASE Readable = None
      <4>1. Over(c) \/ Then(c, "find")
        BY <1>4, <3>2 DEF Stop
      <4> QED  BY <3>1, <4>1, MovedTyped
    <3>3. CASE Readable # None
      <4>1. PICK where \in {"stopping", "remove"} :
               cli' = [cli EXCEPT ![c].seen = Readable, ![c].stage = where]
        BY <1>4, <3>3 DEF Stop
      <4> QED  BY <3>1, <4>1, ReadableType, ThenTyped
    <3> QED  BY <3>2, <3>3
  <2>2. told' \subseteq Daemons
    BY <1>4, ReadableType DEF Stop, TypeOK
  <2> QED  BY <1>4, <2>1, <2>2 DEF Stop, TypeOK, files, counts
<1>5. CASE Waited(c)
  <2>1. cli' \in [Clis -> Running \cup {None}]
    BY <1>5, MovedTyped DEF Waited, Doing
  <2>2. slow' \in Nat
    BY <1>5 DEF Waited, Patience, TypeOK
  <2> QED  BY <1>5, <2>1, <2>2 DEF Waited, TypeOK, processes, files
<1>6. CASE Remove(c)
  <2>1. cli' \in [Clis -> Running \cup {None}]
    <3>1. cli[c] # None /\ (Over(c) \/ Then(c, "find"))
      BY <1>6 DEF Remove, Doing
    <3> QED  BY <3>1, MovedTyped
  <2> QED  BY <1>6, <2>1 DEF Remove, TypeOK, processes, counts
<1>7. CASE Spawn(c)
  <2>1. PICK d \in Daemons :
           /\ At(d, "unborn")
           /\ stage' = [stage EXCEPT ![d] = "loading"]
           /\ cli' = [cli EXCEPT ![c].stage = "wait", ![c].child = d]
    BY <1>7 DEF Spawn
  <2>2. cli' \in [Clis -> Running \cup {None}]
    BY <1>7, <2>1, ThenTyped DEF Spawn, Doing
  <2> QED  BY <1>7, <2>1, <2>2 DEF Spawn, TypeOK, Stages, At, files, counts
<1>8. CASE Started(c)
  <2>1. cli' \in [Clis -> Running \cup {None}]
    BY <1>8, MovedTyped DEF Started, Doing
  <2> QED  BY <1>8, <2>1 DEF Started, TypeOK, processes, files, counts
<1>9. CASE GiveUp(c)
  <2>1. cli' \in [Clis -> Running \cup {None}]
    BY <1>9, MovedTyped DEF GiveUp, Doing
  <2>2. slow' \in Nat
    BY <1>9 DEF GiveUp, Patience, TypeOK
  <2> QED  BY <1>9, <2>1, <2>2 DEF GiveUp, TypeOK, processes, files
<1> QED  BY <1>1, <1>2, <1>3, <1>4, <1>5, <1>6, <1>7, <1>8, <1>9 DEF CliStep

LEMMA BotTyped ==
    ASSUME TypeOK, BotStep
    PROVE  TypeOK'
<1>1. bot \in Connections
  BY DEF TypeOK
<1>2. CASE BotReads
  <2>1. bot' \in Connections
    BY <1>1, <1>2, ReadableType DEF BotReads, Connections
  <2> QED  BY <1>2, <2>1 DEF BotReads, TypeOK, processes, files, counts
<1>3. CASE BotWrites
  <2>1. bot' \in Connections
    BY <1>1, <1>3 DEF BotWrites, Connections
  <2>2. oriented' \subseteq dirs' /\ dirs' \subseteq Daemons
    BY <1>1, <1>3 DEF BotWrites, Connections, TypeOK
  <2> QED  BY <1>3, <2>1, <2>2 DEF BotWrites, TypeOK, processes, counts
<1>4. CASE BotConnects
  <2>1. bot' \in Connections
    BY <1>4 DEF BotConnects, Connections, Welcomed
  <2> QED  BY <1>4, <2>1 DEF BotConnects, TypeOK, processes, files, counts
<1>5. CASE BotLost
  <2>1. bot' \in Connections
    BY <1>5 DEF BotLost, Connections
  <2> QED  BY <1>5, <2>1 DEF BotLost, TypeOK, processes, files, counts
<1> QED  BY <1>2, <1>3, <1>4, <1>5 DEF BotStep

LEMMA InitTyped == Init => TypeOK
BY LifecycleAssumption DEF Init, TypeOK, Stages, Connections

LEMMA NextTyped == TypeOK /\ [Next]_vars => TypeOK'
<1> SUFFICES ASSUME TypeOK, [Next]_vars PROVE TypeOK'
  OBVIOUS
<1>1. CASE UNCHANGED vars
  BY <1>1 DEF vars, processes, files, counts, TypeOK
<1> QED  BY <1>1, StagesTyped, IssueTyped, CliTyped, BotTyped DEF Next

\* The state is well typed: in particular every daemon that looks for a port
\* finds one, and a command only ever waits for a daemon it has read of.
THEOREM TypeCorrect == Spec => []TypeOK
BY InitTyped, NextTyped, PTL DEF Spec

-----------------------------------------------------------------------------
(***************************************************************************)
(* One shell.                                                              *)
(***************************************************************************)
OneShell == \A c, e \in Clis : c = e

\* On its way from the shell that spawned it to its port.
Rising == {"loading", "preparing", "writing", "written", "binding"}

\* A daemon that is alive is the only one.  On its way up it is waited for, as it
\* is once it has been told to end, and it ends for no other reason; in between it
\* is the one that server.json names.
LivingAt(d) ==
    /\ \A e \in Daemons : Alive(e) => e = d
    /\ stage[d] \in Rising =>
          d \notin told /\ \E c \in Clis : Doing(c, "wait") /\ cli[c].child = d
    /\ stage[d] \in {"draining", "stopping"} => d \in told
    /\ d \in told => \E c \in Clis : Doing(c, "stopping") /\ cli[c].seen = d
    /\ stage[d] \in {"binding", "serving"} /\ d \notin told => server = d
    /\ stage[d] \notin {"loading", "preparing"} => d \in dirs

Living == \A d \in Daemons : Alive(d) => LivingAt(d)

\* What a command has read, or waits for, is the daemon that is alive; and where
\* it removes server.json or spawns another there is none.
KnowsOf(c) ==
    /\ Doing(c, "check") => \A d \in Daemons : Alive(d) => d = cli[c].seen
    /\ Doing(c, "stopping") =>
          \A d \in Daemons : Alive(d) => d = cli[c].seen /\ d \in told
    /\ Doing(c, "clean") \/ Doing(c, "spawn") \/ Doing(c, "remove") =>
          \A d \in Daemons : ~Alive(d)
    /\ Doing(c, "wait") => \A d \in Daemons : Alive(d) => d = cli[c].child

Knowing == \A c \in Clis : KnowsOf(c)

\* Nobody names a daemon before it has advertised itself.
NotYetAt(d) ==
    /\ d \in told => stage[d] # "unborn"
    /\ server = d => stage[d] \notin {"unborn", "loading", "preparing"}
    /\ bot.to = d => stage[d] \in {"serving", "draining", "stopping", "gone"}

NotYet == \A d \in Daemons : NotYetAt(d)

\* The directory that the bot has read of is that of the daemon it talks to.
BotKnows ==
    bot.to \in Serving \ told =>
        /\ bot.stage \in {"registers", "registers again"} => bot.at = bot.to
        /\ bot.stage = "settled" => bot.to \in oriented

Safe == Living /\ Knowing /\ NotYet /\ BotKnows

Inv == TypeOK /\ (slow = 0 => Safe)

LEMMA NoneIsNone ==
    ASSUME TypeOK
    PROVE  /\ None \notin Daemons /\ Torn \notin Daemons
           /\ Readable # None => server = Readable /\ Readable \in Daemons
           /\ Readable = None => server \notin Daemons
           /\ \A d \in Daemons : server = d => Readable = d
BY NoneAssumption DEF TypeOK, Readable, Daemons

\* A daemon that is alive when no shell is busy with it serves, and is named.
LEMMA Settles ==
    ASSUME TypeOK, Safe, OneShell, NEW c \in Clis, ~Doing(c, "wait"), ~Doing(c, "stopping"),
           NEW d \in Daemons, Alive(d)
    PROVE  stage[d] = "serving" /\ d \notin told /\ server = d
<1>1. LivingAt(d)
  BY DEF Safe, Living
<1>2. \A e \in Clis : ~Doing(e, "wait") /\ ~Doing(e, "stopping")
  BY DEF OneShell
<1>3. stage[d] \notin Rising \cup {"draining", "stopping"} /\ d \notin told
  BY <1>1, <1>2 DEF LivingAt
<1> QED  BY <1>1, <1>3 DEF LivingAt, Alive, Rising, TypeOK, Stages

-----------------------------------------------------------------------------
(***************************************************************************)
(* One lemma per kind of step.                                             *)
(***************************************************************************)
\* What a step of a daemon leaves, whatever it is.
LEMMA DaemonKeeps ==
    ASSUME TypeOK, Safe, NEW d \in Daemons, Alive(d), NEW to \in Stages \ {"unborn"},
           stage' = [stage EXCEPT ![d] = to], UNCHANGED <<told, cli, bot>>
    PROVE  /\ stage'[d] = to /\ LivingAt(d)
           /\ \A e \in Daemons : Alive(e)' => e = d
           /\ Knowing'
           /\ \A e \in Daemons \ {d} : stage'[e] = stage[e] /\ stage[e] \in {"unborn", "gone"}
<1>1. stage'[d] = to /\ \A e \in Daemons \ {d} : stage'[e] = stage[e]
  BY DEF TypeOK
<1>2. LivingAt(d)
  BY DEF Safe, Living
<1>3. \A e \in Daemons \ {d} : stage[e] \in {"unborn", "gone"}
  BY <1>2 DEF LivingAt, Alive
<1>4. \A e \in Daemons : Alive(e)' => e = d /\ Alive(e)
  BY <1>1, <1>3 DEF Alive
<1>5. Knowing'
  <2> SUFFICES ASSUME NEW c \in Clis PROVE KnowsOf(c)'
    BY DEF Knowing
  <2>1. KnowsOf(c)
    BY DEF Safe, Knowing
  <2> QED  BY <1>4, <2>1 DEF KnowsOf, Doing
<1> QED  BY <1>1, <1>2, <1>3, <1>4, <1>5

LEMMA DaemonSafe ==
    ASSUME TypeOK, Safe, OneShell, NEW d \in Daemons, DaemonStep(d)
    PROVE  Safe'
<1>1. UNCHANGED <<told, cli, bot>>
  BY DEF DaemonStep, ChoosePort, PrepareDirs, Truncate, WriteInfo, Bind, Close,
         Unadvertise, Exit
<1>2. NotYetAt(d) /\ (\A e \in Daemons : NotYetAt(e)) /\ None \notin Daemons /\ Torn \notin Daemons
  BY NoneIsNone DEF Safe, NotYet
<1> DEFINE Steps(from, to) ==
             /\ stage[d] = from /\ stage'[d] = to /\ Alive(d) /\ LivingAt(d)
             /\ \A e \in Daemons : Alive(e)' => e = d
             /\ \A e \in Daemons \ {d} : stage'[e] = stage[e] /\ stage[e] \in {"unborn", "gone"}
             /\ Knowing'
<1>3. ASSUME NEW from \in Stages \ {"unborn", "gone"}, NEW to \in Stages \ {"unborn"},
             Goes(d, from, to)
      PROVE  Steps(from, to)
  <2>1. Alive(d) /\ stage[d] = from /\ stage' = [stage EXCEPT ![d] = to]
    BY <1>3 DEF Goes, At, Alive
  <2> QED  BY <1>1, <2>1, DaemonKeeps
<1> HIDE DEF Steps
\* What is left to show of a step, once it is known where it goes.
<1>4. ASSUME NEW from, NEW to, Steps(from, to), to # "gone" => LivingAt(d)',
             \A e \in Daemons : NotYetAt(e)', BotKnows'
      PROVE  Safe'
  BY <1>4 DEF Steps, Safe, Living, NotYet, Alive
<1>5. CASE ChoosePort(d)
  <2>1. Steps("loading", "preparing")
    BY <1>3, <1>5 DEF ChoosePort, Follows, Stages
  <2>2. LivingAt(d)' /\ BotKnows' /\ \A e \in Daemons : NotYetAt(e)'
    BY <1>1, <1>2, <1>5, <2>1 DEF ChoosePort, Steps, LivingAt, Doing, BotKnows, NotYetAt,
       Serving, At, Rising, files, Safe
  <2> QED  BY <1>4, <2>1, <2>2
<1>6. CASE PrepareDirs(d)
  <2>1. Steps("preparing", "writing")
    BY <1>3, <1>6 DEF PrepareDirs, Follows, Stages
  <2>2. LivingAt(d)' /\ BotKnows' /\ \A e \in Daemons : NotYetAt(e)'
    BY <1>1, <1>2, <1>6, <2>1 DEF PrepareDirs, Steps, LivingAt, Doing, BotKnows, NotYetAt,
       Serving, At, Rising, Safe
  <2> QED  BY <1>4, <2>1, <2>2
<1>7. CASE Truncate(d)
  <2>1. Steps("writing", "written")
    BY <1>3, <1>7 DEF Truncate, Stages
  <2>2. LivingAt(d)' /\ BotKnows' /\ \A e \in Daemons : NotYetAt(e)'
    BY <1>1, <1>2, <1>7, <2>1 DEF Truncate, Steps, LivingAt, Doing, BotKnows, NotYetAt,
       Serving, At, Rising, Safe
  <2> QED  BY <1>4, <2>1, <2>2
<1>8. CASE WriteInfo(d)
  <2>1. Steps("written", "binding")
    BY <1>3, <1>8 DEF WriteInfo, Follows, Stages
  <2>2. LivingAt(d)' /\ BotKnows' /\ \A e \in Daemons : NotYetAt(e)'
    BY <1>1, <1>2, <1>8, <2>1 DEF WriteInfo, Steps, LivingAt, Doing, BotKnows, NotYetAt,
       Serving, At, Rising, Safe
  <2> QED  BY <1>4, <2>1, <2>2
\* Its port is its own: there is nobody else.
<1>9. CASE Bind(d)
  <2>1. Goes(d, "binding", "serving") /\ UNCHANGED <<told, server, dirs, oriented>>
    <3>1. stage[d] = "binding"
      BY <1>9 DEF Bind, Goes, At
    <3>2. LivingAt(d)
      BY <3>1 DEF Safe, Living, Alive
    <3>3. ~Responding(port[d])
      BY <3>1, <3>2 DEF LivingAt, Alive, Responding, At
    <3> QED  BY <1>9, <3>3 DEF Bind, files
  <2>2. Steps("binding", "serving")
    BY <1>3, <2>1 DEF Stages
  <2>3. LivingAt(d)' /\ BotKnows' /\ \A e \in Daemons : NotYetAt(e)'
    BY <1>1, <1>2, <2>1, <2>2 DEF Steps, LivingAt, Doing, BotKnows, NotYetAt,
       Serving, At, Rising, Safe
  <2> QED  BY <1>4, <2>2, <2>3
<1>10. CASE Close(d)
  <2>1. Steps("serving", "draining")
    BY <1>3, <1>10 DEF Close, Stages
  <2>2. LivingAt(d)' /\ BotKnows' /\ \A e \in Daemons : NotYetAt(e)'
    BY <1>1, <1>2, <1>10, <2>1 DEF Close, Steps, LivingAt, Doing, BotKnows, NotYetAt,
       Serving, At, Rising, files, Safe
  <2> QED  BY <1>4, <2>1, <2>2
<1>11. CASE Unadvertise(d)
  <2>1. Steps("draining", "stopping")
    BY <1>3, <1>11 DEF Unadvertise, Stages
  <2>2. LivingAt(d)' /\ BotKnows' /\ \A e \in Daemons : NotYetAt(e)'
    BY <1>1, <1>2, <1>11, <2>1 DEF Unadvertise, Steps, LivingAt, Doing, BotKnows, NotYetAt,
       Serving, At, Rising, Safe
  <2> QED  BY <1>4, <2>1, <2>2
<1>12. CASE Exit(d)
  <2>1. Steps("stopping", "gone")
    BY <1>3, <1>12 DEF Exit, Stages
  <2>2. BotKnows' /\ \A e \in Daemons : NotYetAt(e)'
    BY <1>1, <1>2, <1>12, <2>1 DEF Exit, Steps, BotKnows, NotYetAt, Serving, At, files, Safe
  <2> QED  BY <1>4, <2>1, <2>2
<1> QED  BY <1>5, <1>6, <1>7, <1>8, <1>9, <1>10, <1>11, <1>12 DEF DaemonStep

LEMMA CrashSafe ==
    ASSUME TypeOK, Safe, NEW d \in Daemons, Crash(d)
    PROVE  Safe'
<1>1. /\ Alive(d) /\ stage' = [stage EXCEPT ![d] = "gone"]
      /\ UNCHANGED <<told, cli, bot, server, dirs, oriented>>
  BY DEF Crash, files
<1>2. /\ stage'[d] = "gone" /\ (\A e \in Daemons : Alive(e)' => e = d) /\ Knowing'
      /\ \A e \in Daemons \ {d} : stage'[e] = stage[e] /\ stage[e] \in {"unborn", "gone"}
  BY <1>1, DaemonKeeps DEF Stages
<1>3. Living'
  BY <1>2 DEF Living, Alive
<1>4. NotYet' /\ BotKnows'
  BY <1>1, <1>2 DEF Safe, NotYet, NotYetAt, BotKnows, Serving, At
<1> QED  BY <1>2, <1>3, <1>4 DEF Safe

-----------------------------------------------------------------------------
(***************************************************************************)
(* The steps of a command.                                                 *)
(***************************************************************************)
\* A command that leaves the daemons alone need only know what it says it knows.
LEMMA CommandSafe ==
    ASSUME TypeOK, Safe, OneShell, NEW c \in Clis,
           UNCHANGED <<stage, told, dirs, oriented, bot>>, server' \in {server, None},
           \A d \in Daemons : Alive(d) =>
               stage[d] = "serving" /\ d \notin told /\ server' = server,
           KnowsOf(c)'
    PROVE  Safe'
<1>1. Living'
  <2> SUFFICES ASSUME NEW d \in Daemons, Alive(d)' PROVE LivingAt(d)'
    BY DEF Living
  <2>1. Alive(d) /\ stage[d] = "serving" /\ d \notin told /\ server' = server
    BY DEF Alive
  <2>2. LivingAt(d)
    BY <2>1 DEF Safe, Living
  <2>3. \A e \in Daemons : Alive(e)' => e = d
    BY <2>2 DEF LivingAt, Alive
  <2> QED  BY <2>1, <2>2, <2>3 DEF LivingAt, Rising
<1>2. Knowing'
  BY DEF Knowing, OneShell
<1>3. NotYet'
  BY NoneIsNone DEF Safe, NotYet, NotYetAt
<1>4. BotKnows'
  BY DEF Safe, BotKnows, Serving, At
<1> QED  BY <1>1, <1>2, <1>3, <1>4 DEF Safe

LEMMA IssueSafe ==
    ASSUME TypeOK, Safe, OneShell, NEW c \in Clis, Issue(c)
    PROVE  Safe'
<1>1. PICK command \in Commands :
         cli' = [cli EXCEPT ![c] =
                    [command |-> command, seen |-> None, child |-> None,
                     stage |-> IF command \in {"stop", "restart"} THEN "stop" ELSE "find"]]
  BY DEF Issue
<1>2. cli'[c].stage \in {"stop", "find"}
  BY <1>1 DEF TypeOK
<1>3. KnowsOf(c)'
  BY <1>2 DEF KnowsOf, Doing
<1>4. \A d \in Daemons : Alive(d) => stage[d] = "serving" /\ d \notin told
  BY Settles DEF Issue, Doing
<1>5. UNCHANGED <<stage, told, server, dirs, oriented, bot>>
  BY DEF Issue, processes, files
<1> QED  BY <1>3, <1>4, <1>5, CommandSafe

\* Where a step leaves the command, and that it is one.
LEMMA ThenDoes ==
    ASSUME TypeOK, NEW c \in Clis, cli[c] # None,
           NEW where \in {"find", "check", "clean", "stop", "stopping", "remove", "spawn", "wait"}
    PROVE  /\ Then(c, where) =>
                cli'[c].stage = where /\ cli'[c].seen = cli[c].seen /\ cli'[c].child = cli[c].child
           /\ Over(c) => \A at : ~Doing(c, at)'
<1>1. cli[c] \in Running
  BY DEF TypeOK
<1> QED  BY <1>1 DEF Then, Over, Doing, TypeOK, Running

LEMMA FindSafe ==
    ASSUME TypeOK, Safe, OneShell, NEW c \in Clis, Find(c)
    PROVE  Safe'
<1>1. cli[c] # None /\ cli[c].stage = "find" /\ UNCHANGED <<stage, told, server, dirs, oriented, bot>>
  BY DEF Find, Doing, processes, files
<1>2. \A d \in Daemons : Alive(d) => stage[d] = "serving" /\ d \notin told /\ server = d
  BY <1>1, Settles DEF Doing
<1>3. KnowsOf(c)'
  <2>1. CASE Readable = None
    <3>1. \A d \in Daemons : ~Alive(d)
      BY <1>2, <2>1, NoneIsNone
    <3>2. Over(c) \/ Then(c, "spawn")
      BY <2>1 DEF Find, NotFound
    <3> QED  BY <1>1, <3>1, <3>2, ThenDoes DEF KnowsOf, Doing, Alive
  <2>2. CASE Readable # None
    <3>1. cli' = [cli EXCEPT ![c].seen = Readable, ![c].stage = "check"]
      BY <2>2 DEF Find
    <3>2. cli'[c].seen = Readable /\ cli'[c].stage = "check"
      <4>1. cli[c] \in Running
        BY <1>1 DEF TypeOK
      <4> QED  BY <3>1, <4>1 DEF TypeOK, Running
    <3>3. \A d \in Daemons : Alive(d) => d = Readable
      BY <1>2, NoneIsNone
    <3> QED  BY <1>1, <3>2, <3>3 DEF KnowsOf, Doing, Alive
  <2> QED  BY <2>1, <2>2
<1> QED  BY <1>1, <1>2, <1>3, CommandSafe

\* The daemon that is alive answers for itself.
LEMMA CheckSafe ==
    ASSUME TypeOK, Safe, OneShell, NEW c \in Clis, Check(c)
    PROVE  Safe'
<1>1. /\ cli[c] # None /\ cli[c].stage = "check" /\ Doing(c, "check")
      /\ UNCHANGED <<stage, told, server, dirs, oriented, bot>>
  BY DEF Check, Doing, processes, files
<1>2. \A d \in Daemons : Alive(d) => stage[d] = "serving" /\ d \notin told
  BY <1>1, Settles DEF Doing
<1>3. KnowsOf(c)'
  <2>1. CASE Over(c)
    BY <1>1, <2>1, ThenDoes DEF KnowsOf
  <2>2. CASE ~Runs(cli[c].seen) /\ Then(c, "clean")
    <3>1. \A d \in Daemons : Alive(d) => d = cli[c].seen
      BY <1>1 DEF Safe, Knowing, KnowsOf
    <3>2. \A d \in Daemons : Alive(d) => Runs(d)
      BY <1>2 DEF Runs, Responding, At
    <3>3. \A d \in Daemons : ~Alive(d)
      BY <2>2, <3>1, <3>2
    <3> QED  BY <1>1, <2>2, <3>3, ThenDoes DEF KnowsOf, Doing, Alive
  <2> QED  BY <2>1, <2>2 DEF Check
<1> QED  BY <1>1, <1>2, <1>3, CommandSafe

\* A command that knows of nobody alive may remove the file, and go on.
LEMMA AloneSafe ==
    ASSUME TypeOK, Safe, OneShell, NEW c \in Clis, cli[c] # None,
           \A d \in Daemons : ~Alive(d),
           UNCHANGED <<stage, told, dirs, oriented, bot>>, server' \in {server, None},
           NEW where \in {"find", "remove", "spawn"}, Over(c) \/ Then(c, where)
    PROVE  Safe'
<1>1. KnowsOf(c)'
  BY ThenDoes DEF KnowsOf, Doing, Alive
<1> QED  BY <1>1, CommandSafe

LEMMA CleanSafe ==
    ASSUME TypeOK, Safe, OneShell, NEW c \in Clis, Clean(c)
    PROVE  Safe'
<1>1. /\ cli[c] # None /\ UNCHANGED <<stage, told, dirs, oriented, bot>> /\ server' = None
      /\ Over(c) \/ Then(c, "spawn")
  BY DEF Clean, Doing, processes, NotFound
<1>2. \A d \in Daemons : ~Alive(d)
  BY DEF Clean, Safe, Knowing, KnowsOf
<1> QED  BY <1>1, <1>2, AloneSafe

LEMMA RemoveSafe ==
    ASSUME TypeOK, Safe, OneShell, NEW c \in Clis, Remove(c)
    PROVE  Safe'
<1>1. /\ cli[c] # None /\ UNCHANGED <<stage, told, dirs, oriented, bot>> /\ server' = None
      /\ Over(c) \/ Then(c, "find")
  BY DEF Remove, Doing, processes
<1>2. \A d \in Daemons : ~Alive(d)
  BY DEF Remove, Safe, Knowing, KnowsOf
<1> QED  BY <1>1, <1>2, AloneSafe

\* The wait ends when the daemon has ended, who was the only one.
LEMMA WaitedSafe ==
    ASSUME TypeOK, Safe, OneShell, NEW c \in Clis, Waited(c), slow = 0, slow' = 0
    PROVE  Safe'
<1>1. /\ cli[c] # None /\ UNCHANGED <<stage, told, server, dirs, oriented, bot>>
      /\ Then(c, "remove") /\ Doing(c, "stopping")
  BY DEF Waited, Doing, processes, files
<1>2. ~Alive(cli[c].seen)
  BY DEF Waited, Patience, Exited
<1>3. \A d \in Daemons : ~Alive(d)
  BY <1>1, <1>2 DEF Safe, Knowing, KnowsOf
<1> QED  BY <1>1, <1>3, AloneSafe

\* The daemon that a start has waited for serves when the wait ends.
LEMMA WaitEnds ==
    ASSUME TypeOK, Safe, OneShell, NEW c \in Clis, Doing(c, "wait"), Over(c),
           UNCHANGED <<stage, told, server, dirs, oriented, bot>>,
           \A d \in Daemons : Alive(d) /\ d = cli[c].child => stage[d] = "serving"
    PROVE  Safe'
<1>1. cli[c] # None /\ KnowsOf(c)
  BY DEF Doing, Safe, Knowing
<1>2. \A d \in Daemons : Alive(d) => stage[d] = "serving" /\ d \notin told
  <2> SUFFICES ASSUME NEW d \in Daemons, Alive(d)
               PROVE  stage[d] = "serving" /\ d \notin told
    OBVIOUS
  <2>1. stage[d] = "serving" /\ LivingAt(d)
    BY <1>1 DEF KnowsOf, Safe, Living
  <2>2. \A e \in Clis : ~Doing(e, "stopping")
    BY DEF OneShell, Doing
  <2> QED  BY <2>1, <2>2 DEF LivingAt
<1>3. KnowsOf(c)'
  BY <1>1, ThenDoes DEF KnowsOf
<1> QED  BY <1>2, <1>3, CommandSafe

LEMMA StartedSafe ==
    ASSUME TypeOK, Safe, OneShell, NEW c \in Clis, Started(c)
    PROVE  Safe'
<1>1. /\ Doing(c, "wait") /\ Over(c) /\ UNCHANGED <<stage, told, server, dirs, oriented, bot>>
  BY DEF Started, processes, files
<1>2. PICK e \in Daemons : At(e, "serving")
  BY DEF Started, Sees, Responding
<1>3. \A d \in Daemons : Alive(d) => stage[d] = "serving"
  <2> SUFFICES ASSUME NEW d \in Daemons, Alive(d) PROVE stage[d] = "serving"
    OBVIOUS
  <2>1. Alive(e) /\ LivingAt(d)
    BY <1>2 DEF At, Alive, Safe, Living
  <2> QED  BY <1>2, <2>1 DEF LivingAt, At
<1> QED  BY <1>1, <1>3, WaitEnds

LEMMA GiveUpSafe ==
    ASSUME TypeOK, Safe, OneShell, NEW c \in Clis, GiveUp(c), slow = 0, slow' = 0
    PROVE  Safe'
<1>1. /\ Doing(c, "wait") /\ Over(c) /\ UNCHANGED <<stage, told, server, dirs, oriented, bot>>
  BY DEF GiveUp, processes, files
<1>2. stage[cli[c].child] \in {"serving", "gone"}
  BY DEF GiveUp, Patience, Deadline
<1> QED  BY <1>1, <1>2, WaitEnds DEF Alive

\* A daemon that is told to end is waited for from then on.
LEMMA StopSafe ==
    ASSUME TypeOK, Safe, OneShell, NEW c \in Clis, Stop(c)
    PROVE  Safe'
<1>1. cli[c] # None /\ cli[c].stage = "stop" /\ UNCHANGED <<stage, server, dirs, oriented, bot>>
  BY DEF Stop, Doing, files
<1>2. \A d \in Daemons : Alive(d) => stage[d] = "serving" /\ d \notin told /\ server = d
  BY <1>1, Settles DEF Doing
<1>3. CASE \A d \in Daemons : ~Alive(d)
  <2>1. told' = told
    BY <1>3, NoneIsNone DEF Stop
  <2>2. KnowsOf(c)'
    <3>1. \A d \in Daemons : ~Alive(d)'
      BY <1>1, <1>3 DEF Alive
    <3> QED  BY <3>1 DEF KnowsOf
  <2> QED  BY <1>1, <1>3, <2>1, <2>2, CommandSafe
<1>4. ASSUME NEW d \in Daemons, Alive(d) PROVE Safe'
  <2>1. /\ Readable = d /\ Readable # None /\ stage[d] = "serving" /\ server = d
        /\ LivingAt(d)
    BY <1>2, <1>4, NoneIsNone DEF Safe, Living
  <2>2. /\ told' = told \cup {d}
        /\ cli' = [cli EXCEPT ![c].seen = d, ![c].stage = "stopping"]
    BY <1>4, <2>1 DEF Stop
  <2>3. cli'[c] # None /\ cli'[c].seen = d /\ cli'[c].stage = "stopping"
    <3>1. cli[c] \in Running
      BY <1>1 DEF TypeOK
    <3>2. cli'[c] = [[cli[c] EXCEPT !.seen = d] EXCEPT !.stage = "stopping"]
      BY <2>2, <3>1 DEF TypeOK
    <3>3. cli'[c] \in Running
      BY <3>1, <3>2 DEF Running
    <3> QED  BY <3>1, <3>2, <3>3, NoneAssumption DEF Running
  <2>4. \A e \in Daemons : Alive(e)' => e = d
    BY <1>1, <2>1 DEF LivingAt, Alive
  <2>5. Living'
    <3>1. LivingAt(d)'
      BY <1>1, <2>1, <2>2, <2>3, <2>4 DEF LivingAt, Doing, Rising
    <3> QED  BY <2>4, <3>1 DEF Living
  <2>6. Knowing'
    <3>1. KnowsOf(c)'
      BY <2>2, <2>3, <2>4 DEF KnowsOf, Doing
    <3> QED  BY <3>1 DEF Knowing, OneShell
  <2>7. NotYet'
    BY <1>1, <2>1, <2>2 DEF Safe, NotYet, NotYetAt
  <2>8. BotKnows'
    BY <1>1, <2>2 DEF Safe, BotKnows, Serving, At
  <2> QED  BY <2>5, <2>6, <2>7, <2>8 DEF Safe
<1> QED  BY <1>3, <1>4

\* A daemon is spawned where there is none, and is waited for from then on.
LEMMA SpawnSafe ==
    ASSUME TypeOK, Safe, OneShell, NEW c \in Clis, Spawn(c)
    PROVE  Safe'
<1>1. cli[c] # None /\ UNCHANGED <<told, server, dirs, oriented, bot>>
  BY DEF Spawn, Doing, files
<1>2. \A e \in Daemons : ~Alive(e)
  BY DEF Spawn, Safe, Knowing, KnowsOf
<1>3. PICK d \in Daemons :
         /\ stage[d] = "unborn" /\ stage' = [stage EXCEPT ![d] = "loading"]
         /\ cli' = [cli EXCEPT ![c].stage = "wait", ![c].child = d]
  BY DEF Spawn, At
<1>4. stage'[d] = "loading" /\ \A e \in Daemons \ {d} : stage'[e] = stage[e] /\ ~Alive(e)'
  BY <1>2, <1>3 DEF TypeOK, Alive
<1>5. cli'[c] # None /\ cli'[c].child = d /\ cli'[c].stage = "wait"
  <2>1. cli[c] \in Running
    BY <1>1 DEF TypeOK
  <2>2. cli'[c] = [[cli[c] EXCEPT !.stage = "wait"] EXCEPT !.child = d]
    BY <1>3, <2>1 DEF TypeOK
  <2>3. cli'[c] \in Running
    BY <2>1, <2>2 DEF Running
  <2> QED  BY <2>1, <2>2, <2>3, NoneAssumption DEF Running
<1>6. NotYetAt(d)
  BY DEF Safe, NotYet
<1>7. Living'
  <2>1. LivingAt(d)'
    BY <1>1, <1>3, <1>4, <1>5, <1>6 DEF LivingAt, Doing, Rising, NotYetAt
  <2> QED  BY <1>4, <2>1 DEF Living
<1>8. Knowing'
  <2>1. KnowsOf(c)'
    BY <1>4, <1>5 DEF KnowsOf, Doing
  <2> QED  BY <2>1 DEF Knowing, OneShell
<1>9. NotYet'
  BY <1>1, <1>3, <1>4 DEF Safe, NotYet, NotYetAt
<1>10. BotKnows'
  BY <1>1, <1>3, <1>4 DEF Safe, BotKnows, Serving, At
<1> QED  BY <1>7, <1>8, <1>9, <1>10 DEF Safe

-----------------------------------------------------------------------------
(***************************************************************************)
(* The steps of the bot.                                                   *)
(***************************************************************************)
LEMMA BotSafe ==
    ASSUME TypeOK, Safe, BotStep
    PROVE  Safe'
<1>1. UNCHANGED <<stage, told, server, cli>> /\ dirs \subseteq dirs' /\ oriented \subseteq oriented'
  BY DEF BotStep, BotReads, BotWrites, BotConnects, BotLost, processes, files
<1>2. Living'
  BY <1>1 DEF Safe, Living, LivingAt, Alive, Doing
<1>3. Knowing'
  BY <1>1 DEF Safe, Knowing, KnowsOf, Alive, Doing
<1>4. bot \in Connections /\ None \notin Daemons
  BY NoneIsNone DEF TypeOK
<1>5. NotYet' /\ BotKnows'
  <2>1. CASE BotReads
    <3>1. bot'.to = bot.to /\ bot'.at = Readable
      BY <1>4, <2>1 DEF BotReads, Connections
    <3>2. bot'.stage \in {"registers", "registers again"}
      BY <1>4, <2>1 DEF BotReads, Connections
    <3>3. bot.to \in Serving \ told => Readable = bot.to
      BY NoneIsNone DEF Safe, Living, LivingAt, Serving, At, Alive
    <3> QED  BY <1>1, <3>1, <3>2, <3>3 DEF Safe, NotYet, NotYetAt, BotKnows, Serving, At
  <2>2. CASE BotWrites
    <3>1. bot'.to = bot.to /\ bot'.stage \in {"connecting", "settled"}
      BY <1>4, <2>2 DEF BotWrites, Connections
    <3>2. bot.to \in Serving \ told => bot.to \in oriented'
      BY <1>4, <2>2 DEF BotWrites, Safe, BotKnows, Serving
    <3> QED  BY <1>1, <3>1, <3>2 DEF Safe, NotYet, NotYetAt, BotKnows, Serving, At
  <2>3. CASE BotConnects
    <3>1. PICK d \in Daemons :
             stage[d] = "serving" /\ bot' = [stage |-> "connected", to |-> d, at |-> None]
      BY <2>3 DEF BotConnects, At, Welcomed
    <3> QED  BY <1>1, <3>1 DEF Safe, NotYet, NotYetAt, BotKnows
  <2>4. CASE BotLost
    <3>1. bot' = [stage |-> "connecting", to |-> None, at |-> None]
      BY <2>4 DEF BotLost
    <3> QED  BY <1>1, <1>4, <3>1 DEF Safe, NotYet, NotYetAt, BotKnows, Serving
  <2> QED  BY <2>1, <2>2, <2>3, <2>4 DEF BotStep
<1> QED  BY <1>2, <1>3, <1>5 DEF Safe

-----------------------------------------------------------------------------
(***************************************************************************)
(* The theorems.                                                           *)
(***************************************************************************)
LEMMA InitSafe == Init => Inv
<1> SUFFICES ASSUME Init PROVE Inv
  OBVIOUS
<1>1. TypeOK
  BY InitTyped
<1>2. Safe
  BY <1>1, NoneIsNone DEF Init, Safe, Living, Knowing, KnowsOf, NotYet, NotYetAt, BotKnows,
     Serving, Alive, Doing
<1> QED  BY <1>1, <1>2 DEF Inv

\* A wait once given up stays so.
LEMMA SlowGrows ==
    ASSUME TypeOK, [Next]_vars, slow' = 0
    PROVE  slow = 0
<1>1. CASE UNCHANGED vars
  BY <1>1 DEF vars, counts
<1>2. CASE \E d \in Daemons : DaemonStep(d) \/ Crash(d)
  BY <1>2 DEF DaemonStep, ChoosePort, PrepareDirs, Truncate, WriteInfo, Bind, Close,
     Unadvertise, Exit, Crash, counts
<1>3. CASE \E c \in Clis : Issue(c) \/ CliStep(c)
  BY <1>3 DEF CliStep, Issue, Find, Check, Clean, Stop, Waited, Remove, Spawn, Started,
     GiveUp, Patience, counts, TypeOK
<1>4. CASE BotStep
  BY <1>4 DEF BotStep, BotReads, BotWrites, BotConnects, BotLost, counts
<1> QED  BY <1>1, <1>2, <1>3, <1>4 DEF Next

LEMMA NextSafe ==
    ASSUME OneShell
    PROVE  Inv /\ [Next]_vars => Inv'
<1> SUFFICES ASSUME Inv, [Next]_vars PROVE Inv'
  OBVIOUS
<1>1. TypeOK /\ TypeOK'
  BY NextTyped DEF Inv
<1>2. ASSUME slow' = 0 PROVE Safe'
  <2>1. slow = 0 /\ Safe
    BY <1>1, <1>2, SlowGrows DEF Inv
  <2>2. CASE UNCHANGED vars
    <3>1. UNCHANGED <<stage, told, server, dirs, oriented, cli, bot>>
      BY <2>2 DEF vars, processes, files
    <3>2. Living'
      BY <2>1, <3>1 DEF Safe, Living, LivingAt, Alive, Doing
    <3>3. Knowing'
      BY <2>1, <3>1 DEF Safe, Knowing, KnowsOf, Alive, Doing
    <3>4. NotYet' /\ BotKnows'
      BY <2>1, <3>1 DEF Safe, NotYet, NotYetAt, BotKnows, Serving, At
    <3> QED  BY <3>2, <3>3, <3>4 DEF Safe
  <2>3. ASSUME NEW d \in Daemons, DaemonStep(d) \/ Crash(d) PROVE Safe'
    BY <1>1, <2>1, <2>3, DaemonSafe, CrashSafe
  <2>4. ASSUME NEW c \in Clis, Issue(c) \/ CliStep(c) PROVE Safe'
    BY <1>1, <1>2, <2>1, <2>4, IssueSafe, FindSafe, CheckSafe, CleanSafe, StopSafe, WaitedSafe,
       RemoveSafe, SpawnSafe, StartedSafe, GiveUpSafe DEF CliStep
  <2>5. CASE BotStep
    BY <1>1, <2>1, <2>5, BotSafe
  <2> QED  BY <2>2, <2>3, <2>4, <2>5 DEF Next
<1> QED  BY <1>1, <1>2 DEF Inv

LEMMA Invariance ==
    ASSUME OneShell
    PROVE  Spec => []Inv
BY InitSafe, NextSafe, PTL DEF Spec

\* Where one shell gives the commands, and until a wait is given up: server.json names
\* the daemon that serves, and that daemon has its directory.
THEOREM Found ==
    ASSUME OneShell
    PROVE  Spec => []Discoverable
<1>1. Inv => Discoverable
  BY DEF Inv, Safe, Living, LivingAt, NotYet, NotYetAt, Discoverable, Serving, At, Alive
<1> QED  BY <1>1, Invariance, PTL

\* There is one daemon: a start finds the one that runs, and a restart has waited
\* for the end of the last.
THEOREM Alone ==
    ASSUME OneShell
    PROVE  Spec => []OneDaemon
<1>1. Inv => OneDaemon
  <2> SUFFICES ASSUME Inv, slow = 0 PROVE Cardinality(Serving) <= 1
    BY DEF OneDaemon
  <2>1. CASE Serving = {}
    BY <2>1, FS_EmptySet
  <2>2. ASSUME NEW d \in Serving PROVE Cardinality(Serving) <= 1
    <3>1. Alive(d) /\ LivingAt(d)
      BY <2>2 DEF Serving, At, Alive, Inv, Safe, Living
    <3>2. Serving = {d}
      BY <2>2, <3>1 DEF LivingAt, Serving, At, Alive
    <3> QED  BY <3>2, FS_Singleton
  <2> QED  BY <2>1, <2>2
<1> QED  BY <1>1, Invariance, PTL

\* A bot that has settled on a connection has left its orientation where the daemon
\* of that connection looks for it.
THEOREM BotOriented ==
    ASSUME OneShell
    PROVE  Spec => []Oriented
<1>1. Inv => Oriented
  BY DEF Inv, Safe, BotKnows, Oriented
<1> QED  BY <1>1, Invariance, PTL

=============================================================================
