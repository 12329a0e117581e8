---------------------------- MODULE DaemonLifecycle ----------------------------
(***************************************************************************)
(* The processes of one account that find each other through files         *)
(* (state.py): the daemons, each with a directory for its run; the         *)
(* commands that start, stop, restart and ask one; and the bot, which      *)
(* writes its orientation into the directory that server.json names.       *)
(*                                                                         *)
(* A daemon prepares its directory, writes server.json, and only then binds*)
(* its port: the lifespan of the application runs before its socket.  A    *)
(* daemon and a port are numbers, in the order in which they are taken.    *)
(***************************************************************************)
EXTENDS Naturals, FiniteSets, FiniteSetsExt

CONSTANTS
    Clis,        \* shells that run commands, one at a time each
    Commands,    \* those they run: "start", "stop", "restart", "ask"
    MaxDaemons, MaxCommands, MaxCrashes,
    MaxSlow,     \* waits that are given up though the end was on its way
    None, Torn

Daemons == 1..MaxDaemons
Ports == 1..MaxDaemons
BotPort == 1     \* FALCONFOX_URL of the bot: the first port that is tried

ASSUME LifecycleAssumption ==
    /\ MaxDaemons \in Nat \ {0} /\ MaxCommands \in Nat /\ MaxCrashes \in Nat
    /\ MaxCommands <= MaxDaemons  \* a command spawns at most one
    /\ MaxSlow \in Nat /\ Commands \subseteq {"start", "stop", "restart", "ask"}

VARIABLES
    stage,     \* daemon -> how far its process is
    port,      \* daemon -> the port it is to bind
    told,      \* daemons that were sent SIGTERM
    server,    \* server.json: the daemon it names, Torn, or None
    dirs,      \* run directories
    oriented,  \* those of them the bot has written to
    cli,       \* shell -> its command: stage, what it read, the daemon it spawned
    bot,       \* stage, the daemon of its websocket, the directory it was pointed to
    commands, crashes, slow

files == <<server, dirs, oriented>>
processes == <<stage, port, told>>
counts == <<commands, crashes, slow>>
vars == <<processes, files, cli, bot, counts>>

At(d, where) == stage[d] = where
Alive(d) == stage[d] \notin {"unborn", "gone"}
Responding(p) == \E d \in Daemons : At(d, "serving") /\ port[d] = p

\* read_server_info: a file that is missing, or half written, is no file.
Readable_Torn == server
Readable == IF server = Torn THEN None ELSE server

Init ==
    /\ stage = [d \in Daemons |-> "unborn"] /\ port = [d \in Daemons |-> None]
    /\ told = {} /\ server = None /\ dirs = {} /\ oriented = {}
    /\ cli = [c \in Clis |-> None]
    /\ bot = [stage |-> "starting", to |-> None, at |-> None]
    /\ commands = 0 /\ crashes = 0 /\ slow = 0

-----------------------------------------------------------------------------
(***************************************************************************)
(* A daemon, from the choice of its port to its exit.                      *)
(***************************************************************************)
Goes(d, from, to) == At(d, from) /\ stage' = [stage EXCEPT ![d] = to]

\* What the lifespan does, in order: the directory comes before the file that
\* advertises it, and both before the socket.
Follows(task) ==
    [loading |-> "preparing", preparing |-> "writing", written |-> "binding"][task]

\* find_available_port: the first that could be bound now.
ChoosePort(d) ==
    /\ Goes(d, "loading", Follows("loading"))
    /\ port' = [port EXCEPT ![d] = Min({p \in Ports : ~Responding(p)})]
    /\ UNCHANGED <<told, files, cli, bot, counts>>

\* prepare_clients_dir: this run's directory, and no other run's.
PrepareDirs(d) ==
    /\ Goes(d, "preparing", Follows("preparing"))
    /\ dirs' = {d} /\ oriented' = oriented \cap {d}
    /\ UNCHANGED <<port, told, server, cli, bot, counts>>

\* write_server_info: the file is truncated, and then written.
Truncate(d) ==
    /\ Goes(d, "writing", "written") /\ server' = Torn
    /\ UNCHANGED <<port, told, dirs, oriented, cli, bot, counts>>

WriteInfo(d) ==
    /\ Goes(d, "written", Follows("written")) /\ server' = d
    /\ UNCHANGED <<port, told, dirs, oriented, cli, bot, counts>>

\* A port that is taken ends the daemon, through the same lifespan.
Bind(d) ==
    /\ Goes(d, "binding", IF Responding(port[d]) THEN "draining" ELSE "serving")
    /\ UNCHANGED <<port, told, files, cli, bot, counts>>

\* The socket is closed, and what was being answered is waited for.
Close(d) ==
    /\ d \in told /\ Goes(d, "serving", "draining")
    /\ UNCHANGED <<port, told, files, cli, bot, counts>>

\* remove_server_info, whoever it names; then the agents are stopped.
Unadvertise(d) ==
    /\ Goes(d, "draining", "stopping") /\ server' = None
    /\ UNCHANGED <<port, told, dirs, oriented, cli, bot, counts>>

Exit(d) ==
    /\ Goes(d, "stopping", "gone")
    /\ UNCHANGED <<port, told, files, cli, bot, counts>>

Crash(d) ==
    /\ Alive(d) /\ crashes < MaxCrashes /\ crashes' = crashes + 1
    /\ stage' = [stage EXCEPT ![d] = "gone"]
    /\ UNCHANGED <<port, told, files, cli, bot, commands, slow>>

DaemonStep(d) ==
    \/ ChoosePort(d) \/ PrepareDirs(d) \/ Truncate(d) \/ WriteInfo(d) \/ Bind(d)
    \/ Close(d) \/ Unadvertise(d) \/ Exit(d)

-----------------------------------------------------------------------------
(***************************************************************************)
(* A command.                                                              *)
(***************************************************************************)
Doing(c, where) == cli[c] # None /\ cli[c].stage = where
Then(c, where) == cli' = [cli EXCEPT ![c].stage = where]
Over(c) == cli' = [cli EXCEPT ![c] = None]

Issue(c) ==
    /\ cli[c] = None /\ commands < MaxCommands /\ commands' = commands + 1
    /\ \E command \in Commands :
          cli' = [cli EXCEPT ![c] =
                     [command |-> command, seen |-> None, child |-> None,
                      stage |-> IF command \in {"stop", "restart"} THEN "stop" ELSE "find"]]
    /\ UNCHANGED <<processes, files, bot, crashes, slow>>

\* Without a daemon a command that needs one fails, and a start spawns one.
NotFound(c) == IF cli[c].command = "ask" THEN Over(c) ELSE Then(c, "spawn")

Find(c) ==
    /\ Doing(c, "find")
    /\ IF Readable = None THEN NotFound(c)
       ELSE cli' = [cli EXCEPT ![c].seen = Readable, ![c].stage = "check"]
    /\ UNCHANGED <<processes, files, bot, counts>>

\* A daemon is running if its process is alive and its port responds.
Runs_Unchecked(d) == FALSE
Runs(d) == Alive(d) /\ Responding(port[d])

Check(c) ==
    /\ Doing(c, "check")
    /\ IF Runs(cli[c].seen) THEN Over(c) ELSE Then(c, "clean")
    /\ UNCHANGED <<processes, files, bot, counts>>

\* What was read is stale; the file is removed, whatever it says by now.
Clean(c) ==
    /\ Doing(c, "clean") /\ server' = None /\ NotFound(c)
    /\ UNCHANGED <<processes, dirs, oriented, bot, counts>>

Stop(c) ==
    /\ Doing(c, "stop")
    /\ IF Readable = None
       THEN /\ told' = told
            /\ IF cli[c].command = "stop" THEN Over(c) ELSE Then(c, "find")
       ELSE /\ told' = told \cup {d \in {Readable} : Alive(d)}
            /\ cli' = [cli EXCEPT ![c].seen = Readable, ![c].stage =
                          IF Alive(Readable) THEN "stopping" ELSE "remove"]
    /\ UNCHANGED <<stage, port, files, bot, counts>>

Patience == slow < MaxSlow /\ slow' = slow + 1

\* wait_for_exit
Exited_AtOnce(d) == TRUE
Exited(d) == ~Alive(d) /\ ~Responding(port[d])

\* Or the deadline passes: its port is another daemon's, or it was not waited for.
Waited(c) ==
    /\ Doing(c, "stopping")
    /\ LET d == cli[c].seen IN
       \/ (Exited(d) \/ ~Alive(d)) /\ slow' = slow
       \/ Alive(d) /\ Patience
    /\ Then(c, "remove")
    /\ UNCHANGED <<processes, files, bot, commands, crashes>>

Remove(c) ==
    /\ Doing(c, "remove") /\ server' = None
    /\ IF cli[c].command = "stop" THEN Over(c) ELSE Then(c, "find")
    /\ UNCHANGED <<processes, dirs, oriented, bot, counts>>

Spawn(c) ==
    /\ Doing(c, "spawn")
    /\ \E d \in Daemons :
          /\ At(d, "unborn") /\ \A e \in Daemons : At(e, "unborn") => d <= e
          /\ stage' = [stage EXCEPT ![d] = "loading"]
          /\ cli' = [cli EXCEPT ![c].stage = "wait", ![c].child = d]
    /\ UNCHANGED <<port, told, files, bot, counts>>

\* _wait_for_server: whichever daemon the file names by then, and its port alone.
Sees == Readable # None /\ Responding(port[Readable])

Started(c) ==
    /\ Doing(c, "wait") /\ Sees /\ Over(c)
    /\ UNCHANGED <<processes, files, bot, counts>>

\* The deadline passes: nothing was coming, or it was not waited for.
Deadline_Generous(c) == FALSE
Deadline(c) == stage[cli[c].child] \in {"serving", "gone"}

GiveUp(c) ==
    /\ Doing(c, "wait") /\ ~Sees /\ Over(c)
    /\ \/ Deadline(c) /\ slow' = slow
       \/ ~Deadline(c) /\ Patience
    /\ UNCHANGED <<processes, files, bot, commands, crashes>>

CliStep(c) ==
    \/ Find(c) \/ Check(c) \/ Clean(c) \/ Stop(c) \/ Waited(c) \/ Remove(c)
    \/ Spawn(c) \/ Started(c) \/ GiveUp(c)

-----------------------------------------------------------------------------
(***************************************************************************)
(* The bot: it registers when it starts and on every connection.           *)
(***************************************************************************)
Registers == {"starting", "connected"}

\* _clients_dir
BotReads ==
    /\ bot.stage \in Registers
    /\ bot' = [bot EXCEPT !.at = Readable,
                          !.stage = IF bot.to = None THEN "registers" ELSE "registers again"]
    /\ UNCHANGED <<processes, files, cli, counts>>

\* _register_orientation: the directory is made, if need be, and written to.
BotWrites ==
    /\ bot.stage \in {"registers", "registers again"}
    /\ IF bot.at = None THEN UNCHANGED <<dirs, oriented>>
       ELSE dirs' = dirs \cup {bot.at} /\ oriented' = oriented \cup {bot.at}
    /\ bot' = [bot EXCEPT !.stage = IF bot.to = None THEN "connecting" ELSE "settled"]
    /\ UNCHANGED <<processes, server, cli, counts>>

Welcomed_Once == "settled"
Welcomed == "connected"

BotConnects ==
    /\ bot.stage = "connecting"
    /\ \E d \in Daemons :
          /\ At(d, "serving") /\ port[d] = BotPort
          /\ bot' = [stage |-> Welcomed, to |-> d, at |-> None]
    /\ UNCHANGED <<processes, files, cli, counts>>

BotLost ==
    /\ bot.stage \in {"connected", "settled"} /\ ~At(bot.to, "serving")
    /\ bot' = [stage |-> "connecting", to |-> None, at |-> None]
    /\ UNCHANGED <<processes, files, cli, counts>>

BotStep == BotReads \/ BotWrites \/ BotConnects \/ BotLost

Next ==
    \/ \E d \in Daemons : DaemonStep(d) \/ Crash(d)
    \/ \E c \in Clis : Issue(c) \/ CliStep(c)
    \/ BotStep

Spec == Init /\ [][Next]_vars

\* Processes run; nothing says that a command is given, or that a daemon crashes.
FairSpec ==
    /\ Spec /\ WF_vars(BotStep)
    /\ \A d \in Daemons : WF_vars(DaemonStep(d))
    /\ \A c \in Clis : WF_vars(CliStep(c))

-----------------------------------------------------------------------------
(***************************************************************************)
(* Properties.                                                             *)
(***************************************************************************)
Stages == {"unborn", "loading", "preparing", "writing", "written", "binding",
           "serving", "draining", "stopping", "gone"}

Running ==
    [command : Commands, seen : Daemons \cup {None}, child : Daemons \cup {None},
     stage : {"find", "check", "clean", "stop", "stopping", "remove", "spawn", "wait"}]

Connections ==
    [stage : {"starting", "registers", "connecting", "connected", "registers again",
              "settled"},
     to : Daemons \cup {None}, at : Daemons \cup {None}]

ASSUME NoneAssumption == {None, Torn} \cap Nat = {} /\ None \notin Running

TypeOK ==
    /\ stage \in [Daemons -> Stages]
    /\ port \in [Daemons -> Ports \cup {None}]
    /\ \A d \in Daemons : stage[d] \in {"unborn", "loading"} => port[d] = None
    /\ told \subseteq Daemons /\ server \in Daemons \cup {None, Torn}
    /\ oriented \subseteq dirs /\ dirs \subseteq Daemons
    /\ cli \in [Clis -> Running \cup {None}] /\ bot \in Connections
    /\ commands \in Nat /\ crashes \in Nat /\ slow \in Nat

Serving == {d \in Daemons : At(d, "serving")}

\* Unless a command has given up a wait, server.json names the daemon that serves: a
\* command of another shell finds it (state.py 1-9, 79-92).  Whoever it names has its
\* directory: "a client that reads server.json must find somewhere to write"
\* (server.py 51-52).
Discoverable ==
    slow = 0 =>
        /\ \A d \in Serving \ told : server = d
        /\ \A d \in Daemons : server = d /\ Alive(d) => d \in dirs

\* There is one daemon, unless a command has given up a wait: a start finds the one
\* that runs, and a restart waits until the last one has let go of its port
\* (cli.py 167-200, state.py 194-231).
OneDaemon == slow = 0 => Cardinality(Serving) <= 1

\* A bot that has settled on a connection has left its orientation where the daemon
\* of that connection looks for it (bot.py 1271-1302), unless a wait was given up.
Oriented ==
    slow = 0 /\ bot.stage = "settled" /\ bot.to \in Serving \ told => bot.to \in oriented

\* Every command comes to an end (state.py 194-213, cli.py 106-113).
EveryCommandEnds == \A c \in Clis : cli[c] # None ~> cli[c] = None

=============================================================================
