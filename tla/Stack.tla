------------------------------- MODULE Stack -------------------------------
(***************************************************************************)
(* The processes of the installation: the daemon's supervisor, the host    *)
(* API and the plugin server of a stable and of a source-tree (dev)        *)
(* install, which share the canonical ports; their pid files; the claim;   *)
(* and the commands that ensure, stop, restart and repair them and         *)
(* transfer the claim.  commands/{ws,api,plugin,stack}, lib/pidTrust.ts,   *)
(* lib/runtime-ownership, lib/doctor/fixes.ts.                             *)
(*                                                                         *)
(* A command runs without a lock (only transfers exclude each other; see   *)
(* ClaimLock), so every file, signal and probe is a step of its own.  A    *)
(* probe succeeds when somebody serves the port.  Ports other than the     *)
(* canonical ones, state files, logs and waiting times are left out: a     *)
(* wait may end without success at any time.                               *)
(***************************************************************************)
EXTENDS Integers, Sequences, FiniteSets

CONSTANTS
    Services,   \* a set of "daemon", "api", "plugin"
    Commands,   \* command processes that may run at the same time
    Jobs,       \* what they may do: [do, install, services, force, channel]
    MaxPid,     \* bound
    Launcher    \* whether a stable launcher is configured

Stable == "stable"
Dev == "dev"
Installs == {Stable, Dev}
None == 0
Pids == 1..MaxPid

VARIABLES
    proc,    \* [st, svc, install]; "up" once it has booted
    port,    \* who serves each canonical port; a dead supervisor's child may
    pidFile, \* by install and service
    claim,   \* the channel of the fixed-owner claim
    told,    \* processes that have been sent SIGTERM
    cmd      \* the commands

stackVars == <<proc, port, pidFile, claim, told, cmd>>

InOrder(S, a, b, c) ==
    LET Of(s) == IF s \in S \cap Services THEN <<s>> ELSE <<>>
    IN  Of(a) \o Of(b) \o Of(c)

(* Of the services S. *)
StartOrder(S) == InOrder(S, "daemon", "api", "plugin")
StopOrder(S) == InOrder(S, "api", "daemon", "plugin")

Each(do, order) == [i \in DOMAIN order |-> [do |-> do, svc |-> order[i]]]

Only(do) == <<[do |-> do, svc |-> "none"]>>

Idle == [install |-> Stable, force |-> FALSE, over |-> "none", was |-> Stable,
         undoing |-> FALSE, todo |-> <<>>, at |-> "idle", pid |-> None]

Init ==
    /\ proc = [p \in Pids |-> [st |-> "unused", svc |-> "none", install |-> Stable]]
    /\ port = [s \in Services |-> None]
    /\ pidFile = [i \in Installs |-> [s \in Services |-> None]]
    /\ claim = Stable
    /\ told = {}
    /\ cmd = [c \in Commands |-> Idle]

Alive(p) == p # None /\ proc[p].st \in {"booting", "up", "stranger"}

(* Slip: any process that runs is taken for the service. *)
TrustedIfAlive(p, i, s) == Alive(p)

(* isTrustedPidRecord: the command line of the process is the service's. *)
Trusted(p, i, s) ==
    /\ p # None /\ proc[p].st \in {"booting", "up"}
    /\ proc[p].svc = s /\ proc[p].install = i

-----------------------------------------------------------------------------
(* Processes *)

SetFile(i, s, p) == pidFile' = [pidFile EXCEPT ![i][s] = p]

(* The supervisor writes its pid file at its start, whenever a child starts or
   ends, and when it stops. *)
Register(p) ==
    IF proc[p].svc = "daemon" THEN SetFile(proc[p].install, "daemon", p)
    ELSE UNCHANGED pidFile

(* Slip: the supervisor relies on the command that has spawned it. *)
BootSilently(p) ==
    /\ proc[p].st = "booting"
    /\ proc' = [proc EXCEPT ![p].st = "up"]
    /\ UNCHANGED <<port, claim, told, cmd, pidFile>>

Boot(p) ==
    /\ proc[p].st = "booting"
    /\ proc' = [proc EXCEPT ![p].st = "up"]
    /\ Register(p)
    /\ UNCHANGED <<port, claim, told, cmd>>

(* It listens, the supervisor by its child. *)
Bind(p) ==
    /\ proc[p].st = "up" /\ port[proc[p].svc] = None
    /\ port' = [port EXCEPT ![proc[p].svc] = p]
    /\ Register(p)
    /\ UNCHANGED <<proc, claim, told, cmd>>

(* The port is taken: the child ends, and the supervisor stays to try again or
   as failed; the others end. *)
PortTaken(p) ==
    /\ proc[p].st = "up" /\ port[proc[p].svc] \notin {None, p}
    /\ IF proc[p].svc = "daemon" THEN UNCHANGED proc
       ELSE proc' = [proc EXCEPT ![p].st = "dead"]
    /\ Register(p)
    /\ UNCHANGED <<port, claim, told, cmd>>

(* The bridge's process ends, under its supervisor or without one. *)
ChildEnds(p) ==
    /\ "daemon" \in Services /\ port["daemon"] = p
    /\ port' = [port EXCEPT !["daemon"] = None]
    /\ IF proc[p].st = "up" THEN Register(p) ELSE UNCHANGED pidFile
    /\ UNCHANGED <<proc, claim, told, cmd>>

(* A process that is killed.  The child of a supervisor lives on. *)
Killed(p) ==
    /\ proc' = [proc EXCEPT ![p].st = "dead"]
    /\ port' = [s \in Services |-> IF port[s] = p /\ s # "daemon" THEN None ELSE port[s]]

Crash(p) ==
    /\ proc[p].st \in {"booting", "up"}
    /\ Killed(p)
    /\ UNCHANGED <<pidFile, claim, told, cmd>>

(* SIGTERM: it ends with its child, in time or not. *)
Terminates(p) ==
    /\ p \in told /\ proc[p].st \in {"booting", "up"}
    /\ proc' = [proc EXCEPT ![p].st = "dead"]
    /\ port' = [s \in Services |-> IF port[s] = p THEN None ELSE port[s]]
    /\ IF proc[p].st = "up" THEN Register(p) ELSE UNCHANGED pidFile
    /\ UNCHANGED <<claim, told, cmd>>

(* Everything ends; pid files stay, and later their pids may be those of other
   programs. *)
Reboot ==
    /\ \E X \in SUBSET {p \in Pids : \E i \in Installs, s \in Services : pidFile[i][s] = p} :
         proc' = [p \in Pids |->
                    IF proc[p].st = "unused" THEN proc[p]
                    ELSE [proc[p] EXCEPT !.st = IF p \in X THEN "stranger" ELSE "dead"]]
    /\ port' = [s \in Services |-> None]
    /\ told' = {}
    /\ cmd' = [c \in Commands |-> Idle]
    /\ UNCHANGED <<pidFile, claim>>

-----------------------------------------------------------------------------
(* Commands *)

Going(c, at, p) == cmd' = [cmd EXCEPT ![c].at = at, ![c].pid = p]

Done(c) == cmd' = [cmd EXCEPT ![c].todo = Tail(@), ![c].at = "task", ![c].pid = None]

(* What is left to do when a task of a transfer fails.  Stopping the stack
   ends at its own first failure. *)
Undo(k) ==
    IF k.undoing THEN <<>>
    ELSE IF k.over = Dev THEN Each("stop", StopOrder(Services))
    ELSE IF k.over = Stable /\ Head(k.todo).do # "claim"
    THEN Only("restore") \o (IF k.was = Dev THEN Each("ensure", StartOrder(Services)) ELSE <<>>)
    ELSE <<>>

Fails(c) ==
    cmd' = [cmd EXCEPT ![c].todo = Undo(cmd[c]), ![c].undoing = TRUE,
                       ![c].at = "task", ![c].pid = None]

Transferring == \E c \in Commands : cmd[c].over # "none"

TransferTasks(channel) ==
    IF channel = Dev THEN Each("ensure", StartOrder(Services)) \o Only("claim")
    ELSE Only("claim") \o Each("stop", StopOrder(Services)) \o Only("launch")

Tasks(job) ==
    CASE job.do = "ensure"   -> Each("ensure", StartOrder(job.services))
      [] job.do = "stop"     -> Each("stop", StopOrder(job.services))
      [] job.do = "restart"  -> Each("stop", StopOrder(job.services))
                                \o Each("start", StopOrder(job.services))
      [] job.do = "doctor"   -> Each("clean", StartOrder(Services)) \o Only("realign")
      [] job.do = "transfer" -> TransferTasks(job.channel)

(* The claim is read and, for a transfer, its lock is taken.  Nobody starts a
   command while a service that a killed one has spawned is still booting. *)
Begin(c, job) ==
    /\ cmd[c].at = "idle"
    /\ \A p \in Pids : proc[p].st = "booting" => \E d \in Commands : cmd[d].pid = p
    /\ job.do = "transfer" => ~Transferring
    /\ cmd' = [cmd EXCEPT ![c] =
         [Idle EXCEPT !.install = job.install, !.force = job.force,
                      !.over = IF job.do = "transfer" THEN job.channel ELSE "none",
                      !.was = claim, !.todo = Tasks(job), !.at = "task"]]
    /\ UNCHANGED <<proc, port, pidFile, claim, told>>

Ends(c) ==
    /\ cmd[c].at = "task" /\ cmd[c].todo = <<>>
    /\ cmd' = [cmd EXCEPT ![c] = Idle]
    /\ UNCHANGED <<proc, port, pidFile, claim, told>>

(* The command itself is killed; its lock is reclaimed. *)
Interrupted(c) ==
    /\ cmd[c].at # "idle"
    /\ cmd' = [cmd EXCEPT ![c] = Idle]
    /\ UNCHANGED <<proc, port, pidFile, claim, told>>

At(c, at) == cmd[c].at = at /\ cmd[c].todo # <<>>

Task(c, do) == At(c, "task") /\ Head(cmd[c].todo).do = do

Svc(c) == Head(cmd[c].todo).svc

File(c) == pidFile[cmd[c].install][Svc(c)]

Served(c) == port[Svc(c)] # None

(* assertMayUseCanonicalPort *)
MayUsePort(c) == cmd[c].over # "none" \/ cmd[c].install = Stable \/ claim = Dev

(* ensure: healthy already, or start.  For the daemon only start looks at the
   claim. *)
Ensure(c) ==
    /\ Task(c, "ensure")
    /\ IF Svc(c) # "daemon" /\ ~MayUsePort(c) THEN Fails(c)
       ELSE IF Served(c) THEN Going(c, "check", None)
       ELSE Going(c, "start", None)
    /\ UNCHANGED <<proc, port, pidFile, claim, told>>

Check(c) ==
    /\ At(c, "check")
    /\ IF Alive(File(c)) /\ ~Trusted(File(c), cmd[c].install, Svc(c)) THEN Fails(c)
       ELSE Done(c)
    /\ UNCHANGED <<proc, port, pidFile, claim, told>>

Start(c) ==
    /\ Task(c, "start") \/ At(c, "start")
    /\ IF ~MayUsePort(c) THEN Fails(c)
       ELSE IF File(c) = None THEN Going(c, "probe", None)
       ELSE IF ~Alive(File(c)) THEN Going(c, "clear", None)
       ELSE IF Trusted(File(c), cmd[c].install, Svc(c)) THEN Done(c)
       ELSE Fails(c)
    /\ UNCHANGED <<proc, port, pidFile, claim, told>>

Clear(c) ==
    /\ At(c, "clear")
    /\ SetFile(cmd[c].install, Svc(c), None)
    /\ Going(c, "probe", None)
    /\ UNCHANGED <<proc, port, claim, told>>

Probe(c) ==
    /\ At(c, "probe")
    /\ IF Served(c) THEN Done(c) ELSE Going(c, "spawn", None)
    /\ UNCHANGED <<proc, port, pidFile, claim, told>>

SpawnDetached(c) ==
    /\ At(c, "spawn")
    /\ \E p \in Pids :
         /\ proc[p].st = "unused" /\ \A q \in 1..(p - 1) : proc[q].st # "unused"
         /\ proc' = [proc EXCEPT ![p] = [st |-> "booting", svc |-> Svc(c),
                                         install |-> cmd[c].install]]
         /\ Going(c, "write", p)
    /\ UNCHANGED <<port, pidFile, claim, told>>

WritePidFile(c) ==
    /\ At(c, "write")
    /\ SetFile(cmd[c].install, Svc(c), cmd[c].pid)
    /\ Going(c, "wait", cmd[c].pid)
    /\ UNCHANGED <<proc, port, claim, told>>

WaitForHealth(c) ==
    /\ At(c, "wait")
    /\ \/ Served(c) /\ Done(c)
       \/ ~Served(c) /\ Fails(c)
    /\ UNCHANGED <<proc, port, pidFile, claim, told>>

Stop(c) ==
    /\ Task(c, "stop")
    /\ IF File(c) = None THEN Done(c)
       ELSE IF ~Alive(File(c)) THEN Going(c, "erase", None)
       ELSE IF Trusted(File(c), cmd[c].install, Svc(c)) THEN Going(c, "term", File(c))
       ELSE Fails(c)
    /\ UNCHANGED <<proc, port, pidFile, claim, told>>

(* The signals fail when the process has ended; the plugin server's stop takes
   that for success. *)
Terminate(c) ==
    /\ At(c, "term")
    /\ IF Alive(cmd[c].pid)
       THEN told' = told \cup {cmd[c].pid} /\ Going(c, "exit", cmd[c].pid)
       ELSE /\ IF Svc(c) = "plugin" THEN Going(c, "erase", None) ELSE Fails(c)
            /\ UNCHANGED told
    /\ UNCHANGED <<proc, port, pidFile, claim>>

WaitForExit(c) ==
    /\ At(c, "exit")
    /\ IF ~Alive(cmd[c].pid) THEN Going(c, "erase", None)
       ELSE IF cmd[c].force THEN Going(c, "kill", cmd[c].pid)
       ELSE Fails(c)
    /\ UNCHANGED <<proc, port, pidFile, claim, told>>

Kill(c) ==
    /\ At(c, "kill")
    /\ IF Alive(cmd[c].pid) THEN Killed(cmd[c].pid) /\ Going(c, "erase", None)
       ELSE Fails(c) /\ UNCHANGED <<proc, port>>
    /\ UNCHANGED <<pidFile, claim, told>>

Erase(c) ==
    /\ At(c, "erase")
    /\ SetFile(cmd[c].install, Svc(c), None)
    /\ Done(c)
    /\ UNCHANGED <<proc, port, claim, told>>

(* writeFixedOwnerClaim, which may fail. *)
WriteClaim(c) ==
    /\ Task(c, "claim")
    /\ \/ claim' = cmd[c].over /\ Done(c)
       \/ UNCHANGED claim /\ Fails(c)
    /\ UNCHANGED <<proc, port, pidFile, told>>

RestoreClaim(c) ==
    /\ Task(c, "restore")
    /\ claim' = cmd[c].was
    /\ Done(c)
    /\ UNCHANGED <<proc, port, pidFile, told>>

(* The launcher is a process of its own, "stack ensure" of the stable install;
   it takes the place of the command, which has done its work. *)
Launch(c) ==
    /\ Task(c, "launch")
    /\ \/ ~Launcher /\ Done(c)
       \/ /\ Launcher
          /\ cmd' = [cmd EXCEPT ![c] = [Idle EXCEPT !.at = "task",
                         !.todo = Each("ensure", StartOrder(Services))]]
       \/ Launcher /\ Fails(c)
    /\ UNCHANGED <<proc, port, pidFile, claim, told>>

(* doctor --fix: pid files that cannot be trusted are deleted, and when a
   service that can be is not the claimed channel's, the claim is transferred
   to the channel that has it already. *)
Clean(c) ==
    /\ Task(c, "clean")
    /\ IF File(c) # None /\ ~Trusted(File(c), cmd[c].install, Svc(c))
       THEN Going(c, "erase", None) ELSE Done(c)
    /\ UNCHANGED <<proc, port, pidFile, claim, told>>

Realign(c) ==
    /\ Task(c, "realign")
    /\ LET i == cmd[c].install
       IN IF /\ i # cmd[c].was /\ ~Transferring
             /\ \E s \in Services : Trusted(pidFile[i][s], i, s)
          THEN cmd' = [cmd EXCEPT ![c].todo = TransferTasks(cmd[c].was),
                                  ![c].over = cmd[c].was, ![c].was = claim,
                                  ![c].force = TRUE]
          ELSE Done(c)
    /\ UNCHANGED <<proc, port, pidFile, claim, told>>

Step(c) ==
    \/ Ends(c) \/ Ensure(c) \/ Check(c) \/ Start(c) \/ Clear(c) \/ Probe(c)
    \/ SpawnDetached(c) \/ WritePidFile(c) \/ WaitForHealth(c)
    \/ Stop(c) \/ Terminate(c) \/ WaitForExit(c) \/ Kill(c) \/ Erase(c)
    \/ WriteClaim(c) \/ RestoreClaim(c) \/ Launch(c) \/ Clean(c) \/ Realign(c)

Next ==
    \/ \E c \in Commands : Step(c) \/ Interrupted(c) \/ \E job \in Jobs : Begin(c, job)
    \/ \E p \in Pids : Boot(p) \/ Bind(p) \/ PortTaken(p) \/ ChildEnds(p) \/ Crash(p)
                       \/ Terminates(p)
    \/ Reboot

Spec == Init /\ [][Next]_stackVars

-----------------------------------------------------------------------------
(* Properties *)

(* A pid file survives a reboot, and its pid may then be that of any program:
   no command ever signals a process that is not its own service. *)
NoStrangerSignalled == \A p \in told : proc[p].st # "stranger"

(* Whatever dies, hangs or is killed, commands that run one at a time never
   lose sight of a daemon: a supervisor that runs is the one in its pid file,
   where the next command will find it. *)
DaemonTracked ==
    \A p \in Pids :
        proc[p].st = "up" /\ proc[p].svc = "daemon"
            => pidFile[proc[p].install]["daemon"] = p

(* specs/033-fixed-runtime-owner/spec.md:254: a transfer is not reported as
   successful while the services belong to mixed owners. *)
NoMixedOwners ==
    [][\A c \in Commands : Ends(c) /\ cmd[c].over = Dev /\ ~cmd[c].undoing =>
          \A s \in Services : port[s] # None => proc[port[s]].install = claim]_stackVars
=============================================================================
