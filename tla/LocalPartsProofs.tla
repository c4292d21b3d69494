-------------------------- MODULE LocalPartsProofs --------------------------
(***************************************************************************)
(* Proofs about the parts of LocalParts: an inductive invariant of each,   *)
(* and that it implies what the part promises.  The theorems are in        *)
(* HostPartsProofs.                                                        *)
(***************************************************************************)
EXTENDS LocalParts, SequenceTheorems, FiniteSetTheorems, WellFoundedInduction, TLAPS

-----------------------------------------------------------------------------
(* Transfers: as long as no command has died, the directory is there exactly
   while one command writes, is in, or releases, and it is never old without an
   owner, so that nobody finds it reclaimable. *)

LockPlaces ==
    {"out", "mkdir", "write", "in", "inspect", "unlink", "rmdir", "release", "dead"}

LockTypeOK ==
    /\ there \in BOOLEAN /\ old \in BOOLEAN
    /\ meta \in Rivals \cup {NoOne}
    /\ place \in [Rivals -> LockPlaces]

NobodyDied == \A p \in Rivals : place[p] # "dead"

Owns(p) == place[p] \in {"write", "in", "release"}

(* What keeps the others out while nobody dies. *)
Locked ==
    /\ \A p, q \in Rivals : Owns(p) /\ Owns(q) => p = q
    /\ there <=> \E p \in Rivals : Owns(p)
    /\ \A p \in Rivals : meta = p <=> place[p] = "in"
    /\ \A p \in Rivals : place[p] \notin {"unlink", "rmdir"}
    /\ there /\ old => meta # NoOne

LockInv == LockTypeOK /\ (NobodyDied => Locked)

RivalSteps(p) ==
    \/ Transfers!Begin(p) \/ Transfers!Mkdir(p) \/ Transfers!WriteMeta(p)
    \/ Transfers!Inspect(p) \/ Transfers!Unlink(p) \/ Transfers!Rmdir(p)
    \/ Transfers!Dies(p)

LEMMA LockInitInv == ASSUME Transfers!Init PROVE LockInv
  BY NullRival DEF Transfers!Init, LockInv, LockTypeOK, LockPlaces, NobodyDied, Locked, Owns

LEMMA LockTypeStep ==
    ASSUME LockTypeOK, [Transfers!Next]_(Transfers!lockVars) PROVE LockTypeOK'
<1>1. CASE UNCHANGED Transfers!lockVars
  BY <1>1 DEF LockTypeOK, Transfers!lockVars
<1>2. CASE Transfers!Ages
  BY <1>2 DEF LockTypeOK, Transfers!Ages
<1>3. ASSUME NEW p \in Rivals, RivalSteps(p)
      PROVE  LockTypeOK'
  BY <1>3 DEF LockTypeOK, LockPlaces, RivalSteps, Transfers!Goes, Transfers!Begin,
         Transfers!Mkdir, Transfers!WriteMeta, Transfers!Inspect, Transfers!Unlink,
         Transfers!Rmdir, Transfers!Dies
<1> QED BY <1>1, <1>2, <1>3 DEF Transfers!Next, RivalSteps

(* A step moves one process, which was not dead. *)
LEMMA DeathIsFinal ==
    ASSUME LockTypeOK, [Transfers!Next]_(Transfers!lockVars), NobodyDied' PROVE NobodyDied
<1>1. CASE UNCHANGED Transfers!lockVars
  BY <1>1 DEF NobodyDied, Transfers!lockVars
<1>2. CASE Transfers!Ages
  BY <1>2 DEF NobodyDied, Transfers!Ages
<1>3. ASSUME NEW p \in Rivals, RivalSteps(p)
      PROVE  NobodyDied
  <2>1. place[p] # "dead" /\ \A q \in Rivals : q # p => place'[q] = place[q]
    BY <1>3 DEF LockTypeOK, RivalSteps, Transfers!Goes, Transfers!Begin,
           Transfers!Mkdir, Transfers!WriteMeta, Transfers!Inspect, Transfers!Unlink,
           Transfers!Rmdir, Transfers!Dies
  <2> QED BY <2>1 DEF NobodyDied
<1> QED BY <1>1, <1>2, <1>3 DEF Transfers!Next, RivalSteps

LEMMA LockedStep ==
    ASSUME LockTypeOK, NobodyDied, Locked, NobodyDied', [Transfers!Next]_(Transfers!lockVars)
    PROVE  Locked'
<1> USE NullRival DEF Locked, Owns
<1>1. CASE UNCHANGED Transfers!lockVars
  BY <1>1 DEF Transfers!lockVars
<1>2. CASE Transfers!Ages
  BY <1>2 DEF Transfers!Ages
<1>3. ASSUME NEW p \in Rivals, RivalSteps(p)
      PROVE  Locked'
  <2> USE DEF LockTypeOK, LockPlaces, Transfers!Goes
  <2>1. CASE Transfers!Begin(p)
    BY <2>1 DEF Transfers!Begin
  <2>2. CASE Transfers!Mkdir(p)
    BY <2>2 DEF Transfers!Mkdir
  <2>3. CASE Transfers!WriteMeta(p)
    BY <2>3 DEF Transfers!WriteMeta
  <2>4. CASE Transfers!Inspect(p)
    <3>1. ~Transfers!Reclaimable
      BY DEF Transfers!Reclaimable, NobodyDied
    <3> QED BY <2>4, <3>1 DEF Transfers!Inspect
  <2>5. CASE Transfers!Unlink(p)
    BY <2>5 DEF Transfers!Unlink
  <2>6. CASE Transfers!Rmdir(p)
    BY <2>6 DEF Transfers!Rmdir
  <2>7. CASE Transfers!Dies(p)
    BY <2>7 DEF Transfers!Dies, NobodyDied
  <2> QED BY <1>3, <2>1, <2>2, <2>3, <2>4, <2>5, <2>6, <2>7 DEF RivalSteps
<1> QED BY <1>1, <1>2, <1>3 DEF Transfers!Next, RivalSteps

-----------------------------------------------------------------------------
(* Processes: a command that runs alone finds every supervisor in its pid file,
   except the one that it is starting, or that a killed command has started;
   and it removes a pid file, or starts a supervisor, only when there is none. *)

Tasks ==
    [do : {"ensure", "start", "stop", "clean"}, svc : Services]
    \cup [do : {"claim", "launch", "restore", "realign"}, svc : {"none"}]

TaskPlaces ==
    {"idle", "task", "check", "start", "clear", "probe", "spawn", "write", "wait",
     "term", "exit", "kill", "erase"}

Pids == Processes!Pids

Channels == Processes!Installs \cup {"none"}

Commanding ==
    [install : Processes!Installs, force : BOOLEAN,
     over : Channels, was : Channels,
     undoing : BOOLEAN, todo : Seq(Tasks), at : TaskPlaces, pid : Pids \cup {0}]

Processing ==
    [st : {"unused", "booting", "up", "dead", "stranger"}, svc : Services \cup {"none"},
     install : Processes!Installs]

CommandsTypeOK ==
    /\ proc \in [Pids -> Processing]
    /\ pidFile \in [Processes!Installs -> [Services -> Pids \cup {0}]]
    /\ claim \in Channels
    /\ told \subseteq Pids
    /\ cmd \in [{"c1"} -> Commanding]

Now == cmd["c1"]

Ours(p) == p \in Pids /\ proc[p].st \in {"booting", "up", "dead"}

Supervises(p, i) ==
    /\ proc[p].st \in {"booting", "up"}
    /\ proc[p].svc = "daemon" /\ proc[p].install = i

Service == Head(Now.todo).svc

(* Who is signalled, and who may be missing in a pid file. *)
OwnSignals ==
    /\ \A p \in told : Ours(p)
    /\ Now.at \in {"term", "exit", "kill"} => Ours(Now.pid)

Spawned ==
    /\ Now.at = "idle" => Now.pid = 0
    /\ Now.at = "write" =>
         /\ Now.todo # <<>> /\ Ours(Now.pid)
         /\ proc[Now.pid].svc = Service /\ proc[Now.pid].install = Now.install

OneSupervisor ==
    \A i \in Processes!Installs : \A p, q \in Pids :
        Supervises(p, i) /\ Supervises(q, i) => p = q

Unfiled(p) ==
    proc[p].st = "booting" /\ (Now.at = "idle" \/ (Now.at = "write" /\ Now.pid = p))

Filed ==
    \A i \in Processes!Installs : \A p \in Pids :
        Supervises(p, i) => pidFile[i]["daemon"] = p \/ Unfiled(p)

(* What the running task knows of the supervisors of its install. *)
Expected ==
    Now.todo # <<>> /\ Service = "daemon" =>
        \A p \in Pids : Supervises(p, Now.install) =>
            /\ Now.at \notin {"clear", "probe", "spawn", "erase"}
            /\ Now.at \in {"term", "exit", "kill", "write"} => p = Now.pid

CommandsInv ==
    CommandsTypeOK /\ OwnSignals /\ Spawned /\ OneSupervisor /\ Filed /\ Expected

(* Orders of services, and what they are turned into. *)
LEMMA InOrderType ==
    ASSUME NEW S, NEW a, NEW b, NEW c PROVE Processes!InOrder(S, a, b, c) \in Seq(Services)
<1> DEFINE Of(s) == IF s \in S \cap Services THEN <<s>> ELSE <<>>
<1>1. \A s : Of(s) \in Seq(Services)
  BY EmptySeq
<1>2. Of(a) \o Of(b) \in Seq(Services)
  BY <1>1, ConcatProperties
<1>3. Of(a) \o Of(b) \o Of(c) \in Seq(Services)
  BY <1>1, <1>2, ConcatProperties
<1> QED BY <1>3 DEF Processes!InOrder

LEMMA OrderTypes ==
    ASSUME NEW S
    PROVE  Processes!StartOrder(S) \in Seq(Services) /\ Processes!StopOrder(S) \in Seq(Services)
  BY InOrderType DEF Processes!StartOrder, Processes!StopOrder

LEMMA EachType ==
    ASSUME NEW do \in {"ensure", "start", "stop", "clean"}, NEW list \in Seq(Services)
    PROVE  Processes!Each(do, list) \in Seq(Tasks)
<1>1. list \in [1 .. Len(list) -> Services] /\ Len(list) \in Nat
  BY LenProperties
<1>2. Processes!Each(do, list) \in [1 .. Len(list) -> Tasks]
  BY <1>1 DEF Processes!Each, Tasks
<1> QED BY <1>1, <1>2

LEMMA OnlyType ==
    ASSUME NEW do \in {"claim", "launch", "restore", "realign"}
    PROVE  Processes!Only(do) \in Seq(Tasks)
  BY DEF Processes!Only, Tasks

LEMMA TransferTasksType == ASSUME NEW c PROVE Processes!TransferTasks(c) \in Seq(Tasks)
<1>1. Processes!Each("ensure", Processes!StartOrder(Services)) \o Processes!Only("claim")
        \in Seq(Tasks)
  BY OrderTypes, EachType, OnlyType, ConcatProperties
<1>2. Processes!Only("claim") \o Processes!Each("stop", Processes!StopOrder(Services))
        \in Seq(Tasks)
  BY OrderTypes, EachType, OnlyType, ConcatProperties
<1>3. Processes!Only("claim") \o Processes!Each("stop", Processes!StopOrder(Services))
        \o Processes!Only("launch") \in Seq(Tasks)
  BY <1>2, OnlyType, ConcatProperties
<1> QED BY <1>1, <1>3 DEF Processes!TransferTasks

LEMMA TasksType == ASSUME NEW j \in CommandJobs PROVE Processes!Tasks(j) \in Seq(Tasks)
<1> DEFINE S == j.services
<1>1. Processes!Each("stop", Processes!StopOrder(S))
        \o Processes!Each("start", Processes!StopOrder(S)) \in Seq(Tasks)
  BY OrderTypes, EachType, ConcatProperties
<1>2. Processes!Each("clean", Processes!StartOrder(Services)) \o Processes!Only("realign")
        \in Seq(Tasks)
  BY OrderTypes, EachType, OnlyType, ConcatProperties
<1>3. /\ Processes!Each("ensure", Processes!StartOrder(S)) \in Seq(Tasks)
      /\ Processes!Each("stop", Processes!StopOrder(S)) \in Seq(Tasks)
  BY OrderTypes, EachType
<1> QED BY <1>1, <1>2, <1>3, TransferTasksType, CommandConstants DEF Processes!Tasks

LEMMA UndoType == ASSUME NEW k PROVE Processes!Undo(k) \in Seq(Tasks)
<1>1. Processes!Each("stop", Processes!StopOrder(Services)) \in Seq(Tasks)
  BY OrderTypes, EachType
<1>2. \A s \in Seq(Tasks) : Processes!Only("restore") \o s \in Seq(Tasks)
  BY OnlyType, ConcatProperties
<1>3. Processes!Each("ensure", Processes!StartOrder(Services)) \in Seq(Tasks)
  BY OrderTypes, EachType
<1>4. <<>> \in Seq(Tasks)
  BY EmptySeq
<1> QED BY <1>1, <1>2, <1>3, <1>4 DEF Processes!Undo

(* What the steps of a command do to it. *)
LEMMA GoingMoves ==
    ASSUME CommandsTypeOK, NEW a \in TaskPlaces, NEW p \in Pids \cup {0},
           Processes!Going("c1", a, p)
    PROVE  /\ cmd' \in [{"c1"} -> Commanding]
           /\ Now'.at = a /\ Now'.pid = p
           /\ Now'.todo = Now.todo /\ Now'.install = Now.install
  BY DEF CommandsTypeOK, Commanding, Now, Processes!Going

LEMMA DoneMoves ==
    ASSUME CommandsTypeOK, Now.todo # <<>>, Processes!Done("c1")
    PROVE  /\ cmd' \in [{"c1"} -> Commanding]
           /\ Now'.at = "task" /\ Now'.pid = 0 /\ Now'.install = Now.install
<1> DEFINE rest == Tail(cmd["c1"].todo)
<1>1. rest \in Seq(Tasks)
  BY HeadTailProperties DEF CommandsTypeOK, Commanding, Now
<1>2. cmd' = [cmd EXCEPT !["c1"].todo = rest, !["c1"].at = "task", !["c1"].pid = 0]
  BY DEF Processes!Done, Processes!None
<1> HIDE DEF rest
<1> QED BY <1>1, <1>2, ZenonT(30) DEF CommandsTypeOK, Commanding, Now, TaskPlaces

LEMMA FailsMoves ==
    ASSUME CommandsTypeOK, Processes!Fails("c1")
    PROVE  /\ cmd' \in [{"c1"} -> Commanding]
           /\ Now'.at = "task" /\ Now'.pid = 0 /\ Now'.install = Now.install
<1> DEFINE k == cmd["c1"]
           rest == Processes!Undo(k)
           failed == [k EXCEPT !.todo = rest, !.undoing = TRUE, !.at = "task", !.pid = 0]
<1>1. rest \in Seq(Tasks) /\ k \in Commanding
  BY UndoType DEF CommandsTypeOK
<1>2. cmd' = [cmd EXCEPT !["c1"] = failed]
  BY DEF Processes!Fails, Processes!None, CommandsTypeOK, Commanding
<1>3. /\ failed \in Commanding
      /\ failed.at = "task" /\ failed.pid = 0 /\ failed.install = k.install
  <2> HIDE DEF rest, k
  <2> QED BY <1>1 DEF Commanding, TaskPlaces
<1> HIDE DEF failed
<1> QED BY <1>2, <1>3 DEF CommandsTypeOK, Now

LEMMA IdleType ==
    /\ Processes!Idle \in Commanding
    /\ Processes!Idle.at = "idle" /\ Processes!Idle.pid = 0
<1>1. <<>> \in Seq(Tasks)
  BY EmptySeq
<1> QED BY <1>1 DEF Processes!Idle, Commanding, TaskPlaces, Processes!None,
               Channels, Processes!Installs, Processes!Stable

(* A service in a pid file that can be trusted is the process itself. *)
LEMMA TaskService ==
    ASSUME CommandsTypeOK, NEW do \in {"ensure", "start", "stop", "clean"},
           Processes!Task("c1", do)
    PROVE  /\ Now.todo # <<>> /\ Now.at = "task" /\ Processes!Svc("c1") = Service
           /\ Service \in Services
           /\ Processes!File("c1") = pidFile[Now.install][Service]
           /\ Processes!File("c1") \in Pids \cup {0}
<1>1. Now.todo # <<>> /\ Now.todo \in Seq(Tasks) /\ Now.install \in Processes!Installs
  BY DEF CommandsTypeOK, Commanding, Now, Processes!Task, Processes!At
<1>2. Head(Now.todo) \in Tasks
  BY <1>1, HeadTailProperties
<1> QED BY <1>1, <1>2 DEF Tasks, Processes!Task, Processes!At, Now, Service, Processes!Svc,
               Processes!File, CommandsTypeOK

(* Nothing is booting that its command does not wait for. *)
Attended ==
    Now.at \notin {"idle", "write"} \/ \A p \in Pids : proc[p].st # "booting"

(* A supervisor of an install is in its pid file while a task begins. *)
LEMMA FiledNow ==
    ASSUME CommandsInv, Attended, NEW i \in Processes!Installs,
           NEW p \in Pids, Supervises(p, i)
    PROVE  pidFile[i]["daemon"] = p
  BY DEF CommandsInv, Filed, Unfiled, Attended

(* A step of a command that changes nothing but the command. *)
LEMMA MoveOn ==
    ASSUME CommandsInv, UNCHANGED <<proc, pidFile, told>>,
           claim' \in Channels, cmd' \in [{"c1"} -> Commanding],
           Attended, Now'.at \notin {"idle", "write"},
           Now'.at \in {"term", "exit", "kill"} => Ours(Now'.pid),
           Now'.todo # <<>> /\ Service' = "daemon" =>
              \A p \in Pids : Supervises(p, Now'.install) =>
                  /\ Now'.at \notin {"clear", "probe", "spawn", "erase"}
                  /\ Now'.at \in {"term", "exit", "kill", "write"} => p = Now'.pid
    PROVE  CommandsInv'
<1>1. CommandsTypeOK'
  BY DEF CommandsInv, CommandsTypeOK
<1>2. \A p, i : Supervises(p, i)' <=> Supervises(p, i)
  BY DEF Supervises
<1>3. \A p : Ours(p)' <=> Ours(p)
  BY DEF Ours, Pids, Processes!Pids
<1>4. OwnSignals' /\ Spawned'
  BY <1>3 DEF CommandsInv, OwnSignals, Spawned
<1>5. OneSupervisor'
  BY <1>2 DEF CommandsInv, OneSupervisor, Pids, Processes!Pids, Processes!Installs
<1>6. Filed'
  BY <1>2, FiledNow DEF CommandsInv, Filed, Pids, Processes!Pids, Processes!Installs
<1>7. Expected'
  BY <1>2 DEF Expected, Pids, Processes!Pids
<1> QED BY <1>1, <1>4, <1>5, <1>6, <1>7 DEF CommandsInv

(* A task that ends. *)
LEMMA NextTask ==
    ASSUME CommandsInv, UNCHANGED <<proc, pidFile, told>>,
           claim' \in Channels, Attended,
           (Now.todo # <<>> /\ Processes!Done("c1")) \/ Processes!Fails("c1")
    PROVE  CommandsInv'
<1>1. cmd' \in [{"c1"} -> Commanding] /\ Now'.at = "task"
  BY DoneMoves, FailsMoves DEF CommandsInv
<1> QED BY <1>1, MoveOn

(* A step of a process: it boots, and tells its pid file, or it dies; or it
   tells its pid file. *)
LEMMA ProcessMoves ==
    ASSUME CommandsInv, CommandsTypeOK', UNCHANGED <<told, cmd>>,
           \A p \in Pids :
              /\ proc'[p].svc = proc[p].svc /\ proc'[p].install = proc[p].install
              /\ \/ proc'[p].st = proc[p].st
                 \/ proc[p].st \in {"booting", "up"} /\ proc'[p].st = "dead"
                 \/ /\ proc[p].st = "booting" /\ proc'[p].st = "up"
                    /\ proc[p].svc = "daemon" => pidFile'[proc[p].install]["daemon"] = p,
           \A i \in Processes!Installs :
              \/ pidFile'[i]["daemon"] = pidFile[i]["daemon"]
              \/ \E p \in Pids : Supervises(p, i) /\ pidFile'[i]["daemon"] = p
    PROVE  CommandsInv'
<1>1. Pids' = Pids /\ Processes!Installs' = Processes!Installs /\ Now' = Now
  BY DEF Pids, Processes!Pids, Processes!Installs, Now
<1>2. \A p \in Pids, i \in Processes!Installs : Supervises(p, i)' => Supervises(p, i)
  BY DEF Supervises
<1>3. \A p : Ours(p) => Ours(p)'
  BY <1>1 DEF Ours
<1>4. OwnSignals'
  BY <1>1, <1>3 DEF CommandsInv, OwnSignals
<1>5. Spawned'
  BY <1>1, <1>3 DEF CommandsInv, Spawned, Ours, Service
<1>6. OneSupervisor'
  BY <1>1, <1>2 DEF CommandsInv, OneSupervisor
<1>7. ASSUME NEW i \in Processes!Installs, NEW p \in Pids, Supervises(p, i)'
      PROVE  pidFile'[i]["daemon"] = p \/ Unfiled(p)'
  <2>1. Supervises(p, i)
    BY <1>2, <1>7
  <2>2. CASE proc'[p].st = proc[p].st
    <3>1. pidFile[i]["daemon"] = p \/ Unfiled(p)
      BY <2>1 DEF CommandsInv, Filed
    <3>2. \A q \in Pids : Supervises(q, i) => q = p
      BY <2>1 DEF CommandsInv, OneSupervisor
    <3> QED BY <3>1, <3>2, <2>2, <1>1 DEF Unfiled
  <2>3. CASE proc[p].st = "booting" /\ proc'[p].st = "up"
    BY <2>1, <2>3 DEF Supervises
  <2> QED BY <2>2, <2>3, <1>7 DEF Supervises
<1>8. Filed'
  BY <1>1, <1>7 DEF Filed
<1>9. Expected'
  <2>1. Now.install \in Processes!Installs
    BY DEF CommandsInv, CommandsTypeOK, Commanding, Now
  <2> QED BY <1>1, <1>2, <2>1 DEF CommandsInv, Expected, Service
<1> QED BY <1>4, <1>5, <1>6, <1>8, <1>9 DEF CommandsInv

(* A command that ends or is killed. *)
LEMMA CommandEnds ==
    ASSUME CommandsInv, UNCHANGED <<proc, pidFile, claim, told>>,
           cmd' = [cmd EXCEPT !["c1"] = Processes!Idle]
    PROVE  CommandsInv'
<1>1. cmd' \in [{"c1"} -> Commanding] /\ Now'.at = "idle" /\ Now'.pid = 0
  BY IdleType DEF CommandsInv, CommandsTypeOK, Now
<1>2. CommandsTypeOK'
  BY <1>1 DEF CommandsInv, CommandsTypeOK, Pids, Processes!Pids, Processes!Installs, Channels
<1>3. \A p, i : Supervises(p, i)' <=> Supervises(p, i)
  BY DEF Supervises
<1>4. OwnSignals' /\ Spawned'
  BY <1>1 DEF CommandsInv, OwnSignals, Spawned, Ours, Pids, Processes!Pids
<1>5. OneSupervisor'
  BY <1>3 DEF CommandsInv, OneSupervisor, Pids, Processes!Pids, Processes!Installs
<1>6. Filed'
  BY <1>1, <1>3 DEF CommandsInv, Filed, Unfiled, Pids, Processes!Pids, Processes!Installs
<1>7. Expected'
  BY <1>1 DEF Expected
<1> QED BY <1>2, <1>4, <1>5, <1>6, <1>7 DEF CommandsInv

LEMMA BeginStep ==
    ASSUME CommandsInv, NEW j \in CommandJobs, Processes!Begin("c1", j)
    PROVE  CommandsInv'
<1> DEFINE new == [Processes!Idle EXCEPT
                     !.install = j.install, !.force = j.force,
                     !.over = IF j.do = "transfer" THEN j.channel ELSE "none",
                     !.was = claim, !.todo = Processes!Tasks(j), !.at = "task"]
<1>1. new \in Commanding /\ new.at = "task"
  <2>1. /\ j.install \in Processes!Installs /\ j.channel \in Channels
        /\ j.force \in BOOLEAN /\ claim \in Channels /\ "none" \in Channels
    BY CommandConstants DEF Channels, CommandsInv, CommandsTypeOK
  <2>2. Processes!Tasks(j) \in Seq(Tasks)
    BY TasksType
  <2> QED BY <2>1, <2>2, IdleType DEF Commanding, TaskPlaces
<1>2. cmd' = [cmd EXCEPT !["c1"] = new]
  BY DEF Processes!Begin
<1>3. cmd' \in [{"c1"} -> Commanding] /\ Now'.at = "task"
  <2> HIDE DEF new
  <2> QED BY <1>1, <1>2 DEF CommandsInv, CommandsTypeOK, Now
<1>4. Attended
  <2>1. Now.pid = 0
    BY DEF CommandsInv, Spawned, Processes!Begin, Now
  <2> QED BY <2>1 DEF Attended, Processes!Begin, Now, Pids, Processes!Pids
<1> QED BY <1>3, <1>4, MoveOn DEF Processes!Begin, CommandsInv, CommandsTypeOK

LEMMA EnsureStep == ASSUME CommandsInv, Processes!Ensure("c1") PROVE CommandsInv'
<1>1. CommandsTypeOK /\ Attended /\ Now.todo # <<>> /\ claim' \in Channels
  BY TaskService DEF CommandsInv, CommandsTypeOK, Attended, Processes!Ensure
<1>2. \/ Processes!Fails("c1")
      \/ Processes!Going("c1", "check", 0) \/ Processes!Going("c1", "start", 0)
  BY DEF Processes!Ensure, Processes!None
<1>3. ASSUME NEW a \in {"check", "start"}, Processes!Going("c1", a, 0)
      PROVE  CommandsInv'
  <2>1. cmd' \in [{"c1"} -> Commanding] /\ Now'.at = a
    BY <1>1, <1>3, GoingMoves DEF TaskPlaces
  <2> QED BY <1>1, <2>1, MoveOn DEF Processes!Ensure
<1> QED BY <1>1, <1>2, <1>3, NextTask DEF Processes!Ensure

LEMMA CheckStep == ASSUME CommandsInv, Processes!Check("c1") PROVE CommandsInv'
  BY NextTask DEF CommandsInv, CommandsTypeOK, Attended, Now, Processes!Check, Processes!At

LEMMA WaitStep == ASSUME CommandsInv, Processes!WaitForHealth("c1") PROVE CommandsInv'
  BY NextTask DEF CommandsInv, CommandsTypeOK, Attended, Now, Processes!WaitForHealth,
                  Processes!At

LEMMA WriteClaimStep == ASSUME CommandsInv, Processes!WriteClaim("c1") PROVE CommandsInv'
  BY NextTask DEF CommandsInv, CommandsTypeOK, Commanding, Attended, Now,
                  Processes!WriteClaim, Processes!Task, Processes!At

LEMMA RestoreClaimStep == ASSUME CommandsInv, Processes!RestoreClaim("c1") PROVE CommandsInv'
  BY NextTask DEF CommandsInv, CommandsTypeOK, Commanding, Attended, Now,
                  Processes!RestoreClaim, Processes!Task, Processes!At

LEMMA ProbeStep == ASSUME CommandsInv, Processes!Probe("c1") PROVE CommandsInv'
<1>1. /\ CommandsTypeOK /\ Attended /\ Now.at = "probe" /\ Now.todo # <<>>
      /\ claim' \in Channels
  BY DEF CommandsInv, CommandsTypeOK, Attended, Now, Processes!Probe, Processes!At
<1>2. CASE Processes!Going("c1", "spawn", 0)
  <2>1. /\ cmd' \in [{"c1"} -> Commanding] /\ Now'.at = "spawn"
        /\ Now'.todo = Now.todo /\ Now'.install = Now.install
    BY <1>1, <1>2, GoingMoves DEF TaskPlaces
  <2>2. Service' = "daemon" => \A p \in Pids : ~Supervises(p, Now'.install)
    BY <1>1, <2>1 DEF CommandsInv, Expected, Service
  <2> QED BY <1>1, <2>1, <2>2, MoveOn DEF Processes!Probe
<1> QED BY <1>1, <1>2, NextTask DEF Processes!Probe, Processes!None

(* A task of a command, whose pid file names its supervisor if there is one. *)
LEMMA NoSupervisor ==
    ASSUME CommandsInv, Attended, Service = "daemon",
           ~ Processes!Trusted(Processes!File("c1"), Now.install, Service)
    PROVE  \A p \in Pids : ~Supervises(p, Now.install)
<1> SUFFICES ASSUME NEW p \in Pids, Supervises(p, Now.install) PROVE FALSE
  OBVIOUS
<1>1. pidFile[Now.install]["daemon"] = p
  BY FiledNow DEF CommandsInv, CommandsTypeOK, Commanding, Now
<1>2. p # 0
  BY CommandConstants DEF Pids, Processes!Pids
<1> QED BY <1>1, <1>2 DEF Processes!File, Processes!Svc, Processes!Trusted, Processes!None,
                     Service, Now, Supervises

LEMMA StartStep == ASSUME CommandsInv, Processes!Start("c1") PROVE CommandsInv'
<1>1. /\ CommandsTypeOK /\ Attended /\ Now.todo # <<>> /\ claim' \in Channels
      /\ Now.at \in {"task", "start"}
  BY DEF CommandsInv, CommandsTypeOK, Attended, Now, Processes!Start, Processes!Task,
         Processes!At
<1>2. ASSUME NEW a \in {"probe", "clear"}, Processes!Going("c1", a, 0),
             ~Processes!Alive(Processes!File("c1"))
      PROVE  CommandsInv'
  <2>1. /\ cmd' \in [{"c1"} -> Commanding] /\ Now'.at = a
        /\ Now'.todo = Now.todo /\ Now'.install = Now.install
    BY <1>1, <1>2, GoingMoves DEF TaskPlaces
  <2>2. ~Processes!Trusted(Processes!File("c1"), Now.install, Service)
    BY <1>2 DEF Processes!Alive, Processes!Trusted
  <2>3. Service' = "daemon" => \A p \in Pids : ~Supervises(p, Now'.install)
    BY <1>1, <2>1, <2>2, NoSupervisor DEF Service
  <2> QED BY <1>1, <2>1, <2>3, MoveOn DEF Processes!Start
<1>3. CASE Processes!Fails("c1") \/ Processes!Done("c1")
  BY <1>1, <1>3, NextTask DEF Processes!Start
<1>4. Processes!File("c1") = 0 => ~Processes!Alive(Processes!File("c1"))
  BY DEF Processes!Alive, Processes!None
<1> QED BY <1>2, <1>3, <1>4 DEF Processes!Start, Processes!None

LEMMA StopStep == ASSUME CommandsInv, Processes!Stop("c1") PROVE CommandsInv'
<1> DEFINE file == Processes!File("c1")
<1>1. CommandsTypeOK /\ Attended /\ claim' \in Channels
  BY TaskService DEF CommandsInv, CommandsTypeOK, Attended, Processes!Stop
<1>2. /\ Now.todo # <<>> /\ Processes!Svc("c1") = Service
      /\ file = pidFile[Now.install][Service] /\ file \in Pids \cup {0}
  BY <1>1, TaskService DEF Processes!Stop
<1>3. CASE Processes!Going("c1", "erase", 0) /\ ~Processes!Alive(file)
  <2>1. /\ cmd' \in [{"c1"} -> Commanding] /\ Now'.at = "erase"
        /\ Now'.todo = Now.todo /\ Now'.install = Now.install
    BY <1>1, <1>3, GoingMoves DEF TaskPlaces
  <2>2. ~Processes!Trusted(file, Now.install, Service)
    BY <1>3 DEF Processes!Alive, Processes!Trusted
  <2>3. Service' = "daemon" => \A p \in Pids : ~Supervises(p, Now'.install)
    BY <1>1, <2>1, <2>2, NoSupervisor DEF Service
  <2> QED BY <1>1, <2>1, <2>3, MoveOn DEF Processes!Stop
<1>4. CASE /\ Processes!Going("c1", "term", file)
           /\ Processes!Trusted(file, Now.install, Service)
  <2>1. /\ cmd' \in [{"c1"} -> Commanding] /\ Now'.at = "term" /\ Now'.pid = file
        /\ Now'.todo = Now.todo /\ Now'.install = Now.install
    BY <1>1, <1>2, <1>4, GoingMoves DEF TaskPlaces
  <2>2. Ours(file)
    BY <1>2, <1>4 DEF Ours, Processes!Trusted, Processes!None
  <2>3. Now.install \in Processes!Installs
    BY DEF CommandsInv, CommandsTypeOK, Commanding, Now
  <2>4. Service' = "daemon" => \A p \in Pids : Supervises(p, Now'.install) => p = file
    BY <1>1, <1>2, <2>1, <2>3, FiledNow DEF Service
  <2> QED BY <1>1, <2>1, <2>2, <2>4, MoveOn DEF Processes!Stop
<1>5. CASE Processes!Fails("c1") \/ Processes!Done("c1")
  BY <1>1, <1>2, <1>5, NextTask DEF Processes!Stop
<1> QED BY <1>2, <1>3, <1>4, <1>5 DEF Processes!Stop, Processes!None, Now

LEMMA CleanStep == ASSUME CommandsInv, Processes!Clean("c1") PROVE CommandsInv'
<1> DEFINE file == Processes!File("c1")
<1>1. CommandsTypeOK /\ Attended /\ claim' \in Channels
  BY TaskService DEF CommandsInv, CommandsTypeOK, Attended, Processes!Clean
<1>2. Now.todo # <<>> /\ Processes!Svc("c1") = Service
  BY <1>1, TaskService DEF Processes!Clean
<1>3. CASE /\ Processes!Going("c1", "erase", 0)
           /\ ~Processes!Trusted(file, Now.install, Service)
  <2>1. /\ cmd' \in [{"c1"} -> Commanding] /\ Now'.at = "erase"
        /\ Now'.todo = Now.todo /\ Now'.install = Now.install
    BY <1>1, <1>3, GoingMoves DEF TaskPlaces
  <2>2. Service' = "daemon" => \A p \in Pids : ~Supervises(p, Now'.install)
    BY <1>1, <1>3, <2>1, NoSupervisor DEF Service
  <2> QED BY <1>1, <2>1, <2>2, MoveOn DEF Processes!Clean
<1>4. CASE Processes!Done("c1")
  BY <1>1, <1>2, <1>4, NextTask DEF Processes!Clean
<1> QED BY <1>2, <1>3, <1>4 DEF Processes!Clean, Processes!None, Now

LEMMA WaitForExitStep == ASSUME CommandsInv, Processes!WaitForExit("c1") PROVE CommandsInv'
<1>1. /\ CommandsTypeOK /\ Attended /\ Now.at = "exit" /\ Now.todo # <<>>
      /\ claim' \in Channels
  BY DEF CommandsInv, CommandsTypeOK, Attended, Now, Processes!WaitForExit, Processes!At
<1>2. Ours(Now.pid) /\ Now.pid # 0
  BY <1>1, CommandConstants DEF CommandsInv, OwnSignals, Ours, Pids, Processes!Pids
<1>3. Service = "daemon" => \A p \in Pids : Supervises(p, Now.install) => p = Now.pid
  BY <1>1 DEF CommandsInv, Expected
<1>4. CASE Processes!Going("c1", "erase", 0) /\ ~Processes!Alive(Now.pid)
  <2>1. /\ cmd' \in [{"c1"} -> Commanding] /\ Now'.at = "erase"
        /\ Now'.todo = Now.todo /\ Now'.install = Now.install
    BY <1>1, <1>4, GoingMoves DEF TaskPlaces
  <2>2. Service' = "daemon" => \A p \in Pids : ~Supervises(p, Now'.install)
    BY <1>2, <1>3, <1>4, <2>1 DEF Service, Supervises, Processes!Alive, Processes!None
  <2> QED BY <1>1, <2>1, <2>2, MoveOn DEF Processes!WaitForExit
<1>5. CASE Processes!Going("c1", "kill", Now.pid)
  <2>1. /\ cmd' \in [{"c1"} -> Commanding] /\ Now'.at = "kill" /\ Now'.pid = Now.pid
        /\ Now'.todo = Now.todo /\ Now'.install = Now.install
    BY <1>1, <1>2, <1>5, GoingMoves DEF TaskPlaces, Ours
  <2>2. Service' = "daemon" => \A p \in Pids : Supervises(p, Now'.install) => p = Now'.pid
    BY <1>3, <2>1 DEF Service
  <2> QED BY <1>1, <1>2, <2>1, <2>2, MoveOn DEF Processes!WaitForExit
<1>6. CASE Processes!Fails("c1")
  BY <1>1, <1>6, NextTask DEF Processes!WaitForExit
<1> QED BY <1>4, <1>5, <1>6 DEF Processes!WaitForExit, Processes!None, Now

LEMMA LaunchStep == ASSUME CommandsInv, Processes!Launch("c1") PROVE CommandsInv'
<1>1. /\ CommandsTypeOK /\ Attended /\ Now.todo # <<>> /\ claim' \in Channels
  BY DEF CommandsInv, CommandsTypeOK, Attended, Now, Processes!Launch, Processes!Task,
         Processes!At
<1> DEFINE list == Processes!Each("ensure", Processes!StartOrder(Services))
           new == [Processes!Idle EXCEPT !.at = "task", !.todo = list]
<1>2. new \in Commanding /\ new.at = "task"
  <2>1. list \in Seq(Tasks)
    BY OrderTypes, EachType
  <2> HIDE DEF list
  <2> QED BY <2>1, IdleType DEF Commanding, TaskPlaces
<1>3. CASE cmd' = [cmd EXCEPT !["c1"] = new]
  <2> HIDE DEF new
  <2>1. cmd' \in [{"c1"} -> Commanding] /\ Now'.at = "task"
    BY <1>1, <1>2, <1>3 DEF CommandsTypeOK, Now
  <2> QED BY <1>1, <2>1, MoveOn DEF Processes!Launch
<1>4. CASE Processes!Fails("c1") \/ Processes!Done("c1")
  BY <1>1, <1>4, NextTask DEF Processes!Launch
<1> QED BY <1>3, <1>4 DEF Processes!Launch

LEMMA RealignStep == ASSUME CommandsInv, Processes!Realign("c1") PROVE CommandsInv'
<1>1. /\ CommandsTypeOK /\ Attended /\ Now.todo # <<>> /\ claim' \in Channels
      /\ Now.at = "task"
  BY DEF CommandsInv, CommandsTypeOK, Attended, Now, Processes!Realign, Processes!Task,
         Processes!At
<1> DEFINE k == cmd["c1"]
           list == Processes!TransferTasks(k.was)
           new == [k EXCEPT !.todo = list, !.over = k.was, !.was = claim, !.force = TRUE]
<1>2. new \in Commanding /\ new.at = "task"
  <2>1. list \in Seq(Tasks) /\ k \in Commanding /\ claim \in Channels /\ k.at = "task"
    BY <1>1, TransferTasksType DEF CommandsTypeOK, Now
  <2> HIDE DEF list, k
  <2> QED BY <2>1 DEF Commanding
<1>3. CASE cmd' = [cmd EXCEPT !["c1"].todo = list, !["c1"].over = k.was,
                              !["c1"].was = claim, !["c1"].force = TRUE]
  <2>1. cmd' = [cmd EXCEPT !["c1"] = new]
    BY <1>1, <1>3 DEF CommandsTypeOK, Commanding
  <2> HIDE DEF new
  <2>2. cmd' \in [{"c1"} -> Commanding] /\ Now'.at = "task"
    BY <1>1, <1>2, <2>1 DEF CommandsTypeOK, Now
  <2> QED BY <1>1, <2>2, MoveOn DEF Processes!Realign
<1>4. CASE Processes!Done("c1")
  BY <1>1, <1>4, NextTask DEF Processes!Realign
<1> QED BY <1>3, <1>4 DEF Processes!Realign

(* A pid file that is removed names no supervisor. *)
LEMMA FileRemoved ==
    ASSUME CommandsInv, UNCHANGED <<proc, told, claim>>,
           Now.at \in {"clear", "erase"}, Now.todo # <<>>,
           Processes!SetFile(Now.install, Service, 0),
           cmd' \in [{"c1"} -> Commanding],
           \/ Now'.at = "task"
           \/ /\ Now'.at = "probe"
              /\ Now'.todo = Now.todo /\ Now'.install = Now.install
    PROVE  CommandsInv'
<1>1. Now.install \in Processes!Installs
  BY DEF CommandsInv, CommandsTypeOK, Commanding, Now
<1>2. CommandsTypeOK'
  BY <1>1 DEF CommandsInv, CommandsTypeOK, Processes!SetFile
<1>3. \A p, i : Supervises(p, i)' <=> Supervises(p, i)
  BY DEF Supervises
<1>4. Service = "daemon" => \A p \in Pids : ~Supervises(p, Now.install)
  BY DEF CommandsInv, Expected
<1>5. OwnSignals' /\ Spawned'
  BY DEF CommandsInv, OwnSignals, Spawned, Ours, Pids, Processes!Pids
<1>6. OneSupervisor'
  BY <1>3 DEF CommandsInv, OneSupervisor, Pids, Processes!Pids, Processes!Installs
<1>7. ASSUME NEW i \in Processes!Installs, NEW p \in Pids, Supervises(p, i)
      PROVE  pidFile'[i]["daemon"] = p
  <2>1. pidFile[i]["daemon"] = p
    BY <1>7, FiledNow DEF Attended
  <2>2. ~(Service = "daemon" /\ i = Now.install)
    BY <1>4, <1>7
  <2> QED BY <1>1, <2>1, <2>2 DEF CommandsInv, CommandsTypeOK, Processes!SetFile
<1>8. Filed'
  BY <1>3, <1>7 DEF Filed, Pids, Processes!Pids, Processes!Installs
<1>9. Expected'
  BY <1>3, <1>4 DEF Expected, Service, Pids, Processes!Pids
<1> QED BY <1>2, <1>5, <1>6, <1>8, <1>9 DEF CommandsInv

LEMMA ClearStep == ASSUME CommandsInv, Processes!Clear("c1") PROVE CommandsInv'
<1>1. CommandsTypeOK /\ Now.at = "clear" /\ Now.todo # <<>>
  BY DEF CommandsInv, Now, Processes!Clear, Processes!At
<1>2. Processes!SetFile(Now.install, Service, 0)
  BY DEF Processes!Clear, Processes!Svc, Processes!None, Now, Service
<1>3. /\ cmd' \in [{"c1"} -> Commanding] /\ Now'.at = "probe"
      /\ Now'.todo = Now.todo /\ Now'.install = Now.install
  BY <1>1, GoingMoves DEF TaskPlaces, Processes!Clear, Processes!None
<1> QED BY <1>1, <1>2, <1>3, FileRemoved DEF Processes!Clear

LEMMA EraseStep == ASSUME CommandsInv, Processes!Erase("c1") PROVE CommandsInv'
<1>1. CommandsTypeOK /\ Now.at = "erase" /\ Now.todo # <<>>
  BY DEF CommandsInv, Now, Processes!Erase, Processes!At
<1>2. Processes!SetFile(Now.install, Service, 0)
  BY DEF Processes!Erase, Processes!Svc, Processes!None, Now, Service
<1>3. cmd' \in [{"c1"} -> Commanding] /\ Now'.at = "task"
  BY <1>1, DoneMoves DEF Processes!Erase
<1> QED BY <1>1, <1>2, <1>3, FileRemoved DEF Processes!Erase

LEMMA TerminateStep == ASSUME CommandsInv, Processes!Terminate("c1") PROVE CommandsInv'
<1>1. /\ CommandsTypeOK /\ Attended /\ Now.at = "term" /\ Now.todo # <<>>
      /\ claim' \in Channels
  BY DEF CommandsInv, CommandsTypeOK, Attended, Now, Processes!Terminate, Processes!At
<1>2. Ours(Now.pid)
  BY <1>1 DEF CommandsInv, OwnSignals
<1>3. CASE told' = told \cup {Now.pid} /\ Processes!Going("c1", "exit", Now.pid)
  <2>1. /\ cmd' \in [{"c1"} -> Commanding] /\ Now'.at = "exit" /\ Now'.pid = Now.pid
        /\ Now'.todo = Now.todo /\ Now'.install = Now.install
    BY <1>1, <1>2, <1>3, GoingMoves DEF TaskPlaces, Ours
  <2>2. UNCHANGED <<proc, pidFile, claim>>
    BY DEF Processes!Terminate
  <2>3. CommandsTypeOK'
    BY <1>2, <1>3, <2>1, <2>2 DEF CommandsInv, CommandsTypeOK, Ours
  <2>4. \A p, i : Supervises(p, i)' <=> Supervises(p, i)
    BY <2>2 DEF Supervises
  <2>5. OwnSignals' /\ Spawned'
    BY <1>2, <1>3, <2>1, <2>2 DEF CommandsInv, OwnSignals, Spawned, Ours, Pids,
                                  Processes!Pids
  <2>6. OneSupervisor'
    BY <2>4 DEF CommandsInv, OneSupervisor, Pids, Processes!Pids, Processes!Installs
  <2>7. Filed'
    BY <1>1, <2>2, <2>4, FiledNow DEF Filed, Pids, Processes!Pids, Processes!Installs
  <2>8. Expected'
    BY <1>1, <2>1, <2>4 DEF CommandsInv, Expected, Service, Pids, Processes!Pids
  <2> QED BY <2>3, <2>5, <2>6, <2>7, <2>8 DEF CommandsInv
<1>4. CASE Processes!Going("c1", "erase", 0) /\ Service = "plugin" /\ UNCHANGED told
  <2>1. /\ cmd' \in [{"c1"} -> Commanding] /\ Now'.at = "erase"
        /\ Now'.todo = Now.todo /\ Now'.install = Now.install
    BY <1>1, <1>4, GoingMoves DEF TaskPlaces
  <2>2. Service' # "daemon"
    BY <1>4, <2>1 DEF Service
  <2> QED BY <1>1, <1>4, <2>1, <2>2, MoveOn DEF Processes!Terminate
<1>5. CASE Processes!Fails("c1") /\ UNCHANGED told
  BY <1>1, <1>5, NextTask DEF Processes!Terminate
<1> QED BY <1>3, <1>4, <1>5 DEF Processes!Terminate, Processes!Svc, Processes!None, Now,
                              Service

LEMMA KillStep == ASSUME CommandsInv, Processes!Kill("c1") PROVE CommandsInv'
<1>1. /\ CommandsTypeOK /\ Attended /\ Now.at = "kill" /\ Now.todo # <<>>
      /\ claim' \in Channels
  BY DEF CommandsInv, CommandsTypeOK, Attended, Now, Processes!Kill, Processes!At
<1>2. Ours(Now.pid)
  BY <1>1 DEF CommandsInv, OwnSignals
<1>3. Service = "daemon" => \A p \in Pids : Supervises(p, Now.install) => p = Now.pid
  BY <1>1 DEF CommandsInv, Expected
<1>4. CASE proc' = [proc EXCEPT ![Now.pid].st = "dead"] /\ Processes!Going("c1", "erase", 0)
  <2>1. /\ cmd' \in [{"c1"} -> Commanding] /\ Now'.at = "erase"
        /\ Now'.todo = Now.todo /\ Now'.install = Now.install
    BY <1>1, <1>4, GoingMoves DEF TaskPlaces
  <2>2. UNCHANGED <<pidFile, claim, told>> /\ Pids' = Pids
        /\ Processes!Installs' = Processes!Installs
    BY DEF Processes!Kill, Pids, Processes!Pids, Processes!Installs
  <2>3. CommandsTypeOK'
    BY <1>1, <1>2, <1>4, <2>1, <2>2, ZenonT(30) DEF CommandsTypeOK, Ours, Processing
  <2>4. \A p \in Pids :
           /\ proc'[p].st = IF p = Now.pid THEN "dead" ELSE proc[p].st
           /\ proc'[p].svc = proc[p].svc /\ proc'[p].install = proc[p].install
    BY <1>1, <1>2, <1>4 DEF CommandsTypeOK, Processing
  <2>5. \A p \in Pids : \A i : Supervises(p, i)' => Supervises(p, i) /\ p # Now.pid
    BY <2>4 DEF Supervises
  <2>6. OwnSignals' /\ Spawned'
    BY <1>1, <2>1, <2>2, <2>4 DEF CommandsInv, OwnSignals, Spawned, Ours
  <2>7. OneSupervisor'
    BY <2>2, <2>5 DEF CommandsInv, OneSupervisor
  <2>8. Filed'
    BY <1>1, <2>2, <2>5, FiledNow DEF Filed
  <2>9. Expected'
    BY <1>3, <2>1, <2>2, <2>5 DEF Expected, Service
  <2> QED BY <2>3, <2>6, <2>7, <2>8, <2>9 DEF CommandsInv
<1>5. CASE Processes!Fails("c1") /\ UNCHANGED proc
  BY <1>1, <1>5, NextTask DEF Processes!Kill
<1> QED BY <1>4, <1>5 DEF Processes!Kill, Processes!Killed, Processes!None, Now

LEMMA SpawnStep == ASSUME CommandsInv, Processes!SpawnDetached("c1") PROVE CommandsInv'
<1>1. CommandsTypeOK /\ Attended /\ Now.at = "spawn" /\ Now.todo # <<>>
  BY DEF CommandsInv, Attended, Now, Processes!SpawnDetached, Processes!At
<1>2. Service = "daemon" => \A p \in Pids : ~Supervises(p, Now.install)
  BY <1>1 DEF CommandsInv, Expected
<1>3. PICK new \in Pids :
        /\ proc[new].st = "unused"
        /\ proc' = [proc EXCEPT ![new] =
                      [st |-> "booting", svc |-> Service, install |-> Now.install]]
        /\ Processes!Going("c1", "write", new)
  BY DEF Processes!SpawnDetached, Processes!Svc, Pids, Now, Service
<1>4. /\ cmd' \in [{"c1"} -> Commanding] /\ Now'.at = "write" /\ Now'.pid = new
      /\ Now'.todo = Now.todo /\ Now'.install = Now.install
  BY <1>1, <1>3, GoingMoves DEF TaskPlaces
<1>5. UNCHANGED <<pidFile, claim, told>> /\ Pids' = Pids
      /\ Processes!Installs' = Processes!Installs
  BY DEF Processes!SpawnDetached, Pids, Processes!Pids, Processes!Installs
<1>6. Service \in Services \cup {"none"} /\ Now.install \in Processes!Installs
  <2>1. Head(Now.todo) \in Tasks
    BY <1>1, HeadTailProperties DEF CommandsTypeOK, Commanding, Now
  <2> QED BY <1>1, <2>1 DEF Tasks, Service, CommandsTypeOK, Commanding, Now
<1>7. CommandsTypeOK'
  BY <1>1, <1>3, <1>4, <1>5, <1>6 DEF CommandsTypeOK, Processing
<1>8. /\ \A p \in Pids : p # new => proc'[p] = proc[p]
      /\ proc'[new].st = "booting"
      /\ proc'[new].svc = Service /\ proc'[new].install = Now.install
  BY <1>1, <1>3 DEF CommandsTypeOK
<1>9. \A p \in Pids : \A i : Supervises(p, i)' =>
         \/ p # new /\ Supervises(p, i)
         \/ p = new /\ Service = "daemon" /\ i = Now.install
  BY <1>8 DEF Supervises
<1>10. OwnSignals' /\ Spawned'
  BY <1>1, <1>3, <1>4, <1>5, <1>8 DEF CommandsInv, OwnSignals, Spawned, Ours, Service
<1>11. OneSupervisor'
  BY <1>2, <1>5, <1>9 DEF CommandsInv, OneSupervisor
<1>12. Filed'
  BY <1>1, <1>4, <1>5, <1>8, <1>9, FiledNow DEF Filed, Unfiled
<1>13. Expected'
  BY <1>2, <1>4, <1>5, <1>9 DEF Expected, Service
<1> QED BY <1>7, <1>10, <1>11, <1>12, <1>13 DEF CommandsInv

LEMMA WritePidFileStep ==
    ASSUME CommandsInv, Processes!WritePidFile("c1") PROVE CommandsInv'
<1>1. CommandsTypeOK /\ Now.at = "write" /\ Now.todo # <<>>
  BY DEF CommandsInv, Now, Processes!WritePidFile, Processes!At
<1>2. /\ Ours(Now.pid)
      /\ proc[Now.pid].svc = Service /\ proc[Now.pid].install = Now.install
  BY <1>1 DEF CommandsInv, Spawned
<1>3. Service = "daemon" => \A p \in Pids : Supervises(p, Now.install) => p = Now.pid
  BY <1>1 DEF CommandsInv, Expected
<1>4. pidFile' = [pidFile EXCEPT ![Now.install][Service] = Now.pid]
  BY DEF Processes!WritePidFile, Processes!SetFile, Processes!Svc, Now, Service
<1>5. /\ cmd' \in [{"c1"} -> Commanding] /\ Now'.at = "wait" /\ Now'.pid = Now.pid
      /\ Now'.todo = Now.todo /\ Now'.install = Now.install
  <2>1. Processes!Going("c1", "wait", Now.pid)
    BY DEF Processes!WritePidFile, Now
  <2> QED BY <1>1, <1>2, <2>1, GoingMoves DEF TaskPlaces, Ours
<1>6. UNCHANGED <<proc, claim, told>> /\ Pids' = Pids
      /\ Processes!Installs' = Processes!Installs
  BY DEF Processes!WritePidFile, Pids, Processes!Pids, Processes!Installs
<1>7. Now.install \in Processes!Installs /\ "daemon" \in Services
  BY <1>1, CommandConstants DEF CommandsTypeOK, Commanding, Now
<1>8. CommandsTypeOK'
  BY <1>1, <1>2, <1>4, <1>5, <1>6, <1>7 DEF CommandsTypeOK, Ours
<1>9. \A p, i : Supervises(p, i)' <=> Supervises(p, i)
  BY <1>6 DEF Supervises
<1>10. OwnSignals' /\ Spawned'
  BY <1>5, <1>6 DEF CommandsInv, OwnSignals, Spawned, Ours
<1>11. OneSupervisor'
  BY <1>6, <1>9 DEF CommandsInv, OneSupervisor
<1>12. ASSUME NEW i \in Processes!Installs, NEW p \in Pids, Supervises(p, i)
       PROVE  pidFile'[i]["daemon"] = p
  <2>1. CASE Service = "daemon" /\ i = Now.install
    BY <1>1, <1>3, <1>4, <1>7, <1>12, <2>1 DEF CommandsTypeOK
  <2>2. CASE ~(Service = "daemon" /\ i = Now.install)
    <3>1. pidFile'[i]["daemon"] = pidFile[i]["daemon"]
      BY <1>1, <1>4, <1>7, <2>2 DEF CommandsTypeOK
    <3>2. p # Now.pid
      BY <1>2, <1>12, <2>2 DEF Supervises
    <3>3. pidFile[i]["daemon"] = p
      BY <1>1, <1>12, <3>2 DEF CommandsInv, Filed, Unfiled
    <3> QED BY <3>1, <3>3
  <2> QED BY <2>1, <2>2
<1>13. Filed'
  BY <1>6, <1>9, <1>12 DEF Filed
<1>14. Expected'
  BY <1>5 DEF Expected
<1> QED BY <1>8, <1>10, <1>11, <1>13, <1>14 DEF CommandsInv

(* A supervisor tells its pid file what is in it, or will be. *)
LEMMA Registers ==
    ASSUME CommandsInv, NEW p \in Pids, Processes!Register(p),
           proc[p].st \in {"booting", "up"}
    PROVE  /\ pidFile' \in [Processes!Installs -> [Services -> Pids \cup {0}]]
           /\ proc[p].svc = "daemon" => pidFile'[proc[p].install]["daemon"] = p
           /\ \A i \in Processes!Installs :
                 \/ pidFile'[i]["daemon"] = pidFile[i]["daemon"]
                 \/ \E q \in Pids : Supervises(q, i) /\ pidFile'[i]["daemon"] = q
<1>1. /\ CommandsTypeOK /\ "daemon" \in Services
      /\ proc[p].install \in Processes!Installs
  BY CommandConstants DEF CommandsInv, CommandsTypeOK, Processing
<1>2. CASE proc[p].svc = "daemon"
  <2>1. pidFile' = [pidFile EXCEPT ![proc[p].install]["daemon"] = p]
    BY <1>2 DEF Processes!Register, Processes!SetFile
  <2>2. pidFile' \in [Processes!Installs -> [Services -> Pids \cup {0}]]
    BY <1>1, <2>1 DEF CommandsTypeOK
  <2>3. pidFile'[proc[p].install]["daemon"] = p
    BY <1>1, <2>1 DEF CommandsTypeOK
  <2>4. \A i \in Processes!Installs :
           i # proc[p].install => pidFile'[i]["daemon"] = pidFile[i]["daemon"]
    BY <1>1, <2>1 DEF CommandsTypeOK
  <2>5. Supervises(p, proc[p].install)
    BY <1>2 DEF Supervises
  <2> QED BY <2>2, <2>3, <2>4, <2>5
<1>3. CASE proc[p].svc # "daemon"
  BY <1>1, <1>3 DEF Processes!Register, CommandsTypeOK
<1> QED BY <1>2, <1>3

(* A step of process p: it may boot or die, and tells its pid file or not. *)
LEMMA OneProcessMoves ==
    ASSUME CommandsInv, NEW p \in Pids, UNCHANGED <<claim, told, cmd>>,
           \/ UNCHANGED proc
           \/ /\ proc[p].st \in {"booting", "up"}
              /\ proc' = [proc EXCEPT ![p].st = "dead"]
           \/ /\ proc[p].st = "booting" /\ Processes!Register(p)
              /\ proc' = [proc EXCEPT ![p].st = "up"],
           \/ UNCHANGED pidFile
           \/ proc[p].st \in {"booting", "up"} /\ Processes!Register(p)
    PROVE  CommandsInv'
<1>1. CommandsTypeOK
  BY DEF CommandsInv
<1>2. \/ UNCHANGED proc
      \/ \E s \in {"up", "dead"} :
            /\ proc' = [proc EXCEPT ![p].st = s] /\ proc[p].st \in {"booting", "up"}
            /\ s = "up" => proc[p].st = "booting" /\ Processes!Register(p)
  OBVIOUS
<1>3. ASSUME NEW s \in {"up", "dead"}, proc' = [proc EXCEPT ![p].st = s]
      PROVE  /\ proc' \in [Pids -> Processing]
             /\ \A q \in Pids : q # p => proc'[q] = proc[q]
             /\ proc'[p].st = s /\ proc'[p].svc = proc[p].svc
             /\ proc'[p].install = proc[p].install
  <2>1. proc[p] \in Processing /\ [proc[p] EXCEPT !.st = s] \in Processing
    BY <1>1 DEF CommandsTypeOK, Processing
  <2> QED BY <1>1, <1>3, <2>1 DEF CommandsTypeOK, Processing
<1>4. CommandsTypeOK'
  BY <1>1, <1>2, <1>3, Registers DEF CommandsTypeOK, Pids, Processes!Pids,
                                     Processes!Installs, Channels
<1>5. proc[p].st = "booting" /\ Processes!Register(p) /\ proc[p].svc = "daemon"
         => pidFile'[proc[p].install]["daemon"] = p
  BY Registers
<1>6. \A q \in Pids :
         /\ proc'[q].svc = proc[q].svc /\ proc'[q].install = proc[q].install
         /\ \/ proc'[q].st = proc[q].st
            \/ proc[q].st \in {"booting", "up"} /\ proc'[q].st = "dead"
            \/ /\ proc[q].st = "booting" /\ proc'[q].st = "up"
               /\ proc[q].svc = "daemon" => pidFile'[proc[q].install]["daemon"] = q
  BY <1>2, <1>3, <1>5
<1>7. \A i \in Processes!Installs :
         \/ pidFile'[i]["daemon"] = pidFile[i]["daemon"]
         \/ \E q \in Pids : Supervises(q, i) /\ pidFile'[i]["daemon"] = q
  BY Registers
<1> QED BY <1>4, <1>6, <1>7, ProcessMoves

LEMMA ProcessStep ==
    ASSUME CommandsInv, NEW p \in Pids,
           \/ Processes!Boot(p) \/ Processes!Bind(p) \/ Processes!PortTaken(p)
           \/ Processes!ChildEnds(p) \/ Processes!Crash(p) \/ Processes!Terminates(p)
    PROVE  CommandsInv'
<1>1. CASE Processes!Boot(p)
  BY <1>1, OneProcessMoves DEF Processes!Boot
<1>2. CASE Processes!Bind(p)
  BY <1>2, OneProcessMoves DEF Processes!Bind
<1>3. CASE Processes!PortTaken(p)
  BY <1>3, OneProcessMoves DEF Processes!PortTaken
<1>4. CASE Processes!ChildEnds(p)
  BY <1>4, OneProcessMoves DEF Processes!ChildEnds
<1>5. CASE Processes!Crash(p)
  BY <1>5, OneProcessMoves DEF Processes!Crash, Processes!Killed
<1>6. CASE Processes!Terminates(p)
  BY <1>6, OneProcessMoves DEF Processes!Terminates
<1> QED BY <1>1, <1>2, <1>3, <1>4, <1>5, <1>6

LEMMA RebootStep == ASSUME CommandsInv, Processes!Reboot PROVE CommandsInv'
<1>1. CommandsTypeOK /\ Pids' = Pids /\ Processes!Installs' = Processes!Installs
  BY DEF CommandsInv, Pids, Processes!Pids, Processes!Installs
<1>2. cmd' \in [{"c1"} -> Commanding] /\ Now'.at = "idle" /\ Now'.pid = 0
  BY IdleType DEF Processes!Reboot, Now
<1>3. proc' \in [Pids -> Processing]
      /\ \A p \in Pids : proc'[p].st \notin {"booting", "up"}
  <2>1. PICK X :
          proc' = [p \in Pids |->
                     IF proc[p].st = "unused" THEN proc[p]
                     ELSE [proc[p] EXCEPT !.st = IF p \in X THEN "stranger" ELSE "dead"]]
    BY DEF Processes!Reboot, Pids
  <2>2. \A p \in Pids : proc'[p] \in Processing /\ proc'[p].st \notin {"booting", "up"}
    BY <1>1, <2>1 DEF CommandsTypeOK, Processing
  <2> QED BY <2>1, <2>2
<1>4. CommandsTypeOK'
  BY <1>1, <1>2, <1>3 DEF CommandsTypeOK, Processes!Reboot, Channels
<1>5. \A p \in Pids : \A i : ~Supervises(p, i)'
  BY <1>3 DEF Supervises
<1>6. OwnSignals' /\ Spawned'
  BY <1>2 DEF OwnSignals, Spawned, Processes!Reboot
<1>7. OneSupervisor' /\ Filed' /\ Expected'
  BY <1>1, <1>5 DEF OneSupervisor, Filed, Expected
<1> QED BY <1>4, <1>6, <1>7 DEF CommandsInv

LEMMA CommandStep == ASSUME CommandsInv, Processes!Step("c1") PROVE CommandsInv'
  BY CommandEnds, EnsureStep, CheckStep, StartStep, ClearStep, ProbeStep, SpawnStep,
     WritePidFileStep, WaitStep, StopStep, TerminateStep, WaitForExitStep, KillStep,
     EraseStep, WriteClaimStep, RestoreClaimStep, LaunchStep, CleanStep, RealignStep
  DEF Processes!Step, Processes!Ends

LEMMA CommandsInitInv == ASSUME Processes!Init PROVE CommandsInv
<1>1. CommandsTypeOK
  BY IdleType DEF Processes!Init, CommandsTypeOK, Processing, Channels, Pids,
                  Processes!None, Processes!Installs, Processes!Stable
<1>2. Now.at = "idle" /\ Now.pid = 0
  BY IdleType DEF Processes!Init, Now
<1>3. \A p \in Pids : \A i : ~Supervises(p, i)
  BY DEF Processes!Init, Supervises, Pids
<1> QED BY <1>1, <1>2, <1>3 DEF CommandsInv, OwnSignals, Spawned, OneSupervisor, Filed,
                              Expected, Processes!Init

LEMMA CommandsNextInv ==
    ASSUME CommandsInv, [Processes!Next]_(Processes!stackVars) PROVE CommandsInv'
<1>1. CASE UNCHANGED Processes!stackVars
  BY <1>1 DEF Processes!stackVars, CommandsInv, CommandsTypeOK, OwnSignals, Spawned,
         OneSupervisor, Filed, Expected, Unfiled, Supervises, Ours, Now, Service, Pids,
         Processes!Pids, Processes!Installs, Channels, Commanding, Processing
<1>2. CASE Processes!Interrupted("c1")
  BY <1>2, CommandEnds DEF Processes!Interrupted
<1> QED BY <1>1, <1>2, CommandStep, BeginStep, ProcessStep, RebootStep
       DEF Processes!Next, Pids

-----------------------------------------------------------------------------
(* The feed: while the socket is open, what a forwarder sent last is what is
   known at the bridge, and it is what the user came to rest on unless an event
   is on its way or a run is under way that will repeat. *)

Contexts == [place : Places, focus : Rems \cup {NoRem}]

SelectionReads == {<<>>} \cup {<<s>> : s \in SUBSET Rems}
PlaceReads == {<<>>} \cup {<<p>> : p \in Places}
ContextReads == {<<>>} \cup {<<c>> : c \in Contexts}

KnownClients == [selection : SelectionReads, uiContext : ContextReads]

Runnings == [ws : Nat, read : SelectionReads \cup PlaceReads, forced : BOOLEAN]

FeedTypeOK ==
    /\ ui \in [place : Places, focus : Rems \cup {NoRem}, selection : SUBSET Rems]
    /\ session \in Nat /\ link \in {"closed", "open"}
    /\ task \in [Feed!Forwarders -> Runnings]
    /\ task["selection"].read \in SelectionReads
    /\ task["uiContext"].read \in PlaceReads
    /\ again \in [Feed!Forwarders -> BOOLEAN]
    /\ DOMAIN sent = Feed!Forwarders
    /\ sent["selection"] \in SelectionReads /\ sent["uiContext"] \in ContextReads
    /\ crossed \in BOOLEAN
    /\ \A c \in DOMAIN known : known[c] \in KnownClients

Resting(f) == task[f] = Feed!Idle

(* Nothing that the user did is yet to be noticed by the forwarder. *)
Informed(f) == f \notin due /\ ~again[f]

RepeatsRuns == \A f \in Feed!Forwarders : again[f] => ~Resting(f)

SelectionInv ==
    link = "open" =>
        /\ known[session].selection \in {<<>>, <<{}>>, sent["selection"]}
        /\ Resting("selection") => sent["selection"] # <<>>
        /\ ~Resting("selection") /\ task["selection"].ws # session =>
               sent["selection"] = <<>> /\ again["selection"]
        /\ Informed("selection") /\ Resting("selection") =>
               sent["selection"] = <<Feed!Selected>>
        /\ Informed("selection") /\ task["selection"].read # <<>> =>
               task["selection"].read = <<ui.selection>>

ContextInv ==
    link = "open" /\ ~crossed =>
        /\ ~Resting("uiContext") => task["uiContext"].ws = session
        /\ known[session].uiContext = sent["uiContext"]
        /\ Resting("uiContext") => sent["uiContext"] # <<>>
        /\ Informed("uiContext") /\ Resting("uiContext") =>
               sent["uiContext"] = <<[place |-> ui.place, focus |-> ui.focus]>>
        /\ Informed("uiContext") /\ task["uiContext"].read # <<>> =>
               task["uiContext"].read = <<ui.place>>

FeedInv ==
    /\ FeedTypeOK /\ RepeatsRuns /\ SelectionInv /\ ContextInv
    /\ link = "open" => session \in DOMAIN known /\ session > 0

LEMMA FeedInitInv == ASSUME Feed!Init PROVE FeedInv
<1>1. FeedTypeOK
  <2>1. DOMAIN <<>> = {}
    OBVIOUS
  <2> QED
    BY <2>1, FeedConstants DEF Feed!Init, FeedTypeOK, Feed!Forwarders, Feed!Idle,
           Feed!Nothing, Runnings, SelectionReads, PlaceReads, ContextReads
<1> QED BY <1>1 DEF Feed!Init, FeedInv, RepeatsRuns, SelectionInv, ContextInv

(* Closed, nothing is said. *)
LEMMA ClosedInv ==
    ASSUME FeedTypeOK, RepeatsRuns, link = "closed" PROVE FeedInv
  BY DEF FeedInv, SelectionInv, ContextInv

LEMMA ActStep == ASSUME FeedInv, Feed!Act PROVE FeedInv'
<1>1. FeedTypeOK'
  BY DEF FeedInv, FeedTypeOK, Feed!Act
<1>2. /\ UNCHANGED <<session, link, task, again, sent, crossed, known>>
      /\ \A f : f \in due => f \in due'
  BY DEF Feed!Act
<1>3. /\ "selection" \notin due' => UNCHANGED <<ui.selection, ui.focus>>
      /\ "uiContext" \notin due' => UNCHANGED <<ui.place, ui.focus>>
  <2>1. CASE \E q \in Places \ {ui.place} : ui' = [ui EXCEPT !.place = q]
    BY <2>1 DEF FeedInv, FeedTypeOK, Feed!Act, Feed!Listeners, Feed!Forwarders
  <2>2. CASE \E r \in (Rems \cup {NoRem}) \ {ui.focus} : ui' = [ui EXCEPT !.focus = r]
    BY <2>2 DEF FeedInv, FeedTypeOK, Feed!Act, Feed!Listeners, Feed!Forwarders
  <2>3. CASE \E s \in (SUBSET Rems) \ {ui.selection} : ui' = [ui EXCEPT !.selection = s]
    BY <2>3 DEF FeedInv, FeedTypeOK, Feed!Act, Feed!Listeners, Feed!Forwarders
  <2> QED BY <2>1, <2>2, <2>3 DEF Feed!Act
<1>4. SelectionInv'
  BY <1>2, <1>3 DEF FeedInv, SelectionInv, Informed, Resting, Feed!Selected,
                    Feed!UnlessLeft, Feed!Idle, Feed!Nothing
<1>5. ContextInv'
  BY <1>2, <1>3 DEF FeedInv, ContextInv, Informed, Resting, Feed!Idle, Feed!Nothing
<1> QED BY <1>1, <1>2, <1>4, <1>5 DEF FeedInv, RepeatsRuns, Resting, Feed!Idle,
                                     Feed!Nothing, Feed!Forwarders

LEMMA CloseStep == ASSUME FeedInv, Feed!Close PROVE FeedInv'
  BY DEF FeedInv, FeedTypeOK, RepeatsRuns, SelectionInv, ContextInv, Resting, Feed!Close

LEMMA GoneStep == ASSUME FeedInv, NEW c, Feed!Gone(c) PROVE FeedInv'
<1>1. UNCHANGED <<ui, due, session, link, task, again, sent, crossed>>
  BY DEF Feed!Gone
<1>2. /\ known' = [d \in DOMAIN known \ {c} |-> known[d]]
      /\ link = "open" => c # session
  BY DEF Feed!Gone, FeedInv, FeedTypeOK
<1>3. FeedTypeOK'
  BY <1>1, <1>2 DEF FeedInv, FeedTypeOK
<1>4. link = "open" => session \in DOMAIN known' /\ known'[session] = known[session]
  BY <1>2 DEF FeedInv
<1>5. SelectionInv'
  BY <1>1, <1>4 DEF FeedInv, SelectionInv, Informed, Resting, Feed!Selected,
                    Feed!UnlessLeft, Feed!Idle, Feed!Nothing
<1>6. ContextInv'
  BY <1>1, <1>4 DEF FeedInv, ContextInv, Informed, Resting, Feed!Idle, Feed!Nothing
<1> QED BY <1>1, <1>3, <1>4, <1>5, <1>6 DEF FeedInv, RepeatsRuns, Resting, Feed!Idle,
                                            Feed!Nothing, Feed!Forwarders

(* A forwarder that is called starts, or is to repeat. *)
LEMMA CallMoves ==
    ASSUME FeedTypeOK, NEW F \in SUBSET Feed!Forwarders, NEW forced \in BOOLEAN,
           Feed!Call(F, forced), session' \in Nat
    PROVE  /\ task' \in [Feed!Forwarders -> Runnings]
           /\ task'["selection"].read \in SelectionReads
           /\ task'["uiContext"].read \in PlaceReads
           /\ again' \in [Feed!Forwarders -> BOOLEAN]
           /\ \A f \in Feed!Forwarders :
                /\ f \notin F => task'[f] = task[f] /\ again'[f] = again[f]
                /\ f \in F /\ Resting(f) =>
                     /\ again'[f] = again[f]
                     /\ link' = "open" =>
                          task'[f].ws = session' /\ task'[f].read = <<>>
                     /\ link' # "open" => task'[f] = task[f]
                /\ f \in F /\ ~Resting(f) => again'[f] /\ task'[f] = task[f]
<1>1. \A f \in Feed!Forwarders :
         /\ task[f] \in Runnings
         /\ Feed!Task(f, forced) \in Runnings
         /\ Feed!Task(f, forced).read \in {task[f].read, <<>>}
  BY DEF FeedTypeOK, Feed!Task, Runnings, Feed!Nothing, SelectionReads
<1>2. \A f \in Feed!Forwarders : task'[f] = IF f \in F THEN Feed!Task(f, forced) ELSE task[f]
  BY DEF Feed!Call
<1>3. \A f \in Feed!Forwarders : again'[f] = (again[f] \/ (f \in F /\ ~Resting(f)))
  BY DEF Feed!Call, Resting
<1>4. task' \in [Feed!Forwarders -> Runnings] /\ again' \in [Feed!Forwarders -> BOOLEAN]
  BY <1>1, <1>2 DEF Feed!Call, FeedTypeOK
<1>5. /\ task'["selection"].read \in SelectionReads
      /\ task'["uiContext"].read \in PlaceReads
  BY <1>1, <1>2 DEF FeedTypeOK, Feed!Forwarders, SelectionReads, PlaceReads
<1>6. ASSUME NEW f \in Feed!Forwarders
      PROVE  /\ f \notin F => task'[f] = task[f] /\ again'[f] = again[f]
             /\ f \in F /\ Resting(f) =>
                  /\ again'[f] = again[f]
                  /\ link' = "open" => task'[f].ws = session' /\ task'[f].read = <<>>
                  /\ link' # "open" => task'[f] = task[f]
             /\ f \in F /\ ~Resting(f) => again'[f] /\ task'[f] = task[f]
  <2>1. again[f] \in BOOLEAN /\ again'[f] \in BOOLEAN
    BY <1>4 DEF FeedTypeOK
  <2> QED BY <1>2, <1>3, <2>1 DEF Resting, Feed!Task, Feed!Nothing
<1> QED BY <1>4, <1>5, <1>6

(* An event or a poll calls forwarders of the connection there is. *)
LEMMA Called ==
    ASSUME FeedInv, NEW F \in SUBSET Feed!Forwarders, Feed!Call(F, FALSE),
           UNCHANGED <<ui, session, link, sent, crossed, known>>,
           \A f : f \in due => f \in due' \/ f \in F
    PROVE  FeedInv'
<1>1. FeedTypeOK /\ session' \in Nat
  BY DEF FeedInv, FeedTypeOK
<1> DEFINE A == Feed!Forwarders
<1>2. /\ task' \in [A -> Runnings]
      /\ task'["selection"].read \in SelectionReads
      /\ task'["uiContext"].read \in PlaceReads
      /\ again' \in [A -> BOOLEAN]
  BY <1>1, CallMoves
<1>3. \A f \in A :
        /\ f \notin F => task'[f] = task[f] /\ again'[f] = again[f]
        /\ f \in F /\ Resting(f) =>
             /\ again'[f] = again[f]
             /\ link' = "open" => task'[f].ws = session' /\ task'[f].read = <<>>
             /\ link' # "open" => task'[f] = task[f]
        /\ f \in F /\ ~Resting(f) => again'[f] /\ task'[f] = task[f]
  BY <1>1, CallMoves
<1>4. FeedTypeOK'
  BY <1>1, <1>2 DEF FeedTypeOK, Feed!Forwarders
<1>5. link = "open" => session > 0 /\ session \in DOMAIN known
  BY DEF FeedInv
<1>6. ASSUME NEW f \in A
      PROVE  /\ again'[f] => ~Resting(f)'
             /\ Resting(f)' /\ link = "open" => Resting(f) /\ f \notin F
             /\ link = "open" =>
                  \/ task'[f] = task[f] /\ (again[f] => again'[f])
                     /\ (Informed(f)' => Informed(f))
                  \/ ~Resting(f)' /\ task'[f].ws = session /\ task'[f].read = <<>>
  <2>1. again[f] => ~Resting(f)
    BY DEF FeedInv, RepeatsRuns
  <2>2. f \notin F => task'[f] = task[f] /\ again'[f] = again[f]
    BY <1>3
  <2>3. f \in F /\ ~Resting(f) => again'[f] /\ task'[f] = task[f]
    BY <1>3
  <2>4. f \in F /\ Resting(f) /\ link = "open" =>
          again'[f] = again[f] /\ task'[f].ws = session /\ task'[f].read = <<>>
    BY <1>3
  <2>5. f \in F /\ Resting(f) /\ link # "open" =>
          again'[f] = again[f] /\ task'[f] = task[f]
    BY <1>3
  <2>6. Resting(f)' <=> task'[f] = Feed!Idle
    BY DEF Resting, Feed!Idle, Feed!Nothing
  <2>7. task'[f].ws = session /\ link = "open" => ~Resting(f)'
    BY <1>1, <1>5, <2>6 DEF Feed!Idle, FeedTypeOK
  <2>8. link \in {"open", "closed"}
    BY <1>1 DEF FeedTypeOK
  <2> QED BY <2>1, <2>2, <2>3, <2>4, <2>5, <2>6, <2>7, <2>8 DEF Resting, Informed
<1>7. RepeatsRuns'
  BY <1>6 DEF RepeatsRuns, Feed!Forwarders
<1>8. Feed!Selected' = Feed!Selected
  BY DEF Feed!Selected, Feed!UnlessLeft, Feed!Truncated
<1>9. SelectionInv'
  <2>1. "selection" \in A
    BY DEF Feed!Forwarders
  <2> QED BY <1>6, <1>8, <2>1 DEF FeedInv, SelectionInv, Resting, Feed!Idle
<1>10. ContextInv'
  <2>1. "uiContext" \in A
    BY DEF Feed!Forwarders
  <2> QED BY <1>6, <2>1 DEF FeedInv, ContextInv, Resting, Feed!Idle
<1> QED BY <1>4, <1>5, <1>7, <1>9, <1>10 DEF FeedInv

LEMMA EventStep == ASSUME FeedInv, NEW f \in Feed!Forwarders, Feed!Event(f) PROVE FeedInv'
  BY Called DEF Feed!Event

LEMMA PollStep == ASSUME FeedInv, Feed!Poll PROVE FeedInv'
  BY Called DEF Feed!Poll, Feed!Forwarders

(* The next connection: what ran for an older one is to repeat. *)
LEMMA OpenStep == ASSUME FeedInv, Feed!Open PROVE FeedInv'
<1>1. /\ FeedTypeOK /\ session' = session + 1 /\ link' = "open"
      /\ known' = Feed!Connected(session')
      /\ sent' = [f \in Feed!Forwarders |-> <<>>]
      /\ crossed' = (task["uiContext"] # Feed!Idle)
      /\ UNCHANGED <<ui, acts, due>>
      /\ Feed!Call(Feed!Forwarders, TRUE)
  BY DEF FeedInv, Feed!Open, Feed!Nothing
<1>2. session' \in Nat /\ session' > 0
  BY <1>1 DEF FeedTypeOK
<1> DEFINE A == Feed!Forwarders
<1>3. /\ task' \in [A -> Runnings]
      /\ task'["selection"].read \in SelectionReads
      /\ task'["uiContext"].read \in PlaceReads
      /\ again' \in [A -> BOOLEAN]
  BY <1>1, <1>2, CallMoves
<1>4. \A f \in A :
        /\ Resting(f) => /\ again'[f] = again[f] /\ task'[f].ws = session'
                         /\ task'[f].read = <<>>
        /\ ~Resting(f) => again'[f] /\ task'[f] = task[f]
  BY <1>1, <1>2, CallMoves
<1>5. /\ session' \in DOMAIN known' /\ known'[session'] = Feed!NewClient
      /\ \A c \in DOMAIN known' : known'[c] \in KnownClients
  <2>1. Feed!NewClient \in KnownClients
    BY DEF Feed!NewClient, Feed!Nothing, KnownClients, SelectionReads, ContextReads
  <2> QED BY <1>1, <2>1 DEF Feed!Connected, FeedTypeOK
<1>6. FeedTypeOK'
  BY <1>1, <1>2, <1>3, <1>5 DEF FeedTypeOK, Feed!Forwarders, SelectionReads, ContextReads
<1>7. \A f \in A : ~Resting(f)'
  <2> SUFFICES ASSUME NEW f \in A PROVE task'[f] # Feed!Idle
    BY DEF Resting, Feed!Idle, Feed!Nothing
  <2>1. CASE Resting(f)
    BY <1>2, <1>4, <2>1 DEF Feed!Idle
  <2>2. CASE ~Resting(f)
    BY <1>4, <2>2 DEF Resting
  <2> QED BY <2>1, <2>2
<1>8. RepeatsRuns'
  BY <1>7 DEF RepeatsRuns, Feed!Forwarders
<1>9. SelectionInv'
  <2>1. "selection" \in A /\ sent'["selection"] = <<>>
    BY <1>1 DEF Feed!Forwarders
  <2>2. known'[session'].selection = <<>>
    BY <1>5 DEF Feed!NewClient, Feed!Nothing
  <2>3. ~Resting("selection")'
    BY <1>7, <2>1
  <2>4. task'["selection"].ws # session' => again'["selection"]
    BY <1>4, <2>1
  <2>5. Informed("selection")' => task'["selection"].read = <<>>
    BY <1>4, <2>1 DEF Informed
  <2> QED BY <2>1, <2>2, <2>3, <2>4, <2>5 DEF SelectionInv
<1>10. ContextInv'
  <2>1. "uiContext" \in A /\ sent'["uiContext"] = <<>>
    BY <1>1 DEF Feed!Forwarders
  <2>2. known'[session'].uiContext = <<>>
    BY <1>5 DEF Feed!NewClient, Feed!Nothing
  <2>3. ~Resting("uiContext")'
    BY <1>7, <2>1
  <2>4. ~crossed' => Resting("uiContext")
    BY <1>1 DEF Resting
  <2>5. ~crossed' => task'["uiContext"].ws = session' /\ task'["uiContext"].read = <<>>
    BY <1>4, <2>1, <2>4
  <2> QED BY <2>1, <2>2, <2>3, <2>5 DEF ContextInv
<1> QED BY <1>2, <1>5, <1>6, <1>8, <1>9, <1>10 DEF FeedInv

(* What the bridge keeps of a message. *)
LEMMA NormalizedKeeps ==
    ASSUME NEW c \in KnownClients
    PROVE  /\ Feed!Normalized(c) \in KnownClients
           /\ Feed!Normalized(c).uiContext = c.uiContext
           /\ Feed!Normalized(c).selection \in {c.selection, <<{}>>}
  BY DEF Feed!Normalized, KnownClients, SelectionReads

LEMMA SelectionReceived ==
    ASSUME FeedTypeOK, session \in DOMAIN known, NEW s \in SUBSET Rems,
           Feed!SelectionChanged(s)
    PROVE  /\ DOMAIN known' = DOMAIN known
           /\ \A c \in DOMAIN known' : known'[c] \in KnownClients
           /\ known'[session].selection \in {<<s>>, <<{}>>}
           /\ known'[session].uiContext = known[session].uiContext
<1> DEFINE before == known[session]
           then == [before EXCEPT !.selection = <<s>>]
<1>1. before \in KnownClients
  BY DEF FeedTypeOK
<1>2. /\ then \in KnownClients
      /\ then.selection = <<s>> /\ then.uiContext = before.uiContext
  <2> HIDE DEF before
  <2> QED BY <1>1 DEF KnownClients, SelectionReads
<1>3. known' = [known EXCEPT ![session] = Feed!Normalized(then)]
  BY DEF Feed!SelectionChanged
<1>4. /\ Feed!Normalized(then) \in KnownClients
      /\ Feed!Normalized(then).uiContext = then.uiContext
      /\ Feed!Normalized(then).selection \in {then.selection, <<{}>>}
  <2> HIDE DEF then
  <2> QED BY <1>2, NormalizedKeeps
<1> HIDE DEF then
<1> QED BY <1>2, <1>3, <1>4 DEF FeedTypeOK

LEMMA ContextReceived ==
    ASSUME FeedTypeOK, session \in DOMAIN known, NEW x \in Contexts,
           Feed!UiContextChanged(x)
    PROVE  /\ DOMAIN known' = DOMAIN known
           /\ \A c \in DOMAIN known' : known'[c] \in KnownClients
           /\ known'[session].selection \in {known[session].selection, <<{}>>}
           /\ known'[session].uiContext = <<x>>
<1> DEFINE before == known[session]
           then == [before EXCEPT !.uiContext = <<x>>]
<1>1. before \in KnownClients
  BY DEF FeedTypeOK
<1>2. /\ then \in KnownClients
      /\ then.uiContext = <<x>> /\ then.selection = before.selection
  <2> HIDE DEF before
  <2> QED BY <1>1 DEF KnownClients, ContextReads
<1>3. known' = [known EXCEPT ![session] = Feed!Normalized(then)]
  BY DEF Feed!UiContextChanged
<1>4. /\ Feed!Normalized(then) \in KnownClients
      /\ Feed!Normalized(then).uiContext = then.uiContext
      /\ Feed!Normalized(then).selection \in {then.selection, <<{}>>}
  <2> HIDE DEF then
  <2> QED BY <1>2, NormalizedKeeps
<1> HIDE DEF then
<1> QED BY <1>2, <1>3, <1>4 DEF FeedTypeOK

(* The end of a run of forwarder f, but for what the bridge does. *)
LEMMA FinishMoves ==
    ASSUME FeedInv, NEW f \in Feed!Forwarders, NEW x, Feed!Finish(f, x),
           UNCHANGED <<session, link>>
    PROVE  /\ task' \in [Feed!Forwarders -> Runnings]
           /\ again' \in [Feed!Forwarders -> BOOLEAN]
           /\ DOMAIN sent' = Feed!Forwarders
           /\ sent'[f] = <<x>> /\ ~again'[f]
           /\ task'[f].read = <<>>
           /\ \A g \in Feed!Forwarders : g # f =>
                 task'[g] = task[g] /\ again'[g] = again[g] /\ sent'[g] = sent[g]
           /\ link = "open" =>
                 /\ Resting(f)' <=> ~again[f]
                 /\ ~Resting(f)' => task'[f].ws = session
<1>1. FeedTypeOK /\ (link = "open" => session > 0)
  BY DEF FeedInv
<1>2. Feed!Rerun(f) \in Runnings /\ Feed!Rerun(f).read = <<>>
  BY <1>1 DEF Feed!Rerun, Runnings, FeedTypeOK, Feed!Idle, Feed!Nothing, SelectionReads
<1>3. /\ sent' = [sent EXCEPT ![f] = <<x>>]
      /\ task' = [task EXCEPT ![f] = Feed!Rerun(f)]
      /\ again' = [again EXCEPT ![f] = FALSE]
  BY DEF Feed!Finish
<1>4. /\ link = "open" => (Feed!Rerun(f) = Feed!Idle <=> ~again[f])
      /\ Feed!Rerun(f) # Feed!Idle => Feed!Rerun(f).ws = session
  BY <1>1 DEF Feed!Rerun, Feed!Idle, FeedTypeOK
<1>5. Resting(f)' <=> task'[f] = Feed!Idle
  BY DEF Resting, Feed!Idle, Feed!Nothing
<1> QED BY <1>1, <1>2, <1>3, <1>4, <1>5 DEF FeedTypeOK

(* Nothing of a forwarder changes in a run of the other one. *)
LEMMA OthersRun ==
    ASSUME NEW f, UNCHANGED <<ui, due>>, task'[f] = task[f], again'[f] = again[f]
    PROVE  /\ Resting(f)' <=> Resting(f)
           /\ Informed(f)' <=> Informed(f)
  BY DEF Resting, Informed, Feed!Idle, Feed!Nothing

LEMMA SelectionFinish ==
    ASSUME FeedInv, ~Resting("selection"), NEW x \in SUBSET Rems,
           link = "open" /\ Informed("selection") => x = Feed!Selected,
           Feed!Finish("selection", x), UNCHANGED <<ui, due, session, link, crossed>>
    PROVE  FeedInv'
<1> DEFINE A == Feed!Forwarders
<1>1. FeedTypeOK /\ "selection" \in A /\ "uiContext" \in A
  BY DEF FeedInv, Feed!Forwarders
<1>2. /\ task' \in [A -> Runnings] /\ again' \in [A -> BOOLEAN] /\ DOMAIN sent' = A
      /\ sent'["selection"] = <<x>> /\ ~again'["selection"]
      /\ task'["selection"].read = <<>>
      /\ link = "open" =>
            /\ Resting("selection")' <=> ~again["selection"]
            /\ ~Resting("selection")' => task'["selection"].ws = session
  BY <1>1, FinishMoves
<1>3. /\ task'["uiContext"] = task["uiContext"]
      /\ again'["uiContext"] = again["uiContext"] /\ sent'["uiContext"] = sent["uiContext"]
  BY <1>1, FinishMoves
<1>4. link = "open" => session \in DOMAIN known /\ session > 0
  BY DEF FeedInv
<1>5. /\ \A c \in DOMAIN known' : known'[c] \in KnownClients
      /\ link = "open" =>
           /\ DOMAIN known' = DOMAIN known
           /\ known'[session].uiContext = known[session].uiContext
           /\ known'[session].selection \in {<<>>, <<{}>>, <<x>>}
  <2>1. CASE link = "open" /\ task["selection"].ws = session /\ Feed!Unsent("selection", x)
    <3>1. Feed!SelectionChanged(x)
      BY <2>1 DEF Feed!Finish, Feed!Received
    <3> QED BY <1>1, <1>4, <2>1, <3>1, SelectionReceived
  <2>2. CASE ~(link = "open" /\ task["selection"].ws = session
               /\ Feed!Unsent("selection", x))
    <3>1. UNCHANGED known
      BY <2>2 DEF Feed!Finish
    <3>2. ASSUME link = "open" PROVE known[session].selection \in {<<>>, <<{}>>, <<x>>}
      <4>1. known[session].selection \in {<<>>, <<{}>>, sent["selection"]}
        BY <3>2 DEF FeedInv, SelectionInv
      <4>2. CASE task["selection"].ws # session
        BY <3>2, <4>1, <4>2 DEF FeedInv, SelectionInv
      <4>3. CASE ~Feed!Unsent("selection", x)
        BY <4>1, <4>3 DEF Feed!Unsent
      <4> QED BY <2>2, <3>2, <4>2, <4>3
    <3> QED BY <1>1, <3>1, <3>2 DEF FeedTypeOK
  <2> QED BY <2>1, <2>2
<1>6. FeedTypeOK'
  BY <1>1, <1>2, <1>3, <1>5 DEF FeedTypeOK, SelectionReads, Feed!Forwarders
<1>7. Resting("uiContext")' <=> Resting("uiContext")
  BY <1>3, OthersRun
<1>8. Informed("uiContext")' <=> Informed("uiContext")
  BY <1>3, OthersRun
<1>9. RepeatsRuns'
  BY <1>1, <1>2, <1>3, <1>7 DEF FeedInv, RepeatsRuns, Feed!Forwarders
<1>10. Feed!Selected' = Feed!Selected
  BY DEF Feed!Selected, Feed!UnlessLeft, Feed!Truncated
<1>11. SelectionInv'
  <2>1. link = "open" /\ Resting("selection")' /\ Informed("selection")'
          => Informed("selection")
    BY <1>2 DEF Informed
  <2> QED BY <1>2, <1>5, <1>10, <2>1 DEF SelectionInv
<1>12. ContextInv'
  BY <1>3, <1>5, <1>7, <1>8 DEF FeedInv, ContextInv
<1> QED BY <1>4, <1>5, <1>6, <1>9, <1>11, <1>12 DEF FeedInv

LEMMA ReadSelectionStep == ASSUME FeedInv, Feed!ReadSelection PROVE FeedInv'
<1> DEFINE A == Feed!Forwarders
           got == task["selection"].read
<1>1. /\ FeedTypeOK /\ ~Resting("selection") /\ got \in SelectionReads
      /\ ui.selection \in SUBSET Rems
      /\ UNCHANGED <<ui, due, session, link, crossed>>
  BY DEF FeedInv, FeedTypeOK, Feed!ReadSelection, Resting
<1>2. CASE /\ task' = [task EXCEPT !["selection"].read = <<ui.selection>>]
           /\ UNCHANGED <<again, sent, known>>
  <2>1. "selection" \in A /\ "uiContext" \in A /\ task["selection"] \in Runnings
    BY <1>1 DEF FeedTypeOK, Feed!Forwarders
  <2>2. /\ task' \in [A -> Runnings]
        /\ task'["uiContext"] = task["uiContext"]
        /\ task'["selection"].read = <<ui.selection>>
        /\ task'["selection"].ws = task["selection"].ws
    BY <1>1, <1>2, <2>1 DEF FeedTypeOK, Runnings, SelectionReads
  <2>3. ~Resting("selection")'
    <3>1. task'["selection"].read # <<>>
      BY <2>2
    <3>2. Feed!Idle.read = <<>>
      BY DEF Feed!Idle, Feed!Nothing
    <3> QED BY <3>1, <3>2 DEF Resting, Feed!Idle, Feed!Nothing
  <2>4. \A f : Informed(f)' <=> Informed(f)
    BY <1>1, <1>2 DEF Informed
  <2>5. Resting("uiContext")' <=> Resting("uiContext")
    BY <1>1, <1>2, <2>2, OthersRun
  <2>6. FeedTypeOK'
    BY <1>1, <1>2, <2>2 DEF FeedTypeOK, SelectionReads, Feed!Forwarders
  <2>7. RepeatsRuns'
    BY <1>2, <2>3, <2>5 DEF FeedInv, RepeatsRuns, Feed!Forwarders
  <2>8. SelectionInv'
    BY <1>1, <1>2, <2>2, <2>3, <2>4 DEF FeedInv, SelectionInv
  <2>9. ContextInv'
    BY <1>1, <1>2, <2>2, <2>4, <2>5 DEF FeedInv, ContextInv
  <2> QED BY <1>1, <1>2, <2>6, <2>7, <2>8, <2>9 DEF FeedInv
<1>3. CASE /\ ~Feed!FocusMatters(ui.selection)
           /\ Feed!Finish("selection", ui.selection)
  <2>1. Feed!Selected = ui.selection
    BY <1>3 DEF Feed!Selected, Feed!UnlessLeft, Feed!FocusMatters
  <2> QED BY <1>1, <1>3, <2>1, SelectionFinish
<1>4. CASE /\ got # <<>>
           /\ Feed!Finish("selection", Feed!UnlessLeft(got[1], ui.focus))
  <2>1. PICK s \in SUBSET Rems : got = <<s>>
    BY <1>1, <1>4 DEF SelectionReads
  <2>2. got[1] = s
    BY <2>1
  <2>3. Feed!UnlessLeft(s, ui.focus) \in SUBSET Rems
    BY DEF Feed!UnlessLeft
  <2>4. link = "open" /\ Informed("selection") => s = ui.selection
    <3>1. link = "open" /\ Informed("selection") => got = <<ui.selection>>
      BY <1>4 DEF FeedInv, SelectionInv
    <3>2. got = <<ui.selection>> => got[1] = ui.selection
      OBVIOUS
    <3> QED BY <2>2, <3>1, <3>2
  <2> QED BY <1>1, <1>4, <2>2, <2>3, <2>4, SelectionFinish DEF Feed!Selected
<1> QED BY <1>2, <1>3, <1>4 DEF Feed!ReadSelection, Feed!Nothing

LEMMA ContextFinish ==
    ASSUME FeedInv, ~Resting("uiContext"), NEW x \in Contexts,
           link = "open" /\ ~crossed /\ Informed("uiContext") =>
               x = [place |-> ui.place, focus |-> ui.focus],
           Feed!Finish("uiContext", x), UNCHANGED <<ui, due, session, link, crossed>>
    PROVE  FeedInv'
<1> DEFINE A == Feed!Forwarders
<1>1. FeedTypeOK /\ "selection" \in A /\ "uiContext" \in A
  BY DEF FeedInv, Feed!Forwarders
<1>2. /\ task' \in [A -> Runnings] /\ again' \in [A -> BOOLEAN] /\ DOMAIN sent' = A
      /\ sent'["uiContext"] = <<x>> /\ ~again'["uiContext"]
      /\ task'["uiContext"].read = <<>>
      /\ link = "open" =>
            /\ Resting("uiContext")' <=> ~again["uiContext"]
            /\ ~Resting("uiContext")' => task'["uiContext"].ws = session
  BY <1>1, FinishMoves
<1>3. /\ task'["selection"] = task["selection"]
      /\ again'["selection"] = again["selection"] /\ sent'["selection"] = sent["selection"]
  BY <1>1, FinishMoves
<1>4. link = "open" => session \in DOMAIN known /\ session > 0
  BY DEF FeedInv
<1>5. /\ \A c \in DOMAIN known' : known'[c] \in KnownClients
      /\ link = "open" =>
           /\ DOMAIN known' = DOMAIN known
           /\ known'[session].selection \in {known[session].selection, <<{}>>}
           /\ ~crossed => known'[session].uiContext = <<x>>
  <2>1. CASE link = "open" /\ task["uiContext"].ws = session /\ Feed!Unsent("uiContext", x)
    <3>1. Feed!UiContextChanged(x)
      BY <2>1 DEF Feed!Finish, Feed!Received
    <3> QED BY <1>1, <1>4, <2>1, <3>1, ContextReceived
  <2>2. CASE ~(link = "open" /\ task["uiContext"].ws = session
               /\ Feed!Unsent("uiContext", x))
    <3>1. UNCHANGED known
      BY <2>2 DEF Feed!Finish
    <3>2. ASSUME link = "open", ~crossed PROVE known[session].uiContext = <<x>>
      <4>1. /\ known[session].uiContext = sent["uiContext"]
            /\ task["uiContext"].ws = session
        BY <3>2 DEF FeedInv, ContextInv
      <4> QED BY <2>2, <3>2, <4>1 DEF Feed!Unsent
    <3> QED BY <1>1, <3>1, <3>2 DEF FeedTypeOK
  <2> QED BY <2>1, <2>2
<1>6. FeedTypeOK'
  BY <1>1, <1>2, <1>3, <1>5 DEF FeedTypeOK, PlaceReads, ContextReads, Feed!Forwarders
<1>7. Resting("selection")' <=> Resting("selection")
  BY <1>3, OthersRun
<1>8. Informed("selection")' <=> Informed("selection")
  BY <1>3, OthersRun
<1>9. RepeatsRuns'
  BY <1>1, <1>2, <1>3, <1>7 DEF FeedInv, RepeatsRuns, Feed!Forwarders
<1>10. Feed!Selected' = Feed!Selected
  BY DEF Feed!Selected, Feed!UnlessLeft, Feed!Truncated
<1>11. SelectionInv'
  BY <1>3, <1>5, <1>7, <1>8, <1>10 DEF FeedInv, SelectionInv
<1>12. ContextInv'
  <2>1. link = "open" /\ Resting("uiContext")' /\ Informed("uiContext")'
          => Informed("uiContext")
    BY <1>2 DEF Informed
  <2> QED BY <1>2, <1>5, <2>1 DEF ContextInv
<1> QED BY <1>4, <1>5, <1>6, <1>9, <1>11, <1>12 DEF FeedInv

LEMMA ReadUiContextStep == ASSUME FeedInv, Feed!ReadUiContext PROVE FeedInv'
<1> DEFINE A == Feed!Forwarders
           got == task["uiContext"].read
<1>1. /\ FeedTypeOK /\ ~Resting("uiContext") /\ got \in PlaceReads
      /\ ui.place \in Places /\ ui.focus \in Rems \cup {NoRem}
      /\ UNCHANGED <<ui, due, session, link, crossed>>
  BY DEF FeedInv, FeedTypeOK, Feed!ReadUiContext, Resting
<1>2. CASE /\ task' = [task EXCEPT !["uiContext"].read = <<ui.place>>]
           /\ UNCHANGED <<again, sent, known>>
  <2>1. "selection" \in A /\ "uiContext" \in A /\ task["uiContext"] \in Runnings
    BY <1>1 DEF FeedTypeOK, Feed!Forwarders
  <2>2. /\ task' \in [A -> Runnings]
        /\ task'["selection"] = task["selection"]
        /\ task'["uiContext"].read = <<ui.place>>
        /\ task'["uiContext"].ws = task["uiContext"].ws
    BY <1>1, <1>2, <2>1 DEF FeedTypeOK, Runnings, PlaceReads
  <2>3. ~Resting("uiContext")'
    <3>1. task'["uiContext"].read # <<>>
      BY <2>2
    <3>2. Feed!Idle.read = <<>>
      BY DEF Feed!Idle, Feed!Nothing
    <3> QED BY <3>1, <3>2 DEF Resting, Feed!Idle, Feed!Nothing
  <2>4. \A f : Informed(f)' <=> Informed(f)
    BY <1>1, <1>2 DEF Informed
  <2>5. Resting("selection")' <=> Resting("selection")
    BY <1>1, <1>2, <2>2, OthersRun
  <2>6. FeedTypeOK'
    BY <1>1, <1>2, <2>2 DEF FeedTypeOK, PlaceReads, Feed!Forwarders
  <2>7. RepeatsRuns'
    BY <1>2, <2>3, <2>5 DEF FeedInv, RepeatsRuns, Feed!Forwarders
  <2>8. SelectionInv'
    <3>1. Feed!Selected' = Feed!Selected
      BY <1>1 DEF Feed!Selected, Feed!UnlessLeft, Feed!Truncated
    <3> QED BY <1>1, <1>2, <2>2, <2>4, <2>5, <3>1 DEF FeedInv, SelectionInv
  <2>9. ContextInv'
    BY <1>1, <1>2, <2>2, <2>3, <2>4 DEF FeedInv, ContextInv
  <2> QED BY <1>1, <1>2, <2>6, <2>7, <2>8, <2>9 DEF FeedInv
<1>3. CASE /\ got # <<>>
           /\ Feed!Finish("uiContext", [place |-> got[1], focus |-> ui.focus])
  <2>1. PICK q \in Places : got = <<q>>
    BY <1>1, <1>3 DEF PlaceReads
  <2>2. got[1] = q
    BY <2>1
  <2>3. [place |-> q, focus |-> ui.focus] \in Contexts
    BY <1>1 DEF Contexts
  <2>4. link = "open" /\ ~crossed /\ Informed("uiContext") => q = ui.place
    <3>1. link = "open" /\ ~crossed /\ Informed("uiContext") => got = <<ui.place>>
      BY <1>3 DEF FeedInv, ContextInv
    <3>2. got = <<ui.place>> => got[1] = ui.place
      OBVIOUS
    <3> QED BY <2>2, <3>1, <3>2
  <2> QED BY <1>1, <1>3, <2>2, <2>3, <2>4, ContextFinish
<1> QED BY <1>2, <1>3 DEF Feed!ReadUiContext, Feed!Nothing

LEMMA FeedNextInv == ASSUME FeedInv, [Feed!Next]_(Feed!uiVars) PROVE FeedInv'
<1>1. CASE UNCHANGED Feed!uiVars
  BY <1>1 DEF Feed!uiVars, FeedInv, FeedTypeOK, RepeatsRuns, SelectionInv, ContextInv,
         Resting, Informed, Feed!Selected, Feed!UnlessLeft, Feed!Truncated
<1> QED BY <1>1, ActStep, PollStep, ReadSelectionStep, ReadUiContextStep, CloseStep,
           OpenStep, EventStep, GoneStep DEF Feed!Next

(* When everything is quiet the command line reads the entry of the session. *)
LEMMA QuietPicks ==
    ASSUME FeedInv, Feed!Quiet
    PROVE  /\ Feed!Picked = known[session] /\ known # <<>>
           /\ known[session] \in KnownClients
<1>1. DOMAIN known = {session} /\ known[session] \in KnownClients
  BY DEF FeedInv, FeedTypeOK, Feed!Quiet
<1>2. Feed!Newest({session}) = session
  BY DEF FeedInv, FeedTypeOK, Feed!Newest
<1> DEFINE reported == {c \in DOMAIN known : known[c] # Feed!NewClient}
<1>3. reported = {} \/ reported = {session}
  BY <1>1
<1>4. Feed!Picked = known[session]
  BY <1>1, <1>2, <1>3 DEF Feed!Picked
<1>5. known # <<>>
  <2>1. DOMAIN <<>> = {}
    OBVIOUS
  <2> QED BY <1>1, <2>1
<1> QED BY <1>1, <1>4, <1>5

-----------------------------------------------------------------------------
(* The store: one with ops in it is always at some version, and no process takes
   it for a new one; one without ops has some of the tables of today, which those
   who make it have made, and its version is set when all of them are there. *)

LEMMA TablesOfSnapshot ==
    /\ Len(Store!Snapshot) = 6
    /\ Store!FirstTables(3) = {"queue_txns", "queue_ops", "queue_op_attempts"}
    /\ Store!FirstTables(4) = Store!FirstTables(3) \cup {"workspace_bindings"}
    /\ Store!FirstTables(5) = Store!FirstTables(4) \cup {"backup_artifacts"}
    /\ Store!FirstTables(6) = Store!FirstTables(5) \cup {"task_runs"}
<1>1. /\ Len(Store!Snapshot) = 6
      /\ Store!Snapshot[1] = "queue_txns" /\ Store!Snapshot[2] = "queue_ops"
      /\ Store!Snapshot[3] = "queue_op_attempts" /\ Store!Snapshot[4] = "workspace_bindings"
      /\ Store!Snapshot[5] = "backup_artifacts" /\ Store!Snapshot[6] = "task_runs"
  BY DEF Store!Snapshot
<1>2. /\ 1..3 = {1, 2, 3} /\ 1..4 = {1, 2, 3, 4}
      /\ 1..5 = {1, 2, 3, 4, 5} /\ 1..6 = {1, 2, 3, 4, 5, 6}
  OBVIOUS
<1> QED BY <1>1, <1>2 DEF Store!FirstTables

(* A store with ops in it as the migrations up to version v leave it. *)
HoldsOps(s, v) ==
    IF v < 5 THEN \E t, o \in BOOLEAN :
                    s = [ver |-> v, tables |-> Store!OldTables(v, t, o), rows |-> "ops"]
    ELSE s = [ver |-> v, tables |-> Store!NewTables(v), rows |-> "queue_ops"]

LEMMA RoundSkipped ==
    ASSUME NEW s, NEW v, s.ver >= v
    PROVE  Store!Upgraded(s, v) = s
  BY DEF Store!Upgraded

LEMMA RoundRuns ==
    ASSUME NEW s, NEW v, s # Store!Broken, ~(s.ver >= v)
    PROVE  Store!Upgraded(s, v) =
              IF Store!Migration(v, s) = Store!Broken THEN Store!Broken
              ELSE Store!SetVersion(Store!Migration(v, s), v)
  BY DEF Store!Upgraded

LEMMA RoundUpgrades ==
    ASSUME NEW s, NEW v \in 1 .. 9, HoldsOps(s, v)
    PROVE  HoldsOps(Store!Upgraded(s, v + 1), v + 1)
<1>1. /\ s.ver = v /\ s # Store!Broken /\ ~(s.ver >= v + 1)
  BY DEF HoldsOps, Store!Broken
<1>2. Store!Upgraded(s, v + 1) =
         IF Store!Migration(v + 1, s) = Store!Broken THEN Store!Broken
         ELSE Store!SetVersion(Store!Migration(v + 1, s), v + 1)
  BY <1>1, RoundRuns
<1>3. CASE v = 1
  <2>1. PICK t, o \in BOOLEAN : s = [ver |-> 1, tables |-> Store!OldTables(1, t, o), rows |-> "ops"]
    BY <1>3 DEF HoldsOps
  <2>2. Store!Migration(2, s) = [ver |-> 1, tables |-> Store!OldTables(2, t, o), rows |-> "ops"]
    BY <2>1 DEF Store!Migration, Store!AddColumn, Store!AddedColumn, Store!OldTables
  <2> QED BY <1>2, <1>3, <2>2 DEF HoldsOps, Store!Broken, Store!SetVersion
<1>4. CASE v = 2
  <2>1. PICK t, o \in BOOLEAN : s = [ver |-> 2, tables |-> Store!OldTables(2, t, o), rows |-> "ops"]
    BY <1>4 DEF HoldsOps
  <2>2. Store!Migration(3, s) = [ver |-> 2, tables |-> Store!OldTables(3, t, o), rows |-> "ops"]
    BY <2>1, SMTT(30) DEF Store!Migration, Store!Create, Store!Columns, Store!OldTables
  <2> QED BY <1>2, <1>4, <2>2 DEF HoldsOps, Store!Broken, Store!SetVersion
<1>5. CASE v = 3
  <2>1. PICK t, o \in BOOLEAN : s = [ver |-> 3, tables |-> Store!OldTables(3, t, o), rows |-> "ops"]
    BY <1>5 DEF HoldsOps
  <2>2. Store!Migration(4, s) = [ver |-> 3, tables |-> Store!OldTables(4, t, o), rows |-> "ops"]
    BY <2>1 DEF Store!Migration, Store!AddColumn, Store!AddedColumn, Store!OldTables
  <2> QED BY <1>2, <1>5, <2>2 DEF HoldsOps, Store!Broken, Store!SetVersion
<1>6. CASE v = 4
  <2>1. PICK t, o \in BOOLEAN : s = [ver |-> 4, tables |-> Store!OldTables(4, t, o), rows |-> "ops"]
    BY <1>6 DEF HoldsOps
  <2> DEFINE oldOnes == DOMAIN s.tables \cap DOMAIN Store!Renamed
             kept  == DOMAIN s.tables \ oldOnes
             new   == {Store!Renamed[n] : n \in oldOnes}
  <2>a. /\ oldOnes = {"txns", "ops", "op_attempts"} /\ kept = {}
        /\ s.ver = 4 /\ s.rows = "ops"
    BY <2>1 DEF Store!OldTables, Store!Renamed
  <2>b. /\ s.tables["txns"] = {"dispatch_mode"} /\ s.tables["ops"] = {"attempt_id"}
        /\ s.tables["op_attempts"] = {}
    BY <2>1 DEF Store!OldTables
  <2>c. /\ Store!Renamed["txns"] = "queue_txns" /\ Store!Renamed["ops"] = "queue_ops"
        /\ Store!Renamed["op_attempts"] = "queue_op_attempts"
    BY DEF Store!Renamed
  <2>d. new = {"queue_txns", "queue_ops", "queue_op_attempts"}
    BY <2>a, <2>c
  <2> DEFINE Former(n) == CHOOSE m \in oldOnes : Store!Renamed[m] = n
  <2>e. /\ Former("queue_txns") = "txns" /\ Former("queue_ops") = "ops"
        /\ Former("queue_op_attempts") = "op_attempts"
    BY <2>a, <2>c
  <2>f. Store!PrefixQueueTables(s) =
           [s EXCEPT !.rows = "queue_ops",
                     !.tables = [n \in kept \cup new |->
                                    IF n \in kept THEN @[n] ELSE @[Former(n)]]]
    <3> HIDE DEF oldOnes, kept, new, Former
    <3>1. Store!PrefixQueueTables(s) = IF new \cap kept # {} THEN Store!Broken
             ELSE [s EXCEPT !.rows = IF @ \in oldOnes THEN Store!Renamed[@] ELSE @,
                            !.tables = [n \in kept \cup new |->
                                IF n \in kept THEN @[n] ELSE @[Former(n)]]]
      BY DEF Store!PrefixQueueTables, oldOnes, kept, new, Former
    <3> QED BY <3>1, <2>a, <2>c
  <2>g. [n \in kept \cup new |-> IF n \in kept THEN s.tables[n] ELSE s.tables[Former(n)]]
          = Store!NewTables(5)
    <3> HIDE DEF oldOnes, kept, new, Former
    <3>1. Store!FirstTables(3) = kept \cup new
      BY <2>a, <2>d, TablesOfSnapshot
    <3>2. Store!NewTables(5) = [n \in kept \cup new |-> Store!Columns(n)]
      BY <3>1 DEF Store!NewTables
    <3> QED BY <2>a, <2>b, <2>d, <2>e, <3>2, ZenonT(30) DEF Store!Columns
  <2>2. Store!PrefixQueueTables(s) =
          [ver |-> 4, tables |-> Store!NewTables(5), rows |-> "queue_ops"]
    <3> HIDE DEF oldOnes, kept, new, Former
    <3> QED BY <2>1, <2>f, <2>g
  <2> QED BY <1>2, <1>6, <2>2 DEF HoldsOps, Store!Broken, Store!SetVersion, Store!Migration
<1>7. CASE v \in {5, 6, 7}
  <2>1. s = [ver |-> v, tables |-> Store!NewTables(v), rows |-> "queue_ops"]
    BY <1>7 DEF HoldsOps
  <2>2. Store!Migration(v + 1, s) =
          [ver |-> v, tables |-> Store!NewTables(v + 1), rows |-> "queue_ops"]
    <3>1. /\ Store!NewTables(5) = [n \in Store!FirstTables(3) |-> Store!Columns(n)]
          /\ Store!NewTables(6) = [n \in Store!FirstTables(4) |-> Store!Columns(n)]
          /\ Store!NewTables(7) = [n \in Store!FirstTables(5) |-> Store!Columns(n)]
          /\ Store!NewTables(8) = [n \in Store!FirstTables(6) |-> Store!Columns(n)]
      BY DEF Store!NewTables
    <3>2. CASE v = 5
      <4>1. Store!Create(Store!NewTables(5), {"workspace_bindings"}) = Store!NewTables(6)
        BY <3>1, TablesOfSnapshot DEF Store!Create
      <4>2. Store!Migration(6, s) = [s EXCEPT !.tables = Store!Create(@, {"workspace_bindings"})]
        BY DEF Store!Migration
      <4> QED BY <2>1, <3>2, <4>1, <4>2
    <3>3. CASE v = 6
      <4>1. Store!Create(Store!NewTables(6), {"backup_artifacts"}) = Store!NewTables(7)
        BY <3>1, TablesOfSnapshot DEF Store!Create
      <4>2. Store!Migration(7, s) = [s EXCEPT !.tables = Store!Create(@, {"backup_artifacts"})]
        BY DEF Store!Migration
      <4> QED BY <2>1, <3>3, <4>1, <4>2
    <3>4. CASE v = 7
      <4>1. Store!Create(Store!NewTables(7), {"task_runs"}) = Store!NewTables(8)
        BY <3>1, TablesOfSnapshot DEF Store!Create
      <4>2. Store!Migration(8, s) = [s EXCEPT !.tables = Store!Create(@, {"task_runs"})]
        BY DEF Store!Migration
      <4> QED BY <2>1, <3>4, <4>1, <4>2
    <3> QED BY <1>7, <3>2, <3>3, <3>4
  <2> QED BY <1>2, <1>7, <2>2 DEF HoldsOps, Store!Broken, Store!SetVersion
<1>8. CASE v \in {8, 9}
  <2>1. s = [ver |-> v, tables |-> Store!NewTables(v), rows |-> "queue_ops"]
    BY <1>8 DEF HoldsOps
  <2>2. /\ Store!NewTables(v + 1) = Store!NewTables(v)
        /\ DOMAIN Store!NewTables(v) = Store!FirstTables(6)
    BY <1>8 DEF Store!NewTables
  <2>3. Store!Migration(v + 1, s) = s
    BY <1>8, <2>1, <2>2, TablesOfSnapshot DEF Store!Migration
  <2> QED BY <1>1, <1>2, <1>8, <2>1, <2>2, <2>3 DEF HoldsOps, Store!SetVersion
<1> QED BY <1>3, <1>4, <1>5, <1>6, <1>7, <1>8

LEMMA RoundReaches ==
    ASSUME NEW s, NEW v \in 2 .. 10, \E u \in v - 1 .. 10 : HoldsOps(s, u)
    PROVE  \E u \in v .. 10 : HoldsOps(Store!Upgraded(s, v), u)
<1>1. PICK u \in v - 1 .. 10 : HoldsOps(s, u)
  OBVIOUS
<1>2. CASE u = v - 1
  BY <1>1, <1>2, RoundUpgrades
<1>3. CASE u \in v .. 10
  <2>1. s.ver = u
    BY <1>1, <1>3 DEF HoldsOps
  <2>2. s.ver >= v
    BY <1>3, <2>1
  <2>3. Store!Upgraded(s, v) = s
    BY <2>2, RoundSkipped
  <2> QED BY <1>1, <1>3, <2>3
<1> QED BY <1>2, <1>3

LEMMA OldStoreMigrates ==
    ASSUME NEW s, NEW v \in 0 .. 10, HoldsOps(s, v)
    PROVE  HoldsOps(Store!Migrated(s), 10)
<1>1. \E u \in 1 .. 10 : HoldsOps(Store!Versioned(s), u)
  <2>1. CASE v = 0
    <3>1. PICK t, o \in BOOLEAN :
             s = [ver |-> 0, tables |-> Store!OldTables(0, t, o), rows |-> "ops"]
      BY <2>1 DEF HoldsOps
    <3>2. Store!OldTables(0, t, o) = Store!OldTables(1, t, o)
      BY DEF Store!OldTables
    <3>3. Store!Versioned(s) = [ver |-> 1, tables |-> Store!OldTables(1, t, o), rows |-> "ops"]
      BY <3>1, <3>2 DEF Store!Versioned, Store!SetVersion
    <3>4. HoldsOps(Store!Versioned(s), 1)
      BY <3>3 DEF HoldsOps
    <3> QED BY <3>4
  <2>2. CASE v # 0
    <3>1. s.ver = v
      BY DEF HoldsOps
    <3> QED BY <2>2, <3>1 DEF Store!Versioned
  <2> QED BY <2>1, <2>2
<1> DEFINE s1 == Store!Versioned(s)
           s2 == Store!Upgraded(s1, 2)
           s3 == Store!Upgraded(s2, 3)
           s4 == Store!Upgraded(s3, 4)
           s5 == Store!Upgraded(s4, 5)
           s6 == Store!Upgraded(s5, 6)
           s7 == Store!Upgraded(s6, 7)
           s8 == Store!Upgraded(s7, 8)
           s9 == Store!Upgraded(s8, 9)
           s10 == Store!Upgraded(s9, 10)
<1>2. Store!Migrated(s) = s10
  BY DEF Store!Migrated, Store!MigratedTo4, Store!MigratedTo7, Store!Latest
<1> HIDE DEF s1, s2, s3, s4, s5, s6, s7, s8, s9, s10
<1>3. \E u \in 2 .. 10 : HoldsOps(s2, u)
  BY <1>1, RoundReaches DEF s1, s2
<1>4. \E u \in 3 .. 10 : HoldsOps(s3, u)
  BY <1>3, RoundReaches DEF s3
<1>5. \E u \in 4 .. 10 : HoldsOps(s4, u)
  BY <1>4, RoundReaches DEF s4
<1>6. \E u \in 5 .. 10 : HoldsOps(s5, u)
  BY <1>5, RoundReaches DEF s5
<1>7. \E u \in 6 .. 10 : HoldsOps(s6, u)
  BY <1>6, RoundReaches DEF s6
<1>8. \E u \in 7 .. 10 : HoldsOps(s7, u)
  BY <1>7, RoundReaches DEF s7
<1>9. \E u \in 8 .. 10 : HoldsOps(s8, u)
  BY <1>8, RoundReaches DEF s8
<1>10. \E u \in 9 .. 10 : HoldsOps(s9, u)
  BY <1>9, RoundReaches DEF s9
<1>11. \E u \in 10 .. 10 : HoldsOps(s10, u)
  BY <1>10, RoundReaches DEF s10
<1> QED BY <1>2, <1>11

StoreSteps == {"closed", "look", "make", "migrate", "complete", "ready", "failed"}

SnapshotSet == Store!FirstTables(6)

(* A store without ops, of which some process may be making the tables. *)
Empty ==
    /\ \E T \in SUBSET SnapshotSet, v \in {0, 10} :
         store = [ver |-> v, tables |-> [n \in T |-> Store!Columns(n)], rows |-> Store!None]
    /\ store.ver = 10 => DOMAIN store.tables = SnapshotSet
    /\ \A p \in Openers : at[p] = "make" => Store!FirstTables(made[p]) \subseteq DOMAIN store.tables

(* A store with ops, which nobody takes for a new one. *)
Holding ==
    /\ \E v \in 0 .. 11 : HoldsOps(store, v)
    /\ \A p \in Openers : /\ at[p] # "make"
                          /\ store.ver = 11 => at[p] \in {"closed", "failed"}

StoreInv ==
    /\ at \in [Openers -> StoreSteps] /\ made \in [Openers -> 0 .. 6]
    /\ Empty \/ Holding
    /\ \A p \in Openers : at[p] \in {"complete", "ready"} => store.ver = 10

LEMMA OldNotBrandNew ==
    ASSUME NEW s, NEW v \in 0 .. 11, HoldsOps(s, v)
    PROVE  ~Store!BrandNew(s) /\ s.ver = v /\ s.rows # Store!None
<1>1. CASE v < 5
  <2>1. PICK t, o \in BOOLEAN : s = [ver |-> v, tables |-> Store!OldTables(v, t, o), rows |-> "ops"]
    BY <1>1 DEF HoldsOps
  <2>2. "ops" \in DOMAIN Store!OldTables(v, t, o)
    BY DEF Store!OldTables
  <2> QED BY <2>1, <2>2 DEF Store!BrandNew, Store!None
<1>2. CASE v >= 5
  <2>1. s = [ver |-> v, tables |-> Store!NewTables(v), rows |-> "queue_ops"]
    BY <1>2 DEF HoldsOps
  <2> QED BY <1>2, <2>1 DEF Store!BrandNew, Store!None
<1> QED BY <1>1, <1>2

LEMMA NewMigrates ==
    ASSUME NEW T \in SUBSET SnapshotSet, NEW v \in {0, 10}
    PROVE  LET s == [ver |-> v, tables |-> [n \in T |-> Store!Columns(n)], rows |-> Store!None]
           IN Store!Migrated(s) = IF v = 0 THEN Store!Broken ELSE s
<1> DEFINE s == [ver |-> v, tables |-> [n \in T |-> Store!Columns(n)], rows |-> Store!None]
<1>1. CASE v = 10
  <2>1. s.ver = 10 /\ Store!Versioned(s) = s
    BY <1>1 DEF Store!Versioned
  <2>2. \A u \in 2 .. 10 : Store!Upgraded(s, u) = s
    BY <2>1, RoundSkipped
  <2> HIDE DEF s
  <2>3. Store!Migrated(s) = s
    BY <2>1, <2>2 DEF Store!Migrated, Store!MigratedTo7, Store!MigratedTo4, Store!Latest
  <2> QED BY <1>1, <2>3 DEF s
<1>2. CASE v = 0
  <2> DEFINE s1 == [s EXCEPT !.ver = 1]
  <2>1. Store!Versioned(s) = s1
    BY <1>2 DEF Store!Versioned, Store!SetVersion
  <2>2. "ops" \notin DOMAIN s1.tables /\ s1.ver = 1
    BY TablesOfSnapshot DEF SnapshotSet
  <2> HIDE DEF s, s1
  <2>3. Store!Migration(2, s1) = Store!Broken
    BY <2>2 DEF Store!Migration, Store!AddColumn
  <2>4. s1 # Store!Broken /\ ~(s1.ver >= 2)
    BY <2>2 DEF Store!Broken
  <2>5. Store!Upgraded(s1, 2) = Store!Broken
    BY <2>3, <2>4, RoundRuns
  <2>6. \A u \in 3 .. 10 : Store!Upgraded(Store!Broken, u) = Store!Broken
    BY DEF Store!Upgraded
  <2>7. Store!Migrated(s) = Store!Broken
    BY <2>1, <2>5, <2>6 DEF Store!Migrated, Store!MigratedTo7, Store!MigratedTo4, Store!Latest
  <2> QED BY <1>2, <2>7 DEF s
<1> QED BY <1>1, <1>2

LEMMA StoreInitInv == Store!Init => StoreInv
<1> SUFFICES ASSUME Store!Init PROVE StoreInv
  OBVIOUS
<1>1. at \in [Openers -> StoreSteps] /\ made \in [Openers -> 0 .. 6]
  BY DEF Store!Init, StoreSteps
<1>2. \A p \in Openers : at[p] = "closed"
  BY DEF Store!Init
<1>3. CASE store = [ver |-> 0, tables |-> <<>>, rows |-> Store!None]
  <2>1. <<>> = [n \in {} |-> Store!Columns(n)]
    OBVIOUS
  <2>2. Empty
    BY <1>2, <1>3, <2>1 DEF Empty
  <2> QED BY <1>1, <1>2, <2>2 DEF StoreInv
<1>4. ASSUME NEW v \in 0 .. 11, HoldsOps(store, v)
      PROVE  StoreInv
  BY <1>1, <1>2, <1>4 DEF StoreInv, Holding
<1>5. store \in Store!Stores
  BY DEF Store!Init
<1>6. ASSUME NEW v \in 0 .. 4, NEW t \in BOOLEAN, NEW o \in BOOLEAN,
             store = [ver |-> v, tables |-> Store!OldTables(v, t, o), rows |-> "ops"]
      PROVE  HoldsOps(store, v)
  BY <1>6 DEF HoldsOps
<1>7. ASSUME NEW v \in 5 .. 11,
             store = [ver |-> v, tables |-> Store!NewTables(v), rows |-> "queue_ops"]
      PROVE  HoldsOps(store, v)
  BY <1>7 DEF HoldsOps
<1> QED BY <1>3, <1>4, <1>5, <1>6, <1>7 DEF Store!Stores, Store!Latest

LEMMA StoreNextInv ==
    ASSUME StoreInv, [Store!Next]_Store!storeVars
    PROVE  StoreInv'
<1>1. CASE UNCHANGED Store!storeVars
  BY <1>1 DEF Store!storeVars, StoreInv, Empty, Holding
<1>2. ASSUME NEW p \in Openers, Store!Open(p) PROVE StoreInv'
  <2>1. at' \in [Openers -> StoreSteps]
    BY <1>2 DEF StoreInv, Store!Open, Store!Goes, StoreSteps
  <2>2. /\ at' = [at EXCEPT ![p] = at'[p]] /\ at'[p] \in {"failed", "look", "migrate"}
        /\ store.ver = 11 => at'[p] = "failed"
    BY <1>2 DEF StoreInv, Store!Open, Store!Goes, Store!Latest
  <2>3. UNCHANGED <<store, made>>
    BY <1>2 DEF Store!Open
  <2> QED BY <2>1, <2>2, <2>3 DEF StoreInv, Empty, Holding
<1>3. ASSUME NEW p \in Openers, Store!Look(p) PROVE StoreInv'
  <2>1. CASE Empty
    <3>1. store' = store /\ made' = [made EXCEPT ![p] = 0]
          /\ at' = [at EXCEPT ![p] = at'[p]] /\ at'[p] \in {"make", "migrate"}
      BY <1>3 DEF Store!Look, Store!Goes, StoreInv
    <3>2. Store!FirstTables(0) = {}
      BY DEF Store!FirstTables
    <3>3. at' \in [Openers -> StoreSteps] /\ made' \in [Openers -> 0 .. 6]
      BY <3>1 DEF StoreInv, StoreSteps
    <3>4. Empty'
      BY <2>1, <3>1, <3>2 DEF Empty, StoreInv
    <3> QED BY <3>1, <3>3, <3>4 DEF StoreInv
  <2>2. CASE Holding
    <3>1. PICK v \in 0 .. 11 : HoldsOps(store, v)
      BY <2>2 DEF Holding
    <3>2. ~Store!BrandNew(Store!SetVersion(store, 0))
      <4>1. CASE v < 5
        <5>1. PICK t, o \in BOOLEAN :
                 store = [ver |-> v, tables |-> Store!OldTables(v, t, o), rows |-> "ops"]
          BY <3>1, <4>1 DEF HoldsOps
        <5>2. "ops" \in DOMAIN Store!OldTables(v, t, o)
          BY DEF Store!OldTables
        <5> QED BY <5>1, <5>2 DEF Store!BrandNew, Store!SetVersion
      <4>2. CASE v >= 5
        <5>1. store = [ver |-> v, tables |-> Store!NewTables(v), rows |-> "queue_ops"]
          BY <3>1, <4>2 DEF HoldsOps
        <5>2. "queue_ops" \in DOMAIN Store!NewTables(v)
          <6>1. /\ "queue_ops" \in Store!FirstTables(3) /\ "queue_ops" \in Store!FirstTables(4)
                /\ "queue_ops" \in Store!FirstTables(5) /\ "queue_ops" \in Store!FirstTables(6)
            BY TablesOfSnapshot
          <6>2. v \in {5, 6, 7} \/ v >= 8
            BY <4>2
          <6> QED BY <6>1, <6>2 DEF Store!NewTables
        <5> QED BY <5>1, <5>2 DEF Store!BrandNew, Store!SetVersion
      <4> QED BY <4>1, <4>2
    <3>3. store' = store /\ made' = [made EXCEPT ![p] = 0] /\ at' = [at EXCEPT ![p] = "migrate"]
          /\ at[p] = "look"
      BY <1>3, <3>2 DEF Store!Look, Store!Goes
    <3>4. store.ver # 11
      BY <2>2, <3>3 DEF Holding
    <3>5. at' \in [Openers -> StoreSteps] /\ made' \in [Openers -> 0 .. 6]
      BY <3>3 DEF StoreInv, StoreSteps
    <3>6. Holding'
      BY <2>2, <3>3, <3>4 DEF Holding, StoreInv
    <3> QED BY <3>3, <3>5, <3>6 DEF StoreInv
  <2> QED BY <2>1, <2>2 DEF StoreInv
<1>4. ASSUME NEW p \in Openers, Store!MakeTable(p) PROVE StoreInv'
  <2>a. at[p] = "make"
    BY <1>4 DEF Store!MakeTable
  <2>b. ~Holding
    BY <2>a DEF Holding
  <2>1. Empty
    BY <2>b DEF StoreInv
  <2>2. made[p] \in 0 .. 5 /\ at[p] = "make"
    BY <1>4, TablesOfSnapshot DEF StoreInv, Store!MakeTable
  <2>3. PICK T \in SUBSET SnapshotSet, v \in {0, 10} :
           store = [ver |-> v, tables |-> [n \in T |-> Store!Columns(n)], rows |-> Store!None]
    BY <2>1 DEF Empty
  <2> DEFINE new == Store!Snapshot[made[p] + 1]
  <2>4. /\ new \in SnapshotSet
        /\ Store!FirstTables(made[p] + 1) = Store!FirstTables(made[p]) \cup {new}
    BY <2>2 DEF SnapshotSet, Store!FirstTables
  <2> HIDE DEF new
  <2>5. store' = [ver |-> v, tables |-> [n \in T \cup {new} |-> Store!Columns(n)],
                  rows |-> Store!None]
    <3>1. Store!Create([n \in T |-> Store!Columns(n)], {new})
            = [n \in T \cup {new} |-> Store!Columns(n)]
      BY DEF Store!Create
    <3>2. store' = [store EXCEPT !.tables = Store!Create(store.tables, {new})]
      BY <1>4 DEF Store!MakeTable, new
    <3> QED BY <2>3, <3>1, <3>2
  <2>6. made' = [made EXCEPT ![p] = made[p] + 1] /\ at' = at
    BY <1>4 DEF Store!MakeTable
  <2>7. made' \in [Openers -> 0 .. 6]
    BY <2>2, <2>6 DEF StoreInv
  <2>8. Empty'
    <3>1. \E S \in SUBSET SnapshotSet, u \in {0, 10} :
             store' = [ver |-> u, tables |-> [n \in S |-> Store!Columns(n)], rows |-> Store!None]
      BY <2>4, <2>5
    <3>2. store'.ver = 10 => DOMAIN store'.tables = SnapshotSet
      BY <2>1, <2>3, <2>4, <2>5 DEF Empty
    <3>3. ASSUME NEW q \in Openers, at'[q] = "make"
          PROVE  Store!FirstTables(made'[q]) \subseteq DOMAIN store'.tables
      <4>1. Store!FirstTables(made[q]) \subseteq T
        BY <2>1, <2>3, <2>6, <3>3 DEF Empty
      <4>2. CASE q = p
        BY <2>4, <2>5, <2>6, <4>1, <4>2 DEF StoreInv
      <4>3. CASE q # p
        BY <2>5, <2>6, <4>1, <4>3 DEF StoreInv
      <4> QED BY <4>2, <4>3
    <3> QED BY <3>1, <3>2, <3>3 DEF Empty
  <2> QED BY <2>3, <2>5, <2>6, <2>7, <2>8 DEF StoreInv
<1>5. ASSUME NEW p \in Openers, Store!Stamp(p) PROVE StoreInv'
  <2>a. at[p] = "make"
    BY <1>5 DEF Store!Stamp
  <2>b. ~Holding
    BY <2>a DEF Holding
  <2>1. Empty
    BY <2>b DEF StoreInv
  <2>2. PICK T \in SUBSET SnapshotSet, v \in {0, 10} :
           store = [ver |-> v, tables |-> [n \in T |-> Store!Columns(n)], rows |-> Store!None]
    BY <2>1 DEF Empty
  <2>3. T = SnapshotSet
    <3>1. Store!FirstTables(made[p]) \subseteq T /\ made[p] = 6
      BY <1>5, <2>1, <2>2, TablesOfSnapshot DEF Empty, Store!Stamp
    <3> QED BY <3>1 DEF SnapshotSet
  <2>4. store' = [ver |-> 10, tables |-> [n \in SnapshotSet |-> Store!Columns(n)],
                  rows |-> Store!None]
    BY <1>5, <2>2, <2>3 DEF Store!Stamp, Store!SetVersion, Store!Latest
  <2>5. at' = [at EXCEPT ![p] = "ready"] /\ made' = made
    BY <1>5 DEF Store!Stamp, Store!Goes
  <2>6. Empty'
    BY <2>1, <2>2, <2>3, <2>4, <2>5, ZenonT(30) DEF Empty, StoreInv
  <2> QED BY <2>4, <2>5, <2>6 DEF StoreInv, StoreSteps
<1>6. ASSUME NEW p \in Openers, Store!Migrate(p) PROVE StoreInv'
  <2>1. at[p] = "migrate" /\ made' = made
        /\ \/ Store!Migrated(store) = Store!Broken /\ Store!Goes(p, "failed") /\ store' = store
           \/ /\ Store!Migrated(store) # Store!Broken /\ store' = Store!Migrated(store)
              /\ Store!Goes(p, "complete")
    BY <1>6 DEF Store!Migrate
  <2>2. CASE Empty
    <3>1. PICK T \in SUBSET SnapshotSet, v \in {0, 10} :
             store = [ver |-> v, tables |-> [n \in T |-> Store!Columns(n)], rows |-> Store!None]
      BY <2>2 DEF Empty
    <3>2. Store!Migrated(store) = IF v = 0 THEN Store!Broken ELSE store
      BY <3>1, NewMigrates
    <3>3. /\ store' = store /\ at' = [at EXCEPT ![p] = at'[p]]
          /\ at'[p] \in {"failed", "complete"}
          /\ at'[p] = "complete" => store.ver = 10
      BY <2>1, <3>1, <3>2 DEF Store!Goes, StoreInv
    <3>4. \A q \in Openers : at'[q] = "make" => at[q] = "make"
      BY <3>3 DEF StoreInv
    <3>5. Empty'
      BY <2>1, <2>2, <3>3, <3>4 DEF Empty
    <3>6. \A q \in Openers : at'[q] \in {"complete", "ready"} => store.ver = 10
      BY <3>3 DEF StoreInv
    <3>7. at' \in [Openers -> StoreSteps]
      BY <3>3 DEF StoreInv, StoreSteps
    <3> QED BY <2>1, <3>3, <3>5, <3>6, <3>7 DEF StoreInv
  <2>3. CASE Holding
    <3>1. PICK v \in 0 .. 11 : HoldsOps(store, v)
      BY <2>3 DEF Holding
    <3>2. store.ver = v /\ v # 11
      BY <2>1, <2>3, <3>1, OldNotBrandNew DEF Holding
    <3>3. HoldsOps(Store!Migrated(store), 10)
      BY <3>1, <3>2, OldStoreMigrates
    <3>4. Store!Migrated(store).ver = 10
      BY <3>3, OldNotBrandNew
    <3>5. Store!Migrated(store) # Store!Broken
      BY <3>4 DEF Store!Broken
    <3>6. store' = Store!Migrated(store) /\ at' = [at EXCEPT ![p] = "complete"]
      BY <2>1, <3>5 DEF Store!Goes
    <3>7. Holding'
      BY <2>3, <3>3, <3>4, <3>6 DEF Holding, StoreInv
    <3> QED BY <2>1, <3>4, <3>6, <3>7 DEF StoreInv, StoreSteps
  <2> QED BY <2>2, <2>3 DEF StoreInv
<1>7. ASSUME NEW p \in Openers, Store!Complete(p) PROVE StoreInv'
  <2>1. store.ver = 10 /\ at[p] = "complete" /\ made' = made
        /\ at' = [at EXCEPT ![p] = "ready"]
    BY <1>7 DEF Store!Complete, Store!Goes, StoreInv
  <2>2. store' = [store EXCEPT !.tables = Store!Create(store.tables, SnapshotSet)]
    BY <1>7, TablesOfSnapshot DEF Store!Complete, SnapshotSet
  <2>3. store' = store
    <3>1. \E r \in {Store!None, "queue_ops"} :
             store = [ver |-> 10, tables |-> [n \in SnapshotSet |-> Store!Columns(n)], rows |-> r]
      <4>1. CASE Empty
        BY <2>1, <4>1 DEF Empty
      <4>2. CASE Holding
        <5>1. HoldsOps(store, 10)
          BY <2>1, <4>2, OldNotBrandNew DEF Holding
        <5> QED BY <5>1 DEF HoldsOps, Store!NewTables, SnapshotSet
      <4> QED BY <4>1, <4>2 DEF StoreInv
    <3>2. Store!Create([n \in SnapshotSet |-> Store!Columns(n)], SnapshotSet)
            = [n \in SnapshotSet |-> Store!Columns(n)]
      BY DEF Store!Create
    <3> QED BY <2>2, <3>1, <3>2
  <2> QED BY <2>1, <2>3 DEF StoreInv, Empty, Holding, StoreSteps
<1>8. ASSUME NEW p \in Openers, Store!Ends(p) PROVE StoreInv'
  <2>1. at' = [at EXCEPT ![p] = "closed"] /\ UNCHANGED <<store, made>>
    BY <1>8 DEF Store!Ends, Store!Goes
  <2> QED BY <2>1 DEF StoreInv, Empty, Holding, StoreSteps
<1> QED BY <1>1, <1>2, <1>3, <1>4, <1>5, <1>6, <1>7, <1>8 DEF Store!Next

LEMMA StoreServed == StoreInv => Store!ReadyMeansComplete /\ Store!OldStoresOpen
<1> SUFFICES ASSUME StoreInv PROVE Store!ReadyMeansComplete /\ Store!OldStoresOpen
  OBVIOUS
<1>1. ASSUME NEW p \in Openers, at[p] = "ready"
      PROVE  /\ store.ver = Store!Latest
             /\ \A i \in DOMAIN Store!Snapshot :
                  /\ Store!Snapshot[i] \in DOMAIN store.tables
                  /\ Store!Columns(Store!Snapshot[i]) \subseteq store.tables[Store!Snapshot[i]]
             /\ store.rows \in {Store!None, "queue_ops"}
  <2>1. store.ver = 10
    BY <1>1 DEF StoreInv
  <2>2. \E r \in {Store!None, "queue_ops"} :
           store = [ver |-> 10, tables |-> [n \in SnapshotSet |-> Store!Columns(n)], rows |-> r]
    <3>1. CASE Empty
      BY <2>1, <3>1 DEF Empty
    <3>2. CASE Holding
      <4>1. HoldsOps(store, 10)
        BY <2>1, <3>2, OldNotBrandNew DEF Holding
      <4> QED BY <4>1 DEF HoldsOps, Store!NewTables, SnapshotSet
    <3> QED BY <3>1, <3>2 DEF StoreInv
  <2>3. \A i \in DOMAIN Store!Snapshot : Store!Snapshot[i] \in SnapshotSet
    BY DEF SnapshotSet, Store!FirstTables, Store!Snapshot
  <2> QED BY <2>1, <2>2, <2>3 DEF Store!Latest
<1>2. ASSUME store.rows # Store!None, store.ver <= Store!Latest
      PROVE  Store!OpenSucceeds
  <2>1. Holding
    BY <1>2 DEF StoreInv, Empty
  <2>2. PICK v \in 0 .. 11 : HoldsOps(store, v)
    BY <2>1 DEF Holding
  <2>3. v \in 0 .. 10
    BY <1>2, <2>2, OldNotBrandNew DEF Store!Latest
  <2>4. Store!Migrated(store).ver = 10
    BY <2>2, <2>3, OldStoreMigrates, OldNotBrandNew
  <2> QED BY <2>4 DEF Store!OpenSucceeds, Store!Broken
<1> QED BY <1>1, <1>2 DEF Store!ReadyMeansComplete, Store!OldStoresOpen

-----------------------------------------------------------------------------
(* The selection of a batch.  What a loop or a sum comes to is shown by
   UpTo, which rests on there being a least position that it does not hold for. *)

LEMMA SameCardinality ==
    ASSUME NEW S
    PROVE  Batch!Cardinality(S) = Cardinality(S)
  BY DEF Batch!Cardinality, Cardinality, Batch!IsFiniteSet, IsFiniteSet

LEMMA BatchShape ==
    /\ \A t \in DOMAIN TxnOps : TxnOps[t] \in Seq(Batch!Ops)
    /\ Bytes \in [Batch!Ops -> Nat] /\ Overhead \in Nat /\ MaxOpBytes \in Nat
    /\ Wants \subseteq Nat /\ Budgets \subseteq Nat
    /\ PeekLimit \in Nat /\ MinWindow \in Nat /\ MaxWindow \in Nat /\ WindowPerOp \in Nat
  BY BatchConstants DEF Batch!SelectionConstants

Less == OpToRel(<, Nat)

LEMMA LeastNat ==
    ASSUME NEW T, T \subseteq Nat, T # {}
    PROVE  \E x \in T : \A y \in T : x <= y
<1>1. Less = {p \in Nat \X Nat : p[1] < p[2]}
  BY DEF Less, OpToRel
<1>2. PICK x \in T : \A y \in T : <<y, x>> \notin Less
  BY NatLessThanWellFounded, WFMin DEF Less
<1>3. \A y \in T : ~(y < x)
  BY <1>1, <1>2
<1> QED BY <1>3

(* What a set of natural numbers has that has 0 and is closed under successor
   up to k. *)
LEMMA UpTo ==
    ASSUME NEW k \in Nat, NEW S, 0 \in S, \A n \in 1 .. k : n - 1 \in S => n \in S
    PROVE  0 .. k \subseteq S
<1> DEFINE T == (0 .. k) \ S
<1> SUFFICES ASSUME T # {} PROVE FALSE
  OBVIOUS
<1>a. T \subseteq Nat
  OBVIOUS
<1>1. PICK n \in T : \A m \in T : n <= m
  <2> HIDE DEF T
  <2> QED BY <1>a, LeastNat
<1>2. n \in 1 .. k /\ n - 1 \in 0 .. k
  BY <1>1
<1> QED BY <1>1, <1>2

-----------------------------------------------------------------------------
(* Sums over positions *)

SumsOf(u, f, I, k) ==
    u = [n \in 0 .. k |-> IF n = 0 THEN 0 ELSE u[n - 1] + (IF n \in I THEN f[n] ELSE 0)]

LEMMA SumsExist ==
    ASSUME NEW f, NEW I, NEW k \in Nat
    PROVE  \E u : SumsOf(u, f, I, k)
<1> DEFINE S == {n \in Nat : \E u : SumsOf(u, f, I, n)}
<1>1. 0 \in S
  <2> DEFINE u == [n \in 0 .. 0 |-> 0]
  <2>1. SumsOf(u, f, I, 0)
    BY DEF SumsOf
  <2> QED BY <2>1
<1>2. ASSUME NEW n \in 1 .. k, n - 1 \in S PROVE n \in S
  <2>1. PICK u : SumsOf(u, f, I, n - 1)
    BY <1>2
  <2> DEFINE v == [m \in 0 .. n |->
                     IF m = n THEN u[n - 1] + (IF n \in I THEN f[n] ELSE 0) ELSE u[m]]
  <2>2. SumsOf(v, f, I, n)
    BY <2>1 DEF SumsOf
  <2>3. n \in Nat
    OBVIOUS
  <2> HIDE DEF v
  <2> QED BY <2>2, <2>3
<1> HIDE DEF S
<1>3. k \in S
  BY <1>1, <1>2, UpTo
<1> QED BY <1>3 DEF S

LEMMA TotalIsSum ==
    ASSUME NEW f, NEW I, Len(order) \in Nat
    PROVE  \E u : SumsOf(u, f, I, Len(order)) /\ Batch!Total(f, I) = u[Len(order)]
<1> DEFINE u == CHOOSE g : SumsOf(g, f, I, Len(order))
<1>1. SumsOf(u, f, I, Len(order))
  BY SumsExist
<1>2. Batch!Total(f, I) = u[Len(order)]
  BY DEF Batch!Total, SumsOf
<1> QED BY <1>1, <1>2

LEMMA TotalGrows ==
    ASSUME Len(order) \in Nat, NEW f \in [1 .. Len(order) -> Nat], NEW J, NEW I \in SUBSET J
    PROVE  /\ Batch!Total(f, I) \in Nat /\ Batch!Total(f, J) \in Nat
           /\ Batch!Total(f, I) <= Batch!Total(f, J)
<1> DEFINE k == Len(order)
<1>1. PICK u : SumsOf(u, f, I, k) /\ Batch!Total(f, I) = u[k]
  BY TotalIsSum
<1>2. PICK v : SumsOf(v, f, J, k) /\ Batch!Total(f, J) = v[k]
  BY TotalIsSum
<1> DEFINE S == {n \in 0 .. k : u[n] \in Nat /\ v[n] \in Nat /\ u[n] <= v[n]}
<1>3. 0 \in S
  BY <1>1, <1>2 DEF SumsOf
<1>4. ASSUME NEW n \in 1 .. k, n - 1 \in S PROVE n \in S
  <2>1. /\ u[n] = u[n - 1] + (IF n \in I THEN f[n] ELSE 0)
        /\ v[n] = v[n - 1] + (IF n \in J THEN f[n] ELSE 0)
    BY <1>1, <1>2, SMTT(30) DEF SumsOf
  <2>2. f[n] \in Nat
    OBVIOUS
  <2> QED BY <1>4, <2>1, <2>2
<1> HIDE DEF S
<1>a. k \in Nat
  OBVIOUS
<1> HIDE DEF k
<1>b. 0 .. k \subseteq S
  BY <1>3, <1>4, <1>a, UpTo
<1>5. k \in S
  BY <1>a, <1>b
<1> QED BY <1>1, <1>2, <1>5 DEF S, k

-----------------------------------------------------------------------------
(* What chooseLookaheadSeed chooses *)

LEMMA LeastOf ==
    ASSUME NEW T, T # {}, NEW m \in [T -> Nat]
    PROVE  \E x \in T : \A y \in T : m[x] <= m[y]
<1> DEFINE V == {m[x] : x \in T}
<1>1. V \subseteq Nat /\ V # {}
  OBVIOUS
<1>2. PICK v \in V : \A w \in V : v <= w
  <2> HIDE DEF V
  <2> QED BY <1>1, LeastNat
<1> QED BY <1>2

LEMMA MostOf ==
    ASSUME NEW T, T # {}, NEW m \in [T -> Nat], NEW b \in Nat, \A x \in T : m[x] <= b
    PROVE  \E x \in T : \A y \in T : m[y] <= m[x]
<1> DEFINE rest == [x \in T |-> b - m[x]]
<1>1. rest \in [T -> Nat]
  OBVIOUS
<1>2. PICK x \in T : \A y \in T : rest[x] <= rest[y]
  <2> HIDE DEF rest
  <2> QED BY <1>1, LeastOf
<1> QED BY <1>2

SetsOfPositions(k) == SUBSET SUBSET (1 .. k)

LEMMA OneIsFoundFirst ==
    ASSUME NEW k \in Nat, NEW T \in SetsOfPositions(k), T # {}
    PROVE  \E I \in T : \A J \in T \ {I} : Batch!FoundBefore(I, J)
<1>a. T \subseteq SUBSET (1 .. k)
  BY DEF SetsOfPositions
<1> DEFINE Same(I, J, n) == \A m \in 1 .. n : m \in I <=> m \in J
           Leads(I, n) == \A J \in T : Same(I, J, n) \/ Batch!FoundBefore(I, J)
           S == {n \in 0 .. k : \E I \in T : Leads(I, n)}
<1>1. 0 \in S
  OBVIOUS
<1>2. ASSUME NEW n \in 1 .. k, n - 1 \in S PROVE n \in S
  <2>1. PICK I \in T : Leads(I, n - 1)
    BY <1>2
  <2>2. CASE \A J \in T : Same(I, J, n - 1) => n \in J
    <3>1. n \in I
      BY <2>2
    <3>2. ASSUME NEW J \in T PROVE Same(I, J, n) \/ Batch!FoundBefore(I, J)
      <4>1. CASE Same(I, J, n - 1)
        <5>1. n \in J
          BY <2>2, <4>1
        <5>2. \A m \in 1 .. n : m \in 1 .. n - 1 \/ m = n
          OBVIOUS
        <5> QED BY <3>1, <4>1, <5>1, <5>2
      <4>2. CASE Batch!FoundBefore(I, J)
        BY <4>2
      <4> QED BY <2>1, <4>1, <4>2
    <3> QED BY <3>2
  <2>3. CASE \E J \in T : Same(I, J, n - 1) /\ n \notin J
    <3>1. PICK F \in T : Same(I, F, n - 1) /\ n \notin F
      BY <2>3
    <3>2. ASSUME NEW J \in T PROVE Same(F, J, n) \/ Batch!FoundBefore(F, J)
      <4>1. CASE Same(I, J, n - 1)
        <5>1. Same(F, J, n - 1)
          BY <3>1, <4>1
        <5>2. CASE n \notin J
          <6>1. \A m \in 1 .. n : m \in 1 .. n - 1 \/ m = n
            OBVIOUS
          <6> QED BY <3>1, <5>1, <5>2, <6>1
        <5>3. CASE n \in J
          <6>1. \A m \in F \cup J : m < n => m \in 1 .. n - 1
            BY <1>a
          <6> QED BY <3>1, <5>1, <5>3, <6>1 DEF Batch!FoundBefore
        <5> QED BY <5>2, <5>3
      <4>2. CASE Batch!FoundBefore(I, J) /\ ~Same(I, J, n - 1)
        <5>1. PICK d \in J \ I : \A m \in I \cup J : m < d => m \in I \cap J
          BY <4>2 DEF Batch!FoundBefore
        <5>2. PICK e \in 1 .. n - 1 : ~(e \in I <=> e \in J)
          BY <4>2
        <5>3. d \in 1 .. n - 1
          BY <1>a, <5>1, <5>2
        <5>4. d \in J \ F /\ \A m \in F \cup J : m < d => m \in F \cap J
          BY <1>a, <3>1, <5>1, <5>3
        <5> QED BY <5>4 DEF Batch!FoundBefore
      <4> QED BY <2>1, <4>1, <4>2
    <3> QED BY <3>1, <3>2
  <2> QED BY <2>2, <2>3
<1>3. k \in S
  <2> HIDE DEF S
  <2>1. 0 .. k \subseteq S
    BY <1>1, <1>2, UpTo
  <2> QED BY <2>1
<1>4. PICK I \in T : Leads(I, k)
  BY <1>3
<1>5. ASSUME NEW J \in T \ {I} PROVE Batch!FoundBefore(I, J)
  <2>1. ~Same(I, J, k)
    BY <1>a
  <2> QED BY <1>4, <2>1
<1> QED BY <1>5

LEMMA PositionsFinite ==
    ASSUME NEW k \in Nat, NEW I \in SUBSET (1 .. k)
    PROVE  IsFiniteSet(I) /\ Cardinality(I) \in Nat
<1>1. IsFiniteSet(1 .. k)
  BY FS_Interval
<1>2. IsFiniteSet(I)
  BY <1>1, FS_Subset
<1> QED BY <1>2, FS_CardinalityType

LEMMA EstimateGrows ==
    ASSUME order \in Seq(Batch!Ops), NEW J \in SUBSET (1 .. Len(order)), NEW I \in SUBSET J
    PROVE  /\ Batch!Estimate(I) \in Nat /\ Batch!Estimate(J) \in Nat
           /\ Batch!Estimate(I) <= Batch!Estimate(J)
<1> DEFINE f == [i \in DOMAIN order |-> Bytes[order[i]] + 1]
<1>1. Len(order) \in Nat /\ f \in [1 .. Len(order) -> Nat]
  BY BatchShape
<1> HIDE DEF f
<1>2. /\ Batch!Total(f, I) \in Nat /\ Batch!Total(f, J) \in Nat
      /\ Batch!Total(f, I) <= Batch!Total(f, J)
  BY <1>1, TotalGrows
<1>3. /\ Batch!Estimate(I) = Overhead + Batch!Total(f, I)
      /\ Batch!Estimate(J) = Overhead + Batch!Total(f, J)
  BY DEF Batch!Estimate, f
<1> QED BY <1>2, <1>3, BatchShape

LEMMA BestIsFullest ==
    ASSUME order \in Seq(Batch!Ops), NEW C \in SUBSET (1 .. Len(order)),
           NEW T \in SUBSET SUBSET (1 .. Len(order)), T # {},
           NEW want \in Nat, \A I \in T : Cardinality(I) <= want
    PROVE  Batch!Best(C, T) \in T /\ \A J \in T : Cardinality(J) <= Cardinality(Batch!Best(C, T))
<1> DEFINE age(I) == Batch!Total([i \in DOMAIN order |-> Batch!Rank(C, i)], I)
           fullest == {I \in T : \A J \in T : Cardinality(J) <= Cardinality(I)}
           oldest == {I \in fullest : \A J \in fullest : age(I) <= age(J)}
           biggest == {I \in oldest : \A J \in oldest : Batch!Estimate(J) <= Batch!Estimate(I)}
<1>1. Len(order) \in Nat /\ DOMAIN order = 1 .. Len(order)
  OBVIOUS
<1>2. ASSUME NEW I \in SUBSET (1 .. Len(order)) PROVE Cardinality(I) \in Nat
  BY <1>1, PositionsFinite
<1>3. fullest # {}
  <2> DEFINE m == [I \in T |-> Cardinality(I)]
  <2>1. m \in [T -> Nat] /\ \A I \in T : m[I] <= want
    BY <1>2
  <2>2. \E I \in T : \A J \in T : m[J] <= m[I]
    <3> HIDE DEF m
    <3> QED BY <2>1, MostOf
  <2> QED BY <2>2
<1>4. ASSUME NEW I \in T PROVE age(I) \in Nat
  <2>1. [i \in DOMAIN order |-> Batch!Rank(C, i)] \in [1 .. Len(order) -> Nat]
    BY <1>1, <1>2, SameCardinality DEF Batch!Rank
  <2> QED BY <1>1, <2>1, TotalGrows
<1>5. oldest # {}
  <2> DEFINE m == [I \in fullest |-> age(I)]
  <2>1. m \in [fullest -> Nat]
    BY <1>4
  <2>2. \E I \in fullest : \A J \in fullest : m[I] <= m[J]
    <3> HIDE DEF m, fullest
    <3> QED BY <1>3, <2>1, LeastOf
  <2> QED BY <2>2
<1>6. biggest # {}
  <2> DEFINE m == [I \in oldest |-> Batch!Estimate(I)]
             b == Batch!Estimate(1 .. Len(order))
  <2>1. m \in [oldest -> Nat] /\ b \in Nat /\ \A I \in oldest : m[I] <= b
    <3>1. ASSUME NEW I \in SUBSET (1 .. Len(order))
          PROVE  Batch!Estimate(I) \in Nat /\ b \in Nat /\ Batch!Estimate(I) <= b
      BY EstimateGrows
    <3>2. oldest \subseteq SUBSET (1 .. Len(order))
      OBVIOUS
    <3> HIDE DEF b, oldest
    <3> QED BY <3>1, <3>2
  <2>2. \E I \in oldest : \A J \in oldest : m[J] <= m[I]
    <3> HIDE DEF m, oldest, b
    <3> QED BY <1>5, <2>1, MostOf
  <2> QED BY <2>2
<1>7. \E I \in biggest : \A J \in biggest \ {I} : Batch!FoundBefore(I, J)
  <2>1. biggest \subseteq T
    OBVIOUS
  <2> HIDE DEF biggest
  <2>2. biggest \subseteq SUBSET (1 .. Len(order))
    BY <2>1
  <2>3. biggest \in SetsOfPositions(Len(order))
    BY <2>2 DEF SetsOfPositions
  <2> QED BY <1>1, <1>6, <2>3, OneIsFoundFirst
<1>8. Batch!Best(C, T) \in biggest
  <2> HIDE DEF biggest
  <2>1. Batch!Best(C, T) =
           CHOOSE I \in biggest : \A J \in biggest \ {I} : Batch!FoundBefore(I, J)
    BY SameCardinality DEF Batch!Best, biggest
  <2> QED BY <1>7, <2>1
<1> QED BY <1>8

-----------------------------------------------------------------------------
(* Candidates, the window and the seed *)

LEMMA RankGrows ==
    ASSUME NEW k \in Nat, NEW I \in SUBSET (1 .. k), NEW i \in Nat, NEW j \in Nat, i <= j
    PROVE  /\ Batch!Rank(I, i) \in Nat /\ Batch!Rank(I, j) \in Nat
           /\ Batch!Rank(I, i) <= Batch!Rank(I, j)
<1> DEFINE A == {m \in I : m <= i}
           B == {m \in I : m <= j}
<1>a. ASSUME NEW m \in A PROVE m \in B
  <2>1. m \in I /\ m \in Nat /\ m <= i
    OBVIOUS
  <2>2. m <= j
    BY <2>1
  <2> QED BY <2>1, <2>2
<1>b. A \subseteq 1 .. k /\ B \subseteq 1 .. k
  OBVIOUS
<1> HIDE DEF A, B
<1>1. A \subseteq B /\ A \in SUBSET (1 .. k) /\ B \in SUBSET (1 .. k)
  BY <1>a, <1>b
<1>2. IsFiniteSet(B) /\ Cardinality(A) \in Nat /\ Cardinality(B) \in Nat
  BY <1>1, PositionsFinite
<1>3. Cardinality(A) <= Cardinality(B)
  BY <1>1, <1>2, FS_Subset
<1> QED BY <1>2, <1>3, SameCardinality DEF Batch!Rank, A, B

(* The first of the positions come before the others. *)
LEMMA FirstComeFirst ==
    ASSUME NEW k \in Nat, NEW I \in SUBSET (1 .. k), NEW n \in Int,
           NEW i \in I \ Batch!First(n, I), NEW j \in Batch!First(n, I)
    PROVE  j < i
<1>1. i \in Nat /\ j \in Nat /\ j \in I
  BY DEF Batch!First
<1>2. Batch!Rank(I, i) \in Nat /\ Batch!Rank(I, j) \in Nat
  <2>1. i <= i /\ j <= j
    BY <1>1
  <2> QED BY <1>1, <2>1, RankGrows
<1>3. Batch!Rank(I, i) > n /\ Batch!Rank(I, j) <= n
  BY <1>2 DEF Batch!First
<1>4. i <= j => Batch!Rank(I, i) <= Batch!Rank(I, j)
  BY <1>1, RankGrows
<1> QED BY <1>1, <1>2, <1>3, <1>4

LEMMA WindowComesFirst ==
    ASSUME NEW k \in Nat, NEW C \in SUBSET (1 .. k), NEW want \in Nat
    PROVE  /\ Batch!Window(C, want) \subseteq C
           /\ \A i \in C \ Batch!Window(C, want), j \in Batch!Window(C, want) : j < i
<1> DEFINE n == Batch!Larger(MinWindow, Batch!Smaller(MaxWindow, WindowPerOp * want))
<1>1. n \in Int
  BY BatchShape DEF Batch!Larger, Batch!Smaller
<1>2. Batch!Window(C, want) = Batch!First(n, C)
  BY DEF Batch!Window
<1> HIDE DEF n
<1>3. Batch!First(n, C) \subseteq C
  BY DEF Batch!First
<1> QED BY <1>1, <1>2, <1>3, FirstComeFirst

IsSeed(seed, C, want, budget) ==
    \/ seed = {}
    \/ /\ seed \in Batch!Packings(C, want, budget)
       /\ \A J \in Batch!Packings(C, want, budget) : Cardinality(J) <= Cardinality(seed)

LEMMA SeedIsSeed ==
    ASSUME order \in Seq(Batch!Ops), NEW C \in SUBSET (1 .. Len(order)), NEW want \in Nat, NEW budget
    PROVE  IsSeed(Batch!Seed(C, want, budget), C, want, budget)
<1> DEFINE T == Batch!Packings(C, want, budget)
<1>1. Len(order) \in Nat
  OBVIOUS
<1>2. Batch!Window(C, want) \subseteq 1 .. Len(order)
  BY <1>1, WindowComesFirst
<1>3. T \in SUBSET SUBSET (1 .. Len(order)) /\ \A I \in T : Cardinality(I) <= want
  BY <1>2, SameCardinality DEF Batch!Packings
<1>4. {} \in T
  BY FS_EmptySet, SameCardinality DEF Batch!Packings
<1>5. T # {}
  BY <1>4
<1>6. Batch!Best(C, T) \in T /\ \A J \in T : Cardinality(J) <= Cardinality(Batch!Best(C, T))
  <2> HIDE DEF T
  <2> QED BY <1>3, <1>5, BestIsFullest
<1> QED BY <1>6 DEF Batch!Seed, IsSeed

-----------------------------------------------------------------------------
(* Ops that can go together *)

Together(I) ==
    \A i \in I : /\ Batch!Ready(order[i]) /\ Bytes[order[i]] <= MaxOpBytes
                 /\ ~Batch!Blocked(order[i], Batch!InFlight \cup Batch!At(I \ {i}))

LEMMA BlockedByOne ==
    ASSUME NEW o, NEW S, NEW p \in S, Batch!Blocked(o, {p})
    PROVE  Batch!Blocked(o, S)
  BY DEF Batch!Blocked

LEMMA BlockedEachOther ==
    ASSUME NEW o, NEW p, Batch!Blocked(o, {p})
    PROVE  Batch!Blocked(p, {o})
  BY DEF Batch!Blocked, Batch!IsSerial

LEMMA BlockedBySome ==
    ASSUME NEW o, NEW S, Batch!Blocked(o, S)
    PROVE  \E p \in S : Batch!Blocked(o, {p})
  BY DEF Batch!Blocked

LEMMA FewerTogether ==
    ASSUME NEW J, NEW I \in SUBSET J, Together(J)
    PROVE  Together(I)
<1> SUFFICES ASSUME NEW i \in I, Batch!Blocked(order[i], Batch!InFlight \cup Batch!At(I \ {i}))
             PROVE  FALSE
  BY DEF Together
<1>1. PICK p \in Batch!InFlight \cup Batch!At(I \ {i}) : Batch!Blocked(order[i], {p})
  BY BlockedBySome
<1>2. p \in Batch!InFlight \cup Batch!At(J \ {i})
  BY <1>1 DEF Batch!At
<1> QED BY <1>1, <1>2, BlockedByOne DEF Together

LEMMA OneMoreTogether ==
    ASSUME NEW I, NEW i, NEW budget, Together(I), Batch!MayAdd(i, I, budget)
    PROVE  Together(I \cup {i})
<1> SUFFICES ASSUME NEW j \in I \cup {i},
                    Batch!Blocked(order[j], Batch!InFlight \cup Batch!At((I \cup {i}) \ {j}))
             PROVE  FALSE
  BY DEF Together, Batch!MayAdd
<1>1. PICK p \in Batch!InFlight \cup Batch!At((I \cup {i}) \ {j}) : Batch!Blocked(order[j], {p})
  BY BlockedBySome
<1>2. CASE j = i
  <2>1. p \in Batch!InFlight \cup Batch!At(I)
    BY <1>1, <1>2 DEF Batch!At
  <2> QED BY <1>1, <1>2, <2>1, BlockedByOne DEF Batch!MayAdd
<1>3. CASE j \in I /\ p \in Batch!InFlight \cup Batch!At(I \ {j})
  BY <1>1, <1>3, BlockedByOne DEF Together
<1>4. CASE j \in I /\ p = order[i]
  <2>1. Batch!Blocked(order[i], {order[j]})
    BY <1>1, <1>4, BlockedEachOther
  <2>2. order[j] \in Batch!At(I)
    BY <1>4 DEF Batch!At
  <2> QED BY <2>1, <2>2, BlockedByOne DEF Batch!MayAdd
<1> QED BY <1>1, <1>2, <1>3, <1>4 DEF Batch!At

(* What may be added to a batch may be added to less. *)
LEMMA MayAddToLess ==
    ASSUME order \in Seq(Batch!Ops), NEW J \in SUBSET (1 .. Len(order)), NEW I \in SUBSET J,
           NEW i \in 1 .. Len(order), NEW budget \in Nat, Batch!MayAdd(i, J, budget)
    PROVE  Batch!MayAdd(i, I, budget)
<1>1. ~Batch!Blocked(order[i], Batch!InFlight \cup Batch!At(I))
  <2> SUFFICES ASSUME Batch!Blocked(order[i], Batch!InFlight \cup Batch!At(I)) PROVE FALSE
    OBVIOUS
  <2>1. PICK p \in Batch!InFlight \cup Batch!At(I) : Batch!Blocked(order[i], {p})
    BY BlockedBySome
  <2>2. p \in Batch!InFlight \cup Batch!At(J)
    BY <2>1 DEF Batch!At
  <2> QED BY <2>1, <2>2, BlockedByOne DEF Batch!MayAdd
<1>2. Batch!Estimate(I \cup {i}) <= budget
  <2>1. J \cup {i} \in SUBSET (1 .. Len(order)) /\ I \cup {i} \in SUBSET (J \cup {i})
    OBVIOUS
  <2>2. /\ Batch!Estimate(I \cup {i}) \in Nat /\ Batch!Estimate(J \cup {i}) \in Nat
        /\ Batch!Estimate(I \cup {i}) <= Batch!Estimate(J \cup {i})
    BY <2>1, EstimateGrows
  <2>3. Batch!Estimate(J \cup {i}) <= budget
    BY DEF Batch!MayAdd
  <2> QED BY <2>2, <2>3
<1> QED BY <1>1, <1>2 DEF Batch!MayAdd

-----------------------------------------------------------------------------
(* The final loop *)

Turned(I, i, C, seed, want, budget) ==
    IF Batch!Takes(I, i, C, seed, want, budget) THEN I \cup {i} ELSE I

BatchesOf(b, k, C, seed, want, budget) ==
    b = [n \in 0 .. k |-> IF n = 0 THEN {} ELSE Turned(b[n - 1], n, C, seed, want, budget)]

LEMMA BatchesExist ==
    ASSUME NEW k \in Nat, NEW C, NEW seed, NEW want, NEW budget
    PROVE  \E b : BatchesOf(b, k, C, seed, want, budget)
<1> DEFINE S == {n \in Nat : \E b : BatchesOf(b, n, C, seed, want, budget)}
<1>1. 0 \in S
  <2> DEFINE b == [n \in 0 .. 0 |-> {}]
  <2>1. BatchesOf(b, 0, C, seed, want, budget)
    BY DEF BatchesOf
  <2> QED BY <2>1
<1>2. ASSUME NEW n \in 1 .. k, n - 1 \in S PROVE n \in S
  <2>1. PICK b : BatchesOf(b, n - 1, C, seed, want, budget)
    BY <1>2
  <2> DEFINE d == [m \in 0 .. n |->
                     IF m = n THEN Turned(b[n - 1], n, C, seed, want, budget) ELSE b[m]]
  <2>a. b = [m \in 0 .. n - 1 |->
               IF m = 0 THEN {} ELSE Turned(b[m - 1], m, C, seed, want, budget)]
    BY <2>1 DEF BatchesOf
  <2>b. ASSUME NEW m \in 0 .. n
        PROVE  d[m] = IF m = 0 THEN {} ELSE Turned(d[m - 1], m, C, seed, want, budget)
    <3>1. CASE m = 0
      <4>1. m \in 0 .. n - 1 /\ d[m] = b[m]
        BY <3>1
      <4> QED BY <2>a, <3>1, <4>1
    <3>2. CASE m \in 1 .. n - 1
      <4>1. m \in 0 .. n - 1 /\ d[m] = b[m] /\ d[m - 1] = b[m - 1] /\ m # 0
        BY <3>2
      <4> QED BY <2>a, <4>1
    <3>3. CASE m = n
      <4>1. d[m] = Turned(b[n - 1], n, C, seed, want, budget) /\ d[m - 1] = b[n - 1] /\ m # 0
        BY <3>3
      <4> QED BY <3>3, <4>1
    <3> QED BY <3>1, <3>2, <3>3
  <2>c. d = [m \in 0 .. n |-> d[m]]
    OBVIOUS
  <2>2. BatchesOf(d, n, C, seed, want, budget)
    <3> HIDE DEF d
    <3> QED BY <2>b, <2>c DEF BatchesOf
  <2>3. n \in Nat
    OBVIOUS
  <2> HIDE DEF d
  <2> QED BY <2>2, <2>3
<1> HIDE DEF S
<1>3. k \in S
  BY <1>1, <1>2, UpTo
<1> QED BY <1>3 DEF S

LEMMA SelectionIsLast ==
    ASSUME Len(order) \in Nat, NEW C, NEW want, NEW budget
    PROVE  \E b : /\ BatchesOf(b, Len(order), C, Batch!Seed(C, want, budget), want, budget)
                  /\ Batch!Selection(C, want, budget) = b[Len(order)]
<1> DEFINE seed == Batch!Seed(C, want, budget)
           b == CHOOSE g : BatchesOf(g, Len(order), C, seed, want, budget)
<1>1. BatchesOf(b, Len(order), C, seed, want, budget)
  BY BatchesExist
<1>2. Batch!Selection(C, want, budget) = b[Len(order)]
  BY DEF Batch!Selection, BatchesOf, Turned
<1> QED BY <1>1, <1>2

(* After the turn of n. *)
Good(B, n, C, seed, want, budget) ==
    /\ B \subseteq C \cap (1 .. n) /\ Cardinality(B) <= want
    /\ Together(B)
    /\ B # {} => Batch!Estimate(B) <= budget
    /\ seed # {} => B \cap Batch!Window(C, want) \subseteq seed /\ seed \cap (1 .. n) \subseteq B
    /\ \/ Cardinality(B) = want
       \/ \A i \in (C \cap (1 .. n)) \ B :
            ~Batch!MayAdd(i, B, budget) \/ Batch!LeftOut(i, seed, C, want)

LEMMA Packed ==
    ASSUME NEW C, NEW want, NEW budget, NEW I \in Batch!Packings(C, want, budget)
    PROVE  /\ I \subseteq Batch!Window(C, want) /\ Cardinality(I) <= want /\ Together(I)
           /\ I # {} => Batch!Estimate(I) <= budget
  BY SameCardinality DEF Batch!Packings, Together

LEMMA GoodAfterSeeded ==
    ASSUME order \in Seq(Batch!Ops), NEW C \in SUBSET (1 .. Len(order)), NEW want \in Nat,
           NEW budget \in Nat, NEW seed, IsSeed(seed, C, want, budget),
           NEW n \in 1 .. Len(order), n \in seed,
           NEW B, Good(B, n - 1, C, seed, want, budget)
    PROVE  Good(Turned(B, n, C, seed, want, budget), n, C, seed, want, budget)
<1> DEFINE W == Batch!Window(C, want)
           D == B \cup {n}
<1>1. Len(order) \in Nat
  OBVIOUS
<1>2. /\ seed \subseteq W /\ Cardinality(seed) <= want /\ Together(seed)
      /\ Batch!Estimate(seed) <= budget
  BY Packed DEF IsSeed
<1>3. W \subseteq C /\ \A i \in C \ W, j \in W : j < i
  BY <1>1, WindowComesFirst
<1>4. B \subseteq C \cap (1 .. n - 1) /\ n \notin B
  BY DEF Good
<1>5. B \subseteq seed
  <2>1. n \in W
    BY <1>2
  <2>2. B \subseteq W
    BY <1>3, <1>4, <2>1
  <2> QED BY <2>2 DEF Good
<1>6. D \subseteq seed /\ seed \subseteq 1 .. Len(order)
  BY <1>2, <1>3, <1>5
<1>7. IsFiniteSet(seed) /\ IsFiniteSet(B) /\ IsFiniteSet(D)
  BY <1>1, <1>6, PositionsFinite
<1>8. /\ Cardinality(D) <= Cardinality(seed) /\ Cardinality(D) = Cardinality(B) + 1
      /\ Cardinality(B) \in Nat /\ Cardinality(D) \in Nat /\ Cardinality(seed) \in Nat
  BY <1>4, <1>6, <1>7, FS_Subset, FS_AddElement, FS_CardinalityType
<1>9. Batch!Takes(B, n, C, seed, want, budget)
  <2>1. n \in C /\ Cardinality(B) < want
    BY <1>2, <1>3, <1>8
  <2> QED BY <2>1, SameCardinality DEF Batch!Takes, Batch!LeftOut
<1>10. Turned(B, n, C, seed, want, budget) = D
  BY <1>9 DEF Turned
<1>11. D \subseteq C \cap (1 .. n) /\ Cardinality(D) <= want
  <2>1. D \subseteq C
    BY <1>2, <1>3, <1>6
  <2>2. D \subseteq 1 .. n
    BY <1>4
  <2> QED BY <1>2, <1>8, <2>1, <2>2
<1>12. Together(D)
  BY <1>2, <1>6, FewerTogether
<1>13. Batch!Estimate(D) <= budget
  <2>1. /\ Batch!Estimate(D) \in Nat /\ Batch!Estimate(seed) \in Nat
        /\ Batch!Estimate(D) <= Batch!Estimate(seed)
    BY <1>6, EstimateGrows
  <2> QED BY <1>2, <2>1
<1>14. D \cap W \subseteq seed /\ seed \cap (1 .. n) \subseteq D
  <2>1. seed \cap (1 .. n - 1) \subseteq B
    BY DEF Good
  <2>2. \A m \in 1 .. n : m \in 1 .. n - 1 \/ m = n
    OBVIOUS
  <2> QED BY <1>6, <2>1, <2>2
<1>15. ASSUME NEW i \in (C \cap (1 .. n)) \ D, Cardinality(D) # want
       PROVE  ~Batch!MayAdd(i, D, budget) \/ Batch!LeftOut(i, seed, C, want)
  <2>1. i \in (C \cap (1 .. n - 1)) \ B
    OBVIOUS
  <2>2. Cardinality(B) # want
    BY <1>2, <1>8
  <2>3. ~Batch!MayAdd(i, B, budget) \/ Batch!LeftOut(i, seed, C, want)
    BY <2>1, <2>2 DEF Good
  <2>4. D \in SUBSET (1 .. Len(order)) /\ B \in SUBSET D /\ i \in 1 .. Len(order)
    BY <1>6, <2>1
  <2> QED BY <2>3, <2>4, MayAddToLess
<1> HIDE DEF D
<1> QED BY <1>10, <1>11, <1>12, <1>13, <1>14, <1>15 DEF Good

LEMMA GoodAfterAdded ==
    ASSUME order \in Seq(Batch!Ops), NEW C \in SUBSET (1 .. Len(order)), NEW want \in Nat,
           NEW budget \in Nat, NEW seed, NEW n \in 1 .. Len(order), n \notin seed,
           NEW B, Good(B, n - 1, C, seed, want, budget), Batch!Takes(B, n, C, seed, want, budget)
    PROVE  Good(B \cup {n}, n, C, seed, want, budget)
<1> DEFINE D == B \cup {n}
<1>1. /\ n \in C /\ Cardinality(B) < want
      /\ Batch!MayAdd(n, B, budget) /\ ~Batch!LeftOut(n, seed, C, want)
  BY SameCardinality DEF Batch!Takes
<1>2. B \subseteq C \cap (1 .. n - 1) /\ n \notin B
  BY DEF Good
<1>3. Len(order) \in Nat /\ B \in SUBSET (1 .. Len(order)) /\ D \in SUBSET (1 .. Len(order))
  BY <1>2
<1>4. Cardinality(D) = Cardinality(B) + 1 /\ Cardinality(B) \in Nat
  BY <1>2, <1>3, PositionsFinite, FS_AddElement
<1>5. D \subseteq C \cap (1 .. n) /\ Cardinality(D) <= want
  <2>1. D \subseteq C \cap (1 .. n)
    BY <1>1, <1>2
  <2> QED BY <1>1, <1>4, <2>1
<1>6. Together(D)
  BY <1>1, OneMoreTogether DEF Good
<1>7. Batch!Estimate(D) <= budget
  BY <1>1 DEF Batch!MayAdd
<1>8. seed # {} => D \cap Batch!Window(C, want) \subseteq seed /\ seed \cap (1 .. n) \subseteq D
  <2> SUFFICES ASSUME seed # {}
               PROVE  D \cap Batch!Window(C, want) \subseteq seed /\ seed \cap (1 .. n) \subseteq D
    OBVIOUS
  <2>1. B \cap Batch!Window(C, want) \subseteq seed /\ seed \cap (1 .. n - 1) \subseteq B
    BY DEF Good
  <2>2. n \notin Batch!Window(C, want)
    BY <1>1 DEF Batch!LeftOut
  <2>3. \A m \in 1 .. n : m \in 1 .. n - 1 \/ m = n
    OBVIOUS
  <2> QED BY <2>1, <2>2, <2>3
<1>9. ASSUME NEW i \in (C \cap (1 .. n)) \ D
      PROVE  ~Batch!MayAdd(i, D, budget) \/ Batch!LeftOut(i, seed, C, want)
  <2>1. i \in (C \cap (1 .. n - 1)) \ B
    OBVIOUS
  <2>2. Cardinality(B) # want
    BY <1>1, <1>4
  <2>3. ~Batch!MayAdd(i, B, budget) \/ Batch!LeftOut(i, seed, C, want)
    BY <2>1, <2>2 DEF Good
  <2>4. B \in SUBSET D /\ i \in 1 .. Len(order)
    BY <2>1
  <2> QED BY <1>3, <2>3, <2>4, MayAddToLess
<1> HIDE DEF D
<1>10. Good(D, n, C, seed, want, budget)
  BY <1>5, <1>6, <1>7, <1>8, <1>9 DEF Good
<1> QED BY <1>10 DEF D

LEMMA GoodAfterPassed ==
    ASSUME order \in Seq(Batch!Ops), NEW C \in SUBSET (1 .. Len(order)), NEW want \in Nat,
           NEW budget \in Nat, NEW seed, NEW n \in 1 .. Len(order), n \notin seed,
           NEW B, Good(B, n - 1, C, seed, want, budget), ~Batch!Takes(B, n, C, seed, want, budget)
    PROVE  Good(B, n, C, seed, want, budget)
<1>1. B \subseteq C \cap (1 .. n - 1) /\ n \notin B
  BY DEF Good
<1>2. Cardinality(B) \in Nat
  <2>1. Len(order) \in Nat /\ B \in SUBSET (1 .. Len(order))
    BY <1>1
  <2> QED BY <2>1, PositionsFinite
<1>3. \A m \in 1 .. n : m \in 1 .. n - 1 \/ m = n
  OBVIOUS
<1>4. B \subseteq C \cap (1 .. n)
  BY <1>1
<1>5. seed # {} => seed \cap (1 .. n) \subseteq B
  BY <1>3 DEF Good
<1>6. ASSUME NEW i \in (C \cap (1 .. n)) \ B, Cardinality(B) # want
      PROVE  ~Batch!MayAdd(i, B, budget) \/ Batch!LeftOut(i, seed, C, want)
  <2>1. CASE i \in 1 .. n - 1
    BY <1>6, <2>1 DEF Good
  <2>2. CASE i = n
    <3>1. Cardinality(B) < want
      BY <1>2, <1>6 DEF Good
    <3> QED BY <2>2, <3>1, SameCardinality DEF Batch!Takes
  <2> QED BY <1>3, <2>1, <2>2
<1> QED BY <1>4, <1>5, <1>6 DEF Good

LEMMA SelectionIsGood ==
    ASSUME order \in Seq(Batch!Ops), NEW C \in SUBSET (1 .. Len(order)), NEW want \in Nat,
           NEW budget \in Nat
    PROVE  Good(Batch!Selection(C, want, budget), Len(order), C, Batch!Seed(C, want, budget),
                want, budget)
<1> DEFINE seed == Batch!Seed(C, want, budget)
           k == Len(order)
<1>1. k \in Nat
  OBVIOUS
<1>2. PICK b : BatchesOf(b, k, C, seed, want, budget) /\ Batch!Selection(C, want, budget) = b[k]
  BY <1>1, SelectionIsLast
<1>3. IsSeed(seed, C, want, budget)
  BY SeedIsSeed
<1> HIDE DEF seed
<1> DEFINE S == {n \in 0 .. k : Good(b[n], n, C, seed, want, budget)}
<1>4. 0 \in S
  <2>1. b[0] = {} /\ 0 \in 0 .. k
    BY <1>1, <1>2 DEF BatchesOf
  <2>2. Good({}, 0, C, seed, want, budget)
    BY FS_EmptySet DEF Good, Together
  <2> QED BY <2>1, <2>2
<1>5. ASSUME NEW n \in 1 .. k, n - 1 \in S PROVE n \in S
  <2>1. b[n] = Turned(b[n - 1], n, C, seed, want, budget) /\ n \in 0 .. k
    <3>1. b = [m \in 0 .. k |-> IF m = 0 THEN {} ELSE Turned(b[m - 1], m, C, seed, want, budget)]
      BY <1>2 DEF BatchesOf, seed
    <3>2. n \in 0 .. k /\ n # 0
      BY <1>1
    <3> HIDE DEF k
    <3> QED BY <3>1, <3>2
  <2>2. Good(b[n - 1], n - 1, C, seed, want, budget)
    BY <1>5
  <2> DEFINE B == b[n - 1]
  <2> HIDE DEF B
  <2>3. Good(B, n - 1, C, seed, want, budget)
    BY <2>2 DEF B
  <2>4. Good(Turned(B, n, C, seed, want, budget), n, C, seed, want, budget)
    <3>1. CASE n \in seed
      BY <1>3, <2>3, <3>1, GoodAfterSeeded
    <3>2. CASE n \notin seed /\ Batch!Takes(B, n, C, seed, want, budget)
      BY <2>3, <3>2, GoodAfterAdded DEF Turned
    <3>3. CASE n \notin seed /\ ~Batch!Takes(B, n, C, seed, want, budget)
      BY <2>3, <3>3, GoodAfterPassed DEF Turned
    <3> QED BY <3>1, <3>2, <3>3
  <2> QED BY <2>1, <2>4 DEF B
<1>6. k \in S
  <2> HIDE DEF S, k
  <2>1. 0 .. k \subseteq S
    BY <1>1, <1>4, <1>5, UpTo
  <2> QED BY <1>1, <2>1
<1> QED BY <1>2, <1>6 DEF seed

(* Nothing could be added to the seed: with it, it would be a larger packing. *)
LEMMA SelectionIsFull ==
    ASSUME order \in Seq(Batch!Ops), NEW C \in SUBSET (1 .. Len(order)), NEW want \in Nat,
           NEW budget \in Nat
    PROVE  Batch!IsFull(C, Batch!Selection(C, want, budget), want, budget)
<1> DEFINE seed == Batch!Seed(C, want, budget)
           B == Batch!Selection(C, want, budget)
           k == Len(order)
<1> HIDE DEF seed, B
<1>1. Good(B, k, C, seed, want, budget) /\ IsSeed(seed, C, want, budget) /\ k \in Nat
  BY SelectionIsGood, SeedIsSeed DEF seed, B
<1>2. C \cap (1 .. k) = C /\ B \in SUBSET (1 .. k) /\ B \subseteq C
  BY <1>1 DEF Good
<1>3. ASSUME NEW i \in C \ B, Cardinality(B) # want, Batch!MayAdd(i, B, budget)
      PROVE  FALSE
  <2>1. Batch!LeftOut(i, seed, C, want)
    BY <1>1, <1>2, <1>3 DEF Good
  <2>2. seed # {} /\ i \in Batch!Window(C, want) /\ i \notin seed
    BY <2>1 DEF Batch!LeftOut
  <2>3. /\ seed \in Batch!Packings(C, want, budget)
        /\ \A J \in Batch!Packings(C, want, budget) : Cardinality(J) <= Cardinality(seed)
    BY <1>1, <2>2 DEF IsSeed
  <2>4. seed \subseteq Batch!Window(C, want) /\ Together(seed)
    BY <2>3, Packed
  <2>5. Batch!Window(C, want) \subseteq C
    BY <1>1, WindowComesFirst
  <2>6. seed \subseteq B
    BY <1>1, <2>2, <2>4, <2>5 DEF Good
  <2>7. Batch!MayAdd(i, seed, budget)
    BY <1>2, <1>3, <2>6, MayAddToLess
  <2> DEFINE J == seed \cup {i}
  <2>8. /\ Cardinality(J) = Cardinality(seed) + 1 /\ Cardinality(seed) <= Cardinality(B)
        /\ Cardinality(seed) \in Nat /\ Cardinality(B) \in Nat
    <3>1. IsFiniteSet(seed) /\ IsFiniteSet(B)
      BY <1>1, <1>2, <2>6, PositionsFinite
    <3> QED BY <2>2, <2>6, <3>1, FS_Subset, FS_AddElement, FS_CardinalityType
  <2>9. Cardinality(J) <= want
    BY <1>1, <1>3, <2>8 DEF Good
  <2>10. Together(J)
    BY <2>4, <2>7, OneMoreTogether
  <2>11. Batch!Estimate(J) <= budget
    BY <2>7 DEF Batch!MayAdd
  <2>12. J \subseteq Batch!Window(C, want)
    BY <2>2, <2>4
  <2> HIDE DEF J
  <2>13. J \in Batch!Packings(C, want, budget)
    BY <2>9, <2>10, <2>11, <2>12, SameCardinality DEF Batch!Packings, Together
  <2> QED BY <2>3, <2>8, <2>13
<1>4. Batch!IsFull(C, B, want, budget)
  BY <1>1, <1>3, SameCardinality DEF Batch!IsFull, Good
<1> QED BY <1>4 DEF B

LEMMA CandidatesArePositions ==
    ASSUME order \in Seq(Batch!Ops)
    PROVE  Batch!Candidates \in SUBSET (1 .. Len(order))
  BY DEF Batch!Candidates, Batch!First

-----------------------------------------------------------------------------
SelInv == order \in Seq(Batch!Ops) /\ Batch!NoConflictInFlight

LEMMA NoConflictInLess ==
    ASSUME Batch!NoConflictInFlight, Batch!InFlight' \subseteq Batch!InFlight
    PROVE  Batch!NoConflictInFlight'
  BY DEF Batch!NoConflictInFlight, Batch!Conflict, Batch!IsSerial

LEMMA NoConflictInMore ==
    ASSUME SelInv, NEW I, Together(I), Batch!InFlight' = Batch!InFlight \cup Batch!At(I)
    PROVE  Batch!NoConflictInFlight'
<1> SUFFICES ASSUME NEW o \in Batch!InFlight \cup Batch!At(I),
                    NEW p \in Batch!InFlight \cup Batch!At(I), Batch!Conflict(o, p)
             PROVE  FALSE
  BY DEF Batch!NoConflictInFlight, Batch!Conflict, Batch!IsSerial
<1>1. o # p /\ Batch!Blocked(o, {p}) /\ Batch!Blocked(p, {o})
  BY DEF Batch!Conflict, Batch!Blocked, Batch!IsSerial
<1>2. ASSUME NEW i \in I, NEW q \in Batch!InFlight \cup Batch!At(I), q # order[i],
             Batch!Blocked(order[i], {q})
      PROVE  FALSE
  <2>1. q \in Batch!InFlight \cup Batch!At(I \ {i})
    BY <1>2 DEF Batch!At
  <2> QED BY <1>2, <2>1, BlockedByOne DEF Together
<1>3. CASE o \in Batch!At(I)
  BY <1>1, <1>2, <1>3 DEF Batch!At
<1>4. CASE p \in Batch!At(I)
  BY <1>1, <1>2, <1>4 DEF Batch!At
<1>5. CASE o \in Batch!InFlight /\ p \in Batch!InFlight
  BY <1>5 DEF SelInv, Batch!NoConflictInFlight
<1> QED BY <1>3, <1>4, <1>5

LEMMA SelInit == Batch!Init => SelInv
  BY DEF Batch!Init, SelInv, Batch!NoConflictInFlight, Batch!InFlight

LEMMA SelNext ==
    ASSUME SelInv, [Batch!Next]_(Batch!selVars)
    PROVE  SelInv'
<1>1. CASE UNCHANGED Batch!selVars
  <2>1. Batch!InFlight' = Batch!InFlight /\ order' = order
    BY <1>1 DEF Batch!selVars, Batch!InFlight
  <2> QED BY <2>1, NoConflictInLess DEF SelInv
<1>2. ASSUME NEW t \in DOMAIN TxnOps, Batch!Enqueue(t) PROVE SelInv'
  <2>1. Batch!InFlight' = Batch!InFlight
    BY <1>2 DEF Batch!Enqueue, Batch!InFlight
  <2>2. order' \in Seq(Batch!Ops)
    BY <1>2, BatchShape DEF Batch!Enqueue, SelInv
  <2> QED BY <2>1, <2>2, NoConflictInLess DEF SelInv
<1>3. ASSUME NEW o \in Batch!Ops, Batch!Ack(o) PROVE SelInv'
  <2>1. Batch!InFlight' \subseteq Batch!InFlight
    BY <1>3 DEF Batch!Ack, Batch!Becomes, Batch!InFlight
  <2>2. order' = order
    BY <1>3 DEF Batch!Ack
  <2> QED BY <2>1, <2>2, NoConflictInLess DEF SelInv
<1>4. ASSUME NEW o \in Batch!Ops, Batch!ComesDue(o) PROVE SelInv'
  <2>1. Batch!InFlight' = Batch!InFlight /\ order' = order
    BY <1>4 DEF Batch!ComesDue, Batch!InFlight
  <2> QED BY <2>1, NoConflictInLess DEF SelInv
<1>5. ASSUME NEW want \in Wants, NEW budget \in Budgets, Batch!RequestOps(want, budget)
      PROVE  SelInv'
  <2> DEFINE B == Batch!Selection(Batch!Candidates, want, budget)
  <2>1. order' = order
    BY <1>5 DEF Batch!RequestOps
  <2>2. CASE Batch!Becomes(Batch!At(Batch!Oversize(Batch!Candidates)), "dead")
    <3>1. Batch!InFlight' \subseteq Batch!InFlight
      BY <2>2 DEF Batch!Becomes, Batch!InFlight
    <3> QED BY <2>1, <3>1, NoConflictInLess DEF SelInv
  <2>3. CASE Batch!Becomes(Batch!At(B), "in_flight")
    <3>1. Together(B) /\ B \subseteq 1 .. Len(order)
      <4>1. want \in Nat /\ budget \in Nat /\ order \in Seq(Batch!Ops)
        BY BatchShape DEF SelInv
      <4> QED BY <4>1, CandidatesArePositions, SelectionIsGood DEF Good
    <3> HIDE DEF B
    <3>2. Batch!At(B) \subseteq Batch!Ops
      BY <3>1 DEF Batch!At, SelInv
    <3>3. Batch!InFlight' = Batch!InFlight \cup Batch!At(B)
      BY <2>3, <3>2 DEF Batch!Becomes, Batch!InFlight
    <3> QED BY <2>1, <3>1, <3>3, NoConflictInMore DEF SelInv
  <2> QED BY <1>5, <2>2, <2>3 DEF Batch!RequestOps
<1> QED BY <1>1, <1>2, <1>3, <1>4, <1>5 DEF Batch!Next

LEMMA SelGood == SelInv => Batch!NoConflictInFlight /\ Batch!BatchIsFull
<1> SUFFICES ASSUME SelInv, NEW want \in Wants, NEW budget \in Budgets
             PROVE  Batch!IsFull(Batch!Candidates,
                                 Batch!Selection(Batch!Candidates, want, budget), want, budget)
  BY DEF SelInv, Batch!BatchIsFull
<1>1. want \in Nat /\ budget \in Nat /\ order \in Seq(Batch!Ops)
  BY BatchShape DEF SelInv
<1> QED BY <1>1, CandidatesArePositions, SelectionIsFull
=============================================================================
