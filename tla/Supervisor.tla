----------------------------- MODULE Supervisor -----------------------------
(***************************************************************************)
(* The daemon supervisor: runtime/supervisor/runSupervisorRuntime.ts with  *)
(* the restart policy of kernel/supervisor/restartPlan.ts and the child    *)
(* processes of services/ChildProcess.ts.                                  *)
(*                                                                         *)
(* One fiber takes events from an unbounded queue and handles them one by  *)
(* one; the fiber of the child and the fiber of the restart timer only     *)
(* offer events.  Time is discrete.  Every timestamp of the code is kept   *)
(* relative to now: windowAge is now - restart_window_started_at, capped   *)
(* at Window; timer is the rest of the backoff sleep; uptime says whether  *)
(* the child has outlived one unit of time.  Events are handled, and a     *)
(* forked fiber spawns its process, within the unit in which they arise.   *)
(* A spawn that fails is a child that exits at once.                       *)
(***************************************************************************)
EXTENDS Integers, Sequences, FiniteSets

CONSTANTS MaxRestarts, Window, BaseBackoff, MaxBackoff

ASSUME Policy ==
    /\ MaxRestarts \in Nat
    /\ Window \in Nat \ {0}
    /\ BaseBackoff \in Nat \ {0}
    /\ MaxBackoff \in Nat \ {0}

VARIABLES
    loop,      \* the event loop: "running", "interrupting" the child, "returned"
    events,    \* the event queue
    forks,     \* child fibers that have not spawned their process yet
    procs,     \* child processes alive
    uptime,    \* 0 or 1: the time since childStartedAt, capped
    timer,     \* what is left of the sleep of restartFiber; NoTimer
    status,    \* SupervisorStateFile.status
    count,     \* SupervisorStateFile.restart_count
    windowAge, \* now - SupervisorStateFile.restart_window_started_at, capped
    pidFile    \* whether the pid file names a child_pid

vars == <<loop, events, forks, procs, uptime, timer, status, count, windowAge,
          pidFile>>

NoTimer == -1

Init ==
    /\ loop = "running"
    /\ events = <<>>
    /\ forks = 1
    /\ procs = 0
    /\ uptime = 0
    /\ timer = NoTimer
    /\ status = "running"
    /\ count = 0
    /\ windowAge = 0
    /\ pidFile = FALSE

-----------------------------------------------------------------------------
(* The environment: clock, child, signals *)

Cap(n, limit) == IF n < limit THEN n ELSE limit

Tick ==
    /\ loop = "running" /\ events = <<>> /\ forks = 0 /\ timer # 0
    /\ windowAge' = Cap(windowAge + 1, Window)
    /\ timer' = IF timer > 0 THEN timer - 1 ELSE timer
    /\ uptime' = procs
    /\ UNCHANGED <<loop, events, forks, procs, status, count, pidFile>>

(* The forked fiber spawns the process and reports it. *)
Spawn ==
    /\ forks > 0 /\ loop # "returned"
    /\ forks' = forks - 1
    /\ procs' = procs + 1
    /\ uptime' = 0
    /\ events' = Append(events, "ChildSpawned")
    /\ UNCHANGED <<loop, timer, status, count, windowAge, pidFile>>

(* The process exits by itself, and its fiber reports the outcome. *)
Exit ==
    /\ procs > 0
    /\ procs' = procs - 1
    /\ uptime' = 0
    /\ events' = Append(events, "ChildOutcome")
    /\ UNCHANGED <<loop, forks, timer, status, count, windowAge, pidFile>>

(* The sleep of scheduleRestart is over. *)
RestartFires ==
    /\ timer = 0
    /\ timer' = NoTimer
    /\ events' = Append(events, "RestartDue")
    /\ UNCHANGED <<loop, forks, procs, uptime, status, count, windowAge, pidFile>>

(* SIGTERM or SIGINT.  The loop returns at the first one it takes. *)
Signal ==
    /\ loop = "running"
    /\ \A i \in DOMAIN events : events[i] # "Stop"
    /\ events' = Append(events, "Stop")
    /\ UNCHANGED <<loop, forks, procs, uptime, timer, status, count, windowAge,
                   pidFile>>

-----------------------------------------------------------------------------
(* planRestart *)

(* Slip: the window is reset by every exit. *)
WindowSlides == TRUE

WindowExpired == windowAge >= Window

NextCount == (IF WindowExpired THEN 0 ELSE count) + 1

GivesUp(n) == n > MaxRestarts

(* computeDelayMs *)
Delay(n) ==
    LET raw == BaseBackoff * 2 ^ Cap(n - 1, 30)
    IN Cap(IF raw < 1 THEN 1 ELSE raw, MaxBackoff)

PlanRestart ==
    /\ windowAge' = IF WindowExpired THEN 0 ELSE windowAge
    /\ count' = NextCount
    /\ IF GivesUp(NextCount)
       THEN status' = "failed" /\ timer' = NoTimer
       ELSE status' = "backing_off" /\ timer' = Delay(NextCount)

-----------------------------------------------------------------------------
(* The event loop *)

Take(event) ==
    /\ loop = "running"
    /\ events # <<>> /\ Head(events) = event
    /\ events' = Tail(events)

ChildSpawned ==
    /\ Take("ChildSpawned")
    /\ pidFile' = TRUE
    /\ status' = "running"
    /\ UNCHANGED <<loop, forks, procs, uptime, timer, count, windowAge>>

ChildOutcome ==
    /\ Take("ChildOutcome")
    /\ pidFile' = FALSE
    /\ PlanRestart
    /\ UNCHANGED <<loop, forks, procs, uptime>>

(* Slip: starts a child and leaves the restart timer armed. *)
RestartDueTwice ==
    /\ Take("RestartDue")
    /\ forks' = forks + 1
    /\ timer' = BaseBackoff
    /\ UNCHANGED <<loop, procs, uptime, status, count, windowAge, pidFile>>

(* startChild, unless the supervisor has given up. *)
RestartDue ==
    /\ Take("RestartDue")
    /\ IF status = "failed" THEN UNCHANGED <<forks, timer>>
                            ELSE forks' = forks + 1 /\ timer' = NoTimer
    /\ UNCHANGED <<loop, procs, uptime, status, count, windowAge, pidFile>>

(* Slip: the pending restart is not cancelled. *)
StopLeavingTimer ==
    /\ Take("Stop")
    /\ status' = "stopping"
    /\ loop' = "interrupting"
    /\ UNCHANGED <<forks, procs, uptime, timer, count, windowAge, pidFile>>

(* cancelRestart, the state file, then the interruption of the child fiber. *)
Stop ==
    /\ Take("Stop")
    /\ timer' = NoTimer
    /\ status' = "stopping"
    /\ loop' = "interrupting"
    /\ UNCHANGED <<forks, procs, uptime, count, windowAge, pidFile>>

(* stopChildFiber: SIGTERM, then SIGKILL, and only then the pid file. *)
Return ==
    /\ loop = "interrupting"
    /\ forks' = 0 /\ procs' = 0 /\ uptime' = 0
    /\ pidFile' = FALSE
    /\ loop' = "returned"
    /\ UNCHANGED <<events, timer, status, count, windowAge>>

Handle == ChildSpawned \/ ChildOutcome \/ RestartDue \/ Stop

Next == Tick \/ Spawn \/ Exit \/ RestartFires \/ Signal \/ Handle \/ Return

Spec == Init /\ [][Next]_vars

(* The clock and the supervisor's own fibers run; neither a child's exit nor
   a signal ever has to come. *)
Fairness == WF_vars(Tick) /\ WF_vars(Spawn) /\ WF_vars(RestartFires)
            /\ WF_vars(Handle) /\ WF_vars(Return)

FairSpec == Spec /\ Fairness

-----------------------------------------------------------------------------
(* Properties *)

Queued(event) == Cardinality({i \in DOMAIN events : events[i] = event})

(* Where the one life of the child can be. *)
Lives == forks + procs + Queued("ChildOutcome") + Queued("RestartDue")
         + (IF timer = NoTimer THEN 0 ELSE 1)

(* There is exactly one child to look after, whatever signals, exits and
   timers interleave: being forked, running, reported as gone, or waiting for
   its restart; none once the supervisor has given up.  So two daemons are
   never started, and the daemon is never forgotten.  And spec.md FR-004: once
   a stop has been taken nothing is started, nor will anything be, and the
   supervisor leaves no child and no child_pid behind. *)
OneCleanLife ==
    /\ IF status = "failed" THEN Lives = 0
       ELSE loop = "running" => Lives = 1
    /\ loop # "running" => status = "stopping" /\ timer = NoTimer /\ forks + procs <= 1
    /\ loop = "returned" => forks + procs = 0 /\ ~pidFile

(* spec.md FR-003 with the defaults of plan.md: a child that never lives for a
   unit of time exceeds the restart limit, and the supervisor gives up. *)
CrashLoopDetected == [](uptime = 0) => <>(status \in {"failed", "stopping"})
=============================================================================
