------------------------------ MODULE WsBridge ------------------------------
(***************************************************************************)
(* Who is asked to work: the election of the active worker, the kick timer *)
(* and the no-progress escalation of lib/wsBridgeCore.ts and               *)
(* kernel/ws-bridge/election.ts, driven by the timers of                   *)
(* runtime/ws-bridge/runWsBridgeRuntime.ts, with the part of the plugin's  *)
(* sync loop that answers (packages/plugin/src/bridge/runtime.ts).         *)
(*                                                                         *)
(* The bridge handles one event at a time.  Timestamps are kept relative   *)
(* to now and capped where the code stops telling them apart; the two      *)
(* timers are handled in the unit in which they are due, in either order.  *)
(* Of the store queue only what the bridge looks at is kept: which jobs    *)
(* are due, and who holds one (QueueStore has the rest).  A request takes  *)
(* all jobs that are due.                                                  *)
(***************************************************************************)
EXTENDS Integers, Sequences

CONSTANTS
    Conns, NoConn,  \* connection ids, each used once
    Jobs,
    Interval,       \* of the heartbeat and of the kick timer
    Cooldown,       \* kickConfig.cooldownMs
    Escalations,    \* the values kickConfig.noProgressEscalateMs may have
    Stale,          \* activeWorkerStaleMs
    Quarantine,     \* max(activeWorkerStaleMs, 60 s)
    Lease,
    AutoSync        \* whether a plugin that connects pulls unasked: the
                    \* setting, unless the watchdog's cooldown silences it

ASSUME Timing ==
    /\ {Interval, Cooldown, Stale, Quarantine, Lease} \subseteq Nat \ {0}
    /\ Escalations \subseteq Nat

ASSUME Sets == NoConn \notin Conns /\ AutoSync \subseteq BOOLEAN

VARIABLES
    escalate,     \* kickConfig.noProgressEscalateMs (0: never)
    socket,       \* the server's sockets
    idle, used,   \* clients: never active by connectedAt, others by activity
    workers,      \* clients with capabilities.worker
    seenAge,      \* now - lastSeenAt, up to Stale + 1
    active,       \* activeWorkerConnId
    quarantine,   \* workerQuarantineUntilByConnId - now
    progressAge,  \* now - the last ack, dispatch or first sight of work
    hadWork,      \* lastHadWork
    kickAge, escalateAge,  \* now - lastKickAt, lastNoProgressEscalateAt
    kickIn, beatIn,        \* until the next KickTick and HeartbeatTick
    job, holder, lease,    \* the queue
    outdated,     \* executions in a plugin whose lease was recovered
    pulling       \* plugins whose sync loop asks for ops

electVars == <<socket, idle, used, workers, active>>
clockVars == <<progressAge, hadWork, kickAge, escalateAge>>
timerVars == <<kickIn, beatIn>>
queueVars == <<job, holder, lease, outdated>>
vars == <<escalate, electVars, seenAge, quarantine, clockVars, timerVars,
          queueVars, pulling>>

Capped(n, limit) == IF n < limit THEN n ELSE limit
Left(n) == IF n > 0 THEN n - 1 ELSE 0

ProgressCap == IF escalate > Cooldown THEN escalate ELSE Cooldown

Init ==
    /\ escalate \in Escalations
    /\ socket = [c \in Conns |-> "new"]
    /\ idle = <<>> /\ used = <<>> /\ workers = {}
    /\ seenAge = [c \in Conns |-> 0]
    /\ active = NoConn
    /\ quarantine = [c \in Conns |-> 0]
    /\ progressAge = 0 /\ hadWork = FALSE
    /\ kickAge = Cooldown /\ escalateAge = Cooldown
    /\ kickIn = 0 /\ beatIn = 0
    /\ job = [j \in Jobs |-> "none"]
    /\ holder = [j \in Jobs |-> NoConn]
    /\ lease = [j \in Jobs |-> 0]
    /\ outdated = {}
    /\ pulling = {}

-----------------------------------------------------------------------------
(* Election *)

Members(s) == {s[i] : i \in DOMAIN s}

Clients == Members(idle) \cup Members(used)

Without(s, c) ==
    IF c \in Members(s)
    THEN LET k == CHOOSE i \in DOMAIN s : s[i] = c
         IN  SubSeq(s, 1, k - 1) \o SubSeq(s, k + 1, Len(s))
    ELSE s

(* electActiveWorker, from what the state will be: the preferred one of the
   workers W that are neither stale nor quarantined. *)
Eligible(W, seen, quar) == {c \in W : seen[c] <= Stale /\ quar[c] = 0}

Elected(rank, E) ==
    IF E = {} THEN {NoConn}
    ELSE {rank[i] : i \in {k \in DOMAIN rank :
            rank[k] \in E /\ \A l \in DOMAIN rank : l > k => rank[l] \notin E}}

(* recomputeActiveWorker, after everything else has changed. *)
Recompute ==
    active' \in Elected(idle' \o used', Eligible(workers', seenAge', quarantine'))

(* Every message and pong of a client updates its lastSeenAt. *)
SeenNow(c) == seenAge' = [seenAge EXCEPT ![c] = 0]

-----------------------------------------------------------------------------
(* Connections *)

Connect(c) ==
    /\ socket[c] = "new"
    /\ socket' = [socket EXCEPT ![c] = "open"]
    /\ idle' = Append(idle, c)
    /\ SeenNow(c)
    /\ UNCHANGED <<escalate, used, workers, quarantine, clockVars, timerVars,
                   queueVars, pulling>>
    /\ Recompute

(* Register of a plugin, and its auto-sync. *)
Register(c) ==
    /\ socket[c] = "open" /\ c \notin workers
    /\ workers' = workers \cup {c}
    /\ SeenNow(c)
    /\ \E pull \in AutoSync :
         pulling' = IF pull THEN pulling \cup {c} ELSE pulling
    /\ UNCHANGED <<escalate, socket, idle, used, quarantine, clockVars,
                   timerVars, queueVars>>
    /\ Recompute

(* SelectionChanged, UiContextChanged: the user works in this window, or it
   has just connected and reports where it stands. *)
Activity(c) ==
    /\ socket[c] = "open"
    /\ idle' = Without(idle, c)
    /\ used' = Append(Without(used, c), c)
    /\ SeenNow(c)
    /\ UNCHANGED <<escalate, socket, workers, quarantine, clockVars, timerVars,
                   queueVars, pulling>>
    /\ Recompute

(* Slip: a heartbeat counts as activity. *)
PongIsActivity(c) ==
    /\ socket[c] = "open"
    /\ idle' = Without(idle, c)
    /\ used' = Append(Without(used, c), c)
    /\ SeenNow(c)
    /\ UNCHANGED <<escalate, socket, workers, active, quarantine, clockVars,
                   timerVars, queueVars, pulling>>

(* Pong, or a message without any other effect. *)
Pong(c) ==
    /\ socket[c] = "open"
    /\ SeenNow(c)
    /\ UNCHANGED <<escalate, electVars, quarantine, clockVars, timerVars,
                   queueVars, pulling>>

(* The socket is gone, by itself or by the heartbeat sweep; the bridge has yet
   to take the event, and perhaps a last request before it. *)
SocketCloses(c) ==
    /\ socket[c] = "open"
    /\ socket' = [socket EXCEPT ![c] = "closed"]
    /\ outdated' = {x \in outdated : x[1] # c}
    /\ UNCHANGED <<escalate, idle, used, workers, seenAge, active, quarantine,
                   clockVars, timerVars, job, holder, lease, pulling>>

Disconnect(c) ==
    /\ socket[c] = "closed" /\ c \in Clients
    /\ idle' = Without(idle, c) /\ used' = Without(used, c)
    /\ workers' = workers \ {c}
    /\ pulling' = pulling \ {c}
    /\ UNCHANGED <<escalate, socket, seenAge, quarantine, clockVars, timerVars,
                   queueVars>>
    /\ Recompute

-----------------------------------------------------------------------------
(* Work *)

Due == {j \in Jobs : job[j] = "due"}
Held == {j \in Jobs : job[j] = "held"}

(* A job is enqueued, to be done at once or later; its time comes. *)
Enqueue(j) ==
    /\ job[j] = "none"
    /\ \E s \in {"due", "later"} : job' = [job EXCEPT ![j] = s]
    /\ UNCHANGED <<escalate, electVars, seenAge, quarantine, clockVars, timerVars,
                   holder, lease, outdated, pulling>>

ComesDue(j) ==
    /\ job[j] = "later"
    /\ job' = [job EXCEPT ![j] = "due"]
    /\ UNCHANGED <<escalate, electVars, seenAge, quarantine, clockVars, timerVars,
                   holder, lease, outdated, pulling>>

(* runSyncLoop returns at once while one is running. *)
Syncing(c) ==
    c \in pulling \/ (\E j \in Held : holder[j] = c) \/ \E x \in outdated : x[1] = c

(* What StartSync does to the plugin behind c, if it reaches it. *)
Woken(c) == IF socket[c] = "open" /\ ~Syncing(c) THEN pulling \cup {c} ELSE pulling

(* RequestOps: NoWork for everybody but the active worker, and when nothing
   is due.  A dispatch to a socket that has gone is lost. *)
RequestOps(c) ==
    /\ c \in pulling
    /\ SeenNow(c)
    /\ IF c = active /\ Due # {}
       THEN /\ job' = [j \in Jobs |-> IF j \in Due THEN "held" ELSE job[j]]
            /\ holder' = [j \in Jobs |-> IF j \in Due THEN c ELSE holder[j]]
            /\ lease' = [j \in Jobs |-> IF j \in Due THEN Lease ELSE lease[j]]
            /\ progressAge' = 0
            /\ UNCHANGED pulling
       ELSE /\ pulling' = pulling \ {c}
            /\ UNCHANGED <<job, holder, lease, progressAge>>
    /\ UNCHANGED <<escalate, electVars, quarantine, hadWork, kickAge, escalateAge,
                   timerVars, outdated>>

(* OpAck of the holder: done, or to be retried later. *)
Ack(j) ==
    /\ j \in Held /\ socket[holder[j]] = "open"
    /\ \E s \in {"none", "later"} : job' = [job EXCEPT ![j] = s]
    /\ holder' = [holder EXCEPT ![j] = NoConn]
    /\ lease' = [lease EXCEPT ![j] = 0]
    /\ SeenNow(holder[j])
    /\ progressAge' = 0
    /\ UNCHANGED <<escalate, electVars, quarantine, hadWork, kickAge, escalateAge,
                   timerVars, outdated, pulling>>

(* OpAck of an outdated execution: rejected, and progress all the same. *)
RejectedAck(x) ==
    /\ x \in outdated
    /\ outdated' = outdated \ {x}
    /\ SeenNow(x[1])
    /\ progressAge' = 0
    /\ UNCHANGED <<escalate, electVars, quarantine, hadWork, kickAge, escalateAge,
                   timerVars, job, holder, lease, pulling>>

LeaseExtend(j) ==
    /\ j \in Held /\ socket[holder[j]] = "open"
    /\ lease' = [lease EXCEPT ![j] = Lease]
    /\ SeenNow(holder[j])
    /\ UNCHANGED <<escalate, electVars, quarantine, clockVars, timerVars, job,
                   holder, outdated, pulling>>

(* TriggerStartSync of whoever has just enqueued something. *)
TriggerStartSync ==
    /\ active # NoConn
    /\ pulling' = Woken(active)
    /\ UNCHANGED <<escalate, electVars, seenAge, quarantine, clockVars, timerVars,
                   queueVars>>

-----------------------------------------------------------------------------
(* Timers *)

Tick ==
    /\ kickIn > 0 /\ beatIn > 0
    /\ kickIn' = kickIn - 1 /\ beatIn' = beatIn - 1
    /\ seenAge' = [c \in Conns |-> IF c \in Clients
                                   THEN Capped(seenAge[c] + 1, Stale + 1) ELSE 0]
    /\ quarantine' = [c \in Conns |-> Left(quarantine[c])]
    /\ progressAge' = Capped(progressAge + 1, ProgressCap)
    /\ kickAge' = Capped(kickAge + 1, Cooldown)
    /\ escalateAge' = Capped(escalateAge + 1, Cooldown)
    /\ lease' = [j \in Jobs |-> Left(lease[j])]
    /\ UNCHANGED <<escalate, electVars, hadWork, job, holder, outdated, pulling>>

(* Slip: the heartbeat does not recover lapsed leases. *)
HeartbeatTickAlone ==
    /\ beatIn = 0
    /\ beatIn' = Interval
    /\ UNCHANGED <<escalate, socket, idle, used, workers, seenAge, quarantine,
                   clockVars, kickIn, queueVars, pulling>>
    /\ Recompute

(* recoverExpiredLeases and recomputeActiveWorker; see SocketCloses for the
   sweep.  An execution that is still at work becomes outdated. *)
HeartbeatTick ==
    LET lapsed == {j \in Held : lease[j] = 0} IN
    /\ beatIn = 0
    /\ beatIn' = Interval
    /\ job' = [j \in Jobs |-> IF j \in lapsed THEN "due" ELSE job[j]]
    /\ holder' = [j \in Jobs |-> IF j \in lapsed THEN NoConn ELSE holder[j]]
    /\ outdated' = outdated \cup {<<holder[j], j>> :
                       j \in {k \in lapsed : socket[holder[k]] = "open"}}
    /\ UNCHANGED <<escalate, socket, idle, used, workers, seenAge, quarantine,
                   clockVars, kickIn, lease, pulling>>
    /\ Recompute

(* The workers as KickTick finds them. *)
Leaders == Elected(idle \o used, Eligible(workers, seenAge, quarantine))

(* The age of the last progress; it starts anew when work shows up. *)
StalledFor == IF hadWork THEN progressAge ELSE 0

(* Slip: the active worker is quarantined and stays active. *)
EscalateInPlace(leader) ==
    /\ escalate > 0 /\ StalledFor >= escalate /\ escalateAge >= Cooldown
    /\ quarantine' = [quarantine EXCEPT ![leader] = Quarantine]
    /\ escalateAge' = 0
    /\ active' = leader

(* No progress for too long: the active worker is quarantined, and another
   one elected if there is one. *)
Escalate(leader) ==
    /\ escalate > 0 /\ StalledFor >= escalate /\ escalateAge >= Cooldown
    /\ quarantine' = [quarantine EXCEPT ![leader] = Quarantine]
    /\ escalateAge' = 0
    /\ active' \in Elected(idle \o used, Eligible(workers, seenAge, quarantine'))

NoEscalation(leader) ==
    /\ ~(escalate > 0 /\ StalledFor >= escalate /\ escalateAge >= Cooldown)
    /\ active' = leader
    /\ UNCHANGED <<quarantine, escalateAge>>

(* Slip: kicks only while some op is in flight. *)
KickIfHeld(leader) ==
    IF kickAge >= Cooldown /\ StalledFor >= Cooldown /\ Held # {}
    THEN /\ pulling' = Woken(leader)
         /\ kickAge' = IF socket[leader] = "open" THEN 0 ELSE kickAge
    ELSE UNCHANGED <<pulling, kickAge>>

(* StartSync goes to the worker that was active before the escalation. *)
Kick(leader) ==
    IF kickAge >= Cooldown /\ StalledFor >= Cooldown /\ Due # {}
    THEN /\ pulling' = Woken(leader)
         /\ kickAge' = IF socket[leader] = "open" THEN 0 ELSE kickAge
    ELSE UNCHANGED <<pulling, kickAge>>

KickTick ==
    /\ kickIn = 0
    /\ kickIn' = Interval
    /\ hadWork' = (Due \cup Held # {})
    /\ progressAge' = IF hadWork' THEN StalledFor ELSE progressAge
    /\ \E leader \in Leaders :
         IF hadWork' /\ leader # NoConn
         THEN (Escalate(leader) \/ NoEscalation(leader)) /\ Kick(leader)
         ELSE /\ active' = leader
              /\ UNCHANGED <<quarantine, escalateAge, pulling, kickAge>>
    /\ UNCHANGED <<escalate, socket, idle, used, workers, seenAge, beatIn,
                   queueVars>>

-----------------------------------------------------------------------------
ConnectionStep ==
    \E c \in Conns : Connect(c) \/ Register(c) \/ Activity(c) \/ Pong(c)
                     \/ SocketCloses(c) \/ Disconnect(c)

WorkStep ==
    \/ \E j \in Jobs : Enqueue(j) \/ ComesDue(j) \/ Ack(j) \/ LeaseExtend(j)
    \/ \E c \in Conns : RequestOps(c)
    \/ \E x \in outdated : RejectedAck(x)
    \/ TriggerStartSync

Next == ConnectionStep \/ WorkStep \/ Tick \/ HeartbeatTick \/ KickTick

Spec == Init /\ [][Next]_vars

(* The clock and the timers run, events are taken from the queue, a sync loop
   goes on asking, and an op that a connected plugin executes ends. *)
Fairness ==
    /\ WF_vars(Tick) /\ WF_vars(HeartbeatTick) /\ WF_vars(KickTick)
    /\ \A c \in Conns : WF_vars(RequestOps(c))
    /\ WF_vars(\E c \in Conns : Disconnect(c))
    /\ \A j \in Jobs : WF_vars(Ack(j))
    /\ \A x \in Conns \X Jobs : WF_vars(RejectedAck(x))

FairSpec == Spec /\ Fairness

-----------------------------------------------------------------------------
(* Properties *)

TypeOK ==
    /\ escalate \in Escalations
    /\ socket \in [Conns -> {"new", "open", "closed"}]
    /\ idle \in Seq(Conns) /\ used \in Seq(Conns)
    /\ workers \subseteq Conns /\ pulling \subseteq Conns
    /\ active \in Conns \cup {NoConn}
    /\ seenAge \in [Conns -> 0 .. Stale + 1]
    /\ quarantine \in [Conns -> 0 .. Quarantine]
    /\ progressAge \in 0 .. ProgressCap /\ hadWork \in BOOLEAN
    /\ kickAge \in 0 .. Cooldown /\ escalateAge \in 0 .. Cooldown
    /\ kickIn \in 0 .. Interval /\ beatIn \in 0 .. Interval
    /\ job \in [Jobs -> {"none", "later", "due", "held"}]
    /\ holder \in [Jobs -> Conns \cup {NoConn}]
    /\ lease \in [Jobs -> 0 .. Lease]
    /\ outdated \subseteq Conns \X Jobs

(* The active worker, to whom StartSync, searches and ops go, is a registered
   worker that has not left and is not quarantined, after every event. *)
ActiveIsServing ==
    active # NoConn => active \in workers \cap Clients /\ quarantine[active] = 0

(* An op held by a plugin that has gone comes back, and one held by a plugin
   that is there is answered for: none is held for ever. *)
HeldEnds == \A j \in Jobs : job[j] = "held" ~> job[j] # "held"

Online == {c \in workers : socket[c] = "open" /\ seenAge[c] <= Stale}

(* From some point on the same workers, at least one, are online, and the user
   stays in the window that is theirs. *)
Settled ==
    /\ <>[](Online # {})
    /\ <>[][Online' = Online /\ \A c \in Conns : ~Activity(c)]_vars

(* specs/004-sync-reliability/spec.md:75: as long as a consumer is online, a
   backlog is woken and consumed, even if its notification was lost. *)
BacklogIsConsumed == Settled => \A j \in Jobs : job[j] = "due" ~> job[j] # "due"

(* The kick timer alone keeps that promise, when it does not escalate. *)
KickConsumesBacklog == <>[](escalate = 0) => BacklogIsConsumed
=============================================================================
