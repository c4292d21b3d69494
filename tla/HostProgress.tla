---------------------------- MODULE HostProgress ----------------------------
(***************************************************************************)
(* The parts of the host that promise progress, in one model-checking run. *)
(* Each is a specification of its own, with its fairness; `part` says      *)
(* which of them runs, and the others stay in their initial states.  They  *)
(* share no variable, so a behaviour of this module is one of a part.      *)
(*                                                                         *)
(* The instances, of the constants in MCHostProgress and HostProgress.cfg: *)
(* a policy of restarts whose backoffs fit into the window; three ops, of  *)
(* which a2 needs the Rem that a1 creates, while b1 uses the same          *)
(* temporary ids for Rems of its own; one RemNote window with one job and  *)
(* no escalation; and the plans of MCApplyPlan, of at most three steps.    *)
(***************************************************************************)
EXTENDS Supervisor

CONSTANTS
    \* IdMap
    Ops, Txns, Conns, NoConn, TxnOf, OpSeq, Serial, OpKeys, Oversize, DeliverAfter, LeaseOf,
    RetryDelays, Extensions, MaxAttempts, MaxLapses,
    TmpIds, Names, Reports, Needs, Waited, MaxStops,
    \* ApplyPlan
    PlanEnvelopes, PlanOutline, MaxSteps, PlanLapses

VARIABLES
    part,
    \* IdMap
    txnStatus, opStatus, attemptId, attemptCount, lockedBy, waitLeft,
    leaseLeft, attempts, result, idMap, unstored, stops, polled, verdict,
    \* WsBridge
    escalate, socket, idle, used, workers, seenAge, active, quarantine,
    progressAge, hadWork, kickAge, escalateAge, kickIn, beatIn, job, holder,
    lease, outdated, pulling,
    \* ApplyPlan
    envelope, ops, stepStatus, lapses, outline, made

mapVars == <<idMap, unstored, stops, polled, verdict>>
idsVars ==
    <<txnStatus, opStatus, attemptId, attemptCount, lockedBy, waitLeft, leaseLeft,
      attempts, result, mapVars>>
bridgeVars ==
    <<escalate, socket, idle, used, workers, seenAge, active, quarantine, progressAge,
      hadWork, kickAge, escalateAge, kickIn, beatIn, job, holder, lease, outdated, pulling>>
planVars == <<envelope, ops, stepStatus, lapses, outline, made>>

Ids == INSTANCE IdMap WITH ConflictKeys <- OpKeys, TempIds <- TmpIds

ASSUME IdConstants ==
    Ids!TxnShape /\ Ids!Durations /\ Ids!Limits /\ Ids!NullConn /\ Ids!IdShape

Bridge == INSTANCE WsBridge WITH
    Conns <- {"w1"}, NoConn <- "none", Jobs <- {"j1"}, Interval <- 1, Cooldown <- 1,
    Escalations <- {0}, Stale <- 1, Quarantine <- 1, Lease <- 1, AutoSync <- {FALSE}

Plans == INSTANCE ApplyPlan WITH
    Envelopes <- PlanEnvelopes, Outline0 <- PlanOutline,
    MaxOps <- MaxSteps, MaxLapses <- PlanLapses, status <- stepStatus

ASSUME PlanConstants == Plans!EnvelopeShape

-----------------------------------------------------------------------------
AllInit ==
    /\ part \in {"daemon", "ids", "bridge", "plans"}
    /\ Init /\ Ids!MapInit /\ Bridge!Init
    /\ Plans!Init /\ (part = "plans" \/ envelope = CHOOSE e \in PlanEnvelopes : TRUE)

Runs(p) == part = p /\ UNCHANGED part

AllNext ==
    \/ Runs("daemon") /\ Next /\ UNCHANGED <<idsVars, bridgeVars, planVars>>
    \/ Runs("ids") /\ Ids!MapNext /\ UNCHANGED <<vars, bridgeVars, planVars>>
    \/ Runs("bridge") /\ Bridge!Next /\ UNCHANGED <<vars, idsVars, planVars>>
    \/ Runs("plans") /\ Plans!Next /\ UNCHANGED <<vars, idsVars, bridgeVars>>

allVars == <<part, vars, idsVars, bridgeVars, planVars>>

(* The fairness of each part, while it is the one that runs: what its own
   module states and explains. *)
AllFairness ==
    /\ WF_vars(Runs("daemon") /\ Tick)
    /\ WF_vars(Runs("daemon") /\ Spawn)
    /\ WF_vars(Runs("daemon") /\ RestartFires)
    /\ WF_vars(Runs("daemon") /\ Handle)
    /\ WF_vars(Runs("daemon") /\ Return)
    /\ WF_idsVars(Runs("ids") /\ Ids!Tick /\ UNCHANGED mapVars)
    /\ WF_idsVars(Runs("ids") /\ Ids!DispatchReady)
    /\ WF_idsVars(Runs("ids") /\ \E o \in Ops : Ids!AckOf(o))
    /\ WF_idsVars(Runs("ids") /\ Ids!DaemonWork)
    /\ WF_bridgeVars(Runs("bridge") /\ Bridge!Tick)
    /\ WF_bridgeVars(Runs("bridge") /\ Bridge!HeartbeatTick)
    /\ WF_bridgeVars(Runs("bridge") /\ Bridge!KickTick)
    /\ WF_bridgeVars(Runs("bridge") /\ Bridge!RequestOps("w1"))
    /\ WF_bridgeVars(Runs("bridge") /\ Bridge!Disconnect("w1"))
    /\ WF_bridgeVars(Runs("bridge") /\ Bridge!Ack("j1"))
    /\ WF_bridgeVars(Runs("bridge") /\ Bridge!RejectedAck(<<"w1", "j1">>))
    /\ WF_planVars(Runs("plans") /\ Plans!Progress)

AllSpec == AllInit /\ [][AllNext]_allVars /\ AllFairness

-----------------------------------------------------------------------------
(* Properties of the parts, explained in their modules; OneCleanLife is that of
   the daemon. *)

CrashLoopEnds == part = "daemon" => CrashLoopDetected

IdsAreTrue == Ids!MappingIsAccepted /\ Ids!WaiterTellsTruth
NoDrift == Ids!NoDrift
EveryTxnSettles == part = "ids" => Ids!EveryTxnSettles

HeldEnds == part = "bridge" => Bridge!HeldEnds
KickConsumesBacklog == part = "bridge" => Bridge!KickConsumesBacklog

OpsWaitTheirTurn == Plans!HeldUntilMade /\ Plans!HostKeysAreLocked
MergingKeepsWork == part = "plans" => Plans!MergingKeepsWork
PlanSettles == part = "plans" => Plans!PlanSettles
=============================================================================
