----------------------------- MODULE HostParts -----------------------------
(***************************************************************************)
(* The parts of the host, the way of a write to the plugin and back, and   *)
(* the way of what the user selects, whose safety is checked, in one       *)
(* model-checking run.  Each is a                                          *)
(* specification of its own; `part` says which of them runs, and the       *)
(* others stay in their initial states.  They share no variable, so a      *)
(* behaviour of this module is one of a part.                              *)
(*                                                                         *)
(* The instances, of the constants in MCHostParts and its .cfg: two RemNote  *)
(* windows and one job; a                                                  *)
(* locked op that is retried, lapses and meets a reload; the daemon and    *)
(* the API of two installs under one command at a time; three commands     *)
(* that want the lock of the claim; two processes that open one store; and *)
(* five ops to select from: a move that conflicts with an update of what   *)
(* is moved and with the creation of a sibling, an op that needs the id of *)
(* the sibling, and one that is too large; two Rems and two places,        *)
(* between which the user moves twice while the plugin reconnects; and the *)
(* requests of MCPromotion, for the plans of ApplyPlan.                    *)
(***************************************************************************)
EXTENDS WsBridgeHistory, LocalParts, TLC

CONSTANTS
    \* WriteDelivery
    Writes, Txns, WriteTxn, OpSeq, Serial, WriteKeys, LargeWrites, DeliverAfter, LeaseOf,
    RetryDelays, Extensions, MaxAttempts, MaxLapses, PluginKeys, OpLockKeys, Slow, MaxReloads,
    \* Promotion
    Requests, FoundPages, MaxSteps, PlanLapses

VARIABLES
    part,
    \* WriteDelivery
    txnStatus, opStatus, attemptId, attemptCount, lockedBy, waitLeft,
    leaseLeft, attempts, result,
    conn, closed, via, reloads,
    stage, answer, outbox, seen, inFlight, applied,
    locked, waiting, arrival, pushes, holding, released,
    \* Promotion, with ApplyPlan
    envelope, ops, stepStatus, lapses, outline, named, request, leftNone, receipt

deliveryVars ==
    <<txnStatus, opStatus, attemptId, attemptCount, lockedBy, waitLeft, leaseLeft,
      attempts, result, conn, closed, via, reloads, stage, answer, outbox, seen, inFlight,
      applied, locked, waiting, arrival, pushes, holding, released>>

askVars ==
    <<envelope, ops, stepStatus, lapses, outline, named, request, leftNone, receipt>>

-----------------------------------------------------------------------------
(* With what DeliveryProofs knows of it; it shares its connections with the
   bridge. *)
Delivery == INSTANCE DeliveryProofs WITH
    Ops <- Writes, TxnOf <- WriteTxn, ConflictKeys <- WriteKeys, Oversize <- LargeWrites,
    Keys <- PluginKeys

ASSUME DeliveryConstants ==
    Delivery!TxnShape /\ Delivery!Durations /\ Delivery!Limits /\ Delivery!NullConn

Promoting == INSTANCE PromotionProofs WITH
    Envelopes <- {}, Outline0 <- FoundPages, MaxOps <- MaxSteps, MaxLapses <- PlanLapses,
    status <- stepStatus, made <- named

ASSUME PromotionConstants == Promoting!RequestShape /\ Promoting!OutlineShape

-----------------------------------------------------------------------------
(* The variables of a part that does not run say nothing: of the
   bridge, whose properties are stated as they are, no one is active, and the
   heartbeat is not due. *)
Off == "off"

AllInit ==
    /\ part \in {"bridge", "delivery", "processes", "transfers", "store", "selecting", "feed",
             "promotion"}
    /\ \/ part = "bridge" /\ HInit
       \/ /\ part # "bridge" /\ active = NoConn /\ beatIn = 1
          /\ escalate = Off /\ socket = Off /\ idle = Off /\ used = Off
          /\ workers = Off /\ seenAge = Off /\ quarantine = Off
          /\ progressAge = Off /\ hadWork = Off /\ kickAge = Off
          /\ escalateAge = Off /\ kickIn = Off /\ job = Off
          /\ holder = Off /\ lease = Off /\ outdated = Off /\ pulling = Off
          /\ touched = Off
    /\ \/ part = "delivery" /\ Delivery!DInit /\ conn = CHOOSE c \in Conns : TRUE  \* of those alike
       \/ /\ part # "delivery"
          /\ txnStatus = Off /\ opStatus = Off /\ attemptId = Off
          /\ attemptCount = Off /\ lockedBy = Off /\ waitLeft = Off
          /\ leaseLeft = Off /\ attempts = Off /\ result = Off /\ conn = Off
          /\ closed = Off /\ via = Off /\ reloads = Off /\ stage = Off
          /\ answer = Off /\ outbox = Off /\ seen = Off /\ inFlight = Off
          /\ applied = Off /\ locked = Off /\ waiting = Off /\ arrival = Off
          /\ pushes = Off /\ holding = Off /\ released = Off
    /\ \/ part = "processes" /\ Processes!Init
       \/ /\ part # "processes"
          /\ proc = Off /\ port = Off /\ pidFile = Off /\ claim = Off
          /\ told = Off /\ cmd = Off
    /\ \/ part = "transfers" /\ Transfers!Init
       \/ /\ part # "transfers"
          /\ there = Off /\ meta = Off /\ old = Off /\ place = Off /\ try = Off
    /\ \/ part = "store" /\ Store!Init
       \/ /\ part # "store"
          /\ store = Off /\ at = Off /\ made = Off
    /\ \/ part = "selecting" /\ Batch!Init
       \/ /\ part # "selecting"
          /\ order = Off /\ status = Off /\ backingOff = Off
    /\ \/ part = "feed" /\ Feed!Init
       \/ /\ part # "feed"
          /\ ui = Off /\ acts = Off /\ due = Off /\ session = Off /\ link = Off
          /\ task = Off /\ again = Off /\ sent = Off /\ crossed = Off
          /\ known = Off
    /\ \/ part = "promotion" /\ Promoting!PromoInit
       \/ /\ part # "promotion"
          /\ envelope = Off /\ ops = Off /\ stepStatus = Off /\ lapses = Off
          /\ outline = Off /\ named = Off /\ request = Off /\ leftNone = Off
          /\ receipt = Off

Runs(p) == part = p /\ UNCHANGED part

AllNext ==
    \/ Runs("bridge") /\ HNext
       /\ UNCHANGED <<deliveryVars, stackVars, lockVars, storeVars, selVars, feedVars, askVars>>
    \/ Runs("delivery") /\ Delivery!DNext
       /\ UNCHANGED <<hvars, stackVars, lockVars, storeVars, selVars, feedVars, askVars>>
    \/ Runs("processes") /\ Processes!Next
       /\ UNCHANGED <<hvars, deliveryVars, lockVars, storeVars, selVars, feedVars, askVars>>
    \/ Runs("transfers") /\ Transfers!Next
       /\ UNCHANGED <<hvars, deliveryVars, stackVars, storeVars, selVars, feedVars, askVars>>
    \/ Runs("store") /\ Store!Next
       /\ UNCHANGED <<hvars, deliveryVars, stackVars, lockVars, selVars, feedVars, askVars>>
    \/ Runs("selecting") /\ Batch!Next
       /\ UNCHANGED <<hvars, deliveryVars, stackVars, lockVars, storeVars, feedVars, askVars>>
    \/ Runs("feed") /\ Feed!Next
       /\ UNCHANGED <<hvars, deliveryVars, stackVars, lockVars, storeVars, selVars, askVars>>
    \/ Runs("promotion") /\ Promoting!PromoNext
       /\ UNCHANGED <<hvars, deliveryVars, stackVars, lockVars, storeVars, selVars, feedVars>>

allVars ==
    <<part, hvars, deliveryVars, stackVars, lockVars, storeVars, selVars, feedVars, askVars>>

AllSpec == AllInit /\ [][AllNext]_allVars

-----------------------------------------------------------------------------
(* Properties of the parts, explained in their modules; ActiveIsServing and
   UsersWindowWorks are those of the bridge. *)

AtMostOncePerLife == part = "delivery" => Delivery!AtMostOncePerLife
VerdictIsTrue == part = "delivery" => Delivery!VerdictIsTrue

OnlyOurDaemon ==
    part = "processes" => Processes!NoStrangerSignalled /\ Processes!DaemonTracked

OneTransfer == part = "transfers" => Transfers!OneTransfer

StoreServes == part = "store" => Store!ReadyMeansComplete /\ Store!OldStoresOpen

GoodBatches ==
    part = "selecting" => Batch!NoConflictInFlight /\ Batch!BatchIsFull

NoLeftover == part = "feed" => Feed!NoLeftover
ContextIsCurrent == part = "feed" => Feed!ContextIsCurrent

PortalFillsSlot == part = "promotion" => Promoting!PortalFillsSlot
ReceiptTellsTruth == Promoting!ReceiptTellsTruth
=============================================================================
