-------------------------------- MODULE IdMap --------------------------------
(***************************************************************************)
(* Temporary ids: QueueStore together with the table queue_id_map.         *)
(*                                                                         *)
(* An op may name a Rem that another op is still to create by a temporary  *)
(* id ("tmp:...").  The dispatcher holds it back until queue_id_map knows  *)
(* the real id (lib/wsBridgeCoreDispatch.ts), which the daemon stores when *)
(* the creating op is acknowledged (lib/wsBridgeCoreAck.ts), but in a      *)
(* transaction of its own, after the one of ackSuccess.  Between the two   *)
(* commits other processes read the store, and the daemon may stop.  One   *)
(* such reader is here: waitForTxn of commands/_waitTxn.ts, which polls    *)
(* the transaction Waited with inspect of services/Queue.ts, one SELECT    *)
(* after the other.                                                        *)
(*                                                                         *)
(* The real id of a Rem is <<o, a>>: created by op o under attempt a.      *)
(***************************************************************************)
EXTENDS QueueStore

CONSTANTS
    TempIds,
    Names,      \* [Ops -> SUBSET TempIds]: payload.client_temp_id, if any
    Reports,    \* [Ops -> SUBSET TempIds]: the ids of the result's mappings
    Needs,      \* [Ops -> SUBSET TempIds]: collectTempIdsFromPayload
    Waited,     \* the transaction waitForTxn waits for
    MaxStops    \* BOUND: how often the daemon stops between the two commits

(* What the payloads of the code are like.  That the ops of the transaction
   that is waited for report no other ids than those they are counted by is
   the condition under which the two counts can be compared. *)
IdShape ==
    /\ IsFiniteSet(TempIds)
    /\ Names \in [Ops -> SUBSET TempIds]
    /\ Reports \in [Ops -> SUBSET TempIds]
    /\ Waited \in Txns
    /\ \A o \in OpsOf(Waited) : Reports[o] \subseteq Names[o]

VARIABLES
    idMap,      \* queue_id_map: client_temp_id -> remote_id
    unstored,   \* the acked op and attempt whose mappings are to be stored
    stops,
    polled,     \* the status of Waited that the running inspect has read
    verdict     \* what waitForTxn returned

idVars == <<idMap, unstored, stops>>
waitVars == <<polled, verdict>>
allVars == <<vars, idVars, waitVars>>

NoRemote == <<>>

Final == {"succeeded", "failed"}

MapInit ==
    /\ Init
    /\ idMap = [x \in TempIds |-> NoRemote]
    /\ unstored = {} /\ stops = 0
    /\ polled = "none" /\ verdict = "none"

Mapped(x) == idMap[x] # NoRemote

(* The rows that inspect finds: source_txn is the transaction of the op. *)
MappingsOf(t) == {x \in TempIds : Mapped(x) /\ TxnOf[idMap[x][1]] = t}

-----------------------------------------------------------------------------
(* The daemon: one handler at a time, so none while mappings are unstored. *)

(* Slip: looks for mappings of the op's own transaction only. *)
DepsReadyInTxn(o) == Needs[o] \subseteq MappingsOf(TxnOf[o])

(* missingTempIds is empty. *)
DepsReady(o) == \A x \in Needs[o] : Mapped(x)

DispatchReady ==
    /\ unstored = {}
    /\ \E c \in Conns :
         \/ \E S \in SUBSET {o \in Ops : DepsReady(o)} : ClaimBatch(S, c)
         \/ \E o \in Ops : DepsReady(o) /\ ClaimOversize(o, c)
    /\ UNCHANGED <<idVars, waitVars>>

(* Slip: the mappings of a repeated or rejected ack are stored as well. *)
AcknowledgeAlways(o, a, c) ==
    /\ \/ AckSuccess(o, a, c)
       \/ AckReply(o, a, c, {"succeeded"}) # "applied" /\ UNCHANGED vars
    /\ unstored' = {<<o, a>>}
    /\ UNCHANGED <<idMap, stops, waitVars>>

(* ackSuccess, the first commit; a repeated or a rejected ack ends here. *)
Acknowledge(o, a, c) ==
    /\ AckSuccess(o, a, c)
    /\ unstored' = IF Reports[o] = {} THEN {} ELSE {<<o, a>>}
    /\ UNCHANGED <<idMap, stops, waitVars>>

AckOf(o) ==
    /\ unstored = {} /\ o \notin Oversize
    /\ \E a \in HandedOut(o), c \in Conns :
         \/ Acknowledge(o, a, c)
         \/ /\ AckDead(o, a, c) \/ \E d \in RetryDelays : AckRetry(o, a, c, d)
            /\ UNCHANGED <<idVars, waitVars>>

(* Slip: INSERT OR REPLACE. *)
DriftsUnnoticed(x, r) == FALSE

Drifts(x, r) == Mapped(x) /\ idMap[x] # r

(* upsertIdMap, the second commit: all the mappings of the op, or none when
   one of the ids has another meaning already.  The row of the attempt then
   tells of the conflict; op and transaction stay succeeded. *)
StoreMappings ==
    /\ \E r \in unstored :
         IF \E x \in Reports[r[1]] : Drifts(x, r)
         THEN /\ attempts' = [attempts EXCEPT ![r[1]][r[2]] = "id_map_conflict"]
              /\ UNCHANGED idMap
         ELSE /\ idMap' = [x \in TempIds |-> IF x \in Reports[r[1]] THEN r ELSE idMap[x]]
              /\ UNCHANGED attempts
    /\ unstored' = {}
    /\ UNCHANGED <<txnStatus, opStatus, attemptId, attemptCount, lockedBy,
                   waitLeft, leaseLeft, result, stops, waitVars>>

DaemonStops ==
    /\ unstored # {} /\ stops < MaxStops
    /\ unstored' = {}
    /\ stops' = stops + 1
    /\ UNCHANGED <<vars, idMap, waitVars>>

Housekeeping ==
    /\ \/ Tick \/ \E t \in Txns : EnqueueTxn(t)
       \/ unstored = {} /\ (RecoverExpiredLeases \/ \E o \in Ops : WorkerExtend(o))
    /\ UNCHANGED <<idVars, waitVars>>

-----------------------------------------------------------------------------
(* waitForTxn *)

(* inspect, its first SELECT: the row of the transaction. *)
PollTxn ==
    /\ verdict = "none" /\ polled = "none" /\ txnStatus[Waited] # "absent"
    /\ polled' = txnStatus[Waited]
    /\ UNCHANGED <<vars, idVars, verdict>>

(* Slip: does not wait for the mappings. *)
CompleteAtOnce == TRUE

(* mappingIncomplete compares two counts. *)
Complete ==
    Cardinality(MappingsOf(Waited)) >= Cardinality(UNION {Names[o] : o \in OpsOf(Waited)})

(* The last SELECT, and the decision; the deadline may pass at any time. *)
Decide ==
    /\ polled # "none"
    /\ polled' = "none"
    /\ verdict' \in
         IF polled = "failed" THEN {"failed"}
         ELSE IF polled = "succeeded" /\ Complete THEN {"success"}
         ELSE {"none", "timeout"}
    /\ UNCHANGED <<vars, idVars>>

-----------------------------------------------------------------------------
MapNext ==
    \/ DispatchReady
    \/ \E o \in Ops : AckOf(o)
    \/ StoreMappings
    \/ DaemonStops
    \/ Housekeeping
    \/ PollTxn
    \/ Decide

MapSpec == MapInit /\ [][MapNext]_allVars

(* A handler of the daemon that has begun goes on, and when there is none the
   heartbeat recovers lapsed leases. *)
DaemonWork ==
    \/ StoreMappings
    \/ unstored = {} /\ RecoverExpiredLeases /\ UNCHANGED <<idVars, waitVars>>

(* The clock runs; a connected worker keeps pulling (kick timer, sync loop)
   and acks the ops it holds (sendAckWithConfirm retries); the daemon works. *)
MapFairness ==
    /\ WF_allVars(Tick /\ UNCHANGED <<idVars, waitVars>>)
    /\ WF_allVars(DispatchReady)
    /\ WF_allVars(\E o \in Ops : AckOf(o))
    /\ WF_allVars(DaemonWork)

MapFairSpec == MapSpec /\ MapFairness

-----------------------------------------------------------------------------
(* Properties *)

(* Nothing but the accepted ack of a succeeded op gives a temporary id its
   meaning: no late, repeated or rejected ack of another attempt does. *)
MappingIsAccepted ==
    \A x \in TempIds : Mapped(x) =>
        \E o \in Ops : /\ x \in Reports[o] /\ idMap[x] = <<o, attemptId[o]>>
                       /\ opStatus[o] = "succeeded"

(* queue-schema.md:157: a temporary id never changes its meaning, so all the
   ops that were dispatched with it have been told the same Rem. *)
NoDrift == [][\A x \in TempIds : Mapped(x) => idMap'[x] = idMap[x]]_allVars

(* Whoever waited for a transaction and was told of its success was given
   the real ids of all that it created, although status and mappings are
   committed one after the other and read one after the other. *)
WaiterTellsTruth ==
    /\ verdict = "success" =>
         /\ txnStatus[Waited] = "succeeded"
         /\ \A o \in OpsOf(Waited) : \A x \in Names[o] : Mapped(x)
    /\ verdict = "failed" => txnStatus[Waited] = "failed"

(* An op that can never be dispatched: it needs the id of a Rem, and every op
   that was to create it is over, or has not been enqueued. *)
Stranded(o) ==
    \E x \in Needs[o] :
      /\ ~Mapped(x)
      /\ \A p \in Ops : x \in Reports[p] =>
           opStatus[p] \in {"succeeded", "dead"} \/ txnStatus[TxnOf[p]] = "absent"

(* As long as workers answer for the ops they hold, every accepted
   transaction is decided, whatever leases lapse on the way, unless one of
   its ops is stranded: that is the only way to wait for ever.  (As nothing
   decided is undone, all are decided when again and again all are.) *)
EveryTxnSettles ==
    []<>(\A t \in Txns : txnStatus[t] \in Final \cup {"absent"}
                           \/ \E o \in OpsOf(t) : Stranded(o))
=============================================================================
