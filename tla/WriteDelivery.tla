---------------------------- MODULE WriteDelivery ----------------------------
(***************************************************************************)
(* The way of a write from the store queue through the WS bridge to the    *)
(* plugin and back: QueueStore and PluginExecutor, connected by a          *)
(* WebSocket that may break and be replaced, under one plugin that may be  *)
(* reloaded.  What the queue decides is compared with what was done.       *)
(*                                                                         *)
(* The messages OpDispatchBatch, OpAck, AckOk and LeaseExtend belong to    *)
(* the connection they are sent on.  A batch arrives or is lost with its   *)
(* connection; an ack is sent again until it is answered, so it may arrive *)
(* any number of times while its connection is open, and never after.      *)
(***************************************************************************)
EXTENDS QueueStore

CONSTANTS
    Keys, OpLockKeys,  \* computeOpLockKeys, per op
    Slow,              \* ops whose lock keys need a read of RemNote
    MaxReloads         \* BOUND: how often the plugin is reloaded

VARIABLES
    conn,      \* the connection that is open
    closed,    \* the connections that were open before
    via,       \* the connection each delivery was sent on
    reloads,
    stage, answer, outbox, seen, inFlight, applied,
    locked, waiting, arrival, pushes, holding, released

Deliveries == Ops \X (1 .. MaxClaims)

(* Ops are enqueued with an idempotency key of their own. *)
KeyOf == [d \in Deliveries |-> d[1]]

Plugin == INSTANCE PluginExecutor
          WITH LockKeys <- [d \in Deliveries |-> OpLockKeys[d[1]]],
               SlowKeys <- {d \in Deliveries : d[1] \in Slow}

linkVars == <<conn, closed, via, reloads>>
pluginVars == <<stage, answer, outbox, seen, inFlight, applied,
                locked, waiting, arrival, pushes, holding, released>>

allVars == <<vars, linkVars, pluginVars>>

DInit ==
    /\ Init
    /\ Plugin!Init
    /\ conn \in Conns /\ closed = {} /\ reloads = 0
    /\ via = [d \in Deliveries |-> NoConn]

-----------------------------------------------------------------------------
QueueAlone ==
    /\ Tick \/ RecoverExpiredLeases \/ \E t \in Txns : EnqueueTxn(t)
    /\ UNCHANGED <<linkVars, pluginVars>>

(* RequestOps: the ops are claimed, and the batch arrives or is lost. *)
DispatchBatch ==
    \E S \in SUBSET Ops :
      LET sent == {<<o, FreshAttempt(o)>> : o \in S} IN
      /\ ClaimBatch(S, conn)
      /\ via' = [d \in Deliveries |-> IF d \in sent THEN conn ELSE via[d]]
      /\ Plugin!Receive(sent) \/ UNCHANGED pluginVars
      /\ UNCHANGED <<conn, closed, reloads>>

(* runOne, apart from its messages. *)
PluginAlone ==
    /\ \E d \in Deliveries :
         \/ Plugin!Lock(d)
         \/ Plugin!Start(d)
         \/ \E r \in {"success", "retry", "failed"} : Plugin!Finish(d, r)
         \/ Plugin!LetGo(d)
    /\ UNCHANGED <<vars, linkVars>>

(* The timer of startLeaseExtend, from the start of the op to its ack. *)
Extend ==
    /\ \E d \in Deliveries :
         /\ stage[d] \in {"running", "answered"} /\ via[d] = conn
         /\ \E ms \in Extensions : ExtendLease(d[1], d[2], conn, ms)
    /\ UNCHANGED <<linkVars, pluginVars>>

(* handleOpAckMessage.  The answer AckOk or AckRejected ends the retries of
   the plugin, unless they have sent the ack once more before it is there. *)
AckArrives(d) ==
    LET o == d[1]  a == d[2] IN
    /\ d \in outbox /\ via[d] = conn
    /\ \/ answer[d] = "success" /\ AckSuccess(o, a, conn)
       \/ answer[d] = "retry" /\ \E delay \in RetryDelays : AckRetry(o, a, conn, delay)
       \/ answer[d] = "failed" /\ AckDead(o, a, conn)
       \/ ~Holds(o, a, conn) /\ UNCHANGED vars
    /\ outbox' \in {outbox, outbox \ {d}}
    /\ UNCHANGED <<linkVars, stage, answer, seen, inFlight, applied>>
    /\ UNCHANGED <<locked, waiting, arrival, pushes, holding, released>>

(* The connection breaks and another one takes its place; acks waiting to be
   sent again on the old one are dropped (flushPendingAcks). *)
NewConnection ==
    /\ conn' \in Conns \ (closed \cup {conn})
    /\ closed' = closed \cup {conn}
    /\ outbox' = {}
    /\ UNCHANGED via

Reconnect ==
    /\ NewConnection
    /\ UNCHANGED <<vars, reloads, stage, answer, seen, inFlight, applied>>
    /\ UNCHANGED <<locked, waiting, arrival, pushes, holding, released>>

ReloadPlugin ==
    /\ reloads < MaxReloads
    /\ reloads' = reloads + 1
    /\ NewConnection
    /\ Plugin!Reload
    /\ UNCHANGED vars

DNext ==
    \/ QueueAlone
    \/ DispatchBatch
    \/ PluginAlone
    \/ Extend
    \/ \E d \in Deliveries : AckArrives(d)
    \/ Reconnect
    \/ ReloadPlugin

DSpec == DInit /\ [][DNext]_allVars

-----------------------------------------------------------------------------
(* Properties *)

(* An op with a lock key is done at most once in a life of the plugin,
   whatever leases lapse, acks get lost and connections break: only a reload,
   which forgets the idempotency keys, may cost one more execution.  (Without a
   lock key two of its deliveries may run together.) *)
AtMostOncePerLife ==
    \A k \in Plugin!IdemKeys : OpLockKeys[k] # {} => applied[k] <= 1 + reloads

(* The deliveries of o wait for nobody but each other: its keys are there at
   once, and no other op has one of them.  (Where one has, a later delivery may
   find the keys free and pass an earlier one that waits behind that op.) *)
KeepsItsTurn(o) ==
    /\ OpLockKeys[o] # {} /\ o \notin Slow
    /\ \A p \in Ops \ {o} : OpLockKeys[o] \cap OpLockKeys[p] = {}

(* What the queue reports as succeeded has been done, and what it reports as
   dead has not, if its deliveries keep their turn and the plugin was not
   reloaded after it had done it. *)
VerdictIsTrue ==
    \A o \in Ops :
      /\ opStatus[o] = "succeeded" => applied[o] >= 1
      /\ KeepsItsTurn(o) /\ opStatus[o] = "dead" /\ reloads = 0 => applied[o] = 0

(* queue-schema.md:233: for a key that has been executed, the executor only
   returns the result; without a reload no key is executed twice. *)
ExecutedOnce == reloads = 0 => \A k \in Plugin!IdemKeys : applied[k] <= 1
=============================================================================
