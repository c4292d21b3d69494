--------------------------- MODULE PluginExecutor ---------------------------
(***************************************************************************)
(* The executor in the RemNote plugin: runOne of packages/plugin/src/      *)
(* bridge/runtime.ts, executeOp of bridge/ops/executeOp.ts, and the locks  *)
(* of bridge/opConcurrency.ts.  A delivery is one op dispatched under one  *)
(* attempt; several deliveries of an op may be in the plugin at once, when *)
(* the lease of an earlier one has lapsed.                                 *)
(*                                                                         *)
(* JavaScript runs to the next await: a delivery asks for its locks once   *)
(* its keys are computed, starts when its promise is resolved, and in      *)
(* between everybody else runs.  Keys that the payload alone determines    *)
(* are there before the next message is received.                          *)
(***************************************************************************)
EXTENDS Integers

CONSTANTS
    Deliveries,
    KeyOf,       \* the idempotency_key of a delivery
    Keys,        \* lock keys
    LockKeys,    \* computeOpLockKeys of a delivery
    SlowKeys     \* the deliveries whose keys need a read of RemNote

VARIABLES
    stage,       \* where runOne is with a delivery
    answer,      \* what executeOp returned for it
    outbox,      \* pendingAcks: acks not confirmed yet
    seen,        \* seenIdempotency (with the cached results)
    inFlight,    \* inFlightIdempotency
    applied,     \* how often the handler has done the op, per key
    locked, waiting, arrival, pushes, holding, released  \* see OpLocks

lockVars == <<locked, waiting, arrival, pushes, holding, released>>
execVars == <<stage, answer, outbox, seen, inFlight, applied>>

Locks == INSTANCE OpLocks WITH Requests <- Deliveries

IdemKeys == {KeyOf[d] : d \in Deliveries}

Init ==
    /\ stage = [d \in Deliveries |-> "unseen"]
    /\ answer = [d \in Deliveries |-> "none"]
    /\ outbox = {} /\ seen = {} /\ inFlight = {}
    /\ applied = [k \in IdemKeys |-> 0]
    /\ Locks!Init

(* The ops of a batch enter runOne and compute their lock keys. *)
Receive(D) ==
    /\ \A d \in Deliveries : stage[d] = "received" => d \in SlowKeys
    /\ stage' = [d \in Deliveries |-> IF d \in D THEN "received" ELSE stage[d]]
    /\ UNCHANGED <<answer, outbox, seen, inFlight, applied>>
    /\ UNCHANGED lockVars

(* opLocks.acquire *)
Lock(d) ==
    /\ stage[d] = "received"
    /\ Locks!Acquire(d)
    /\ stage' = [stage EXCEPT ![d] = "locking"]
    /\ UNCHANGED <<answer, outbox, seen, inFlight, applied>>

Answer(d, result) ==
    /\ stage' = [stage EXCEPT ![d] = "answered"]
    /\ answer' = [answer EXCEPT ![d] = result]
    /\ outbox' = outbox \cup {d}

Locked(d) == stage[d] = "locking" /\ d \in holding

(* Slip: a result is not looked up before the op is executed. *)
StartUnchecked(d) ==
    /\ Locked(d)
    /\ inFlight' = inFlight \cup {KeyOf[d]}
    /\ stage' = [stage EXCEPT ![d] = "running"]
    /\ UNCHANGED <<answer, outbox, seen, applied>>
    /\ UNCHANGED lockVars

(* executeOp up to its first await.  Its finally block forgets the key even
   when the key was put there by another delivery. *)
Start(d) ==
    /\ Locked(d)
    /\ IF KeyOf[d] \in seen THEN
            /\ Answer(d, "success")
            /\ inFlight' = inFlight \ {KeyOf[d]}
       ELSE IF KeyOf[d] \in inFlight THEN
            /\ Answer(d, "retry")
            /\ inFlight' = inFlight \ {KeyOf[d]}
       ELSE /\ inFlight' = inFlight \cup {KeyOf[d]}
            /\ stage' = [stage EXCEPT ![d] = "running"]
            /\ UNCHANGED <<answer, outbox>>
    /\ UNCHANGED <<seen, applied>>
    /\ UNCHANGED lockVars

(* Slip: markIdempotency does not ask whether the result is ok. *)
FinishMarkingAll(d, result) ==
    /\ stage[d] = "running"
    /\ Answer(d, result)
    /\ inFlight' = inFlight \ {KeyOf[d]}
    /\ seen' = seen \cup {KeyOf[d]}
    /\ applied' = IF result = "success" THEN [applied EXCEPT ![KeyOf[d]] = @ + 1]
                                        ELSE applied
    /\ UNCHANGED lockVars

(* The handler returns ok ("success"), a soft error ("retry"), or a fatal
   error or an exception ("failed"). *)
Finish(d, result) ==
    /\ stage[d] = "running"
    /\ Answer(d, result)
    /\ inFlight' = inFlight \ {KeyOf[d]}
    /\ IF result = "success"
       THEN /\ seen' = seen \cup {KeyOf[d]}
            /\ applied' = [applied EXCEPT ![KeyOf[d]] = @ + 1]
       ELSE UNCHANGED <<seen, applied>>
    /\ UNCHANGED lockVars

(* sendAckWithConfirm is over, by an answer or by its timeout: the locks are
   released, and an ack without an answer stays in pendingAcks. *)
LetGo(d) ==
    /\ stage[d] = "answered"
    /\ stage' = [stage EXCEPT ![d] = "done"]
    /\ Locks!Release(d)
    /\ UNCHANGED <<answer, outbox, seen, inFlight, applied>>

(* The plugin's process is loaded anew: all of its memory is lost. *)
Reload ==
    /\ stage' = [d \in Deliveries |-> IF stage[d] = "unseen" THEN "unseen" ELSE "done"]
    /\ outbox' = {} /\ seen' = {} /\ inFlight' = {}
    /\ locked' = {} /\ waiting' = {} /\ holding' = {}
    /\ UNCHANGED <<answer, applied, arrival, pushes, released>>

TypeOK ==
    /\ stage \in [Deliveries -> {"unseen", "received", "locking", "running",
                                 "answered", "done"}]
    /\ answer \in [Deliveries -> {"none", "success", "retry", "failed"}]
    /\ outbox \subseteq Deliveries
    /\ seen \subseteq IdemKeys /\ inFlight \subseteq IdemKeys
    /\ applied \in [IdemKeys -> Nat]
    /\ Locks!TypeOK
=============================================================================
