----------------------------- MODULE QueueStore -----------------------------
(***************************************************************************)
(* The store queue of agent-remnote: tables queue_txns, queue_ops,         *)
(* queue_op_attempts and queue_op_results, and the operations of           *)
(* packages/agent-remnote/src/internal/queue/dao.ts on them.  Every        *)
(* operation is one SQLite transaction, hence one action.                  *)
(*                                                                         *)
(* Clock.  The code compares two kinds of timestamps with Date.now(): the  *)
(* lease (lease_expires_at) and the earliest next dispatch                 *)
(* (next_attempt_at).  Only their distance to now matters, and only until  *)
(* it is used up, so each timestamp x is kept as max(0, x - now): Tick     *)
(* brings all of them one unit nearer.  "lease_expires_at <= now" is       *)
(* leaseLeft = 0, "next_attempt_at <= now" is waitLeft = 0.                *)
(*                                                                         *)
(* Attempts.  attempt_id is a fresh UUID per claim; here it is the ordinal *)
(* of the claim of its op (0 is NULL).  An ack or a lease extension may    *)
(* name any attempt handed out so far and arrive on any connection, which  *)
(* covers late, duplicated and reordered messages of every worker.         *)
(***************************************************************************)
EXTENDS Integers, FiniteSets

CONSTANTS
    Ops, Txns, Conns,
    NoConn,        \* locked_by = NULL
    TxnOf, OpSeq,  \* queue_ops.txn_id and queue_ops.op_seq
    Serial,        \* transactions with dispatch_mode 'serial'
    ConflictKeys,  \* [Ops -> SUBSET keys]: deriveConflictKeys of the op
    Oversize,      \* ops whose payload exceeds the budget of a request
    DeliverAfter,  \* [Ops -> Nat]: deliver_after - created_at
    LeaseOf,       \* [Ops -> Nat \ {0}]: the lease of a claim of the op
    RetryDelays,   \* the delays an ackRetry may compute or be asked for
    Extensions,    \* the clamped extendMs values of LeaseExtend
    MaxAttempts,   \* queue_ops.max_attempts
    MaxLapses      \* BOUND: how many leases of one op may lapse unnoticed

NoLease == -1      \* lease_expires_at = NULL

(* A claim is consumed by a retry, a settlement or a lapse. *)
MaxClaims == MaxAttempts + MaxLapses

ASSUME TxnShape ==
    /\ TxnOf \in [Ops -> Txns]
    /\ OpSeq \in [Ops -> Nat]
    /\ Serial \subseteq Txns
    /\ \A o, p \in Ops : TxnOf[o] = TxnOf[p] /\ OpSeq[o] = OpSeq[p] => o = p
    /\ \A t \in Txns : \E o \in Ops : TxnOf[o] = t  \* callers refuse empty ops

ASSUME Durations ==
    /\ DeliverAfter \in [Ops -> Nat]
    /\ LeaseOf \in [Ops -> Nat \ {0}]
    /\ RetryDelays \subseteq Nat
    /\ Extensions \subseteq Nat \ {0}

ASSUME Limits == MaxAttempts \in Nat \ {0} /\ MaxLapses \in Nat

ASSUME NullConn == NoConn \notin Conns

VARIABLES
    txnStatus,     \* queue_txns.status; "absent" before the row exists
    opStatus,      \* queue_ops.status
    attemptId,     \* queue_ops.attempt_id
    attemptCount,  \* queue_ops.attempt_count
    lockedBy,      \* queue_ops.locked_by
    waitLeft,      \* queue_ops.next_attempt_at, relative
    leaseLeft,     \* queue_ops.lease_expires_at, relative
    attempts,      \* queue_op_attempts.status, per op and attempt
    result         \* queue_op_results: none, a result or an error

vars == <<txnStatus, opStatus, attemptId, attemptCount, lockedBy, waitLeft,
          leaseLeft, attempts, result>>

OpsOf(t) == {o \in Ops : TxnOf[o] = t}

Predecessors(o) == {p \in OpsOf(TxnOf[o]) : OpSeq[p] < OpSeq[o]}

TxnStatus == {"absent", "ready", "in_progress", "succeeded", "failed"}
OpStatus == {"pending", "in_flight", "succeeded", "dead"}
ClosedAttempt == {"succeeded", "retry", "dead", "lease_expired"}
OpenAttempt == {"claimed", "lease_extended"}

Init ==
    /\ txnStatus = [t \in Txns |-> "absent"]
    /\ opStatus = [o \in Ops |-> "pending"]
    /\ attemptId = [o \in Ops |-> 0]
    /\ attemptCount = [o \in Ops |-> 0]
    /\ lockedBy = [o \in Ops |-> NoConn]
    /\ waitLeft = [o \in Ops |-> DeliverAfter[o]]
    /\ leaseLeft = [o \in Ops |-> NoLease]
    /\ attempts = [o \in Ops |-> [a \in 1 .. MaxClaims |-> "none"]]
    /\ result = [o \in Ops |-> "none"]

-----------------------------------------------------------------------------
(* Time *)

InFlight(o) == opStatus[o] = "in_flight"

Expired(o) == InFlight(o) /\ leaseLeft[o] = 0

(* The lease of o may still lapse: its claims will cover all its retries. *)
MayLapse(o) == attemptId[o] + (MaxAttempts - attemptCount[o]) <= MaxClaims

Sooner(n) == IF n > 0 THEN n - 1 ELSE n

(* One unit of time.  A row whose transaction is not there yet does not age. *)
Tick ==
    /\ \A o \in Ops : InFlight(o) /\ leaseLeft[o] = 1 => MayLapse(o)
    /\ leaseLeft' = [o \in Ops |-> Sooner(leaseLeft[o])]
    /\ waitLeft' = [o \in Ops |-> IF txnStatus[TxnOf[o]] = "absent"
                                  THEN waitLeft[o] ELSE Sooner(waitLeft[o])]
    /\ UNCHANGED <<txnStatus, opStatus, attemptId, attemptCount, lockedBy,
                   attempts, result>>

-----------------------------------------------------------------------------
(* Enqueue and dispatch *)

(* createTxn, addOps and commitTxn in one transaction. *)
EnqueueTxn(t) ==
    /\ txnStatus[t] = "absent"
    /\ txnStatus' = [txnStatus EXCEPT ![t] = "ready"]
    /\ UNCHANGED <<opStatus, attemptId, attemptCount, lockedBy, waitLeft,
                   leaseLeft, attempts, result>>

(* Slip: predecessors need not be in flight, but need not have succeeded. *)
EligibleOutOfOrder(o) ==
    /\ opStatus[o] = "pending"
    /\ waitLeft[o] = 0
    /\ txnStatus[TxnOf[o]] \in {"ready", "in_progress"}
    /\ TxnOf[o] \in Serial => \A p \in OpsOf(TxnOf[o]) : ~InFlight(p)

(* The WHERE clause of peekEligibleOps and claimOpById. *)
Eligible(o) ==
    /\ opStatus[o] = "pending"
    /\ waitLeft[o] = 0
    /\ txnStatus[TxnOf[o]] \in {"ready", "in_progress"}
    /\ TxnOf[o] \in Serial =>
         /\ \A p \in OpsOf(TxnOf[o]) : ~InFlight(p)
         /\ \A p \in Predecessors(o) : opStatus[p] = "succeeded"

(* listInFlightOps: what the dispatcher regards as being executed. *)
LiveInFlight == {o \in Ops : InFlight(o) /\ leaseLeft[o] # 0}

Conflicting(o, p) == ConflictKeys[o] \cap ConflictKeys[p] # {}

Unblocked(o) ==
    /\ Eligible(o)
    /\ \A p \in LiveInFlight :
         /\ ~Conflicting(o, p)
         /\ TxnOf[o] \in Serial => TxnOf[p] # TxnOf[o]

(* What selectOpsForDispatch may pick out of the eligible ops. *)
Selectable(S) ==
    /\ \A o \in S : Unblocked(o) /\ o \notin Oversize
    /\ \A o, p \in S : o # p =>
         /\ ~Conflicting(o, p)
         /\ TxnOf[o] = TxnOf[p] => TxnOf[o] \notin Serial

(* Slip: the claim keeps the attempt_id of the row. *)
SameAttempt(o) == attemptId[o]

(* The randomUUID() of a claim. *)
FreshAttempt(o) == attemptId[o] + 1

(* The UPDATEs of a claim of the ops of S for connection c. *)
Claim(S, c) ==
    /\ opStatus' = [o \in Ops |-> IF o \in S THEN "in_flight" ELSE opStatus[o]]
    /\ attemptId' = [o \in Ops |-> IF o \in S THEN FreshAttempt(o)
                                              ELSE attemptId[o]]
    /\ lockedBy' = [o \in Ops |-> IF o \in S THEN c ELSE lockedBy[o]]
    /\ leaseLeft' = [o \in Ops |-> IF o \in S THEN LeaseOf[o] ELSE leaseLeft[o]]
    /\ txnStatus' = [t \in Txns |-> IF \E o \in S : TxnOf[o] = t
                                    THEN "in_progress" ELSE txnStatus[t]]
    /\ attempts' = [o \in Ops |->
         IF o \in S THEN [attempts[o] EXCEPT ![FreshAttempt(o)] = "claimed"]
                    ELSE attempts[o]]
    /\ UNCHANGED <<attemptCount, waitLeft, result>>

(* claimSelectedOpsBatch, on a selection just made from the same tables. *)
ClaimBatch(S, c) ==
    /\ S # {}
    /\ Selectable(S)
    /\ Claim(S, c)

(* claimOpById of the first unblocked candidate when it is oversize: the
   ackDead follows in the same handler, unless the daemon stops in between. *)
ClaimOversize(o, c) ==
    /\ o \in Oversize
    /\ Unblocked(o)
    /\ Claim({o}, c)

-----------------------------------------------------------------------------
(* Acks.  All three run the same compare-and-set before they change a row. *)

Holds(o, a, c) == InFlight(o) /\ attemptId[o] = a /\ lockedBy[o] = c

(* Slip: compares the lock and not the attempt. *)
AckReplyByHolder(o, a, c, done) ==
    IF lockedBy[o] = c /\ opStatus[o] \in done THEN "duplicate"
    ELSE IF InFlight(o) /\ lockedBy[o] = c THEN "applied" ELSE "stale_ack"

(* Slip: the UPDATE forgets AND status='in_flight'. *)
AckReplyAnyStatus(o, a, c, done) ==
    IF attemptId[o] # a THEN "invalid_attempt"
    ELSE IF lockedBy[o] # c THEN "stale_ack"
    ELSE IF opStatus[o] \in done THEN "duplicate" ELSE "applied"

(* The AckResult of an ack for attempt a on connection c, when a settled op
   counts as acknowledged already in one of the states "done". *)
AckReply(o, a, c, done) ==
    IF attemptId[o] # a THEN "invalid_attempt"
    ELSE IF lockedBy[o] = c /\ opStatus[o] \in done THEN "duplicate"
    ELSE IF Holds(o, a, c) THEN "applied" ELSE "stale_ack"

(* Close attempt a of o: the op leaves the in_flight state. *)
Close(o, a, status, row, res) ==
    /\ opStatus' = [opStatus EXCEPT ![o] = status]
    /\ leaseLeft' = [leaseLeft EXCEPT ![o] = NoLease]
    /\ attempts' = [attempts EXCEPT ![o][a] = row]
    /\ result' = [result EXCEPT ![o] = res]
    /\ UNCHANGED <<attemptId, lockedBy>>

(* Slip: "no op left to do" instead of "no op that has not succeeded". *)
OthersFinished(o) ==
    \A p \in OpsOf(TxnOf[o]) \ {o} : opStatus[p] \in {"succeeded", "dead"}

OthersSucceeded(o) ==
    \A p \in OpsOf(TxnOf[o]) \ {o} : opStatus[p] = "succeeded"

(* ackSuccess: the op succeeds, and its transaction if it was the last. *)
AckSuccess(o, a, c) ==
    /\ AckReply(o, a, c, {"succeeded"}) = "applied"
    /\ Close(o, a, "succeeded", "succeeded", "value")
    /\ txnStatus' = IF OthersSucceeded(o)
                    THEN [txnStatus EXCEPT ![TxnOf[o]] = "succeeded"]
                    ELSE txnStatus
    /\ UNCHANGED <<attemptCount, waitLeft>>

(* Slip: one more retry than allowed. *)
ExhaustedLate(o) == attemptCount[o] >= MaxAttempts

(* The retry being counted is the last one allowed. *)
Exhausted(o) == attemptCount[o] + 1 >= MaxAttempts

(* ackRetry: one more counted attempt, then a backoff or the end. *)
AckRetry(o, a, c, delay) ==
    /\ AckReply(o, a, c, {"pending", "dead"}) = "applied"
    /\ attemptCount' = [attemptCount EXCEPT ![o] = @ + 1]
    /\ IF Exhausted(o)
       THEN /\ Close(o, a, "dead", "dead", "error")
            /\ txnStatus' = [txnStatus EXCEPT ![TxnOf[o]] = "failed"]
            /\ UNCHANGED waitLeft
       ELSE /\ Close(o, a, "pending", "retry", "error")
            /\ waitLeft' = [waitLeft EXCEPT ![o] = delay]
            /\ UNCHANGED txnStatus

(* ackDead: given up at once, whatever the attempts left. *)
AckDead(o, a, c) ==
    /\ AckReply(o, a, c, {"dead"}) = "applied"
    /\ Close(o, a, "dead", "dead", "error")
    /\ txnStatus' = [txnStatus EXCEPT ![TxnOf[o]] = "failed"]
    /\ UNCHANGED <<attemptCount, waitLeft>>

-----------------------------------------------------------------------------
(* Leases *)

(* extendLease asks for the attempt and the lock, not for a live lease. *)
ExtendLease(o, a, c, ms) ==
    /\ Holds(o, a, c)
    /\ leaseLeft' = [leaseLeft EXCEPT ![o] = IF @ > ms THEN @ ELSE ms]
    /\ attempts' = [attempts EXCEPT ![o][a] = "lease_extended"]
    /\ UNCHANGED <<txnStatus, opStatus, attemptId, attemptCount, lockedBy,
                   waitLeft, result>>

(* recoverExpiredLeases: attempt_id and locked_by stay, no retry is counted. *)
RecoverExpiredLeases ==
    LET E == {o \in Ops : Expired(o)} IN
    /\ E # {}
    /\ opStatus' = [o \in Ops |-> IF o \in E THEN "pending" ELSE opStatus[o]]
    /\ leaseLeft' = [o \in Ops |-> IF o \in E THEN NoLease ELSE leaseLeft[o]]
    /\ waitLeft' = [o \in Ops |-> IF o \in E THEN 0 ELSE waitLeft[o]]
    /\ attempts' = [o \in Ops |->
         IF o \in E THEN [attempts[o] EXCEPT ![attemptId[o]] = "lease_expired"]
                    ELSE attempts[o]]
    /\ UNCHANGED <<txnStatus, attemptId, attemptCount, lockedBy, result>>

-----------------------------------------------------------------------------
HandedOut(o) == 1 .. attemptId[o]

Dispatch ==
    \E c \in Conns :
      \/ \E S \in SUBSET Ops : ClaimBatch(S, c)
      \/ \E o \in Ops : ClaimOversize(o, c)

(* Workers only ack what they were sent; an oversize op is never sent, and
   is acked dead by the daemon itself. *)
WorkerAck(o) ==
    \E a \in HandedOut(o), c \in Conns :
      \/ AckDead(o, a, c)
      \/ o \notin Oversize /\ AckSuccess(o, a, c)
      \/ o \notin Oversize /\ \E d \in RetryDelays : AckRetry(o, a, c, d)

WorkerExtend(o) ==
    /\ o \notin Oversize
    /\ \E a \in HandedOut(o), c \in Conns, ms \in Extensions :
         ExtendLease(o, a, c, ms)

Next ==
    \/ Tick
    \/ \E t \in Txns : EnqueueTxn(t)
    \/ Dispatch
    \/ \E o \in Ops : WorkerAck(o) \/ WorkerExtend(o)
    \/ RecoverExpiredLeases

Spec == Init /\ [][Next]_vars

-----------------------------------------------------------------------------
(* Properties *)

(* Every column holds a value of its domain. *)
TypeOK ==
    /\ txnStatus \in [Txns -> TxnStatus]
    /\ opStatus \in [Ops -> OpStatus]
    /\ attemptId \in [Ops -> 0 .. MaxClaims]
    /\ attemptCount \in [Ops -> 0 .. MaxAttempts]
    /\ lockedBy \in [Ops -> Conns \cup {NoConn}]
    /\ waitLeft \in [Ops -> Nat]
    /\ leaseLeft \in [Ops -> Nat \cup {NoLease}]
    /\ attempts \in [Ops -> [1 .. MaxClaims ->
                           {"none"} \cup OpenAttempt \cup ClosedAttempt]]
    /\ result \in [Ops -> {"none", "value", "error"}]

(* No op is stuck in flight: recoverExpiredLeases skips a row without a lease
   or without an attempt, and no ack could match a row without a holder. *)
Recoverable ==
    \A o \in Ops : IF InFlight(o)
                   THEN leaseLeft[o] # NoLease /\ lockedBy[o] \in Conns /\ attemptId[o] > 0
                   ELSE leaseLeft[o] = NoLease

(* In a serial transaction an op that has left "pending", or has ever been
   claimed, has only succeeded predecessors, whatever leases lapse and
   whatever acks arrive: at most one op of it is in flight. *)
SerialOrder ==
    \A o \in Ops : TxnOf[o] \in Serial /\ attemptId[o] > 0 =>
        \A p \in Predecessors(o) : opStatus[p] = "succeeded"

(* The status of a transaction agrees with its ops in every state, although
   acks, claims and recoveries of its ops interleave (queue-schema.md:219). *)
TxnVerdict ==
    \A t \in Txns :
      /\ txnStatus[t] = "succeeded" <=>
           txnStatus[t] # "absent" /\ \A o \in OpsOf(t) : opStatus[o] = "succeeded"
      /\ txnStatus[t] = "failed" <=> \E o \in OpsOf(t) : opStatus[o] = "dead"

(* What the row of the current attempt may say of an op. *)
RowsFor(status) ==
    IF status = "pending" THEN {"retry", "lease_expired"}
    ELSE IF status = "in_flight" THEN OpenAttempt ELSE {status}

AuditRow(o, a) ==
    /\ a < attemptId[o] => attempts[o][a] \in {"retry", "lease_expired"}
    /\ a = attemptId[o] => attempts[o][a] \in RowsFor(opStatus[o])
    /\ a > attemptId[o] => attempts[o][a] = "none"

(* The audit table tells the story of each op: attempts before the current
   one ended in a retry or a lapse, the row of the current one matches the
   op's status, and there is a success result exactly for a succeeded op. *)
AttemptAudit ==
    \A o \in Ops :
      /\ \A a \in 1 .. MaxClaims : AuditRow(o, a)
      /\ opStatus[o] # "pending" => attemptId[o] > 0
      /\ result[o] = "value" <=> opStatus[o] = "succeeded"

Retries(o) == {a \in 1 .. MaxClaims : attempts[o][a] = "retry"}

(* attempt_count counts the retries asked for and nothing else: a lapsed
   lease costs no attempt, a late or repeated ack is not counted twice, and
   an op whose budget is used up is dead. *)
RetryBudget ==
    \A o \in Ops :
      \/ attemptCount[o] = Cardinality(Retries(o)) /\ attemptCount[o] < MaxAttempts
      \/ /\ opStatus[o] = "dead"
         /\ attemptCount[o] = MaxAttempts
         /\ Cardinality(Retries(o)) = MaxAttempts - 1

(* A finished attempt is history: no later ack, extension or recovery, from
   whichever worker, rewrites its row. *)
HistoryIsFinal ==
    [][\A o \in Ops, a \in 1 .. MaxClaims :
         attempts[o][a] \in ClosedAttempt => attempts'[o][a] = attempts[o][a]]_vars

(* An op waits for its transaction before anything happens to it. *)
AbsentUntouched ==
    \A o \in Ops : txnStatus[TxnOf[o]] = "absent" =>
        opStatus[o] = "pending" /\ attemptId[o] = 0

(* Claims never run out: an open op has an attempt left, and claims for all
   the retries it may still ask for. *)
ClaimBudget ==
    \A o \in Ops :
      /\ opStatus[o] \in {"pending", "in_flight"} => attemptCount[o] < MaxAttempts
      /\ opStatus[o] = "pending" \/ Expired(o) => MayLapse(o)
      /\ InFlight(o) =>
           attemptId[o] + (MaxAttempts - attemptCount[o]) <= MaxClaims + 1

(* The inductive invariant of QueueStoreProofs. *)
IInv == TypeOK /\ Recoverable /\ SerialOrder /\ TxnVerdict /\ AttemptAudit
        /\ AbsentUntouched /\ ClaimBudget

(* The abstract view: what has been settled, without attempts and leases. *)
Outcome == [o \in Ops |-> IF opStatus[o] \in {"succeeded", "dead"}
                          THEN opStatus[o] ELSE "open"]
Verdict == [t \in Txns |-> IF txnStatus[t] \in {"ready", "in_progress"}
                           THEN "open" ELSE txnStatus[t]]

Ledger == INSTANCE WriteLedger WITH outcome <- Outcome, verdict <- Verdict

(* Ops and transactions settle once, in order, and together. *)
ImplementsLedger == Ledger!LedgerSpec

(* queue-schema.md:264: conflicting ops are not dispatched in parallel, within
   a batch or across batches; so no two of them ever hold live leases. *)
ConflictsNotInParallel ==
    \A o, p \in LiveInFlight : o # p => ~Conflicting(o, p)
=============================================================================
