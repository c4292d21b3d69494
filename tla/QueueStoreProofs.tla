-------------------------- MODULE QueueStoreProofs --------------------------
(***************************************************************************)
(* Proofs about QueueStore, for every set of ops, transactions and         *)
(* connections and every choice of leases, delays and limits.              *)
(***************************************************************************)
EXTENDS QueueStore, FiniteSetTheorems, TLAPS

(* A step of the store changes rows in one of six ways; the guards that the
   proofs need are weaker than those of the actions. *)
ClaimStep ==
    \E S \in SUBSET Ops, c \in Conns : (\A o \in S : Eligible(o)) /\ Claim(S, c)

CloseStep(o) ==
    /\ InFlight(o)
    /\ \/ /\ Close(o, attemptId[o], "succeeded", "succeeded", "value")
          /\ txnStatus' = IF OthersSucceeded(o)
                          THEN [txnStatus EXCEPT ![TxnOf[o]] = "succeeded"]
                          ELSE txnStatus
          /\ UNCHANGED <<attemptCount, waitLeft>>
       \/ /\ Close(o, attemptId[o], "dead", "dead", "error")
          /\ txnStatus' = [txnStatus EXCEPT ![TxnOf[o]] = "failed"]
          /\ attemptCount' \in {attemptCount,
                                [attemptCount EXCEPT ![o] = attemptCount[o] + 1]}
          /\ attemptCount' = attemptCount \/ Exhausted(o)
          /\ UNCHANGED waitLeft

RetryStep(o) ==
    /\ InFlight(o)
    /\ attemptCount[o] + 1 < MaxAttempts
    /\ Close(o, attemptId[o], "pending", "retry", "error")
    /\ attemptCount' = [attemptCount EXCEPT ![o] = attemptCount[o] + 1]
    /\ \E d \in RetryDelays : waitLeft' = [waitLeft EXCEPT ![o] = d]
    /\ UNCHANGED txnStatus

ExtendStep(o) ==
    \E c \in Conns, ms \in Extensions : ExtendLease(o, attemptId[o], c, ms)

LEMMA ConstantTypes ==
    /\ MaxAttempts \in Nat /\ MaxAttempts > 0 /\ MaxLapses \in Nat
    /\ MaxClaims \in Nat /\ MaxClaims = MaxAttempts + MaxLapses
    /\ \A o \in Ops : TxnOf[o] \in Txns /\ OpSeq[o] \in Nat
BY Limits, TxnShape DEF MaxClaims

(* An ack is applied only to the attempt in flight. *)
LEMMA AppliedHolds ==
    ASSUME NEW o, NEW a, NEW c, NEW done,
           AckReply(o, a, c, done) = "applied"
    PROVE  InFlight(o) /\ attemptId[o] = a /\ lockedBy[o] = c
BY DEF AckReply, Holds

(* The case split that every invariance proof starts from. *)
LEMMA StepCases ==
    ASSUME TypeOK, Next
    PROVE  \/ Tick
           \/ \E t \in Txns : EnqueueTxn(t)
           \/ ClaimStep
           \/ \E o \in Ops : CloseStep(o) \/ RetryStep(o) \/ ExtendStep(o)
           \/ RecoverExpiredLeases
<1>1. ASSUME NEW S \in SUBSET Ops, NEW c \in Conns, ClaimBatch(S, c)
      PROVE  ClaimStep
  BY <1>1 DEF ClaimBatch, Selectable, Unblocked, ClaimStep
<1>2. ASSUME NEW o \in Ops, NEW c \in Conns, ClaimOversize(o, c)
      PROVE  ClaimStep
  <2>1. {o} \in SUBSET Ops /\ (\A p \in {o} : Eligible(p)) /\ Claim({o}, c)
    BY <1>2 DEF ClaimOversize, Unblocked
  <2> QED BY <2>1 DEF ClaimStep
<1>3. Dispatch => ClaimStep
  BY <1>1, <1>2 DEF Dispatch
<1>4. ASSUME NEW o \in Ops, NEW a, NEW c \in Conns, AckSuccess(o, a, c)
      PROVE  CloseStep(o)
  BY <1>4, AppliedHolds DEF AckSuccess, CloseStep
<1>5. ASSUME NEW o \in Ops, NEW a, NEW c \in Conns, AckDead(o, a, c)
      PROVE  CloseStep(o)
  BY <1>5, AppliedHolds DEF AckDead, CloseStep
<1>6. ASSUME NEW o \in Ops, NEW a, NEW c \in Conns, NEW d \in RetryDelays,
             AckRetry(o, a, c, d)
      PROVE  CloseStep(o) \/ RetryStep(o)
  <2>1. InFlight(o) /\ attemptId[o] = a
    BY <1>6, AppliedHolds DEF AckRetry
  <2>2. attemptCount' = [attemptCount EXCEPT ![o] = attemptCount[o] + 1]
    BY <1>6 DEF AckRetry
  <2>3. CASE Exhausted(o)
    BY <1>6, <2>1, <2>2, <2>3 DEF AckRetry, CloseStep
  <2>4. CASE ~Exhausted(o)
    <3>1. attemptCount[o] + 1 < MaxAttempts
      BY <2>4, ConstantTypes DEF Exhausted, TypeOK
    <3> QED BY <1>6, <2>1, <2>2, <2>4, <3>1 DEF AckRetry, RetryStep
  <2> QED BY <2>3, <2>4
<1>7. ASSUME NEW o \in Ops, WorkerAck(o)
      PROVE  CloseStep(o) \/ RetryStep(o)
  BY <1>4, <1>5, <1>6, <1>7 DEF WorkerAck
<1>8. ASSUME NEW o \in Ops, WorkerExtend(o)
      PROVE  ExtendStep(o)
  BY <1>8 DEF WorkerExtend, ExtendLease, Holds, ExtendStep
<1> QED BY <1>3, <1>7, <1>8 DEF Next

-----------------------------------------------------------------------------
(* Type correctness is inductive together with ClaimBudget and Recoverable. *)

LEMMA InitIInv == Init => IInv
<1> SUFFICES ASSUME Init PROVE IInv
  OBVIOUS
<1>1. TypeOK
  BY ConstantTypes, Durations
     DEF Init, TypeOK, TxnStatus, OpStatus, OpenAttempt, ClosedAttempt
<1>2. Recoverable /\ SerialOrder /\ AbsentUntouched
  BY ConstantTypes
     DEF Init, Recoverable, SerialOrder, AbsentUntouched, InFlight, NoLease, Predecessors, OpsOf
<1>3. TxnVerdict
  BY TxnShape DEF Init, TxnVerdict, OpsOf
<1>4. AttemptAudit
  BY ConstantTypes DEF Init, AttemptAudit, AuditRow
<1>5. ClaimBudget
  BY ConstantTypes DEF Init, ClaimBudget, Expired, InFlight, MayLapse
<1> QED BY <1>1, <1>2, <1>3, <1>4, <1>5 DEF IInv

LEMMA TypeTick == ASSUME IInv, Tick PROVE TypeOK'
<1>1. leaseLeft' \in [Ops -> Nat \cup {NoLease}]
  BY DEF IInv, TypeOK, Tick, Sooner, NoLease
<1>2. waitLeft' \in [Ops -> Nat]
  BY DEF IInv, TypeOK, Tick, Sooner
<1> QED BY <1>1, <1>2 DEF IInv, TypeOK, Tick

LEMMA TypeClaim ==
    ASSUME IInv, NEW S \in SUBSET Ops, NEW c \in Conns,
           \A o \in S : Eligible(o), Claim(S, c)
    PROVE  TypeOK'
<1>1. \A o \in S : FreshAttempt(o) \in 1 .. MaxClaims
  BY ConstantTypes
     DEF IInv, TypeOK, ClaimBudget, MayLapse, Eligible, FreshAttempt
<1>2. attemptId' \in [Ops -> 0 .. MaxClaims]
  BY <1>1 DEF IInv, TypeOK, Claim
<1>3. attempts' \in [Ops -> [1 .. MaxClaims ->
                       {"none"} \cup OpenAttempt \cup ClosedAttempt]]
  <2>1. \A o \in S : [attempts[o] EXCEPT ![FreshAttempt(o)] = "claimed"]
            \in [1 .. MaxClaims -> {"none"} \cup OpenAttempt \cup ClosedAttempt]
    BY <1>1 DEF IInv, TypeOK, OpenAttempt
  <2> QED BY <2>1 DEF IInv, TypeOK, Claim
<1>4. leaseLeft' \in [Ops -> Nat \cup {NoLease}] /\ lockedBy' \in [Ops -> Conns \cup {NoConn}]
  BY Durations DEF IInv, TypeOK, Claim
<1>5. opStatus' \in [Ops -> OpStatus] /\ txnStatus' \in [Txns -> TxnStatus]
  BY DEF IInv, TypeOK, Claim, OpStatus, TxnStatus
<1> QED BY <1>2, <1>3, <1>4, <1>5 DEF IInv, TypeOK, Claim

(* The row that an ack of op o changes exists. *)
LEMMA CurrentAttempt ==
    ASSUME IInv, NEW o \in Ops, InFlight(o)
    PROVE  attemptId[o] \in 1 .. MaxClaims
BY ConstantTypes DEF IInv, TypeOK, Recoverable

LEMMA TypeRow ==
    ASSUME TypeOK, NEW o \in Ops, attemptId[o] \in 1 .. MaxClaims,
           NEW row \in OpenAttempt \cup ClosedAttempt
    PROVE  [attempts EXCEPT ![o][attemptId[o]] = row]
             \in [Ops -> [1 .. MaxClaims -> {"none"} \cup OpenAttempt \cup ClosedAttempt]]
BY DEF TypeOK

(* What a settling ack does to the rows, whichever way it settles the op. *)
Settles(o, st) ==
    /\ InFlight(o)
    /\ opStatus' = [opStatus EXCEPT ![o] = st]
    /\ leaseLeft' = [leaseLeft EXCEPT ![o] = NoLease]
    /\ attempts' = [attempts EXCEPT ![o][attemptId[o]] = st]
    /\ result' = [result EXCEPT ![o] = IF st = "succeeded" THEN "value" ELSE "error"]
    /\ UNCHANGED <<attemptId, lockedBy, waitLeft>>
    /\ txnStatus' = IF st = "dead" THEN [txnStatus EXCEPT ![TxnOf[o]] = "failed"]
                    ELSE IF OthersSucceeded(o)
                         THEN [txnStatus EXCEPT ![TxnOf[o]] = "succeeded"]
                         ELSE txnStatus
    /\ \/ attemptCount' = attemptCount
       \/ attemptCount' = [attemptCount EXCEPT ![o] = attemptCount[o] + 1]

LEMMA CloseSettles ==
    ASSUME NEW o \in Ops, CloseStep(o)
    PROVE  \E st \in {"succeeded", "dead"} : Settles(o, st)
<1>1. CASE /\ Close(o, attemptId[o], "succeeded", "succeeded", "value")
           /\ txnStatus' = IF OthersSucceeded(o)
                           THEN [txnStatus EXCEPT ![TxnOf[o]] = "succeeded"]
                           ELSE txnStatus
           /\ UNCHANGED <<attemptCount, waitLeft>>
  <2>1. Settles(o, "succeeded")
    BY <1>1 DEF CloseStep, Close, Settles
  <2> QED BY <2>1
<1>2. CASE /\ Close(o, attemptId[o], "dead", "dead", "error")
           /\ txnStatus' = [txnStatus EXCEPT ![TxnOf[o]] = "failed"]
           /\ attemptCount' \in {attemptCount,
                                 [attemptCount EXCEPT ![o] = attemptCount[o] + 1]}
           /\ UNCHANGED waitLeft
  <2>1. Settles(o, "dead")
    BY <1>2 DEF CloseStep, Close, Settles
  <2> QED BY <2>1
<1> QED BY <1>1, <1>2 DEF CloseStep

LEMMA TypeClose ==
    ASSUME IInv, NEW o \in Ops, CloseStep(o)
    PROVE  TypeOK'
<1>1. PICK st \in {"succeeded", "dead"} : Settles(o, st)
  BY CloseSettles
<1>2. attempts' \in [Ops -> [1 .. MaxClaims ->
                       {"none"} \cup OpenAttempt \cup ClosedAttempt]]
  BY <1>1, CurrentAttempt, TypeRow DEF IInv, ClosedAttempt, Settles
<1>3. /\ opStatus' \in [Ops -> OpStatus]
      /\ leaseLeft' \in [Ops -> Nat \cup {NoLease}]
      /\ result' \in [Ops -> {"none", "value", "error"}]
      /\ txnStatus' \in [Txns -> TxnStatus]
  BY <1>1 DEF IInv, TypeOK, OpStatus, TxnStatus, Settles
<1>4. attemptCount[o] + 1 \in 0 .. MaxAttempts
  BY <1>1, ConstantTypes DEF IInv, TypeOK, ClaimBudget, InFlight, Settles
<1>5. attemptCount' \in [Ops -> 0 .. MaxAttempts]
  BY <1>1, <1>4 DEF IInv, TypeOK, Settles
<1> QED BY <1>1, <1>2, <1>3, <1>5 DEF IInv, TypeOK, Settles

LEMMA TypeRetry ==
    ASSUME IInv, NEW o \in Ops, RetryStep(o)
    PROVE  TypeOK'
<1>1. attempts' \in [Ops -> [1 .. MaxClaims ->
                       {"none"} \cup OpenAttempt \cup ClosedAttempt]]
  BY CurrentAttempt, TypeRow DEF IInv, RetryStep, Close, ClosedAttempt
<1>2. /\ opStatus' \in [Ops -> OpStatus]
      /\ leaseLeft' \in [Ops -> Nat \cup {NoLease}]
      /\ result' \in [Ops -> {"none", "value", "error"}]
      /\ UNCHANGED <<attemptId, lockedBy, txnStatus>>
  BY DEF IInv, TypeOK, RetryStep, Close, OpStatus
<1>3. attemptCount' \in [Ops -> 0 .. MaxAttempts]
  BY ConstantTypes DEF IInv, TypeOK, RetryStep
<1>4. waitLeft' \in [Ops -> Nat]
  BY Durations DEF IInv, TypeOK, RetryStep
<1> QED BY <1>1, <1>2, <1>3, <1>4 DEF IInv, TypeOK

LEMMA TypeExtend ==
    ASSUME IInv, NEW o \in Ops, ExtendStep(o)
    PROVE  TypeOK'
<1>1. InFlight(o)
  BY DEF ExtendStep, ExtendLease, Holds
<1>2. attempts' \in [Ops -> [1 .. MaxClaims ->
                       {"none"} \cup OpenAttempt \cup ClosedAttempt]]
  BY <1>1, CurrentAttempt, TypeRow DEF IInv, ExtendStep, ExtendLease, OpenAttempt
<1>3. leaseLeft' \in [Ops -> Nat \cup {NoLease}]
  BY Durations DEF IInv, TypeOK, ExtendStep, ExtendLease
<1> QED BY <1>2, <1>3 DEF IInv, TypeOK, ExtendStep, ExtendLease

LEMMA TypeRecover == ASSUME IInv, RecoverExpiredLeases PROVE TypeOK'
<1>1. \A o \in Ops : Expired(o) =>
        [attempts[o] EXCEPT ![attemptId[o]] = "lease_expired"]
          \in [1 .. MaxClaims -> {"none"} \cup OpenAttempt \cup ClosedAttempt]
  BY DEF IInv, TypeOK, ClosedAttempt
<1>2. attempts' \in [Ops -> [1 .. MaxClaims ->
                       {"none"} \cup OpenAttempt \cup ClosedAttempt]]
  BY <1>1 DEF IInv, TypeOK, RecoverExpiredLeases
<1>3. /\ opStatus' \in [Ops -> OpStatus]
      /\ leaseLeft' \in [Ops -> Nat \cup {NoLease}]
      /\ waitLeft' \in [Ops -> Nat]
  BY DEF IInv, TypeOK, RecoverExpiredLeases, OpStatus
<1> QED BY <1>2, <1>3 DEF IInv, TypeOK, RecoverExpiredLeases

LEMMA TypeStep == ASSUME IInv, Next PROVE TypeOK'
<1>1. CASE Tick
  BY <1>1, TypeTick
<1>2. CASE \E t \in Txns : EnqueueTxn(t)
  BY <1>2 DEF IInv, TypeOK, EnqueueTxn, TxnStatus
<1>3. CASE ClaimStep
  BY <1>3, TypeClaim DEF ClaimStep
<1>4. CASE \E o \in Ops : CloseStep(o) \/ RetryStep(o) \/ ExtendStep(o)
  BY <1>4, TypeClose, TypeRetry, TypeExtend
<1>5. CASE RecoverExpiredLeases
  BY <1>5, TypeRecover
<1> QED BY <1>1, <1>2, <1>3, <1>4, <1>5, StepCases DEF IInv

-----------------------------------------------------------------------------
(* The parts of the invariant that concern one op at a time. *)

LEMMA RecoverableStep == ASSUME IInv, Next PROVE Recoverable'
<1> USE DEF Recoverable, InFlight
<1>1. CASE Tick
  BY <1>1 DEF IInv, TypeOK, Tick, Sooner, NoLease
<1>2. CASE \E t \in Txns : EnqueueTxn(t)
  BY <1>2 DEF IInv, EnqueueTxn
<1>3. ASSUME NEW S \in SUBSET Ops, NEW c \in Conns,
             \A o \in S : Eligible(o), Claim(S, c)
      PROVE  Recoverable'
  BY <1>3, Durations DEF IInv, TypeOK, Claim, FreshAttempt, NoLease
<1>4. ASSUME NEW o \in Ops, CloseStep(o) PROVE Recoverable'
  <2>1. PICK st \in {"succeeded", "dead"} : Settles(o, st)
    BY <1>4, CloseSettles
  <2> QED BY <2>1 DEF IInv, TypeOK, Settles
<1>5. ASSUME NEW o \in Ops, RetryStep(o) PROVE Recoverable'
  BY <1>5 DEF IInv, TypeOK, RetryStep, Close
<1>6. ASSUME NEW o \in Ops, ExtendStep(o) PROVE Recoverable'
  BY <1>6, Durations DEF IInv, TypeOK, ExtendStep, ExtendLease, Holds, NoLease
<1>7. CASE RecoverExpiredLeases
  BY <1>7 DEF IInv, TypeOK, RecoverExpiredLeases
<1> QED BY <1>1, <1>2, <1>3, <1>4, <1>5, <1>6, <1>7, StepCases DEF IInv, ClaimStep

LEMMA AbsentStep == ASSUME IInv, Next PROVE AbsentUntouched'
<1> USE DEF AbsentUntouched, InFlight
<1>1. CASE Tick
  BY <1>1 DEF IInv, Tick
<1>2. CASE \E t \in Txns : EnqueueTxn(t)
  BY <1>2, ConstantTypes DEF IInv, TypeOK, EnqueueTxn
<1>3. ASSUME NEW S \in SUBSET Ops, NEW c \in Conns,
             \A o \in S : Eligible(o), Claim(S, c)
      PROVE  AbsentUntouched'
  BY <1>3, ConstantTypes DEF IInv, TypeOK, Claim, Eligible
<1>4. ASSUME NEW o \in Ops, CloseStep(o) PROVE AbsentUntouched'
  <2>1. PICK st \in {"succeeded", "dead"} : Settles(o, st)
    BY <1>4, CloseSettles
  <2> QED BY <2>1, ConstantTypes DEF IInv, TypeOK, Settles
<1>5. ASSUME NEW o \in Ops, RetryStep(o) PROVE AbsentUntouched'
  BY <1>5, ConstantTypes DEF IInv, TypeOK, RetryStep, Close
<1>6. ASSUME NEW o \in Ops, ExtendStep(o) PROVE AbsentUntouched'
  BY <1>6 DEF IInv, ExtendStep, ExtendLease
<1>7. CASE RecoverExpiredLeases
  BY <1>7 DEF IInv, TypeOK, RecoverExpiredLeases, Expired
<1> QED BY <1>1, <1>2, <1>3, <1>4, <1>5, <1>6, <1>7, StepCases DEF IInv, ClaimStep

LEMMA BudgetStep == ASSUME IInv, Next PROVE ClaimBudget'
<1> USE ConstantTypes DEF ClaimBudget, InFlight, Expired, MayLapse
<1>1. CASE Tick
  BY <1>1 DEF IInv, TypeOK, Tick, Sooner, NoLease, Recoverable
<1>2. CASE \E t \in Txns : EnqueueTxn(t)
  BY <1>2 DEF IInv, EnqueueTxn
<1>3. ASSUME NEW S \in SUBSET Ops, NEW c \in Conns,
             \A o \in S : Eligible(o), Claim(S, c)
      PROVE  ClaimBudget'
  BY <1>3, Durations DEF IInv, TypeOK, Claim, Eligible, FreshAttempt
<1>4. ASSUME NEW o \in Ops, CloseStep(o) PROVE ClaimBudget'
  <2>1. PICK st \in {"succeeded", "dead"} : Settles(o, st)
    BY <1>4, CloseSettles
  <2> QED BY <2>1 DEF IInv, TypeOK, Settles
<1>5. ASSUME NEW o \in Ops, RetryStep(o) PROVE ClaimBudget'
  BY <1>5 DEF IInv, TypeOK, RetryStep, Close
<1>6. ASSUME NEW o \in Ops, ExtendStep(o) PROVE ClaimBudget'
  BY <1>6, Durations DEF IInv, TypeOK, ExtendStep, ExtendLease
<1>7. CASE RecoverExpiredLeases
  BY <1>7 DEF IInv, TypeOK, RecoverExpiredLeases
<1> QED BY <1>1, <1>2, <1>3, <1>4, <1>5, <1>6, <1>7, StepCases DEF IInv, ClaimStep

-----------------------------------------------------------------------------
(* Order within a serial transaction: a success is never undone, and only a
   claim, which looks at the predecessors, makes attemptId positive. *)

LEMMA SuccessStays ==
    ASSUME IInv, [Next]_vars, NEW p \in Ops, opStatus[p] = "succeeded"
    PROVE  opStatus'[p] = "succeeded" /\ attemptId'[p] = attemptId[p]
<1> USE DEF InFlight
<1> DEFINE Stays == opStatus'[p] = "succeeded" /\ attemptId'[p] = attemptId[p]
<1>1. CASE Tick \/ UNCHANGED vars
  BY <1>1 DEF Tick, vars
<1>2. CASE \E t \in Txns : EnqueueTxn(t)
  BY <1>2 DEF EnqueueTxn
<1>3. ASSUME NEW S \in SUBSET Ops, NEW c \in Conns,
             \A o \in S : Eligible(o), Claim(S, c)
      PROVE  Stays
  BY <1>3 DEF Claim, Eligible
<1>4. ASSUME NEW o \in Ops, CloseStep(o) PROVE Stays
  <2>1. PICK st \in {"succeeded", "dead"} : Settles(o, st)
    BY <1>4, CloseSettles
  <2>2. attemptId' = attemptId
    BY <1>4 DEF CloseStep, Close
  <2> QED BY <2>1, <2>2 DEF IInv, TypeOK, Settles
<1>5. ASSUME NEW o \in Ops, RetryStep(o) PROVE Stays
  BY <1>5 DEF IInv, TypeOK, RetryStep, Close
<1>6. ASSUME NEW o \in Ops, ExtendStep(o) PROVE Stays
  BY <1>6 DEF ExtendStep, ExtendLease
<1>7. CASE RecoverExpiredLeases
  BY <1>7 DEF IInv, TypeOK, RecoverExpiredLeases, Expired
<1> QED BY <1>1, <1>2, <1>3, <1>4, <1>5, <1>6, <1>7, StepCases DEF IInv, ClaimStep

LEMMA FirstClaim ==
    ASSUME IInv, Next, NEW o \in Ops, attemptId[o] = 0, attemptId'[o] > 0
    PROVE  Eligible(o)
<1>1. CASE ClaimStep
  BY <1>1 DEF ClaimStep, Claim
<1>2. CASE attemptId' = attemptId
  BY <1>2
<1>3. \A p \in Ops : CloseStep(p) \/ RetryStep(p) \/ ExtendStep(p) => attemptId' = attemptId
  BY DEF CloseStep, RetryStep, ExtendStep, ExtendLease, Close
<1>4. Tick \/ RecoverExpiredLeases \/ (\E t \in Txns : EnqueueTxn(t)) => attemptId' = attemptId
  BY DEF Tick, RecoverExpiredLeases, EnqueueTxn
<1> QED BY <1>1, <1>2, <1>3, <1>4, StepCases DEF IInv

LEMMA SerialStep == ASSUME IInv, Next PROVE SerialOrder'
<1> SUFFICES ASSUME NEW o \in Ops, TxnOf[o] \in Serial, attemptId'[o] > 0,
                    NEW p \in Predecessors(o)
             PROVE  opStatus'[p] = "succeeded"
  BY DEF SerialOrder, Predecessors, OpsOf
<1>1. p \in Ops
  BY DEF Predecessors, OpsOf
<1>2. opStatus[p] = "succeeded"
  <2>1. CASE attemptId[o] > 0
    BY <2>1 DEF IInv, SerialOrder
  <2>2. CASE attemptId[o] = 0
    BY <2>2, FirstClaim DEF Eligible
  <2> QED BY <2>1, <2>2 DEF IInv, TypeOK
<1> QED BY <1>1, <1>2, SuccessStays

-----------------------------------------------------------------------------
(* The audit table. *)

(* What AttemptAudit says of one op. *)
AuditOf(o) ==
    /\ \A a \in 1 .. MaxClaims : AuditRow(o, a)
    /\ opStatus[o] # "pending" => attemptId[o] > 0
    /\ result[o] = "value" <=> opStatus[o] = "succeeded"

LEMMA AuditUntouched ==
    ASSUME NEW o \in Ops, AuditOf(o),
           opStatus'[o] = opStatus[o], attemptId'[o] = attemptId[o],
           attempts'[o] = attempts[o], result'[o] = result[o]
    PROVE  AuditOf(o)'
BY DEF AuditOf, AuditRow

(* The current attempt of an op gets a new row and the op its new status. *)
LEMMA AuditAnswered ==
    ASSUME TypeOK, NEW o \in Ops, AuditOf(o), NEW row,
           attemptId[o] \in 1 .. MaxClaims, attemptId'[o] = attemptId[o],
           attempts'[o] = [attempts[o] EXCEPT ![attemptId[o]] = row],
           row \in RowsFor(opStatus'[o]),
           result'[o] = "value" <=> opStatus'[o] = "succeeded"
    PROVE  AuditOf(o)'
<1>1. ASSUME NEW a \in 1 .. MaxClaims PROVE AuditRow(o, a)'
  <2>1. attempts'[o][a] = IF a = attemptId[o] THEN row ELSE attempts[o][a]
    BY DEF TypeOK
  <2> QED BY <2>1 DEF AuditOf, AuditRow
<1> QED BY <1>1, ConstantTypes DEF AuditOf

LEMMA AuditStep == ASSUME IInv, Next PROVE AttemptAudit'
<1> SUFFICES ASSUME NEW o \in Ops PROVE AuditOf(o)'
  BY DEF AttemptAudit, AuditOf
<1>0. AuditOf(o) /\ TypeOK
  BY DEF IInv, AttemptAudit, AuditOf
<1>1. CASE Tick
  BY <1>0, <1>1, AuditUntouched DEF Tick
<1>2. CASE \E t \in Txns : EnqueueTxn(t)
  BY <1>0, <1>2, AuditUntouched DEF EnqueueTxn
<1>3. ASSUME NEW S \in SUBSET Ops, NEW c \in Conns,
             \A p \in S : Eligible(p), Claim(S, c)
      PROVE  AuditOf(o)'
  <2>1. CASE o \notin S
    BY <1>0, <1>3, <2>1, AuditUntouched DEF Claim
  <2>2. CASE o \in S
    <3>1. /\ opStatus[o] = "pending" /\ opStatus'[o] = "in_flight"
          /\ attemptId'[o] = attemptId[o] + 1 /\ attemptId[o] \in Nat
          /\ attempts'[o] = [attempts[o] EXCEPT ![attemptId[o] + 1] = "claimed"]
          /\ result'[o] = result[o]
      BY <1>3, <2>2, ConstantTypes DEF Claim, Eligible, FreshAttempt, IInv, TypeOK
    <3>2. ASSUME NEW a \in 1 .. MaxClaims PROVE AuditRow(o, a)'
      <4>1. attempts'[o][a] = IF a = attemptId[o] + 1 THEN "claimed" ELSE attempts[o][a]
        BY <3>1 DEF IInv, TypeOK
      <4>2. AuditRow(o, a)
        BY <1>0 DEF AuditOf
      <4> QED BY <3>1, <4>1, <4>2, ConstantTypes DEF AuditRow, RowsFor, OpenAttempt
    <3> QED BY <1>0, <3>1, <3>2, ConstantTypes DEF AuditOf
  <2> QED BY <2>1, <2>2
<1>4. ASSUME NEW p \in Ops, CloseStep(p) PROVE AuditOf(o)'
  <2>1. PICK st \in {"succeeded", "dead"} : Settles(p, st)
    BY <1>4, CloseSettles
  <2>2. CASE o # p
    BY <1>0, <2>1, <2>2, AuditUntouched DEF Settles, TypeOK
  <2>3. CASE o = p
    <3>1. /\ attemptId[o] \in 1 .. MaxClaims
          /\ attemptId'[o] = attemptId[o]
          /\ attempts'[o] = [attempts[o] EXCEPT ![attemptId[o]] = st]
          /\ opStatus'[o] = st
          /\ result'[o] = "value" <=> st = "succeeded"
      BY <1>0, <2>1, <2>3, CurrentAttempt DEF Settles, TypeOK
    <3> QED BY <1>0, <3>1, AuditAnswered DEF RowsFor
  <2> QED BY <2>2, <2>3
<1>5. ASSUME NEW p \in Ops, RetryStep(p) PROVE AuditOf(o)'
  <2>1. CASE o # p
    BY <1>0, <1>5, <2>1, AuditUntouched DEF RetryStep, Close, TypeOK
  <2>2. CASE o = p
    <3>1. /\ attemptId[o] \in 1 .. MaxClaims
          /\ attemptId'[o] = attemptId[o]
          /\ attempts'[o] = [attempts[o] EXCEPT ![attemptId[o]] = "retry"]
          /\ opStatus'[o] = "pending"
          /\ result'[o] = "error"
      BY <1>0, <1>5, <2>2, CurrentAttempt DEF RetryStep, Close, TypeOK
    <3> QED BY <1>0, <3>1, AuditAnswered DEF RowsFor
  <2> QED BY <2>1, <2>2
<1>6. ASSUME NEW p \in Ops, ExtendStep(p) PROVE AuditOf(o)'
  <2>1. CASE o # p
    BY <1>0, <1>6, <2>1, AuditUntouched DEF ExtendStep, ExtendLease, TypeOK
  <2>2. CASE o = p
    <3>1. InFlight(o)
      BY <1>6, <2>2 DEF ExtendStep, ExtendLease, Holds
    <3>2. /\ attemptId[o] \in 1 .. MaxClaims
          /\ attemptId'[o] = attemptId[o]
          /\ attempts'[o] = [attempts[o] EXCEPT ![attemptId[o]] = "lease_extended"]
          /\ opStatus'[o] = "in_flight" /\ opStatus[o] = "in_flight"
          /\ result'[o] = result[o]
      BY <1>0, <1>6, <2>2, <3>1, CurrentAttempt
         DEF ExtendStep, ExtendLease, InFlight, TypeOK
    <3>3. result'[o] = "value" <=> opStatus'[o] = "succeeded"
      BY <1>0, <3>2 DEF AuditOf
    <3> QED BY <1>0, <3>2, <3>3, AuditAnswered DEF RowsFor, OpenAttempt
  <2> QED BY <2>1, <2>2
<1>7. CASE RecoverExpiredLeases
  <2>1. CASE ~Expired(o)
    BY <1>0, <1>7, <2>1, AuditUntouched DEF RecoverExpiredLeases
  <2>2. CASE Expired(o)
    <3>1. InFlight(o)
      BY <2>2 DEF Expired
    <3>2. /\ attemptId[o] \in 1 .. MaxClaims
          /\ attemptId'[o] = attemptId[o]
          /\ attempts'[o] = [attempts[o] EXCEPT ![attemptId[o]] = "lease_expired"]
          /\ opStatus'[o] = "pending" /\ opStatus[o] = "in_flight"
          /\ result'[o] = result[o]
      BY <1>7, <2>2, <3>1, CurrentAttempt DEF RecoverExpiredLeases, InFlight
    <3>3. result'[o] = "value" <=> opStatus'[o] = "succeeded"
      BY <1>0, <3>2 DEF AuditOf
    <3> QED BY <1>0, <3>2, <3>3, AuditAnswered DEF RowsFor
  <2> QED BY <2>1, <2>2
<1> QED BY <1>1, <1>2, <1>3, <1>4, <1>5, <1>6, <1>7, StepCases DEF IInv, ClaimStep

-----------------------------------------------------------------------------
(* The retries are counted. *)

LEMMA RetriesAreFinite ==
    ASSUME NEW o \in Ops
    PROVE  IsFiniteSet(Retries(o)) /\ Cardinality(Retries(o)) \in Nat
<1>1. IsFiniteSet(1 .. MaxClaims) /\ Retries(o) \in SUBSET (1 .. MaxClaims)
  BY FS_Interval, ConstantTypes DEF Retries
<1> QED BY <1>1, FS_Subset, FS_CardinalityType

(* What RetryBudget says of one op. *)
BudgetOf(o) ==
    \/ attemptCount[o] = Cardinality(Retries(o)) /\ attemptCount[o] < MaxAttempts
    \/ /\ opStatus[o] = "dead"
       /\ attemptCount[o] = MaxAttempts
       /\ Cardinality(Retries(o)) = MaxAttempts - 1

(* A row that was not a retry becomes one, or another that is none. *)
LEMMA RetryRow ==
    ASSUME TypeOK, NEW o \in Ops, NEW a \in 1 .. MaxClaims, NEW row,
           attempts[o][a] # "retry",
           attempts'[o] = [attempts[o] EXCEPT ![a] = row]
    PROVE  Cardinality(Retries(o)')
             = Cardinality(Retries(o)) + (IF row = "retry" THEN 1 ELSE 0)
<1>1. \A b \in 1 .. MaxClaims : attempts'[o][b] = IF b = a THEN row ELSE attempts[o][b]
  BY DEF TypeOK
<1>2. CASE row = "retry"
  <2>1. Retries(o)' = Retries(o) \cup {a} /\ a \notin Retries(o)
    BY <1>1, <1>2 DEF Retries
  <2> QED BY <1>2, <2>1, RetriesAreFinite, FS_AddElement
<1>3. CASE row # "retry"
  <2>1. Retries(o)' = Retries(o)
    BY <1>1, <1>3 DEF Retries
  <2> QED BY <1>3, <2>1, RetriesAreFinite
<1> QED BY <1>2, <1>3

LEMMA BudgetUntouched ==
    ASSUME NEW o \in Ops, BudgetOf(o), opStatus'[o] = opStatus[o],
           attempts'[o] = attempts[o], attemptCount'[o] = attemptCount[o]
    PROVE  BudgetOf(o)'
<1>1. Retries(o)' = Retries(o)
  BY DEF Retries
<1> QED BY <1>1 DEF BudgetOf

(* An op that is not dead gets a row that is no retry. *)
LEMMA BudgetKept ==
    ASSUME TypeOK, NEW o \in Ops, BudgetOf(o), opStatus[o] # "dead",
           NEW a \in 1 .. MaxClaims, NEW row, row # "retry",
           attempts[o][a] # "retry",
           attempts'[o] = [attempts[o] EXCEPT ![a] = row],
           attemptCount'[o] = attemptCount[o]
    PROVE  BudgetOf(o)'
<1>1. Cardinality(Retries(o)') = Cardinality(Retries(o))
  BY RetryRow, RetriesAreFinite
<1> QED BY <1>1 DEF BudgetOf

(* The row of an op in flight is open. *)
LEMMA OpenRow ==
    ASSUME IInv, NEW o \in Ops, InFlight(o)
    PROVE  attempts[o][attemptId[o]] \in OpenAttempt
BY CurrentAttempt DEF IInv, AttemptAudit, AuditRow, RowsFor, InFlight

LEMMA RetryBudgetStep == ASSUME IInv, RetryBudget, Next PROVE RetryBudget'
<1> SUFFICES ASSUME NEW o \in Ops PROVE BudgetOf(o)'
  BY DEF RetryBudget, BudgetOf
<1>0. BudgetOf(o) /\ TypeOK
  BY DEF IInv, RetryBudget, BudgetOf
<1>1. CASE Tick
  BY <1>0, <1>1, BudgetUntouched DEF Tick
<1>2. CASE \E t \in Txns : EnqueueTxn(t)
  BY <1>0, <1>2, BudgetUntouched DEF EnqueueTxn
<1>3. ASSUME NEW S \in SUBSET Ops, NEW c \in Conns,
             \A p \in S : Eligible(p), Claim(S, c)
      PROVE  BudgetOf(o)'
  <2>1. CASE o \notin S
    BY <1>0, <1>3, <2>1, BudgetUntouched DEF Claim
  <2>2. CASE o \in S
    <3>1. /\ opStatus[o] = "pending" /\ opStatus'[o] = "in_flight"
          /\ attemptId'[o] = attemptId[o] + 1
          /\ attempts'[o] = [attempts[o] EXCEPT ![attemptId[o] + 1] = "claimed"]
          /\ attemptCount'[o] = attemptCount[o]
      BY <1>3, <2>2 DEF Claim, Eligible, FreshAttempt
    <3>2. attemptId[o] + 1 \in 1 .. MaxClaims
      BY <1>0, <1>3, <3>1, ConstantTypes, <2>2
         DEF TypeOK, IInv, ClaimBudget, MayLapse
    <3>3. attempts[o][attemptId[o] + 1] = "none"
      BY <1>0, <3>2 DEF IInv, AttemptAudit, AuditRow, TypeOK
    <3> QED BY <1>0, <3>1, <3>2, <3>3, BudgetKept
  <2> QED BY <2>1, <2>2
<1>4. ASSUME NEW p \in Ops, CloseStep(p) PROVE BudgetOf(o)'
  <2>1. PICK st \in {"succeeded", "dead"} : Settles(p, st)
    BY <1>4, CloseSettles
  <2>2. CASE o # p
    BY <1>0, <2>1, <2>2, BudgetUntouched DEF Settles, TypeOK
  <2>3. CASE o = p
    <3>1. /\ InFlight(o) /\ opStatus[o] = "in_flight"
          /\ opStatus'[o] = st
          /\ attempts'[o] = [attempts[o] EXCEPT ![attemptId[o]] = st]
      BY <1>0, <2>1, <2>3 DEF Settles, TypeOK, InFlight
    <3>2. attemptId[o] \in 1 .. MaxClaims /\ attempts[o][attemptId[o]] # "retry"
      BY <3>1, CurrentAttempt, OpenRow DEF OpenAttempt
    <3>3. CASE attemptCount'[o] = attemptCount[o]
      BY <1>0, <3>1, <3>2, <3>3, BudgetKept
    <3>4. CASE attemptCount'[o] # attemptCount[o]
      <4>1. /\ Exhausted(o) /\ opStatus'[o] = "dead"
            /\ attemptCount'[o] = attemptCount[o] + 1
        BY <1>0, <1>4, <2>3, <3>4 DEF CloseStep, Close, TypeOK
      <4>2. Cardinality(Retries(o)') = Cardinality(Retries(o))
        BY <1>0, <3>1, <3>2, RetryRow, RetriesAreFinite
      <4>3. /\ attemptCount[o] = Cardinality(Retries(o))
            /\ attemptCount[o] < MaxAttempts /\ attemptCount[o] + 1 >= MaxAttempts
        BY <1>0, <3>1, <4>1 DEF BudgetOf, Exhausted
      <4>4. attemptCount[o] + 1 = MaxAttempts /\ Cardinality(Retries(o)) = MaxAttempts - 1
        BY <1>0, <4>3, ConstantTypes DEF TypeOK
      <4> QED BY <4>1, <4>2, <4>4 DEF BudgetOf
    <3> QED BY <3>3, <3>4
  <2> QED BY <2>2, <2>3
<1>5. ASSUME NEW p \in Ops, RetryStep(p) PROVE BudgetOf(o)'
  <2>1. CASE o # p
    BY <1>0, <1>5, <2>1, BudgetUntouched DEF RetryStep, Close, TypeOK
  <2>2. CASE o = p
    <3>1. /\ InFlight(o) /\ opStatus[o] = "in_flight"
          /\ attempts'[o] = [attempts[o] EXCEPT ![attemptId[o]] = "retry"]
          /\ attemptCount'[o] = attemptCount[o] + 1
          /\ attemptCount[o] + 1 < MaxAttempts
      BY <1>0, <1>5, <2>2 DEF RetryStep, Close, InFlight, TypeOK
    <3>2. attemptId[o] \in 1 .. MaxClaims /\ attempts[o][attemptId[o]] # "retry"
      BY <3>1, CurrentAttempt, OpenRow DEF OpenAttempt
    <3>3. Cardinality(Retries(o)') = Cardinality(Retries(o)) + 1
      BY <1>0, <3>1, <3>2, RetryRow
    <3> QED BY <1>0, <3>1, <3>3 DEF BudgetOf
  <2> QED BY <2>1, <2>2
<1>6. ASSUME NEW p \in Ops, ExtendStep(p) PROVE BudgetOf(o)'
  <2>1. CASE o # p
    BY <1>0, <1>6, <2>1, BudgetUntouched DEF ExtendStep, ExtendLease, TypeOK
  <2>2. CASE o = p
    <3>1. /\ InFlight(o) /\ opStatus[o] = "in_flight"
          /\ attempts'[o] = [attempts[o] EXCEPT ![attemptId[o]] = "lease_extended"]
          /\ attemptCount'[o] = attemptCount[o]
      BY <1>0, <1>6, <2>2 DEF ExtendStep, ExtendLease, Holds, InFlight, TypeOK
    <3>2. attemptId[o] \in 1 .. MaxClaims /\ attempts[o][attemptId[o]] # "retry"
      BY <3>1, CurrentAttempt, OpenRow DEF OpenAttempt
    <3> QED BY <1>0, <3>1, <3>2, BudgetKept
  <2> QED BY <2>1, <2>2
<1>7. CASE RecoverExpiredLeases
  <2>1. CASE ~Expired(o)
    BY <1>0, <1>7, <2>1, BudgetUntouched DEF RecoverExpiredLeases
  <2>2. CASE Expired(o)
    <3>1. /\ InFlight(o) /\ opStatus[o] = "in_flight"
          /\ attempts'[o] = [attempts[o] EXCEPT ![attemptId[o]] = "lease_expired"]
          /\ attemptCount'[o] = attemptCount[o]
      BY <1>7, <2>2 DEF RecoverExpiredLeases, Expired, InFlight
    <3>2. attemptId[o] \in 1 .. MaxClaims /\ attempts[o][attemptId[o]] # "retry"
      BY <3>1, CurrentAttempt, OpenRow DEF OpenAttempt
    <3> QED BY <1>0, <3>1, <3>2, BudgetKept
  <2> QED BY <2>1, <2>2
<1> QED BY <1>1, <1>2, <1>3, <1>4, <1>5, <1>6, <1>7, StepCases DEF IInv, ClaimStep

(* A closed row is neither the row of a live attempt nor a fresh one. *)
LEMMA HistoryStep ==
    ASSUME IInv, Next, NEW o \in Ops, NEW a \in 1 .. MaxClaims,
           attempts[o][a] \in ClosedAttempt
    PROVE  attempts'[o][a] = attempts[o][a]
<1>0. TypeOK /\ AuditRow(o, a)
  BY DEF IInv, AttemptAudit
<1>1. InFlight(o) => a # attemptId[o]
  BY <1>0 DEF AuditRow, RowsFor, InFlight, OpenAttempt, ClosedAttempt
<1>2. a # attemptId[o] + 1
  BY <1>0, ConstantTypes DEF AuditRow, ClosedAttempt, TypeOK
<1>3. Tick \/ (\E t \in Txns : EnqueueTxn(t)) => attempts' = attempts
  BY DEF Tick, EnqueueTxn
<1>4. ASSUME NEW S \in SUBSET Ops, NEW c \in Conns, Claim(S, c)
      PROVE  attempts'[o][a] = attempts[o][a]
  <2>1. attempts'[o] \in {attempts[o], [attempts[o] EXCEPT ![attemptId[o] + 1] = "claimed"]}
    BY <1>4 DEF Claim, FreshAttempt
  <2> QED BY <1>0, <1>2, <2>1 DEF TypeOK
<1>5. ASSUME NEW p \in Ops, NEW row, InFlight(p),
             attempts' = [attempts EXCEPT ![p][attemptId[p]] = row]
      PROVE  attempts'[o][a] = attempts[o][a]
  BY <1>0, <1>1, <1>5 DEF TypeOK
<1>6. \A p \in Ops : CloseStep(p) \/ RetryStep(p) \/ ExtendStep(p) =>
        InFlight(p) /\ \E row : attempts' = [attempts EXCEPT ![p][attemptId[p]] = row]
  BY DEF CloseStep, RetryStep, ExtendStep, ExtendLease, Holds, Close
<1>7. CASE RecoverExpiredLeases
  <2>1. attempts'[o] = IF Expired(o) THEN [attempts[o] EXCEPT ![attemptId[o]] = "lease_expired"]
                                     ELSE attempts[o]
    BY <1>7 DEF RecoverExpiredLeases
  <2> QED BY <1>0, <1>1, <2>1 DEF TypeOK, Expired
<1> QED BY <1>3, <1>4, <1>5, <1>6, <1>7, StepCases DEF IInv, ClaimStep

-----------------------------------------------------------------------------
(* The verdict of a transaction. *)

(* What TxnVerdict says of one transaction. *)
AllSucceeded(t) == \A o \in OpsOf(t) : opStatus[o] = "succeeded"
SomeDead(t) == \E o \in OpsOf(t) : opStatus[o] = "dead"

VerdictOf(t) ==
    /\ txnStatus[t] = "succeeded" <=> txnStatus[t] # "absent" /\ AllSucceeded(t)
    /\ txnStatus[t] = "failed" <=> SomeDead(t)

LEMMA VerdictUntouched ==
    ASSUME NEW t \in Txns, VerdictOf(t), txnStatus'[t] = txnStatus[t],
           \A o \in OpsOf(t) : opStatus'[o] = opStatus[o]
    PROVE  VerdictOf(t)'
BY DEF VerdictOf, AllSucceeded, SomeDead, OpsOf

(* A transaction with an op still open after the step, none of whose ops has
   become dead, keeps its verdict. *)
LEMMA VerdictStillOpen ==
    ASSUME NEW t \in Txns, VerdictOf(t),
           NEW o \in OpsOf(t), opStatus[o] \in {"pending", "in_flight"},
           opStatus'[o] \in {"pending", "in_flight"},
           \A p \in OpsOf(t) : opStatus'[p] = "dead" <=> opStatus[p] = "dead",
           txnStatus'[t] # "succeeded",
           txnStatus'[t] = "failed" <=> txnStatus[t] = "failed"
    PROVE  VerdictOf(t)'
BY DEF VerdictOf, AllSucceeded, SomeDead, OpsOf

LEMMA VerdictClose ==
    ASSUME IInv, NEW t \in Txns, VerdictOf(t),
           NEW o \in Ops, NEW st \in {"succeeded", "dead"}, Settles(o, st)
    PROVE  VerdictOf(t)'
<1>1. TypeOK /\ opStatus' = [opStatus EXCEPT ![o] = st] /\ opStatus[o] = "in_flight"
  BY DEF IInv, Settles, InFlight
<1>2. CASE TxnOf[o] # t
  <2>1. txnStatus'[t] = txnStatus[t]
    BY <1>1, <1>2, ConstantTypes DEF Settles, TypeOK
  <2>2. \A p \in OpsOf(t) : opStatus'[p] = opStatus[p]
    BY <1>1, <1>2 DEF OpsOf, TypeOK
  <2> QED BY <2>1, <2>2, VerdictUntouched
<1>3. CASE TxnOf[o] = t
  <2>1. o \in OpsOf(t) /\ txnStatus[t] \notin {"absent", "succeeded"}
    BY <1>1, <1>3 DEF IInv, AbsentUntouched, OpsOf, VerdictOf, AllSucceeded
  <2>2. CASE st = "dead"
    <3>1. txnStatus'[t] = "failed" /\ opStatus'[o] = "dead"
      BY <1>1, <1>3, <2>2 DEF Settles, TypeOK
    <3> QED BY <2>1, <3>1 DEF VerdictOf, AllSucceeded, SomeDead
  <2>3. CASE st = "succeeded" /\ OthersSucceeded(o)
    <3>1. txnStatus'[t] = "succeeded"
      BY <1>1, <1>3, <2>3 DEF Settles, TypeOK
    <3>2. \A p \in OpsOf(t) : opStatus'[p] = "succeeded"
      BY <1>1, <1>3, <2>3 DEF OthersSucceeded, OpsOf, TypeOK
    <3> QED BY <3>1, <3>2 DEF VerdictOf, AllSucceeded, SomeDead, OpsOf
  <2>4. CASE st = "succeeded" /\ ~OthersSucceeded(o)
    <3>1. txnStatus'[t] = txnStatus[t]
      BY <2>4 DEF Settles
    <3>2. PICK q \in OpsOf(t) : q # o /\ opStatus[q] # "succeeded"
      BY <1>3, <2>4 DEF OthersSucceeded
    <3>3. \A p \in OpsOf(t) : p # o => opStatus'[p] = opStatus[p]
      BY <1>1 DEF OpsOf, TypeOK
    <3>4. opStatus'[o] = "succeeded"
      BY <1>1, <2>4 DEF TypeOK
    <3>5. ~AllSucceeded(t)'
      BY <3>2, <3>3 DEF AllSucceeded, OpsOf
    <3>6. SomeDead(t)' <=> SomeDead(t)
      BY <1>1, <3>3, <3>4 DEF SomeDead, OpsOf
    <3> QED BY <2>1, <3>1, <3>5, <3>6 DEF VerdictOf
  <2> QED BY <2>2, <2>3, <2>4
<1> QED BY <1>2, <1>3

LEMMA VerdictStep == ASSUME IInv, Next PROVE TxnVerdict'
<1> SUFFICES ASSUME NEW t \in Txns PROVE VerdictOf(t)'
  BY DEF TxnVerdict, VerdictOf, AllSucceeded, SomeDead
<1>0. VerdictOf(t) /\ TypeOK
  BY DEF IInv, TxnVerdict, VerdictOf, AllSucceeded, SomeDead
<1>1. CASE Tick
  BY <1>0, <1>1, VerdictUntouched DEF Tick
<1>2. ASSUME NEW u \in Txns, EnqueueTxn(u) PROVE VerdictOf(t)'
  <2>1. CASE u # t
    BY <1>0, <1>2, <2>1, VerdictUntouched DEF EnqueueTxn, TypeOK
  <2>2. CASE u = t
    <3>1. PICK o \in OpsOf(t) : TRUE
      BY TxnShape DEF OpsOf
    <3>2. \A p \in OpsOf(t) : opStatus[p] = "pending" /\ opStatus'[p] = "pending"
      BY <1>2, <2>2 DEF EnqueueTxn, OpsOf, IInv, AbsentUntouched
    <3>3. txnStatus[t] = "absent" /\ txnStatus'[t] = "ready"
      BY <1>0, <1>2, <2>2 DEF EnqueueTxn, TypeOK
    <3> QED BY <1>0, <3>1, <3>2, <3>3, VerdictStillOpen
  <2> QED BY <2>1, <2>2
<1>3. ASSUME NEW S \in SUBSET Ops, NEW c \in Conns,
             \A o \in S : Eligible(o), Claim(S, c)
      PROVE  VerdictOf(t)'
  <2>1. CASE \A o \in S : TxnOf[o] # t
    BY <1>0, <1>3, <2>1, VerdictUntouched DEF Claim, OpsOf
  <2>2. ASSUME NEW o \in S, TxnOf[o] = t PROVE VerdictOf(t)'
    <3>1. /\ o \in OpsOf(t) /\ opStatus[o] = "pending" /\ opStatus'[o] = "in_flight"
          /\ txnStatus[t] \in {"ready", "in_progress"} /\ txnStatus'[t] = "in_progress"
      BY <1>3, <2>2 DEF Claim, Eligible, OpsOf
    <3>2. \A p \in OpsOf(t) : opStatus'[p] = "dead" <=> opStatus[p] = "dead"
      BY <1>3 DEF Claim, Eligible, OpsOf
    <3> QED BY <1>0, <3>1, <3>2, VerdictStillOpen
  <2> QED BY <2>1, <2>2
<1>4. ASSUME NEW o \in Ops, CloseStep(o) PROVE VerdictOf(t)'
  BY <1>0, <1>4, CloseSettles, VerdictClose
<1>5. ASSUME NEW o \in Ops, RetryStep(o) PROVE VerdictOf(t)'
  <2>1. /\ opStatus' = [opStatus EXCEPT ![o] = "pending"] /\ opStatus[o] = "in_flight"
        /\ txnStatus' = txnStatus
    BY <1>5 DEF RetryStep, Close, InFlight
  <2>2. CASE TxnOf[o] # t
    BY <1>0, <2>1, <2>2, VerdictUntouched DEF OpsOf, TypeOK
  <2>3. CASE TxnOf[o] = t
    <3>1. o \in OpsOf(t) /\ opStatus'[o] = "pending"
      BY <1>0, <2>1, <2>3 DEF OpsOf, TypeOK
    <3>2. \A p \in OpsOf(t) : opStatus'[p] = "dead" <=> opStatus[p] = "dead"
      BY <1>0, <2>1 DEF OpsOf, TypeOK
    <3>3. txnStatus[t] # "succeeded"
      BY <1>0, <2>1, <3>1 DEF VerdictOf, AllSucceeded
    <3> QED BY <1>0, <2>1, <3>1, <3>2, <3>3, VerdictStillOpen
  <2> QED BY <2>2, <2>3
<1>6. ASSUME NEW o \in Ops, ExtendStep(o) PROVE VerdictOf(t)'
  BY <1>0, <1>6, VerdictUntouched DEF ExtendStep, ExtendLease
<1>7. CASE RecoverExpiredLeases
  <2>1. txnStatus' = txnStatus
    BY <1>7 DEF RecoverExpiredLeases
  <2>2. \A p \in OpsOf(t) : \/ opStatus'[p] = opStatus[p]
                            \/ opStatus[p] = "in_flight" /\ opStatus'[p] = "pending"
    BY <1>7 DEF RecoverExpiredLeases, Expired, InFlight, OpsOf
  <2>3. (AllSucceeded(t)' <=> AllSucceeded(t)) /\ (SomeDead(t)' <=> SomeDead(t))
    BY <2>2 DEF AllSucceeded, SomeDead, OpsOf
  <2> QED BY <1>0, <2>1, <2>3 DEF VerdictOf
<1> QED BY <1>1, <1>2, <1>3, <1>4, <1>5, <1>6, <1>7, StepCases DEF IInv, ClaimStep

-----------------------------------------------------------------------------
(* The inductive invariant, and what it implies. *)

LEMMA Stutter == ASSUME IInv, UNCHANGED vars PROVE IInv'
BY DEF vars, IInv, TypeOK, Recoverable, SerialOrder, TxnVerdict, AttemptAudit,
       AuditRow, AbsentUntouched, ClaimBudget, InFlight, Expired, MayLapse

LEMMA Inductive == ASSUME IInv, [Next]_vars PROVE IInv'
<1>1. CASE Next
  BY <1>1, TypeStep, RecoverableStep, SerialStep, VerdictStep, AuditStep,
     AbsentStep, BudgetStep DEF IInv
<1>2. CASE UNCHANGED vars
  BY <1>2, Stutter
<1> QED BY <1>1, <1>2

(* No step takes back what has been said of a transaction. *)
LEMMA VerdictStays ==
    ASSUME IInv, [Next]_vars, NEW t \in Txns, txnStatus[t] \in {"succeeded", "failed"}
    PROVE  txnStatus'[t] = txnStatus[t]
<1>1. CASE Tick \/ RecoverExpiredLeases \/ UNCHANGED vars
  BY <1>1 DEF Tick, RecoverExpiredLeases, vars
<1>2. ASSUME NEW u \in Txns, EnqueueTxn(u) PROVE txnStatus'[t] = txnStatus[t]
  BY <1>2 DEF EnqueueTxn, IInv, TypeOK
<1>3. ASSUME NEW S \in SUBSET Ops, NEW c \in Conns,
             \A o \in S : Eligible(o), Claim(S, c)
      PROVE  txnStatus'[t] = txnStatus[t]
  BY <1>3 DEF Claim, Eligible
<1>4. ASSUME NEW o \in Ops, CloseStep(o) PROVE txnStatus'[t] = txnStatus[t]
  <2>1. PICK st \in {"succeeded", "dead"} : Settles(o, st)
    BY <1>4, CloseSettles
  <2>2. CASE TxnOf[o] # t
    BY <2>1, <2>2 DEF Settles, IInv, TypeOK
  <2>3. CASE TxnOf[o] = t
    <3>1. o \in OpsOf(t) /\ opStatus[o] = "in_flight"
      BY <2>1, <2>3 DEF Settles, InFlight, OpsOf
    <3>2. txnStatus[t] = "failed"
      BY <3>1 DEF IInv, TxnVerdict
    <3>3. PICK p \in OpsOf(t) : opStatus[p] = "dead"
      BY <3>2 DEF IInv, TxnVerdict
    <3>4. ~OthersSucceeded(o)
      BY <2>3, <3>1, <3>3 DEF OthersSucceeded
    <3> QED BY <2>1, <2>3, <3>2, <3>4 DEF Settles, IInv, TypeOK
  <2> QED BY <2>2, <2>3
<1>5. ASSUME NEW o \in Ops, RetryStep(o) \/ ExtendStep(o) PROVE txnStatus' = txnStatus
  BY <1>5 DEF RetryStep, ExtendStep, ExtendLease
<1> QED BY <1>1, <1>2, <1>3, <1>4, <1>5, StepCases DEF IInv, ClaimStep

(* The store is always in a state of the inductive invariant. *)
THEOREM Invariance == Spec => []IInv
<1>1. Init => IInv
  BY InitIInv
<1>2. IInv /\ [Next]_vars => IInv'
  BY Inductive
<1> QED BY <1>1, <1>2, PTL DEF Spec

(* Every column of the store keeps to its domain. *)
THEOREM TypeCorrect == Spec => []TypeOK
<1>1. IInv => TypeOK
  BY DEF IInv
<1> QED BY <1>1, Invariance, PTL

(* No op is ever stuck in flight, out of reach of recovery and acks. *)
THEOREM AlwaysRecoverable == Spec => []Recoverable
<1>1. IInv => Recoverable
  BY DEF IInv
<1> QED BY <1>1, Invariance, PTL

(* The ops of a serial transaction are claimed in order, one after another. *)
THEOREM SerialExecution == Spec => []SerialOrder
<1>1. IInv => SerialOrder
  BY DEF IInv
<1> QED BY <1>1, Invariance, PTL

(* The status of a transaction always agrees with the status of its ops. *)
THEOREM VerdictsAgree == Spec => []TxnVerdict
<1>1. IInv => TxnVerdict
  BY DEF IInv
<1> QED BY <1>1, Invariance, PTL

(* The attempt table is a truthful record of every op's attempts. *)
THEOREM AuditIsTruthful == Spec => []AttemptAudit
<1>1. IInv => AttemptAudit
  BY DEF IInv
<1> QED BY <1>1, Invariance, PTL

(* Every retry is counted once and nothing else is, and an op whose budget of
   attempts is used up is dead, whatever leases lapse and whatever acks come
   late or again: ackRetry gives up with the last attempt, not before, not after. *)
THEOREM RetriesAreCounted == Spec => []RetryBudget
<1>1. Init => RetryBudget
  <2> SUFFICES ASSUME Init, NEW o \in Ops PROVE BudgetOf(o)
    BY DEF RetryBudget, BudgetOf
  <2>1. Retries(o) = {}
    BY DEF Init, Retries
  <2> QED BY <2>1, FS_EmptySet, ConstantTypes DEF Init, BudgetOf
<1>2. IInv /\ RetryBudget /\ [Next]_vars => RetryBudget'
  <2>1. IInv /\ RetryBudget /\ UNCHANGED vars => RetryBudget'
    BY DEF vars, RetryBudget, Retries
  <2> QED BY <2>1, RetryBudgetStep
<1> QED BY <1>1, <1>2, Invariance, PTL DEF Spec

(* No message of a superseded or finished attempt rewrites its history. *)
THEOREM HistoryStays == Spec => HistoryIsFinal
<1>1. ASSUME IInv, [Next]_vars
      PROVE  [\A o \in Ops, a \in 1 .. MaxClaims :
                attempts[o][a] \in ClosedAttempt => attempts'[o][a] = attempts[o][a]]_vars
  BY <1>1, HistoryStep DEF vars
<1> QED BY <1>1, Invariance, PTL DEF Spec, HistoryIsFinal

-----------------------------------------------------------------------------
(* The store implements the ledger. *)

LEMMA InitLedger == Init => Ledger!LedgerInit
BY DEF Init, Ledger!LedgerInit, Outcome, Verdict

(* Steps that settle nothing and accept nothing are stuttering steps. *)
LEMMA LedgerStutter ==
    ASSUME \A o \in Ops : opStatus'[o] = opStatus[o] \/
             {opStatus[o], opStatus'[o]} \subseteq {"pending", "in_flight"},
           \A t \in Txns : txnStatus'[t] = txnStatus[t] \/
             {txnStatus[t], txnStatus'[t]} \subseteq {"ready", "in_progress"}
    PROVE  UNCHANGED Ledger!ledgerVars
<1>1. Outcome' = Outcome
  BY DEF Outcome
<1>2. Verdict' = Verdict
  BY DEF Verdict
<1> QED BY <1>1, <1>2 DEF Ledger!ledgerVars

LEMMA LedgerAccept ==
    ASSUME IInv, NEW t \in Txns, EnqueueTxn(t)
    PROVE  Ledger!Accept(t)
<1>1. Verdict[t] = "absent" /\ Verdict' = [Verdict EXCEPT ![t] = "open"]
  BY DEF IInv, TypeOK, EnqueueTxn, Verdict
<1>2. Outcome' = Outcome
  BY DEF EnqueueTxn, Outcome
<1> QED BY <1>1, <1>2 DEF Ledger!Accept

LEMMA LedgerSettle ==
    ASSUME IInv, NEW o \in Ops, NEW st \in {"succeeded", "dead"}, Settles(o, st)
    PROVE  Ledger!Succeed(o) \/ Ledger!GiveUp(o)
<1>1. TypeOK /\ TxnOf[o] \in Txns
  BY ConstantTypes DEF IInv
<1>2. Outcome[o] = "open" /\ Outcome' = [Outcome EXCEPT ![o] = st]
  BY <1>1 DEF Settles, Outcome, InFlight, TypeOK
<1>3. Verdict[TxnOf[o]] # "absent"
  BY <1>1 DEF Settles, Verdict, InFlight, IInv, AbsentUntouched, TypeOK
<1>4. Ledger!InOrder(o)
  <2>1. attemptId[o] > 0
    BY DEF Settles, IInv, Recoverable
  <2> QED BY <2>1 DEF IInv, SerialOrder, Predecessors, OpsOf, Outcome,
             Ledger!InOrder, Ledger!Predecessors, Ledger!OpsOf
<1>5. CASE st = "dead"
  <2>1. Verdict' = [Verdict EXCEPT ![TxnOf[o]] = "failed"]
    BY <1>1, <1>5 DEF Settles, Verdict, TypeOK
  <2> QED BY <1>2, <1>3, <1>4, <1>5, <2>1 DEF Ledger!GiveUp
<1>6. CASE st = "succeeded"
  <2>1. OthersSucceeded(o) <=>
          \A p \in Ledger!OpsOf(TxnOf[o]) \ {o} : Outcome[p] = "succeeded"
    BY DEF OthersSucceeded, OpsOf, Ledger!OpsOf, Outcome
  <2>2. CASE OthersSucceeded(o)
    <3>1. Verdict' = [Verdict EXCEPT ![TxnOf[o]] = "succeeded"]
      BY <1>1, <1>6, <2>2 DEF Settles, Verdict, TypeOK
    <3> QED BY <1>2, <1>3, <1>4, <1>6, <2>1, <2>2, <3>1 DEF Ledger!Succeed
  <2>3. CASE ~OthersSucceeded(o)
    <3>1. Verdict' = Verdict
      BY <1>6, <2>3 DEF Settles, Verdict
    <3> QED BY <1>2, <1>3, <1>4, <1>6, <2>1, <2>3, <3>1 DEF Ledger!Succeed
  <2> QED BY <2>2, <2>3
<1> QED BY <1>5, <1>6

LEMMA LedgerStep ==
    ASSUME IInv, [Next]_vars
    PROVE  [Ledger!LedgerNext]_(Ledger!ledgerVars)
<1>0. TypeOK
  BY DEF IInv
<1>1. CASE Tick \/ UNCHANGED vars
  BY <1>1, LedgerStutter DEF Tick, vars
<1>2. CASE \E t \in Txns : EnqueueTxn(t)
  BY <1>2, LedgerAccept DEF Ledger!LedgerNext
<1>3. ASSUME NEW S \in SUBSET Ops, NEW c \in Conns,
             \A o \in S : Eligible(o), Claim(S, c)
      PROVE  UNCHANGED Ledger!ledgerVars
  <2>1. \A o \in Ops : opStatus'[o] = opStatus[o] \/
          {opStatus[o], opStatus'[o]} \subseteq {"pending", "in_flight"}
    BY <1>3 DEF Claim, Eligible
  <2>2. \A t \in Txns : txnStatus'[t] = txnStatus[t] \/
          {txnStatus[t], txnStatus'[t]} \subseteq {"ready", "in_progress"}
    BY <1>3 DEF Claim, Eligible
  <2> QED BY <2>1, <2>2, LedgerStutter
<1>4. ASSUME NEW o \in Ops, CloseStep(o)
      PROVE  Ledger!LedgerNext
  BY <1>4, CloseSettles, LedgerSettle DEF Ledger!LedgerNext
<1>5. ASSUME NEW o \in Ops, RetryStep(o) PROVE UNCHANGED Ledger!ledgerVars
  <2>1. \A p \in Ops : opStatus'[p] = opStatus[p] \/
          {opStatus[p], opStatus'[p]} \subseteq {"pending", "in_flight"}
    BY <1>0, <1>5 DEF RetryStep, Close, InFlight, TypeOK
  <2> QED BY <1>5, <2>1, LedgerStutter DEF RetryStep
<1>6. ASSUME NEW o \in Ops, ExtendStep(o) PROVE UNCHANGED Ledger!ledgerVars
  BY <1>6, LedgerStutter DEF ExtendStep, ExtendLease
<1>7. CASE RecoverExpiredLeases
  <2>1. \A p \in Ops : opStatus'[p] = opStatus[p] \/
          {opStatus[p], opStatus'[p]} \subseteq {"pending", "in_flight"}
    BY <1>7 DEF RecoverExpiredLeases, Expired, InFlight
  <2> QED BY <1>7, <2>1, LedgerStutter DEF RecoverExpiredLeases
<1> QED BY <1>0, <1>1, <1>2, <1>3, <1>4, <1>5, <1>6, <1>7, StepCases DEF ClaimStep

(* Seen without attempts, leases and clocks, the store is a ledger in which
   ops settle once and in order, and transactions together with them. *)
THEOREM Refinement == Spec => ImplementsLedger
<1>1. Init => Ledger!LedgerInit
  BY InitLedger
<1>2. IInv /\ [Next]_vars => [Ledger!LedgerNext]_(Ledger!ledgerVars)
  BY LedgerStep
<1> QED BY <1>1, <1>2, Invariance, PTL DEF Spec, ImplementsLedger, Ledger!LedgerSpec
=============================================================================
