--------------------------- MODULE DeliveryProofs ---------------------------
(***************************************************************************)
(* Proofs about WriteDelivery, for any ops, lock keys, lapsing leases,     *)
(* lost batches and acks, broken connections and reloads of the plugin:    *)
(* the queue in it is QueueStore, an op with a lock key is done once in a  *)
(* life of the plugin, and the queue's verdict is what has happened.       *)
(***************************************************************************)
EXTENDS WriteDelivery, QueueStoreProofs, WellFoundedInduction

LockKeys == [d \in Deliveries |-> OpLockKeys[d[1]]]

(* The locks of the plugin, with what OpLocksProofs knows of them. *)
Held == INSTANCE OpLocksProofs
        WITH Requests <- Deliveries, Keys <- UNION {OpLockKeys[o] : o \in Ops}

-----------------------------------------------------------------------------
(* The inductive invariant. *)

Stages == {"unseen", "received", "locking", "running", "answered", "done"}
Results == {"success", "retry", "failed"}

DTypeOK ==
    /\ stage \in [Deliveries -> Stages]
    /\ answer \in [Deliveries -> {"none"} \cup Results]
    /\ seen \subseteq Ops
    /\ applied \in [Ops -> Nat]
    /\ reloads \in Nat
    /\ conn \in Conns

(* Only what fits in a message is dispatched. *)
SmallOnes == \A o \in Ops : attemptId[o] > 0 => o \notin Oversize

(* Where a delivery is in runOne agrees with where it is in the locks. *)
OpPlaces ==
    /\ \A d \in Deliveries :
         /\ stage[d] \in {"running", "answered"} => d \in holding
         /\ stage[d] = "locking" => d \in waiting \cup holding
         /\ d \in waiting => stage[d] = "locking"
         /\ d \in holding => stage[d] \in {"locking", "running", "answered"}
    /\ waiting \cap holding = {}

(* The plugin only has what was claimed, and answers what it has. *)
Handed ==
    \A d \in Deliveries :
      /\ stage[d] # "unseen" => d[2] <= attemptId[d[1]]
      /\ answer[d] # "none" => stage[d] \in {"answered", "done"}

(* A success is one, wherever it is noted. *)
Successes ==
    /\ \A o \in Ops : o \in seen \/ opStatus[o] = "succeeded" => applied[o] >= 1
    /\ \A d \in Deliveries : answer[d] = "success" => applied[d[1]] >= 1

(* An op is counted once a life, and its key is noted then; while it runs, it
   has not been done in this life. *)
Counted ==
    /\ \A o \in Ops : OpLockKeys[o] # {} =>
         applied[o] <= reloads + (IF o \in seen THEN 1 ELSE 0)
    /\ \A d \in Deliveries :
         OpLockKeys[d[1]] # {} /\ stage[d] = "running" => d[1] \notin seen

Active == {"received", "locking", "running", "answered"}

(* While a delivery of an op that keeps its turn is on its way, the later ones
   are behind it. *)
Turns ==
    \A d, e \in Deliveries :
      d[1] = e[1] /\ d[2] < e[2] /\ KeepsItsTurn(d[1])
      /\ stage[d] \in Active /\ stage[e] # "unseen" =>
         /\ stage[d] # "received" /\ stage[e] \in {"received", "locking"}
         /\ e \notin holding
         /\ d \in waiting /\ e \in waiting => arrival[d] < arrival[e]

(* When the current attempt has failed, none before it has succeeded, or still
   may; and an op is dead because its current attempt has failed. *)
Failures ==
    \A d \in Deliveries :
      KeepsItsTurn(d[1]) /\ reloads = 0 /\ d[2] = attemptId[d[1]] =>
        /\ answer[d] \in {"retry", "failed"} =>
             /\ d[1] \notin seen
             /\ \A e \in Deliveries :
                  e[1] = d[1] => stage[e] \in {"unseen", "answered", "done"}
        /\ opStatus[d[1]] = "dead" => answer[d] \in {"retry", "failed"}

DInv == /\ IInv /\ Held!IInv
        /\ DTypeOK /\ SmallOnes /\ OpPlaces /\ Handed /\ Successes /\ Counted
        /\ Turns /\ Failures

PluginSame == UNCHANGED <<stage, answer, seen, applied, reloads,
                          locked, waiting, arrival, pushes, holding, released>>

-----------------------------------------------------------------------------
(* The constants, and the locks as OpLocksProofs sees them. *)

LEMMA Keyed ==
    /\ Plugin!IdemKeys = Ops
    /\ \A d \in Deliveries : d[1] \in Ops /\ d[2] \in Nat /\ KeyOf[d] = d[1] /\ LockKeys[d] = OpLockKeys[d[1]]
    /\ \A d, e \in Deliveries : d[1] = e[1] /\ d[2] = e[2] => d = e
<1>1. \A o \in Ops : <<o, 1>> \in Deliveries /\ KeyOf[<<o, 1>>] = o
  BY ConstantTypes DEF Deliveries, KeyOf
<1>2. \A d \in Deliveries : d[1] \in Ops /\ d[2] \in Nat /\ KeyOf[d] = d[1] /\ LockKeys[d] = OpLockKeys[d[1]]
  BY ConstantTypes DEF Deliveries, KeyOf, LockKeys
<1>3. \A d, e \in Deliveries : d[1] = e[1] /\ d[2] = e[2] => d = e
  BY DEF Deliveries
<1>4. Plugin!IdemKeys = Ops
  BY <1>1, <1>2, ZenonT(30) DEF Plugin!IdemKeys
<1> QED BY <1>2, <1>3, <1>4

LEMMA HeldKeys == LockKeys \in [Deliveries -> SUBSET UNION {OpLockKeys[o] : o \in Ops}]
  BY DEF LockKeys, Deliveries

LEMMA HeldAcquire ==
    ASSUME Held!IInv, NEW d \in Deliveries, Plugin!Locks!Acquire(d)
    PROVE  /\ Held!IInv'
           /\ d \notin waiting \cup holding
           /\ \/ /\ holding' = holding \cup {d}
                 /\ UNCHANGED <<waiting, arrival>>
                 /\ \A e \in holding : OpLockKeys[d[1]] \cap OpLockKeys[e[1]] = {}
              \/ /\ waiting' = waiting \cup {d}
                 /\ UNCHANGED holding
                 /\ arrival' = [arrival EXCEPT ![d] = pushes + 1]
                 /\ \E e \in holding : OpLockKeys[d[1]] \cap OpLockKeys[e[1]] # {}
<1>1. Held!Acquire(d)
  BY DEF Held!Acquire, Held!AcquireNow, Held!Enqueue, Held!Fresh, LockKeys,
         Plugin!Locks!Acquire, Plugin!Locks!AcquireNow, Plugin!Locks!Enqueue, Plugin!Locks!Fresh
<1>2. Held!IInv'
  BY <1>1, HeldKeys, Held!Inductive DEF Held!LockKeysType, Held!Next
<1>3. locked = UNION {LockKeys[e] : e \in holding} /\ holding \subseteq Deliveries
  BY DEF Held!IInv, Held!LockedIsHeld, Held!KeysOf, Held!TypeOK
<1>4. \A e \in holding : LockKeys[e] = OpLockKeys[e[1]]
  BY <1>3, Keyed
<1>5. LockKeys[d] = OpLockKeys[d[1]]
  BY Keyed
<1>6. CASE Held!AcquireNow(d)
  BY <1>2, <1>3, <1>4, <1>5, <1>6 DEF Held!AcquireNow, Held!Fresh
<1>7. CASE Held!Enqueue(d)
  <2>1. \E e \in holding : OpLockKeys[d[1]] \cap OpLockKeys[e[1]] # {}
    BY <1>3, <1>4, <1>5, <1>7 DEF Held!Enqueue
  <2> QED BY <1>2, <1>7, <2>1 DEF Held!Enqueue, Held!Fresh
<1> QED BY <1>1, <1>6, <1>7 DEF Held!Acquire

LEMMA Least ==
    ASSUME NEW T \in SUBSET Nat, T # {}
    PROVE  \E x \in T : \A y \in T : x <= y
<1>1. PICK x \in T : \A y \in T : ~(<<y, x>> \in OpToRel(<, Nat))
  BY WFMin, NatLessThanWellFounded
<1>2. \A y \in T : <<y, x>> \in Nat \X Nat /\ <<y, x>>[1] = y /\ <<y, x>>[2] = x
  OBVIOUS
<1>3. \A y \in T : ~(y < x)
  BY <1>1, <1>2 DEF OpToRel
<1> QED BY <1>3

(* Who waits with keys that no other op has, waits for a delivery of the same
   op: the first of those that wait is blocked by what is held. *)
LEMMA WaitsForOwn ==
    ASSUME Held!IInv, NEW d \in waiting, KeepsItsTurn(d[1])
    PROVE  \E h \in holding : h[1] = d[1]
<1> DEFINE own == {q \in waiting : q[1] = d[1]}
           T == {arrival[q] : q \in own}
<1>1. waiting \subseteq Deliveries /\ holding \subseteq Deliveries /\ arrival \in [Deliveries -> Nat]
  BY DEF Held!IInv, Held!TypeOK
<1>2. PICK q \in own : \A r \in own : arrival[q] <= arrival[r]
  <2>1. T \in SUBSET Nat /\ T # {}
    BY <1>1
  <2>2. PICK x \in T : \A y \in T : x <= y
    <3> HIDE DEF T
    <3> QED BY <2>1, Least
  <2>3. PICK q \in own : arrival[q] = x
    OBVIOUS
  <2>4. \A r \in own : arrival[r] \in T
    OBVIOUS
  <2> QED BY <2>2, <2>3, <2>4
<1>3. KeepsItsTurn(q[1]) /\ q \in Deliveries /\ q[1] = d[1]
  BY <1>1, <1>2
<1>4. \A r \in Deliveries : OpLockKeys[q[1]] \cap OpLockKeys[r[1]] # {} => r[1] = q[1]
  BY <1>3, Keyed DEF KeepsItsTurn
<1>5. \A r \in waiting : arrival[r] < arrival[q] => LockKeys[r] \cap LockKeys[q] = {}
  BY <1>1, <1>2, <1>3, <1>4, Keyed
<1>6. LockKeys[q] \cap locked # {}
  BY <1>2, <1>5 DEF Held!IInv, Held!NoLostWakeup, Held!Granted, Held!Overlap
<1>7. PICK h \in holding : LockKeys[q] \cap LockKeys[h] # {}
  BY <1>6 DEF Held!IInv, Held!LockedIsHeld, Held!KeysOf
<1>8. h[1] = q[1]
  BY <1>1, <1>3, <1>4, <1>7, Keyed
<1> QED BY <1>3, <1>8

(* Whom the release of d serves. *)
Served(d, G) ==
    /\ G \subseteq waiting
    /\ holding' = (holding \ {d}) \cup G
    /\ waiting' = waiting \ G
    /\ UNCHANGED arrival
    /\ \A g \in G :
         /\ \A h \in holding \ {d} : OpLockKeys[g[1]] \cap OpLockKeys[h[1]] = {}
         /\ \A q \in waiting :
              arrival[q] < arrival[g] => OpLockKeys[g[1]] \cap OpLockKeys[q[1]] = {}

LEMMA HeldRelease ==
    ASSUME Held!IInv, NEW d \in Deliveries, Plugin!Locks!Release(d)
    PROVE  Held!IInv' /\ d \in holding /\ \E G : Served(d, G)
<1> DEFINE lk == locked \ LockKeys[d]
           G == IF LockKeys[d] = {} THEN {} ELSE Held!Granted(lk, waiting)
<1>1. Held!Release(d)
  BY DEF Held!Release, Held!Granted, Held!KeysOf, Held!Overlap, LockKeys,
         Plugin!Locks!Release, Plugin!Locks!Granted, Plugin!Locks!KeysOf, Plugin!Locks!Overlap
<1>2. Held!IInv'
  BY <1>1, HeldKeys, Held!Inductive DEF Held!LockKeysType, Held!Next
<1>3. /\ d \in holding /\ holding' = (holding \ {d}) \cup G
      /\ waiting' = waiting \ G /\ UNCHANGED arrival
  BY <1>1 DEF Held!Release
<1>4. locked = UNION {LockKeys[e] : e \in holding}
      /\ holding \subseteq Deliveries /\ waiting \subseteq Deliveries
      /\ \A h \in holding : h # d => LockKeys[h] \cap LockKeys[d] = {}
  BY <1>3 DEF Held!IInv, Held!LockedIsHeld, Held!KeysOf, Held!TypeOK, Held!MutualExclusion, Held!Overlap
<1>5. \A e \in Deliveries : LockKeys[e] = OpLockKeys[e[1]]
  BY Keyed
<1>6. \A g \in G : g \in waiting /\ LockKeys[g] \cap lk = {}
         /\ \A q \in waiting : arrival[q] < arrival[g] => LockKeys[q] \cap LockKeys[g] = {}
  BY DEF Held!Granted, Held!Overlap
<1>7. ASSUME NEW g \in G, NEW h \in holding \ {d}
      PROVE  OpLockKeys[g[1]] \cap OpLockKeys[h[1]] = {}
  <2>1. LockKeys[h] \subseteq lk
    BY <1>4, <1>7
  <2> QED BY <1>4, <1>5, <1>6, <1>7, <2>1
<1>8. Served(d, G)
  <2> HIDE DEF G, lk
  <2> QED BY <1>3, <1>4, <1>5, <1>6, <1>7 DEF Served
<1> QED BY <1>2, <1>3, <1>8

-----------------------------------------------------------------------------
(* Steps of the queue.  But for claims and acks it changes no attempt and
   settles nothing. *)

QueueQuiet ==
    \A o \in Ops :
      /\ attemptId'[o] = attemptId[o]
      /\ \/ opStatus'[o] = opStatus[o]
         \/ {opStatus[o], opStatus'[o]} \subseteq {"pending", "in_flight"}

LEMMA InitDInv == DInit => DInv
<1> SUFFICES ASSUME DInit PROVE DInv
  OBVIOUS
<1> USE DEF DInit, Plugin!Init
<1>1. IInv /\ \A o \in Ops : opStatus[o] = "pending" /\ attemptId[o] = 0
  BY InitIInv DEF Init
<1>2. Held!IInv
  BY HeldKeys, Held!InitIInv DEF Held!LockKeysType, Held!Init, Plugin!Locks!Init
<1>3. DTypeOK
  BY Keyed DEF DTypeOK, Stages, Results
<1>4. SmallOnes /\ OpPlaces /\ Handed
  BY <1>1, Keyed DEF SmallOnes, OpPlaces, Handed, Plugin!Locks!Init
<1>5. Successes /\ Counted
  BY <1>1, Keyed DEF Successes, Counted
<1>6. Turns /\ Failures
  BY <1>1, Keyed DEF Turns, Failures, Active
<1> QED BY <1>1, <1>2, <1>3, <1>4, <1>5, <1>6 DEF DInv

LEMMA QuietInv ==
    ASSUME DInv, IInv', QueueQuiet, PluginSame, conn' \in Conns
    PROVE  DInv'
<1> USE DEF DInv, PluginSame
<1>1. Held!IInv'
  BY HeldKeys, Held!Inductive DEF Held!LockKeysType, Held!vars
<1>2. DTypeOK'
  BY DEF DTypeOK
<1>3. SmallOnes' /\ Handed'
  BY Keyed DEF SmallOnes, Handed, QueueQuiet
<1>4. OpPlaces' /\ Counted' /\ Turns'
  BY DEF OpPlaces, Counted, Turns, KeepsItsTurn
<1>5. Successes'
  BY DEF Successes, QueueQuiet
<1>6. Failures'
  <2>1. \A d \in Deliveries : d[1] \in Ops
    BY Keyed
  <2> QED BY <2>1 DEF Failures, KeepsItsTurn, QueueQuiet
<1> QED BY <1>1, <1>2, <1>3, <1>4, <1>5, <1>6

LEMMA QueueAloneStep ==
    ASSUME DInv, QueueAlone
    PROVE  Next /\ DInv'
<1>1. Next
  BY DEF QueueAlone, Next
<1>2. IInv'
  BY <1>1, Inductive DEF DInv
<1>3. TypeOK
  BY DEF DInv, IInv
<1>4. QueueQuiet
  <2>1. CASE Tick
    BY <2>1 DEF Tick, QueueQuiet
  <2>2. CASE RecoverExpiredLeases
    BY <1>3, <2>2 DEF RecoverExpiredLeases, Expired, InFlight, QueueQuiet, TypeOK
  <2>3. CASE \E t \in Txns : EnqueueTxn(t)
    BY <2>3 DEF EnqueueTxn, QueueQuiet
  <2> QED BY <2>1, <2>2, <2>3 DEF QueueAlone
<1>5. PluginSame /\ conn' \in Conns
  BY DEF QueueAlone, PluginSame, pluginVars, linkVars, DInv, DTypeOK
<1> QED BY <1>1, <1>2, <1>4, <1>5, QuietInv

LEMMA ExtendStepInv ==
    ASSUME DInv, Extend
    PROVE  Next /\ DInv'
<1>1. PICK d \in Deliveries : \E ms \in Extensions : ExtendLease(d[1], d[2], conn, ms)
  BY DEF Extend
<1>2. d[1] \in Ops /\ Holds(d[1], d[2], conn) /\ attemptId[d[1]] = d[2]
  BY <1>1, Keyed DEF ExtendLease, Holds
<1>3. attemptId[d[1]] \in 1 .. MaxClaims
  BY <1>2, CurrentAttempt DEF DInv, Holds
<1>4. d[1] \notin Oversize /\ d[2] \in HandedOut(d[1]) /\ conn \in Conns
  BY <1>2, <1>3, ConstantTypes DEF DInv, SmallOnes, HandedOut, DTypeOK
<1>5. Next
  BY <1>1, <1>2, <1>4 DEF Next, WorkerExtend
<1>6. IInv'
  BY <1>5, Inductive DEF DInv
<1>7. QueueQuiet /\ PluginSame /\ conn' \in Conns
  BY <1>1, <1>4 DEF ExtendLease, QueueQuiet, Extend, PluginSame, pluginVars, linkVars
<1> QED BY <1>5, <1>6, <1>7, QuietInv

LEMMA ReconnectInv ==
    ASSUME DInv, Reconnect
    PROVE  UNCHANGED vars /\ DInv'
<1>1. UNCHANGED vars /\ conn' \in Conns
  BY DEF Reconnect, NewConnection
<1>2. IInv' /\ QueueQuiet
  BY <1>1, Inductive DEF DInv, QueueQuiet, vars
<1>3. PluginSame
  BY DEF Reconnect, PluginSame
<1> QED BY <1>1, <1>2, <1>3, QuietInv

(* A claim hands out an attempt that the plugin has never seen. *)
LEMMA DispatchInv ==
    ASSUME DInv, DispatchBatch
    PROVE  Next /\ DInv'
<1> DEFINE sent(S) == {<<o, FreshAttempt(o)>> : o \in S}
<1>1. PICK S \in SUBSET Ops :
         /\ ClaimBatch(S, conn)
         /\ Plugin!Receive(sent(S)) \/ UNCHANGED pluginVars
         /\ UNCHANGED <<conn, closed, reloads>>
  BY DEF DispatchBatch
<1>2. conn \in Conns /\ TypeOK
  BY DEF DInv, DTypeOK, IInv
<1>3. Next
  BY <1>1, <1>2 DEF Next, Dispatch
<1>4. IInv'
  BY <1>3, Inductive DEF DInv
<1>5. \A o \in S : Eligible(o) /\ o \notin Oversize
  BY <1>1 DEF ClaimBatch, Selectable, Unblocked
<1>6. /\ \A o \in S : /\ attemptId'[o] = attemptId[o] + 1 /\ opStatus[o] = "pending"
                      /\ opStatus'[o] = "in_flight"
      /\ \A o \in Ops \ S : attemptId'[o] = attemptId[o] /\ opStatus'[o] = opStatus[o]
  BY <1>1, <1>5 DEF ClaimBatch, Claim, FreshAttempt, Eligible
<1>7. /\ UNCHANGED <<answer, seen, applied, reloads, conn, locked, waiting, arrival,
                     pushes, holding, released>>
      /\ \A d \in Deliveries :
           stage'[d] = stage[d] \/ (stage'[d] = "received" /\ d[1] \in S /\ d[2] = attemptId[d[1]] + 1)
      /\ UNCHANGED stage \/ \A d \in Deliveries : stage[d] = "received" => d[1] \in Slow
      /\ stage' \in [Deliveries -> Stages]
  <2>1. CASE UNCHANGED pluginVars
    BY <1>1, <2>1 DEF pluginVars, DInv, DTypeOK
  <2>2. CASE Plugin!Receive(sent(S))
    BY <1>1, <2>2 DEF Plugin!Receive, Plugin!lockVars, FreshAttempt, DInv, DTypeOK, Stages
  <2> QED BY <1>1, <2>1, <2>2
<1>8. \A o \in Ops : attemptId[o] \in Nat /\ attemptId'[o] \in Nat
                     /\ attemptId'[o] >= attemptId[o]
  <2>1. \A o \in Ops : attemptId[o] \in Nat
    BY <1>2, ConstantTypes DEF TypeOK
  <2> QED BY <1>6, <2>1
<1>9. \A d \in Deliveries : d[2] = attemptId[d[1]] + 1 => stage[d] = "unseen" /\ answer[d] = "none"
  BY <1>8, Keyed DEF DInv, Handed, DTypeOK, Stages
<1>a. Held!IInv'
  BY <1>7, HeldKeys, Held!Inductive DEF Held!LockKeysType, Held!vars, DInv
<1>b. DTypeOK' /\ SmallOnes'
  BY <1>5, <1>6, <1>7 DEF DInv, DTypeOK, SmallOnes
<1>c. OpPlaces'
  BY <1>7, <1>9 DEF DInv, OpPlaces
<1>d. Handed'
  BY <1>6, <1>7, <1>8, <1>9, Keyed DEF DInv, Handed
<1>e. Successes'
  BY <1>6, <1>7 DEF DInv, Successes
<1>f. Counted'
  BY <1>7 DEF DInv, Counted
<1>g. Turns'
  <2> SUFFICES ASSUME NEW d \in Deliveries, NEW e \in Deliveries,
                      d[1] = e[1], d[2] < e[2], KeepsItsTurn(d[1]),
                      stage'[d] \in Active, stage'[e] # "unseen"
               PROVE  /\ stage'[d] # "received" /\ stage'[e] \in {"received", "locking"}
                      /\ e \notin holding
                      /\ d \in waiting /\ e \in waiting => arrival[d] < arrival[e]
    BY <1>7 DEF Turns, KeepsItsTurn
  <2>1. stage'[d] = stage[d]
    <3>1. d[2] = attemptId[d[1]] + 1 => d[2] >= e[2]
      BY <1>1, <1>6, <1>7, <1>8, <1>9, Keyed DEF DInv, Handed
    <3> QED BY <1>7, <3>1, Keyed
  <2>2. stage'[d] # "received"
    BY <1>7, <2>1 DEF DInv, Turns, KeepsItsTurn
  <2>3. CASE stage'[e] = stage[e]
    BY <1>7, <2>1, <2>3, Keyed DEF DInv, Turns
  <2>4. CASE stage[e] = "unseen"
    BY <1>7, <2>2, <2>4 DEF DInv, OpPlaces
  <2> QED BY <1>7, <1>9, <2>3, <2>4
<1>h. Failures'
  <2> SUFFICES ASSUME NEW d \in Deliveries,
                      KeepsItsTurn(d[1]), reloads = 0, d[2] = attemptId'[d[1]]
               PROVE  /\ answer[d] \in {"retry", "failed"} =>
                           /\ d[1] \notin seen
                           /\ \A e \in Deliveries :
                                e[1] = d[1] => stage'[e] \in {"unseen", "answered", "done"}
                      /\ opStatus'[d[1]] = "dead" => answer[d] \in {"retry", "failed"}
    BY <1>7 DEF Failures, KeepsItsTurn
  <2>1. CASE d[1] \in S
    BY <1>6, <1>9, <2>1
  <2>2. CASE d[1] \notin S
    BY <1>6, <1>7, <2>2, Keyed DEF DInv, Failures
  <2> QED BY <2>1, <2>2
<1> QED BY <1>3, <1>4, <1>a, <1>b, <1>c, <1>d, <1>e, <1>f, <1>g, <1>h DEF DInv

(* An ack is applied only if it is for the attempt in flight; what it makes of
   the op is what the plugin answered. *)
LEMMA AnswerInv ==
    ASSUME DInv, IInv', PluginSame, conn' \in Conns, UNCHANGED attemptId,
           NEW d \in Deliveries, d[2] = attemptId[d[1]],
           NEW st, opStatus' = [opStatus EXCEPT ![d[1]] = st],
           \/ st = "succeeded" /\ answer[d] = "success"
           \/ st \in {"pending", "dead"} /\ answer[d] \in {"retry", "failed"}
    PROVE  DInv'
<1> USE DEF DInv, PluginSame
<1>0. d[1] \in Ops /\ TypeOK
  BY Keyed DEF IInv
<1>1. opStatus'[d[1]] = st /\ \A p \in Ops : p # d[1] => opStatus'[p] = opStatus[p]
  BY <1>0 DEF TypeOK
<1>2. Held!IInv'
  BY HeldKeys, Held!Inductive DEF Held!LockKeysType, Held!vars
<1>3. DTypeOK' /\ SmallOnes' /\ Handed'
  BY DEF DTypeOK, SmallOnes, Handed
<1>4. OpPlaces' /\ Counted' /\ Turns'
  BY DEF OpPlaces, Counted, Turns, KeepsItsTurn
<1>5. Successes'
  BY <1>0, <1>1 DEF Successes
<1>6. Failures'
  <2>1. \A e \in Deliveries : e[1] = d[1] /\ e[2] = attemptId[e[1]] => e = d
    BY Keyed
  <2>2. \A e \in Deliveries : e[1] \in Ops
    BY Keyed
  <2> QED BY <1>1, <2>1, <2>2 DEF Failures, KeepsItsTurn
<1> QED BY <1>2, <1>3, <1>4, <1>5, <1>6

LEMMA AckInv ==
    ASSUME DInv, NEW d \in Deliveries, AckArrives(d)
    PROVE  [Next]_vars /\ DInv'
<1> DEFINE o == d[1]  a == d[2]
<1>0. o \in Ops /\ conn \in Conns /\ TypeOK
  BY Keyed DEF DInv, DTypeOK, IInv
<1>1. /\ PluginSame /\ conn' \in Conns
      /\ \/ answer[d] = "success" /\ AckSuccess(o, a, conn)
         \/ answer[d] = "retry" /\ \E delay \in RetryDelays : AckRetry(o, a, conn, delay)
         \/ answer[d] = "failed" /\ AckDead(o, a, conn)
         \/ UNCHANGED vars
  BY <1>0 DEF AckArrives, linkVars, PluginSame
<1>2. CASE UNCHANGED vars
  <2>1. IInv' /\ QueueQuiet
    BY <1>2, Inductive DEF DInv, QueueQuiet, vars
  <2> QED BY <1>1, <1>2, <2>1, QuietInv
<1>3. ASSUME ~UNCHANGED vars
      PROVE  /\ InFlight(o) /\ attemptId[o] = a /\ UNCHANGED attemptId
             /\ \E st : /\ opStatus' = [opStatus EXCEPT ![o] = st]
                        /\ \/ st = "succeeded" /\ answer[d] = "success"
                           \/ st \in {"pending", "dead"} /\ answer[d] \in {"retry", "failed"}
  <2>1. CASE answer[d] = "success" /\ AckSuccess(o, a, conn)
    <3>1. InFlight(o) /\ attemptId[o] = a
      BY <2>1, AppliedHolds DEF AckSuccess
    <3>2. UNCHANGED attemptId /\ opStatus' = [opStatus EXCEPT ![o] = "succeeded"]
      BY <2>1 DEF AckSuccess, Close
    <3> QED BY <2>1, <3>1, <3>2
  <2>2. CASE answer[d] = "retry" /\ \E delay \in RetryDelays : AckRetry(o, a, conn, delay)
    <3>1. InFlight(o) /\ attemptId[o] = a
      BY <2>2, AppliedHolds DEF AckRetry
    <3>2. PICK st \in {"pending", "dead"} :
            UNCHANGED attemptId /\ opStatus' = [opStatus EXCEPT ![o] = st]
      BY <2>2 DEF AckRetry, Close
    <3> QED BY <2>2, <3>1, <3>2
  <2>3. CASE answer[d] = "failed" /\ AckDead(o, a, conn)
    <3>1. InFlight(o) /\ attemptId[o] = a
      BY <2>3, AppliedHolds DEF AckDead
    <3>2. UNCHANGED attemptId /\ opStatus' = [opStatus EXCEPT ![o] = "dead"]
      BY <2>3 DEF AckDead, Close
    <3> QED BY <2>3, <3>1, <3>2
  <2> QED BY <1>1, <1>3, <2>1, <2>2, <2>3
<1>4. CASE ~UNCHANGED vars
  <2>1. attemptId[o] \in 1 .. MaxClaims
    BY <1>0, <1>3, <1>4, CurrentAttempt DEF DInv
  <2>2. o \notin Oversize /\ a \in HandedOut(o)
    BY <1>0, <1>3, <1>4, <2>1, ConstantTypes DEF DInv, SmallOnes, HandedOut
  <2>3. Next
    BY <1>0, <1>1, <1>4, <2>2 DEF Next, WorkerAck
  <2>4. IInv'
    BY <2>3, Inductive DEF DInv
  <2> QED BY <1>1, <1>3, <1>4, <2>3, <2>4, AnswerInv
<1> QED BY <1>2, <1>4

-----------------------------------------------------------------------------
(* Steps of the plugin, under which the queue stands still. *)

LEMMA LockInv ==
    ASSUME DInv, NEW d \in Deliveries, Plugin!Lock(d), UNCHANGED <<vars, linkVars>>
    PROVE  DInv'
<1>1. /\ stage[d] = "received" /\ stage' = [stage EXCEPT ![d] = "locking"]
      /\ UNCHANGED <<answer, seen, applied, reloads, conn, opStatus, attemptId>>
  BY DEF Plugin!Lock, linkVars, vars
<1>2. /\ IInv' /\ DTypeOK' /\ SmallOnes' /\ Handed' /\ Successes' /\ Counted'
      /\ \A e \in Deliveries : e # d => stage'[e] = stage[e]
      /\ stage'[d] = "locking"
  <2>1. IInv'
    BY Inductive DEF DInv
  <2>2. DTypeOK' /\ stage'[d] = "locking" /\ \A e \in Deliveries : e # d => stage'[e] = stage[e]
    BY <1>1 DEF DInv, DTypeOK, Stages
  <2>3. SmallOnes' /\ Handed' /\ Successes' /\ Counted'
    BY <1>1, <2>2 DEF DInv, SmallOnes, Handed, Successes, Counted
  <2> QED BY <2>1, <2>2, <2>3
<1>3. /\ Held!IInv'
      /\ d \notin waiting \cup holding
      /\ \/ /\ holding' = holding \cup {d}
            /\ UNCHANGED <<waiting, arrival>>
            /\ \A e \in holding : OpLockKeys[d[1]] \cap OpLockKeys[e[1]] = {}
         \/ /\ waiting' = waiting \cup {d}
            /\ UNCHANGED holding
            /\ arrival' = [arrival EXCEPT ![d] = pushes + 1]
  BY HeldAcquire DEF DInv, Plugin!Lock
<1>4. OpPlaces'
  BY <1>1, <1>2, <1>3 DEF DInv, OpPlaces
<1>5. Turns'
  <2> SUFFICES ASSUME NEW e \in Deliveries, NEW f \in Deliveries,
                      e[1] = f[1], e[2] < f[2], KeepsItsTurn(e[1]),
                      stage'[e] \in Active, stage'[f] # "unseen"
               PROVE  /\ stage'[e] # "received" /\ stage'[f] \in {"received", "locking"}
                      /\ f \notin holding'
                      /\ e \in waiting' /\ f \in waiting' => arrival'[e] < arrival'[f]
    BY DEF Turns, KeepsItsTurn
  <2>1. stage[e] \in Active /\ stage[f] # "unseen"
    BY <1>1, <1>2 DEF Active
  <2>2. /\ stage[e] # "received" /\ stage[f] \in {"received", "locking"}
        /\ f \notin holding
        /\ e \in waiting /\ f \in waiting => arrival[e] < arrival[f]
    BY <2>1 DEF DInv, Turns
  <2>3. e # d /\ stage[e] \in {"locking", "running", "answered"}
    BY <1>1, <2>1, <2>2 DEF Active
  <2>4. e \in waiting \cup holding
    BY <2>3 DEF DInv, OpPlaces
  <2>5. CASE f # d
    BY <1>2, <1>3, <2>2, <2>3, <2>5 DEF DInv, Held!IInv, Held!TypeOK
  <2>6. CASE f = d
    <3>1. PICK h \in holding : h[1] = d[1]
      BY <2>4, <2>6, WaitsForOwn DEF DInv
    <3>2. OpLockKeys[d[1]] \cap OpLockKeys[h[1]] # {}
      BY <2>6, <3>1 DEF KeepsItsTurn
    <3>3. /\ waiting' = waiting \cup {d}
          /\ UNCHANGED holding
          /\ arrival' = [arrival EXCEPT ![d] = pushes + 1]
      BY <1>3, <3>1, <3>2
    <3>4. arrival'[d] = pushes + 1 /\ (e \in waiting => arrival'[e] <= pushes)
      BY <2>3, <3>3 DEF DInv, Held!IInv, Held!TypeOK, Held!Numbered
    <3>5. pushes \in Nat /\ arrival' \in [Deliveries -> Nat]
      BY <1>3 DEF DInv, Held!IInv, Held!TypeOK
    <3>6. e \in waiting' => e \in waiting
      BY <2>3, <3>3
    <3>7. e \in waiting' => arrival'[e] < arrival'[f]
      BY <2>6, <3>4, <3>5, <3>6
    <3> QED BY <1>2, <1>3, <2>2, <2>3, <2>6, <3>3, <3>7
  <2> QED BY <2>5, <2>6

<1>6. Failures'
  <2> SUFFICES ASSUME NEW e \in Deliveries,
                      KeepsItsTurn(e[1]), reloads = 0, e[2] = attemptId[e[1]]
               PROVE  /\ answer[e] \in {"retry", "failed"} =>
                           /\ e[1] \notin seen
                           /\ \A f \in Deliveries :
                                f[1] = e[1] => stage'[f] \in {"unseen", "answered", "done"}
                      /\ opStatus[e[1]] = "dead" => answer[e] \in {"retry", "failed"}
    BY <1>1 DEF Failures, KeepsItsTurn
  <2> QED BY <1>1, <1>2 DEF DInv, Failures
<1> QED BY <1>2, <1>3, <1>4, <1>5, <1>6 DEF DInv

(* When a delivery that has its locks gets an answer, the earlier ones of an op
   that keeps its turn are through, and the later ones are not there yet. *)
LEMMA AllAnswered ==
    ASSUME DInv, NEW d \in Deliveries, d \in holding, KeepsItsTurn(d[1]),
           d[2] = attemptId[d[1]],
           NEW e \in Deliveries, e # d, e[1] = d[1]
    PROVE  stage[e] \in {"unseen", "done"}
<1>1. stage[d] \in Active
  BY DEF DInv, OpPlaces, Active
<1>2. CASE e[2] < d[2]
  <2>1. ~(stage[e] \in Active)
    BY <1>1, <1>2 DEF DInv, Turns, Active
  <2> QED BY <2>1 DEF DInv, DTypeOK, Stages, Active
<1>3. CASE e[2] > d[2]
  BY <1>3, Keyed DEF DInv, Handed
<1>4. e[2] # d[2]
  BY Keyed
<1> QED BY <1>2, <1>3, <1>4, Keyed

(* What Start and Finish do to the stage and the answer of d. *)
Proceeds(d, st, ans) ==
    /\ stage' = [stage EXCEPT ![d] = st]
    /\ answer' = [answer EXCEPT ![d] = ans]
    /\ UNCHANGED <<reloads, conn, opStatus, attemptId, locked, waiting, arrival,
                   pushes, holding, released>>

LEMMA ProceedInv ==
    ASSUME DInv, NEW d \in Deliveries, d \in holding,
           UNCHANGED vars,
           NEW st, NEW ans, Proceeds(d, st, ans),
           seen' \subseteq Ops, applied' \in [Ops -> Nat],
           \/ st = "running" /\ ans = answer[d] /\ ans = "none"
           \/ st = "answered" /\ ans \in Results,
           stage[d] \in {"locking", "running"},
           KeepsItsTurn(d[1]) /\ ans \in {"retry", "failed"} => d[1] \notin seen',
           \A o \in Ops : o # d[1] => (o \in seen' <=> o \in seen),
           Successes', Counted'
    PROVE  DInv'
<1>1. IInv' /\ Held!IInv'
  BY Inductive, HeldKeys, Held!Inductive DEF DInv, Held!LockKeysType, Held!vars, Proceeds
<1>2. /\ stage'[d] = st /\ answer'[d] = ans
      /\ \A e \in Deliveries : e # d => stage'[e] = stage[e] /\ answer'[e] = answer[e]
      /\ d[1] \in Ops
  BY Keyed DEF Proceeds, DInv, DTypeOK
<1>3. DTypeOK' /\ SmallOnes'
  BY DEF DInv, DTypeOK, Stages, Results, SmallOnes, Proceeds
<1>4. OpPlaces' /\ Handed'
  BY <1>2 DEF DInv, OpPlaces, Handed, Proceeds
<1>5. Turns'
  <2> SUFFICES ASSUME NEW e \in Deliveries, NEW f \in Deliveries,
                      e[1] = f[1], e[2] < f[2], KeepsItsTurn(e[1]),
                      stage'[e] \in Active, stage'[f] # "unseen"
               PROVE  /\ stage'[e] # "received" /\ stage'[f] \in {"received", "locking"}
                      /\ f \notin holding
                      /\ e \in waiting /\ f \in waiting => arrival[e] < arrival[f]
    BY DEF Turns, KeepsItsTurn, Proceeds
  <2>1. stage[e] \in Active /\ stage[f] # "unseen"
    BY <1>2 DEF Active
  <2>2. /\ stage[e] # "received" /\ stage[f] \in {"received", "locking"}
        /\ f \notin holding
        /\ e \in waiting /\ f \in waiting => arrival[e] < arrival[f]
    BY <2>1 DEF DInv, Turns
  <2>3. f # d
    BY <2>2
  <2> QED BY <1>2, <2>2, <2>3
<1>6. Failures'
  <2> SUFFICES ASSUME NEW e \in Deliveries,
                      KeepsItsTurn(e[1]), reloads = 0, e[2] = attemptId[e[1]]
               PROVE  /\ answer'[e] \in {"retry", "failed"} =>
                           /\ e[1] \notin seen'
                           /\ \A f \in Deliveries :
                                f[1] = e[1] => stage'[f] \in {"unseen", "answered", "done"}
                      /\ opStatus[e[1]] = "dead" => answer'[e] \in {"retry", "failed"}
    BY DEF Failures, KeepsItsTurn, Proceeds
  <2>1. CASE e[1] # d[1]
    <3>1. e[1] \in Ops
      BY Keyed
    <3> QED BY <1>2, <2>1, <3>1 DEF DInv, Failures
  <2>2. ~(answer[e] \in {"retry", "failed"} /\ e[1] = d[1])
    BY DEF DInv, Failures
  <2>3. opStatus[e[1]] # "dead" \/ e[1] # d[1]
    BY <2>2 DEF DInv, Failures
  <2>4. CASE e = d
    <3>1. ans \in {"retry", "failed"} => st = "answered"
      OBVIOUS
    <3> QED BY <1>2, <2>3, <2>4, <3>1, AllAnswered
  <2> QED BY <1>2, <2>1, <2>2, <2>3, <2>4
<1> QED BY <1>1, <1>3, <1>4, <1>5, <1>6 DEF DInv

LEMMA StartInv ==
    ASSUME DInv, NEW d \in Deliveries, Plugin!Start(d), UNCHANGED <<vars, linkVars>>
    PROVE  DInv'
<1>1. /\ stage[d] = "locking" /\ d \in holding /\ d[1] \in Ops /\ KeyOf[d] = d[1]
      /\ UNCHANGED <<vars, seen, applied>>
      /\ answer[d] = "none" /\ answer = [answer EXCEPT ![d] = "none"]
  <2>1. /\ stage[d] = "locking" /\ d \in holding /\ d[1] \in Ops /\ KeyOf[d] = d[1]
        /\ UNCHANGED <<vars, seen, applied>>
    BY Keyed DEF Plugin!Start, Plugin!Locked
  <2>2. answer[d] = "none"
    BY <2>1 DEF DInv, DTypeOK, Handed
  <2> QED BY <2>1, <2>2 DEF DInv, DTypeOK
<1>2. \/ d[1] \in seen /\ Proceeds(d, "answered", "success")
      \/ d[1] \notin seen /\ Proceeds(d, "answered", "retry")
      \/ d[1] \notin seen /\ Proceeds(d, "running", "none")
  BY <1>1 DEF Plugin!Start, Plugin!Answer, Plugin!lockVars, Proceeds, linkVars, vars
<1>3. PICK st, ans : /\ Proceeds(d, st, ans)
                     /\ \/ st = "running" /\ ans = "none" /\ d[1] \notin seen
                        \/ st = "answered" /\ ans \in Results
                     /\ ans = "success" => d[1] \in seen
                     /\ ans \in {"retry", "failed"} => d[1] \notin seen
  BY <1>2 DEF Results
<1>4. Successes'
  BY <1>1, <1>3, Keyed DEF Proceeds, DInv, DTypeOK, Successes
<1>5. Counted'
  BY <1>1, <1>3, Keyed DEF Proceeds, DInv, DTypeOK, Counted
<1> QED BY <1>1, <1>3, <1>4, <1>5, ProceedInv DEF DInv, DTypeOK

LEMMA FinishInv ==
    ASSUME DInv, NEW d \in Deliveries, NEW r \in Results, Plugin!Finish(d, r),
           UNCHANGED <<vars, linkVars>>
    PROVE  DInv'
<1>1. /\ stage[d] = "running" /\ d \in holding /\ d[1] \in Ops /\ KeyOf[d] = d[1]
      /\ UNCHANGED vars /\ Proceeds(d, "answered", r)
      /\ IF r = "success"
         THEN seen' = seen \cup {d[1]} /\ applied' = [applied EXCEPT ![d[1]] = applied[d[1]] + 1]
         ELSE UNCHANGED <<seen, applied>>
  BY Keyed DEF Plugin!Finish, Plugin!Answer, Plugin!lockVars, DInv, OpPlaces, Proceeds, linkVars, vars
<1>2. /\ seen' \subseteq Ops /\ applied' \in [Ops -> Nat]
      /\ \A o \in Ops : o # d[1] => applied'[o] = applied[o] /\ (o \in seen' <=> o \in seen)
      /\ applied'[d[1]] = applied[d[1]] + (IF r = "success" THEN 1 ELSE 0)
      /\ applied[d[1]] \in Nat
  BY <1>1 DEF DInv, DTypeOK
<1>3. Successes'
  <2>1. \A o \in Ops : applied'[o] >= applied[o] /\ applied[o] \in Nat
    BY <1>2 DEF DInv, DTypeOK
  <2> QED BY <1>1, <1>2, <2>1, Keyed DEF Proceeds, DInv, DTypeOK, Successes
<1>4. \A e \in Deliveries : e # d /\ stage[e] = "running" /\ e[1] = d[1] => OpLockKeys[e[1]] = {}
  BY <1>1, Keyed DEF DInv, OpPlaces, Held!IInv, Held!MutualExclusion, Held!Overlap
<1>5. Counted'
  <2>1. ASSUME NEW o \in Ops, OpLockKeys[o] # {}
        PROVE  applied'[o] <= reloads + (IF o \in seen' THEN 1 ELSE 0)
    <3>1. applied[o] <= reloads + (IF o \in seen THEN 1 ELSE 0) /\ applied[o] \in Nat /\ reloads \in Nat
      BY <2>1 DEF DInv, DTypeOK, Counted
    <3>2. CASE o # d[1]
      BY <1>2, <3>1, <3>2
    <3>3. CASE o = d[1]
      BY <1>1, <1>2, <2>1, <3>1, <3>3 DEF DInv, Counted
    <3> QED BY <3>2, <3>3
  <2>2. ASSUME NEW e \in Deliveries, OpLockKeys[e[1]] # {}, stage'[e] = "running"
        PROVE  e[1] \notin seen'
    <3>1. e # d /\ stage[e] = "running"
      BY <1>1, <2>2 DEF Proceeds, DInv, DTypeOK
    <3>2. e[1] # d[1] /\ e[1] \in Ops
      BY <1>4, <2>2, <3>1, Keyed
    <3> QED BY <1>2, <2>2, <3>1, <3>2 DEF DInv, Counted
  <2>3. UNCHANGED reloads
    BY <1>1 DEF Proceeds
  <2> QED BY <2>1, <2>2, <2>3 DEF Counted
<1>6. KeepsItsTurn(d[1]) /\ r \in {"retry", "failed"} => d[1] \notin seen'
  BY <1>1 DEF DInv, Counted, KeepsItsTurn
<1> QED BY <1>1, <1>2, <1>3, <1>5, <1>6, ProceedInv

LEMMA LetGoInv ==
    ASSUME DInv, NEW d \in Deliveries, Plugin!LetGo(d), UNCHANGED <<vars, linkVars>>
    PROVE  DInv'
<1>1. /\ stage[d] = "answered" /\ stage' = [stage EXCEPT ![d] = "done"]
      /\ UNCHANGED <<answer, seen, applied, reloads, conn, opStatus, attemptId>>
      /\ Plugin!Locks!Release(d)
  BY DEF Plugin!LetGo, linkVars, vars
<1>2. /\ stage'[d] = "done"
      /\ \A e \in Deliveries : e # d => stage'[e] = stage[e]
  BY <1>1 DEF DInv, DTypeOK
<1>3. Held!IInv' /\ d \in holding
  BY <1>1, HeldRelease DEF DInv
<1>4. PICK G : Served(d, G)
  BY <1>1, HeldRelease DEF DInv
<1>5. IInv'
  BY Inductive DEF DInv
<1>6. DTypeOK' /\ SmallOnes' /\ Handed' /\ Successes' /\ Counted'
  <2>1. DTypeOK' /\ SmallOnes' /\ Successes'
    BY <1>1 DEF DInv, DTypeOK, Stages, SmallOnes, Successes
  <2>2. Handed' /\ Counted'
    BY <1>1, <1>2 DEF DInv, Handed, Counted
  <2> QED BY <2>1, <2>2
<1>7. OpPlaces'
  BY <1>1, <1>2, <1>3, <1>4 DEF DInv, OpPlaces, Served
<1>8. Turns'
  <2> SUFFICES ASSUME NEW e \in Deliveries, NEW f \in Deliveries,
                      e[1] = f[1], e[2] < f[2], KeepsItsTurn(e[1]),
                      stage'[e] \in Active, stage'[f] # "unseen"
               PROVE  /\ stage'[e] # "received" /\ stage'[f] \in {"received", "locking"}
                      /\ f \notin holding'
                      /\ e \in waiting' /\ f \in waiting' => arrival'[e] < arrival'[f]
    BY DEF Turns, KeepsItsTurn
  <2>1. e # d /\ stage[e] \in Active
    BY <1>2 DEF Active
  <2>2. /\ stage[e] # "received" /\ stage[f] \in {"received", "locking"}
        /\ f \notin holding
        /\ e \in waiting /\ f \in waiting => arrival[e] < arrival[f]
    BY <1>1, <1>2, <2>1 DEF DInv, Turns
  <2>3. f # d
    BY <1>1, <2>2
  <2>4. e \in waiting \cup holding
    BY <2>1, <2>2 DEF DInv, OpPlaces, Active
  <2>5. OpLockKeys[f[1]] \cap OpLockKeys[e[1]] # {}
    BY DEF KeepsItsTurn
  <2>6. f \notin G
    BY <1>4, <2>1, <2>2, <2>4, <2>5 DEF Served
  <2> QED BY <1>2, <1>4, <2>1, <2>2, <2>3, <2>6 DEF Served
<1>9. Failures'
  <2> SUFFICES ASSUME NEW e \in Deliveries,
                      KeepsItsTurn(e[1]), reloads = 0, e[2] = attemptId[e[1]]
               PROVE  /\ answer[e] \in {"retry", "failed"} =>
                           /\ e[1] \notin seen
                           /\ \A f \in Deliveries :
                                f[1] = e[1] => stage'[f] \in {"unseen", "answered", "done"}
                      /\ opStatus[e[1]] = "dead" => answer[e] \in {"retry", "failed"}
    BY <1>1 DEF Failures, KeepsItsTurn
  <2> QED BY <1>1, <1>2 DEF DInv, Failures
<1> QED BY <1>3, <1>5, <1>6, <1>7, <1>8, <1>9 DEF DInv

LEMMA ReloadInv ==
    ASSUME DInv, ReloadPlugin
    PROVE  UNCHANGED vars /\ DInv'
<1>1. /\ UNCHANGED <<vars, answer, applied, opStatus, attemptId>>
      /\ stage' = [d \in Deliveries |-> IF stage[d] = "unseen" THEN "unseen" ELSE "done"]
      /\ seen' = {} /\ holding' = {} /\ waiting' = {} /\ reloads' = reloads + 1
      /\ conn' \in Conns
  BY DEF ReloadPlugin, NewConnection, Plugin!Reload, vars
<1>2. IInv'
  BY <1>1, Inductive DEF DInv
<1>3. Held!IInv'
  BY DEF ReloadPlugin, Plugin!Reload, DInv, Held!IInv, Held!TypeOK, Held!MutualExclusion,
         Held!LockedIsHeld, Held!KeysOf, Held!NoLostWakeup, Held!Granted, Held!Numbered
<1>4. DTypeOK' /\ SmallOnes' /\ OpPlaces' /\ Handed' /\ Successes'
  BY <1>1 DEF DInv, DTypeOK, Stages, SmallOnes, OpPlaces, Handed, Successes
<1>5. Counted'
  <2>1. \A o \in Ops : OpLockKeys[o] # {} => applied[o] <= reloads + 1
    BY DEF DInv, DTypeOK, Counted
  <2> QED BY <1>1, <2>1 DEF Counted, DInv, DTypeOK
<1>6. Turns' /\ Failures'
  BY <1>1 DEF Turns, Failures, Active, DInv, DTypeOK
<1> QED BY <1>1, <1>2, <1>3, <1>4, <1>5, <1>6 DEF DInv

-----------------------------------------------------------------------------
LEMMA DeliveryStep ==
    ASSUME DInv, [DNext]_allVars
    PROVE  DInv' /\ [Next]_vars
<1>1. CASE QueueAlone
  BY <1>1, QueueAloneStep
<1>2. CASE DispatchBatch
  BY <1>2, DispatchInv
<1>3. CASE PluginAlone
  <2>1. PICK d \in Deliveries :
           \/ Plugin!Lock(d)
           \/ Plugin!Start(d)
           \/ \E r \in Results : Plugin!Finish(d, r)
           \/ Plugin!LetGo(d)
    BY <1>3 DEF PluginAlone, Results
  <2>2. UNCHANGED <<vars, linkVars>> /\ UNCHANGED vars
    BY <1>3 DEF PluginAlone
  <2>3. CASE Plugin!Lock(d)
    BY <2>2, <2>3, LockInv
  <2>4. CASE Plugin!Start(d)
    BY <2>2, <2>4, StartInv
  <2>5. CASE \E r \in Results : Plugin!Finish(d, r)
    BY <2>2, <2>5, FinishInv
  <2>6. CASE Plugin!LetGo(d)
    BY <2>2, <2>6, LetGoInv
  <2> QED BY <2>1, <2>2, <2>3, <2>4, <2>5, <2>6
<1>4. CASE Extend
  BY <1>4, ExtendStepInv
<1>5. CASE \E d \in Deliveries : AckArrives(d)
  BY <1>5, AckInv
<1>6. CASE Reconnect
  BY <1>6, ReconnectInv
<1>7. CASE ReloadPlugin
  BY <1>7, ReloadInv
<1>8. CASE UNCHANGED allVars
  <2>1. UNCHANGED vars /\ PluginSame /\ UNCHANGED conn
    BY <1>8 DEF allVars, pluginVars, linkVars, PluginSame
  <2>2. IInv' /\ QueueQuiet
    BY <2>1, Inductive DEF DInv, QueueQuiet, vars
  <2> QED BY <2>1, <2>2, QuietInv DEF DInv, DTypeOK
<1> QED BY <1>1, <1>2, <1>3, <1>4, <1>5, <1>6, <1>7, <1>8 DEF DNext

THEOREM DeliveryInvariance == DSpec => []DInv
  BY InitDInv, DeliveryStep, PTL DEF DSpec

(* The queue of the whole is QueueStore: what is proved of it holds here. *)
THEOREM DeliveryUsesQueue == DSpec => Spec
<1>1. DInit => Init
  BY DEF DInit
<1> QED BY <1>1, DeliveryInvariance, DeliveryStep, PTL DEF DSpec, Spec

(* Whatever leases lapse, acks get lost and connections break: an op with a
   lock key is done at most once in a life of the plugin. *)
THEOREM DoneOncePerLife == DSpec => []AtMostOncePerLife
<1>1. DInv => AtMostOncePerLife
  <2> SUFFICES ASSUME DInv, NEW o \in Ops, OpLockKeys[o] # {}
               PROVE  applied[o] <= 1 + reloads
    BY Keyed DEF AtMostOncePerLife
  <2>1. applied[o] <= reloads + (IF o \in seen THEN 1 ELSE 0)
    BY DEF DInv, Counted
  <2> QED BY <2>1 DEF DInv, DTypeOK
<1> QED BY <1>1, DeliveryInvariance, PTL

(* What the queue says of an op agrees with what the plugin has done. *)
THEOREM VerdictsAreTrue == DSpec => []VerdictIsTrue
<1>1. DInv => VerdictIsTrue
  <2> SUFFICES ASSUME DInv, NEW o \in Ops
               PROVE  /\ opStatus[o] = "succeeded" => applied[o] >= 1
                      /\ KeepsItsTurn(o) /\ opStatus[o] = "dead" /\ reloads = 0
                           => applied[o] = 0
    BY DEF VerdictIsTrue
  <2>1. opStatus[o] = "succeeded" => applied[o] >= 1
    BY DEF DInv, Successes
  <2>2. ASSUME KeepsItsTurn(o), opStatus[o] = "dead", reloads = 0
        PROVE  applied[o] = 0
    <3>1. attemptId[o] \in 1 .. MaxClaims
      <4>1. attemptId[o] \in 0 .. MaxClaims
        BY DEF DInv, IInv, TypeOK
      <4>2. attemptId[o] > 0
        BY <2>2 DEF DInv, IInv, AttemptAudit
      <4> QED BY <4>1, <4>2, ConstantTypes
    <3>2. <<o, attemptId[o]>> \in Deliveries
      BY <3>1 DEF Deliveries
    <3>3. o \notin seen
      BY <2>2, <3>2 DEF DInv, Failures
    <3> QED BY <2>2, <3>3 DEF DInv, DTypeOK, Counted, KeepsItsTurn
  <2> QED BY <2>1, <2>2
<1> QED BY <1>1, DeliveryInvariance, PTL
=============================================================================
