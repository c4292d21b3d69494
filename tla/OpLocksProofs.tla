--------------------------- MODULE OpLocksProofs ---------------------------
(***************************************************************************)
(* For every set of requests and keys: ops that share a key never run      *)
(* together, exactly the keys of the running ops are locked, and no        *)
(* wakeup is lost.  The three depend on each other: a waiter is granted by *)
(* what is locked, which must be what is held; and nothing is granted when *)
(* a request arrives because nothing was grantable before.                 *)
(***************************************************************************)
EXTENDS OpLocksLoop, WellFoundedInduction, TLAPS

LEMMA KeysOfType == ASSUME NEW S \in SUBSET Requests
                    PROVE  KeysOf(S) \subseteq Keys
  BY LockKeysType DEF KeysOf

(* Granted requests overlap neither what is locked nor each other. *)
LEMMA GrantedDisjoint ==
  ASSUME NEW lk, NEW W \in SUBSET Requests, arrival \in [Requests -> Nat],
         \A r, q \in W : arrival[r] = arrival[q] => r = q,
         NEW r \in Granted(lk, W)
  PROVE  /\ r \in W
         /\ LockKeys[r] \cap lk = {}
         /\ \A q \in Granted(lk, W) : r # q => ~Overlap(r, q)
<1>1. r \in W /\ LockKeys[r] \cap lk = {}
  BY DEF Granted
<1>2. ASSUME NEW q \in Granted(lk, W), r # q
      PROVE  ~Overlap(r, q)
  <2>1. q \in W /\ q \in Requests /\ r \in Requests
    BY <1>1 DEF Granted
  <2>2. arrival[q] < arrival[r] \/ arrival[r] < arrival[q]
    BY <1>1, <1>2, <2>1
  <2>3. CASE arrival[q] < arrival[r]
    BY <2>1, <2>3 DEF Granted, Overlap
  <2>4. CASE arrival[r] < arrival[q]
    BY <1>1, <1>2, <2>4 DEF Granted, Overlap
  <2> QED BY <2>2, <2>3, <2>4
<1> QED BY <1>1, <1>2

(* After a drain there is nothing left to grant. *)
LEMMA DrainIsComplete ==
  ASSUME NEW lk, NEW W \in SUBSET Requests
  PROVE  LET G == Granted(lk, W) IN Granted(lk \cup KeysOf(G), W \ G) = {}
<1> DEFINE G == Granted(lk, W)
<1> SUFFICES ASSUME NEW r \in Granted(lk \cup KeysOf(G), W \ G)
             PROVE  FALSE
  OBVIOUS
<1>1. r \in W /\ r \notin G /\ LockKeys[r] \cap (lk \cup KeysOf(G)) = {}
  BY DEF Granted
<1>2. PICK q \in W : arrival[q] < arrival[r] /\ Overlap(q, r)
  BY <1>1 DEF Granted
<1>3. q \in G
  BY <1>2 DEF Granted
<1>4. LockKeys[q] \subseteq KeysOf(G)
  BY <1>3 DEF KeysOf
<1> QED BY <1>1, <1>2, <1>4 DEF Overlap

LEMMA InitIInv == Init => IInv
  BY LockKeysType DEF Init, IInv, TypeOK, MutualExclusion, LockedIsHeld,
     NoLostWakeup, Numbered, Granted, KeysOf

LEMMA AcquireNowIInv ==
  ASSUME IInv, NEW r \in Requests, AcquireNow(r)
  PROVE  IInv'
<1> USE DEF IInv
<1>1. TypeOK'
  BY LockKeysType DEF TypeOK, AcquireNow
<1>2. MutualExclusion'
  <2> SUFFICES ASSUME NEW p \in holding', NEW q \in holding', p # q
               PROVE  ~Overlap(p, q)
    BY DEF MutualExclusion, Overlap
  <2>1. \A s \in holding : LockKeys[s] \subseteq locked
    BY DEF LockedIsHeld, KeysOf
  <2> QED BY <2>1 DEF AcquireNow, MutualExclusion, Overlap
<1>3. LockedIsHeld'
  BY DEF LockedIsHeld, KeysOf, AcquireNow
<1>4. NoLostWakeup'
  BY DEF NoLostWakeup, Granted, AcquireNow, Overlap
<1>5. Numbered'
  BY DEF Numbered, AcquireNow
<1> QED BY <1>1, <1>2, <1>3, <1>4, <1>5

(* The newcomer is blocked by what is locked, and comes last: the drain that
   follows its push grants nothing. *)
LEMMA EnqueueIInv ==
  ASSUME IInv, NEW r \in Requests, Enqueue(r)
  PROVE  IInv'
<1> USE DEF IInv
<1>1. TypeOK'
  BY DEF TypeOK, Enqueue
<1>2. MutualExclusion' /\ LockedIsHeld'
  BY DEF MutualExclusion, LockedIsHeld, KeysOf, Overlap, Enqueue
<1>3. /\ r \notin waiting
      /\ arrival'[r] = pushes + 1
      /\ \A q \in waiting : arrival'[q] = arrival[q] /\ arrival[q] < pushes + 1
  BY DEF TypeOK, Numbered, Enqueue, Fresh
<1>4. NoLostWakeup'
  <2> SUFFICES ASSUME NEW s \in Granted(locked, waiting)'
               PROVE  FALSE
    BY DEF NoLostWakeup
  <2>1. s \in waiting' /\ LockKeys[s] \cap locked = {}
    BY DEF Granted, Enqueue
  <2>2. s # r /\ s \in waiting
    BY <2>1 DEF Enqueue
  <2>3. PICK q \in waiting : arrival[q] < arrival[s] /\ Overlap(q, s)
    BY <2>1, <2>2 DEF NoLostWakeup, Granted
  <2>4. q \in waiting' /\ arrival'[q] < arrival'[s]
    BY <1>3, <2>2, <2>3 DEF Enqueue
  <2> QED BY <2>3, <2>4 DEF Granted, Overlap
<1>5. Numbered'
  <2>1. pushes' = pushes + 1 /\ waiting' = waiting \cup {r} /\ pushes \in Nat
    BY DEF TypeOK, Enqueue
  <2>2. \A q \in waiting : arrival[q] \in Nat /\ arrival[q] <= pushes
    BY DEF TypeOK, Numbered
  <2>3. \A q \in waiting' : arrival'[q] <= pushes'
    BY <1>3, <2>1, <2>2
  <2>4. \A p, q \in waiting' : arrival'[p] = arrival'[q] => p = q
    BY <1>3, <2>1, <2>2 DEF Numbered
  <2> QED BY <2>3, <2>4 DEF Numbered
<1> QED BY <1>1, <1>2, <1>4, <1>5

(* A release serves exactly those whom the freed keys unblock. *)
LEMMA ReleaseIInv ==
  ASSUME IInv, NEW r \in Requests, Release(r)
  PROVE  IInv'
<1> USE DEF IInv
<1> DEFINE lk == locked \ LockKeys[r]
           G == Granted(lk, waiting)
<1>1. /\ r \in holding
      /\ locked' = lk \cup KeysOf(G)
      /\ waiting' = waiting \ G
      /\ holding' = (holding \ {r}) \cup G
      /\ released' = released \cup {r}
      /\ UNCHANGED <<arrival, pushes>>
  <2>1. CASE LockKeys[r] = {}
    <3>1. lk = locked /\ G = {}
      BY <2>1 DEF NoLostWakeup
    <3> QED BY <2>1, <3>1 DEF Release
  <2>2. CASE LockKeys[r] # {}
    BY <2>2 DEF Release
  <2> QED BY <2>1, <2>2
<1>2. G \subseteq waiting /\ G \subseteq Requests
  BY DEF Granted, TypeOK
<1>3. \A s \in G : LockKeys[s] \cap lk = {} /\ \A q \in G : s # q => ~Overlap(s, q)
  BY GrantedDisjoint DEF TypeOK, Numbered
<1>4. TypeOK'
  BY <1>1, <1>2, KeysOfType DEF TypeOK
<1>5. lk = KeysOf(holding \ {r})
  BY <1>1 DEF MutualExclusion, LockedIsHeld, KeysOf, Overlap
<1>6. MutualExclusion'
  <2> SUFFICES ASSUME NEW p \in holding', NEW q \in holding', p # q
               PROVE  ~Overlap(p, q)
    BY DEF MutualExclusion, Overlap
  <2>1. \A s \in holding \ {r} : LockKeys[s] \subseteq lk
    BY <1>5 DEF KeysOf
  <2>2. CASE p \in holding \ {r} /\ q \in holding \ {r}
    BY <2>2 DEF MutualExclusion
  <2>3. CASE p \in G /\ q \in G
    BY <1>3, <2>3
  <2>4. CASE p \in G /\ q \in holding \ {r}
    BY <1>3, <2>1, <2>4 DEF Overlap
  <2>5. CASE p \in holding \ {r} /\ q \in G
    BY <1>3, <2>1, <2>5 DEF Overlap
  <2> QED BY <1>1, <2>2, <2>3, <2>4, <2>5
<1>7. LockedIsHeld'
  BY <1>1, <1>5 DEF LockedIsHeld, KeysOf
<1>8. NoLostWakeup'
  <2>1. Granted(lk \cup KeysOf(G), waiting \ G) = {}
    BY DrainIsComplete DEF TypeOK
  <2>2. Granted(locked, waiting)' = Granted(lk \cup KeysOf(G), waiting \ G)
    BY <1>1 DEF Granted, Overlap
  <2> QED BY <2>1, <2>2 DEF NoLostWakeup
<1>9. Numbered'
  BY <1>1 DEF Numbered
<1> QED BY <1>4, <1>6, <1>7, <1>8, <1>9

LEMMA Inductive == IInv /\ [Next]_vars => IInv'
<1> SUFFICES ASSUME IInv, [Next]_vars PROVE IInv'
  OBVIOUS
<1>1. ASSUME NEW r \in Requests, Acquire(r) PROVE IInv'
  BY <1>1, AcquireNowIInv, EnqueueIInv DEF Acquire
<1>2. ASSUME NEW r \in Requests, Release(r) PROVE IInv'
  BY <1>2, ReleaseIInv
<1>3. CASE UNCHANGED vars
  BY <1>3 DEF vars, IInv, TypeOK, MutualExclusion, LockedIsHeld, NoLostWakeup,
     Numbered, Granted, KeysOf, Overlap
<1> QED BY <1>1, <1>2, <1>3 DEF Next

THEOREM LocksInvariance == Spec => []IInv
  BY InitIInv, Inductive, PTL DEF Spec

(* OpLockManager keeps conflicting ops apart, for any ops and keys. *)
THEOREM LocksExclude == Spec => []MutualExclusion
<1>1. IInv => MutualExclusion
  BY DEF IInv
<1> QED BY <1>1, LocksInvariance, PTL

(* No key leaks and none is freed early. *)
THEOREM LocksAccounted == Spec => []LockedIsHeld
<1>1. IInv => LockedIsHeld
  BY DEF IInv
<1> QED BY <1>1, LocksInvariance, PTL

(* Whoever waits is blocked: drain forgets nobody. *)
THEOREM WakeupsNotLost == Spec => []NoLostWakeup
<1>1. IInv => NoLostWakeup
  BY DEF IInv
<1> QED BY <1>1, LocksInvariance, PTL

(* Nobody waits for what it holds. *)
Parted == holding \cap waiting = {}

LEMMA PartedStep == Parted /\ [Next]_vars => Parted'
<1> SUFFICES ASSUME Parted, [Next]_vars PROVE Parted'
  OBVIOUS
<1>1. ASSUME NEW r \in Requests, Acquire(r) PROVE Parted'
  BY <1>1 DEF Acquire, AcquireNow, Enqueue, Fresh, Parted
<1>2. ASSUME NEW r \in Requests, Release(r) PROVE Parted'
  BY <1>2 DEF Release, Parted
<1>3. CASE UNCHANGED vars
  BY <1>3 DEF vars, Parted
<1> QED BY <1>1, <1>2, <1>3 DEF Next

LEMMA GrantedInOrder ==
  ASSUME IInv, Parted, [Next]_vars, NEW r \in holding' \cap waiting, NEW q \in waiting',
         Overlap(r, q)
  PROVE  arrival[r] < arrival[q]
<1>1. ASSUME NEW s \in Requests, Acquire(s) PROVE FALSE
  BY <1>1 DEF Acquire, AcquireNow, Enqueue, Fresh, Parted
<1>2. ASSUME NEW s \in Requests, Release(s) PROVE arrival[r] < arrival[q]
  <2> DEFINE G == Granted(locked \ LockKeys[s], waiting)
  <2>1. r \in G
    BY <1>2 DEF Release, Parted
  <2>2. q \in waiting \ G
    BY <1>2, <2>1 DEF Release, Parted
  <2>3. ~(arrival[q] < arrival[r])
    BY <2>1, <2>2 DEF Granted, Overlap
  <2>4. arrival[q] # arrival[r]
    BY <2>1, <2>2 DEF IInv, Numbered
  <2>5. arrival[q] \in Nat /\ arrival[r] \in Nat
    BY <2>2 DEF IInv, TypeOK
  <2> QED BY <2>3, <2>4, <2>5
<1>3. ~UNCHANGED vars
  BY DEF vars, Parted
<1> QED BY <1>1, <1>2, <1>3 DEF Next

(* drain passes over an earlier waiter only for what shares no key with it. *)
THEOREM ServedInOrder == Spec => WaitersInOrder
<1>1. Init => Parted
  BY DEF Init, Parted
<1>2. Spec => []Parted
  BY <1>1, PartedStep, PTL DEF Spec
<1>3. IInv /\ Parted /\ [Next]_vars
        => [\A r \in holding' \cap waiting, q \in waiting' :
              Overlap(r, q) => arrival[r] < arrival[q]]_vars
  BY GrantedInOrder
<1> QED BY <1>2, <1>3, LocksInvariance, PTL DEF Spec, WaitersInOrder

-----------------------------------------------------------------------------
(* The loop of drain.  What its turns come to is shown by UpTo, which rests
   on there being a least turn that it does not hold for. *)

Before == OpToRel(<, Nat)

LEMMA FirstOf ==
    ASSUME NEW T, T \subseteq Nat, T # {}
    PROVE  \E x \in T : \A y \in T : x <= y
<1>1. Before = {p \in Nat \X Nat : p[1] < p[2]}
  BY DEF Before, OpToRel
<1>2. PICK x \in T : \A y \in T : <<y, x>> \notin Before
  BY NatLessThanWellFounded, WFMin DEF Before
<1>3. \A y \in T : ~(y < x)
  BY <1>1, <1>2
<1> QED BY <1>3

LEMMA UpTo ==
    ASSUME NEW k \in Nat, NEW S, 0 \in S, \A n \in 1 .. k : n - 1 \in S => n \in S
    PROVE  0 .. k \subseteq S
<1> DEFINE T == (0 .. k) \ S
<1> SUFFICES ASSUME T # {} PROVE FALSE
  OBVIOUS
<1>a. T \subseteq Nat
  OBVIOUS
<1>1. PICK n \in T : \A m \in T : n <= m
  <2> HIDE DEF T
  <2> QED BY <1>a, FirstOf
<1>2. n \in 1 .. k /\ n - 1 \in 0 .. k
  BY <1>1
<1> QED BY <1>1, <1>2

(* Numbers are given from 1. *)
FromOne == \A r \in waiting : arrival[r] \in 1 .. pushes

LEMMA FromOneStep == IInv /\ FromOne /\ [Next]_vars => FromOne'
<1> SUFFICES ASSUME IInv, FromOne, [Next]_vars PROVE FromOne'
  OBVIOUS
<1>1. ASSUME NEW r \in Requests, AcquireNow(r) PROVE FromOne'
  BY <1>1 DEF AcquireNow, FromOne
<1>2. ASSUME NEW r \in Requests, Enqueue(r) PROVE FromOne'
  BY <1>2 DEF Enqueue, FromOne, IInv, TypeOK
<1>3. ASSUME NEW r \in Requests, Release(r) PROVE FromOne'
  BY <1>3 DEF Release, FromOne
<1>4. CASE UNCHANGED vars
  BY <1>4 DEF vars, FromOne
<1> QED BY <1>1, <1>2, <1>3, <1>4 DEF Next, Acquire

Start(lk) == [locked |-> lk, queued |-> {}, granted |-> {}]

TurnsOf(acc, k, lk) ==
    acc = [n \in 0 .. k |-> IF n = 0 THEN Start(lk) ELSE Turn(acc[n - 1], n)]

LEMMA TurnsExist ==
    ASSUME NEW k \in Nat, NEW lk
    PROVE  \E acc : TurnsOf(acc, k, lk)
<1> DEFINE S == {n \in Nat : \E acc : TurnsOf(acc, n, lk)}
<1>1. 0 \in S
  <2> DEFINE acc == [n \in 0 .. 0 |-> Start(lk)]
  <2>1. TurnsOf(acc, 0, lk)
    BY DEF TurnsOf
  <2> QED BY <2>1
<1>2. ASSUME NEW n \in 1 .. k, n - 1 \in S PROVE n \in S
  <2>1. PICK acc : TurnsOf(acc, n - 1, lk)
    BY <1>2
  <2> DEFINE new == [m \in 0 .. n |-> IF m = n THEN Turn(acc[n - 1], n) ELSE acc[m]]
  <2>2. acc = [m \in 0 .. n - 1 |-> IF m = 0 THEN Start(lk) ELSE Turn(acc[m - 1], m)]
    BY <2>1 DEF TurnsOf
  <2>3. ASSUME NEW m \in 0 .. n
        PROVE  new[m] = IF m = 0 THEN Start(lk) ELSE Turn(new[m - 1], m)
    <3>1. CASE m = 0
      <4>1. m \in 0 .. n - 1 /\ new[m] = acc[m]
        BY <3>1
      <4> QED BY <2>2, <3>1, <4>1
    <3>2. CASE m \in 1 .. n - 1
      <4>1. m \in 0 .. n - 1 /\ new[m] = acc[m] /\ new[m - 1] = acc[m - 1] /\ m # 0
        BY <3>2
      <4> QED BY <2>2, <4>1
    <3>3. CASE m = n
      <4>1. new[m] = Turn(acc[n - 1], n) /\ new[m - 1] = acc[n - 1] /\ m # 0
        BY <3>3
      <4> QED BY <3>3, <4>1
    <3> QED BY <3>1, <3>2, <3>3
  <2>4. new = [m \in 0 .. n |-> new[m]]
    OBVIOUS
  <2>5. TurnsOf(new, n, lk)
    <3> HIDE DEF new
    <3> QED BY <2>3, <2>4 DEF TurnsOf
  <2>6. n \in Nat
    OBVIOUS
  <2> HIDE DEF new
  <2> QED BY <2>5, <2>6
<1> HIDE DEF S
<1>3. k \in S
  BY <1>1, <1>2, UpTo
<1> QED BY <1>3 DEF S

LEMMA LoopIsLastTurn ==
    ASSUME pushes \in Nat, NEW lk
    PROVE  \E acc : TurnsOf(acc, pushes, lk) /\ DrainLoop(lk) = acc[pushes]
<1> DEFINE acc == CHOOSE g : TurnsOf(g, pushes, lk)
<1>1. TurnsOf(acc, pushes, lk)
  BY TurnsExist
<1>2. DrainLoop(lk) = acc[pushes]
  BY DEF DrainLoop, TurnsOf, Start
<1> QED BY <1>1, <1>2

(* Whom the turns up to n have met. *)
Met(n) == {r \in waiting : arrival[r] <= n}

(* What is so after turn n: those met so far are granted as Granted says, and
   the keys of the others are remembered. *)
Turned(acc, n, lk) ==
    LET done == Granted(lk, waiting) \cap Met(n) IN
    acc = [locked |-> lk \cup KeysOf(done), queued |-> KeysOf(Met(n) \ done), granted |-> done]

(* A turn asks whether the keys of its waiter are free and unclaimed: that is
   whether Granted has it. *)
LEMMA TurnIsRight ==
    ASSUME TypeOK, Numbered, NEW lk, NEW n \in Nat, n # 0,
           NEW acc, Turned(acc, n - 1, lk)
    PROVE  Turned(Turn(acc, n), n, lk)
<1> DEFINE G == Granted(lk, waiting)
           done == G \cap Met(n - 1)
           w == PushedAs(n)
           keys == KeysOf(w)
<1>1. /\ acc.locked = lk \cup KeysOf(done)
      /\ acc.queued = KeysOf(Met(n - 1) \ done)
      /\ acc.granted = done
  BY DEF Turned
<1>2. Met(n) = Met(n - 1) \cup w
  BY DEF Met, PushedAs, TypeOK
<1>3. ASSUME NEW r \in w
      PROVE  /\ w = {r} /\ r \in waiting /\ keys = LockKeys[r]
             /\ \A q \in waiting : arrival[q] < arrival[r] <=> q \in Met(n - 1)
  <2>1. w = {r} /\ r \in waiting
    BY DEF PushedAs, Numbered
  <2>2. keys = LockKeys[r]
    BY <2>1 DEF KeysOf
  <2>3. ASSUME NEW q \in waiting PROVE arrival[q] < arrival[r] <=> q \in Met(n - 1)
    BY DEF PushedAs, Met, TypeOK
  <2> QED BY <2>1, <2>2, <2>3
<1>4. lk \cup KeysOf(Met(n - 1)) = acc.queued \cup acc.locked
  BY <1>1 DEF KeysOf
<1>5. ASSUME NEW r \in w
      PROVE  r \in G <=> keys \cap (acc.queued \cup acc.locked) = {}
  <2>1. r \in G <=> /\ LockKeys[r] \cap lk = {}
                    /\ \A q \in Met(n - 1) : ~Overlap(q, r)
    BY <1>3 DEF Granted, Met
  <2>2. (\A q \in Met(n - 1) : ~Overlap(q, r)) <=> LockKeys[r] \cap KeysOf(Met(n - 1)) = {}
    BY DEF Overlap, KeysOf
  <2> QED BY <1>3, <1>4, <2>1, <2>2
<1>6. CASE w = {}
  <2>1. keys = {}
    BY <1>6 DEF KeysOf
  <2>2. Turn(acc, n) = [locked |-> acc.locked, queued |-> acc.queued,
                        granted |-> acc.granted]
    BY <1>6, <2>1 DEF Turn
  <2> QED BY <1>1, <1>2, <1>6, <2>2 DEF Turned
<1>7. CASE \E r \in w : r \in G
  <2>1. PICK r \in w : r \in G
    BY <1>7
  <2>2. G \cap Met(n) = done \cup w /\ Met(n) \ (done \cup w) = Met(n - 1) \ done
    <3>1. r \notin Met(n - 1)
      BY DEF PushedAs, Met, TypeOK
    <3> QED BY <1>2, <1>3, <2>1, <3>1
  <2>3. KeysOf(done \cup w) = KeysOf(done) \cup keys
    BY DEF KeysOf
  <2>4. Turn(acc, n) = [locked |-> acc.locked \cup keys, queued |-> acc.queued,
                        granted |-> acc.granted \cup w]
    BY <1>5, <2>1 DEF Turn
  <2>5. (lk \cup KeysOf(done)) \cup keys = lk \cup KeysOf(done \cup w)
    BY <2>3
  <2> QED BY <1>1, <2>2, <2>4, <2>5 DEF Turned
<1>8. CASE \E r \in w : r \notin G
  <2>1. PICK r \in w : r \notin G
    BY <1>8
  <2>2. G \cap Met(n) = done /\ Met(n) \ done = (Met(n - 1) \ done) \cup w
    <3>1. r \notin Met(n - 1)
      BY DEF PushedAs, Met, TypeOK
    <3> QED BY <1>2, <1>3, <2>1, <3>1
  <2>3. KeysOf((Met(n - 1) \ done) \cup w) = KeysOf(Met(n - 1) \ done) \cup keys
    BY DEF KeysOf
  <2>4. Turn(acc, n) = [locked |-> acc.locked, queued |-> acc.queued \cup keys,
                        granted |-> acc.granted]
    BY <1>5, <2>1 DEF Turn
  <2> QED BY <1>1, <2>2, <2>3, <2>4 DEF Turned
<1> QED BY <1>6, <1>7, <1>8

LEMMA LoopIsRight ==
    ASSUME IInv, FromOne, NEW lk
    PROVE  LET end == DrainLoop(lk)  G == Granted(lk, waiting) IN
           end.granted = G /\ end.locked = lk \cup KeysOf(G)
<1>1. TypeOK /\ Numbered /\ pushes \in Nat
  BY DEF IInv, TypeOK
<1>2. PICK acc : TurnsOf(acc, pushes, lk) /\ DrainLoop(lk) = acc[pushes]
  BY <1>1, LoopIsLastTurn
<1>3. acc = [n \in 0 .. pushes |-> IF n = 0 THEN Start(lk) ELSE Turn(acc[n - 1], n)]
  BY <1>2 DEF TurnsOf
<1> DEFINE S == {n \in 0 .. pushes : Turned(acc[n], n, lk)}
<1>4. 0 \in S
  <2>1. Met(0) = {}
    BY <1>1 DEF Met, FromOne, TypeOK
  <2>2. acc[0] = Start(lk) /\ 0 \in 0 .. pushes
    BY <1>1, <1>3
  <2>3. KeysOf({}) = {}
    BY DEF KeysOf
  <2>4. Turned(acc[0], 0, lk)
    BY <2>1, <2>2, <2>3 DEF Turned, Start
  <2> QED BY <2>2, <2>4
<1>5. ASSUME NEW n \in 1 .. pushes, n - 1 \in S PROVE n \in S
  <2>1. n \in Nat /\ n # 0 /\ n \in 0 .. pushes
    BY <1>1
  <2>2. acc[n] = Turn(acc[n - 1], n)
    BY <1>3, <2>1
  <2>3. Turned(acc[n - 1], n - 1, lk)
    BY <1>5
  <2>4. Turned(acc[n], n, lk)
    BY <1>1, <2>1, <2>2, <2>3, TurnIsRight
  <2> QED BY <2>1, <2>4
<1> HIDE DEF S
<1>6. pushes \in S
  BY <1>1, <1>4, <1>5, UpTo
<1>7. Met(pushes) = waiting
  BY <1>1 DEF Met, FromOne
<1>8. Granted(lk, waiting) \cap waiting = Granted(lk, waiting)
  BY DEF Granted
<1> QED BY <1>2, <1>6, <1>7, <1>8 DEF S, Turned

(* The array loop of drain, which splices what it serves and steps back, does
   what the other theorems say of the set Granted. *)
THEOREM DrainGrantsGranted == Spec => []DrainIsLoop
<1>1. Init => FromOne
  BY DEF Init, FromOne
<1>2. Spec => []FromOne
  BY <1>1, FromOneStep, LocksInvariance, PTL DEF Spec
<1>3. IInv /\ FromOne => DrainIsLoop
  BY LoopIsRight DEF DrainIsLoop
<1> QED BY <1>2, <1>3, LocksInvariance, PTL
=============================================================================
