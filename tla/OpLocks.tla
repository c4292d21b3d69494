------------------------------ MODULE OpLocks ------------------------------
(***************************************************************************)
(* OpLockManager of packages/plugin/src/bridge/opConcurrency.ts: an op     *)
(* takes all its lock keys at once, or waits for all of them.              *)
(*                                                                         *)
(* The array of waiters is kept as the set waiting and the number arrival  *)
(* under which each of them was pushed: removing an element of the array   *)
(* (splice) keeps the order of the others, as removing it from the set     *)
(* does.  JavaScript runs acquire, release and drain without interruption, *)
(* so each call is one step; the promise of a waiter is resolved there,    *)
(* and when its op notices is up to the module that uses the locks.        *)
(***************************************************************************)
EXTENDS Integers

CONSTANTS Requests, Keys, LockKeys

ASSUME LockKeysType == LockKeys \in [Requests -> SUBSET Keys]

VARIABLES
    locked,   \* OpLockManager.locked
    waiting,  \* the requests of OpLockManager.waiters
    arrival,  \* their order
    pushes,   \* how many requests have ever been pushed
    holding,  \* requests whose promise is resolved and not yet released
    released  \* requests that called their release function

vars == <<locked, waiting, arrival, pushes, holding, released>>

Init ==
    /\ locked = {}
    /\ waiting = {}
    /\ arrival = [r \in Requests |-> 0]
    /\ pushes = 0
    /\ holding = {}
    /\ released = {}

KeysOf(S) == UNION {LockKeys[r] : r \in S}

Overlap(r, q) == LockKeys[r] \cap LockKeys[q] # {}

(* Slip: only asks whether the keys are free. *)
GrantedIfFree(lk, W) == {r \in W : LockKeys[r] \cap lk = {}}

(* Slip: stops at the first waiter it cannot serve. *)
GrantedFirst(lk, W) ==
    {r \in W : LockKeys[r] \cap lk = {} /\ \A q \in W : arrival[r] <= arrival[q]}

(* What drain grants when lk is locked and W waits.  The loop collects in
   queuedKeys the keys of the waiters it passes over and in locked those of
   the waiters it serves: a waiter is served when its keys are free and it
   shares none with any waiter pushed before it. *)
Granted(lk, W) ==
    {r \in W : /\ LockKeys[r] \cap lk = {}
               /\ \A q \in W : arrival[q] < arrival[r] => ~Overlap(q, r)}

Fresh(r) == r \notin waiting \cup holding \cup released

(* Slip: a request that finds its keys free does not lock them. *)
AcquireWithoutLocking(r) ==
    /\ Fresh(r)
    /\ LockKeys[r] \cap locked = {}
    /\ holding' = holding \cup {r}
    /\ UNCHANGED <<locked, waiting, arrival, pushes, released>>

(* acquire, the fast path: all keys are free (or there are none). *)
AcquireNow(r) ==
    /\ Fresh(r)
    /\ LockKeys[r] \cap locked = {}
    /\ locked' = locked \cup LockKeys[r]
    /\ holding' = holding \cup {r}
    /\ UNCHANGED <<waiting, arrival, pushes, released>>

(* acquire, otherwise: push and drain.  The drain grants nothing: nobody
   became unblocked, and the newcomer is blocked. *)
Enqueue(r) ==
    /\ Fresh(r)
    /\ LockKeys[r] \cap locked # {}
    /\ pushes' = pushes + 1
    /\ arrival' = [arrival EXCEPT ![r] = pushes + 1]
    /\ waiting' = waiting \cup {r}
    /\ UNCHANGED <<locked, holding, released>>

Acquire(r) == AcquireNow(r) \/ Enqueue(r)

(* Slip: the keys are freed and nobody is woken. *)
ReleaseWithoutDrain(r) ==
    /\ r \in holding
    /\ locked' = locked \ LockKeys[r]
    /\ holding' = holding \ {r}
    /\ released' = released \cup {r}
    /\ UNCHANGED <<waiting, arrival, pushes>>

(* The release function, called once (runOne, finally). *)
Release(r) ==
    /\ r \in holding
    /\ LET lk == locked \ LockKeys[r]
           G == IF LockKeys[r] = {} THEN {} ELSE Granted(lk, waiting)
       IN /\ locked' = lk \cup KeysOf(G)
          /\ waiting' = waiting \ G
          /\ holding' = (holding \ {r}) \cup G
    /\ released' = released \cup {r}
    /\ UNCHANGED <<arrival, pushes>>

Next == \E r \in Requests : Acquire(r) \/ Release(r)

Spec == Init /\ [][Next]_vars

(* An op that holds its locks comes to an end. *)
FairSpec == Spec /\ \A r \in Requests : WF_vars(Release(r))

-----------------------------------------------------------------------------
(* Properties *)

TypeOK ==
    /\ locked \subseteq Keys
    /\ waiting \subseteq Requests
    /\ arrival \in [Requests -> Nat]
    /\ pushes \in Nat
    /\ holding \subseteq Requests
    /\ released \subseteq Requests

(* Two ops that share a lock key never run at the same time, in whatever
   order they are granted, queued and released. *)
MutualExclusion == \A r, q \in holding : r # q => ~Overlap(r, q)

(* The set of locked keys is exactly what the running ops hold: no key leaks
   when an op ends, none is freed under the op that holds it. *)
LockedIsHeld == locked = KeysOf(holding)

(* No wakeup is lost: whoever waits is blocked by a running op, or by a
   waiter ahead of it. *)
NoLostWakeup == Granted(locked, waiting) = {}

(* Whoever waits gets its turn, when every op that runs ends: at last nobody
   is left waiting. *)
EveryoneServed == waiting # {} ~> waiting = {}

(* opConcurrency.ts:52: a waiter passes earlier waiters only if it shares no
   key with any of them that goes on waiting.  (A newcomer may: the fast path
   of acquire does not look at the waiters.) *)
WaitersInOrder ==
    [][\A r \in holding' \cap waiting, q \in waiting' :
         Overlap(r, q) => arrival[r] < arrival[q]]_vars

(* The waiters are numbered in the order in which they were pushed. *)
Numbered ==
    /\ \A r \in waiting : arrival[r] <= pushes
    /\ \A r, q \in waiting : arrival[r] = arrival[q] => r = q

(* The inductive invariant of OpLocksProofs. *)
IInv == TypeOK /\ MutualExclusion /\ LockedIsHeld /\ NoLostWakeup /\ Numbered
=============================================================================
