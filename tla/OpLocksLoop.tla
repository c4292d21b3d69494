---------------------------- MODULE OpLocksLoop ----------------------------
(***************************************************************************)
(* The loop of OpLockManager.drain, as it is written, and the locks with   *)
(* the set Granted of OpLocks compared with it in every state.             *)
(*                                                                         *)
(* The loop walks the array in the order in which the waiters were pushed. *)
(* Here it takes a turn for every number a waiter was ever pushed under;   *)
(* where that waiter is gone, the turn does nothing.                       *)
(***************************************************************************)
EXTENDS OpLocks

PushedAs(n) == {r \in waiting : arrival[r] = n}

(* One turn of the loop: serve the waiter, or remember its keys. *)
Turn(acc, n) ==
    LET w == PushedAs(n)  keys == KeysOf(w) IN
    IF keys \cap (acc.queued \cup acc.locked) = {}
    THEN [locked |-> acc.locked \cup keys, queued |-> acc.queued,
          granted |-> acc.granted \cup w]
    ELSE [locked |-> acc.locked, queued |-> acc.queued \cup keys,
          granted |-> acc.granted]

DrainLoop(lk) ==
    LET acc[n \in 0 .. pushes] ==
            IF n = 0 THEN [locked |-> lk, queued |-> {}, granted |-> {}]
            ELSE Turn(acc[n - 1], n)
    IN acc[pushes]

(* The loop grants what Granted says, and locks their keys, from what is
   locked now and from what any release would leave locked. *)
DrainIsLoop ==
    \A lk \in {locked} \cup {locked \ LockKeys[r] : r \in holding} :
        LET end == DrainLoop(lk)  G == Granted(lk, waiting) IN
        end.granted = G /\ end.locked = lk \cup KeysOf(G)
=============================================================================
