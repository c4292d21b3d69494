-------------------------- MODULE MCWriteDelivery --------------------------
(* One op and its deliveries, on up to two connections. *)
EXTENDS WriteDelivery, TLC

CONSTANTS o1, t1, c1, c2, k1

MCTxnOf == o1 :> t1
MCOpSeq == o1 :> 1
MCNoConflicts == o1 :> {}
MCZero == o1 :> 0
MCOne == o1 :> 1

(* The op works on a Rem that its payload names. *)
MCRemLock == o1 :> {k1}

(* The op creates a Rem without a parent_id: no lock keys. *)
MCNoLock == o1 :> {}

MCSymmetry == Permutations({c1, c2})
=============================================================================
