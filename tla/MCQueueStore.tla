---------------------------- MODULE MCQueueStore ----------------------------
(***************************************************************************)
(* Small stores: out of a serial transaction of two ops (a1, a2) and a     *)
(* conflict_parallel one of two ops (b1, b2).  b1 conflicts with a1, and   *)
(* b2 is the one a cfg may make oversize.                                  *)
(***************************************************************************)
EXTENDS QueueStore, TLC

CONSTANTS a1, a2, b1, b2, tA, tB, keyX, keyY

MCTxnOf == [o \in Ops |-> IF o \in {a1, a2} THEN tA ELSE tB]
MCOpSeq == [o \in Ops |-> IF o \in {a1, b1} THEN 1 ELSE 2]
MCConflictKeys == [o \in Ops |-> IF o \in {a1, b1} THEN {keyX}
                                 ELSE IF o = a2 THEN {keyY} ELSE {}]
MCDeliverAfter == [o \in Ops |-> IF o = b1 THEN 1 ELSE 0]
MCLeaseOf == [o \in Ops |-> IF o = a1 THEN 2 ELSE 1]

ConnSymmetry == Permutations(Conns)
=============================================================================
