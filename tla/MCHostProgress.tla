--------------------------- MODULE MCHostProgress ---------------------------
(* Two transactions: tA creates a Rem and one below it; tB, which reports the
   same temporary ids for Rems of its own. *)
EXTENDS HostProgress

MCTxnOf == [a1 |-> "tA", a2 |-> "tA", b1 |-> "tB"]
MCOpSeq == [a1 |-> 1, a2 |-> 2, b1 |-> 1]
MCNoKeys == [o \in Ops |-> {}]
MCNoDelay == [o \in Ops |-> 0]
MCLease == [o \in Ops |-> 1]
MCNames == [a1 |-> {"x"}, a2 |-> {"y"}, b1 |-> {}]
MCReports == [a1 |-> {"x"}, a2 |-> {"y"}, b1 |-> {"x", "y"}]
(* The plans and the outline of MCApplyPlan. *)
Cases == INSTANCE MCApplyPlan WITH
    Envelopes <- {}, Outline0 <- {}, MaxOps <- MaxSteps, MaxLapses <- PlanLapses,
    status <- stepStatus

MCEnvelopes == Cases!SmallEnvelopes
MCOutline == Cases!SmallOutline

MCNeeds == [a1 |-> {}, a2 |-> {"x"}, b1 |-> {}]
=============================================================================
