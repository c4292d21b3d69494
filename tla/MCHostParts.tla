---------------------------- MODULE MCHostParts ----------------------------
(* One op with one lock key, which is retried at once, to deliver; of every
   command, those for both installs; and the ops to select from. *)
EXTENDS HostParts

CONSTANTS o1, t1, k1

(* The requests of MCPromotion, and its outline. *)
Asked == INSTANCE MCPromotion WITH
    Requests <- {}, Envelopes <- {}, Outline0 <- {}, MaxOps <- 4, MaxLapses <- 1,
    status <- stepStatus, made <- named

MCRequests == Asked!SmallRequests
MCPages == Asked!Pages

MCTxnOf == o1 :> t1
MCOpSeq == o1 :> 1
MCNoConflicts == o1 :> {}
MCNoDelay == o1 :> 0
MCLease == o1 :> 1
MCLockKeys == o1 :> {k1}

MCJob(do, install) ==
    [do |-> do, install |-> install, services |-> Services, force |-> TRUE,
     channel |-> install]

(* The transfer is to the own channel, and to stable from the source tree. *)
MCJobs ==
    {MCJob(do, i) : do \in {"ensure", "stop", "restart", "doctor", "transfer"},
                    i \in {"stable", "dev"}}
    \cup {[MCJob("stop", "stable") EXCEPT !.force = FALSE],
          [MCJob("transfer", "dev") EXCEPT !.channel = "stable"]}

MCTxnOps == [t1 |-> <<"move", "child">>, t2 |-> <<"update", "huge">>, t3 |-> <<"create">>]
MCBatchKeys ==
    [move |-> {"x", "p"}, update |-> {"x"}, create |-> {"p"}, huge |-> {"y"}, child |-> {"c"}]
MCBytes == [move |-> 1, update |-> 1, create |-> 2, huge |-> 5, child |-> 1]
MCNeeds == [move |-> {}, update |-> {}, create |-> {}, huge |-> {}, child |-> {"create"}]
=============================================================================
