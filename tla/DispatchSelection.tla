------------------------- MODULE DispatchSelection -------------------------
(***************************************************************************)
(* Which ops a RequestOps is given: selectOpsForDispatch and               *)
(* chooseLookaheadSeed of lib/wsBridgeCoreDispatch.ts, over the queue's    *)
(* eligible ops in their order.  One worker, no lapsing leases             *)
(* (QueueStore has those), the scheduler enabled.                          *)
(*                                                                         *)
(* An op has its conflict keys, its size and the ops whose ids it needs;   *)
(* the keys stand for those of the payload before and after substitution.  *)
(* Candidates, the seed and the batch are sets of positions in that order. *)
(* Overhead is the size of an empty batch and the safety margin of 256.    *)
(***************************************************************************)
EXTENDS Integers, Sequences, FiniteSets

CONSTANTS
    TxnOps, SerialTxns,    \* the ops of each transaction, in the order of op_seq
    Keys, Bytes, Needs,    \* by op
    Wants, Budgets,        \* maxOpsEffective and maxBytesEffective of requests
    MaxOpBytes, Overhead,
    PeekLimit,             \* 50 to 500 in the code
    MinWindow, MaxWindow, WindowPerOp   \* 8, 12 and 4

OpsOf(t) == {TxnOps[t][i] : i \in DOMAIN TxnOps[t]}

Ops == UNION {OpsOf(t) : t \in DOMAIN TxnOps}

SelectionConstants ==
    /\ \A t \in DOMAIN TxnOps : TxnOps[t] \in Seq(Ops)
    /\ Bytes \in [Ops -> Nat] /\ Overhead \in Nat /\ MaxOpBytes \in Nat
    /\ Wants \subseteq Nat /\ Budgets \subseteq Nat
    /\ PeekLimit \in Nat /\ MinWindow \in Nat /\ MaxWindow \in Nat /\ WindowPerOp \in Nat

VARIABLES
    order,   \* the ops that have been enqueued, oldest first
    status,
    waiting  \* pending ops with next_attempt_at > now

TxnOf(o) == CHOOSE t \in DOMAIN TxnOps : o \in OpsOf(t)

selVars == <<order, status, waiting>>

Init == order = <<>> /\ status = [o \in Ops |-> "pending"] /\ waiting = {}

InFlight == {o \in Ops : status[o] = "in_flight"}

Succeeded == {o \in Ops : status[o] = "succeeded"}

-----------------------------------------------------------------------------
(* The selection *)

At(I) == {order[i] : i \in I}

IsSerial(o) == TxnOf(o) \in SerialTxns

(* peekEligibleOps, without its limit. *)
Eligible(i) ==
    LET t == TxnOf(order[i]) IN
    /\ status[order[i]] = "pending" /\ order[i] \notin waiting
    /\ \A p \in OpsOf(t) : status[p] # "dead"
    /\ IsSerial(order[i]) => \A j \in 1..(i - 1) :
                                TxnOf(order[j]) = t => status[order[j]] = "succeeded"

Rank(I, i) == Cardinality({j \in I : j <= i})

(* The first n of the positions I. *)
First(n, I) == {i \in I : Rank(I, i) <= n}

Candidates == First(PeekLimit, {i \in DOMAIN order : Eligible(i)})

Ready(o) == Needs[o] \subseteq Succeeded

(* txnBusy, and conflict with the ops S that are in flight or selected. *)
Blocked(o, S) ==
    \E p \in S : \/ TxnOf(p) = TxnOf(o) /\ IsSerial(p)
                 \/ Keys[p] \cap Keys[o] # {}

(* The sum of f over the positions I. *)
Total(f, I) ==
    LET upTo[n \in 0..Len(order)] ==
          IF n = 0 THEN 0 ELSE upTo[n - 1] + (IF n \in I THEN f[n] ELSE 0)
    IN upTo[Len(order)]

(* estimateBatchBytes for the ops at I. *)
Estimate(I) == Overhead + Total([i \in DOMAIN order |-> Bytes[order[i]] + 1], I)

Larger(a, b) == IF a > b THEN a ELSE b
Smaller(a, b) == IF a < b THEN a ELSE b

Window(C, want) ==
    First(Larger(MinWindow, Smaller(MaxWindow, WindowPerOp * want)), C)

(* The sets of positions in the window that chooseLookaheadSeed tries. *)
Packings(C, want, budget) ==
    {I \in SUBSET Window(C, want) :
        /\ Cardinality(I) <= want
        /\ \A i \in I : /\ Ready(order[i])
                        /\ Bytes[order[i]] <= MaxOpBytes
                        /\ ~Blocked(order[i], InFlight \cup At(I \ {i}))
        /\ I # {} => Estimate(I) <= budget}

(* The first position in which they differ is one that I leaves out. *)
FoundBefore(I, J) ==
    \E k \in J \ I : \A m \in I \cup J : m < k => m \in I \cap J

(* betterThanBest: more ops, then older ones, then bigger ones; of equal ones
   the one that the search finds first. *)
Best(C, tried) ==
    LET age(I) == Total([i \in DOMAIN order |-> Rank(C, i)], I)
        fullest == {I \in tried : \A J \in tried : Cardinality(J) <= Cardinality(I)}
        oldest == {I \in fullest : \A J \in fullest : age(I) <= age(J)}
        biggest == {I \in oldest : \A J \in oldest : Estimate(J) <= Estimate(I)}
    IN CHOOSE I \in biggest : \A J \in biggest \ {I} : FoundBefore(I, J)

(* chooseLookaheadSeed: nothing is sown unless two ops or more fit together. *)
Seed(C, want, budget) ==
    LET best == Best(C, Packings(C, want, budget))
    IN IF Cardinality(Window(C, want)) <= 1 \/ want <= 1 \/ Cardinality(best) <= 1
       THEN {} ELSE best

(* Slip: the window's other ops are left out even when nothing is sown. *)
LeftOutAnyway(i, seed, C, want) ==
    i \in Window(C, want) \ seed

LeftOut(i, seed, C, want) ==
    seed # {} /\ i \in Window(C, want) \ seed

(* Slip: only the ops in flight are looked at. *)
MayAddToFlight(i, I, budget) ==
    /\ ~Blocked(order[i], InFlight)
    /\ Ready(order[i])
    /\ Bytes[order[i]] <= MaxOpBytes
    /\ Estimate(I \cup {i}) <= budget

(* The checks of the final loop for the candidate i. *)
MayAdd(i, I, budget) ==
    /\ ~Blocked(order[i], InFlight \cup At(I))
    /\ Ready(order[i])
    /\ Bytes[order[i]] <= MaxOpBytes
    /\ Estimate(I \cup {i}) <= budget

(* The final loop's turn of i, with I taken: the seed goes in unchecked. *)
Takes(I, i, C, seed, want, budget) ==
    /\ i \in C /\ Cardinality(I) < want
    /\ ~LeftOut(i, seed, C, want)
    /\ i \in seed \/ MayAdd(i, I, budget)

Selection(C, want, budget) ==
    LET seed == Seed(C, want, budget)
        batch[n \in 0..Len(order)] ==
          IF n = 0 THEN {}
          ELSE IF Takes(batch[n - 1], n, C, seed, want, budget) THEN batch[n - 1] \cup {n}
          ELSE batch[n - 1]
    IN batch[Len(order)]

(* The first candidate that is not held up, when it is too large. *)
Oversize(C) ==
    LET runnable == {i \in C : Ready(order[i]) /\ ~Blocked(order[i], InFlight)}
    IN {i \in runnable : Bytes[order[i]] > MaxOpBytes /\ \A j \in runnable : i <= j}

-----------------------------------------------------------------------------
(* The steps *)

(* enqueueTxn *)
Enqueue(t) ==
    /\ OpsOf(t) \cap At(DOMAIN order) = {}
    /\ order' = order \o TxnOps[t]
    /\ UNCHANGED <<status, waiting>>

Becomes(S, s) == status' = [o \in Ops |-> IF o \in S THEN s ELSE status[o]]

(* An op that is too large is buried, and this request gets nothing else. *)
RequestOps(want, budget) ==
    /\ LET C == Candidates
       IN IF Oversize(C) # {} THEN Becomes(At(Oversize(C)), "dead")
          ELSE Becomes(At(Selection(C, want, budget)), "in_flight")
    /\ UNCHANGED <<order, waiting>>

Ack(o) ==
    /\ status[o] = "in_flight"
    /\ \/ Becomes({o}, "succeeded") /\ UNCHANGED waiting
       \/ Becomes({o}, "dead") /\ UNCHANGED waiting
       \/ Becomes({o}, "pending") /\ waiting' = waiting \cup {o}
    /\ UNCHANGED order

ComesDue(o) ==
    /\ o \in waiting
    /\ waiting' = waiting \ {o}
    /\ UNCHANGED <<order, status>>

Next ==
    \/ \E t \in DOMAIN TxnOps : Enqueue(t)
    \/ \E o \in Ops : Ack(o) \/ ComesDue(o)
    \/ \E want \in Wants, budget \in Budgets : RequestOps(want, budget)

Spec == Init /\ [][Next]_selVars

-----------------------------------------------------------------------------
(* Properties *)

Conflict(o, p) ==
    /\ o # p
    /\ Keys[o] \cap Keys[p] # {} \/ (TxnOf(o) = TxnOf(p) /\ IsSerial(o))

(* The seed goes into a batch unchecked, and was chosen without the ops that
   the loop adds after it: still no two ops in flight conflict, and a serial
   transaction has one at most. *)
NoConflictInFlight == \A o, p \in InFlight : ~Conflict(o, p)

(* What the seed displaces, what is too big and what comes behind the window:
   a batch keeps to its budgets, and nothing that could still have been added
   to it is left behind. *)
IsFull(C, batch, want, budget) ==
    /\ Cardinality(batch) <= want
    /\ batch # {} => Estimate(batch) <= budget
    /\ \/ Cardinality(batch) = want
       \/ \A i \in C \ batch : ~MayAdd(i, batch, budget)

(* So is every batch that a request would be given now. *)
BatchIsFull ==
    LET C == Candidates
    IN Oversize(C) = {} =>
          \A want \in Wants, budget \in Budgets :
             IsFull(C, Selection(C, want, budget), want, budget)
=============================================================================
