---------------------------- MODULE WriteLedger ----------------------------
(***************************************************************************)
(* What the store queue promises to whoever enqueued a write transaction,  *)
(* with no attempt, lease, connection or clock in sight: each op is        *)
(* settled once, as a success or as dead, the ops of a serial transaction  *)
(* settle in op_seq order, and the verdict of a transaction is given by    *)
(* the very step that settles the op deciding it.                          *)
(* QueueStore, the model of internal/queue/dao.ts, implements this module. *)
(***************************************************************************)
EXTENDS Naturals

CONSTANTS
    Ops,      \* every op that may ever be enqueued
    Txns,     \* every transaction that may ever be enqueued
    TxnOf,    \* [Ops -> Txns]: the transaction of each op (queue_ops.txn_id)
    OpSeq,    \* [Ops -> Nat]: its place in the transaction (queue_ops.op_seq)
    Serial    \* the transactions whose dispatch_mode is 'serial'

VARIABLES
    outcome,  \* [Ops -> {"open", "succeeded", "dead"}]
    verdict   \* [Txns -> {"absent", "open", "succeeded", "failed"}]

ledgerVars == <<outcome, verdict>>

OpsOf(t) == {o \in Ops : TxnOf[o] = t}

Predecessors(o) == {p \in OpsOf(TxnOf[o]) : OpSeq[p] < OpSeq[o]}

LedgerInit ==
    /\ outcome = [o \in Ops |-> "open"]
    /\ verdict = [t \in Txns |-> "absent"]

(* A transaction is accepted with all its ops, or not at all. *)
Accept(t) ==
    /\ verdict[t] = "absent"
    /\ verdict' = [verdict EXCEPT ![t] = "open"]
    /\ UNCHANGED outcome

InOrder(o) ==
    TxnOf[o] \in Serial => \A p \in Predecessors(o) : outcome[p] = "succeeded"

(* The op succeeds; the last success of a transaction is its success. *)
Succeed(o) ==
    /\ outcome[o] = "open"
    /\ verdict[TxnOf[o]] # "absent"
    /\ InOrder(o)
    /\ outcome' = [outcome EXCEPT ![o] = "succeeded"]
    /\ verdict' = IF \A p \in OpsOf(TxnOf[o]) \ {o} : outcome[p] = "succeeded"
                  THEN [verdict EXCEPT ![TxnOf[o]] = "succeeded"]
                  ELSE verdict

(* The op is given up; the first dead op of a transaction is its failure. *)
GiveUp(o) ==
    /\ outcome[o] = "open"
    /\ verdict[TxnOf[o]] # "absent"
    /\ InOrder(o)
    /\ outcome' = [outcome EXCEPT ![o] = "dead"]
    /\ verdict' = [verdict EXCEPT ![TxnOf[o]] = "failed"]

LedgerNext ==
    \/ \E t \in Txns : Accept(t)
    \/ \E o \in Ops : Succeed(o) \/ GiveUp(o)

LedgerSpec == LedgerInit /\ [][LedgerNext]_ledgerVars
=============================================================================
