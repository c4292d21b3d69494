----------------------------- MODULE SafeDelete -----------------------------
(***************************************************************************)
(* Deleting a Rem with everything below it in batches, since RemNote       *)
(* cannot remove many Rems at once: a plan is made of the tree as it was   *)
(* read, and then one subtree after the other is removed and waited for.   *)
(* remnote/safeDeleteSubtree.ts, used by delete_rem and                    *)
(* delete_backup_artifact.                                                 *)
(***************************************************************************)
EXTENDS Integers, Sequences, FiniteSetsExt

CONSTANTS
    N,      \* the largest tree, with Rems 1..N and root 1
    MaxMax  \* bound of maxDeleteSubtreeNodes

Bounds == N \in Nat \ {0} /\ MaxMax \in Nat

VARIABLES
    parent, \* the tree: the parent of each Rem but the root
    max,    \* maxDeleteSubtreeNodes
    plan,   \* the Rems still to be removed, in this order
    there,  \* the Rems that exist
    doing   \* "plan", "remove", "verify", "deleted" or "failed"

deleteVars == <<parent, max, plan, there, doing>>

Root == 1
Rems == {Root} \cup DOMAIN parent

(* Their order is that of their numbers. *)
Children(r) == {c \in DOMAIN parent : parent[c] = r}

(* Of each Rem, the line from it up to the root. *)
Lines == LET line[r \in Rems] == {r} \cup (IF r = Root THEN {} ELSE line[parent[r]]) IN line

(* Rem and whatever is below it. *)
Below(r) == {x \in Rems : r \in Lines[x]}

Init ==
    /\ \E n \in 1..N : parent \in [2..n -> 1..n] /\ \A c \in 2..n : parent[c] < c
    /\ max \in 1..MaxMax
    /\ plan = <<>> /\ there = Rems /\ doing = "plan"

-----------------------------------------------------------------------------
(* The plan *)

Total(sizes, S) ==
    LET upTo[i \in 0..N] ==
          IF i = 0 THEN 0 ELSE upTo[i - 1] + (IF i \in S THEN sizes[i] ELSE 0)
    IN upTo[N]

(* What the Rems of S stand for, one after the other. *)
InOrder(S, of) ==
    LET upTo[i \in 0..N] ==
          IF i = 0 THEN <<>> ELSE IF i \in S THEN upTo[i - 1] \o of[i] ELSE upTo[i - 1]
    IN upTo[N]

(* The sums that t has, and those that an item of this size makes of them. *)
WithItem(t, i, size, capacity) ==
    LET more == {s \in size..capacity : s \notin DOMAIN t /\ s - size \in DOMAIN t}
    IN [s \in DOMAIN t \cup more |-> IF s \in more THEN i ELSE t[s]]

(* The table of sums that can be made, each with the item that completed it
   first. *)
Sums(sizes, capacity) ==
    LET upTo[i \in 0..N] ==
          IF i = 0 THEN [s \in {0} |-> 0]
          ELSE IF i \in DOMAIN sizes THEN WithItem(upTo[i - 1], i, sizes[i], capacity)
          ELSE upTo[i - 1]
    IN upTo[N]

(* Slip: as many as fit, from the first on. *)
KeepFirst(sizes, capacity) ==
    {i \in DOMAIN sizes : Total(sizes, {j \in DOMAIN sizes : j <= i}) <= capacity}

(* chooseChildResidualsToKeep: the children that stay with their parent,
   found by following the table down. *)
Keep(sizes, capacity) ==
    LET t == Sums(sizes, capacity)
        back[s \in 0..capacity] ==
          IF s = 0 \/ s \notin DOMAIN t THEN {} ELSE {t[s]} \cup back[s - sizes[t[s]]]
    IN back[Max(DOMAIN t)]

(* Slip: the Rem itself is not counted. *)
PlanOfChildrenOnly(r, plans) ==
    LET sizes == [c \in Children(r) |-> plans[c].residual]
        keep == Keep(sizes, max)
    IN [residual |-> 1 + Total(sizes, keep),
        delete |-> InOrder(Children(r), [c \in Children(r) |-> plans[c].delete])
                     \o InOrder(Children(r) \ keep, [c \in Children(r) |-> <<c>>])]

(* visit: what hangs below goes first, and what a Rem cannot keep goes before
   it. *)
PlanOf(r, plans) ==
    LET sizes == [c \in Children(r) |-> plans[c].residual]
        keep == Keep(sizes, max - 1)
    IN [residual |-> 1 + Total(sizes, keep),
        delete |-> InOrder(Children(r), [c \in Children(r) |-> plans[c].delete])
                     \o InOrder(Children(r) \ keep, [c \in Children(r) |-> <<c>>])]

PlanDeleteRoots(r) ==
    LET visit[x \in Rems] == PlanOf(x, [c \in Children(x) |-> visit[c]])
    IN Append(visit[r].delete, r)

-----------------------------------------------------------------------------
(* Its execution *)

MakePlan ==
    /\ doing = "plan"
    /\ plan' = PlanDeleteRoots(Root)
    /\ doing' = "remove"
    /\ UNCHANGED <<parent, max, there>>

(* A Rem that is gone already is passed over. *)
RemoveNext ==
    /\ doing = "remove" /\ plan # <<>>
    /\ IF Head(plan) \in there THEN doing' = "verify" /\ UNCHANGED plan
       ELSE plan' = Tail(plan) /\ UNCHANGED doing
    /\ UNCHANGED <<parent, max, there>>

(* It disappears, or has not when the time is up. *)
Verify ==
    /\ doing = "verify"
    /\ \/ there' = there \ Below(Head(plan)) /\ plan' = Tail(plan) /\ doing' = "remove"
       \/ doing' = "failed" /\ UNCHANGED <<there, plan>>
    /\ UNCHANGED <<parent, max>>

(* The user deletes something below the root meanwhile. *)
Pruned ==
    /\ doing \in {"remove", "verify"}
    /\ \E r \in there \ {Root} : there' = there \ Below(r)
    /\ UNCHANGED <<parent, max, plan, doing>>

Done ==
    /\ doing = "remove" /\ plan = <<>>
    /\ doing' = "deleted"
    /\ UNCHANGED <<parent, max, plan, there>>

Next == MakePlan \/ RemoveNext \/ Verify \/ Pruned \/ Done

Spec == Init /\ [][Next]_deleteVars

-----------------------------------------------------------------------------
(* Properties *)

(* RemNote is never asked to remove more Rems at once than it is able to, what
   is left stays one tree until the end, and a success leaves nothing. *)
BatchesAreSmall ==
    /\ doing = "verify" => Cardinality(Below(Head(plan)) \cap there) <= max
    /\ \A r \in there \ {Root} : parent[r] \in there
    /\ doing = "deleted" => there = {}

(* The table finds what a search through all choices would: as much as
   possible stays together, so that there are few batches. *)
KeepsMost ==
    doing = "plan" =>
        \A sizes \in [1..(N - 2) -> 1..max] :
            Total(sizes, Keep(sizes, max - 1))
              = Max({s \in {Total(sizes, X) : X \in SUBSET DOMAIN sizes} : s < max})
=============================================================================
