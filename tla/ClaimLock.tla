----------------------------- MODULE ClaimLock -----------------------------
(***************************************************************************)
(* The lock that commands take to transfer the fixed-owner claim: a        *)
(* directory with the owner's pid in a file in it.  A command that finds   *)
(* the directory there gives up, unless its owner is dead, or unless it    *)
(* has no owner and is more than a minute old: it then removes it and      *)
(* tries again.  withFixedOwnerClaimLock in                                *)
(* lib/runtime-ownership/claim.ts; Stack takes the lock in one step.       *)
(***************************************************************************)
EXTENDS Naturals, FiniteSets

CONSTANTS Procs, \* command processes
          NoOne

VARIABLES
    there, \* the directory exists
    meta,  \* the pid in its file
    old,   \* its modification time is more than a minute ago
    at,    \* where each process is
    try    \* how often it has tried to make the directory

lockVars == <<there, meta, old, at, try>>

Init ==
    /\ there = FALSE /\ meta = NoOne /\ old = FALSE
    /\ at = [p \in Procs |-> "out"]
    /\ try = [p \in Procs |-> 0]

Goes(p, place) == at' = [at EXCEPT ![p] = place]

Begin(p) ==
    /\ at[p] = "out"
    /\ Goes(p, "mkdir") /\ try' = [try EXCEPT ![p] = 1]
    /\ UNCHANGED <<there, meta, old>>

Mkdir(p) ==
    /\ at[p] = "mkdir"
    /\ IF there
       THEN Goes(p, IF try[p] < 3 THEN "inspect" ELSE "out") /\ UNCHANGED <<there, old>>
       ELSE there' = TRUE /\ old' = FALSE /\ Goes(p, "write")
    /\ UNCHANGED <<meta, try>>

(* It fails when somebody has removed the directory meanwhile. *)
WriteMeta(p) ==
    /\ at[p] = "write"
    /\ IF there THEN meta' = p /\ Goes(p, "in") ELSE Goes(p, "out") /\ UNCHANGED meta
    /\ UNCHANGED <<there, old, try>>

(* Slip: a directory without an owner is taken for a left-over at once. *)
ReclaimableAtOnce ==
    \/ meta # NoOne /\ at[meta] = "dead"
    \/ meta = NoOne /\ there

(* readLockState *)
Reclaimable ==
    \/ meta # NoOne /\ at[meta] = "dead"
    \/ meta = NoOne /\ there /\ old

Inspect(p) ==
    /\ at[p] = "inspect"
    /\ Goes(p, IF Reclaimable THEN "unlink" ELSE "out")
    /\ UNCHANGED <<there, meta, old, try>>

(* rmSync: the file, which renews the time of the directory, then the
   directory; to reclaim the lock or to release it. *)
Unlink(p) ==
    /\ at[p] \in {"in", "unlink"}
    /\ meta' = NoOne
    /\ old' = (old /\ meta = NoOne)
    /\ Goes(p, IF at[p] = "in" THEN "release" ELSE "rmdir")
    /\ UNCHANGED <<there, try>>

Rmdir(p) ==
    /\ at[p] \in {"release", "rmdir"}
    /\ there' = (there /\ meta # NoOne)
    /\ IF at[p] = "release" \/ there' THEN Goes(p, "out") /\ UNCHANGED try
       ELSE Goes(p, "mkdir") /\ try' = [try EXCEPT ![p] = @ + 1]
    /\ UNCHANGED <<meta, old>>

Dies(p) ==
    /\ at[p] \notin {"out", "dead"}
    /\ Goes(p, "dead")
    /\ UNCHANGED <<there, meta, old, try>>

(* A live process needs less than a minute for two calls in a row. *)
Ages ==
    /\ there /\ ~old
    /\ \A p \in Procs : at[p] \notin {"write", "rmdir", "release"}
    /\ old' = TRUE
    /\ UNCHANGED <<there, meta, at, try>>

Next ==
    \/ \E p \in Procs : Begin(p) \/ Mkdir(p) \/ WriteMeta(p) \/ Inspect(p)
                        \/ Unlink(p) \/ Rmdir(p) \/ Dies(p)
    \/ Ages

Spec == Init /\ [][Next]_lockVars

-----------------------------------------------------------------------------
(* Properties *)

(* However many commands compete, retry and release, and though a directory
   with no pid in it may be reclaimed: two transfers never run at once, as
   long as no command has died.  (When one has, two others that both find its
   lock reclaimable can remove each other's.) *)
OneTransfer ==
    (\A p \in Procs : at[p] # "dead")
        => \A p, q \in Procs : at[p] = "in" /\ at[q] = "in" => p = q
=============================================================================
