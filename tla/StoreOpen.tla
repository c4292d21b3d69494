----------------------------- MODULE StoreOpen -----------------------------
(***************************************************************************)
(* Opening the store: every process that needs it (daemon, API, each       *)
(* command) creates or migrates its schema first.  openStoreDb and         *)
(* migrate in internal/store/db.ts, internal/store/migrations.             *)
(*                                                                         *)
(* A store that exists is migrated in one transaction; a new one is made   *)
(* statement by statement.  Tables stand for their columns and indexes     *)
(* where nothing depends on those.  Checksums, the audit table, waiting    *)
(* for the lock and the import of a legacy queue file are left out.        *)
(***************************************************************************)
EXTENDS Integers, Sequences

CONSTANTS Procs

Latest == 10

VARIABLES
    store, \* [ver, tables, rows]: the columns of each table there is that were
           \* added later, and the table with the ops of earlier times
    at,    \* where each process is
    made   \* how many tables of a new store it has made

storeVars == <<store, at, made>>

Renamed == [txns |-> "queue_txns", ops |-> "queue_ops", op_attempts |-> "queue_op_attempts"]

AddedColumn == [txns |-> "dispatch_mode", ops |-> "attempt_id"]

(* schema.sql *)
Snapshot == <<"queue_txns", "queue_ops", "queue_op_attempts", "workspace_bindings",
              "backup_artifacts", "task_runs">>

(* Its first n tables. *)
FirstTables(n) == {Snapshot[i] : i \in 1..n}

Columns(t) ==
    CASE t = "queue_txns" -> {"dispatch_mode"}
      [] t = "queue_ops"  -> {"attempt_id"}
      [] OTHER            -> {}

None == "none"
Broken == [ver |-> -1, tables |-> <<>>, rows |-> None]

(* Stores of every version: those of before version 5 have the old names, and
   those of before versions were kept may have all that was there at their time. *)
OldTables(v, t, o) ==
    [n \in {"txns", "ops"} \cup (IF v >= 3 THEN {"op_attempts"} ELSE {}) |->
        CASE n = "txns" -> (IF v >= 4 \/ t THEN {"dispatch_mode"} ELSE {})
          [] n = "ops"  -> (IF v >= 2 \/ o THEN {"attempt_id"} ELSE {})
          [] OTHER      -> {}]

NewTables(v) ==
    [n \in FirstTables(IF v >= 8 THEN 6 ELSE IF v < 5 THEN 3 ELSE v - 2) |-> Columns(n)]

Stores ==
    {[ver |-> 0, tables |-> <<>>, rows |-> None]}
    \cup {[ver |-> v, tables |-> OldTables(v, t, o), rows |-> "ops"] :
            v \in 0..4, t \in BOOLEAN, o \in BOOLEAN}
    \cup {[ver |-> v, tables |-> NewTables(v), rows |-> "queue_ops"] :
            v \in 5..(Latest + 1)}

Init ==
    /\ store \in Stores
    /\ at = [p \in Procs |-> "closed"]
    /\ made = [p \in Procs |-> 0]

-----------------------------------------------------------------------------
(* Migrations *)

Create(t, names) == [n \in DOMAIN t \cup names |-> IF n \in DOMAIN t THEN t[n] ELSE Columns(n)]

AddColumn(s, name) ==
    IF name \in DOMAIN s.tables
    THEN [s EXCEPT !.tables[name] = @ \cup {AddedColumn[name]}] ELSE Broken

PrefixQueueTables(s) ==
    LET there == DOMAIN s.tables \cap DOMAIN Renamed
        kept  == DOMAIN s.tables \ there
        new   == {Renamed[n] : n \in there}
    IN IF new \cap kept # {} THEN Broken
       ELSE [s EXCEPT !.rows = IF @ \in there THEN Renamed[@] ELSE @,
                      !.tables = [n \in kept \cup new |->
                          IF n \in kept THEN @[n]
                          ELSE @[CHOOSE m \in there : Renamed[m] = n]]]

(* The migration to version v; an error is an exception. *)
Migration(v, s) ==
    CASE v = 2  -> AddColumn(s, "ops")
      [] v = 3  -> [s EXCEPT !.tables = Create(@, {"op_attempts"})]
      [] v = 4  -> AddColumn(s, "txns")
      [] v = 5  -> PrefixQueueTables(s)
      [] v = 6  -> [s EXCEPT !.tables = Create(@, {"workspace_bindings"})]
      [] v = 7  -> [s EXCEPT !.tables = Create(@, {"backup_artifacts"})]
      [] v = 8  -> [s EXCEPT !.tables = Create(@, {"task_runs"})]
      [] v = 9  -> IF "task_runs" \in DOMAIN s.tables THEN s ELSE Broken
      [] v = 10 -> IF {"queue_ops", "queue_txns"} \subseteq DOMAIN s.tables THEN s ELSE Broken

SetVersion(s, v) == [s EXCEPT !.ver = v]

(* One round of the loop, which a newer store skips. *)
Upgraded(s, v) ==
    IF s = Broken \/ s.ver >= v THEN s
    ELSE LET new == Migration(v, s)
         IN IF new = Broken THEN Broken ELSE SetVersion(new, v)

(* Version 0 is taken for version 1. *)
Versioned(s) == IF s.ver = 0 THEN SetVersion(s, 1) ELSE s

MigratedTo4(s) == Upgraded(Upgraded(Upgraded(Versioned(s), 2), 3), 4)
MigratedTo7(s) == Upgraded(Upgraded(Upgraded(MigratedTo4(s), 5), 6), 7)
Migrated(s) == Upgraded(Upgraded(Upgraded(MigratedTo7(s), 8), 9), Latest)

(* Slip: only the tables' names of today are looked for. *)
BrandNewByName(s) == s.ver = 0 /\ {"queue_ops", "queue_txns"} \cap DOMAIN s.tables = {}

BrandNew(s) ==
    s.ver = 0 /\ {"queue_ops", "queue_txns", "ops", "txns"} \cap DOMAIN s.tables = {}

-----------------------------------------------------------------------------
(* A process *)

Goes(p, place) == at' = [at EXCEPT ![p] = place]

(* The version is read, and then, if it is 0, which tables there are. *)
Open(p) ==
    /\ at[p] = "closed"
    /\ Goes(p, IF store.ver > Latest THEN "failed" ELSE IF store.ver = 0 THEN "look" ELSE "migrate")
    /\ UNCHANGED <<store, made>>

Look(p) ==
    /\ at[p] = "look"
    /\ Goes(p, IF BrandNew(SetVersion(store, 0)) THEN "make" ELSE "migrate")
    /\ made' = [made EXCEPT ![p] = 0]
    /\ UNCHANGED store

MakeTable(p) ==
    /\ at[p] = "make" /\ made[p] < Len(Snapshot)
    /\ store' = [store EXCEPT !.tables = Create(@, {Snapshot[made[p] + 1]})]
    /\ made' = [made EXCEPT ![p] = @ + 1]
    /\ UNCHANGED at

Stamp(p) ==
    /\ at[p] = "make" /\ made[p] = Len(Snapshot)
    /\ store' = SetVersion(store, Latest)
    /\ Goes(p, "ready")
    /\ UNCHANGED made

(* Slip: without a transaction, and with the version set before the change, it
   may be killed in between. *)
MigrateUnguarded(p) ==
    /\ at[p] = "migrate"
    /\ store.ver < Latest
    /\ store' = [store EXCEPT !.ver = @ + 1]
    /\ Goes(p, "closed")
    /\ UNCHANGED made

(* In a transaction, where the version is read again. *)
Migrate(p) ==
    /\ at[p] = "migrate"
    /\ LET s == Migrated(store)
       IN IF s = Broken THEN Goes(p, "failed") /\ UNCHANGED store
          ELSE store' = s /\ Goes(p, "complete")
    /\ UNCHANGED made

(* The snapshot adds what is missing. *)
Complete(p) ==
    /\ at[p] = "complete"
    /\ store' = [store EXCEPT !.tables = Create(@, FirstTables(Len(Snapshot)))]
    /\ Goes(p, "ready")
    /\ UNCHANGED made

(* It ends, or is killed. *)
Ends(p) ==
    /\ at[p] # "closed"
    /\ Goes(p, "closed")
    /\ UNCHANGED <<store, made>>

Next ==
    \E p \in Procs : Open(p) \/ Look(p) \/ MakeTable(p) \/ Stamp(p) \/ Migrate(p)
                     \/ Complete(p) \/ Ends(p)

Spec == Init /\ [][Next]_storeVars

-----------------------------------------------------------------------------
(* Properties *)

(* Whoever has opened the store has the schema it was built for, with the ops
   that were in it: whatever its age, and whoever else opens it or is killed
   while doing so. *)
ReadyMeansComplete ==
    \A p \in Procs : at[p] = "ready" =>
        /\ store.ver = Latest
        /\ \A i \in DOMAIN Snapshot :
             /\ Snapshot[i] \in DOMAIN store.tables
             /\ Columns(Snapshot[i]) \subseteq store.tables[Snapshot[i]]
        /\ store.rows \in {None, "queue_ops"}

OpenSucceeds == BrandNew(store) \/ Migrated(store) # Broken

(* A store with ops in it can always be opened again, wherever a process was
   killed. *)
OldStoresOpen == store.rows # None /\ store.ver <= Latest => OpenSucceeds

(* specs/017-queue-db-generalize/spec.md:84: also the first start of several
   processes leaves no half-made store behind. *)
NothingHalfMade ==
    (\A p \in Procs : at[p] = "closed") /\ store.ver <= Latest => OpenSucceeds
=============================================================================
