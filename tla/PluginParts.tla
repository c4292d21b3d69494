---------------------------- MODULE PluginParts ----------------------------
(***************************************************************************)
(* The plugin's op locks, sync loop and long write handlers, and the       *)
(* searches forwarded to it, in one model-checking run.  Each is a         *)
(* specification of its own, with its fairness; `part` says which of them  *)
(* runs, and the others stay in their initial states.  They share no       *)
(* variable, so a behaviour of this module is one of a part.               *)
(*                                                                         *)
(* The instances: six requests for locks (MCOpLocks); a sync loop that may *)
(* run twice, on two sockets, and two searches of two callers (the .cfg);  *)
(* a replacement that is executed twice and in which any call may fail, or *)
(* quietly make less; all trees of at most five Rems to delete.            *)
(***************************************************************************)
EXTENDS MCOpLocks

CONSTANTS
    \* SyncLoop
    PulledOps, SyncRuns, SyncSockets, MaxConcurrency, MaxStreak, MaxLate,
    \* SearchRpc
    Callers, Workers, NoWorker, ReadRpc, MaxMs,
    \* Replace
    OldCount, NewCount, Ahead, Behind, Executions,
    \* SafeDelete
    LargestTree, LargestBatch

VARIABLES
    part,
    \* SyncLoop
    controlWs, workerWs, requests, syncing, activeRun, watchdog, cooldown,
    mode, phase, runWs, noWork, streak, inFlight, executing, racing,
    \* SearchRpc
    ms, open, clients, active, inbox, pending, timers, asked, asking,
    forwarded, replies,
    \* Replace
    kids, kind, markdown, at, attempt, earlier, old, home, pos, created, then,
    \* SafeDelete
    parent, max, plan, there, doing

pullerVars ==
    <<controlWs, workerWs, requests, syncing, activeRun, watchdog, cooldown, mode, phase,
      runWs, noWork, streak, inFlight, executing, racing>>
searchVars ==
    <<ms, open, clients, active, inbox, pending, timers, asked, asking, forwarded, replies>>
replaceVars == <<kids, kind, markdown, at, attempt, earlier, old, home, pos, created, then>>
deleteVars == <<parent, max, plan, there, doing>>

Puller == INSTANCE SyncLoop WITH
    Ops <- PulledOps, Runs <- SyncRuns, Sockets <- SyncSockets

ASSUME RunNumbers == Puller!None \notin SyncRuns

Search == INSTANCE SearchRpc

Replacing == INSTANCE Replace WITH
    Kinds <- {"children", "selection"}, Faults <- {"create", "quiet", "move", "remove"},
    MaxAttempts <- Executions

ASSUME ReplaceCounts == Replacing!Counts

Deleting == INSTANCE SafeDelete WITH N <- LargestTree, MaxMax <- LargestBatch

ASSUME DeleteBounds == Deleting!Bounds

-----------------------------------------------------------------------------
(* One initial state of a part that does not run. *)
ReplaceIdle == kind = "children" /\ markdown
DeleteIdle == parent = <<>> /\ max = 1

AllInit ==
    /\ part \in {"locks", "puller", "search", "replace", "delete"}
    /\ Init /\ Puller!Init /\ Search!Init
    /\ Replacing!Init /\ (part = "replace" \/ ReplaceIdle)
    /\ Deleting!Init /\ (part = "delete" \/ DeleteIdle)

Runs(p) == part = p /\ UNCHANGED part

AllNext ==
    \/ Runs("locks") /\ Next
       /\ UNCHANGED <<pullerVars, searchVars, replaceVars, deleteVars>>
    \/ Runs("puller") /\ Puller!Next
       /\ UNCHANGED <<vars, searchVars, replaceVars, deleteVars>>
    \/ Runs("search") /\ Search!Next
       /\ UNCHANGED <<vars, pullerVars, replaceVars, deleteVars>>
    \/ Runs("replace") /\ Replacing!Next
       /\ UNCHANGED <<vars, pullerVars, searchVars, deleteVars>>
    \/ Runs("delete") /\ Deleting!Next
       /\ UNCHANGED <<vars, pullerVars, searchVars, replaceVars>>

allVars == <<part, vars, pullerVars, searchVars, replaceVars, deleteVars>>

(* The fairness of each part, while it is the one that runs: what its own
   module states and explains.  That of the sync loop is a condition in
   KeepsPulling, so that TLC evaluates it for that property only. *)
AllFairness ==
    /\ \A r \in Requests : WF_vars(Runs("locks") /\ Release(r))
    /\ WF_searchVars(Runs("search") /\ Search!NextMs)
    /\ WF_searchVars(Runs("search") /\ Search!Loop)
    /\ WF_searchVars(Runs("search") /\ \E id \in timers : Search!Fire(id))

AllSpec == AllInit /\ [][AllNext]_allVars /\ AllFairness

-----------------------------------------------------------------------------
(* Properties of the parts, explained in their modules; MutualExclusion,
   NoLostWakeup, DrainIsLoop, WaitersInOrder and EveryoneServed are those of
   the locks. *)

TakenOnce == Puller!TakenOnce

(* Of the sync loop, under its fairness. *)
KeepsPulling == part = "puller" /\ Puller!Fairness => Puller!KeepsPulling

AnsweredOnce == Search!AnsweredOnce
EveryCallerHeard == part = "search" => Search!EveryCallerHeard

ReplacesOrKeeps ==
    part = "replace" => Replacing!SuccessReplaces /\ Replacing!ChildrenNotLost

FewSmallBatches ==
    part = "delete" => Deleting!BatchesAreSmall /\ Deleting!KeepsMost
=============================================================================
