----------------------------- MODULE LocalParts -----------------------------
(***************************************************************************)
(* The parts of HostParts that have nothing in common with the bridge and  *)
(* the delivery: the daemon's processes, the lock of the claim, the store  *)
(* file, the selection of a batch and what the plugin tells of the user.   *)
(***************************************************************************)
EXTENDS Naturals

CONSTANTS
    \* Stack
    Services, MaxPid, CommandJobs, Launcher,
    \* ClaimLock
    Rivals, NoOne,
    \* StoreOpen
    Openers,
    \* DispatchSelection
    TxnOps, SerialTxns, BatchKeys, Bytes, Needs, Wants, Budgets, MaxOpBytes, Overhead,
    PeekLimit, MinWindow, MaxWindow, WindowPerOp,
    \* UiFeed
    Rems, NoRem, Places, MaxIds, MaxActs, MaxConns

VARIABLES
    \* Stack
    proc, port, pidFile, claim, told, cmd,
    \* ClaimLock
    there, meta, old, place, try,
    \* StoreOpen
    store, at, made,
    \* DispatchSelection
    order, status, backingOff,
    \* UiFeed
    ui, acts, due, session, link, task, again, sent, crossed, known

stackVars == <<proc, port, pidFile, claim, told, cmd>>
lockVars == <<there, meta, old, place, try>>
storeVars == <<store, at, made>>
selVars == <<order, status, backingOff>>
feedVars == <<ui, acts, due, session, link, task, again, sent, crossed, known>>

-----------------------------------------------------------------------------
(* One command at a time. *)
Processes == INSTANCE Stack WITH Commands <- {"c1"}, Jobs <- CommandJobs

ASSUME CommandConstants ==
    /\ "daemon" \in Services /\ MaxPid \in Nat
    /\ \A j \in CommandJobs :
         /\ j.do \in {"ensure", "stop", "restart", "doctor", "transfer"}
         /\ j.install \in Processes!Installs /\ j.channel \in Processes!Installs
         /\ j.force \in BOOLEAN

Transfers == INSTANCE ClaimLock WITH at <- place, Procs <- Rivals

ASSUME NullRival == NoOne \notin Rivals

Store == INSTANCE StoreOpen WITH Procs <- Openers

Batch == INSTANCE DispatchSelection WITH waiting <- backingOff, Keys <- BatchKeys

ASSUME BatchConstants == Batch!SelectionConstants

Feed == INSTANCE UiFeed

ASSUME FeedConstants == Rems # {} /\ Places # {}
=============================================================================
