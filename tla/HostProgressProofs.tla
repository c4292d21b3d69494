------------------------- MODULE HostProgressProofs -------------------------
(***************************************************************************)
(* What is proved of the parts of HostProgress.  Of the supervisor, for    *)
(* every policy of restarts: the child's one life is never doubled and     *)
(* never lost.  The events that arise in the meantime are handled in their *)
(* order, so that a child is never reported as spawned after its end.      *)
(* Of the temporary ids: the queue they hang on is the queue of QueueStore *)
(* and so keeps its invariant, and an id once bound keeps its meaning.  Of *)
(* plans, for any that a caller can write: an op waits for the Rems it     *)
(* names, and the locks of the plugin cover the conflict keys of the host. *)
(***************************************************************************)
EXTENDS HostProgress, FiniteSetTheorems, WellFoundedInduction, TLAPS

Events == {"ChildSpawned", "ChildOutcome", "RestartDue", "Stop"}

SupervisorTypeOK ==
    /\ loop \in {"running", "interrupting", "returned"}
    /\ events \in Seq(Events)
    /\ forks \in Nat /\ procs \in Nat
    /\ timer \in Nat \cup {NoTimer}
    /\ status \in {"running", "backing_off", "failed", "stopping"}
    /\ count \in Nat
    /\ pidFile \in BOOLEAN

(* No ChildSpawned comes after a ChildOutcome, nor after the supervisor has
   given up. *)
InOrder ==
    /\ loop = "running" => \A i, j \in DOMAIN events :
          i < j /\ events[i] = "ChildOutcome" => events[j] # "ChildSpawned"
    /\ status = "failed" => \A i \in DOMAIN events : events[i] # "ChildSpawned"

SupervisorInv == SupervisorTypeOK /\ InOrder /\ OneCleanLife

-----------------------------------------------------------------------------
(* What the queue does to the number of its events of one kind. *)

At(e, es) == {i \in DOMAIN es : es[i] = e}

LEMMA AtIsFinite ==
    ASSUME NEW es \in Seq(Events), NEW e
    PROVE  IsFiniteSet(At(e, es)) /\ Cardinality(At(e, es)) \in Nat
<1>1. IsFiniteSet(1 .. Len(es))
  BY FS_Interval
<1>2. At(e, es) \in SUBSET (1 .. Len(es))
  BY DEF At
<1> QED BY <1>1, <1>2, FS_Subset, FS_CardinalityType

LEMMA CountOfNone ==
    ASSUME NEW es \in Seq(Events), NEW e
    PROVE  Cardinality(At(e, es)) = 0 <=> \A i \in DOMAIN es : es[i] # e
<1>1. Cardinality(At(e, es)) = 0 <=> At(e, es) = {}
  BY AtIsFinite, FS_EmptySet
<1> QED BY <1>1 DEF At

LEMMA CountAppended ==
    ASSUME NEW es \in Seq(Events), NEW f \in Events, NEW e
    PROVE  Cardinality(At(e, Append(es, f)))
             = Cardinality(At(e, es)) + (IF e = f THEN 1 ELSE 0)
<1>1. CASE e = f
  <2>1. At(e, Append(es, f)) = At(e, es) \cup {Len(es) + 1}
    BY <1>1 DEF At
  <2>2. Len(es) + 1 \notin At(e, es)
    BY DEF At
  <2> QED BY <1>1, <2>1, <2>2, AtIsFinite, FS_AddElement
<1>2. CASE e # f
  <2>1. At(e, Append(es, f)) = At(e, es)
    BY <1>2 DEF At
  <2> QED BY <1>2, <2>1, AtIsFinite
<1> QED BY <1>1, <1>2

LEMMA CountTaken ==
    ASSUME NEW es \in Seq(Events), es # <<>>, NEW e
    PROVE  Cardinality(At(e, Tail(es)))
             = Cardinality(At(e, es)) - (IF e = Head(es) THEN 1 ELSE 0)
<1> DEFINE Rest == At(e, es) \ {1}
           Left == [i \in At(e, Tail(es)) |-> i + 1]
<1>1. Tail(es) \in Seq(Events) /\ Len(es) \in Nat \ {0}
  OBVIOUS
<1>2. DOMAIN Tail(es) = 1 .. Len(es) - 1 /\ \A i \in 1 .. Len(es) - 1 : Tail(es)[i] = es[i + 1]
  BY <1>1
<1>3. At(e, es) = {i \in 1 .. Len(es) : es[i] = e}
  BY DEF At
<1>4. At(e, Tail(es)) = {i \in 1 .. Len(es) - 1 : es[i + 1] = e}
  BY <1>2 DEF At
<1>5. Left \in Bijection(At(e, Tail(es)), Rest)
  <2>1. \A i \in At(e, Tail(es)) : i + 1 \in Rest
    BY <1>1, <1>3, <1>4
  <2>2. \A j \in Rest : j - 1 \in At(e, Tail(es)) /\ j = (j - 1) + 1
    BY <1>1, <1>3, <1>4
  <2>3. Left \in Injection(At(e, Tail(es)), Rest)
    BY <2>1, <1>4 DEF Injection, IsInjective
  <2>4. Left \in Surjection(At(e, Tail(es)), Rest)
    BY <2>1, <2>2 DEF Surjection
  <2> QED BY <2>3, <2>4 DEF Bijection
<1>6. Cardinality(Rest) = Cardinality(At(e, Tail(es)))
  <2>1. IsFiniteSet(At(e, Tail(es)))
    BY <1>1, AtIsFinite
  <2>2. ExistsBijection(At(e, Tail(es)), Rest)
    BY <1>5 DEF ExistsBijection
  <2> HIDE DEF Rest
  <2> QED BY <2>1, <2>2, FS_Bijection
<1>7. Cardinality(Rest) = IF 1 \in At(e, es) THEN Cardinality(At(e, es)) - 1
                                             ELSE Cardinality(At(e, es))
  BY AtIsFinite, FS_RemoveElement
<1>8. 1 \in At(e, es) <=> e = Head(es)
  BY <1>1, <1>3
<1> QED BY <1>6, <1>7, <1>8, AtIsFinite

-----------------------------------------------------------------------------
(* The steps of the supervisor. *)

LEMMA QueuedIs == \A e : Queued(e) = Cardinality(At(e, events))
  BY DEF Queued, At

LEMMA QueuedIsNat == ASSUME SupervisorTypeOK, NEW e PROVE Queued(e) \in Nat
  BY QueuedIs, AtIsFinite DEF SupervisorTypeOK

LEMMA OneQueued ==
    ASSUME SupervisorTypeOK, NEW e
    PROVE  Queued(e) = 0 <=> \A i \in DOMAIN events : events[i] # e
  BY QueuedIs, CountOfNone DEF SupervisorTypeOK

LEMMA Appended ==
    ASSUME SupervisorTypeOK, NEW f \in Events, events' = Append(events, f)
    PROVE  Queued(f)' = Queued(f) + 1 /\ \A e : e # f => Queued(e)' = Queued(e)
<1>1. ASSUME NEW e PROVE Queued(e)' = Queued(e) + (IF e = f THEN 1 ELSE 0)
  <2>1. Queued(e)' = Cardinality(At(e, Append(events, f)))
    BY DEF Queued, At
  <2> QED BY <2>1, QueuedIs, CountAppended DEF SupervisorTypeOK
<1> QED BY <1>1, QueuedIsNat

LEMMA Taken ==
    ASSUME SupervisorTypeOK, NEW f, Take(f)
    PROVE  Queued(f)' = Queued(f) - 1 /\ \A e : e # f => Queued(e)' = Queued(e)
<1>1. ASSUME NEW e PROVE Queued(e)' = Queued(e) - (IF e = f THEN 1 ELSE 0)
  <2>1. Queued(e)' = Cardinality(At(e, Tail(events))) /\ events # <<>> /\ f = Head(events)
    BY DEF Queued, At, Take
  <2> QED BY <2>1, QueuedIs, CountTaken DEF SupervisorTypeOK
<1> QED BY <1>1, QueuedIsNat

LEMMA DelayIsNat == ASSUME NEW n \in Nat PROVE Delay(n) \in Nat
<1>1. Cap(n - 1, 30) \in Int
  BY DEF Cap
<1>2. BaseBackoff * 2 ^ Cap(n - 1, 30) \in Int
  BY <1>1, Policy
<1> QED BY <1>2, Policy DEF Delay, Cap

LEMMA SupervisorTypes == ASSUME SupervisorTypeOK, [Next]_vars PROVE SupervisorTypeOK'
<1>1. events' \in Seq(Events)
  <2>1. ASSUME NEW f, Take(f) PROVE Tail(events) \in Seq(Events)
    BY <2>1 DEF Take, SupervisorTypeOK
  <2>2. ASSUME NEW f \in Events PROVE Append(events, f) \in Seq(Events)
    BY <2>2 DEF SupervisorTypeOK
  <2>3. Spawn \/ Exit \/ RestartFires \/ Signal
          => \E f \in Events : events' = Append(events, f)
    BY DEF Spawn, Exit, RestartFires, Signal, Events
  <2>4. Handle => \E f : Take(f) /\ events' = Tail(events)
    BY DEF Handle, ChildSpawned, ChildOutcome, RestartDue, Stop, Take
  <2>5. Tick \/ Return \/ UNCHANGED vars => events' = events
    BY DEF Tick, Return, vars
  <2> QED BY <2>1, <2>2, <2>3, <2>4, <2>5 DEF Next, SupervisorTypeOK
<1> USE DEF SupervisorTypeOK, NoTimer
<1>3. CASE Tick
  BY <1>1, <1>3 DEF Tick
<1>4. CASE Spawn
  BY <1>1, <1>4 DEF Spawn
<1>5. CASE Exit \/ RestartFires \/ Signal
  BY <1>1, <1>5 DEF Exit, RestartFires, Signal
<1>6. CASE ChildSpawned
  BY <1>1, <1>6 DEF ChildSpawned
<1>7. CASE RestartDue \/ Stop
  <2>1. CASE RestartDue /\ status = "failed"
    BY <1>1, <2>1 DEF RestartDue
  <2>2. CASE RestartDue /\ status # "failed"
    BY <1>1, <2>2 DEF RestartDue
  <2>3. CASE Stop
    BY <1>1, <2>3 DEF Stop
  <2> QED BY <1>7, <2>1, <2>2, <2>3
<1>8. CASE ChildOutcome
  <2>1. NextCount \in Nat
    BY DEF NextCount
  <2>2. Delay(NextCount) \in Nat
    BY <2>1, DelayIsNat
  <2> QED BY <1>1, <1>8, <2>1, <2>2 DEF ChildOutcome, PlanRestart
<1>9. CASE Return
  BY <1>1, <1>9 DEF Return
<1>10. CASE UNCHANGED vars
  BY <1>1, <1>10 DEF vars
<1> QED BY <1>3, <1>4, <1>5, <1>6, <1>7, <1>8, <1>9, <1>10 DEF Next, Handle

LEMMA SupervisorStep == ASSUME SupervisorInv, [Next]_vars PROVE InOrder' /\ OneCleanLife'
<1> USE DEF SupervisorInv, SupervisorTypeOK, NoTimer
<1> DEFINE Kept == \A e : Queued(e)' = Queued(e)
<1>1. events' = events => Kept
  BY DEF Queued
<1>2. \A e : Queued(e) \in Nat
  BY QueuedIsNat
<1>3. Queued("ChildOutcome") = 0 <=> \A i \in DOMAIN events : events[i] # "ChildOutcome"
  BY OneQueued
<1>4. CASE Tick
  BY <1>1, <1>2, <1>4 DEF Tick, InOrder, OneCleanLife, Lives
<1>5. CASE Spawn
  <2>1. /\ Queued("ChildSpawned")' = Queued("ChildSpawned") + 1
        /\ \A e : e # "ChildSpawned" => Queued(e)' = Queued(e)
    BY <1>5, Appended DEF Spawn, Events
  <2>2. OneCleanLife'
    BY <1>2, <1>5, <2>1 DEF Spawn, OneCleanLife, Lives
  <2>3. InOrder'
    <3>1. status # "failed"
      BY <1>2, <1>5 DEF Spawn, OneCleanLife, Lives
    <3>2. loop = "running" => \A i \in DOMAIN events : events[i] # "ChildOutcome"
      BY <1>2, <1>3, <1>5, <3>1 DEF Spawn, OneCleanLife, Lives
    <3> QED BY <1>5, <3>1, <3>2 DEF Spawn, InOrder
  <2> QED BY <2>2, <2>3
<1>6. CASE Exit
  <2>1. /\ Queued("ChildOutcome")' = Queued("ChildOutcome") + 1
        /\ \A e : e # "ChildOutcome" => Queued(e)' = Queued(e)
    BY <1>6, Appended DEF Exit, Events
  <2>2. OneCleanLife'
    <3>1. Queued("RestartDue")' = Queued("RestartDue")
      BY <2>1
    <3>2. Queued("RestartDue") \in Nat /\ Queued("ChildOutcome") \in Nat
      BY <1>2
    <3>3. Lives' = Lives
      BY <1>6, <2>1, <3>1, <3>2 DEF Exit, Lives
    <3> QED BY <1>6, <3>2, <3>3 DEF Exit, OneCleanLife, Lives
  <2>3. InOrder'
    BY <1>6 DEF Exit, InOrder
  <2> QED BY <2>2, <2>3
<1>7. CASE RestartFires
  <2>1. /\ Queued("RestartDue")' = Queued("RestartDue") + 1
        /\ \A e : e # "RestartDue" => Queued(e)' = Queued(e)
    BY <1>7, Appended DEF RestartFires, Events
  <2>2. OneCleanLife'
    BY <1>2, <1>7, <2>1 DEF RestartFires, OneCleanLife, Lives
  <2>3. InOrder'
    BY <1>7 DEF RestartFires, InOrder
  <2> QED BY <2>2, <2>3
<1>8. CASE Signal
  <2>1. /\ Queued("Stop")' = Queued("Stop") + 1
        /\ \A e : e # "Stop" => Queued(e)' = Queued(e)
    BY <1>8, Appended DEF Signal, Events
  <2>2. OneCleanLife'
    BY <1>2, <1>8, <2>1 DEF Signal, OneCleanLife, Lives
  <2>3. InOrder'
    BY <1>8 DEF Signal, InOrder
  <2> QED BY <2>2, <2>3
<1>9. CASE Handle
  <2>1. ASSUME NEW f, Take(f) PROVE
          /\ Queued(f)' = Queued(f) - 1 /\ Queued(f) # 0
          /\ \A e : e # f => Queued(e)' = Queued(e)
          /\ \A i \in DOMAIN events' : i + 1 \in DOMAIN events /\ events'[i] = events[i + 1]
          /\ DOMAIN events' \subseteq Nat
          /\ 1 \in DOMAIN events /\ events[1] = f /\ loop = "running"
    <3>1. \A e : e # f => Queued(e)' = Queued(e)
      BY <2>1, Taken
    <3>2. 1 \in DOMAIN events /\ events[1] = f /\ loop = "running"
      BY <2>1 DEF Take
    <3>3. Queued(f)' = Queued(f) - 1 /\ Queued(f) # 0
      BY <2>1, <3>2, Taken, OneQueued
    <3>4. \A i \in DOMAIN events' : i + 1 \in DOMAIN events /\ events'[i] = events[i + 1]
      BY <2>1 DEF Take
    <3>5. DOMAIN events' \subseteq Nat
      BY <2>1 DEF Take
    <3> QED BY <3>1, <3>2, <3>3, <3>4, <3>5
  <2>2. CASE ChildSpawned
    <3>1. Take("ChildSpawned") /\ status # "failed"
      BY <2>2, <2>1 DEF ChildSpawned, InOrder
    <3>2. OneCleanLife'
      BY <1>2, <2>2, <2>1, <3>1 DEF ChildSpawned, OneCleanLife, Lives
    <3>3. InOrder'
      BY <2>2, <2>1, <3>1 DEF ChildSpawned, InOrder
    <3> QED BY <3>2, <3>3
  <2>3. CASE ChildOutcome
    <3>1. Take("ChildOutcome")
      BY <2>3 DEF ChildOutcome
    <3>2. Queued("ChildOutcome") # 0
      BY <2>1, <3>1, <1>3
    <3>3. \/ status' = "failed" /\ timer' = NoTimer
          \/ status' = "backing_off" /\ timer' # NoTimer
      <4>1. NextCount \in Nat
        BY DEF NextCount
      <4> QED BY <2>3, <4>1, DelayIsNat DEF ChildOutcome, PlanRestart
    <3>4. OneCleanLife'
      <4>1. /\ Queued("ChildOutcome")' = Queued("ChildOutcome") - 1
            /\ Queued("RestartDue")' = Queued("RestartDue")
        BY <2>1, <3>1
      <4>2. /\ Queued("RestartDue") = 0 /\ Queued("ChildOutcome") = 1
            /\ forks = 0 /\ procs = 0 /\ loop = "running"
        BY <1>2, <2>1, <3>1, <3>2 DEF OneCleanLife, Lives
      <4>3. /\ loop' = loop /\ forks' = forks /\ procs' = procs
        BY <2>3 DEF ChildOutcome
      <4> QED BY <3>3, <4>1, <4>2, <4>3 DEF OneCleanLife, Lives
    <3>5. InOrder'
      BY <2>3, <2>1, <3>1 DEF ChildOutcome, InOrder
    <3> QED BY <3>4, <3>5
  <2>4. CASE RestartDue
    <3>1. Take("RestartDue")
      BY <2>4 DEF RestartDue
    <3>2. Queued("RestartDue") # 0
      BY <2>1, <3>1, OneQueued
    <3>3. OneCleanLife'
      <4>1. /\ Queued("RestartDue")' = Queued("RestartDue") - 1
            /\ Queued("ChildOutcome")' = Queued("ChildOutcome")
        BY <2>1, <3>1
      <4>2. /\ Queued("RestartDue") = 1 /\ Queued("ChildOutcome") = 0
            /\ forks = 0 /\ procs = 0 /\ timer = NoTimer
            /\ loop = "running" /\ status # "failed"
        BY <1>2, <2>1, <3>1, <3>2 DEF OneCleanLife, Lives
      <4>3. /\ forks' = 1 /\ procs' = 0 /\ timer' = NoTimer
            /\ loop' = loop /\ status' = status
        BY <2>4, <4>2 DEF RestartDue
      <4> QED BY <4>1, <4>2, <4>3 DEF OneCleanLife, Lives
    <3>4. InOrder'
      BY <2>4, <2>1, <3>1 DEF RestartDue, InOrder
    <3> QED BY <3>3, <3>4
  <2>5. CASE Stop
    <3>1. Take("Stop")
      BY <2>5 DEF Stop
    <3>2. OneCleanLife'
      BY <1>2, <2>5, <2>1, <3>1 DEF Stop, OneCleanLife, Lives
    <3>3. InOrder'
      BY <2>5, <2>1, <3>1 DEF Stop, InOrder
    <3> QED BY <3>2, <3>3
  <2> QED BY <1>9, <2>2, <2>3, <2>4, <2>5 DEF Handle
<1>10. CASE Return
  BY <1>1, <1>2, <1>10 DEF Return, InOrder, OneCleanLife, Lives
<1>11. CASE UNCHANGED vars
  BY <1>1, <1>11 DEF vars, InOrder, OneCleanLife, Lives
<1> QED BY <1>4, <1>5, <1>6, <1>7, <1>8, <1>9, <1>10, <1>11 DEF Next

LEMMA SupervisorStarts == Init => SupervisorInv
<1>1. SUFFICES ASSUME Init PROVE SupervisorInv
  OBVIOUS
<1>2. events \in Seq(Events) /\ DOMAIN events = {}
  BY <1>1 DEF Init
<1>3. SupervisorTypeOK /\ InOrder
  BY <1>1, <1>2 DEF Init, SupervisorTypeOK, InOrder
<1>4. \A e : Queued(e) = 0
  BY <1>2, <1>3, OneQueued
<1> QED BY <1>1, <1>3, <1>4 DEF Init, SupervisorInv, OneCleanLife, Lives

(* The supervisor keeps exactly one child, whatever signals, exits and timers
   interleave and whatever the policy of restarts, and leaves none behind. *)
THEOREM ChildLivesOnce == Spec => []OneCleanLife
<1>1. SupervisorInv /\ [Next]_vars => SupervisorInv'
  BY SupervisorTypes, SupervisorStep DEF SupervisorInv
<1>2. SupervisorInv => OneCleanLife
  BY DEF SupervisorInv
<1> QED BY SupervisorStarts, <1>1, <1>2, PTL DEF Spec

-----------------------------------------------------------------------------
(* Plans.  Where the compiler lets an alias stand the catalog has an id field. *)

Fits(t) == \A p \in t.refs : Plans!PayloadPath(t.name, p) \in Plans!IdFields(t.op)

LEMMA CreateActionsFit == \A t \in Plans!CreateActions : Fits(t)
  BY DEF Plans!CreateActions, Plans!Action, Fits, Plans!PayloadPath, Plans!OfChildren,
     Plans!IdFields, Plans!AllIdFields, Plans!TagOps, Plans!MiscOps, Plans!OutlineIdFields

LEMMA ChildrenActionsFit == \A t \in Plans!ChildrenActions : Fits(t)
  BY DEF Plans!ChildrenActions, Plans!Action, Fits, Plans!PayloadPath, Plans!OfChildren,
     Plans!IdFields, Plans!AllIdFields, Plans!TagOps, Plans!MiscOps, Plans!OutlineIdFields

LEMMA OtherActionsFit ==
    \A t \in Plans!PortalActions \cup Plans!ReplaceActions \cup Plans!BlockActions
             \cup Plans!RemActions : Fits(t)
<1>1. \A t \in Plans!PortalActions : Fits(t)
  BY DEF Plans!PortalActions, Plans!Action, Fits, Plans!PayloadPath, Plans!OfChildren,
     Plans!IdFields, Plans!AllIdFields, Plans!TagOps, Plans!MiscOps, Plans!OutlineIdFields
<1>2. \A t \in Plans!ReplaceActions : Fits(t)
  BY DEF Plans!ReplaceActions, Plans!Action, Fits, Plans!PayloadPath, Plans!OfChildren,
     Plans!IdFields, Plans!AllIdFields, Plans!TagOps, Plans!MiscOps, Plans!OutlineIdFields
<1>3. \A t \in Plans!BlockActions : Fits(t)
  BY DEF Plans!BlockActions, Plans!Action, Fits, Plans!PayloadPath, Plans!OfChildren,
     Plans!IdFields, Plans!AllIdFields, Plans!TagOps, Plans!MiscOps, Plans!OutlineIdFields
<1>4. \A t \in Plans!RemActions : Fits(t)
  BY DEF Plans!RemActions, Plans!Action, Fits, Plans!PayloadPath, Plans!OfChildren,
     Plans!IdFields, Plans!AllIdFields, Plans!TagOps, Plans!MiscOps, Plans!OutlineIdFields
<1> QED BY <1>1, <1>2, <1>3, <1>4

LEMMA TagActionsFit == \A t \in Plans!TagActions : Fits(t)
  BY DEF Plans!TagActions, Plans!Action, Fits, Plans!PayloadPath, Plans!OfChildren,
     Plans!IdFields, Plans!AllIdFields, Plans!TagOps, Plans!TagIdFields

LEMMA MiscActionsFit == \A t \in Plans!MiscActions : Fits(t)
  BY DEF Plans!MiscActions, Plans!Action, Fits, Plans!PayloadPath, Plans!OfChildren,
     Plans!IdFields, Plans!AllIdFields, Plans!TagOps, Plans!MiscOps, Plans!MiscIdFields

LEMMA ActionsFit ==
    ASSUME NEW a \in DOMAIN Plans!Actions, NEW p \in Plans!Actions[a].refs
    PROVE  Plans!PayloadPath(a, p) \in Plans!IdFields(Plans!Actions[a].op)
<1>1. PICK t \in Plans!ActionTable : t.name = a
  BY DEF Plans!Actions
<1>2. Plans!Actions[a] \in Plans!ActionTable /\ Plans!Actions[a].name = a
  BY <1>1 DEF Plans!Actions
<1>3. Fits(Plans!Actions[a])
  BY <1>2, CreateActionsFit, ChildrenActionsFit, OtherActionsFit, TagActionsFit, MiscActionsFit
     DEF Plans!ActionTable
<1> QED BY <1>2, <1>3 DEF Fits

(* What the host keeps apart the plugin keeps apart: whatever the op. *)
LEMMA KeysLocked ==
    ASSUME NEW o, NEW k \in Plans!ConflictKeys(o)
    PROVE  k[1] = "global" \/ k \in Plans!LockKeys(o)
<1> USE DEF Plans!Creates, Plans!Portals
<1>1. \A name : \A g \in Plans!Global(name) : g[1] = "global"
  BY DEF Plans!Global, Plans!Rem
<1>2. \A keys, name : \A g \in Plans!OrGlobal(keys, name) : g[1] = "global" \/ g \in keys
  BY <1>1 DEF Plans!OrGlobal
<1>3. CASE o.type = "daily_note_write"
  BY <1>1, <1>3 DEF Plans!ConflictKeys
<1>4. CASE o.type \in Plans!Portals
  BY <1>4 DEF Plans!ConflictKeys, Plans!LockKeys
<1>5. CASE o.type \in Plans!Creates
  BY <1>2, <1>5 DEF Plans!ConflictKeys, Plans!LockKeys
<1>6. CASE o.type = "replace_children_with_markdown"
  BY <1>2, <1>6 DEF Plans!ConflictKeys, Plans!LockKeys
<1>7. CASE o.type = "replace_selection_with_markdown"
  BY <1>1, <1>7 DEF Plans!ConflictKeys, Plans!LockKeys, Plans!At
<1>8. CASE o.type \in {"move_rem", "move_rem_bulk"}
  BY <1>8 DEF Plans!ConflictKeys, Plans!LockKeys, Plans!MoveLocks, Plans!Around
<1>9. CASE o.type \notin Plans!Creates \cup Plans!Portals
                 \cup {"daily_note_write", "replace_children_with_markdown",
                       "replace_selection_with_markdown", "move_rem", "move_rem_bulk"}
  <2>1. \/ k \in Plans!Global("unknown")
        \/ k \in Plans!RemKeys(Plans!At(o, "rem_id") \cup Plans!At(o, "items[].rem_id"))
    BY <1>9 DEF Plans!ConflictKeys, Plans!OrGlobal
  <2>2. Plans!LockKeys(o)
          = Plans!RemKeys(Plans!At(o, "rem_id") \cup Plans!At(o, "items[].rem_id"))
    BY <1>9 DEF Plans!LockKeys
  <2> QED BY <1>1, <2>1, <2>2
<1> QED BY <1>3, <1>4, <1>5, <1>6, <1>7, <1>8, <1>9

-----------------------------------------------------------------------------
(* Groups of steps.  A group of several is of one action, and all of it may be
   merged. *)

IsGroup(g, S) ==
    /\ g \in Seq(S) /\ Len(g) >= 1
    /\ Len(g) > 1 => \A i \in DOMAIN g :
                       Plans!MayJoin(g[i]) /\ g[i].action = Head(g).action

AreGroups(gs, S) == gs \in Seq(Seq(S)) /\ \A j \in DOMAIN gs : IsGroup(gs[j], S)

LEMMA GroupHasHead ==
    ASSUME NEW S, NEW g, IsGroup(g, S)
    PROVE  Len(g) \in Nat \ {0} /\ Head(g) \in S
<1>1. g \in Seq(S) /\ Len(g) >= 1
  BY DEF IsGroup
<1> QED BY <1>1

LEMMA GroupedStays ==
    ASSUME NEW S, NEW gs, AreGroups(gs, S), NEW s \in S
    PROVE  AreGroups(Plans!Grouped(gs, s), S)
<1>1. gs \in Seq(Seq(S)) /\ Len(gs) \in Nat /\ DOMAIN gs = 1 .. Len(gs)
  BY DEF AreGroups
<1>2. CASE /\ gs # <<>> /\ Plans!MayJoin(s) /\ Plans!MayJoin(Head(Plans!Last(gs)))
           /\ Plans!Alike(Head(Plans!Last(gs)), s)
  <2> DEFINE g == gs[Len(gs)]
             joined == Append(g, s)
             new == [gs EXCEPT ![Len(gs)] = joined]
  <2>1. Len(gs) \in DOMAIN gs /\ IsGroup(g, S)
    BY <1>1, <1>2 DEF AreGroups
  <2>2. Plans!MayJoin(Head(g)) /\ s.action = Head(g).action
    BY <1>2 DEF Plans!Last, Plans!Alike
  <2>3. IsGroup(joined, S)
    <3>1. /\ g \in Seq(S) /\ Len(g) \in Nat /\ Len(g) >= 1
          /\ Len(g) > 1 => \A i \in 1 .. Len(g) :
                             Plans!MayJoin(g[i]) /\ g[i].action = Head(g).action
      BY <2>1 DEF IsGroup
    <3>2. /\ joined \in Seq(S) /\ Len(joined) = Len(g) + 1 /\ Head(joined) = Head(g)
          /\ \A i \in 1 .. Len(g) : joined[i] = g[i]
          /\ joined[Len(g) + 1] = s
      BY <3>1
    <3>3. \A i \in 1 .. Len(g) : Plans!MayJoin(g[i]) /\ g[i].action = Head(g).action
      BY <2>2, <3>1
    <3>4. ASSUME NEW i \in DOMAIN joined
          PROVE  Plans!MayJoin(joined[i]) /\ joined[i].action = Head(joined).action
      <4>1. i \in 1 .. Len(g) \/ i = Len(g) + 1
        BY <3>1, <3>2
      <4> QED BY <4>1, <1>2, <2>2, <3>2, <3>3
    <3> HIDE DEF joined, g
    <3> QED BY <3>1, <3>2, <3>4 DEF IsGroup
  <2>4. joined \in Seq(S)
    BY <2>3 DEF IsGroup
  <2>5. new \in Seq(Seq(S))
    <3>1. new = [j \in 1 .. Len(gs) |-> IF j = Len(gs) THEN joined ELSE gs[j]]
      BY <1>1
    <3>2. \A j \in 1 .. Len(gs) : gs[j] \in Seq(S)
      BY <1>1
    <3> HIDE DEF joined, g
    <3>3. \A T : \A n \in Nat : \A f \in [1 .. n -> T] : f \in Seq(T)
      OBVIOUS
    <3>4. new \in [1 .. Len(gs) -> Seq(S)]
      BY <2>4, <3>1, <3>2
    <3> QED BY <1>1, <3>3, <3>4
  <2>6. \A j \in DOMAIN new : IsGroup(new[j], S)
    BY <2>3, <1>1 DEF AreGroups
  <2>7. Plans!Grouped(gs, s) = new
    BY <1>2 DEF Plans!Grouped
  <2> QED BY <2>5, <2>6, <2>7 DEF AreGroups
<1>3. CASE ~(/\ gs # <<>> /\ Plans!MayJoin(s) /\ Plans!MayJoin(Head(Plans!Last(gs)))
             /\ Plans!Alike(Head(Plans!Last(gs)), s))
  <2>1. Plans!Grouped(gs, s) = Append(gs, <<s>>)
    BY <1>3 DEF Plans!Grouped
  <2>2. <<s>> \in Seq(S) /\ IsGroup(<<s>>, S)
    BY DEF IsGroup
  <2> QED BY <1>1, <2>1, <2>2 DEF AreGroups
<1> QED BY <1>2, <1>3

(* What holds at 0, and at n after n - 1, holds up to k. *)
Before == OpToRel(<, Nat)

LEMMA FirstOf ==
    ASSUME NEW T, T \subseteq Nat, T # {}
    PROVE  \E x \in T : \A y \in T : x <= y
<1>1. Before = {p \in Nat \X Nat : p[1] < p[2]}
  BY DEF Before, OpToRel
<1>2. PICK x \in T : \A y \in T : <<y, x>> \notin Before
  BY NatLessThanWellFounded, WFMin DEF Before
<1>3. \A y \in T : ~(y < x)
  BY <1>1, <1>2
<1> QED BY <1>3

LEMMA UpTo ==
    ASSUME NEW k \in Nat, NEW S, 0 \in S, \A n \in 1 .. k : n - 1 \in S => n \in S
    PROVE  0 .. k \subseteq S
<1> DEFINE T == (0 .. k) \ S
<1> SUFFICES ASSUME T # {} PROVE FALSE
  OBVIOUS
<1>a. T \subseteq Nat
  OBVIOUS
<1>1. PICK n \in T : \A m \in T : n <= m
  <2> HIDE DEF T
  <2> QED BY <1>a, FirstOf
<1>2. n \in 1 .. k /\ n - 1 \in 0 .. k
  BY <1>1
<1> QED BY <1>1, <1>2

GroupsOf(acc, k, plan) ==
    acc = [n \in 0 .. k |-> IF n = 0 THEN <<>> ELSE Plans!Grouped(acc[n - 1], plan[n])]

LEMMA GroupsExist ==
    ASSUME NEW k \in Nat, NEW plan
    PROVE  \E acc : GroupsOf(acc, k, plan)
<1> DEFINE S == {n \in Nat : \E acc : GroupsOf(acc, n, plan)}
<1>1. 0 \in S
  <2> DEFINE acc == [n \in 0 .. 0 |-> <<>>]
  <2>1. GroupsOf(acc, 0, plan)
    BY DEF GroupsOf
  <2> QED BY <2>1
<1>2. ASSUME NEW n \in 1 .. k, n - 1 \in S PROVE n \in S
  <2>1. PICK acc : GroupsOf(acc, n - 1, plan)
    BY <1>2
  <2> DEFINE new == [m \in 0 .. n |-> IF m = n THEN Plans!Grouped(acc[n - 1], plan[n])
                                      ELSE acc[m]]
  <2>2. acc = [m \in 0 .. n - 1 |->
                 IF m = 0 THEN <<>> ELSE Plans!Grouped(acc[m - 1], plan[m])]
    BY <2>1 DEF GroupsOf
  <2>3. ASSUME NEW m \in 0 .. n
        PROVE  new[m] = IF m = 0 THEN <<>> ELSE Plans!Grouped(new[m - 1], plan[m])
    <3>1. CASE m = 0
      <4>1. m \in 0 .. n - 1 /\ new[m] = acc[m]
        BY <3>1
      <4> QED BY <2>2, <3>1, <4>1
    <3>2. CASE m \in 1 .. n - 1
      <4>1. m \in 0 .. n - 1 /\ new[m] = acc[m] /\ new[m - 1] = acc[m - 1] /\ m # 0
        BY <3>2
      <4> QED BY <2>2, <4>1
    <3>3. CASE m = n
      <4>1. new[m] = Plans!Grouped(acc[n - 1], plan[n]) /\ new[m - 1] = acc[n - 1] /\ m # 0
        BY <3>3
      <4> QED BY <3>3, <4>1
    <3> QED BY <3>1, <3>2, <3>3
  <2>4. new = [m \in 0 .. n |-> new[m]]
    OBVIOUS
  <2>5. GroupsOf(new, n, plan)
    <3> HIDE DEF new
    <3> QED BY <2>3, <2>4 DEF GroupsOf
  <2>6. n \in Nat
    OBVIOUS
  <2> HIDE DEF new
  <2> QED BY <2>5, <2>6
<1> HIDE DEF S
<1>3. k \in S
  BY <1>1, <1>2, UpTo
<1> QED BY <1>3 DEF S

LEMMA GroupsAreGroups ==
    ASSUME NEW S, NEW plan \in Seq(S)
    PROVE  AreGroups(Plans!Groups(plan), S)
<1> DEFINE acc == CHOOSE g : GroupsOf(g, Len(plan), plan)
           Good == {n \in 0 .. Len(plan) : AreGroups(acc[n], S)}
<1>1. GroupsOf(acc, Len(plan), plan)
  BY GroupsExist
<1>2. Plans!Groups(plan) = acc[Len(plan)]
  BY DEF Plans!Groups, GroupsOf
<1> HIDE DEF acc
<1>a. Len(plan) \in Nat
  OBVIOUS
<1>3. 0 \in Good
  <2>1. acc[0] = <<>>
    BY <1>1 DEF GroupsOf
  <2>2. AreGroups(<<>>, S)
    BY DEF AreGroups
  <2> QED BY <1>a, <2>1, <2>2
<1>4. ASSUME NEW n \in 1 .. Len(plan), n - 1 \in Good PROVE n \in Good
  <2>1. acc[n] = Plans!Grouped(acc[n - 1], plan[n])
    BY <1>1 DEF GroupsOf
  <2> QED BY <1>4, <2>1, GroupedStays
<1> HIDE DEF Good
<1>5. Len(plan) \in Good
  <2>1. 0 .. Len(plan) \subseteq Good
    BY <1>a, <1>3, <1>4, UpTo
  <2> QED BY <1>a, <2>1
<1> QED BY <1>2, <1>5 DEF Good

-----------------------------------------------------------------------------
(* The compiler's input, and what it makes of it. *)

HoldsIds(s) == \A p \in DOMAIN s.ids : \A i \in DOMAIN s.ids[p] : s.ids[p][i][1] \in {"rem", "ref"}

LEMMA WrittenIds == ASSUME NEW s, Plans!StepShape(s) PROVE HoldsIds(s)
<1> SUFFICES ASSUME NEW p \in DOMAIN s.ids, NEW i \in DOMAIN s.ids[p]
             PROVE  s.ids[p][i][1] \in {"rem", "ref"}
  BY DEF HoldsIds
<1>1. s.ids[p][i] \in Plans!Ids(s)
  BY DEF Plans!StepShape
<1> QED BY <1>1 DEF Plans!StepShape

LEMMA MergedIds ==
    ASSUME NEW S, \A s \in S : Plans!StepShape(s), NEW g, IsGroup(g, S), Len(g) > 1
    PROVE  HoldsIds(Plans!Merged(g))
<1> DEFINE a == Head(g).action
           IdsAt(p) == IF p = Plans!SharedPath(a) THEN Head(g).ids[p]
                       ELSE [i \in DOMAIN g |-> Head(g[i].ids[p])]
           paths == {Plans!PathInBulk(a, p) : p \in DOMAIN Head(g).ids}
           Source(q) == CHOOSE p \in DOMAIN Head(g).ids : Plans!PathInBulk(a, p) = q
<1>1. \A i \in DOMAIN g : g[i] \in S /\ Plans!MayJoin(g[i]) /\ g[i].action = a
  BY DEF IsGroup
<1>2. Head(g) = g[1] /\ 1 \in DOMAIN g
  BY DEF IsGroup
<1>3. Plans!Merged(g).ids = [q \in paths |-> IdsAt(Source(q))]
  BY DEF Plans!Merged
<1>4. ASSUME NEW q \in paths PROVE Source(q) \in DOMAIN Head(g).ids
  OBVIOUS
<1>5. ASSUME NEW p \in DOMAIN Head(g).ids, NEW i \in DOMAIN IdsAt(p)
      PROVE  IdsAt(p)[i][1] \in {"rem", "ref"}
  <2>1. CASE p = Plans!SharedPath(a)
    BY <1>1, <1>2, <2>1, WrittenIds DEF HoldsIds
  <2>2. CASE p # Plans!SharedPath(a)
    <3>1. i \in DOMAIN g /\ IdsAt(p)[i] = Head(g[i].ids[p])
      BY <2>2
    <3>2. a \in Plans!Joinable
      BY <1>1, <1>2 DEF Plans!MayJoin
    <3>3. p \in Plans!Actions[a].needs
      BY <1>1, <1>2, <2>2, <3>2 DEF Plans!StepShape
    <3>4. p \in DOMAIN g[i].ids
      BY <1>1, <3>1, <3>3 DEF Plans!MayJoin
    <3>5. g[i].ids[p] \in Seq(Plans!Ids(g[i])) /\ Len(g[i].ids[p]) = 1
      BY <1>1, <3>1, <3>2, <3>4 DEF Plans!StepShape
    <3>6. Head(g[i].ids[p]) = g[i].ids[p][1] /\ 1 \in DOMAIN g[i].ids[p]
      BY <3>5
    <3>7. HoldsIds(g[i])
      BY <1>1, <3>1, WrittenIds
    <3> QED BY <3>1, <3>4, <3>6, <3>7 DEF HoldsIds
  <2> QED BY <2>1, <2>2
<1> HIDE DEF IdsAt, Source, paths
<1> QED BY <1>3, <1>4, <1>5 DEF HoldsIds

LEMMA CoalescedIds ==
    ASSUME NEW e \in PlanEnvelopes, NEW i \in DOMAIN Plans!Coalesce(e.plan)
    PROVE  HoldsIds(Plans!Coalesce(e.plan)[i])
<1> DEFINE S == Plans!Range(e.plan)
           g == Plans!Groups(e.plan)[i]
<1>1. e.plan \in Seq(S) /\ \A s \in S : Plans!StepShape(s)
  BY PlanConstants DEF Plans!EnvelopeShape, Plans!Range
<1>2. i \in DOMAIN Plans!Groups(e.plan)
  BY DEF Plans!Coalesce
<1>3. Plans!Coalesce(e.plan)[i] = IF Len(g) = 1 THEN Head(g) ELSE Plans!Merged(g)
  BY <1>2 DEF Plans!Coalesce
<1> HIDE DEF S
<1>4. AreGroups(Plans!Groups(e.plan), S)
  BY <1>1, GroupsAreGroups
<1>5. IsGroup(g, S)
  BY <1>2, <1>4 DEF AreGroups
<1> HIDE DEF g
<1>6. CASE Len(g) = 1
  <2>1. Head(g) \in S
    BY <1>5, GroupHasHead
  <2> QED BY <1>1, <1>3, <1>6, <2>1, WrittenIds
<1>7. CASE Len(g) # 1
  <2>1. Len(g) > 1
    <3>1. Len(g) \in Nat \ {0}
      BY <1>5, GroupHasHead
    <3>2. \A n \in Nat \ {0} : n # 1 => n > 1
      OBVIOUS
    <3> QED BY <1>7, <3>1, <3>2, Zenon
  <2> QED BY <1>1, <1>3, <1>5, <1>7, <2>1, MergedIds
<1> QED BY <1>6, <1>7

(* An op names Rems, and temporary ids where the catalog has id fields. *)
IsOp(o) ==
    /\ "ids" \in DOMAIN o
    /\ \A q \in DOMAIN o.ids : \A i \in DOMAIN o.ids[q] :
         LET v == o.ids[q][i]
         IN v[1] = "rem" \/ (v[1] = "tmp" /\ q \in Plans!IdFields(o.type))

LEMMA CompiledOps ==
    ASSUME NEW plan, Plans!Accepted(plan), NEW k \in DOMAIN plan, HoldsIds(plan[k])
    PROVE  IsOp(Plans!CompiledStep(plan[k]))
<1> DEFINE s == plan[k]
           paths == {Plans!PayloadPath(s.action, p) : p \in DOMAIN s.ids}
           Source(q) == CHOOSE p \in DOMAIN s.ids : Plans!PayloadPath(s.action, p) = q
           Sent(q) == [i \in DOMAIN s.ids[Source(q)] |-> Plans!Resolved(s.ids[Source(q)][i])]
           o == Plans!CompiledStep(s)
<1>1. /\ "ids" \in DOMAIN o
      /\ o.ids = [q \in paths |-> Sent(q)]
      /\ o.type = Plans!Actions[s.action].op
  BY DEF Plans!CompiledStep
<1>2. ASSUME NEW q \in paths, NEW i \in DOMAIN Sent(q)
      PROVE  Sent(q)[i][1] = "rem" \/ (Sent(q)[i][1] = "tmp" /\ q \in Plans!IdFields(o.type))
  <2> DEFINE p == Source(q)
             v == s.ids[p][i]
  <2>1. p \in DOMAIN s.ids /\ Plans!PayloadPath(s.action, p) = q
    OBVIOUS
  <2> HIDE DEF p
  <2>2. i \in DOMAIN s.ids[p] /\ Sent(q)[i] = Plans!Resolved(v)
    BY DEF p
  <2>3. v[1] \in {"rem", "ref"}
    BY <2>1, <2>2 DEF HoldsIds
  <2> HIDE DEF Sent
  <2>4. CASE v[1] = "rem"
    BY <2>2, <2>4 DEF Plans!Resolved
  <2>5. CASE v[1] = "ref"
    <3>1. v \in Plans!OfKind(Plans!Range(s.ids[p]), "ref")
      BY <2>2, <2>5 DEF Plans!OfKind, Plans!Range
    <3>2. s.action \in DOMAIN Plans!Actions /\ p \in Plans!Actions[s.action].refs
      BY <2>1, <3>1 DEF Plans!Accepted
    <3>3. q \in Plans!IdFields(o.type)
      BY <1>1, <2>1, <3>2, ActionsFit
    <3>4. Sent(q)[i] = <<"tmp", v[2]>>
      BY <2>2, <2>5 DEF Plans!Resolved, Plans!Tmp
    <3> QED BY <3>3, <3>4
  <2> QED BY <2>3, <2>4, <2>5
<1> HIDE DEF Sent, paths, o
<1>3. IsOp(o)
  BY <1>1, <1>2 DEF IsOp
<1> QED BY <1>3 DEF o

-----------------------------------------------------------------------------
(* What is sent has its Rems. *)

PlansInv ==
    /\ envelope \in PlanEnvelopes
    /\ DOMAIN stepStatus = DOMAIN ops
    /\ \A i \in DOMAIN ops : IsOp(ops[i])
    /\ \A i \in Plans!InFlight : Plans!Unknown(ops[i]) = {}

LEMMA PlansStart == Plans!Init => PlansInv
  BY DEF Plans!Init, PlansInv, Plans!InFlight

LEMMA PlansStep == PlansInv /\ [Plans!Next]_(Plans!planVars) => PlansInv'
<1> SUFFICES ASSUME PlansInv, [Plans!Next]_(Plans!planVars) PROVE PlansInv'
  OBVIOUS
<1>1. CASE Plans!Submit
  <2> DEFINE plan == Plans!Coalesce(envelope.plan)
  <2>1. /\ Plans!Accepted(plan) /\ ops' = Plans!Compiled(plan)
        /\ envelope' = envelope /\ DOMAIN stepStatus' = DOMAIN ops'
        /\ \A i \in DOMAIN ops' : stepStatus'[i] \in {"shown", "pending"}
    BY <1>1 DEF Plans!Submit
  <2>2. \A i \in DOMAIN plan : HoldsIds(plan[i])
    BY CoalescedIds DEF PlansInv
  <2> HIDE DEF plan
  <2>3. \A i \in DOMAIN ops' : IsOp(ops'[i])
    BY <2>1, <2>2, CompiledOps DEF Plans!Compiled
  <2> QED BY <2>1, <2>3 DEF PlansInv, Plans!InFlight
<1>2. ASSUME NEW i \in DOMAIN ops,
             \/ Plans!Send(i) \/ Plans!Perform(i) \/ Plans!Throw(i)
             \/ Plans!Ack(i) \/ Plans!CutOff(i) \/ Plans!Lapse(i)
      PROVE  PlansInv'
  <2>1. /\ envelope' = envelope /\ ops' = ops /\ made \subseteq made'
        /\ \E s : stepStatus' = [stepStatus EXCEPT ![i] = s]
    BY <1>2 DEF Plans!Send, Plans!Perform, Plans!Throw, Plans!Ack, Plans!CutOff, Plans!Lapse
  <2>2. DOMAIN stepStatus' = DOMAIN ops'
    BY <2>1 DEF PlansInv
  <2>3. \A o : Plans!Unknown(o) = {} => Plans!Unknown(o)' = {}
    BY <2>1 DEF Plans!Unknown, Plans!TempIds
  <2>4. Plans!Send(i) => Plans!Unknown(ops[i]) = {}
    BY DEF Plans!Send
  <2>5. ASSUME NEW j \in DOMAIN ops, j \in Plans!InFlight'
        PROVE  Plans!Unknown(ops[j]) = {}
    <3>1. CASE j # i
      BY <2>1, <2>5, <3>1 DEF PlansInv, Plans!InFlight
    <3>2. CASE j = i /\ ~Plans!Send(i)
      <4>1. \A s : stepStatus' = [stepStatus EXCEPT ![i] = s] => stepStatus'[i] = s
        BY DEF PlansInv
      <4>2. i \in Plans!InFlight
        BY <1>2, <2>1, <2>5, <3>2, <4>1
        DEF Plans!InFlight, Plans!Perform, Plans!Throw, Plans!Ack, Plans!CutOff, Plans!Lapse
      <4> QED BY <3>2, <4>2 DEF PlansInv
    <3> QED BY <2>4, <3>1, <3>2
  <2> QED BY <2>1, <2>2, <2>3, <2>5 DEF PlansInv, Plans!InFlight
<1>3. CASE UNCHANGED Plans!planVars
  BY <1>3 DEF Plans!planVars, PlansInv, Plans!InFlight, Plans!Unknown
<1> QED BY <1>1, <1>2, <1>3 DEF Plans!Next

LEMMA SentIsMade == PlansInv => Plans!HeldUntilMade
<1> SUFFICES ASSUME PlansInv, NEW k \in Plans!InFlight,
                    NEW v \in Plans!Ids(Plans!Substituted(ops[k]))
             PROVE  v[1] = "rem"
  BY DEF Plans!HeldUntilMade
<1> DEFINE o == ops[k]
           Real(w) == IF w[1] = "tmp" /\ w[2] \in made THEN Plans!Rem(w[2]) ELSE w
           sent == [p \in DOMAIN o.ids |->
                      IF p \in Plans!IdFields(o.type)
                      THEN [i \in DOMAIN o.ids[p] |-> Real(o.ids[p][i])] ELSE o.ids[p]]
<1>1. IsOp(o) /\ Plans!Unknown(o) = {}
  BY DEF PlansInv, Plans!InFlight
<1>2. Plans!Substituted(o).ids = sent
  BY <1>1 DEF Plans!Substituted, IsOp
<1>3. PICK p \in DOMAIN o.ids : v \in Plans!Range(sent[p])
  BY <1>2 DEF Plans!Ids
<1>4. CASE p \in Plans!IdFields(o.type)
  <2>1. PICK i \in DOMAIN o.ids[p] : v = Real(o.ids[p][i])
    BY <1>3, <1>4 DEF Plans!Range
  <2> DEFINE w == o.ids[p][i]
  <2>2. w[1] = "rem" \/ w[1] = "tmp"
    BY <1>1 DEF IsOp
  <2>3. CASE w[1] = "tmp"
    <3>1. w \in Plans!TempIds(o)
      BY <1>4, <2>3 DEF Plans!TempIds, Plans!OfKind, Plans!Col, Plans!Range
    <3>2. w[2] \in made
      BY <1>1, <3>1 DEF Plans!Unknown
    <3> QED BY <2>1, <2>3, <3>2 DEF Plans!Rem
  <2> QED BY <2>1, <2>2, <2>3
<1>5. CASE p \notin Plans!IdFields(o.type)
  <2>1. PICK i \in DOMAIN o.ids[p] : v = o.ids[p][i]
    BY <1>3, <1>5 DEF Plans!Range
  <2> QED BY <1>1, <1>5, <2>1 DEF IsOp
<1> QED BY <1>4, <1>5

(* No op reaches RemNote before the Rems it names, and what the host keeps apart
   the plugin locks, for any plans that a caller can write. *)
THEOREM OpsHeldInTurn == AllSpec => []OpsWaitTheirTurn
<1>1. AllInit => PlansInv
  BY PlansStart DEF AllInit
<1>2. PlansInv /\ [AllNext]_allVars => PlansInv'
  <2>1. [AllNext]_allVars => [Plans!Next]_(Plans!planVars)
    BY DEF AllNext, allVars, planVars, Plans!planVars
  <2> QED BY <2>1, PlansStep
<1>3. Plans!HostKeysAreLocked
  BY KeysLocked DEF Plans!HostKeysAreLocked
<1>4. PlansInv => OpsWaitTheirTurn
  BY <1>3, SentIsMade DEF OpsWaitTheirTurn
<1> QED BY <1>1, <1>2, <1>4, PTL DEF AllSpec

-----------------------------------------------------------------------------
(* The queue as QueueStore knows it: an ack that is in conflict about an id
   is an ack. *)

RowStatus == {"none", "id_map_conflict"} \cup Ids!OpenAttempt \cup Ids!ClosedAttempt

Row(st) == IF st = "id_map_conflict" THEN "succeeded" ELSE st

Rows == [o \in Ops |-> [a \in 1 .. Ids!MaxClaims |-> Row(attempts[o][a])]]

Queue == INSTANCE QueueStoreProofs WITH attempts <- Rows, ConflictKeys <- OpKeys

QueueConstants ==
    Queue!TxnShape /\ Queue!Durations /\ Queue!Limits /\ Queue!NullConn

LEMMA QueueAssumptions == QueueConstants
  BY IdConstants
     DEF QueueConstants, Ids!TxnShape, Ids!Durations, Ids!Limits, Ids!NullConn,
         Queue!TxnShape, Queue!Durations, Queue!Limits, Queue!NullConn

AttemptsOK == attempts \in [Ops -> [1 .. Ids!MaxClaims -> RowStatus]]

(* What is yet to be stored was said by the accepted ack. *)
Accepted(r) == \E o \in Ops : r = <<o, attemptId[o]>> /\ opStatus[o] = "succeeded"

UnstoredAccepted == \A r \in unstored : Accepted(r)

MapInv == AttemptsOK /\ UnstoredAccepted /\ Queue!IInv

LEMMA TypeOfChange ==
    ASSUME AttemptsOK, NEW o, NEW a, NEW s \in RowStatus,
           attempts' = [attempts EXCEPT ![o][a] = s]
    PROVE  AttemptsOK'
  BY DEF AttemptsOK

LEMMA RowOfChange ==
    ASSUME AttemptsOK, NEW o, NEW a, NEW s \in RowStatus \ {"id_map_conflict"},
           attempts' = [attempts EXCEPT ![o][a] = s]
    PROVE  AttemptsOK' /\ Rows' = [Rows EXCEPT ![o][a] = s]
<1>1. AttemptsOK'
  BY TypeOfChange
<1>2. Rows' = [Rows EXCEPT ![o][a] = s]
  BY DEF Rows, Row, AttemptsOK
<1> QED BY <1>1, <1>2

LEMMA ClaimMaps ==
    ASSUME AttemptsOK, NEW S \in SUBSET Ops, NEW c, Ids!Claim(S, c)
    PROVE  AttemptsOK' /\ Queue!Claim(S, c)
<1>1. "claimed" \in RowStatus /\ Row("claimed") = "claimed"
  BY DEF RowStatus, Ids!OpenAttempt, Row
<1>2. AttemptsOK'
  BY <1>1 DEF AttemptsOK, Ids!Claim
<1>3. Rows' = [o \in Ops |->
          IF o \in S THEN [Rows[o] EXCEPT ![Ids!FreshAttempt(o)] = "claimed"] ELSE Rows[o]]
  BY <1>1 DEF AttemptsOK, Ids!Claim, Rows
<1> QED BY <1>2, <1>3 DEF Ids!Claim, Queue!Claim, Ids!FreshAttempt, Queue!FreshAttempt

LEMMA DispatchMaps ==
    ASSUME AttemptsOK, NEW c \in Conns
    PROVE  /\ \A S \in SUBSET Ops :
                Ids!ClaimBatch(S, c) => AttemptsOK' /\ Queue!ClaimBatch(S, c)
           /\ \A o \in Ops :
                Ids!ClaimOversize(o, c) => AttemptsOK' /\ Queue!ClaimOversize(o, c)
<1>1. ASSUME NEW o PROVE Ids!Unblocked(o) <=> Queue!Unblocked(o)
  BY DEF Ids!Unblocked, Queue!Unblocked, Ids!Eligible, Queue!Eligible, Ids!InFlight,
         Queue!InFlight, Ids!OpsOf, Queue!OpsOf, Ids!Predecessors, Queue!Predecessors,
         Ids!LiveInFlight, Queue!LiveInFlight, Ids!Conflicting, Queue!Conflicting
<1>2. ASSUME NEW S \in SUBSET Ops, Ids!ClaimBatch(S, c)
      PROVE  AttemptsOK' /\ Queue!ClaimBatch(S, c)
  BY <1>1, <1>2, ClaimMaps
     DEF Ids!ClaimBatch, Queue!ClaimBatch, Ids!Selectable, Queue!Selectable,
         Ids!Conflicting, Queue!Conflicting
<1>3. ASSUME NEW o \in Ops, Ids!ClaimOversize(o, c)
      PROVE  AttemptsOK' /\ Queue!ClaimOversize(o, c)
  BY <1>1, <1>3, ClaimMaps DEF Ids!ClaimOversize, Queue!ClaimOversize
<1> QED BY <1>2, <1>3

LEMMA CloseMaps ==
    ASSUME AttemptsOK, NEW o, NEW a, NEW st, NEW row \in Ids!ClosedAttempt, NEW res,
           Ids!Close(o, a, st, row, res)
    PROVE  AttemptsOK' /\ Queue!Close(o, a, st, row, res)
<1>1. row \in RowStatus \ {"id_map_conflict"}
  BY DEF RowStatus, Ids!ClosedAttempt
<1> QED BY <1>1, RowOfChange DEF Ids!Close, Queue!Close, Ids!NoLease, Queue!NoLease

LEMMA AckMaps ==
    ASSUME AttemptsOK, NEW o, NEW a, NEW c
    PROVE  /\ Ids!AckSuccess(o, a, c) => AttemptsOK' /\ Queue!AckSuccess(o, a, c)
           /\ Ids!AckDead(o, a, c) => AttemptsOK' /\ Queue!AckDead(o, a, c)
           /\ \A d : Ids!AckRetry(o, a, c, d) => AttemptsOK' /\ Queue!AckRetry(o, a, c, d)
<1> USE DEF Ids!AckReply, Queue!AckReply, Ids!Holds, Queue!Holds, Ids!InFlight,
            Queue!InFlight
<1>1. {"succeeded", "dead", "retry"} \subseteq Ids!ClosedAttempt
  BY DEF Ids!ClosedAttempt
<1>2. ASSUME Ids!AckSuccess(o, a, c) PROVE AttemptsOK' /\ Queue!AckSuccess(o, a, c)
  BY <1>1, <1>2, CloseMaps
     DEF Ids!AckSuccess, Queue!AckSuccess, Ids!OthersSucceeded, Queue!OthersSucceeded,
         Ids!OpsOf, Queue!OpsOf
<1>3. ASSUME Ids!AckDead(o, a, c) PROVE AttemptsOK' /\ Queue!AckDead(o, a, c)
  BY <1>1, <1>3, CloseMaps DEF Ids!AckDead, Queue!AckDead
<1>4. ASSUME NEW d, Ids!AckRetry(o, a, c, d) PROVE AttemptsOK' /\ Queue!AckRetry(o, a, c, d)
  BY <1>1, <1>4, CloseMaps DEF Ids!AckRetry, Queue!AckRetry, Ids!Exhausted, Queue!Exhausted
<1> QED BY <1>2, <1>3, <1>4

LEMMA HousekeepingMaps ==
    ASSUME AttemptsOK, Ids!Housekeeping
    PROVE  AttemptsOK' /\ Queue!Next
<1>1. ASSUME UNCHANGED attempts PROVE AttemptsOK' /\ Rows' = Rows
  BY <1>1 DEF AttemptsOK, Rows
<1>2. CASE Ids!Tick
  BY <1>1, <1>2
     DEF Ids!Tick, Queue!Tick, Queue!Next, Ids!InFlight, Queue!InFlight, Ids!MayLapse,
         Queue!MayLapse, Ids!Sooner, Queue!Sooner, Ids!MaxClaims, Queue!MaxClaims
<1>3. ASSUME NEW t \in Txns, Ids!EnqueueTxn(t) PROVE AttemptsOK' /\ Queue!Next
  BY <1>1, <1>3 DEF Ids!EnqueueTxn, Queue!EnqueueTxn, Queue!Next
<1>4. CASE Ids!RecoverExpiredLeases
  <2>1. "lease_expired" \in RowStatus /\ Row("lease_expired") = "lease_expired"
    BY DEF RowStatus, Ids!ClosedAttempt, Row
  <2>2. AttemptsOK'
    BY <1>4, <2>1 DEF AttemptsOK, Ids!RecoverExpiredLeases
  <2>3. Rows' = [o \in Ops |->
          IF Ids!Expired(o) THEN [Rows[o] EXCEPT ![attemptId[o]] = "lease_expired"]
          ELSE Rows[o]]
    BY <1>4, <2>1 DEF AttemptsOK, Ids!RecoverExpiredLeases, Rows
  <2>4. Queue!RecoverExpiredLeases
    BY <1>4, <2>3
       DEF Ids!RecoverExpiredLeases, Queue!RecoverExpiredLeases, Ids!Expired, Queue!Expired,
           Ids!InFlight, Queue!InFlight, Ids!NoLease, Queue!NoLease
  <2> QED BY <2>2, <2>4 DEF Queue!Next
<1>5. ASSUME NEW o \in Ops, Ids!WorkerExtend(o) PROVE AttemptsOK' /\ Queue!Next
  <2>1. PICK a \in Ids!HandedOut(o), c \in Conns, ms \in Extensions :
            Ids!ExtendLease(o, a, c, ms)
    BY <1>5 DEF Ids!WorkerExtend
  <2>2. "lease_extended" \in RowStatus \ {"id_map_conflict"}
    BY DEF RowStatus, Ids!OpenAttempt
  <2>3. AttemptsOK' /\ Rows' = [Rows EXCEPT ![o][a] = "lease_extended"]
    BY <2>1, <2>2, RowOfChange DEF Ids!ExtendLease
  <2>4. Queue!ExtendLease(o, a, c, ms)
    BY <2>1, <2>3
       DEF Ids!ExtendLease, Queue!ExtendLease, Ids!Holds, Queue!Holds, Ids!InFlight,
           Queue!InFlight
  <2> QED BY <1>5, <2>3, <2>4
          DEF Ids!WorkerExtend, Queue!WorkerExtend, Ids!HandedOut, Queue!HandedOut,
              Queue!Next
<1> QED BY <1>2, <1>3, <1>4, <1>5 DEF Ids!Housekeeping

(* When the mappings are in conflict the row of the accepted ack is marked. *)
LEMMA StoreMaps ==
    ASSUME MapInv, Ids!StoreMappings
    PROVE  AttemptsOK' /\ UNCHANGED Queue!vars
<1>1. PICK r \in unstored :
          \/ UNCHANGED attempts
          \/ attempts' = [attempts EXCEPT ![r[1]][r[2]] = "id_map_conflict"]
  BY DEF Ids!StoreMappings
<1>2. PICK o \in Ops : r = <<o, attemptId[o]>> /\ opStatus[o] = "succeeded"
  BY <1>1 DEF MapInv, UnstoredAccepted, Accepted
<1>3. attemptId[o] \in 1 .. Ids!MaxClaims => Rows[o][attemptId[o]] = "succeeded"
  BY <1>2 DEF MapInv, Queue!IInv, Queue!AttemptAudit, Queue!AuditRow, Queue!RowsFor,
              Ids!MaxClaims, Queue!MaxClaims
<1>4. AttemptsOK'
  <2>1. "id_map_conflict" \in RowStatus /\ AttemptsOK
    BY DEF MapInv, RowStatus
  <2>2. \/ attempts' = attempts
        \/ attempts' = [attempts EXCEPT ![o][attemptId[o]] = "id_map_conflict"]
    BY <1>1, <1>2
  <2>3. CASE attempts' = attempts
    BY <2>1, <2>3 DEF AttemptsOK
  <2>4. CASE attempts' = [attempts EXCEPT ![o][attemptId[o]] = "id_map_conflict"]
    BY <2>1, <2>4, TypeOfChange
  <2> QED BY <2>2, <2>3, <2>4
<1>5. Rows' = Rows
  <2>1. CASE UNCHANGED attempts
    BY <2>1 DEF Rows
  <2>2. CASE attempts' = [attempts EXCEPT ![o][attemptId[o]] = "id_map_conflict"]
    BY <1>3, <2>2 DEF MapInv, AttemptsOK, Rows, Row
  <2> QED BY <1>1, <1>2, <2>1, <2>2
<1> QED BY <1>4, <1>5 DEF Ids!StoreMappings, Queue!vars

LEMMA QueueStep ==
    ASSUME MapInv, [Ids!MapNext]_(Ids!allVars)
    PROVE  AttemptsOK' /\ [Queue!Next]_(Queue!vars)
<1>1. ASSUME UNCHANGED Ids!vars PROVE AttemptsOK' /\ UNCHANGED Queue!vars
  BY <1>1 DEF MapInv, AttemptsOK, Rows, Ids!vars, Queue!vars
<1>2. CASE Ids!DispatchReady
  BY <1>2, DispatchMaps DEF MapInv, Ids!DispatchReady, Queue!Dispatch, Queue!Next
<1>3. ASSUME NEW o \in Ops, Ids!AckOf(o) PROVE AttemptsOK' /\ Queue!Next
  <2>1. PICK a \in Ids!HandedOut(o), c \in Conns :
            \/ Ids!AckSuccess(o, a, c)
            \/ Ids!AckDead(o, a, c)
            \/ \E d \in RetryDelays : Ids!AckRetry(o, a, c, d)
    BY <1>3 DEF Ids!AckOf, Ids!Acknowledge
  <2>2. o \notin Oversize /\ a \in Queue!HandedOut(o)
    BY <1>3 DEF Ids!AckOf, Ids!HandedOut, Queue!HandedOut
  <2>3. AttemptsOK' /\ Queue!WorkerAck(o)
    BY <2>1, <2>2, AckMaps DEF MapInv, Queue!WorkerAck
  <2> QED BY <2>3 DEF Queue!Next
<1>4. CASE Ids!DaemonStops \/ Ids!PollTxn \/ Ids!Decide \/ UNCHANGED Ids!allVars
  BY <1>1, <1>4 DEF Ids!DaemonStops, Ids!PollTxn, Ids!Decide, Ids!allVars
<1> QED BY <1>2, <1>3, <1>4, StoreMaps, HousekeepingMaps DEF MapInv, Ids!MapNext

LEMMA AcceptedStays ==
    ASSUME MapInv, [Ids!MapNext]_(Ids!allVars), NEW r, Accepted(r)
    PROVE  Accepted(r)'
<1>1. PICK o \in Ops : r = <<o, attemptId[o]>> /\ opStatus[o] = "succeeded"
  BY DEF Accepted
<1>2. opStatus'[o] = "succeeded" /\ attemptId'[o] = attemptId[o]
  BY <1>1, QueueStep, QueueAssumptions, Queue!SuccessStays DEF MapInv, QueueConstants
<1> QED BY <1>1, <1>2 DEF Accepted

LEMMA UnstoredStep == ASSUME MapInv, [Ids!MapNext]_(Ids!allVars) PROVE UnstoredAccepted'
<1>1. ASSUME NEW o \in Ops, NEW a, NEW c, Ids!Acknowledge(o, a, c) PROVE UnstoredAccepted'
  <2>1. attemptId[o] = a /\ attemptId' = attemptId /\ opStatus'[o] = "succeeded"
    BY <1>1
       DEF Ids!Acknowledge, Ids!AckSuccess, Ids!AckReply, Ids!Holds, Ids!InFlight,
           Ids!Close, MapInv, Queue!IInv, Queue!TypeOK
  <2> QED BY <1>1, <2>1 DEF Ids!Acknowledge, UnstoredAccepted, Accepted
<1>2. ASSUME NEW o \in Ops, Ids!AckOf(o) PROVE UnstoredAccepted'
  <2>1. CASE UNCHANGED Ids!idVars
    BY <2>1, AcceptedStays DEF MapInv, UnstoredAccepted, Ids!idVars
  <2> QED BY <1>1, <1>2, <2>1 DEF Ids!AckOf
<1>3. CASE unstored' \subseteq unstored
  BY <1>3, AcceptedStays DEF MapInv, UnstoredAccepted
<1>4. CASE Ids!DispatchReady \/ Ids!StoreMappings \/ Ids!DaemonStops \/ Ids!Housekeeping
           \/ Ids!PollTxn \/ Ids!Decide
           \/ UNCHANGED Ids!allVars
  BY <1>3, <1>4
     DEF Ids!DispatchReady, Ids!StoreMappings, Ids!DaemonStops, Ids!Housekeeping,
         Ids!PollTxn, Ids!Decide, Ids!idVars, Ids!allVars
<1> QED BY <1>2, <1>4 DEF Ids!MapNext

LEMMA MapStarts == Ids!MapInit => MapInv
<1>1. SUFFICES ASSUME Ids!MapInit PROVE MapInv
  OBVIOUS
<1>2. AttemptsOK /\ Rows = [o \in Ops |-> [a \in 1 .. Ids!MaxClaims |-> "none"]]
  BY <1>1 DEF Ids!MapInit, Ids!Init, AttemptsOK, RowStatus, Rows, Row
<1>3. Queue!Init
  BY <1>1, <1>2
     DEF Ids!MapInit, Ids!Init, Queue!Init, Ids!NoLease, Queue!NoLease, Ids!MaxClaims,
         Queue!MaxClaims
<1>4. UnstoredAccepted
  BY <1>1 DEF Ids!MapInit, UnstoredAccepted
<1> QED BY <1>2, <1>3, <1>4, QueueAssumptions, Queue!InitIInv DEF QueueConstants, MapInv

LEMMA MapStep == ASSUME MapInv, [Ids!MapNext]_(Ids!allVars) PROVE MapInv'
<1>1. Queue!IInv'
  BY QueueStep, QueueAssumptions, Queue!Inductive DEF QueueConstants, MapInv
<1> QED BY <1>1, QueueStep, UnstoredStep DEF MapInv

THEOREM MapInvariance == Ids!MapSpec => []MapInv
  BY MapStarts, MapStep, PTL DEF Ids!MapSpec

(* The queue under the ids is the queue: everything proved of QueueStore
   holds of it, with an ack in conflict for the ack it is. *)
THEOREM IdsUseQueue == Ids!MapSpec => Queue!Spec
<1>1. Ids!MapInit => Queue!Init
  BY DEF Ids!MapInit, Ids!Init, Queue!Init, Ids!NoLease, Queue!NoLease, Ids!MaxClaims,
         Queue!MaxClaims, Rows, Row
<1>2. MapInv /\ [Ids!MapNext]_(Ids!allVars) => [Queue!Next]_(Queue!vars)
  BY QueueStep
<1> QED BY <1>1, <1>2, MapInvariance, PTL DEF Ids!MapSpec, Queue!Spec

-----------------------------------------------------------------------------
(* What a temporary id means. *)

LEMMA StoreKeeps ==
    ASSUME Ids!StoreMappings, NEW x \in TmpIds, Ids!Mapped(x)
    PROVE  idMap'[x] = idMap[x]
  BY DEF Ids!StoreMappings, Ids!Drifts

LEMMA MapChanges ==
    ASSUME [Ids!MapNext]_(Ids!allVars)
    PROVE  Ids!StoreMappings \/ idMap' = idMap
  BY DEF Ids!MapNext, Ids!DispatchReady, Ids!AckOf, Ids!Acknowledge, Ids!DaemonStops,
         Ids!Housekeeping, Ids!PollTxn, Ids!Decide, Ids!idVars, Ids!allVars

(* A temporary id never changes its meaning, whatever acks, retries and
   crashes come between. *)
THEOREM IdsNeverDrift == Ids!MapSpec => Ids!NoDrift
<1>1. [Ids!MapNext]_(Ids!allVars)
        => [\A x \in TmpIds : Ids!Mapped(x) => idMap'[x] = idMap[x]]_(Ids!allVars)
  BY StoreKeeps, MapChanges DEF Ids!allVars, Ids!idVars
<1> QED BY <1>1, PTL DEF Ids!MapSpec, Ids!NoDrift

MappedTruly ==
    \A x \in TmpIds : Ids!Mapped(x) => x \in Reports[idMap[x][1]] /\ Accepted(idMap[x])

LEMMA MappedTrulyStep ==
    ASSUME MapInv, MappedTruly, [Ids!MapNext]_(Ids!allVars)
    PROVE  MappedTruly'
<1>1. CASE idMap' = idMap
  BY <1>1, AcceptedStays DEF MappedTruly, Ids!Mapped
<1>2. CASE Ids!StoreMappings
  <2>1. PICK r \in unstored : \A x \in TmpIds :
            \/ idMap'[x] = idMap[x]
            \/ x \in Reports[r[1]] /\ idMap'[x] = r
    BY <1>2 DEF Ids!StoreMappings
  <2>2. Accepted(r)
    BY DEF MapInv, UnstoredAccepted
  <2>3. \A q : Accepted(q) => Accepted(q)'
    BY AcceptedStays
  <2> QED BY <2>1, <2>2, <2>3 DEF MappedTruly, Ids!Mapped
<1> QED BY <1>1, <1>2, MapChanges

LEMMA MappedTrulyInvariance == Ids!MapSpec => [](MapInv /\ MappedTruly)
<1>1. Ids!MapInit => MappedTruly
  BY DEF Ids!MapInit, MappedTruly, Ids!Mapped
<1> QED BY <1>1, MapStarts, MapStep, MappedTrulyStep, PTL DEF Ids!MapSpec

(* Nothing but the accepted ack of an op that has succeeded gives a temporary
   id its meaning, for any ops and any reports. *)
THEOREM MappingsAccepted == Ids!MapSpec => []Ids!MappingIsAccepted
<1>1. MappedTruly => Ids!MappingIsAccepted
  <2>1. ASSUME NEW x, Accepted(idMap[x]), x \in Reports[idMap[x][1]]
        PROVE  \E o \in Ops : /\ x \in Reports[o] /\ idMap[x] = <<o, attemptId[o]>>
                              /\ opStatus[o] = "succeeded"
    BY <2>1 DEF Accepted
  <2> QED BY <2>1 DEF MappedTruly, Ids!MappingIsAccepted
<1> QED BY <1>1, MappedTrulyInvariance, PTL

-----------------------------------------------------------------------------
(* What the waiter is told. *)

NamesOf(t) == UNION {Names[o] : o \in Ids!OpsOf(t)}

AllNamed == \A x \in NamesOf(Waited) : Ids!Mapped(x)

(* What has been read and said of the transaction still holds. *)
WaiterInv ==
    /\ polled \in {"succeeded", "failed"} => txnStatus[Waited] = polled
    /\ verdict = "success" => txnStatus[Waited] = "succeeded" /\ AllNamed
    /\ verdict = "failed" => txnStatus[Waited] = "failed"

LEMMA SameCount ==
    ASSUME NEW S
    PROVE  /\ Ids!Cardinality(S) = Cardinality(S)
           /\ Ids!IsFiniteSet(S) <=> IsFiniteSet(S)
  BY DEF Ids!Cardinality, Cardinality, Ids!IsFiniteSet, IsFiniteSet

(* As many rows as names are the rows of the names. *)
LEMMA CompleteMapsAll == ASSUME Ids!IdShape, MappedTruly, Ids!Complete PROVE AllNamed
<1> DEFINE N == NamesOf(Waited)
<1>1. N \in SUBSET TmpIds
  BY DEF Ids!IdShape, NamesOf, Ids!OpsOf
<1>2. IsFiniteSet(N)
  BY <1>1, SameCount, FS_Subset DEF Ids!IdShape
<1>3. Ids!MappingsOf(Waited) \in SUBSET N
  <2>1. ASSUME NEW x \in Ids!MappingsOf(Waited) PROVE x \in N
    <3>1. x \in TmpIds /\ Ids!Mapped(x) /\ TxnOf[idMap[x][1]] = Waited
      BY DEF Ids!MappingsOf
    <3>2. x \in Reports[idMap[x][1]] /\ Accepted(idMap[x])
      BY <3>1 DEF MappedTruly
    <3>3. idMap[x][1] \in Ids!OpsOf(Waited)
      BY <3>1, <3>2 DEF Accepted, Ids!OpsOf
    <3> QED BY <3>2, <3>3 DEF Ids!IdShape, NamesOf
  <2> QED BY <2>1
<1>4. Cardinality(Ids!MappingsOf(Waited)) = Cardinality(N)
  <2>1. Cardinality(N) \in Nat /\ Cardinality(Ids!MappingsOf(Waited)) \in Nat
    BY <1>2, <1>3, FS_Subset, FS_CardinalityType
  <2>2. Cardinality(Ids!MappingsOf(Waited)) <= Cardinality(N)
    BY <1>2, <1>3, FS_Subset
  <2>3. Cardinality(Ids!MappingsOf(Waited)) >= Cardinality(N)
    BY SameCount DEF Ids!Complete, NamesOf
  <2> QED BY <2>1, <2>2, <2>3
<1>5. Ids!MappingsOf(Waited) = N
  BY <1>2, <1>3, <1>4, FS_Subset
<1> QED BY <1>5 DEF AllNamed, Ids!MappingsOf

LEMMA WaiterStep ==
    ASSUME Ids!IdShape, MapInv, MappedTruly, WaiterInv, [Ids!MapNext]_(Ids!allVars)
    PROVE  WaiterInv'
<1>1. txnStatus[Waited] \in {"succeeded", "failed"} => txnStatus'[Waited] = txnStatus[Waited]
  BY QueueStep, QueueAssumptions, Queue!VerdictStays DEF QueueConstants, MapInv, Ids!IdShape
<1>2. AllNamed => AllNamed'
  <2>1. NamesOf(Waited) \subseteq TmpIds
    BY DEF Ids!IdShape, NamesOf, Ids!OpsOf
  <2> QED BY <2>1, StoreKeeps, MapChanges DEF AllNamed, Ids!Mapped
<1>3. CASE UNCHANGED Ids!waitVars
  BY <1>1, <1>2, <1>3 DEF WaiterInv, Ids!waitVars
<1>4. CASE Ids!PollTxn
  BY <1>1, <1>2, <1>4 DEF Ids!PollTxn, WaiterInv, Ids!vars
<1>5. CASE Ids!Decide
  <2>1. txnStatus' = txnStatus /\ AllNamed' = AllNamed
    BY <1>5 DEF Ids!Decide, Ids!vars, Ids!idVars, AllNamed, Ids!Mapped
  <2>2. Ids!Complete => AllNamed
    BY CompleteMapsAll
  <2> QED BY <1>5, <2>1, <2>2 DEF Ids!Decide, WaiterInv
<1>6. Ids!MapNext => Ids!PollTxn \/ Ids!Decide \/ UNCHANGED Ids!waitVars
  BY DEF Ids!MapNext, Ids!DispatchReady, Ids!AckOf, Ids!Acknowledge, Ids!StoreMappings,
         Ids!DaemonStops, Ids!Housekeeping, Ids!waitVars
<1> QED BY <1>3, <1>4, <1>5, <1>6 DEF Ids!allVars

(* Whoever waited for a transaction was told the truth: of a success, that it
   is one and that all the ids it was to be given are there. *)
THEOREM WaiterToldTruth == ASSUME Ids!IdShape PROVE Ids!MapSpec => []Ids!WaiterTellsTruth
<1>1. Ids!MapInit => WaiterInv
  BY DEF Ids!MapInit, WaiterInv
<1>2. WaiterInv => Ids!WaiterTellsTruth
  BY DEF WaiterInv, Ids!WaiterTellsTruth, AllNamed, NamesOf
<1>3. MapInv /\ MappedTruly /\ WaiterInv /\ [Ids!MapNext]_(Ids!allVars) => WaiterInv'
  BY WaiterStep
<1> QED BY <1>1, <1>2, <1>3, MappedTrulyInvariance, PTL DEF Ids!MapSpec

-----------------------------------------------------------------------------
(* The part "ids" does what IdMap allows. *)

LEMMA IdsRun == AllSpec => Ids!MapSpec
<1>1. AllInit => Ids!MapInit
  BY DEF AllInit
<1>2. [AllNext]_allVars => [Ids!MapNext]_(Ids!allVars)
  BY DEF AllNext, allVars, idsVars, mapVars, Ids!allVars, Ids!vars, Ids!idVars, Ids!waitVars
<1> QED BY <1>1, <1>2, PTL DEF AllSpec, Ids!MapSpec

(* A temporary id means what the accepted ack said, and whoever waited for a
   transaction was told the truth, for any ops, ids and reports. *)
THEOREM IdsStayTrue == AllSpec => []IdsAreTrue
<1>1. Ids!MapSpec => []Ids!MappingIsAccepted
  BY MappingsAccepted
<1>2. Ids!MapSpec => []Ids!WaiterTellsTruth
  BY IdConstants, WaiterToldTruth
<1>3. Ids!MappingIsAccepted /\ Ids!WaiterTellsTruth => IdsAreTrue
  BY DEF IdsAreTrue
<1> QED BY IdsRun, <1>1, <1>2, <1>3, PTL

(* A temporary id never changes its meaning. *)
THEOREM MeaningStays == AllSpec => NoDrift
<1>1. Ids!MapSpec => Ids!NoDrift
  BY IdsNeverDrift
<1> QED BY IdsRun, <1>1, PTL DEF NoDrift
=============================================================================
