-------------------------- MODULE PluginPartsProofs --------------------------
(***************************************************************************)
(* What is proved of the parts of PluginParts other than the locks (see    *)
(* OpLocksProofs), for every value of their constants.                     *)
(***************************************************************************)
EXTENDS PluginParts, SequenceTheorems, FiniteSetTheorems, WellFoundedInduction, TLAPS

LEMMA PartsRun ==
    AllSpec => Puller!Spec /\ Search!Spec
<1>1. AllInit => Puller!Init /\ Search!Init
  BY DEF AllInit
<1>2. [AllNext]_allVars => [Puller!Next]_(Puller!loopVars) /\ [Search!Next]_(Search!rpcVars)
  BY DEF AllNext, allVars, pullerVars, searchVars, Puller!loopVars, Search!rpcVars
<1> QED BY <1>1, <1>2, PTL DEF AllSpec, Puller!Spec, Search!Spec

-----------------------------------------------------------------------------
(* The sync loop.  The control channel and the worker socket are those of   *)
(* the current run: a run that the watchdog has given up has lost its own   *)
(* with them, or is on one that nobody chooses any more, and a socket is    *)
(* chosen on the way in only, by the current run or by one that is late.    *)

PullerTypeOK ==
    /\ mode \in [SyncRuns -> {"silent", "manual", "late"}]
    /\ phase \in [SyncRuns -> {"none", "toast", "dialing", "pull", "asked", "race",
                               "farewell", "stuck"}]
    /\ {controlWs, workerWs} \subseteq SyncSockets \cup {Puller!None}
    /\ runWs \in [SyncRuns -> SyncSockets \cup {Puller!None}]
    /\ activeRun \in SyncRuns \cup {Puller!None}

(* No socket before the loop, and none after it. *)
Outside == {"none", "toast", "dialing", "farewell", "stuck"}

InTime(r) == mode[r] # "late"

(* The flags are those of the current run: only it is on its way in or out, or
   the user's. *)
CurrentRun ==
    /\ syncing <=> activeRun # Puller!None
    /\ \A r \in SyncRuns : InTime(r) /\ phase[r] \in Outside \ {"none"} => r = activeRun
    /\ \A r \in SyncRuns : mode[r] = "manual" => r = activeRun
    /\ \A r \in SyncRuns : r = activeRun => InTime(r)

(* Who is on which socket. *)
SocketsApart ==
    /\ \A r \in SyncRuns : phase[r] \in Outside => runWs[r] = Puller!None
    /\ \A r \in SyncRuns : InTime(r) /\ r # activeRun /\ runWs[r] # Puller!None
         => runWs[r] \notin {controlWs, workerWs}
    /\ \A q, r \in SyncRuns : InTime(q) /\ InTime(r) /\ runWs[q] = runWs[r]
         => q = r \/ runWs[r] = Puller!None

PullerInv == PullerTypeOK /\ CurrentRun /\ SocketsApart

LEMMA PullerStarts == Puller!Init => PullerInv
  BY RunNumbers DEF Puller!Init, Puller!None, PullerInv, PullerTypeOK, CurrentRun,
       SocketsApart, InTime, Outside

(* Connections that are closed or given up, and nothing else of them. *)
Fewer ==
    /\ controlWs' \in {controlWs, Puller!None} /\ workerWs' \in {workerWs, Puller!None}
    /\ runWs' \in [SyncRuns -> SyncSockets \cup {Puller!None}]
    /\ \A r \in SyncRuns : runWs'[r] \in {runWs[r], Puller!None}

LEMMA DisconnectIs ==
    ASSUME PullerInv, NEW W, NEW R, Puller!Disconnect(W, R)
    PROVE  /\ Fewer
           /\ \A r \in SyncRuns : r \in R \/ runWs[r] \in W => runWs'[r] = Puller!None
           /\ controlWs \in W => controlWs' = Puller!None
           /\ workerWs \in W => workerWs' = Puller!None
  BY DEF Puller!Disconnect, Fewer, PullerInv, PullerTypeOK

LEMMA FreshIs ==
    ASSUME PullerInv, NEW w, Puller!Fresh(w)
    PROVE  w = Puller!None \/ (/\ w \notin {controlWs, workerWs}
                              /\ \A q \in SyncRuns : runWs[q] # w)
  BY DEF Puller!Fresh, Puller!Open, Puller!Range, PullerInv, PullerTypeOK

LEMMA SameIsFewer ==
    ASSUME PullerInv, UNCHANGED <<controlWs, workerWs, runWs>> PROVE Fewer
  BY DEF Fewer, PullerInv, PullerTypeOK

(* Runs go on, with these connections or less. *)
LEMMA FewerKeeps ==
    ASSUME PullerInv, Fewer, UNCHANGED <<syncing, activeRun, mode>>,
           phase' \in [SyncRuns -> {"none", "toast", "dialing", "pull", "asked", "race",
                                    "farewell", "stuck"}],
           \A r \in SyncRuns : phase'[r] \in Outside =>
              \/ phase'[r] = phase[r]
              \/ r = activeRun /\ runWs'[r] = Puller!None
    PROVE  PullerInv'
  BY DEF Fewer, PullerInv, PullerTypeOK, CurrentRun, SocketsApart, InTime

(* Runs come to an end, and have no connection any more. *)
LEMMA EndKeeps ==
    ASSUME PullerInv, NEW R, Puller!Finally(R), Fewer,
           \A r \in SyncRuns : r \in R => runWs'[r] = Puller!None
    PROVE  PullerInv'
<1>1. /\ phase' = [r \in SyncRuns |-> IF r \in R THEN "none" ELSE phase[r]]
      /\ mode' = [r \in SyncRuns |-> IF r \in R THEN "silent" ELSE mode[r]]
      /\ IF activeRun \in R THEN syncing' = FALSE /\ activeRun' = Puller!None
         ELSE UNCHANGED <<syncing, activeRun>>
  BY DEF Puller!Finally, Puller!GiveBack, Puller!workVars
<1>2. PullerTypeOK'
  BY <1>1 DEF Fewer, PullerInv, PullerTypeOK
<1>3. CurrentRun'
  BY <1>1, RunNumbers DEF PullerInv, PullerTypeOK, CurrentRun, InTime, Outside
<1>4. SocketsApart'
  BY <1>1, RunNumbers DEF Fewer, PullerInv, PullerTypeOK, CurrentRun, SocketsApart, InTime
<1> QED BY <1>2, <1>3, <1>4 DEF PullerInv

(* A run that is in time is the current one when it chooses its socket, and
   nobody else in time is on it; of a late one nothing is said. *)
LEMMA ChooseKeeps ==
    ASSUME PullerInv, NEW r \in SyncRuns, Puller!ChooseSocket(r),
           UNCHANGED <<controlWs, workerWs>>,
           runWs[r] = Puller!None,
           mode' \in [SyncRuns -> {"silent", "manual", "late"}],
           \A q \in SyncRuns : q # r => mode'[q] = mode[q],
           syncing', activeRun' = activeRun \/ (activeRun = Puller!None /\ activeRun' = r),
           mode'[r] # "late", r = activeRun'
    PROVE  PullerInv'
  BY RunNumbers DEF Puller!ChooseSocket, Puller!Use, PullerInv, PullerTypeOK, CurrentRun,
       SocketsApart, InTime, Outside, Puller!None

LEMMA PullerStep == ASSUME PullerInv, [Puller!Next]_(Puller!loopVars) PROVE PullerInv'
<1> USE DEF Puller!sockVars, Puller!flagVars, Puller!pullVars, Puller!workVars
<1> DEFINE Phases == {"none", "toast", "dialing", "pull", "asked", "race", "farewell", "stuck"}
           Kept == UNCHANGED <<controlWs, workerWs, syncing, activeRun, mode, runWs>>
<1>1. Kept /\ UNCHANGED phase => PullerInv'
  BY DEF PullerInv, PullerTypeOK, CurrentRun, SocketsApart, InTime
<1>2. ASSUME Kept, NEW R, NEW f, \A r \in SyncRuns : f[r] \in Phases \ Outside,
             phase' = [r \in SyncRuns |-> IF r \in R THEN f[r] ELSE phase[r]]
      PROVE PullerInv'
  BY <1>2, SameIsFewer, FewerKeeps DEF PullerInv, PullerTypeOK, Outside
<1>3. ASSUME Kept, NEW r, NEW t \in Phases \ Outside, phase' = [phase EXCEPT ![r] = t]
      PROVE PullerInv'
  BY <1>3, SameIsFewer, FewerKeeps DEF PullerInv, PullerTypeOK, Outside
<1>4. ASSUME NEW r \in SyncRuns, NEW m \in {"silent", "manual"}, Puller!Starts(r, m)
      PROVE  /\ UNCHANGED <<controlWs, workerWs>> /\ syncing'
             /\ runWs[r] = Puller!None /\ activeRun = Puller!None /\ activeRun' = r
             /\ mode' = [mode EXCEPT ![r] = m]
  BY <1>4 DEF Puller!Starts, PullerInv, PullerTypeOK, CurrentRun, SocketsApart, Outside
<1>5. CASE Puller!AutoSync \/ Puller!StartSync
  <2>1. PICK r \in SyncRuns : Puller!Starts(r, "silent") /\ Puller!ChooseSocket(r)
    BY <1>5 DEF Puller!AutoSync, Puller!StartSync
  <2>2. /\ mode' \in [SyncRuns -> {"silent", "manual", "late"}]
        /\ \A q \in SyncRuns : q # r => mode'[q] = mode[q]
    BY <1>4, <2>1 DEF PullerInv, PullerTypeOK
  <2> QED BY <1>4, <2>1, <2>2, ChooseKeeps
<1>6. CASE Puller!Manual
  <2>1. PICK r \in SyncRuns : /\ Puller!Starts(r, "manual")
                              /\ phase' = [phase EXCEPT ![r] = "toast"] /\ UNCHANGED runWs
    BY <1>6 DEF Puller!Manual
  <2>2. /\ UNCHANGED <<controlWs, workerWs>> /\ syncing'
        /\ runWs[r] = Puller!None /\ activeRun = Puller!None /\ activeRun' = r
        /\ mode' = [mode EXCEPT ![r] = "manual"]
    BY <1>4, <2>1
  <2> QED BY <2>1, <2>2, RunNumbers
       DEF PullerInv, PullerTypeOK, CurrentRun, SocketsApart, InTime, Outside
<1>7. CASE Puller!Trip
  <2> DEFINE a == activeRun
  <2>1. /\ syncing /\ syncing' = FALSE /\ a' = Puller!None
        /\ Puller!Disconnect({controlWs, workerWs}, {})
        /\ mode' = [mode EXCEPT ![a] =
              IF phase[a] \in {"toast", "dialing"} THEN "late" ELSE "silent"]
        /\ phase' = [phase EXCEPT ![a] = IF @ \in {"stuck", "farewell"} THEN "none" ELSE @]
    BY <1>7 DEF Puller!Trip, Puller!Tripping, Puller!GiveBack
  <2>2. /\ Fewer /\ controlWs' = Puller!None /\ workerWs' = Puller!None
    BY <2>1, DisconnectIs
  <2>3. PullerTypeOK'
    BY <2>1, <2>2 DEF Fewer, PullerInv, PullerTypeOK
  <2>4. CurrentRun'
    BY <2>1, RunNumbers DEF PullerInv, PullerTypeOK, CurrentRun, InTime, Outside
  <2>5. SocketsApart'
    <3> USE DEF PullerInv, PullerTypeOK, SocketsApart
    <3>1. \A r \in SyncRuns : phase'[r] \in Outside => phase[r] \in Outside
      <4>1. \A r \in SyncRuns : phase'[r] = phase[r] \/ phase[r] \in {"stuck", "farewell"}
        BY <2>1
      <4> QED BY <4>1 DEF Outside
    <3>2. \A r \in SyncRuns : InTime(r)' => InTime(r)
      BY <2>1, RunNumbers DEF CurrentRun, InTime, Outside
    <3>3. \A r \in SyncRuns : runWs'[r] \in {runWs[r], Puller!None}
      BY <2>2 DEF Fewer
    <3>4. \A r \in SyncRuns : phase'[r] \in Outside => runWs'[r] = Puller!None
      BY <3>1, <3>3
    <3>5. \A q, r \in SyncRuns : InTime(q)' /\ InTime(r)' /\ runWs'[q] = runWs'[r]
            => q = r \/ runWs'[r] = Puller!None
      BY <3>2, <3>3
    <3> QED BY <2>2, <3>4, <3>5 DEF InTime
  <2> QED BY <2>3, <2>4, <2>5 DEF PullerInv
<1>8. CASE Puller!CooldownEnds
  BY <1>1, <1>8 DEF Puller!CooldownEnds
<1>9. CASE Puller!Reconnect
  <2>1. PICK w \in SyncSockets : Puller!Fresh(w) /\ controlWs' = w
    BY <1>9 DEF Puller!Reconnect
  <2>2. UNCHANGED <<workerWs, syncing, activeRun, mode, phase, runWs>>
    BY <1>9 DEF Puller!Reconnect
  <2> QED BY <2>1, <2>2, FreshIs DEF PullerInv, PullerTypeOK, CurrentRun, SocketsApart, InTime
<1>10. ASSUME NEW r \in SyncRuns, Puller!Run(r) PROVE PullerInv'
  <2>1. CASE Puller!Dialed(r)
    <3>1. PICK w \in SyncSockets : Puller!Fresh(w) /\ workerWs' = w /\ Puller!Use(r, w)
      BY <2>1 DEF Puller!Dialed
    <3>2. w = Puller!None \/ (w # controlWs /\ \A q \in SyncRuns : runWs[q] # w)
      BY <3>1, FreshIs
    <3>3. UNCHANGED <<controlWs, syncing, activeRun, mode>> /\ phase[r] = "dialing"
      BY <2>1 DEF Puller!Dialed
    <3>4. phase' = [phase EXCEPT ![r] = "pull"] /\ runWs' = [runWs EXCEPT ![r] = w]
      BY <3>1 DEF Puller!Use
    <3>5. PullerTypeOK'
      BY <3>1, <3>3, <3>4 DEF PullerInv, PullerTypeOK
    <3>6. CurrentRun'
      BY <3>3, <3>4 DEF PullerInv, PullerTypeOK, CurrentRun, InTime, Outside
    <3>7. InTime(r) => r = activeRun
      BY <3>3 DEF PullerInv, CurrentRun, Outside
    <3>8. SocketsApart'
      BY <3>1, <3>2, <3>3, <3>4, <3>7 DEF PullerInv, PullerTypeOK, SocketsApart, InTime, Outside
    <3> QED BY <3>5, <3>6, <3>8 DEF PullerInv
  <2>2. CASE Puller!DialFails(r)
    <3>1. runWs'[r] = Puller!None
      BY <2>2 DEF Puller!DialFails, PullerInv, SocketsApart, Outside
    <3> QED BY <2>2, <3>1, SameIsFewer, EndKeeps DEF Puller!DialFails
  <2>3. CASE Puller!RequestOps(r) \/ Puller!Race(r) \/ Puller!GoesOn(r)
    BY <1>3, <2>3 DEF Puller!RequestOps, Puller!Race, Puller!GoesOn, Outside
  <2>4. CASE Puller!EndRun(r)
    <3> DEFINE mine == {runWs[r]} \ {controlWs}
    <3>1. Puller!Disconnect(mine, {r})
      BY <2>4 DEF Puller!EndRun
    <3>2. Fewer /\ runWs'[r] = Puller!None
      BY <3>1, DisconnectIs
    <3>3. CASE Puller!Finally({r})
      BY <3>2, <3>3, EndKeeps
    <3>4. CASE ~Puller!Finally({r})
      <4>1. /\ r = activeRun /\ phase' = [phase EXCEPT ![r] = "farewell"]
            /\ UNCHANGED <<syncing, activeRun, mode>>
        BY <2>4, <3>4 DEF Puller!EndRun, PullerInv, CurrentRun
      <4> QED BY <3>2, <4>1, FewerKeeps DEF PullerInv, PullerTypeOK
    <3> QED BY <3>3, <3>4
  <2>5. CASE Puller!WaitRejects(r) \/ Puller!Hangs(r)
    <3>1. Puller!Disconnect({}, {r}) /\ Puller!Finally({r})
      BY <2>5 DEF Puller!WaitRejects, Puller!Hangs
    <3>2. Fewer /\ runWs'[r] = Puller!None
      BY <3>1, DisconnectIs
    <3> QED BY <3>1, <3>2, EndKeeps
  <2> QED BY <1>10, <2>1, <2>2, <2>3, <2>4, <2>5 DEF Puller!Run
<1>11. ASSUME NEW r \in SyncRuns, Puller!Toast(r) PROVE PullerInv'
  <2>1. runWs[r] = Puller!None
    BY <1>11 DEF Puller!Toast, Puller!Toasted, Puller!ToastFails, Puller!Bye, PullerInv,
         SocketsApart, Outside
  <2>2. CASE Puller!Toasted(r)
    <3>1. /\ Puller!ChooseSocket(r) /\ phase[r] = "toast"
          /\ UNCHANGED <<controlWs, workerWs, syncing, activeRun, mode>>
      BY <2>2 DEF Puller!Toasted
    <3>2. CASE InTime(r)
      <4>1. r = activeRun /\ syncing
        BY <3>1, <3>2, RunNumbers DEF PullerInv, CurrentRun, Outside
      <4> QED BY <2>1, <3>1, <3>2, <4>1, ChooseKeeps DEF PullerInv, PullerTypeOK, InTime
    <3>3. CASE ~InTime(r)
      BY <2>1, <3>1, <3>3 DEF Puller!ChooseSocket, Puller!Use, PullerInv, PullerTypeOK,
           CurrentRun, SocketsApart, InTime, Outside
    <3> QED BY <3>2, <3>3
  <2>3. CASE Puller!ToastFails(r) /\ ~Puller!Finally({r})
    <3>1. /\ r = activeRun /\ phase' = [phase EXCEPT ![r] = "stuck"] /\ Kept
      BY <2>3 DEF Puller!ToastFails
    <3> QED BY <2>1, <3>1, SameIsFewer, FewerKeeps DEF PullerInv, PullerTypeOK
  <2>4. CASE Puller!Bye(r) \/ (Puller!ToastFails(r) /\ Puller!Finally({r}))
    <3>1. Puller!Finally({r}) /\ UNCHANGED <<controlWs, workerWs, runWs>>
      BY <2>4 DEF Puller!Bye, Puller!ToastFails
    <3> QED BY <2>1, <3>1, SameIsFewer, EndKeeps
  <2> QED BY <1>11, <2>2, <2>3, <2>4 DEF Puller!Toast
<1>12. ASSUME NEW w \in SyncSockets, Puller!Server(w) PROVE PullerInv'
  <2>1. PICK busy : Puller!AnswerOn(w, busy)
    BY <1>12 DEF Puller!Server, Puller!NoWork, Puller!RetryableError, Puller!Batch
  <2>2. Kept
    BY <2>1 DEF Puller!AnswerOn
  <2> DEFINE f == [r \in SyncRuns |-> IF r \in busy THEN "race" ELSE "pull"]
             R == busy \cup Puller!Waiting(w)
  <2>3. /\ \A r \in SyncRuns : f[r] \in Phases \ Outside
        /\ phase' = [r \in SyncRuns |-> IF r \in R THEN f[r] ELSE phase[r]]
    BY <2>1 DEF Puller!AnswerOn, Outside
  <2> HIDE DEF f, R
  <2> QED BY <1>2, <2>2, <2>3
<1>13. ASSUME NEW w \in SyncSockets, Puller!Drop(w) PROVE PullerInv'
  <2> DEFINE R == {r \in SyncRuns : phase[r] = "asked" /\ runWs[r] = w}
  <2>1. Puller!Finally(R) /\ Puller!Disconnect({w}, {})
    BY <1>13 DEF Puller!Drop
  <2>2. Fewer /\ \A r \in SyncRuns : r \in R => runWs'[r] = Puller!None
    BY <2>1, DisconnectIs
  <2> HIDE DEF R
  <2> QED BY <2>1, <2>2, EndKeeps
<1>14. ASSUME NEW o \in PulledOps, Puller!Complete(o) PROVE PullerInv'
  <2>1. Kept /\ (UNCHANGED phase \/ phase' = [phase EXCEPT ![activeRun] = "pull"])
    BY <1>14 DEF Puller!Complete
  <2> QED BY <1>1, <1>3, <2>1 DEF Outside
<1>15. CASE UNCHANGED Puller!loopVars
  BY <1>1, <1>15 DEF Puller!loopVars
<1> QED BY <1>5, <1>6, <1>7, <1>8, <1>9, <1>10, <1>11, <1>12, <1>13, <1>14, <1>15
     DEF Puller!Next

(* A batch is taken by one run only: two runs of which neither was late never
   wait on one open socket, whatever the watchdog, the bridge, the user and the
   network do.  Of a run that was late, one whose toast or connection came only
   after the watchdog had given it up, nothing is said. *)
THEOREM BatchesTakenOnce == AllSpec => []TakenOnce
<1>1. PullerInv => TakenOnce
  BY DEF TakenOnce, Puller!TakenOnce, Puller!Waiting, Puller!Open, PullerInv, SocketsApart,
       InTime
<1>2. PullerInv /\ [Puller!Next]_(Puller!loopVars) => PullerInv'
  BY PullerStep
<1>3. Puller!Spec => []PullerInv
  BY PullerStarts, <1>2, PTL DEF Puller!Spec
<1> QED BY PartsRun, <1>1, <1>3, PTL

-----------------------------------------------------------------------------
(* Searches.  A caller is in one place only: its request waits in the inbox, *)
(* or one pending entry is for it, or it has been answered.                  *)

RequestAt(i, c) == inbox[i].type = "request" /\ inbox[i].from = c

PendingFor(c) == {id \in DOMAIN pending : pending[id].caller = c}

InOnePlace(c) ==
    /\ c \notin asking =>
         /\ \A i \in DOMAIN inbox : ~RequestAt(i, c)
         /\ PendingFor(c) = {} /\ replies[c] = <<>>
    /\ \A i, j \in DOMAIN inbox : RequestAt(i, c) /\ RequestAt(j, c) => i = j
    /\ (\E i \in DOMAIN inbox : RequestAt(i, c)) => PendingFor(c) = {} /\ replies[c] = <<>>
    /\ \A p, q \in PendingFor(c) : p = q
    /\ PendingFor(c) # {} => replies[c] = <<>>
    /\ replies[c] = <<>> \/ \E x : replies[c] = <<x>>

IsSeq(s) == \E S : s \in Seq(S)

SearchInv ==
    /\ IsSeq(inbox)
    /\ DOMAIN replies = Callers
    /\ \A c \in Callers : InOnePlace(c)

LEMMA AppendToSeq ==
    ASSUME NEW s, IsSeq(s), NEW e
    PROVE  /\ IsSeq(Append(s, e)) /\ DOMAIN s = 1 .. Len(s) /\ Len(s) \in Nat
           /\ DOMAIN Append(s, e) = 1 .. Len(s) + 1
           /\ \A i \in 1 .. Len(s) : Append(s, e)[i] = s[i]
           /\ Append(s, e)[Len(s) + 1] = e
<1>1. PICK S : s \in Seq(S)
  BY DEF IsSeq
<1>2. s \in Seq(S \cup {e})
  BY <1>1
<1>3. Append(s, e) \in Seq(S \cup {e})
  BY <1>2
<1> QED BY <1>2, <1>3 DEF IsSeq

LEMMA TailOfSeq ==
    ASSUME NEW s, IsSeq(s), s # <<>>
    PROVE  /\ IsSeq(Tail(s)) /\ DOMAIN s = 1 .. Len(s) /\ Len(s) \in Nat \ {0}
           /\ DOMAIN Tail(s) = 1 .. Len(s) - 1
           /\ \A i \in 1 .. Len(s) - 1 : Tail(s)[i] = s[i + 1]
           /\ Head(s) = s[1]
<1>1. PICK S : s \in Seq(S)
  BY DEF IsSeq
<1>2. Tail(s) \in Seq(S)
  BY <1>1
<1> QED BY <1>1, <1>2 DEF IsSeq

LEMMA SearchStarts == Search!Init => SearchInv
<1> SUFFICES ASSUME Search!Init PROVE SearchInv
  OBVIOUS
<1>1. inbox \in Seq({}) /\ DOMAIN inbox = {} /\ DOMAIN pending = {}
  BY DEF Search!Init
<1> QED BY <1>1 DEF Search!Init, SearchInv, IsSeq, InOnePlace, PendingFor

(* An event that is no request joins the inbox. *)
LEMMA EventKeeps ==
    ASSUME SearchInv, NEW e, e.type # "request", inbox' = Append(inbox, e),
           UNCHANGED <<asking, pending, replies>>
    PROVE  SearchInv'
<1>1. /\ IsSeq(inbox') /\ DOMAIN inbox = 1 .. Len(inbox) /\ Len(inbox) \in Nat
      /\ DOMAIN inbox' = 1 .. Len(inbox) + 1
      /\ \A i \in 1 .. Len(inbox) : inbox'[i] = inbox[i]
      /\ inbox'[Len(inbox) + 1] = e
  BY AppendToSeq DEF SearchInv
<1>2. \A c \in Callers, i \in DOMAIN inbox' :
        RequestAt(i, c)' => i \in DOMAIN inbox /\ RequestAt(i, c)
  BY <1>1 DEF RequestAt
<1>3. ASSUME NEW c \in Callers PROVE InOnePlace(c)'
  BY <1>1, <1>2 DEF SearchInv, InOnePlace, PendingFor
<1> QED BY <1>1, <1>3 DEF SearchInv

LEMMA AskKeeps ==
    ASSUME SearchInv, NEW c \in Callers, NEW blank \in BOOLEAN, Search!Ask(c, blank)
    PROVE  SearchInv'
<1> DEFINE e == [type |-> "request", from |-> c, blank |-> blank]
<1>1. /\ IsSeq(inbox') /\ DOMAIN inbox = 1 .. Len(inbox) /\ Len(inbox) \in Nat
      /\ DOMAIN inbox' = 1 .. Len(inbox) + 1
      /\ \A i \in 1 .. Len(inbox) : inbox'[i] = inbox[i]
      /\ inbox'[Len(inbox) + 1] = e
  BY AppendToSeq DEF SearchInv, Search!Ask
<1>2. /\ asking' = asking \cup {c} /\ c \notin asking
      /\ pending' = pending /\ replies' = replies
  BY DEF Search!Ask
<1>3. \A d \in Callers, i \in DOMAIN inbox' :
        RequestAt(i, d)'
          => (i \in DOMAIN inbox /\ RequestAt(i, d)) \/ (d = c /\ i = Len(inbox) + 1)
  BY <1>1 DEF RequestAt
<1>4. ASSUME NEW d \in Callers PROVE InOnePlace(d)'
  <2>1. InOnePlace(d)
    BY DEF SearchInv
  <2>2. CASE d = c
    BY <1>2, <1>3, <2>1, <2>2 DEF InOnePlace, PendingFor
  <2>3. CASE d # c
    BY <1>1, <1>2, <1>3, <2>1, <2>3 DEF InOnePlace, PendingFor
  <2> QED BY <2>2, <2>3
<1> QED BY <1>1, <1>2, <1>4 DEF SearchInv

(* These entries are gone. *)
Ended(ids) ==
    /\ DOMAIN pending' = DOMAIN pending \ ids
    /\ \A id \in DOMAIN pending \ ids : pending'[id] = pending[id]

(* The bridge takes the first event, and perhaps ends some searches. *)
LEMMA AnswerKeeps ==
    ASSUME SearchInv, inbox # <<>>, inbox' = Tail(inbox), asking' = asking,
           NEW ids, Ended(ids), DOMAIN replies' = Callers,
           \A c \in Callers :
             \/ replies'[c] = replies[c]
             \/ /\ \/ ids \cap PendingFor(c) # {}
                   \/ RequestAt(1, c)
                /\ \E x : replies'[c] = Append(replies[c], x)
    PROVE  SearchInv'
<1>1. /\ IsSeq(inbox') /\ DOMAIN inbox = 1 .. Len(inbox) /\ Len(inbox) \in Nat \ {0}
      /\ DOMAIN inbox' = 1 .. Len(inbox) - 1
      /\ \A i \in 1 .. Len(inbox) - 1 : inbox'[i] = inbox[i + 1]
  BY TailOfSeq DEF SearchInv
<1>2. \A c \in Callers, i \in DOMAIN inbox' :
        RequestAt(i, c)' => i + 1 \in DOMAIN inbox /\ RequestAt(i + 1, c) /\ i + 1 # 1
  BY <1>1 DEF RequestAt
<1>4. \A c : PendingFor(c)' = PendingFor(c) \ ids
  BY DEF Ended, PendingFor
<1>5. ASSUME NEW c \in Callers PROVE InOnePlace(c)'
  <2>1. InOnePlace(c)
    BY DEF SearchInv
  <2>2. 1 \in DOMAIN inbox
    BY <1>1
  <2>3. \A i, j \in DOMAIN inbox' : RequestAt(i, c)' /\ RequestAt(j, c)' => i = j
    BY <1>1, <1>2, <2>1 DEF InOnePlace
  <2>4. \A p, q \in PendingFor(c)' : p = q
    BY <1>4, <2>1 DEF InOnePlace
  <2>5. CASE replies'[c] = replies[c]
    BY <1>2, <1>4, <2>1, <2>3, <2>4, <2>5 DEF InOnePlace
  <2>6. ASSUME ids \cap PendingFor(c) # {} \/ RequestAt(1, c),
               NEW x, replies'[c] = Append(replies[c], x)
        PROVE  InOnePlace(c)'
    <3>1. replies[c] = <<>> /\ c \in asking
      BY <2>1, <2>2, <2>6 DEF InOnePlace
    <3>2. replies'[c] = <<x>>
      BY <2>6, <3>1
    <3>3. PendingFor(c)' = {}
      BY <1>4, <2>1, <2>2, <2>6 DEF InOnePlace
    <3>4. \A i \in DOMAIN inbox' : ~RequestAt(i, c)'
      BY <1>2, <2>1, <2>2, <2>6 DEF InOnePlace
    <3> QED BY <3>1, <3>2, <3>3, <3>4 DEF InOnePlace
  <2> QED BY <2>5, <2>6
<1> QED BY <1>1, <1>5 DEF SearchInv

LEMMA ForwardKeeps ==
    ASSUME SearchInv, inbox # <<>>, inbox' = Tail(inbox), asking' = asking,
           NEW c, RequestAt(1, c), Search!Forward(c)
    PROVE  SearchInv'
<1>1. /\ IsSeq(inbox') /\ DOMAIN inbox = 1 .. Len(inbox) /\ Len(inbox) \in Nat \ {0}
      /\ DOMAIN inbox' = 1 .. Len(inbox) - 1
      /\ \A i \in 1 .. Len(inbox) - 1 : inbox'[i] = inbox[i + 1]
  BY TailOfSeq DEF SearchInv
<1>2. \A d \in Callers, i \in DOMAIN inbox' :
        RequestAt(i, d)' => i + 1 \in DOMAIN inbox /\ RequestAt(i + 1, d) /\ i + 1 # 1
  BY <1>1 DEF RequestAt
<1>3. /\ DOMAIN pending' = DOMAIN pending \cup {Search!NewId}
      /\ pending'[Search!NewId].caller = c
      /\ \A id \in DOMAIN pending : id # Search!NewId => pending'[id] = pending[id]
      /\ replies' = replies
  BY DEF Search!Forward, Search!With
<1>4. /\ \A d : d # c => PendingFor(d)' \subseteq PendingFor(d)
      /\ PendingFor(c)' \subseteq PendingFor(c) \cup {Search!NewId}
  BY <1>3 DEF PendingFor
<1>5. ASSUME NEW d \in Callers PROVE InOnePlace(d)'
  <2>1. InOnePlace(d)
    BY DEF SearchInv
  <2>2. 1 \in DOMAIN inbox
    BY <1>1
  <2>3. \A i, j \in DOMAIN inbox' : RequestAt(i, d)' /\ RequestAt(j, d)' => i = j
    BY <1>1, <1>2, <2>1 DEF InOnePlace
  <2>4. CASE d # c
    <3>1. PendingFor(d)' \subseteq PendingFor(d)
      BY <1>4, <2>4
    <3> QED BY <1>2, <1>3, <2>1, <2>3, <3>1 DEF InOnePlace
  <2>5. CASE d = c
    <3>1. PendingFor(c) = {} /\ replies[c] = <<>> /\ c \in asking
      BY <2>1, <2>2, <2>5 DEF InOnePlace
    <3>2. \A i \in DOMAIN inbox' : ~RequestAt(i, c)'
      BY <1>2, <2>1, <2>2, <2>5 DEF InOnePlace
    <3> QED BY <1>3, <1>4, <2>5, <3>1, <3>2 DEF InOnePlace
  <2> QED BY <2>4, <2>5
<1> QED BY <1>1, <1>3, <1>5 DEF SearchInv

LEMMA LoopKeeps == ASSUME SearchInv, Search!Loop PROVE SearchInv'
<1> DEFINE e == inbox[1]
<1>1. inbox # <<>> /\ inbox' = Tail(inbox) /\ asking' = asking
  BY DEF Search!Loop, Search!Handle
<1>2. \/ Search!SearchRequest(e) \/ Search!SearchResponse(e)
      \/ Search!SearchTimeout(e) \/ Search!Disconnected(e)
  BY <1>1, TailOfSeq DEF Search!Loop, Search!Handle, SearchInv
<1>3. ASSUME NEW S, NEW what, Search!SendTo(S, what)
      PROVE  /\ DOMAIN replies' = Callers
             /\ \A c \in Callers : \/ replies'[c] = replies[c]
                                   \/ c \in S /\ replies'[c] = Append(replies[c], what)
  BY <1>3 DEF Search!SendTo
<1>4. DOMAIN replies = Callers
  BY DEF SearchInv
<1>5. ASSUME UNCHANGED <<pending, replies>> PROVE SearchInv'
  <2>1. Ended({})
    BY <1>5 DEF Ended
  <2> QED BY <1>1, <1>4, <1>5, <2>1, AnswerKeeps
<1>6. CASE Search!SearchRequest(e)
  <2>1. RequestAt(1, e.from)
    BY <1>6 DEF Search!SearchRequest, RequestAt
  <2>2. CASE Search!Forward(e.from)
    BY <1>1, <2>1, <2>2, ForwardKeeps
  <2>3. ASSUME NEW why, Search!Refuse(e.from, why) PROVE SearchInv'
    <3>1. Ended({}) /\ Search!SendTo({e.from}, why)
      BY <2>3 DEF Search!Refuse, Ended
    <3>2. \A c \in Callers : \/ replies'[c] = replies[c]
                             \/ RequestAt(1, c) /\ replies'[c] = Append(replies[c], why)
      BY <1>3, <2>1, <3>1
    <3> QED BY <1>1, <1>3, <3>1, <3>2, AnswerKeeps
  <2> QED BY <1>6, <2>2, <2>3 DEF Search!SearchRequest
<1>7. CASE Search!SearchResponse(e) \/ Search!SearchTimeout(e)
  <2>1. CASE e.id \notin DOMAIN pending
    BY <1>5, <1>7, <2>1 DEF Search!SearchResponse, Search!SearchTimeout
  <2>2. CASE e.id \in DOMAIN pending
    <3>1. Ended({e.id})
      BY <1>7, <2>2 DEF Search!SearchResponse, Search!SearchTimeout, Search!Without,
           Search!Restrict, Ended
    <3>2. PICK what : Search!SendTo({pending[e.id].caller}, what)
      BY <1>7, <2>2 DEF Search!SearchResponse, Search!SearchTimeout
    <3>3. \A c \in {pending[e.id].caller} : {e.id} \cap PendingFor(c) # {}
      BY <2>2 DEF PendingFor
    <3>4. \A c \in Callers :
            \/ replies'[c] = replies[c]
            \/ {e.id} \cap PendingFor(c) # {} /\ replies'[c] = Append(replies[c], what)
      BY <1>3, <3>2, <3>3
    <3> QED BY <1>1, <1>3, <3>1, <3>2, <3>4, AnswerKeeps
  <2> QED BY <2>1, <2>2
<1>8. CASE Search!Disconnected(e)
  <2> DEFINE ids == {id \in DOMAIN pending : e.conn \in {pending[id].caller, pending[id].worker}}
             told == {pending[id].caller : id \in ids} \ {e.conn}
  <2>1. Ended(ids) /\ Search!SendTo(told, "BRIDGE_ERROR")
    BY <1>8 DEF Search!Disconnected, Search!Without, Search!Restrict, Ended
  <2>2. \A c \in told : ids \cap PendingFor(c) # {}
    BY DEF PendingFor
  <2> HIDE DEF ids, told
  <2>3. \A c \in Callers :
          \/ replies'[c] = replies[c]
          \/ ids \cap PendingFor(c) # {} /\ replies'[c] = Append(replies[c], "BRIDGE_ERROR")
    BY <1>3, <2>1, <2>2
  <2> QED BY <1>1, <1>3, <2>1, <2>3, AnswerKeeps
<1> QED BY <1>2, <1>6, <1>7, <1>8

LEMMA SearchStep == ASSUME SearchInv, [Search!Next]_(Search!rpcVars) PROVE SearchInv'
<1>1. ASSUME UNCHANGED <<inbox, asking, pending, replies>> PROVE SearchInv'
  BY <1>1 DEF SearchInv, InOnePlace, RequestAt, PendingFor
<1>2. CASE Search!NextMs \/ (\E w : Search!Elect(w)) \/ UNCHANGED Search!rpcVars
  BY <1>1, <1>2 DEF Search!NextMs, Search!Elect, Search!rpcVars
<1>3. ASSUME NEW x, Search!Close(x) PROVE SearchInv'
  BY <1>3, EventKeeps DEF Search!Close
<1>4. ASSUME NEW a, Search!Respond(a) PROVE SearchInv'
  BY <1>4, EventKeeps DEF Search!Respond
<1>5. ASSUME NEW id, Search!Fire(id) PROVE SearchInv'
  BY <1>5, EventKeeps DEF Search!Fire
<1> QED BY <1>2, <1>3, <1>4, <1>5, AskKeeps, LoopKeeps DEF Search!Next

(* However timeouts, answers and disconnections race, no search is answered
   twice, for any number of callers and windows. *)
THEOREM CallersAnsweredOnce == AllSpec => []AnsweredOnce
<1>1. SearchInv => AnsweredOnce
  <2>1. ASSUME SearchInv, NEW c \in Callers PROVE Len(replies[c]) <= 1
    <3>1. replies[c] = <<>> \/ \E x : replies[c] = <<x>>
      BY <2>1 DEF SearchInv, InOnePlace
    <3>2. CASE replies[c] = <<>>
      BY <3>2
    <3>3. ASSUME NEW x, replies[c] = <<x>> PROVE Len(replies[c]) <= 1
      <4>1. Len(<<x>>) = 1
        OBVIOUS
      <4> QED BY <3>3, <4>1
    <3> QED BY <3>1, <3>2, <3>3
  <2> QED BY <2>1 DEF AnsweredOnce, Search!AnsweredOnce
<1>2. SearchInv /\ [Search!Next]_(Search!rpcVars) => SearchInv'
  BY SearchStep
<1>3. Search!Spec => []SearchInv
  BY SearchStarts, <1>2, PTL DEF Search!Spec
<1> QED BY PartsRun, <1>1, <1>3, PTL

-----------------------------------------------------------------------------
(* Sequences without some of their elements.  What is so of <<>>, and of a
   sequence with one more element, is so of all sequences. *)

Earlier == OpToRel(<, Nat)

LEMMA FirstOf ==
    ASSUME NEW T, T \subseteq Nat, T # {}
    PROVE  \E x \in T : \A y \in T : x <= y
<1>1. Earlier = {p \in Nat \X Nat : p[1] < p[2]}
  BY DEF Earlier, OpToRel
<1>2. PICK x \in T : \A y \in T : <<y, x>> \notin Earlier
  BY NatLessThanWellFounded, WFMin DEF Earlier
<1>3. \A y \in T : ~(y < x)
  BY <1>1, <1>2
<1> QED BY <1>3

LEMMA UpTo ==
    ASSUME NEW k \in Nat, NEW S, 0 \in S, \A n \in 1 .. k : n - 1 \in S => n \in S
    PROVE  0 .. k \subseteq S
<1> DEFINE T == (0 .. k) \ S
<1> SUFFICES ASSUME T # {} PROVE FALSE
  OBVIOUS
<1>a. T \subseteq Nat
  OBVIOUS
<1>1. PICK n \in T : \A m \in T : n <= m
  <2> HIDE DEF T
  <2> QED BY <1>a, FirstOf
<1>2. n \in 1 .. k /\ n - 1 \in 0 .. k
  BY <1>1
<1> QED BY <1>1, <1>2

LEMMA ByAppending ==
    ASSUME NEW S, NEW P, <<>> \in P,
           \A s \in Seq(S) : s \in P => \A e \in S : Append(s, e) \in P
    PROVE  Seq(S) \subseteq P
<1> SUFFICES ASSUME NEW s \in Seq(S) PROVE s \in P
  OBVIOUS
<1> DEFINE L == {n \in Nat : \A t \in Seq(S) : Len(t) = n => t \in P}
<1>1. Len(s) \in Nat
  OBVIOUS
<1>2. 0 \in L
  OBVIOUS
<1>3. ASSUME NEW n \in 1 .. Len(s), n - 1 \in L PROVE n \in L
  <2>1. SUFFICES ASSUME NEW t \in Seq(S), Len(t) = n PROVE t \in P
    OBVIOUS
  <2>2. t # <<>>
    BY <2>1
  <2>3. PICK u \in Seq(S), e \in S : t = Append(u, e)
    BY <2>2, SequenceEmptyOrAppend
  <2>4. Len(u) = n - 1
    BY <2>1, <2>3
  <2> QED BY <1>3, <2>3, <2>4
<1> HIDE DEF L
<1>4. Len(s) \in L
  <2>1. 0 .. Len(s) \subseteq L
    BY <1>1, <1>2, <1>3, UpTo
  <2> QED BY <1>1, <2>1
<1> QED BY <1>4 DEF L

RestOf(acc, k, s, X) ==
    acc = [n \in 0 .. k |->
             IF n = 0 THEN <<>>
             ELSE IF s[n] \in X THEN acc[n - 1] ELSE Append(acc[n - 1], s[n])]

LEMMA RestExists ==
    ASSUME NEW s, NEW X, NEW k \in Nat
    PROVE  \E acc : RestOf(acc, k, s, X)
<1> DEFINE S == {n \in Nat : \E acc : RestOf(acc, n, s, X)}
<1>1. 0 \in S
  <2> DEFINE acc == [n \in 0 .. 0 |-> <<>>]
  <2>1. RestOf(acc, 0, s, X)
    BY DEF RestOf
  <2> QED BY <2>1
<1>2. ASSUME NEW n \in 1 .. k, n - 1 \in S PROVE n \in S
  <2>1. PICK acc : RestOf(acc, n - 1, s, X)
    BY <1>2
  <2> DEFINE last == IF s[n] \in X THEN acc[n - 1] ELSE Append(acc[n - 1], s[n])
             new == [m \in 0 .. n |-> IF m = n THEN last ELSE acc[m]]
  <2>2. acc = [m \in 0 .. n - 1 |->
                 IF m = 0 THEN <<>>
                 ELSE IF s[m] \in X THEN acc[m - 1] ELSE Append(acc[m - 1], s[m])]
    BY <2>1 DEF RestOf
  <2>3. ASSUME NEW m \in 0 .. n
        PROVE  new[m] = IF m = 0 THEN <<>>
                        ELSE IF s[m] \in X THEN new[m - 1] ELSE Append(new[m - 1], s[m])
    <3>1. CASE m = 0
      <4>1. m \in 0 .. n - 1 /\ new[m] = acc[m]
        BY <3>1
      <4> QED BY <2>2, <3>1, <4>1
    <3>2. CASE m \in 1 .. n - 1
      <4>1. m \in 0 .. n - 1 /\ new[m] = acc[m] /\ new[m - 1] = acc[m - 1] /\ m # 0
        BY <3>2
      <4> QED BY <2>2, <4>1
    <3>3. CASE m = n
      <4>1. new[m] = last /\ new[m - 1] = acc[n - 1] /\ m # 0
        BY <3>3
      <4> QED BY <3>3, <4>1
    <3> QED BY <3>1, <3>2, <3>3
  <2>4. new = [m \in 0 .. n |-> new[m]]
    OBVIOUS
  <2>5. RestOf(new, n, s, X)
    <3> HIDE DEF new
    <3> QED BY <2>3, <2>4 DEF RestOf
  <2>6. n \in Nat
    OBVIOUS
  <2> HIDE DEF new
  <2> QED BY <2>5, <2>6
<1> HIDE DEF S
<1>3. k \in S
  BY <1>1, <1>2, UpTo
<1> QED BY <1>3 DEF S

LEMMA RestIs ==
    ASSUME NEW S, NEW s \in Seq(S), NEW X
    PROVE  \E acc : RestOf(acc, Len(s), s, X) /\ Replacing!Without(s, X) = acc[Len(s)]
<1> DEFINE acc == CHOOSE g : RestOf(g, Len(s), s, X)
<1>1. RestOf(acc, Len(s), s, X)
  BY RestExists
<1>2. Replacing!Without(s, X) = acc[Len(s)]
  BY DEF Replacing!Without, RestOf
<1> HIDE DEF acc
<1> QED BY <1>1, <1>2

LEMMA WithoutNone == ASSUME NEW X PROVE Replacing!Without(<<>>, X) = <<>>
<1> DEFINE none == <<>>
<1>1. none \in Seq({}) /\ Len(none) = 0
  OBVIOUS
<1> HIDE DEF none
<1>2. PICK acc : RestOf(acc, Len(none), none, X) /\ Replacing!Without(none, X) = acc[Len(none)]
  BY <1>1, RestIs
<1>3. acc[Len(none)] = <<>>
  BY <1>1, <1>2 DEF RestOf
<1> QED BY <1>2, <1>3 DEF none

LEMMA WithoutOneMore ==
    ASSUME NEW S, NEW s \in Seq(S), NEW e \in S, NEW X
    PROVE  Replacing!Without(Append(s, e), X)
             = IF e \in X THEN Replacing!Without(s, X)
               ELSE Append(Replacing!Without(s, X), e)
<1> DEFINE t == Append(s, e)
<1>1. t \in Seq(S) /\ Len(t) = Len(s) + 1 /\ t[Len(t)] = e /\ Len(s) \in Nat
      /\ \A i \in 1 .. Len(s) : t[i] = s[i]
  OBVIOUS
<1> HIDE DEF t
<1>2. PICK a : RestOf(a, Len(t), t, X) /\ Replacing!Without(t, X) = a[Len(t)]
  BY <1>1, RestIs
<1>3. PICK b : RestOf(b, Len(s), s, X) /\ Replacing!Without(s, X) = b[Len(s)]
  BY RestIs
<1> DEFINE Same == {n \in 0 .. Len(s) : a[n] = b[n]}
<1>4. ASSUME NEW n \in 1 .. Len(s), n - 1 \in Same PROVE n \in Same
  <2>1. n \in 0 .. Len(s) /\ n \in 0 .. Len(t) /\ n # 0 /\ t[n] = s[n]
    BY <1>1
  <2>2. a[n] = IF t[n] \in X THEN a[n - 1] ELSE Append(a[n - 1], t[n])
    BY <1>2, <2>1 DEF RestOf
  <2>3. b[n] = IF s[n] \in X THEN b[n - 1] ELSE Append(b[n - 1], s[n])
    BY <1>3, <2>1 DEF RestOf
  <2> QED BY <1>4, <2>1, <2>2, <2>3
<1>5. 0 \in Same
  <2>1. 0 \in 0 .. Len(s) /\ 0 \in 0 .. Len(t)
    BY <1>1
  <2> QED BY <1>2, <1>3, <2>1 DEF RestOf
<1> HIDE DEF Same
<1>6. Len(s) \in Same
  <2>1. 0 .. Len(s) \subseteq Same
    BY <1>1, <1>4, <1>5, UpTo
  <2> QED BY <1>1, <2>1
<1>7. a[Len(s)] = b[Len(s)]
  BY <1>6 DEF Same
<1>8. a[Len(t)] = IF e \in X THEN a[Len(s)] ELSE Append(a[Len(s)], e)
  <2>1. Len(t) \in 0 .. Len(t) /\ Len(t) # 0 /\ Len(t) - 1 = Len(s)
    BY <1>1
  <2> QED BY <1>1, <1>2, <2>1 DEF RestOf
<1> QED BY <1>2, <1>3, <1>7, <1>8 DEF t

LEMMA WithoutIsSeq == ASSUME NEW S, NEW X PROVE \A s \in Seq(S) : Replacing!Without(s, X) \in Seq(S)
<1> DEFINE W(u) == Replacing!Without(u, X)
           P == {s \in Seq(S) : W(s) \in Seq(S)}
<1>1. <<>> \in P
  <2>1. W(<<>>) = <<>>
    BY WithoutNone
  <2>2. <<>> \in Seq(S)
    OBVIOUS
  <2> HIDE DEF W
  <2>3. W(<<>>) \in Seq(S)
    BY <2>1, <2>2
  <2> QED BY <2>2, <2>3
<1>2. ASSUME NEW s \in Seq(S), s \in P, NEW e \in S PROVE Append(s, e) \in P
  <2>1. W(Append(s, e)) = IF e \in X THEN W(s) ELSE Append(W(s), e)
    BY WithoutOneMore
  <2>2. W(s) \in Seq(S) /\ Append(s, e) \in Seq(S)
    BY <1>2
  <2> HIDE DEF W
  <2>3. Append(W(s), e) \in Seq(S)
    BY <2>2
  <2> QED BY <2>1, <2>2, <2>3
<1> HIDE DEF P
<1>3. Seq(S) \subseteq P
  BY <1>1, <1>2, ByAppending
<1> QED BY <1>3 DEF P

Els(s) == Replacing!ToSet(s)

LEMMA ElsAppend ==
    ASSUME NEW S, NEW s \in Seq(S), NEW e
    PROVE  Els(Append(s, e)) = Els(s) \cup {e}
<1>1. /\ Len(s) \in Nat /\ DOMAIN s = 1 .. Len(s)
      /\ DOMAIN Append(s, e) = 1 .. Len(s) + 1
      /\ \A i \in 1 .. Len(s) : Append(s, e)[i] = s[i]
      /\ Append(s, e)[Len(s) + 1] = e
  OBVIOUS
<1>2. \A i \in 1 .. Len(s) + 1 : i \in 1 .. Len(s) \/ i = Len(s) + 1
  BY <1>1
<1>3. Len(s) + 1 \in 1 .. Len(s) + 1 /\ 1 .. Len(s) \subseteq 1 .. Len(s) + 1
  BY <1>1
<1> DEFINE t == Append(s, e)
<1> HIDE DEF t
<1>4. Els(t) = Els(s) \cup {e}
  BY <1>1, <1>2, <1>3 DEF t, Els, Replacing!ToSet
<1> QED BY <1>4 DEF t

LEMMA ElsConcat ==
    ASSUME NEW S, NEW s \in Seq(S), NEW t \in Seq(S)
    PROVE  Els(s \o t) = Els(s) \cup Els(t)
<1>1. /\ Len(s) \in Nat /\ Len(t) \in Nat /\ Len(s \o t) = Len(s) + Len(t)
      /\ DOMAIN s = 1 .. Len(s) /\ DOMAIN t = 1 .. Len(t)
      /\ DOMAIN (s \o t) = 1 .. Len(s) + Len(t)
      /\ \A i \in 1 .. Len(s) + Len(t) :
           (s \o t)[i] = IF i <= Len(s) THEN s[i] ELSE t[i - Len(s)]
  OBVIOUS
<1>2. \A i \in 1 .. Len(t) :
        Len(s) + i \in 1 .. Len(s) + Len(t) /\ (s \o t)[Len(s) + i] = t[i]
  BY <1>1
<1>3. Els(t) \subseteq Els(s \o t)
  <2>1. SUFFICES ASSUME NEW i \in DOMAIN t PROVE t[i] \in Els(s \o t)
    BY DEF Els, Replacing!ToSet
  <2>2. Len(s) + i \in DOMAIN (s \o t) /\ (s \o t)[Len(s) + i] = t[i]
    BY <1>1, <1>2
  <2> QED BY <2>2 DEF Els, Replacing!ToSet
<1>4. Els(s) \subseteq Els(s \o t)
  BY <1>1 DEF Els, Replacing!ToSet
<1>5. Els(s \o t) \subseteq Els(s) \cup Els(t)
  BY <1>1 DEF Els, Replacing!ToSet
<1> QED BY <1>3, <1>4, <1>5

LEMMA ElsOfSeq == ASSUME NEW S, NEW s \in Seq(S) PROVE Els(s) \subseteq S
  BY DEF Els, Replacing!ToSet

LEMMA ElsEmpty == ASSUME NEW S, NEW s \in Seq(S) PROVE Els(s) = {} <=> s = <<>>
  BY DEF Els, Replacing!ToSet

LEMMA WithoutEls ==
    ASSUME NEW S, NEW X
    PROVE  \A s \in Seq(S) : Els(Replacing!Without(s, X)) = Els(s) \ X
<1> DEFINE P == {s \in Seq(S) : Els(Replacing!Without(s, X)) = Els(s) \ X}
<1>1. <<>> \in P
  BY WithoutNone DEF Els, Replacing!ToSet
<1>2. ASSUME NEW s \in Seq(S), s \in P, NEW e \in S PROVE Append(s, e) \in P
  <2>1. Els(Append(s, e)) = Els(s) \cup {e}
    BY ElsAppend
  <2>2. Replacing!Without(s, X) \in Seq(S)
    BY WithoutIsSeq
  <2>3. Els(Append(Replacing!Without(s, X), e)) = Els(Replacing!Without(s, X)) \cup {e}
    BY <2>2, ElsAppend
  <2>4. Els(Replacing!Without(s, X)) = Els(s) \ X
    BY <1>2
  <2>5. Replacing!Without(Append(s, e), X)
          = IF e \in X THEN Replacing!Without(s, X) ELSE Append(Replacing!Without(s, X), e)
    BY WithoutOneMore
  <2>6. Els(Replacing!Without(Append(s, e), X)) = (Els(s) \cup {e}) \ X
    <3>1. CASE e \in X
      BY <2>4, <2>5, <3>1
    <3>2. CASE e \notin X
      BY <2>3, <2>4, <2>5, <3>2
    <3> QED BY <3>1, <3>2
  <2> QED BY <2>1, <2>6
<1> HIDE DEF P
<1>3. Seq(S) \subseteq P
  BY <1>1, <1>2, ByAppending
<1> QED BY <1>3 DEF P

LEMMA WithoutConcat ==
    ASSUME NEW S, NEW X, NEW s \in Seq(S)
    PROVE  \A t \in Seq(S) : Replacing!Without(s \o t, X)
                               = Replacing!Without(s, X) \o Replacing!Without(t, X)
<1> DEFINE W(u) == Replacing!Without(u, X)
           P == {t \in Seq(S) : W(s \o t) = W(s) \o W(t)}
<1>1. <<>> \in P
  <2>1. W(s) \in Seq(S) /\ W(<<>>) = <<>>
    BY WithoutIsSeq, WithoutNone
  <2>2. \A u \in Seq(S) : u \o <<>> = u
    OBVIOUS
  <2> HIDE DEF W
  <2> QED BY <2>1, <2>2
<1>2. ASSUME NEW t \in Seq(S), t \in P, NEW e \in S PROVE Append(t, e) \in P
  <2>1. s \o Append(t, e) = Append(s \o t, e) /\ s \o t \in Seq(S)
    OBVIOUS
  <2>2. W(s) \in Seq(S) /\ W(t) \in Seq(S)
    BY WithoutIsSeq
  <2>3. W(s) \o Append(W(t), e) = Append(W(s) \o W(t), e)
    <3>1. \A a, b \in Seq(S) : a \o Append(b, e) = Append(a \o b, e)
      OBVIOUS
    <3> HIDE DEF W
    <3> QED BY <2>2, <3>1
  <2>4. W(Append(s \o t, e)) = IF e \in X THEN W(s \o t) ELSE Append(W(s \o t), e)
    BY <2>1, WithoutOneMore, ZenonT(30)
  <2>5. W(Append(t, e)) = IF e \in X THEN W(t) ELSE Append(W(t), e)
    BY WithoutOneMore
  <2>6. W(s \o t) = W(s) \o W(t)
    BY <1>2
  <2>7. Append(t, e) \in Seq(S)
    OBVIOUS
  <2> HIDE DEF W
  <2>8. W(s \o Append(t, e)) = W(s) \o W(Append(t, e))
    BY <2>1, <2>3, <2>4, <2>5, <2>6
  <2> QED BY <2>7, <2>8
<1>3. Seq(S) \subseteq P
  <2> HIDE DEF P
  <2> QED BY <1>1, <1>2, ByAppending
<1> QED BY <1>3

LEMMA WithoutOthers ==
    ASSUME NEW S, NEW X
    PROVE  \A s \in Seq(S) : Els(s) \cap X = {} => Replacing!Without(s, X) = s
<1> DEFINE P == {s \in Seq(S) : Els(s) \cap X = {} => Replacing!Without(s, X) = s}
<1>1. <<>> \in P
  BY WithoutNone
<1>2. ASSUME NEW s \in Seq(S), s \in P, NEW e \in S PROVE Append(s, e) \in P
  BY <1>2, ElsAppend, WithoutOneMore
<1> HIDE DEF P
<1>3. Seq(S) \subseteq P
  BY <1>1, <1>2, ByAppending
<1> QED BY <1>3 DEF P

LEMMA WithoutAll ==
    ASSUME NEW S, NEW X, NEW s \in Seq(S), Els(s) \subseteq X
    PROVE  Replacing!Without(s, X) = <<>>
<1>1. Replacing!Without(s, X) \in Seq(S) /\ Els(Replacing!Without(s, X)) = Els(s) \ X
  BY WithoutIsSeq, WithoutEls
<1>2. Els(Replacing!Without(s, X)) = {}
  BY <1>1
<1> QED BY <1>1, <1>2, ElsEmpty

LEMMA WithoutBoth ==
    ASSUME NEW S, NEW X, NEW Y
    PROVE  \A s \in Seq(S) : Replacing!Without(Replacing!Without(s, X), Y)
                               = Replacing!Without(Replacing!Without(s, Y), X)
<1> DEFINE WX(u) == Replacing!Without(u, X)
           WY(u) == Replacing!Without(u, Y)
           P == {s \in Seq(S) : WY(WX(s)) = WX(WY(s))}
<1>1. <<>> \in P
  BY WithoutNone
<1>2. ASSUME NEW s \in Seq(S), s \in P, NEW e \in S PROVE Append(s, e) \in P
  <2>1. WX(s) \in Seq(S) /\ WY(s) \in Seq(S)
    BY WithoutIsSeq
  <2>2. /\ WX(Append(s, e)) = IF e \in X THEN WX(s) ELSE Append(WX(s), e)
        /\ WY(Append(s, e)) = IF e \in Y THEN WY(s) ELSE Append(WY(s), e)
    BY WithoutOneMore
  <2>3. /\ WX(Append(WY(s), e)) = IF e \in X THEN WX(WY(s)) ELSE Append(WX(WY(s)), e)
        /\ WY(Append(WX(s), e)) = IF e \in Y THEN WY(WX(s)) ELSE Append(WY(WX(s)), e)
    BY <2>1, WithoutOneMore
  <2>4. WY(WX(s)) = WX(WY(s)) /\ Append(s, e) \in Seq(S)
    BY <1>2
  <2> HIDE DEF WX, WY
  <2> QED BY <2>2, <2>3, <2>4
<1>3. Seq(S) \subseteq P
  <2> HIDE DEF P
  <2> QED BY <1>1, <1>2, ByAppending
<1> QED BY <1>3

-----------------------------------------------------------------------------
(* The Rems of a replacement. *)

Places == {Replacing!Parent} \cup Replacing!Backups

Rems ==
    Places \cup Els(Replacing!Targets) \cup Els(Replacing!Before) \cup Els(Replacing!After)
    \cup UNION {Els(Replacing!New(a)) : a \in 1 .. Executions}

LEMMA NumberedIsSeq == ASSUME NEW n \in Nat, NEW f, f = [i \in 1 .. n |-> f[i]]
                  PROVE  f \in Seq(Els(f)) /\ Len(f) = n /\ DOMAIN f = 1 .. n
<1>1. f \in [1 .. n -> Els(f)]
  BY DEF Els, Replacing!ToSet
<1> QED BY <1>1

LEMMA RootsAreSeqs ==
    /\ Replacing!Targets \in Seq(Rems) /\ Len(Replacing!Targets) = OldCount
    /\ Replacing!Before \in Seq(Rems) /\ Len(Replacing!Before) = Ahead
    /\ Replacing!After \in Seq(Rems) /\ Len(Replacing!After) = Behind
    /\ \A a \in 1 .. Executions :
         Replacing!New(a) \in Seq(Rems) /\ Len(Replacing!New(a)) = NewCount
<1>1. OldCount \in Nat /\ Ahead \in Nat /\ Behind \in Nat /\ NewCount \in Nat
  BY ReplaceCounts DEF Replacing!Counts
<1>2. \A n \in Nat : \A f : f = [i \in 1 .. n |-> f[i]] => f \in Seq(Els(f)) /\ Len(f) = n
  BY NumberedIsSeq
<1>3. \A T : T \subseteq Rems => \A f \in Seq(T) : f \in Seq(Rems)
  OBVIOUS
<1>4. /\ Replacing!Targets \in Seq(Els(Replacing!Targets)) /\ Len(Replacing!Targets) = OldCount
  BY <1>1, <1>2 DEF Replacing!Targets
<1>5. /\ Replacing!Before \in Seq(Els(Replacing!Before)) /\ Len(Replacing!Before) = Ahead
  BY <1>1, <1>2 DEF Replacing!Before
<1>6. /\ Replacing!After \in Seq(Els(Replacing!After)) /\ Len(Replacing!After) = Behind
  BY <1>1, <1>2 DEF Replacing!After
<1>7. ASSUME NEW a \in 1 .. Executions
      PROVE  Replacing!New(a) \in Seq(Els(Replacing!New(a))) /\ Len(Replacing!New(a)) = NewCount
  BY <1>1, <1>2 DEF Replacing!New
<1>8. /\ Els(Replacing!Targets) \subseteq Rems /\ Els(Replacing!Before) \subseteq Rems
      /\ Els(Replacing!After) \subseteq Rems
      /\ \A a \in 1 .. Executions : Els(Replacing!New(a)) \subseteq Rems
  BY DEF Rems
<1> QED BY <1>3, <1>4, <1>5, <1>6, <1>7, <1>8

LEMMA Tags ==
    /\ \A r \in Els(Replacing!Targets) : r[1] = "old"
    /\ \A r \in Els(Replacing!Before) : r[1] = "ahead"
    /\ \A r \in Els(Replacing!After) : r[1] = "behind"
    /\ \A a : \A r \in Els(Replacing!New(a)) : r[1] = "new" /\ r[2] = a
    /\ \A c \in Places : c[1] \in {"parent", "backup"}
<1>1. \A r \in Els(Replacing!Targets) : r[1] = "old"
  BY DEF Els, Replacing!ToSet, Replacing!Targets
<1>2. \A r \in Els(Replacing!Before) : r[1] = "ahead"
  BY DEF Els, Replacing!ToSet, Replacing!Before
<1>3. \A r \in Els(Replacing!After) : r[1] = "behind"
  BY DEF Els, Replacing!ToSet, Replacing!After
<1>4. \A a : \A r \in Els(Replacing!New(a)) : r[1] = "new" /\ r[2] = a
  BY DEF Els, Replacing!ToSet, Replacing!New
<1>5. \A c \in Places : c[1] \in {"parent", "backup"}
  BY DEF Places, Replacing!Parent, Replacing!Backups, Replacing!Backup
<1> QED BY <1>1, <1>2, <1>3, <1>4, <1>5

LEMMA NewsApart ==
    ASSUME NEW a, NEW r \in Els(Replacing!New(a))
    PROVE  /\ r \notin Places /\ r \notin Els(Replacing!Targets)
           /\ r \notin Els(Replacing!Before) /\ r \notin Els(Replacing!After)
           /\ \A b : r \in Els(Replacing!New(b)) => b = a
  BY Tags

LEMMA TargetsApart ==
    ASSUME NEW r \in Els(Replacing!Targets)
    PROVE  /\ r \notin Places /\ r \notin Els(Replacing!Before) /\ r \notin Els(Replacing!After)
  BY Tags

LEMMA BackupsApart ==
    /\ \A a \in 1 .. Executions : Replacing!Backup(a) \in Replacing!Backups
                                  /\ Replacing!Backup(a) \in Places /\ Replacing!Backup(a) \in Rems
                                  /\ Replacing!Backup(a) # Replacing!Parent
    /\ \A a, b : Replacing!Backup(a) = Replacing!Backup(b) => a = b
    /\ Replacing!Parent \in Places /\ Replacing!Parent \notin Replacing!Backups
  BY DEF Replacing!Backup, Replacing!Backups, Replacing!Parent, Places, Rems

LEMMA MovedIs ==
    ASSUME kids \in [Places -> Seq(Rems)], NEW rems \in Seq(Rems), NEW c \in Places,
           NEW u \in Seq(Rems), NEW v \in Seq(Rems),
           Replacing!Without(kids[c], Els(rems)) = u \o v
    PROVE  Replacing!Moved(rems, c, Len(u))
             = [d \in Places |-> IF d = c THEN (u \o rems) \o v
                                 ELSE Replacing!Without(kids[d], Els(rems))]
<1> DEFINE rest == [d \in DOMAIN kids |-> Replacing!Without(kids[d], Els(rems))]
<1>1. DOMAIN kids = Places
  OBVIOUS
<1>2. rest[c] = u \o v
  BY <1>1
<1> DEFINE p == Len(u)
<1>3. SubSeq(u \o v, 1, p) = u /\ SubSeq(u \o v, p + 1, Len(u \o v)) = v
  OBVIOUS
<1>4. Replacing!Moved(rems, c, p)
        = [rest EXCEPT ![c] = SubSeq(@, 1, p) \o rems \o SubSeq(@, p + 1, Len(@))]
  BY DEF Replacing!Moved, Els
<1>5. DOMAIN rest = Places
  BY <1>1
<1>6. \A d \in Places : rest[d] = Replacing!Without(kids[d], Els(rems))
  BY <1>1
<1> HIDE DEF rest
<1>7. Replacing!Moved(rems, c, p)
        = [d \in Places |-> IF d = c THEN SubSeq(rest[c], 1, p) \o rems
                                           \o SubSeq(rest[c], p + 1, Len(rest[c]))
                            ELSE rest[d]]
  BY <1>4, <1>5
<1> QED BY <1>2, <1>3, <1>6, <1>7

LEMMA MovedToFront ==
    ASSUME kids \in [Places -> Seq(Rems)], NEW rems \in Seq(Rems), NEW c \in Places,
           kids' = Replacing!Moved(rems, c, 0)
    PROVE  /\ kids' \in [Places -> Seq(Rems)]
           /\ kids'[c] = rems \o Replacing!Without(kids[c], Els(rems))
           /\ \A d \in Places : d # c => kids'[d] = Replacing!Without(kids[d], Els(rems))
           /\ \A r : Replacing!Exists(r) => Replacing!Exists(r)'
           /\ \A r : Replacing!Exists(r)' => Replacing!Exists(r) \/ r \in Els(rems)
<1> DEFINE w == Replacing!Without(kids[c], Els(rems))
<1>1. w \in Seq(Rems)
  BY WithoutIsSeq
<1>2. <<>> \in Seq(Rems) /\ <<>> \o w = w /\ Len(<<>>) = 0 /\ <<>> \o rems = rems
  BY <1>1
<1>3. kids' = [d \in Places |-> IF d = c THEN rems \o w ELSE Replacing!Without(kids[d], Els(rems))]
  <2> DEFINE e == <<>>
             n == 0
  <2>1. /\ e \in Seq(Rems) /\ n = Len(e) /\ n \in Nat
        /\ Replacing!Without(kids[c], Els(rems)) = e \o w
    BY <1>2
  <2>2. kids' = Replacing!Moved(rems, c, n)
    OBVIOUS
  <2> HIDE DEF w, e, n
  <2>3. Replacing!Moved(rems, c, n)
          = [d \in Places |-> IF d = c THEN (e \o rems) \o w
                              ELSE Replacing!Without(kids[d], Els(rems))]
    <3>1. \A u, v \in Seq(Rems) : Replacing!Without(kids[c], Els(rems)) = u \o v
            => Replacing!Moved(rems, c, Len(u))
                 = [d \in Places |-> IF d = c THEN (u \o rems) \o v
                                     ELSE Replacing!Without(kids[d], Els(rems))]
      BY MovedIs
    <3> QED BY <1>1, <2>1, <3>1, Zenon
  <2>4. e \o rems = rems
    BY <1>2 DEF e
  <2> QED BY <2>2, <2>3, <2>4
<1>4. \A d \in Places : kids'[d] \in Seq(Rems)
  <2>1. rems \o w \in Seq(Rems)
    BY <1>1
  <2>2. \A d \in Places : Replacing!Without(kids[d], Els(rems)) \in Seq(Rems)
    BY WithoutIsSeq
  <2> HIDE DEF w
  <2> QED BY <1>3, <2>1, <2>2
<1>5. kids' \in [Places -> Seq(Rems)]
  <2> HIDE DEF w
  <2> QED BY <1>3, <1>4
<1>6. Els(kids'[c]) = Els(rems) \cup Els(kids[c])
  <2>1. Els(w) = Els(kids[c]) \ Els(rems)
    BY WithoutEls
  <2>2. Els(rems \o w) = Els(rems) \cup Els(w)
    BY <1>1, ElsConcat
  <2>3. kids'[c] = rems \o w
    <3> HIDE DEF w
    <3> QED BY <1>3
  <2> HIDE DEF w
  <2> QED BY <2>1, <2>2, <2>3
<1>7. \A d \in Places : d # c => Els(kids'[d]) = Els(kids[d]) \ Els(rems)
  <2>1. \A d \in Places : Els(Replacing!Without(kids[d], Els(rems))) = Els(kids[d]) \ Els(rems)
    BY WithoutEls
  <2> HIDE DEF w
  <2> QED BY <1>3, <2>1
<1>8. \A r : Replacing!Exists(r) <=> \E d \in Places : r \in Els(kids[d])
  BY DEF Replacing!Exists, Els
<1>9. \A r : Replacing!Exists(r)' <=> \E d \in Places : r \in Els(kids'[d])
  BY <1>5 DEF Replacing!Exists, Els
<1>10. \A r : Replacing!Exists(r) => Replacing!Exists(r)'
  BY <1>6, <1>7, <1>8, <1>9
<1>11. \A r : Replacing!Exists(r)' => Replacing!Exists(r) \/ r \in Els(rems)
  BY <1>6, <1>7, <1>8, <1>9
<1>12. /\ kids'[c] = rems \o w
       /\ \A d \in Places : d # c => kids'[d] = Replacing!Without(kids[d], Els(rems))
  <2> HIDE DEF w
  <2> QED BY <1>3
<1> QED BY <1>5, <1>10, <1>11, <1>12

-----------------------------------------------------------------------------
(* Replacing children: everything that was there before this execution is still
   there until it has succeeded, and the steps of an execution that goes well
   leave what is to be seen of the parent (Seen) as they should. *)

Thens == {"none", "fatal", "restore", "putBack"}

Untouched(a) ==
    /\ kids[Replacing!Backup(a)] = <<>>
    /\ \A r \in Els(Replacing!New(a)) : ~Replacing!Exists(r)

EarlierKept ==
    Replacing!Kept(Replacing!Targets) \/ \E s \in earlier : Replacing!Kept(s)

EarlierRems == Els(Replacing!Targets) \cup UNION {Els(Replacing!New(a)) : a \in 1 .. attempt - 1}

(* What the imports have made is theirs. *)
Made ==
    /\ created \in Seq(Rems) /\ Els(created) \subseteq Els(Replacing!New(attempt))
    /\ \A s \in earlier : Els(s) \subseteq EarlierRems

Seen == Replacing!Content

InStep ==
    /\ at = "create" => Seen = old
    /\ at = "place" => Seen = old \o created
    /\ at \in {"assert", "backup", "stow"} => Seen \in {created \o old, old \o created}
    /\ at \in {"drop", "ok"} => Seen = created

ChildrenInv ==
    kind = "children" /\ markdown =>
        /\ kids \in [Places -> Seq(Rems)] /\ home = Replacing!Parent /\ pos = 0
        /\ old \in Seq(Rems) /\ Made
        /\ \A a \in 1 .. Executions :
             a > attempt \/ (a = attempt /\ at \in {"read", "create"}) => Untouched(a)
        /\ \A a \in 1 .. Executions : a >= attempt => Els(old) \cap Els(Replacing!New(a)) = {}
        /\ Els(kids[Replacing!Backup(attempt)]) \subseteq Els(old)
        /\ at # "ok" => EarlierKept
        /\ InStep

RTypeOK ==
    /\ kind \in {"children", "selection"} /\ markdown \in BOOLEAN
    /\ attempt \in 1 .. Executions /\ then \in Thens

(* What a step of an execution has to keep, until the end. *)
LEMMA Frame ==
    ASSUME RTypeOK, ChildrenInv, kind = "children", markdown,
           UNCHANGED <<kind, markdown, attempt, earlier, old, home, pos>>,
           created' \in Seq(Rems), Els(created') \subseteq Els(Replacing!New(attempt)),
           at # "ok", at' \notin {"read", "create"},
           kids' \in [Places -> Seq(Rems)],
           \A r : Replacing!Exists(r)' =>
             Replacing!Exists(r) \/ r \in Els(old) \cup Els(Replacing!New(attempt)) \cup Places,
           at' # "ok" => \A r \in EarlierRems : Replacing!Exists(r) => Replacing!Exists(r)',
           \A a \in 1 .. Executions : a > attempt => kids'[Replacing!Backup(a)] = <<>>,
           Els(kids'[Replacing!Backup(attempt)]) \subseteq Els(old),
           InStep'
    PROVE  ChildrenInv'
<1>1. ASSUME NEW a \in 1 .. Executions, a > attempt PROVE Untouched(a)'
  <2>1. Untouched(a) /\ Els(old) \cap Els(Replacing!New(a)) = {}
    BY <1>1 DEF ChildrenInv, RTypeOK
  <2>2. ASSUME NEW r \in Els(Replacing!New(a)) PROVE ~Replacing!Exists(r)'
    <3>1. ~Replacing!Exists(r) /\ r \notin Els(old)
      BY <2>1 DEF Untouched
    <3>2. r \notin Els(Replacing!New(attempt)) /\ r \notin Places
      BY <1>1, NewsApart DEF RTypeOK
    <3> QED BY <3>1, <3>2
  <2>3. kids'[Replacing!Backup(a)] = <<>>
    BY <1>1
  <2> QED BY <2>2, <2>3 DEF Untouched, Els, Replacing!ToSet, Replacing!New, Replacing!Backup
<1>2. at' # "ok" => EarlierKept'
  <2>1. SUFFICES ASSUME at' # "ok" PROVE EarlierKept'
    OBVIOUS
  <2>2. EarlierKept
    BY DEF ChildrenInv
  <2>3. CASE Replacing!Kept(Replacing!Targets)
    <3>1. \A r \in Els(Replacing!Targets) : Replacing!Exists(r)'
      BY <2>1, <2>3 DEF EarlierRems, Els, Replacing!Kept
    <3> QED BY <3>1 DEF EarlierKept, Replacing!Kept, Els, Replacing!ToSet, Replacing!Targets
  <2>4. ASSUME NEW s \in earlier, Replacing!Kept(s) PROVE EarlierKept'
    <3>1. Els(s) \subseteq EarlierRems
      BY DEF ChildrenInv, Made
    <3>2. \A r \in Els(s) : Replacing!Exists(r)'
      BY <2>1, <2>4, <3>1 DEF Els, Replacing!Kept
    <3> QED BY <3>2 DEF EarlierKept, Replacing!Kept, Els, Replacing!ToSet
  <2> QED BY <2>2, <2>3, <2>4 DEF EarlierKept
<1>3. \A a \in 1 .. Executions : a >= attempt => Els(old) \cap Els(Replacing!New(a)) = {}
  BY DEF ChildrenInv
<1>4. Made'
  <2>1. EarlierRems' = EarlierRems
    BY DEF EarlierRems, Els, Replacing!Targets, Replacing!New, Replacing!ToSet
  <2>2. /\ Els(created)' = Els(created')
        /\ Els(Replacing!New(attempt))' = Els(Replacing!New(attempt))
        /\ \A s : Els(s)' = Els(s)
    BY DEF Els, Replacing!New, Replacing!ToSet
  <2> QED BY <2>1, <2>2 DEF ChildrenInv, Made
<1>5. /\ home' = Replacing!Parent /\ pos' = 0 /\ old' \in Seq(Rems)
  BY DEF ChildrenInv
<1> QED
  BY <1>1, <1>2, <1>3, <1>4, <1>5 DEF ChildrenInv, RTypeOK

-----------------------------------------------------------------------------
(* What the calls to RemNote do. *)

LEMMA ExistsIs ==
    /\ kids \in [Places -> Seq(Rems)]
         => \A r : Replacing!Exists(r) <=> \E d \in Places : r \in Els(kids[d])
    /\ kids' \in [Places -> Seq(Rems)]
         => \A r : Replacing!Exists(r)' <=> \E d \in Places : r \in Els(kids'[d])
  BY DEF Replacing!Exists, Els

LEMMA AppendedIs ==
    ASSUME kids \in [Places -> Seq(Rems)], NEW c \in Places, NEW t \in Seq(Rems),
           kids' = [kids EXCEPT ![c] = @ \o t]
    PROVE  /\ kids' \in [Places -> Seq(Rems)]
           /\ kids'[c] = kids[c] \o t
           /\ \A d \in Places : d # c => kids'[d] = kids[d]
           /\ \A r : Replacing!Exists(r) => Replacing!Exists(r)'
           /\ \A r : Replacing!Exists(r)' => Replacing!Exists(r) \/ r \in Els(t)
<1>1. kids[c] \o t \in Seq(Rems)
  OBVIOUS
<1>2. /\ kids' \in [Places -> Seq(Rems)] /\ kids'[c] = kids[c] \o t
      /\ \A d \in Places : d # c => kids'[d] = kids[d]
  BY <1>1
<1>3. Els(kids'[c]) = Els(kids[c]) \cup Els(t)
  BY <1>2, ElsConcat
<1>4. \A d \in Places : d # c => Els(kids'[d]) = Els(kids[d])
  BY <1>2
<1> QED BY <1>2, <1>3, <1>4, ExistsIs

LEMMA RemovedIs ==
    ASSUME kids \in [Places -> Seq(Rems)], NEW X, kids' = Replacing!Removed(X)
    PROVE  /\ kids' \in [Places -> Seq(Rems)]
           /\ \A d \in Places : kids'[d] = IF d \in X THEN <<>> ELSE Replacing!Without(kids[d], X)
           /\ \A r : Replacing!Exists(r)' => Replacing!Exists(r)
           /\ \A r : Replacing!Exists(r) /\ r \notin X
                     /\ (\A d \in X \cap Places : r \notin Els(kids[d])) => Replacing!Exists(r)'
<1>1. \A d \in Places : Replacing!Without(kids[d], X) \in Seq(Rems)
                        /\ Els(Replacing!Without(kids[d], X)) = Els(kids[d]) \ X
  BY WithoutIsSeq, WithoutEls
<1>2. /\ kids' = [d \in Places |-> IF d \in X THEN <<>> ELSE Replacing!Without(kids[d], X)]
  BY DEF Replacing!Removed
<1>3. <<>> \in Seq(Rems) /\ Els(<<>>) = {}
  BY DEF Els, Replacing!ToSet
<1>4. \A d \in Places : kids'[d] = IF d \in X THEN <<>> ELSE Replacing!Without(kids[d], X)
  BY <1>2
<1>5. kids' \in [Places -> Seq(Rems)]
  BY <1>1, <1>2, <1>3, <1>4
<1>6. \A d \in Places : Els(kids'[d]) = IF d \in X THEN {} ELSE Els(kids[d]) \ X
  BY <1>1, <1>3, <1>4
<1> QED BY <1>4, <1>5, <1>6, ExistsIs

LEMMA OfTwo == \A s, t \in Seq(Rems) : Els(s \o t) = Els(s) \cup Els(t)
  BY ElsConcat

LEMMA WithoutTwo ==
    ASSUME NEW X
    PROVE  \A s, t \in Seq(Rems) :
             Replacing!Without(s \o t, X) = Replacing!Without(s, X) \o Replacing!Without(t, X)
  BY WithoutConcat

LEMMA FirstsOf ==
    ASSUME NEW s \in Seq(Rems), NEW n \in 0 .. Len(s)
    PROVE  SubSeq(s, 1, n) \in Seq(Rems) /\ Els(SubSeq(s, 1, n)) \subseteq Els(s)
<1>1. /\ SubSeq(s, 1, n) \in Seq(Rems) /\ DOMAIN SubSeq(s, 1, n) = 1 .. n
      /\ \A i \in 1 .. n : SubSeq(s, 1, n)[i] = s[i] /\ i \in DOMAIN s
  OBVIOUS
<1> QED BY <1>1 DEF Els, Replacing!ToSet

LEMMA OnlyIs ==
    ASSUME NEW s \in Seq(Rems), NEW X
    PROVE  Replacing!Only(s, X) \in Seq(Rems) /\ Els(Replacing!Only(s, X)) = Els(s) \cap X
<1>1. Replacing!Only(s, X) = Replacing!Without(s, Els(s) \ X)
  BY DEF Replacing!Only, Els
<1> QED BY <1>1, WithoutIsSeq, WithoutEls

-----------------------------------------------------------------------------
(* Replacing children, step by step. *)

Children == RTypeOK /\ ChildrenInv /\ kind = "children" /\ markdown

LEMMA ChildrenFacts ==
    ASSUME Children
    PROVE  /\ kids \in [Places -> Seq(Rems)] /\ home = Replacing!Parent /\ pos = 0
           /\ old \in Seq(Rems) /\ created \in Seq(Rems)
           /\ Els(created) \subseteq Els(Replacing!New(attempt))
           /\ attempt \in 1 .. Executions
           /\ Replacing!Parent \in Places /\ Replacing!Backup(attempt) \in Places
           /\ Replacing!Parent # Replacing!Backup(attempt)
           /\ Els(kids[Replacing!Backup(attempt)]) \subseteq Els(old)
           /\ Seen \in Seq(Rems) /\ Els(Seen) \subseteq Els(kids[Replacing!Parent])
           /\ Seen = Replacing!Without(kids[Replacing!Parent], Replacing!Backups)
           /\ Els(created) \cap Places = {} /\ Els(created) \cap EarlierRems = {}
           /\ Els(created) \cap Els(old) = {}
           /\ Els(Replacing!New(attempt)) \cap Places = {}
           /\ Els(Replacing!New(attempt)) \cap Els(old) = {}
           /\ \A a \in 1 .. Executions : a > attempt =>
                /\ Replacing!Backup(a) \in Places /\ kids[Replacing!Backup(a)] = <<>>
                /\ Replacing!Backup(a) # Replacing!Parent
                /\ Replacing!Backup(a) # Replacing!Backup(attempt)
<1>1. /\ kids \in [Places -> Seq(Rems)] /\ home = Replacing!Parent /\ pos = 0
      /\ old \in Seq(Rems) /\ created \in Seq(Rems)
      /\ Els(created) \subseteq Els(Replacing!New(attempt))
      /\ attempt \in 1 .. Executions
      /\ Els(kids[Replacing!Backup(attempt)]) \subseteq Els(old)
      /\ \A a \in 1 .. Executions : a > attempt => kids[Replacing!Backup(a)] = <<>>
      /\ Els(Replacing!New(attempt)) \cap Els(old) = {}
  BY DEF Children, RTypeOK, ChildrenInv, Untouched, Made
<1>3. /\ Replacing!Parent \in Places /\ Replacing!Backup(attempt) \in Places
      /\ Replacing!Parent # Replacing!Backup(attempt)
  BY <1>1, BackupsApart
<1>4. Seen = Replacing!Without(kids[Replacing!Parent], Replacing!Backups)
  BY DEF Seen, Replacing!Content
<1>5. Seen \in Seq(Rems) /\ Els(Seen) \subseteq Els(kids[Replacing!Parent])
  <2>1. kids[Replacing!Parent] \in Seq(Rems)
    BY <1>1, <1>3
  <2> QED BY <1>4, <2>1, WithoutIsSeq, WithoutEls
<1>6. Els(Replacing!New(attempt)) \cap Places = {}
      /\ Els(Replacing!New(attempt)) \cap EarlierRems = {}
  <2>1. \A r \in Els(Replacing!New(attempt)) : r \notin Places /\ r \notin Els(Replacing!Targets)
          /\ \A b : r \in Els(Replacing!New(b)) => b = attempt
    BY NewsApart
  <2> QED BY <1>1, <2>1 DEF EarlierRems
<1>7. \A a \in 1 .. Executions : a > attempt =>
        /\ Replacing!Backup(a) \in Places /\ Replacing!Backup(a) # Replacing!Parent
        /\ Replacing!Backup(a) # Replacing!Backup(attempt)
  BY <1>1, BackupsApart
<1> QED BY <1>1, <1>3, <1>4, <1>5, <1>6, <1>7

LEMMA StepInStep ==
    ASSUME NEW s \in Seq(Rems), UNCHANGED <<old, attempt>>, kids' \in [Places -> Seq(Rems)],
           Replacing!Without(kids'[Replacing!Parent], Replacing!Backups) = s
    PROVE  Seen' = s
  BY DEF Seen, Replacing!Content, Replacing!Without, Replacing!Backups, Replacing!Backup,
         Replacing!Parent

LEMMA SameSeen ==
    ASSUME UNCHANGED <<kids, old, attempt>>
    PROVE  Seen' = Seen
  BY DEF Seen, Replacing!Content

(* A move to the front of the parent, or of this execution's backup. *)
LEMMA MoveStep ==
    ASSUME Children, NEW rems \in Seq(Rems), Els(rems) \subseteq Els(old) \cup Els(created),
           NEW c \in {Replacing!Parent, Replacing!Backup(attempt)},
           c = Replacing!Backup(attempt) => Els(rems) \subseteq Els(old),
           kids' = Replacing!Moved(rems, c, 0),
           UNCHANGED <<kind, markdown, attempt, earlier, old, home, pos, created>>,
           at # "ok", at' \notin {"read", "create"},
           InStep'
    PROVE  ChildrenInv'
<1>1. c \in Places
  BY ChildrenFacts
<1>2. /\ kids' \in [Places -> Seq(Rems)]
      /\ kids'[c] = rems \o Replacing!Without(kids[c], Els(rems))
      /\ \A d \in Places : d # c => kids'[d] = Replacing!Without(kids[d], Els(rems))
      /\ \A r : Replacing!Exists(r) => Replacing!Exists(r)'
      /\ \A r : Replacing!Exists(r)' => Replacing!Exists(r) \/ r \in Els(rems)
  BY <1>1, ChildrenFacts, MovedToFront
<1>3. \A a \in 1 .. Executions : a > attempt => kids'[Replacing!Backup(a)] = <<>>
  <2>1. Replacing!Without(<<>>, Els(rems)) = <<>>
    BY WithoutNone
  <2> QED BY <1>2, <2>1, ChildrenFacts
<1>4. Els(kids'[Replacing!Backup(attempt)]) \subseteq Els(old)
  <2>1. \A d \in Places : /\ kids[d] \in Seq(Rems)
                          /\ Replacing!Without(kids[d], Els(rems)) \in Seq(Rems)
                          /\ Els(Replacing!Without(kids[d], Els(rems))) = Els(kids[d]) \ Els(rems)
    BY ChildrenFacts, WithoutIsSeq, WithoutEls
  <2>2. Els(kids[Replacing!Backup(attempt)]) \subseteq Els(old)
        /\ Replacing!Backup(attempt) \in Places
    BY ChildrenFacts
  <2>3. CASE c = Replacing!Backup(attempt)
    <3>1. Els(kids'[c]) = Els(rems) \cup Els(Replacing!Without(kids[c], Els(rems)))
      BY <1>1, <1>2, <2>1, OfTwo, Zenon
    <3> QED BY <1>1, <2>1, <2>2, <2>3, <3>1
  <2>4. CASE c # Replacing!Backup(attempt)
    BY <1>2, <2>1, <2>2, <2>4
  <2> QED BY <2>3, <2>4
<1>5. \A r : Replacing!Exists(r)' =>
        Replacing!Exists(r) \/ r \in Els(old) \cup Els(Replacing!New(attempt)) \cup Places
  BY <1>2, ChildrenFacts
<1>6. RTypeOK /\ ChildrenInv /\ kind = "children" /\ markdown
  BY DEF Children
<1>7. created' \in Seq(Rems) /\ Els(created') \subseteq Els(Replacing!New(attempt))
  BY ChildrenFacts
<1> QED BY <1>2, <1>3, <1>4, <1>5, <1>6, <1>7, Frame

(* A step that leaves the Rems alone. *)
LEMMA QuietStep ==
    ASSUME Children, UNCHANGED <<kids, kind, markdown, attempt, earlier, old, home, pos, created>>,
           at # "ok", at' \notin {"read", "create"},
           InStep'
    PROVE  ChildrenInv'
<1>1. \A r : Replacing!Exists(r)' <=> Replacing!Exists(r)
  BY DEF Replacing!Exists
<1>2. /\ kids' \in [Places -> Seq(Rems)]
      /\ \A a \in 1 .. Executions : a > attempt => kids'[Replacing!Backup(a)] = <<>>
      /\ Els(kids'[Replacing!Backup(attempt)]) \subseteq Els(old)
  BY ChildrenFacts
<1>3. RTypeOK /\ ChildrenInv /\ kind = "children" /\ markdown
  BY DEF Children
<1>4. created' \in Seq(Rems) /\ Els(created') \subseteq Els(Replacing!New(attempt))
  BY ChildrenFacts
<1> QED BY <1>1, <1>2, <1>3, <1>4, Frame

LEMMA AroundStep ==
    ASSUME Children, Replacing!Place
    PROVE  ChildrenInv'
<1>1. /\ at = "place" /\ Seen = old \o created
      /\ UNCHANGED <<kind, markdown, attempt, earlier, old, home, pos, created>>
  BY DEF Children, ChildrenInv, InStep, Replacing!Place, Replacing!job, Replacing!found
<1>2. CASE kids' = Replacing!Moved(created, home, pos) /\ at' = Replacing!Placed
  <2>1. kids' = Replacing!Moved(created, Replacing!Parent, 0) /\ at' = "assert"
    BY <1>1, <1>2, ChildrenFacts DEF Replacing!Placed, Children
  <2> DEFINE k == kids[Replacing!Parent]
             B == Replacing!Backups
             rest == Replacing!Without(k, Els(created))
  <2>2. /\ kids' \in [Places -> Seq(Rems)] /\ kids'[Replacing!Parent] = created \o rest
        /\ k \in Seq(Rems) /\ rest \in Seq(Rems)
    BY <2>1, ChildrenFacts, MovedToFront, WithoutIsSeq
  <2>3. Replacing!Without(rest, B) = Replacing!Without(Seen, Els(created))
    <3>1. Seen = Replacing!Without(k, B)
      BY ChildrenFacts
    <3> QED BY <2>2, <3>1, WithoutBoth
  <2>4. Replacing!Without(Seen, Els(created)) = old
    <3>1. /\ old \in Seq(Rems) /\ created \in Seq(Rems) /\ Els(old) \cap Els(created) = {}
      BY ChildrenFacts
    <3>2. Replacing!Without(old, Els(created)) = old
      BY <3>1, WithoutOthers
    <3>3. Replacing!Without(created, Els(created)) = <<>>
      BY <3>1, WithoutAll
    <3>4. Replacing!Without(old \o created, Els(created)) = old \o <<>>
      <4>1. \A s, t \in Seq(Rems) :
              Replacing!Without(s \o t, Els(created))
                = Replacing!Without(s, Els(created)) \o Replacing!Without(t, Els(created))
        BY WithoutTwo
      <4> QED BY <3>1, <3>2, <3>3, <4>1, Zenon
    <3> QED BY <1>1, <3>1, <3>4
  <2>5. Replacing!Without(created, B) = created
    <3>1. created \in Seq(Rems) /\ Els(created) \cap B = {}
      BY ChildrenFacts DEF Places
    <3> QED BY <3>1, WithoutOthers
  <2>6. Replacing!Without(kids'[Replacing!Parent], B) = created \o old
    <3>1. Replacing!Without(created \o rest, B)
            = Replacing!Without(created, B) \o Replacing!Without(rest, B)
      <4>1. created \in Seq(Rems) /\ rest \in Seq(Rems)
        BY <2>2, ChildrenFacts
      <4> HIDE DEF rest, B
      <4>2. \A s, t \in Seq(Rems) :
              Replacing!Without(s \o t, B) = Replacing!Without(s, B) \o Replacing!Without(t, B)
        BY WithoutTwo
      <4> QED BY <4>1, <4>2, Zenon
    <3> HIDE DEF rest, B
    <3> QED BY <2>2, <2>3, <2>4, <2>5, <3>1
  <2>7. Seen' = created \o old
    <3>1. created \o old \in Seq(Rems)
      BY ChildrenFacts
    <3> QED BY <1>1, <2>2, <2>6, <3>1, StepInStep
  <2>8. InStep'
    BY <1>1, <2>1, <2>7 DEF InStep
  <2>9. created \in Seq(Rems) /\ Replacing!Parent # Replacing!Backup(attempt)
    BY ChildrenFacts
  <2> QED BY <1>1, <2>1, <2>8, <2>9, MoveStep
<1>3. ASSUME NEW n \in 0 .. Len(created),
             kids' = Replacing!Moved(SubSeq(created, 1, n), home, pos), at' = "undo"
      PROVE  ChildrenInv'
  <2>1. /\ SubSeq(created, 1, n) \in Seq(Rems)
        /\ Els(SubSeq(created, 1, n)) \subseteq Els(created)
    BY <1>1, <1>3, ChildrenFacts, FirstsOf
  <2>2. InStep'
    BY <1>3 DEF InStep
  <2>3. kids' = Replacing!Moved(SubSeq(created, 1, n), Replacing!Parent, 0)
        /\ Replacing!Parent # Replacing!Backup(attempt)
    BY <1>3, ChildrenFacts
  <2> QED BY <1>1, <1>3, <2>1, <2>2, <2>3, MoveStep
<1> QED BY <1>2, <1>3 DEF Replacing!Place, Replacing!MoveRems

LEMMA ImportStep ==
    ASSUME Children, Replacing!CreateTree
    PROVE  ChildrenInv'
<1>1. /\ at = "create" /\ Seen = old /\ home = Replacing!Parent
      /\ UNCHANGED <<kind, markdown, attempt, earlier, old, home, pos>>
  BY DEF Children, ChildrenInv, InStep, Replacing!CreateTree, Replacing!job, Replacing!found
<1>2. RTypeOK /\ ChildrenInv /\ kind = "children" /\ markdown
  BY DEF Children
<1>3. PICK X \in SUBSET Els(Replacing!New(attempt)) :
        /\ kids' = [kids EXCEPT ![home] = @ \o Replacing!Only(Replacing!New(attempt), X)]
        /\ \/ /\ created' = Replacing!Only(Replacing!New(attempt), X)
              /\ at' \in Replacing!Imported(X)
           \/ at' = "fatal" /\ UNCHANGED created
  BY DEF Replacing!CreateTree, Els
<1> DEFINE t == Replacing!Only(Replacing!New(attempt), X)
<1>4. t \in Seq(Rems) /\ Els(t) \subseteq Els(Replacing!New(attempt))
  <2>1. Replacing!New(attempt) \in Seq(Rems)
    BY ChildrenFacts, RootsAreSeqs
  <2> QED BY <2>1, OnlyIs
<1>5. at' \in {"assert", "place", "fatal"}
      /\ (at' # "fatal" => created' = t) /\ (at' = "fatal" => created' \in {t, created})
  BY <1>2, <1>3 DEF Replacing!Imported
<1> HIDE DEF t
<1>6. kids' = [kids EXCEPT ![Replacing!Parent] = @ \o t]
  BY <1>1, <1>3 DEF t
<1>7. /\ kids' \in [Places -> Seq(Rems)]
      /\ kids'[Replacing!Parent] = kids[Replacing!Parent] \o t
      /\ \A d \in Places : d # Replacing!Parent => kids'[d] = kids[d]
      /\ \A r : Replacing!Exists(r) => Replacing!Exists(r)'
      /\ \A r : Replacing!Exists(r)' => Replacing!Exists(r) \/ r \in Els(t)
  BY <1>4, <1>6, ChildrenFacts, AppendedIs
<1>8. /\ \A a \in 1 .. Executions : a > attempt => kids'[Replacing!Backup(a)] = <<>>
      /\ Els(kids'[Replacing!Backup(attempt)]) \subseteq Els(old)
  BY <1>7, ChildrenFacts
<1>9. Seen' = old \o t
  <2> DEFINE B == Replacing!Backups
             k == kids[Replacing!Parent]
  <2>1. Replacing!Without(t, B) = t
    <3>1. Els(t) \cap B = {}
      BY <1>4, ChildrenFacts DEF Places
    <3> QED BY <1>4, <3>1, WithoutOthers
  <2>2. Replacing!Without(k \o t, B) = old \o t
    <3>1. \A u, v \in Seq(Rems) :
            Replacing!Without(u \o v, B) = Replacing!Without(u, B) \o Replacing!Without(v, B)
      BY WithoutTwo
    <3>2. Replacing!Without(k, B) = old /\ k \in Seq(Rems)
      BY <1>1, ChildrenFacts
    <3> HIDE DEF B, k
    <3> QED BY <1>4, <2>1, <3>1, <3>2, Zenon
  <2>3. old \o t \in Seq(Rems)
    BY <1>4, ChildrenFacts
  <2> QED BY <1>1, <1>7, <2>2, <2>3, StepInStep
<1>10. InStep'
  BY <1>1, <1>5, <1>9 DEF InStep
<1>11. created' \in Seq(Rems) /\ Els(created') \subseteq Els(Replacing!New(attempt))
  BY <1>4, <1>5, ChildrenFacts
<1> QED BY <1>1, <1>2, <1>4, <1>5, <1>7, <1>8, <1>10, <1>11, Frame

LEMMA AssertStep ==
    ASSUME Children, Replacing!CheckAssertions
    PROVE  ChildrenInv'
<1>1. /\ at = "assert" /\ Seen \in {created \o old, old \o created} /\ at' \in {"backup", "undo"}
      /\ UNCHANGED <<kids, kind, markdown, attempt, earlier, old, home, pos, created>>
  BY DEF Children, ChildrenInv, InStep, Replacing!CheckAssertions, Replacing!Asserted,
         Replacing!job, Replacing!found
<1>2. InStep'
  BY <1>1, SameSeen DEF InStep
<1> QED BY <1>1, <1>2, ChildrenFacts, QuietStep

LEMMA NothingStep ==
    ASSUME Children, Replacing!NothingToReplace
    PROVE  ChildrenInv'
<1>1. /\ at = "backup" /\ Seen \in {created \o old, old \o created} /\ at' = "ok" /\ old = <<>>
      /\ UNCHANGED <<kids, kind, markdown, attempt, earlier, old, home, pos, created>>
  BY DEF Children, ChildrenInv, InStep, Replacing!NothingToReplace,
         Replacing!job, Replacing!found
<1>2. Seen = created
  BY <1>1, ChildrenFacts
<1>3. InStep'
  BY <1>1, <1>2, SameSeen DEF InStep
<1> QED BY <1>1, <1>3, ChildrenFacts, QuietStep

LEMMA KeepStep ==
    ASSUME Children, Replacing!KeepBackup
    PROVE  ChildrenInv'
<1>1. /\ at = "drop" /\ Seen = created /\ at' = "ok"
      /\ UNCHANGED <<kids, kind, markdown, attempt, earlier, old, home, pos, created>>
  BY DEF Children, ChildrenInv, InStep, Replacing!KeepBackup, Replacing!job, Replacing!found
<1>2. InStep'
  BY <1>1, SameSeen DEF InStep
<1> QED BY <1>1, <1>2, ChildrenFacts, QuietStep

LEMMA StowStep ==
    ASSUME Children, Replacing!Stow
    PROVE  ChildrenInv'
<1> DEFINE b == Replacing!Backup(attempt)
<1>1. /\ at = "stow" /\ Seen \in {created \o old, old \o created}
      /\ UNCHANGED <<kind, markdown, attempt, earlier, old, home, pos, created>>
  BY DEF Children, ChildrenInv, InStep, Replacing!Stow, Replacing!job, Replacing!found
<1>2. CASE kids' = Replacing!Moved(old, b, 0) /\ at' = "drop"
  <2> DEFINE k == kids[Replacing!Parent]
             B == Replacing!Backups
             E == Els(old)
  <2>1. /\ kids' \in [Places -> Seq(Rems)] /\ kids'[Replacing!Parent] = Replacing!Without(k, E)
        /\ k \in Seq(Rems)
    BY <1>2, ChildrenFacts, MovedToFront
  <2>2. Replacing!Without(Replacing!Without(k, E), B) = Replacing!Without(Seen, E)
    BY <2>1, ChildrenFacts, WithoutBoth
  <2>3. Replacing!Without(Seen, E) = created
    <3>1. old \in Seq(Rems) /\ created \in Seq(Rems) /\ Els(created) \cap E = {}
      BY ChildrenFacts
    <3>2. Replacing!Without(old, E) = <<>>
      BY <3>1, WithoutAll
    <3>3. Replacing!Without(created, E) = created
      BY <3>1, WithoutOthers
    <3>4. \A s, t \in Seq(Rems) :
            Replacing!Without(s \o t, E) = Replacing!Without(s, E) \o Replacing!Without(t, E)
      BY WithoutTwo
    <3>5. created \o <<>> = created /\ <<>> \o created = created
      BY <3>1
    <3> HIDE DEF E
    <3>6. Replacing!Without(created \o old, E) = created
      BY <3>1, <3>2, <3>3, <3>4, <3>5, Zenon
    <3>7. Replacing!Without(old \o created, E) = created
      BY <3>1, <3>2, <3>3, <3>4, <3>5, Zenon
    <3> QED BY <1>1, <3>6, <3>7
  <2>4. Seen' = created
    <3>1. created \in Seq(Rems)
      BY ChildrenFacts
    <3> QED BY <1>1, <2>1, <2>2, <2>3, <3>1, StepInStep
  <2>5. InStep'
    BY <1>1, <1>2, <2>4 DEF InStep
  <2> QED BY <1>1, <1>2, <2>5, ChildrenFacts, MoveStep
<1>3. ASSUME NEW n \in 0 .. Len(old), kids' = Replacing!Moved(SubSeq(old, 1, n), b, 0), at' = "undo"
      PROVE  ChildrenInv'
  <2>1. SubSeq(old, 1, n) \in Seq(Rems) /\ Els(SubSeq(old, 1, n)) \subseteq Els(old)
    BY <1>3, ChildrenFacts, FirstsOf
  <2>2. InStep'
    BY <1>3 DEF InStep
  <2> QED BY <1>1, <1>3, <2>1, <2>2, ChildrenFacts, MoveStep
<1> QED BY <1>2, <1>3 DEF Replacing!Stow, Replacing!MoveRems

(* What is moved back, in whatever state the Rems are. *)
LEMMA BackStep ==
    ASSUME Children, Replacing!Restore \/ Replacing!PutBack
    PROVE  ChildrenInv'
<1>1. PICK rems \in Seq(Rems) :
        /\ Els(rems) \subseteq Els(old)
        /\ \/ kids' = Replacing!Moved(rems, home, pos)
           \/ \E n \in 0 .. Len(rems) : kids' = Replacing!Moved(SubSeq(rems, 1, n), home, pos)
  <2>1. CASE Replacing!Restore
    <3>1. Replacing!InBackup \in Seq(Rems) /\ Els(Replacing!InBackup) \subseteq Els(old)
      BY ChildrenFacts, OnlyIs DEF Replacing!InBackup
    <3> QED BY <2>1, <3>1 DEF Replacing!Restore, Replacing!MoveRems
  <2>2. CASE Replacing!PutBack
    BY <2>2, ChildrenFacts DEF Replacing!PutBack, Replacing!MoveRems
  <2> QED BY <2>1, <2>2
<1>2. /\ at \in {"restore", "putBack"} /\ at' \in {"tidy", "tidyIfEmpty", "fatal"}
      /\ UNCHANGED <<kind, markdown, attempt, earlier, old, home, pos, created>>
  BY DEF Replacing!Restore, Replacing!PutBack, Replacing!MoveRems, Replacing!job, Replacing!found
<1>3. InStep'
  BY <1>2 DEF InStep
<1>4. PICK some \in Seq(Rems) :
        Els(some) \subseteq Els(old) /\ kids' = Replacing!Moved(some, Replacing!Parent, 0)
  <2>1. home = Replacing!Parent /\ pos = 0
    BY ChildrenFacts
  <2> QED BY <1>1, <2>1, FirstsOf
<1> QED BY <1>2, <1>3, <1>4, ChildrenFacts, MoveStep

(* A removal, of roots that this execution has created or of its backup. *)
LEMMA RemoveStep ==
    ASSUME Children, NEW X, kids' = Replacing!Removed(X),
           UNCHANGED <<kind, markdown, attempt, earlier, old, home, pos, created>>,
           at # "ok", at' \notin {"read", "create"},
           at' # "ok" =>
             \A r \in EarlierRems : r \notin X /\ \A d \in X \cap Places : r \notin Els(kids[d]),
           InStep'
    PROVE  ChildrenInv'
<1>1. /\ kids' \in [Places -> Seq(Rems)]
      /\ \A d \in Places : kids'[d] = IF d \in X THEN <<>> ELSE Replacing!Without(kids[d], X)
      /\ \A r : Replacing!Exists(r)' => Replacing!Exists(r)
      /\ \A r : Replacing!Exists(r) /\ r \notin X
                /\ (\A d \in X \cap Places : r \notin Els(kids[d])) => Replacing!Exists(r)'
  BY ChildrenFacts, RemovedIs
<1>2. \A a \in 1 .. Executions : a > attempt => kids'[Replacing!Backup(a)] = <<>>
  BY <1>1, ChildrenFacts, WithoutNone
<1>3. Els(kids'[Replacing!Backup(attempt)]) \subseteq Els(old)
  <2>1. Els(<<>>) = {}
    BY DEF Els, Replacing!ToSet
  <2>2. \A d \in Places : Els(Replacing!Without(kids[d], X)) = Els(kids[d]) \ X
    BY ChildrenFacts, WithoutEls
  <2> QED BY <1>1, <2>1, <2>2, ChildrenFacts
<1>4. at' # "ok" => \A r \in EarlierRems : Replacing!Exists(r) => Replacing!Exists(r)'
  BY <1>1
<1>5. RTypeOK /\ ChildrenInv /\ kind = "children" /\ markdown
  BY DEF Children
<1>6. created' \in Seq(Rems) /\ Els(created') \subseteq Els(Replacing!New(attempt))
  BY ChildrenFacts
<1> QED BY <1>1, <1>2, <1>3, <1>4, <1>5, <1>6, Frame

LEMMA RollbackStep ==
    ASSUME Children, Replacing!RollbackCreated
    PROVE  ChildrenInv'
<1>1. /\ at = "undo" /\ at' = then
      /\ UNCHANGED <<kind, markdown, attempt, earlier, old, home, pos, created>>
  BY DEF Replacing!RollbackCreated, Replacing!job, Replacing!found
<1>2. PICK X : X \subseteq Els(created) /\ kids' = Replacing!Removed(X)
  BY DEF Replacing!RollbackCreated, Els
<1>4. \A r \in EarlierRems : r \notin X /\ \A d \in X \cap Places : r \notin Els(kids[d])
  BY <1>2, ChildrenFacts
<1>5. at' \in Thens
  BY <1>1 DEF Children, RTypeOK
<1>6. InStep'
  BY <1>5 DEF InStep, Thens
<1> QED BY <1>1, <1>2, <1>4, <1>5, <1>6, ChildrenFacts, RemoveStep DEF Thens

LEMMA BackupStep ==
    ASSUME Children, Replacing!CreateBackup
    PROVE  ChildrenInv'
<1> DEFINE b == Replacing!Backup(attempt)
           k == kids[Replacing!Parent]
           B == Replacing!Backups
<1>1. /\ at = "backup" /\ Seen \in {created \o old, old \o created} /\ home = Replacing!Parent
      /\ UNCHANGED <<kind, markdown, attempt, earlier, old, home, pos, created>>
  BY ChildrenFacts DEF Children, ChildrenInv, InStep, Replacing!CreateBackup,
                       Replacing!job, Replacing!found
<1>2. CASE kids' = [kids EXCEPT ![home] = Append(@, b)] /\ at' = "stow"
  <2>1. k \in Seq(Rems) /\ b \in Rems /\ b \in B /\ b \in Places /\ Replacing!Parent \in Places
    BY ChildrenFacts, BackupsApart
  <2>2. <<b>> \in Seq(Rems) /\ Append(k, b) = k \o <<b>>
    BY <2>1
  <2>3. Els(<<b>>) = {b}
    BY DEF Els, Replacing!ToSet
  <2>4. kids' = [kids EXCEPT ![Replacing!Parent] = @ \o <<b>>]
    BY <1>1, <1>2, <2>2
  <2> HIDE DEF b, k, B
  <2>5. /\ kids' \in [Places -> Seq(Rems)] /\ kids'[Replacing!Parent] = k \o <<b>>
        /\ \A d \in Places : d # Replacing!Parent => kids'[d] = kids[d]
        /\ \A r : Replacing!Exists(r) => Replacing!Exists(r)'
        /\ \A r : Replacing!Exists(r)' => Replacing!Exists(r) \/ r = b
    <3>1. \A c \in Places : \A t \in Seq(Rems) : kids' = [kids EXCEPT ![c] = @ \o t] =>
            /\ kids' \in [Places -> Seq(Rems)] /\ kids'[c] = kids[c] \o t
            /\ \A d \in Places : d # c => kids'[d] = kids[d]
            /\ \A r : Replacing!Exists(r) => Replacing!Exists(r)'
            /\ \A r : Replacing!Exists(r)' => Replacing!Exists(r) \/ r \in Els(t)
      BY ChildrenFacts, AppendedIs
    <3>2. /\ kids' \in [Places -> Seq(Rems)]
          /\ kids'[Replacing!Parent] = kids[Replacing!Parent] \o <<b>>
          /\ \A d \in Places : d # Replacing!Parent => kids'[d] = kids[d]
          /\ \A r : Replacing!Exists(r) => Replacing!Exists(r)'
          /\ \A r : Replacing!Exists(r)' => Replacing!Exists(r) \/ r \in Els(<<b>>)
      BY <2>1, <2>2, <2>4, <3>1, Zenon
    <3> QED BY <2>3, <3>2 DEF k
  <2>6. Replacing!Without(kids'[Replacing!Parent], B) = Seen
    <3>1. Replacing!Without(Append(k, b), B) = Replacing!Without(k, B)
      BY <2>1, WithoutOneMore
    <3>2. Replacing!Without(k, B) = Seen
      BY ChildrenFacts DEF k, B
    <3> QED BY <2>2, <2>5, <3>1, <3>2
  <2>7. Seen' = Seen
    BY <1>1, <2>5, <2>6, ChildrenFacts, StepInStep DEF B
  <2>8. InStep'
    BY <1>1, <1>2, <2>7 DEF InStep
  <2>9. /\ \A a \in 1 .. Executions : a > attempt => kids'[Replacing!Backup(a)] = <<>>
        /\ Els(kids'[Replacing!Backup(attempt)]) \subseteq Els(old)
    BY <2>5, ChildrenFacts
  <2>10. RTypeOK /\ ChildrenInv /\ kind = "children" /\ markdown
    BY DEF Children
  <2>11. created' \in Seq(Rems) /\ Els(created') \subseteq Els(Replacing!New(attempt))
    BY <1>1, ChildrenFacts
  <2> QED BY <1>1, <1>2, <2>1, <2>5, <2>8, <2>9, <2>10, <2>11, Frame
<1>3. CASE UNCHANGED kids /\ at' = "undo"
  <2>1. InStep'
    BY <1>3 DEF InStep
  <2> QED BY <1>1, <1>3, <2>1, ChildrenFacts, QuietStep
<1> QED BY <1>2, <1>3 DEF Replacing!CreateBackup

LEMMA TidyStep ==
    ASSUME Children, Replacing!Tidy
    PROVE  ChildrenInv'
<1> DEFINE b == Replacing!Backup(attempt)
<1>1. /\ at \in {"tidy", "tidyIfEmpty"} /\ at' = "fatal" /\ kind = "children"
      /\ UNCHANGED <<kind, markdown, attempt, earlier, old, home, pos, created>>
      /\ UNCHANGED kids \/ (Replacing!InBackup = <<>> /\ kids' = Replacing!Removed({b}))
  BY DEF Children, Replacing!Tidy, Replacing!RemoveRem, Replacing!job, Replacing!found
<1>2. InStep'
  BY <1>1 DEF InStep
<1>3. CASE UNCHANGED kids
  BY <1>1, <1>2, <1>3, ChildrenFacts, QuietStep
<1>4. CASE Replacing!InBackup = <<>> /\ kids' = Replacing!Removed({b})
  <2>1. Els(kids[b]) = {}
    <3>1. Els(Replacing!InBackup) = Els(old) \cap Els(kids[b])
      BY ChildrenFacts, OnlyIs DEF Replacing!InBackup, Els
    <3>2. Els(<<>>) = {}
      BY DEF Els, Replacing!ToSet
    <3> QED BY <1>4, <3>1, <3>2, ChildrenFacts
  <2>2. b \notin EarlierRems
    <3>1. b \in Places /\ attempt \in 1 .. Executions
      BY ChildrenFacts
    <3> QED BY <3>1, TargetsApart, NewsApart DEF EarlierRems
  <2>3. \A r \in EarlierRems : r \notin {b} /\ \A d \in {b} \cap Places : r \notin Els(kids[d])
    BY <2>1, <2>2
  <2> QED BY <1>1, <1>2, <1>4, <2>3, ChildrenFacts, RemoveStep
<1> QED BY <1>1, <1>3, <1>4

LEMMA DropStep ==
    ASSUME Children, Replacing!DropBackup
    PROVE  ChildrenInv'
<1> DEFINE b == Replacing!Backup(attempt)
           k == kids[Replacing!Parent]
           B == Replacing!Backups
<1>1. /\ at = "drop" /\ Seen = created
      /\ UNCHANGED <<kind, markdown, attempt, earlier, old, home, pos, created>>
  BY DEF Children, ChildrenInv, InStep, Replacing!DropBackup, Replacing!job, Replacing!found
<1>2. CASE kids' = Replacing!Removed({b}) /\ at' = "ok"
  <2>1. /\ kids' \in [Places -> Seq(Rems)]
        /\ kids'[Replacing!Parent] = Replacing!Without(k, {b}) /\ k \in Seq(Rems)
    BY <1>2, ChildrenFacts, RemovedIs
  <2>2. Replacing!Without(Replacing!Without(k, {b}), B) = Replacing!Without(Seen, {b})
    BY <2>1, ChildrenFacts, WithoutBoth
  <2>3. Replacing!Without(created, {b}) = created
    <3>1. created \in Seq(Rems) /\ Els(created) \cap {b} = {}
      BY ChildrenFacts
    <3> QED BY <3>1, WithoutOthers
  <2>4. Seen' = created
    BY <1>1, <2>1, <2>2, <2>3, ChildrenFacts, StepInStep
  <2>5. InStep'
    BY <1>1, <1>2, <2>4 DEF InStep
  <2> QED BY <1>1, <1>2, <2>5, ChildrenFacts, RemoveStep
<1>3. CASE UNCHANGED kids /\ at' = "undo"
  <2>1. InStep'
    BY <1>3 DEF InStep
  <2> QED BY <1>1, <1>3, <2>1, ChildrenFacts, QuietStep
<1> QED BY <1>2, <1>3 DEF Replacing!DropBackup, Replacing!RemoveRem

-----------------------------------------------------------------------------
(* An execution begins. *)

LEMMA ReadStep ==
    ASSUME Children, Replacing!Read
    PROVE  ChildrenInv'
<1>1. /\ at = "read" /\ at' = "create" /\ old' = Seen /\ home' = Replacing!Parent /\ pos' = 0
      /\ UNCHANGED <<kind, markdown, attempt, earlier, kids, created, then>>
  BY DEF Children, Replacing!Read, Replacing!ReadChildren, Replacing!ReadSelection, Seen,
         Replacing!job
<1>2. Seen' = Seen
  BY <1>1 DEF Seen, Replacing!Content
<1>3. \A r : Replacing!Exists(r)' <=> Replacing!Exists(r)
  BY <1>1 DEF Replacing!Exists
<1>4. \A a \in 1 .. Executions : a >= attempt => Untouched(a)
  BY <1>1 DEF Children, ChildrenInv, RTypeOK
<1>5. \A a \in 1 .. Executions : Untouched(a) => Untouched(a)'
  BY <1>1, <1>3 DEF Untouched, Els, Replacing!ToSet, Replacing!New, Replacing!Backup
<1>6. \A a \in 1 .. Executions : a >= attempt => Els(old') \cap Els(Replacing!New(a)) = {}
  <2>1. \A r \in Els(old') : Replacing!Exists(r)
    BY <1>1, ChildrenFacts, ExistsIs
  <2> QED BY <1>4, <2>1 DEF Untouched
<1>7. Els(kids'[Replacing!Backup(attempt)]) = {}
  <2>1. kids[Replacing!Backup(attempt)] = <<>>
    BY <1>4, ChildrenFacts DEF Untouched
  <2> QED BY <1>1, <2>1 DEF Els, Replacing!ToSet
<1>8. EarlierKept'
  <2>1. EarlierKept
    BY <1>1 DEF Children, ChildrenInv
  <2> QED BY <1>1, <1>3, <2>1
          DEF EarlierKept, Replacing!Kept, Replacing!ToSet, Replacing!Targets
<1>9. InStep'
  BY <1>1, <1>2 DEF InStep
<1>10. kids' \in [Places -> Seq(Rems)] /\ old' \in Seq(Rems)
  BY <1>1, <1>2, ChildrenFacts
<1>14. Made'
  <2>1. Made
    BY DEF Children, ChildrenInv
  <2> QED BY <1>1, <2>1
          DEF Made, EarlierRems, Els, Replacing!ToSet, Replacing!Targets, Replacing!New
<1>11. \A a \in 1 .. Executions : a > attempt \/ a = attempt => Untouched(a)'
  BY <1>4, <1>5, ChildrenFacts
<1>12. \A a \in 1 .. Executions :
         a > attempt' \/ (a = attempt' /\ at' \in {"read", "create"}) => Untouched(a)'
  BY <1>1, <1>11
<1>13. \A a \in 1 .. Executions : a >= attempt' => Els(old') \cap Els(Replacing!New(a)) = {}
  BY <1>1, <1>6
<1> QED BY <1>1, <1>7, <1>8, <1>9, <1>10, <1>12, <1>13, <1>14
        DEF ChildrenInv

LEMMA ReloadStep ==
    ASSUME Children, Replacing!Reload
    PROVE  ChildrenInv'
<1>1. /\ at' = "read" /\ attempt' = attempt + 1 /\ attempt < Executions /\ at # "read"
      /\ old' = <<>> /\ home' = Replacing!Parent /\ pos' = 0 /\ created' = <<>>
      /\ UNCHANGED <<kids, kind, markdown>> /\ attempt \in 1 .. Executions
      /\ earlier' = IF at = "ok" THEN earlier \cup {created} ELSE earlier
  BY ChildrenFacts DEF Replacing!Reload
<1>2. \A r : Replacing!Exists(r)' <=> Replacing!Exists(r)
  BY <1>1 DEF Replacing!Exists
<1>3. \A a \in 1 .. Executions : a > attempt => Untouched(a)
  BY DEF Children, ChildrenInv
<1>4. \A a \in 1 .. Executions : Untouched(a) => Untouched(a)'
  BY <1>1, <1>2 DEF Untouched, Els, Replacing!ToSet, Replacing!New, Replacing!Backup
<1>5. \A a \in 1 .. Executions : a >= attempt' => Untouched(a) /\ Untouched(a)'
  BY <1>1, <1>3, <1>4
<1>6. attempt' \in 1 .. Executions
  BY <1>1, ReplaceCounts DEF Replacing!Counts
<1>7. Els(kids'[Replacing!Backup(attempt')]) = {}
  BY <1>1, <1>5, <1>6 DEF Untouched, Els, Replacing!ToSet
<1>8. EarlierKept'
  <2>1. \A s : Replacing!Kept(s) => Replacing!Kept(s)'
    BY <1>1, <1>2 DEF Replacing!Kept, Replacing!ToSet
  <2>2. Replacing!Kept(Replacing!Targets) => Replacing!Kept(Replacing!Targets)'
    BY <1>1, <1>2 DEF Replacing!Kept, Replacing!ToSet, Replacing!Targets
  <2>3. CASE at = "ok"
    <3>1. Seen = created
      BY <2>3 DEF Children, ChildrenInv, InStep
    <3>2. \A r \in Els(created) : Replacing!Exists(r)
      BY <3>1, ChildrenFacts, ExistsIs
    <3>3. created \in earlier' /\ \A r \in Els(created) : Replacing!Exists(r)'
      BY <1>1, <1>2, <2>3, <3>2
    <3> QED BY <3>3 DEF EarlierKept, Replacing!Kept, Els, Replacing!ToSet
  <2>4. CASE at # "ok"
    <3>1. EarlierKept
      BY <2>4 DEF Children, ChildrenInv
    <3>2. CASE Replacing!Kept(Replacing!Targets)
      BY <2>2, <3>2 DEF EarlierKept
    <3>3. ASSUME NEW s \in earlier, Replacing!Kept(s) PROVE EarlierKept'
      <4>1. s \in earlier' /\ \A r \in Els(s) : Replacing!Exists(r)'
        BY <1>1, <1>2, <3>3 DEF Replacing!Kept, Els
      <4> QED BY <4>1 DEF EarlierKept, Replacing!Kept, Els, Replacing!ToSet
    <3> QED BY <3>1, <3>2, <3>3 DEF EarlierKept
  <2> QED BY <2>3, <2>4
<1>9. InStep'
  BY <1>1 DEF InStep
<1>10. kids' \in [Places -> Seq(Rems)] /\ old' \in Seq(Rems) /\ Els(old') = {}
  BY <1>1, ChildrenFacts DEF Els, Replacing!ToSet
<1>11. \A a \in 1 .. Executions :
         a > attempt' \/ (a = attempt' /\ at' \in {"read", "create"}) => Untouched(a)'
  BY <1>1, <1>5
<1>12. Made'
  <2>1. \A s : Els(s)' = Els(s)
    BY DEF Els, Replacing!ToSet
  <2>2. EarlierRems' = EarlierRems \cup Els(Replacing!New(attempt))
    <3>1. 1 .. attempt' - 1 = (1 .. attempt - 1) \cup {attempt}
      BY <1>1
    <3> QED BY <3>1 DEF EarlierRems, Els, Replacing!ToSet, Replacing!Targets, Replacing!New
  <2>3. \A s \in earlier' : Els(s) \subseteq EarlierRems'
    BY <1>1, <2>2, ChildrenFacts DEF Children, ChildrenInv, Made
  <2>4. created' \in Seq(Rems) /\ Els(created') = {}
    BY <1>1 DEF Els, Replacing!ToSet
  <2> QED BY <2>3, <2>4 DEF Made, Els, Replacing!ToSet
<1> QED BY <1>1, <1>7, <1>8, <1>9, <1>10, <1>11, <1>12
        DEF ChildrenInv, Els, Replacing!ToSet, Replacing!Backup, Replacing!New

-----------------------------------------------------------------------------
(* Replacing a selection, executed once: what the parent has at each step. *)

Selected == (Replacing!Before \o Replacing!Targets) \o Replacing!After
InPlace == (Replacing!Before \o created) \o (Replacing!Targets \o Replacing!After)
Replaced == (Replacing!Before \o created) \o Replacing!After

SelInv ==
    kind = "selection" /\ markdown /\ attempt = 1 =>
        /\ at = "read" => kids = [c \in Places |-> IF c = Replacing!Parent THEN Selected ELSE <<>>]
        /\ at \in {"create", "assert", "place", "backup", "stow", "drop", "ok"} =>
             /\ kids \in [Places -> Seq(Rems)]
             /\ old = Replacing!Targets /\ home = Replacing!Parent /\ pos = Ahead
        /\ at = "create" => kids[Replacing!Parent] = Selected
        /\ created \in Seq(Rems) /\ Els(created) \subseteq Els(Replacing!New(1))
        /\ at \in {"assert", "place"} => kids[Replacing!Parent] = Selected \o created
        /\ at = "backup" => kids[Replacing!Parent] = InPlace
        /\ at = "stow" => kids[Replacing!Parent] = Append(InPlace, Replacing!Backup(1))
        /\ at = "drop" => kids[Replacing!Parent] = Append(Replaced, Replacing!Backup(1))
        /\ at = "ok" => kids[Replacing!Parent] = Replaced

Leading == Replacing!Before
Chosen == Replacing!Targets
Trailing == Replacing!After

LEMMA Associative ==
    \A s, t, u \in Seq(Rems) : (s \o t) \o u = s \o (t \o u)
  OBVIOUS

LEMMA WithoutThree ==
    ASSUME NEW X, NEW s \in Seq(Rems), NEW t \in Seq(Rems), NEW u \in Seq(Rems)
    PROVE  Replacing!Without((s \o t) \o u, X)
             = (Replacing!Without(s, X) \o Replacing!Without(t, X)) \o Replacing!Without(u, X)
<1>1. \A a, b \in Seq(Rems) :
        Replacing!Without(a \o b, X) = Replacing!Without(a, X) \o Replacing!Without(b, X)
  BY WithoutTwo
<1>2. s \o t \in Seq(Rems)
  OBVIOUS
<1> QED BY <1>1, <1>2, Zenon

LEMMA TwoIndexed ==
    ASSUME NEW s \in Seq(Rems), NEW t \in Seq(Rems)
    PROVE  /\ Len(s \o t) = Len(s) + Len(t)
           /\ \A i \in 1 .. Len(s) + Len(t) :
                (s \o t)[i] = IF i <= Len(s) THEN s[i] ELSE t[i - Len(s)]
  OBVIOUS

LEMMA ThreeIndexed ==
    ASSUME NEW s \in Seq(Rems), NEW t \in Seq(Rems), NEW u \in Seq(Rems)
    PROVE  /\ Len((s \o t) \o u) = Len(s) + Len(t) + Len(u)
           /\ \A i \in 1 .. Len((s \o t) \o u) :
                ((s \o t) \o u)[i] = IF i <= Len(s) THEN s[i]
                                     ELSE IF i <= Len(s) + Len(t) THEN t[i - Len(s)]
                                     ELSE u[i - Len(s) - Len(t)]
<1> DEFINE v == s \o t
<1>1. /\ v \in Seq(Rems) /\ Len(v) = Len(s) + Len(t) /\ Len(s) \in Nat /\ Len(t) \in Nat
      /\ Len(u) \in Nat
      /\ \A i \in 1 .. Len(v) : v[i] = IF i <= Len(s) THEN s[i] ELSE t[i - Len(s)]
  OBVIOUS
<1> HIDE DEF v
<1>2. /\ Len(v \o u) = Len(v) + Len(u)
      /\ \A i \in 1 .. Len(v) + Len(u) : (v \o u)[i] = IF i <= Len(v) THEN v[i] ELSE u[i - Len(v)]
  BY <1>1, TwoIndexed
<1>3. ASSUME NEW i \in 1 .. Len(v \o u)
      PROVE  (v \o u)[i] = IF i <= Len(s) THEN s[i]
                            ELSE IF i <= Len(s) + Len(t) THEN t[i - Len(s)]
                            ELSE u[i - Len(s) - Len(t)]
  <2>1. CASE i <= Len(v)
    <3>1. i \in 1 .. Len(v)
      BY <1>1, <1>2, <2>1
    <3> QED BY <1>1, <1>2, <2>1, <3>1
  <2>2. CASE ~(i <= Len(v))
    BY <1>1, <1>2, <2>2
  <2> QED BY <2>1, <2>2
<1>4. Len(v \o u) = Len(s) + Len(t) + Len(u)
  BY <1>1, <1>2
<1> QED BY <1>3, <1>4 DEF v

Selecting == RTypeOK /\ SelInv /\ kind = "selection" /\ markdown /\ attempt = 1

LEMMA SelectionFacts ==
    ASSUME Selecting
    PROVE  /\ Leading \in Seq(Rems) /\ Chosen \in Seq(Rems) /\ Trailing \in Seq(Rems)
           /\ created \in Seq(Rems)
           /\ Len(Leading) = Ahead /\ Len(Chosen) = OldCount
           /\ Selected \in Seq(Rems) /\ InPlace \in Seq(Rems) /\ Replaced \in Seq(Rems)
           /\ Replacing!Parent \in Places /\ Replacing!Backup(1) \in Places
           /\ Replacing!Backup(1) \in Rems /\ Replacing!Parent # Replacing!Backup(1)
           /\ <<>> \in Seq(Rems) /\ Els(created) \subseteq Els(Replacing!New(1))
<1>1. 1 \in 1 .. Executions
  BY DEF Selecting, RTypeOK
<1>2. /\ Leading \in Seq(Rems) /\ Chosen \in Seq(Rems) /\ Trailing \in Seq(Rems)
      /\ created \in Seq(Rems) /\ Els(created) \subseteq Els(Replacing!New(1))
      /\ Len(Leading) = Ahead /\ Len(Chosen) = OldCount
  BY <1>1, RootsAreSeqs DEF Leading, Chosen, Trailing, Selecting, SelInv
<1>3. Selected \in Seq(Rems) /\ InPlace \in Seq(Rems) /\ Replaced \in Seq(Rems)
  BY <1>2 DEF Selected, InPlace, Replaced, Leading, Chosen, Trailing
<1> QED BY <1>1, <1>2, <1>3, BackupsApart

LEMMA WithoutCreated ==
    ASSUME Selecting
    PROVE  Replacing!Without(Selected \o created, Els(created)) = Leading \o (Chosen \o Trailing)
<1> DEFINE W(s) == Replacing!Without(s, Els(created))
<1>0. Leading \in Seq(Rems) /\ Chosen \in Seq(Rems) /\ Trailing \in Seq(Rems)
  BY SelectionFacts
<1>1. /\ Els(Leading) \cap Els(created) = {} /\ Els(Chosen) \cap Els(created) = {}
      /\ Els(Trailing) \cap Els(created) = {}
  BY SelectionFacts, NewsApart DEF Leading, Chosen, Trailing
<1>2. W(Leading) = Leading /\ W(Chosen) = Chosen /\ W(Trailing) = Trailing
  BY <1>1, SelectionFacts, WithoutOthers
<1>3. W(created) = <<>>
  BY SelectionFacts, WithoutAll
<1>4. W((Leading \o Chosen) \o Trailing) = (W(Leading) \o W(Chosen)) \o W(Trailing)
  <2>1. \A s, t, u \in Seq(Rems) : W((s \o t) \o u) = (W(s) \o W(t)) \o W(u)
    BY WithoutThree
  <2> HIDE DEF W
  <2> QED BY <1>0, <2>1, Zenon
<1>5. \A s, t \in Seq(Rems) : W(s \o t) = W(s) \o W(t)
  BY WithoutTwo
<1>6. /\ (Leading \o Chosen) \o Trailing = Leading \o (Chosen \o Trailing)
      /\ (Leading \o Chosen) \o Trailing \in Seq(Rems)
  <2>1. (Leading \o Chosen) \o Trailing = Leading \o (Chosen \o Trailing)
    BY <1>0, Associative, Zenon
  <2> QED BY <2>1, SelectionFacts
<1>7. Selected = (Leading \o Chosen) \o Trailing
  BY DEF Selected, Leading, Chosen, Trailing
<1>8. \A s \in Seq(Rems) : s \o <<>> = s
  OBVIOUS
<1> HIDE DEF W
<1>9. W(Selected \o created) = W(Selected) \o W(created)
  BY <1>5, SelectionFacts, Zenon
<1>10. W(Selected) = Selected
  BY <1>2, <1>4, <1>7
<1> QED BY <1>3, <1>6, <1>7, <1>8, <1>9, <1>10, SelectionFacts DEF W

LEMMA WithoutSelected ==
    ASSUME Selecting
    PROVE  Replacing!Without(Append(InPlace, Replacing!Backup(1)), Els(Chosen))
             = Append(Replaced, Replacing!Backup(1))
<1> DEFINE b == Replacing!Backup(1)
           W(s) == Replacing!Without(s, Els(Chosen))
<1>1. /\ Els(Leading) \cap Els(Chosen) = {} /\ Els(Trailing) \cap Els(Chosen) = {}
      /\ Els(created) \cap Els(Chosen) = {} /\ b \notin Els(Chosen)
  BY SelectionFacts, TargetsApart, NewsApart DEF Leading, Chosen, Trailing
<1>2. W(Leading) = Leading /\ W(Trailing) = Trailing /\ W(created) = created
  BY <1>1, SelectionFacts, WithoutOthers
<1>3. W(Chosen) = <<>>
  BY SelectionFacts, WithoutAll
<1>4. \A s, t \in Seq(Rems) : W(s \o t) = W(s) \o W(t)
  BY WithoutTwo
<1>5. /\ InPlace = (Leading \o created) \o (Chosen \o Trailing)
      /\ Chosen \o Trailing \in Seq(Rems) /\ Leading \o created \in Seq(Rems)
  BY SelectionFacts DEF InPlace, Leading, Chosen, Trailing
<1>6. \A s \in Seq(Rems) : <<>> \o s = s
  OBVIOUS
<1>7. W(Append(InPlace, b)) = Append(W(InPlace), b)
  BY <1>1, SelectionFacts, WithoutOneMore
<1> HIDE DEF W, b
<1>8. W(Chosen \o Trailing) = Trailing
  <2>1. W(Chosen \o Trailing) = W(Chosen) \o W(Trailing)
    BY <1>4, SelectionFacts, Zenon
  <2> QED BY <1>2, <1>3, <1>6, <2>1, SelectionFacts
<1>9. W(Leading \o created) = Leading \o created
  <2>1. W(Leading \o created) = W(Leading) \o W(created)
    BY <1>4, SelectionFacts, Zenon
  <2> QED BY <1>2, <2>1
<1>10. W(InPlace) = (Leading \o created) \o Trailing
  <2>1. W((Leading \o created) \o (Chosen \o Trailing))
          = W(Leading \o created) \o W(Chosen \o Trailing)
    BY <1>4, <1>5, Zenon
  <2> QED BY <1>5, <1>8, <1>9, <2>1
<1> QED BY <1>7, <1>10 DEF W, b, Replaced, Leading, Trailing

LEMMA WithoutBackup ==
    ASSUME Selecting
    PROVE  Replacing!Without(Append(Replaced, Replacing!Backup(1)), {Replacing!Backup(1)})
             = Replaced
<1> DEFINE b == Replacing!Backup(1)
<1>1. Els(Replaced) \cap {b} = {}
  <2>1. b \notin Els(Leading) /\ b \notin Els(created) /\ b \notin Els(Trailing)
    <3>1. b[1] = "backup"
      BY DEF Replacing!Backup
    <3> QED BY <3>1, SelectionFacts, Tags DEF Leading, Trailing
  <2>2. Els((Leading \o created) \o Trailing)
          = (Els(Leading) \cup Els(created)) \cup Els(Trailing)
    <3>1. Leading \o created \in Seq(Rems)
      BY SelectionFacts
    <3>2. Els(Leading \o created) = Els(Leading) \cup Els(created)
      BY SelectionFacts, OfTwo, Zenon
    <3>3. Els((Leading \o created) \o Trailing) = Els(Leading \o created) \cup Els(Trailing)
      BY <3>1, SelectionFacts, OfTwo, Zenon
    <3> QED BY <3>2, <3>3
  <2>3. Replaced = (Leading \o created) \o Trailing
    BY DEF Replaced, Leading, Trailing
  <2> QED BY <2>1, <2>2, <2>3
<1>2. Replacing!Without(Append(Replaced, b), {b}) = Replacing!Without(Replaced, {b})
  BY SelectionFacts, WithoutOneMore
<1>3. Replacing!Without(Replaced, {b}) = Replaced
  BY <1>1, SelectionFacts, WithoutOthers
<1> QED BY <1>2, <1>3

LEMMA FirstOfSome ==
    ASSUME NEW s \in Seq(Rems), NEW p \in Nat, NEW n \in Nat \ {0}, p + n <= Len(s)
    PROVE  SubSeq(s, p + 1, p + n)[1] = s[p + 1]
  OBVIOUS

(* The selection is where it was, and nowhere else. *)
LEMMA SelectionFound ==
    ASSUME Selecting, at = "read", Chosen # <<>>,
           NEW c \in DOMAIN kids, NEW p \in 0 .. (Len(kids[c]) - Len(Chosen)),
           SubSeq(kids[c], p + 1, p + Len(Chosen)) = Chosen
    PROVE  c = Replacing!Parent /\ p = Ahead
<1>1. kids = [d \in Places |-> IF d = Replacing!Parent THEN Selected ELSE <<>>]
  BY DEF Selecting, SelInv
<1>2. OldCount \in Nat /\ Len(Chosen) = OldCount /\ OldCount >= 1 /\ Ahead \in Nat /\ Behind \in Nat
      /\ Len(Leading) = Ahead /\ Len(Trailing) = Behind
  <2>1. Len(Trailing) = Behind
    BY RootsAreSeqs DEF Trailing
  <2>2. Len(Leading) = Ahead /\ Len(Chosen) = OldCount /\ Chosen \in Seq(Rems)
    BY SelectionFacts
  <2>3. OldCount \in Nat /\ Ahead \in Nat /\ Behind \in Nat
    BY ReplaceCounts DEF Replacing!Counts
  <2>4. OldCount # 0
    BY <2>2
  <2> QED BY <2>1, <2>2, <2>3, <2>4
<1>3. c = Replacing!Parent
  <2>1. SUFFICES ASSUME c # Replacing!Parent PROVE FALSE
    OBVIOUS
  <2>2. kids[c] = <<>>
    BY <1>1, <2>1
  <2>3. Len(kids[c]) = 0
    BY <2>2
  <2> QED BY <1>2, <2>3
<1>4. kids[c] = Selected /\ Selected = (Leading \o Chosen) \o Trailing
  BY <1>1, <1>3, SelectionFacts DEF Selected, Leading, Chosen, Trailing
<1>5. /\ Len(Selected) = Ahead + OldCount + Behind
      /\ \A i \in 1 .. Len(Selected) :
           Selected[i] = IF i <= Ahead THEN Leading[i]
                         ELSE IF i <= Ahead + OldCount THEN Chosen[i - Ahead]
                         ELSE Trailing[i - Ahead - OldCount]
  <2>1. Leading \in Seq(Rems) /\ Chosen \in Seq(Rems) /\ Trailing \in Seq(Rems)
    BY SelectionFacts
  <2>2. \A s, t, u \in Seq(Rems) :
          /\ Len((s \o t) \o u) = Len(s) + Len(t) + Len(u)
          /\ \A i \in 1 .. Len((s \o t) \o u) :
               ((s \o t) \o u)[i] = IF i <= Len(s) THEN s[i]
                                    ELSE IF i <= Len(s) + Len(t) THEN t[i - Len(s)]
                                    ELSE u[i - Len(s) - Len(t)]
    BY ThreeIndexed
  <2>3. /\ Len((Leading \o Chosen) \o Trailing) = Len(Leading) + Len(Chosen) + Len(Trailing)
        /\ \A i \in 1 .. Len((Leading \o Chosen) \o Trailing) :
             ((Leading \o Chosen) \o Trailing)[i] = IF i <= Len(Leading) THEN Leading[i]
                                  ELSE IF i <= Len(Leading) + Len(Chosen)
                                       THEN Chosen[i - Len(Leading)]
                                  ELSE Trailing[i - Len(Leading) - Len(Chosen)]
    BY <2>1, <2>2, Zenon
  <2> QED BY <1>2, <1>4, <2>3
<1>6. p + 1 \in 1 .. Len(Selected) /\ Selected[p + 1] = Chosen[1] /\ p \in Nat
  <2>a. Len(Selected) \in Nat /\ p \in 0 .. (Len(Selected) - OldCount) /\ OldCount \in Nat \ {0}
    <3>1. Len(kids[c]) = Len(Selected) /\ Len(Chosen) = OldCount /\ OldCount \in Nat /\ OldCount >= 1
      BY <1>2, <1>4
    <3>2. Len(Selected) \in Nat
      BY SelectionFacts
    <3>3. p \in 0 .. (Len(Selected) - OldCount)
      BY <3>1
    <3> QED BY <3>1, <3>2, <3>3
  <2>b. SubSeq(Selected, p + 1, p + OldCount) = Chosen
    <3>1. kids[c] = Selected /\ Len(Chosen) = OldCount
      BY <1>2, <1>4
    <3> QED BY <3>1
  <2>1. /\ p \in Nat /\ p + OldCount <= Len(Selected) /\ OldCount \in Nat \ {0}
        /\ SubSeq(Selected, p + 1, p + OldCount) = Chosen
    <3>1. p \in Nat /\ p + OldCount <= Len(Selected)
      BY <2>a
    <3> QED BY <2>a, <2>b, <3>1
  <2>2. SubSeq(Selected, p + 1, p + OldCount)[1] = Selected[p + 1]
    BY <2>1, SelectionFacts, FirstOfSome
  <2> QED BY <2>1, <2>2
<1>7. /\ \A i \in 1 .. Ahead : Leading[i] = <<"ahead", i>>
      /\ \A i \in 1 .. OldCount : Chosen[i] = <<"old", i>>
      /\ \A i \in 1 .. Behind : Trailing[i] = <<"behind", i>>
  BY DEF Leading, Chosen, Trailing, Replacing!Before, Replacing!Targets, Replacing!After
<1>8. Selected[p + 1] = <<"old", 1>>
  BY <1>2, <1>6, <1>7
<1>9. ~(p + 1 <= Ahead)
  BY <1>2, <1>5, <1>6, <1>7, <1>8
<1>10. p + 1 <= Ahead + OldCount
  BY <1>2, <1>5, <1>6, <1>7, <1>8
<1>11. p + 1 - Ahead = 1
  BY <1>2, <1>5, <1>6, <1>7, <1>8, <1>9, <1>10
<1> QED BY <1>2, <1>3, <1>6, <1>11

LEMMA SelectionFrame ==
    ASSUME Selecting, UNCHANGED <<kind, markdown, attempt, created>>, at' # "read",
           at' \in {"create", "assert", "place", "backup", "stow", "drop", "ok"} =>
             /\ kids' \in [Places -> Seq(Rems)]
             /\ old' = Chosen /\ home' = Replacing!Parent /\ pos' = Ahead,
           at' = "create" => kids'[Replacing!Parent] = Selected,
           at' \in {"assert", "place"} => kids'[Replacing!Parent] = Selected \o created,
           at' = "backup" => kids'[Replacing!Parent] = InPlace,
           at' = "stow" => kids'[Replacing!Parent] = Append(InPlace, Replacing!Backup(1)),
           at' = "drop" => kids'[Replacing!Parent] = Append(Replaced, Replacing!Backup(1)),
           at' = "ok" => kids'[Replacing!Parent] = Replaced
    PROVE  SelInv'
<1>1. Selected' = Selected /\ InPlace' = InPlace /\ Replaced' = Replaced
  BY DEF Selected, InPlace, Replaced, Replacing!Before, Replacing!Targets, Replacing!After
<1>2. Replacing!Parent' = Replacing!Parent /\ Replacing!Backup(1)' = Replacing!Backup(1)
      /\ Replacing!Targets' = Replacing!Targets
  BY DEF Replacing!Parent, Replacing!Backup, Replacing!Targets
<1>3. /\ created' \in Seq(Rems) /\ Els(created)' = Els(created)
      /\ Els(Replacing!New(1))' = Els(Replacing!New(1))
      /\ Els(created) \subseteq Els(Replacing!New(1))
  BY SelectionFacts DEF Els, Replacing!New, Replacing!ToSet
<1> QED BY <1>1, <1>2, <1>3 DEF SelInv, Chosen

LEMMA SelectionRead ==
    ASSUME Selecting, Replacing!Read
    PROVE  SelInv'
<1>1. /\ at = "read" /\ UNCHANGED <<kind, markdown, attempt, earlier, kids, created, then>>
      /\ kind = "selection"
  BY DEF Selecting, Replacing!Read, Replacing!job
<1>2. CASE at' = "fatal"
  BY <1>1, <1>2, SelectionFrame
<1>3. CASE at' # "fatal"
  <2>a. PICK c \in DOMAIN kids : \E p \in 0 .. (Len(kids[c]) - Len(Chosen)) :
          /\ Chosen # <<>> /\ SubSeq(kids[c], p + 1, p + Len(Chosen)) = Chosen
          /\ old' = Chosen /\ home' = c /\ pos' = p /\ at' = "create"
    BY <1>1, <1>3 DEF Replacing!Read, Replacing!ReadChildren, Replacing!ReadSelection, Chosen
  <2>1. PICK p \in 0 .. (Len(kids[c]) - Len(Chosen)) :
          /\ Chosen # <<>> /\ SubSeq(kids[c], p + 1, p + Len(Chosen)) = Chosen
          /\ old' = Chosen /\ home' = c /\ pos' = p /\ at' = "create"
    BY <2>a
  <2>2. c = Replacing!Parent /\ p = Ahead
    BY <1>1, <2>1, SelectionFound
  <2>3. kids = [d \in Places |-> IF d = Replacing!Parent THEN Selected ELSE <<>>]
    BY <1>1 DEF Selecting, SelInv
  <2>4. kids' \in [Places -> Seq(Rems)] /\ kids'[Replacing!Parent] = Selected
    BY <1>1, <2>3, SelectionFacts
  <2> QED BY <1>1, <2>1, <2>2, <2>4, SelectionFrame
<1> QED BY <1>2, <1>3

LEMMA SelectionCreate ==
    ASSUME Selecting, Replacing!CreateTree
    PROVE  SelInv'
<1>1. /\ at = "create" /\ kids \in [Places -> Seq(Rems)] /\ home = Replacing!Parent
      /\ old = Chosen /\ pos = Ahead /\ kids[Replacing!Parent] = Selected /\ kind = "selection"
      /\ UNCHANGED <<kind, markdown, attempt, earlier, old, home, pos, then>> /\ attempt = 1
  BY DEF Selecting, SelInv, Replacing!CreateTree, Replacing!job, Replacing!found, Chosen
<1>2. PICK X \in SUBSET Els(Replacing!New(1)) :
        /\ kids' = [kids EXCEPT ![home] = @ \o Replacing!Only(Replacing!New(1), X)]
        /\ \/ /\ created' = Replacing!Only(Replacing!New(1), X)
              /\ at' \in Replacing!Imported(X)
           \/ at' = "fatal" /\ UNCHANGED created
  BY <1>1 DEF Replacing!CreateTree, Els
<1> DEFINE t == Replacing!Only(Replacing!New(1), X)
<1>3. t \in Seq(Rems) /\ Els(t) \subseteq Els(Replacing!New(1))
  <2>1. 1 \in 1 .. Executions
    BY DEF Selecting, RTypeOK
  <2>2. Replacing!New(1) \in Seq(Rems)
    BY <2>1, RootsAreSeqs
  <2> QED BY <2>2, OnlyIs
<1>4. at' \in {"assert", "fatal"} /\ created' \in {t, created} /\ (at' = "assert" => created' = t)
  BY <1>1, <1>2 DEF Replacing!Imported
<1> HIDE DEF t
<1>5. kids' = [kids EXCEPT ![Replacing!Parent] = @ \o t]
  BY <1>1, <1>2 DEF t
<1>6. kids' \in [Places -> Seq(Rems)] /\ kids'[Replacing!Parent] = Selected \o t
  BY <1>1, <1>3, <1>5, SelectionFacts, AppendedIs
<1>7. created' \in Seq(Rems) /\ Els(created') \subseteq Els(Replacing!New(1))
  BY <1>3, <1>4, SelectionFacts
<1>8. /\ Selected' = Selected /\ Replacing!Parent' = Replacing!Parent
      /\ Replacing!Targets' = Replacing!Targets
      /\ Els(Replacing!New(1))' = Els(Replacing!New(1)) /\ Els(created)' = Els(created')
  BY DEF Selected, Els, Replacing!ToSet, Replacing!New, Replacing!Before, Replacing!Targets,
         Replacing!After, Replacing!Parent
<1> QED BY <1>1, <1>4, <1>6, <1>7, <1>8 DEF SelInv, Chosen

LEMMA SelectionAssert ==
    ASSUME Selecting, Replacing!CheckAssertions
    PROVE  SelInv'
<1>1. /\ at = "assert" /\ kids \in [Places -> Seq(Rems)] /\ home = Replacing!Parent
      /\ old = Chosen /\ pos = Ahead /\ kids[Replacing!Parent] = Selected \o created
      /\ at' \in {"place", "undo"}
      /\ UNCHANGED <<kids, kind, markdown, attempt, earlier, old, home, pos, created>>
  BY DEF Selecting, SelInv, Replacing!CheckAssertions, Replacing!Asserted, Replacing!job,
         Replacing!found, Chosen
<1> QED BY <1>1, SelectionFrame

LEMMA SelectionPlace ==
    ASSUME Selecting, Replacing!Place
    PROVE  SelInv'
<1>1. /\ at = "place" /\ kids \in [Places -> Seq(Rems)] /\ home = Replacing!Parent
      /\ old = Chosen /\ pos = Ahead /\ kids[Replacing!Parent] = Selected \o created
      /\ kind = "selection"
      /\ UNCHANGED <<kind, markdown, attempt, earlier, old, home, pos, created>>
  BY DEF Selecting, SelInv, Replacing!Place, Replacing!job, Replacing!found, Chosen
<1>2. CASE kids' = Replacing!Moved(created, home, pos) /\ at' = "backup"
  <2>1. kids' = Replacing!Moved(created, Replacing!Parent, Len(Leading))
    BY <1>1, <1>2, SelectionFacts
  <2>2. Replacing!Without(kids[Replacing!Parent], Els(created)) = Leading \o (Chosen \o Trailing)
    BY <1>1, WithoutCreated
  <2>3. Leading \in Seq(Rems) /\ Chosen \o Trailing \in Seq(Rems)
        /\ created \in Seq(Rems) /\ Replacing!Parent \in Places
    BY SelectionFacts
  <2>4. kids' = [d \in Places |->
                   IF d = Replacing!Parent THEN (Leading \o created) \o (Chosen \o Trailing)
                   ELSE Replacing!Without(kids[d], Els(created))]
    <3>1. \A u, v \in Seq(Rems) :
            Replacing!Without(kids[Replacing!Parent], Els(created)) = u \o v
              => Replacing!Moved(created, Replacing!Parent, Len(u))
                   = [d \in Places |-> IF d = Replacing!Parent THEN (u \o created) \o v
                                       ELSE Replacing!Without(kids[d], Els(created))]
      BY <1>1, <2>3, MovedIs
    <3> DEFINE rest == Chosen \o Trailing
    <3>2. /\ rest \in Seq(Rems)
          /\ Replacing!Without(kids[Replacing!Parent], Els(created)) = Leading \o rest
      BY <2>2, <2>3
    <3> HIDE DEF rest
    <3>3. Replacing!Moved(created, Replacing!Parent, Len(Leading))
            = [d \in Places |-> IF d = Replacing!Parent THEN (Leading \o created) \o rest
                                ELSE Replacing!Without(kids[d], Els(created))]
      BY <2>3, <3>1, <3>2, Zenon
    <3> QED BY <2>1, <3>3 DEF rest
  <2>5. \A d \in Places : Replacing!Without(kids[d], Els(created)) \in Seq(Rems)
    BY <1>1, WithoutIsSeq
  <2>6. kids' \in [Places -> Seq(Rems)] /\ kids'[Replacing!Parent] = InPlace
    BY <2>3, <2>4, <2>5, SelectionFacts DEF InPlace, Leading, Chosen, Trailing
  <2> QED BY <1>1, <1>2, <2>6, SelectionFrame
<1>3. CASE at' = "undo"
  BY <1>1, <1>3, SelectionFrame
<1> QED BY <1>1, <1>2, <1>3 DEF Replacing!Place, Replacing!MoveRems, Replacing!Placed

LEMMA SelectionBackup ==
    ASSUME Selecting, Replacing!CreateBackup
    PROVE  SelInv'
<1>1. /\ at = "backup" /\ kids \in [Places -> Seq(Rems)] /\ home = Replacing!Parent
      /\ old = Chosen /\ pos = Ahead /\ kids[Replacing!Parent] = InPlace /\ attempt = 1
      /\ UNCHANGED <<kind, markdown, attempt, earlier, old, home, pos, created>>
  BY DEF Selecting, SelInv, Replacing!CreateBackup, Replacing!job, Replacing!found, Chosen
<1>2. CASE kids' = [kids EXCEPT ![home] = Append(@, Replacing!Backup(attempt))] /\ at' = "stow"
  <2>1. Append(InPlace, Replacing!Backup(1)) \in Seq(Rems)
    BY SelectionFacts
  <2>2. kids' \in [Places -> Seq(Rems)]
        /\ kids'[Replacing!Parent] = Append(InPlace, Replacing!Backup(1))
    BY <1>1, <1>2, <2>1, SelectionFacts
  <2> QED BY <1>1, <1>2, <2>2, SelectionFrame
<1>3. CASE at' = "undo"
  BY <1>1, <1>3, SelectionFrame
<1> QED BY <1>2, <1>3 DEF Replacing!CreateBackup

LEMMA SelectionStow ==
    ASSUME Selecting, Replacing!Stow
    PROVE  SelInv'
<1>1. /\ at = "stow" /\ kids \in [Places -> Seq(Rems)] /\ home = Replacing!Parent
      /\ old = Chosen /\ pos = Ahead /\ attempt = 1
      /\ kids[Replacing!Parent] = Append(InPlace, Replacing!Backup(1))
      /\ UNCHANGED <<kind, markdown, attempt, earlier, old, home, pos, created>>
  BY DEF Selecting, SelInv, Replacing!Stow, Replacing!job, Replacing!found, Chosen
<1>2. CASE kids' = Replacing!Moved(old, Replacing!Backup(attempt), 0) /\ at' = "drop"
  <2>1. /\ kids' \in [Places -> Seq(Rems)]
        /\ kids'[Replacing!Parent] = Replacing!Without(kids[Replacing!Parent], Els(Chosen))
    BY <1>1, <1>2, SelectionFacts, MovedToFront
  <2>2. kids'[Replacing!Parent] = Append(Replaced, Replacing!Backup(1))
    BY <1>1, <2>1, WithoutSelected
  <2> QED BY <1>1, <1>2, <2>1, <2>2, SelectionFrame
<1>3. CASE at' = "undo"
  BY <1>1, <1>3, SelectionFrame
<1> QED BY <1>2, <1>3 DEF Replacing!Stow, Replacing!MoveRems

LEMMA SelectionDrop ==
    ASSUME Selecting, Replacing!DropBackup
    PROVE  SelInv'
<1>1. /\ at = "drop" /\ kids \in [Places -> Seq(Rems)] /\ home = Replacing!Parent
      /\ old = Chosen /\ pos = Ahead /\ attempt = 1
      /\ kids[Replacing!Parent] = Append(Replaced, Replacing!Backup(1))
      /\ UNCHANGED <<kind, markdown, attempt, earlier, old, home, pos, created>>
  BY DEF Selecting, SelInv, Replacing!DropBackup, Replacing!job, Replacing!found, Chosen
<1>2. CASE kids' = Replacing!Removed({Replacing!Backup(attempt)}) /\ at' = "ok"
  <2>1. /\ kids' \in [Places -> Seq(Rems)]
        /\ kids'[Replacing!Parent]
             = Replacing!Without(kids[Replacing!Parent], {Replacing!Backup(1)})
    BY <1>1, <1>2, SelectionFacts, RemovedIs
  <2>2. kids'[Replacing!Parent] = Replaced
    BY <1>1, <2>1, WithoutBackup
  <2> QED BY <1>1, <1>2, <2>1, <2>2, SelectionFrame
<1>3. CASE at' = "undo"
  BY <1>1, <1>3, SelectionFrame
<1> QED BY <1>2, <1>3 DEF Replacing!DropBackup, Replacing!RemoveRem

(* What goes wrong ends in a failure. *)
LEMMA SelectionEnds ==
    ASSUME Selecting,
           Replacing!RollbackCreated \/ Replacing!Restore \/ Replacing!Tidy \/ Replacing!PutBack
    PROVE  SelInv'
<1>1. /\ at' \in Thens \cup {"tidy", "tidyIfEmpty"}
      /\ UNCHANGED <<kind, markdown, attempt, created>>
  BY DEF Selecting, RTypeOK, Thens, Replacing!RollbackCreated, Replacing!Restore,
         Replacing!Tidy, Replacing!PutBack, Replacing!MoveRems, Replacing!RemoveRem, Replacing!job
<1> QED BY <1>1, SelectionFrame DEF Thens

-----------------------------------------------------------------------------
(* Both, and the theorem. *)

ReplaceInv == RTypeOK /\ ChildrenInv /\ SelInv

LEMMA ChildrenStep ==
    ASSUME Children, Replacing!Next
    PROVE  ChildrenInv'
<1>1. ~Replacing!NoMarkdown
  BY DEF Children, Replacing!NoMarkdown
<1> QED
  BY <1>1, ReadStep, ImportStep, AroundStep, AssertStep, RollbackStep, NothingStep, BackupStep,
     StowStep, BackStep, TidyStep, KeepStep, DropStep, ReloadStep DEF Replacing!Next

LEMMA SelectionStep ==
    ASSUME Selecting, Replacing!Next, attempt' = attempt
    PROVE  SelInv'
<1>1. ~Replacing!NoMarkdown /\ ~Replacing!NothingToReplace /\ ~Replacing!KeepBackup
  BY DEF Selecting, Replacing!NoMarkdown, Replacing!NothingToReplace, Replacing!KeepBackup
<1>2. ~Replacing!Reload
  BY DEF Selecting, Replacing!Reload
<1> QED
  BY <1>1, <1>2, SelectionRead, SelectionCreate, SelectionAssert, SelectionPlace,
     SelectionBackup, SelectionStow, SelectionDrop, SelectionEnds DEF Replacing!Next

LEMMA JobStep ==
    ASSUME RTypeOK, Replacing!Next
    PROVE  /\ RTypeOK' /\ UNCHANGED <<kind, markdown>>
           /\ attempt' = attempt \/ attempt' = attempt + 1
<1>1. CASE Replacing!Reload
  <2>1. Executions \in Nat
    BY ReplaceCounts DEF Replacing!Counts
  <2> QED BY <1>1, <2>1 DEF Replacing!Reload, RTypeOK, Thens
<1>2. CASE ~Replacing!Reload
  <2>1. UNCHANGED <<kind, markdown, attempt>>
    BY <1>2 DEF Replacing!Next, Replacing!Read, Replacing!NoMarkdown, Replacing!CreateTree,
       Replacing!Place, Replacing!CheckAssertions, Replacing!RollbackCreated,
       Replacing!NothingToReplace, Replacing!CreateBackup, Replacing!Stow, Replacing!Restore,
       Replacing!Tidy, Replacing!KeepBackup, Replacing!DropBackup, Replacing!PutBack,
       Replacing!job
  <2>2. then' = then \/ then' \in {"fatal", "restore", "putBack"}
    BY <1>2 DEF Replacing!Next, Replacing!Read, Replacing!NoMarkdown, Replacing!CreateTree,
       Replacing!Place, Replacing!CheckAssertions, Replacing!RollbackCreated,
       Replacing!NothingToReplace, Replacing!CreateBackup, Replacing!Stow, Replacing!Restore,
       Replacing!Tidy, Replacing!KeepBackup, Replacing!DropBackup, Replacing!PutBack
  <2> QED BY <2>1, <2>2 DEF RTypeOK, Thens
<1> QED BY <1>1, <1>2

LEMMA ReplaceSteps == ReplaceInv /\ Replacing!Next => ReplaceInv'
<1>1. SUFFICES ASSUME ReplaceInv, Replacing!Next PROVE ReplaceInv'
  OBVIOUS
<1>2. /\ RTypeOK' /\ UNCHANGED <<kind, markdown>> /\ attempt \in 1 .. Executions
      /\ attempt' = attempt \/ attempt' = attempt + 1
  BY <1>1, JobStep DEF ReplaceInv, RTypeOK
<1>3. ChildrenInv'
  <2>1. CASE kind = "children" /\ markdown
    BY <1>1, <2>1, ChildrenStep DEF ReplaceInv, Children
  <2>2. CASE ~(kind = "children" /\ markdown)
    BY <1>2, <2>2 DEF ChildrenInv
  <2> QED BY <2>1, <2>2
<1>4. SelInv'
  <2>1. CASE kind = "selection" /\ markdown /\ attempt' = 1
    <3>1. attempt = 1
      BY <1>2, <2>1
    <3> QED BY <1>1, <2>1, <3>1, SelectionStep DEF ReplaceInv, Selecting
  <2>2. CASE ~(kind = "selection" /\ markdown /\ attempt' = 1)
    BY <1>2, <2>2 DEF SelInv
  <2> QED BY <2>1, <2>2
<1> QED BY <1>2, <1>3, <1>4 DEF ReplaceInv

LEMMA ReplaceStays == ReplaceInv /\ UNCHANGED replaceVars => ReplaceInv'
<1>1. SUFFICES ASSUME ReplaceInv, UNCHANGED replaceVars PROVE ReplaceInv'
  OBVIOUS
<1>2. UNCHANGED <<kids, kind, markdown, at, attempt, earlier, old, home, pos, created, then>>
  BY <1>1 DEF replaceVars
<1>3. Seen' = Seen
  BY <1>2 DEF Seen, Replacing!Content
<1>4. \A r : Replacing!Exists(r)' <=> Replacing!Exists(r)
  BY <1>2 DEF Replacing!Exists
<1>5. EarlierKept' <=> EarlierKept
  BY <1>2, <1>4 DEF EarlierKept, Replacing!Kept
<1>6. \A a \in 1 .. Executions : Untouched(a)' <=> Untouched(a)
  BY <1>2, <1>4 DEF Untouched
<1>7. (InStep' <=> InStep) /\ (Made' <=> Made)
  BY <1>2, <1>3 DEF InStep, Made, EarlierRems, Els, Replacing!ToSet, Replacing!Targets,
                    Replacing!New
<1>8. ChildrenInv'
  BY <1>1, <1>2, <1>5, <1>6, <1>7 DEF ReplaceInv, ChildrenInv
<1>9. SelInv'
  BY <1>1, <1>2 DEF ReplaceInv, SelInv, InPlace, Replaced
<1>10. RTypeOK'
  BY <1>1, <1>2 DEF ReplaceInv, RTypeOK
<1> QED BY <1>8, <1>9, <1>10 DEF ReplaceInv

LEMMA ReplaceStarts == Replacing!Init => ReplaceInv
<1>1. SUFFICES ASSUME Replacing!Init PROVE ReplaceInv
  OBVIOUS
<1>2. /\ kind \in {"children", "selection"} /\ markdown \in BOOLEAN
      /\ at = "read" /\ attempt = 1 /\ earlier = {} /\ then = "none"
      /\ old = <<>> /\ home = Replacing!Parent /\ pos = 0 /\ created = <<>>
      /\ kids = [c \in Places |->
                   IF c # Replacing!Parent THEN <<>>
                   ELSE IF kind = "children" THEN Chosen ELSE Leading \o Chosen \o Trailing]
  BY <1>1 DEF Replacing!Init, Places, Chosen, Leading, Trailing
<1>3. RTypeOK
  <2>1. 1 \in 1 .. Executions
    BY ReplaceCounts DEF Replacing!Counts
  <2> QED BY <1>2, <2>1 DEF RTypeOK, Thens
<1>4. SelInv
  <2>1. ASSUME kind = "selection"
        PROVE  kids = [c \in Places |-> IF c = Replacing!Parent THEN Selected ELSE <<>>]
    BY <1>2, <2>1 DEF Selected, Chosen, Leading, Trailing
  <2>2. created \in Seq(Rems) /\ Els(created) = {}
    BY <1>2 DEF Els, Replacing!ToSet
  <2> QED BY <1>2, <2>1, <2>2 DEF SelInv
<1>5. ASSUME kind = "children" PROVE ChildrenInv
  <2>1. /\ kids \in [Places -> Seq(Rems)] /\ kids[Replacing!Parent] = Chosen
        /\ \A c \in Places : c # Replacing!Parent => kids[c] = <<>>
    <3>1. Chosen \in Seq(Rems) /\ <<>> \in Seq(Rems) /\ Replacing!Parent \in Places
      BY RootsAreSeqs, BackupsApart DEF Chosen
    <3> QED BY <1>2, <1>5, <3>1
  <2>2. Els(<<>>) = {}
    BY DEF Els, Replacing!ToSet
  <2>3. \A r : Replacing!Exists(r) <=> r \in Els(Chosen)
    <3>1. \A c \in Places : Els(kids[c]) = IF c = Replacing!Parent THEN Els(Chosen) ELSE {}
      BY <2>1, <2>2
    <3> QED BY <2>1, <3>1, ExistsIs, BackupsApart
  <2>4. \A a \in 1 .. Executions : Untouched(a)
    <3>1. \A a \in 1 .. Executions : kids[Replacing!Backup(a)] = <<>>
      BY <2>1, BackupsApart
    <3>2. \A a : \A r \in Els(Replacing!New(a)) : ~Replacing!Exists(r)
      BY <2>3, NewsApart DEF Chosen
    <3> QED BY <3>1, <3>2 DEF Untouched
  <2>5. EarlierKept
    <3>1. Replacing!Kept(Replacing!Targets)
      BY <2>3 DEF Replacing!Kept, Chosen, Els
    <3> QED BY <3>1 DEF EarlierKept
  <2>6. InStep
    BY <1>2 DEF InStep
  <2>7. kids[Replacing!Backup(attempt)] = <<>>
    BY <1>2, <1>3, <2>4 DEF Untouched, RTypeOK
  <2>8. old \in Seq(Rems) /\ Els(old) = {} /\ Made
    BY <1>2, <2>2 DEF Made
  <2>9. Els(kids[Replacing!Backup(attempt)]) = {}
    BY <2>2, <2>7
  <2> QED BY <1>2, <2>1, <2>4, <2>5, <2>6, <2>8, <2>9 DEF ChildrenInv
<1>6. ChildrenInv
  BY <1>5 DEF ChildrenInv
<1> QED BY <1>3, <1>4, <1>6 DEF ReplaceInv

LEMMA ReplaceHolds == ReplaceInv => Replacing!SuccessReplaces /\ Replacing!ChildrenNotLost
<1>1. SUFFICES ASSUME ReplaceInv PROVE Replacing!SuccessReplaces /\ Replacing!ChildrenNotLost
  OBVIOUS
<1>2. Replacing!SuccessReplaces
  <2>1. SUFFICES ASSUME at = "ok", markdown
                 PROVE  IF kind = "children" THEN Seen = created
                        ELSE attempt = 1 => kids[Replacing!Parent] = Replaced
    BY DEF Replacing!SuccessReplaces, Seen, Replaced
  <2>2. CASE kind = "children"
    BY <1>1, <2>1, <2>2 DEF ReplaceInv, ChildrenInv, InStep
  <2>3. CASE kind # "children"
    BY <1>1, <2>1, <2>3 DEF ReplaceInv, RTypeOK, SelInv
  <2> QED BY <2>2, <2>3
<1>3. Replacing!ChildrenNotLost
  <2>1. SUFFICES ASSUME Children
                 PROVE  \/ Replacing!Kept(Replacing!Targets)
                        \/ \E s \in earlier \cup (IF at = "ok" THEN {created} ELSE {}) :
                             Replacing!Kept(s)
    BY <1>1 DEF ReplaceInv, Children, Replacing!ChildrenNotLost, Replacing!NothingLost
  <2>2. CASE at = "ok"
    <3>1. Seen = created
      BY <2>1, <2>2 DEF Children, ChildrenInv, InStep
    <3>2. \A r \in Els(created) : Replacing!Exists(r)
      BY <2>1, <3>1, ChildrenFacts, ExistsIs
    <3>3. Replacing!Kept(created)
      BY <3>2 DEF Replacing!Kept, Els
    <3> QED BY <2>2, <3>3
  <2>3. CASE at # "ok"
    BY <2>1, <2>3 DEF Children, ChildrenInv, EarlierKept
  <2> QED BY <2>2, <2>3
<1> QED BY <1>2, <1>3

(* A replacement that succeeds has replaced exactly what it was to, in its
   place, by what its import has made, be that less than there was to import;
   and whichever of its calls fail and wherever the plugin is reloaded, what the
   parent had, or all that an execution has created that has succeeded, is
   still there: for every number of Rems before, among and after those replaced,
   of new roots and of executions. *)
THEOREM ReplacementsHold == AllSpec => []ReplacesOrKeeps
<1>1. AllInit => ReplaceInv
  BY ReplaceStarts DEF AllInit
<1>2. ReplaceInv /\ [AllNext]_allVars => ReplaceInv'
  <2>1. SUFFICES ASSUME ReplaceInv, [AllNext]_allVars PROVE ReplaceInv'
    OBVIOUS
  <2>2. CASE Replacing!Next
    BY <2>1, <2>2, ReplaceSteps
  <2>3. CASE UNCHANGED replaceVars
    BY <2>1, <2>3, ReplaceStays
  <2> QED BY <2>1, <2>2, <2>3 DEF AllNext, allVars, replaceVars
<1>3. ReplaceInv => ReplacesOrKeeps
  BY ReplaceHolds DEF ReplacesOrKeeps
<1> QED BY <1>1, <1>2, <1>3, PTL DEF AllSpec

-----------------------------------------------------------------------------
(* The tree that is deleted in batches. *)

TreeOf(n) ==
    /\ n \in 1 .. LargestTree
    /\ parent \in [2 .. n -> 1 .. n]
    /\ \A c \in 2 .. n : parent[c] < c

LEMMA TreeFacts ==
    ASSUME NEW n, TreeOf(n)
    PROVE  /\ n \in Nat /\ LargestTree \in Nat
           /\ Deleting!Rems = 1 .. n /\ DOMAIN parent = 2 .. n
           /\ \A c \in 2 .. n : parent[c] \in 1 .. c - 1
<1>1. LargestTree \in Nat \ {0}
  BY DeleteBounds DEF Deleting!Bounds
<1> QED BY <1>1 DEF TreeOf, Deleting!Rems, Deleting!Root

LinesTo(f, k) == f = [r \in 1 .. k |-> {r} \cup (IF r = 1 THEN {} ELSE f[parent[r]])]

LEMMA LinesExist ==
    ASSUME NEW n, TreeOf(n)
    PROVE  \E f : LinesTo(f, n)
<1>t. n \in Nat /\ \A c \in 2 .. n : parent[c] \in 1 .. c - 1
  BY TreeFacts
<1> DEFINE S == {k \in Nat : \E f : LinesTo(f, k)}
<1>1. 0 \in S
  <2> DEFINE f == [r \in 1 .. 0 |-> {}]
  <2>1. LinesTo(f, 0)
    BY DEF LinesTo
  <2> QED BY <2>1
<1>2. ASSUME NEW k \in 1 .. n, k - 1 \in S PROVE k \in S
  <2>1. PICK f : LinesTo(f, k - 1)
    BY <1>2
  <2> DEFINE last == {k} \cup (IF k = 1 THEN {} ELSE f[parent[k]])
             g == [r \in 1 .. k |-> IF r = k THEN last ELSE f[r]]
  <2>2. f = [r \in 1 .. k - 1 |-> {r} \cup (IF r = 1 THEN {} ELSE f[parent[r]])]
    BY <2>1 DEF LinesTo
  <2>3. ASSUME NEW r \in 1 .. k
        PROVE  g[r] = {r} \cup (IF r = 1 THEN {} ELSE g[parent[r]])
    <3>1. r # 1 => parent[r] \in 1 .. r - 1
      BY <1>t
    <3>2. r # 1 => parent[r] \in 1 .. k - 1 /\ g[parent[r]] = f[parent[r]]
      BY <1>t, <3>1
    <3>3. CASE r = k
      <4>1. g[r] = last
        BY <3>3
      <4> HIDE DEF g
      <4> QED BY <3>2, <3>3, <4>1
    <3>4. CASE r # k
      <4>1. r \in 1 .. k - 1 /\ g[r] = f[r]
        BY <3>4
      <4> HIDE DEF g
      <4> QED BY <2>2, <3>2, <4>1
    <3> QED BY <3>3, <3>4
  <2>4. g = [r \in 1 .. k |-> g[r]]
    OBVIOUS
  <2>5. LinesTo(g, k)
    <3> HIDE DEF g
    <3> QED BY <2>3, <2>4 DEF LinesTo
  <2>6. k \in Nat
    OBVIOUS
  <2> HIDE DEF g
  <2> QED BY <2>5, <2>6
<1> HIDE DEF S
<1>3. n \in S
  <2>1. 0 .. n \subseteq S
    BY <1>1, <1>2, <1>t, UpTo
  <2> QED BY <1>t, <2>1
<1> QED BY <1>3 DEF S

LEMMA LinesAre ==
    ASSUME NEW n, TreeOf(n)
    PROVE  LinesTo(Deleting!Lines, n)
<1> DEFINE f == CHOOSE g : LinesTo(g, n)
<1>1. LinesTo(f, n)
  BY LinesExist
<1>2. Deleting!Lines = f
  BY TreeFacts DEF Deleting!Lines, Deleting!Root, LinesTo
<1> QED BY <1>1, <1>2

LEMMA BelowFacts ==
    ASSUME NEW n, TreeOf(n), NEW r \in 1 .. n
    PROVE  /\ Deleting!Below(r) \subseteq 1 .. n
           /\ r \in Deleting!Below(r)
           /\ \A x \in 2 .. n :
                x # r => (x \in Deleting!Below(r) <=> parent[x] \in Deleting!Below(r))
           /\ 1 \in Deleting!Below(r) => r = 1
<1> DEFINE f == Deleting!Lines
<1>1. Deleting!Below(r) = {x \in 1 .. n : r \in f[x]}
  BY TreeFacts DEF Deleting!Below
<1>2. \A x \in 1 .. n : f[x] = {x} \cup (IF x = 1 THEN {} ELSE f[parent[x]])
  BY LinesAre DEF LinesTo
<1>3. n \in Nat /\ \A c \in 2 .. n : parent[c] \in 1 .. n
  BY TreeFacts
<1> HIDE DEF f
<1>4. ASSUME NEW x \in 2 .. n, x # r
      PROVE  x \in Deleting!Below(r) <=> parent[x] \in Deleting!Below(r)
  <2>1. x \in 1 .. n /\ parent[x] \in 1 .. n /\ x # 1
    BY <1>3
  <2>2. f[x] = {x} \cup f[parent[x]]
    BY <1>2, <2>1
  <2> QED BY <1>1, <1>4, <2>1, <2>2
<1>5. r \in f[r]
  BY <1>2
<1>6. 1 \in Deleting!Below(r) => r = 1
  <2>1. 1 \in 1 .. n
    BY <1>3
  <2>2. f[1] = {1}
    BY <1>2, <2>1
  <2> QED BY <1>1, <2>2
<1> QED BY <1>1, <1>4, <1>5, <1>6

(* What is below a Rem is below one of its children. *)
LEMMA BelowChildren ==
    ASSUME NEW n, TreeOf(n), NEW r \in 1 .. n, NEW x \in Deleting!Below(r), x # r
    PROVE  \E c \in Deleting!Children(r) : x \in Deleting!Below(c)
<1>t. n \in Nat /\ DOMAIN parent = 2 .. n /\ \A c \in 2 .. n : parent[c] \in 1 .. c - 1
  BY TreeFacts
<1> DEFINE Found(y) == y \in Deleting!Below(r) /\ y # r =>
                          \E c \in Deleting!Children(r) : y \in Deleting!Below(c)
           S == {k \in 0 .. n : \A y \in 1 .. k : Found(y)}
<1>1. 0 \in S
  BY <1>t
<1>2. ASSUME NEW k \in 1 .. n, k - 1 \in S PROVE k \in S
  <2>1. ASSUME k \in Deleting!Below(r), k # r
        PROVE  \E c \in Deleting!Children(r) : k \in Deleting!Below(c)
    <3>1. k # 1
      BY <2>1, BelowFacts
    <3>2. k \in 2 .. n /\ parent[k] \in 1 .. k - 1
      BY <1>t, <3>1
    <3>3. parent[k] \in Deleting!Below(r)
      BY <2>1, <3>2, BelowFacts
    <3>4. CASE parent[k] = r
      <4>1. k \in Deleting!Children(r)
        BY <1>t, <3>2, <3>4 DEF Deleting!Children
      <4>2. k \in Deleting!Below(k)
        BY BelowFacts
      <4> QED BY <4>1, <4>2
    <3>5. CASE parent[k] # r
      <4>1. Found(parent[k])
        BY <1>2, <3>2
      <4>2. PICK c \in Deleting!Children(r) : parent[k] \in Deleting!Below(c)
        BY <3>3, <3>5, <4>1
      <4>3. c \in 2 .. n
        BY <1>t DEF Deleting!Children
      <4>4. c \in 1 .. n
        BY <1>t, <4>3
      <4>5. k \in Deleting!Below(c)
        BY <3>2, <4>2, <4>4, BelowFacts
      <4> QED BY <4>5
    <3> QED BY <3>4, <3>5
  <2>2. \A y \in 1 .. k : y \in 1 .. k - 1 \/ y = k
    OBVIOUS
  <2>3. \A y \in 1 .. k - 1 : Found(y)
    BY <1>2
  <2>4. k \in 0 .. n
    OBVIOUS
  <2> QED BY <2>1, <2>2, <2>3, <2>4
<1>3. n \in S
  <2> HIDE DEF S
  <2>1. 0 .. n \subseteq S
    BY <1>1, <1>2, <1>t, UpTo
  <2> QED BY <1>t, <2>1
<1>4. x \in 1 .. n
  BY BelowFacts
<1> QED BY <1>3, <1>4

OneTree == \A r \in there \ {1} : parent[r] \in there

(* Below what is gone, all is gone. *)
LEMMA GoneBelow ==
    ASSUME NEW n, TreeOf(n), OneTree, there \subseteq 1 .. n,
           NEW h \in 1 .. n, h \notin there
    PROVE  Deleting!Below(h) \cap there = {}
<1>t. n \in Nat /\ \A c \in 2 .. n : parent[c] \in 1 .. c - 1
  BY TreeFacts
<1> DEFINE T == Deleting!Below(h) \cap there
<1> SUFFICES ASSUME T # {} PROVE FALSE
  OBVIOUS
<1>1. T \subseteq Nat
  <2>1. there \subseteq Nat
    BY <1>t
  <2> QED BY <2>1
<1>2. PICK x \in T : \A y \in T : x <= y
  <2> HIDE DEF T
  <2> QED BY <1>1, FirstOf
<1>3. x # h /\ x \in 1 .. n
  OBVIOUS
<1>4. x # 1
  BY <1>3, BelowFacts
<1>5. x \in 2 .. n /\ parent[x] \in 1 .. x - 1
  BY <1>t, <1>3, <1>4
<1>6. parent[x] \in Deleting!Below(h)
  BY <1>3, <1>5, BelowFacts
<1>7. parent[x] \in there
  BY <1>4 DEF OneTree
<1> QED BY <1>2, <1>5, <1>6, <1>7

LEMMA RootGone ==
    ASSUME NEW n, TreeOf(n), OneTree, there \subseteq 1 .. n, 1 \notin there
    PROVE  there = {}
<1>t. n \in Nat /\ \A c \in 2 .. n : parent[c] \in 1 .. c - 1
  BY TreeFacts
<1> SUFFICES ASSUME there # {} PROVE FALSE
  OBVIOUS
<1>1. PICK x \in there : \A y \in there : x <= y
  <2>1. there \subseteq Nat
    BY <1>t
  <2> QED BY <2>1, FirstOf
<1>2. x \in 2 .. n /\ parent[x] \in 1 .. x - 1
  BY <1>t
<1>3. parent[x] \in there
  BY <1>2 DEF OneTree
<1> QED BY <1>1, <1>2, <1>3

(* What a removal leaves is one tree. *)
LEMMA PruningKeepsTree ==
    ASSUME NEW n, TreeOf(n), OneTree, there \subseteq 1 .. n, NEW h \in 1 .. n
    PROVE  \A r \in (there \ Deleting!Below(h)) \ {1} :
             parent[r] \in there \ Deleting!Below(h)
<1>t. n \in Nat
  BY TreeFacts
<1>1. ASSUME NEW r \in (there \ Deleting!Below(h)) \ {1}
      PROVE  parent[r] \in there \ Deleting!Below(h)
  <2>1. r \in 2 .. n /\ parent[r] \in there
    BY <1>t DEF OneTree
  <2>2. r # h
    BY BelowFacts
  <2>3. parent[r] \notin Deleting!Below(h)
    BY <2>1, <2>2, BelowFacts
  <2> QED BY <2>1, <2>3
<1> QED BY <1>1

-----------------------------------------------------------------------------
(* Plans whose batches are small: of what is below each Rem, when everything
   before it and X are gone, no more than max is left. *)

Subtrees(E) == UNION {Deleting!Below(r) : r \in E}

Before(d, k) == {d[j] : j \in 1 .. k - 1}

Batch(X, d, k) == Deleting!Below(d[k]) \ (X \cup Subtrees(Before(d, k)))

IsSmall(S) == IsFiniteSet(S) /\ Cardinality(S) <= max

SmallFrom(X, d) == \A k \in 1 .. Len(d) : IsSmall(Batch(X, d, k))

LEMMA SmallerStill == ASSUME NEW S, NEW T, T \subseteq S, IsSmall(S), max \in Nat PROVE IsSmall(T)
<1>1. IsFiniteSet(T) /\ Cardinality(T) <= Cardinality(S)
  BY FS_Subset DEF IsSmall
<1>2. Cardinality(T) \in Nat /\ Cardinality(S) \in Nat
  BY <1>1, FS_CardinalityType DEF IsSmall
<1> QED BY <1>1, <1>2 DEF IsSmall

LEMMA SmallMonotone ==
    ASSUME NEW X, NEW Y, X \subseteq Y, NEW d, SmallFrom(X, d), max \in Nat
    PROVE  SmallFrom(Y, d)
<1>1. ASSUME NEW k \in 1 .. Len(d) PROVE IsSmall(Batch(Y, d, k))
  <2>1. Batch(Y, d, k) \subseteq Batch(X, d, k)
    BY DEF Batch
  <2>2. IsSmall(Batch(X, d, k))
    BY DEF SmallFrom
  <2> QED BY <2>1, <2>2, SmallerStill
<1> QED BY <1>1 DEF SmallFrom

LEMMA SmallConcat ==
    ASSUME NEW S, NEW a \in Seq(S), NEW b \in Seq(S), NEW X, NEW Y, max \in Nat,
           SmallFrom(X, a), SmallFrom(Y, b), Y \subseteq X \cup Subtrees(Els(a))
    PROVE  SmallFrom(X, a \o b)
<1> DEFINE d == a \o b
<1>1. /\ Len(a) \in Nat /\ Len(b) \in Nat /\ Len(d) = Len(a) + Len(b)
      /\ \A i \in 1 .. Len(a) : d[i] = a[i]
      /\ \A i \in 1 .. Len(b) : d[Len(a) + i] = b[i]
      /\ DOMAIN a = 1 .. Len(a)
  OBVIOUS
<1> HIDE DEF d
<1>2. ASSUME NEW k \in 1 .. Len(a) PROVE IsSmall(Batch(X, d, k))
  <2>1. Before(d, k) = Before(a, k)
    BY <1>1 DEF Before
  <2>2. Batch(X, d, k) = Batch(X, a, k)
    BY <1>1, <2>1 DEF Batch
  <2> QED BY <2>2 DEF SmallFrom
<1>3. ASSUME NEW k \in 1 .. Len(b) PROVE IsSmall(Batch(X, d, Len(a) + k))
  <2>1. Before(b, k) \subseteq Before(d, Len(a) + k)
    <3>1. ASSUME NEW j \in 1 .. k - 1 PROVE b[j] \in Before(d, Len(a) + k)
      <4>1. Len(a) + j \in 1 .. Len(a) + k - 1 /\ d[Len(a) + j] = b[j]
        BY <1>1
      <4> QED BY <4>1 DEF Before
    <3> QED BY <3>1 DEF Before
  <2>2. Els(a) \subseteq Before(d, Len(a) + k)
    <3>1. ASSUME NEW j \in 1 .. Len(a) PROVE a[j] \in Before(d, Len(a) + k)
      <4>1. j \in 1 .. Len(a) + k - 1 /\ d[j] = a[j]
        BY <1>1
      <4> QED BY <4>1 DEF Before
    <3> QED BY <1>1, <3>1 DEF Els, Replacing!ToSet
  <2>3. d[Len(a) + k] = b[k]
    BY <1>1
  <2>4. Batch(X, d, Len(a) + k) \subseteq Batch(Y, b, k)
    BY <2>1, <2>2, <2>3 DEF Batch, Subtrees
  <2>5. IsSmall(Batch(Y, b, k))
    BY DEF SmallFrom
  <2> QED BY <2>4, <2>5, SmallerStill
<1>4. ASSUME NEW k \in 1 .. Len(d) PROVE IsSmall(Batch(X, d, k))
  <2>1. CASE k <= Len(a)
    <3>1. k \in 1 .. Len(a)
      BY <2>1
    <3> QED BY <1>2, <3>1
  <2>2. CASE ~(k <= Len(a))
    <3>1. k - Len(a) \in 1 .. Len(b) /\ Len(a) + (k - Len(a)) = k
      BY <1>1, <2>2
    <3>2. IsSmall(Batch(X, d, Len(a) + (k - Len(a))))
      BY <1>3, <3>1
    <3> QED BY <3>1, <3>2
  <2> QED BY <2>1, <2>2
<1> QED BY <1>4 DEF SmallFrom, d

LEMMA SmallTail ==
    ASSUME NEW S, NEW d \in Seq(S), d # <<>>, NEW X, SmallFrom(X, d), max \in Nat
    PROVE  SmallFrom(X \cup Deleting!Below(Head(d)), Tail(d))
<1> DEFINE t == Tail(d)
           Y == X \cup Deleting!Below(Head(d))
<1>1. /\ Len(d) \in Nat /\ Len(t) = Len(d) - 1 /\ Head(d) = d[1]
      /\ \A i \in 1 .. Len(t) : t[i] = d[i + 1]
  OBVIOUS
<1> HIDE DEF t
<1>2. ASSUME NEW k \in 1 .. Len(t) PROVE IsSmall(Batch(Y, t, k))
  <2>1. k + 1 \in 1 .. Len(d) /\ t[k] = d[k + 1]
    BY <1>1
  <2>2. Before(d, k + 1) \subseteq {d[1]} \cup Before(t, k)
    <3>1. ASSUME NEW j \in 1 .. k PROVE d[j] \in {d[1]} \cup Before(t, k)
      <4>1. CASE j = 1
        BY <4>1
      <4>2. CASE j # 1
        <5>1. j - 1 \in 1 .. k - 1 /\ j - 1 \in 1 .. Len(t) /\ (j - 1) + 1 = j
          BY <1>1, <4>2
        <5>2. t[j - 1] = d[j]
          BY <1>1, <5>1
        <5> QED BY <5>1, <5>2 DEF Before
      <4> QED BY <4>1, <4>2
    <3>2. k + 1 - 1 = k
      OBVIOUS
    <3> QED BY <3>1, <3>2 DEF Before
  <2>3. Batch(Y, t, k) \subseteq Batch(X, d, k + 1)
    BY <1>1, <2>1, <2>2 DEF Batch, Subtrees
  <2>4. IsSmall(Batch(X, d, k + 1))
    BY <2>1 DEF SmallFrom
  <2> QED BY <2>3, <2>4, SmallerStill
<1> QED BY <1>2 DEF SmallFrom, t

-----------------------------------------------------------------------------
(* Totals, and sequences made in the order of the numbers. *)

TotalTo(u, f, I, k) ==
    u = [i \in 0 .. k |-> IF i = 0 THEN 0 ELSE u[i - 1] + (IF i \in I THEN f[i] ELSE 0)]

LEMMA TotalExists ==
    ASSUME NEW f, NEW I, NEW k \in Nat
    PROVE  \E u : TotalTo(u, f, I, k)
<1> DEFINE S == {n \in Nat : \E u : TotalTo(u, f, I, n)}
<1>1. 0 \in S
  <2> DEFINE u == [n \in 0 .. 0 |-> 0]
  <2>1. TotalTo(u, f, I, 0)
    BY DEF TotalTo
  <2> QED BY <2>1
<1>2. ASSUME NEW n \in 1 .. k, n - 1 \in S PROVE n \in S
  <2>1. PICK u : TotalTo(u, f, I, n - 1)
    BY <1>2
  <2> DEFINE v == [m \in 0 .. n |->
                     IF m = n THEN u[n - 1] + (IF n \in I THEN f[n] ELSE 0) ELSE u[m]]
  <2>2. TotalTo(v, f, I, n)
    BY <2>1 DEF TotalTo
  <2>3. n \in Nat
    OBVIOUS
  <2> HIDE DEF v
  <2> QED BY <2>2, <2>3
<1> HIDE DEF S
<1>3. k \in S
  BY <1>1, <1>2, UpTo
<1> QED BY <1>3 DEF S

LEMMA TreesAreFinite == LargestTree \in Nat /\ LargestTree # 0 /\ LargestBatch \in Nat
  BY DeleteBounds DEF Deleting!Bounds

LEMMA TotalIs ==
    ASSUME NEW f, NEW I
    PROVE  \E u : TotalTo(u, f, I, LargestTree) /\ Deleting!Total(f, I) = u[LargestTree]
<1> DEFINE u == CHOOSE g : TotalTo(g, f, I, LargestTree)
<1>1. TotalTo(u, f, I, LargestTree)
  BY TotalExists, TreesAreFinite
<1>2. Deleting!Total(f, I) = u[LargestTree]
  BY DEF Deleting!Total, TotalTo
<1> HIDE DEF u
<1> QED BY <1>1, <1>2

Items == 1 .. LargestTree

LEMMA TotalType ==
    ASSUME NEW D \in SUBSET Items, NEW f \in [D -> Nat], NEW I \in SUBSET D
    PROVE  Deleting!Total(f, I) \in Nat
<1> DEFINE k == LargestTree
<1>1. PICK u : TotalTo(u, f, I, k) /\ Deleting!Total(f, I) = u[k]
  BY TotalIs
<1>a. k \in Nat
  BY TreesAreFinite
<1> HIDE DEF k
<1> DEFINE S == {n \in 0 .. k : u[n] \in Nat}
<1>2. 0 \in S
  BY <1>1, <1>a DEF TotalTo
<1>3. ASSUME NEW n \in 1 .. k, n - 1 \in S PROVE n \in S
  <2>1. u[n] = u[n - 1] + (IF n \in I THEN f[n] ELSE 0)
    BY <1>1, <1>a DEF TotalTo
  <2>2. n \in I => f[n] \in Nat
    OBVIOUS
  <2> QED BY <1>3, <2>1, <2>2
<1> HIDE DEF S
<1>4. k \in S
  <2>1. 0 .. k \subseteq S
    BY <1>2, <1>3, <1>a, UpTo
  <2> QED BY <1>a, <2>1
<1> QED BY <1>1, <1>4 DEF S

LEMMA TotalNone == ASSUME NEW f PROVE Deleting!Total(f, {}) = 0
<1> DEFINE k == LargestTree
<1>1. PICK u : TotalTo(u, f, {}, k) /\ Deleting!Total(f, {}) = u[k]
  BY TotalIs
<1>a. k \in Nat
  BY TreesAreFinite
<1> HIDE DEF k
<1> DEFINE S == {n \in 0 .. k : u[n] = 0}
<1>2. 0 \in S
  BY <1>1, <1>a DEF TotalTo
<1>3. ASSUME NEW n \in 1 .. k, n - 1 \in S PROVE n \in S
  <2>1. u[n] = u[n - 1] + 0
    BY <1>1, <1>a DEF TotalTo
  <2> QED BY <1>3, <2>1
<1> HIDE DEF S
<1>4. k \in S
  <2>1. 0 .. k \subseteq S
    BY <1>2, <1>3, <1>a, UpTo
  <2> QED BY <1>a, <2>1
<1> QED BY <1>1, <1>4 DEF S

LEMMA TotalOneMore ==
    ASSUME NEW D \in SUBSET Items, NEW f \in [D -> Nat], NEW I \in SUBSET D, NEW j \in D \ I
    PROVE  Deleting!Total(f, I \cup {j}) = Deleting!Total(f, I) + f[j]
<1> DEFINE k == LargestTree
           J == I \cup {j}
<1>1. PICK u : TotalTo(u, f, I, k) /\ Deleting!Total(f, I) = u[k]
  BY TotalIs
<1>2. PICK v : TotalTo(v, f, J, k) /\ Deleting!Total(f, J) = v[k]
  BY TotalIs
<1>a. k \in Nat /\ j \in 1 .. k /\ f[j] \in Nat
  BY TreesAreFinite DEF Items
<1>b. \A i \in 1 .. k : i \in I => f[i] \in Nat
  OBVIOUS
<1> HIDE DEF k
<1> DEFINE S == {n \in 0 .. k : /\ u[n] \in Nat
                                /\ v[n] = IF n < j THEN u[n] ELSE u[n] + f[j]}
<1>3. 0 \in S
  BY <1>1, <1>2, <1>a DEF TotalTo
<1>4. ASSUME NEW n \in 1 .. k, n - 1 \in S PROVE n \in S
  <2>1. /\ u[n] = u[n - 1] + (IF n \in I THEN f[n] ELSE 0)
        /\ v[n] = v[n - 1] + (IF n \in J THEN f[n] ELSE 0)
    <3>1. n \in 0 .. k /\ n # 0
      BY <1>a
    <3> HIDE DEF J
    <3> QED BY <1>1, <1>2, <3>1 DEF TotalTo
  <2>2. u[n - 1] \in Nat /\ v[n - 1] = IF n - 1 < j THEN u[n - 1] ELSE u[n - 1] + f[j]
    BY <1>4
  <2>3. n \in 0 .. k
    BY <1>a
  <2>4. CASE n = j
    <3>1. n \notin I /\ n \in J /\ n - 1 < j /\ ~(n < j)
      BY <1>a, <2>4
    <3>2. u[n] = u[n - 1] /\ v[n] = u[n - 1] + f[j]
      BY <1>a, <2>1, <2>2, <2>4, <3>1
    <3> QED BY <2>2, <2>3, <3>1, <3>2
  <2>5. CASE n # j
    <3>1. n \in I <=> n \in J
      BY <2>5
    <3>2. n - 1 < j <=> n < j
      BY <1>a, <2>5
    <3>3. CASE n \in I
      <4>1. u[n] = u[n - 1] + f[n] /\ v[n] = v[n - 1] + f[n] /\ f[n] \in Nat
        BY <1>b, <2>1, <3>1, <3>3
      <4> QED BY <1>a, <2>2, <2>3, <3>2, <4>1
    <3>4. CASE n \notin I
      <4>1. u[n] = u[n - 1] + 0 /\ v[n] = v[n - 1] + 0
        BY <2>1, <3>1, <3>4
      <4> QED BY <1>a, <2>2, <2>3, <3>2, <4>1
    <3> QED BY <3>3, <3>4
  <2> QED BY <2>4, <2>5
<1> HIDE DEF S
<1>5. k \in S
  <2>1. 0 .. k \subseteq S
    BY <1>3, <1>4, <1>a, UpTo
  <2> QED BY <1>a, <2>1
<1>6. v[k] = u[k] + f[j]
  <2>1. ~(k < j)
    BY <1>a
  <2> QED BY <1>5, <2>1 DEF S
<1> QED BY <1>1, <1>2, <1>6

LEMMA SmallerTotal ==
    ASSUME NEW D \in SUBSET Items, NEW f \in [D -> Nat], NEW J \in SUBSET D, NEW I \in SUBSET J
    PROVE  Deleting!Total(f, I) <= Deleting!Total(f, J)
<1> DEFINE k == LargestTree
<1>1. PICK u : TotalTo(u, f, I, k) /\ Deleting!Total(f, I) = u[k]
  BY TotalIs
<1>2. PICK v : TotalTo(v, f, J, k) /\ Deleting!Total(f, J) = v[k]
  BY TotalIs
<1>a. k \in Nat
  BY TreesAreFinite
<1>b. \A i \in 1 .. k : i \in J => f[i] \in Nat
  OBVIOUS
<1> HIDE DEF k
<1> DEFINE S == {n \in 0 .. k : u[n] \in Nat /\ v[n] \in Nat /\ u[n] <= v[n]}
<1>3. 0 \in S
  BY <1>1, <1>2, <1>a DEF TotalTo
<1>4. ASSUME NEW n \in 1 .. k, n - 1 \in S PROVE n \in S
  <2>1. /\ u[n] = u[n - 1] + (IF n \in I THEN f[n] ELSE 0)
        /\ v[n] = v[n - 1] + (IF n \in J THEN f[n] ELSE 0)
    <3>1. n \in 0 .. k /\ n # 0
      BY <1>a
    <3> QED BY <1>1, <1>2, <3>1 DEF TotalTo
  <2>2. u[n - 1] \in Nat /\ v[n - 1] \in Nat /\ u[n - 1] <= v[n - 1]
    BY <1>4
  <2>3. n \in J => f[n] \in Nat
    BY <1>b
  <2>4. n \in 0 .. k
    BY <1>a
  <2> QED BY <2>1, <2>2, <2>3, <2>4
<1> HIDE DEF S
<1>5. k \in S
  <2>1. 0 .. k \subseteq S
    BY <1>3, <1>4, <1>a, UpTo
  <2> QED BY <1>a, <2>1
<1> QED BY <1>1, <1>2, <1>5 DEF S

InOrderTo(u, S, of, k) ==
    u = [i \in 0 .. k |-> IF i = 0 THEN <<>>
                          ELSE IF i \in S THEN u[i - 1] \o of[i] ELSE u[i - 1]]

LEMMA InOrderExists ==
    ASSUME NEW of, NEW I, NEW k \in Nat
    PROVE  \E u : InOrderTo(u, I, of, k)
<1> DEFINE S == {n \in Nat : \E u : InOrderTo(u, I, of, n)}
<1>1. 0 \in S
  <2> DEFINE u == [n \in 0 .. 0 |-> <<>>]
  <2>1. InOrderTo(u, I, of, 0)
    BY DEF InOrderTo
  <2> QED BY <2>1
<1>2. ASSUME NEW n \in 1 .. k, n - 1 \in S PROVE n \in S
  <2>1. PICK u : InOrderTo(u, I, of, n - 1)
    BY <1>2
  <2> DEFINE last == IF n \in I THEN u[n - 1] \o of[n] ELSE u[n - 1]
             v == [m \in 0 .. n |-> IF m = n THEN last ELSE u[m]]
  <2>2. u = [m \in 0 .. n - 1 |-> IF m = 0 THEN <<>>
                          ELSE IF m \in I THEN u[m - 1] \o of[m] ELSE u[m - 1]]
    BY <2>1 DEF InOrderTo
  <2>3. ASSUME NEW m \in 0 .. n
        PROVE  v[m] = IF m = 0 THEN <<>>
                      ELSE IF m \in I THEN v[m - 1] \o of[m] ELSE v[m - 1]
    <3>1. CASE m = 0
      <4>1. m \in 0 .. n - 1 /\ v[m] = u[m]
        BY <3>1
      <4> HIDE DEF v
      <4> QED BY <2>2, <3>1, <4>1
    <3>2. CASE m \in 1 .. n - 1
      <4>1. m \in 0 .. n - 1 /\ v[m] = u[m] /\ v[m - 1] = u[m - 1] /\ m # 0
        BY <3>2
      <4> HIDE DEF v
      <4> QED BY <2>2, <4>1
    <3>3. CASE m = n
      <4>1. v[m] = last /\ v[m - 1] = u[n - 1] /\ m # 0
        BY <3>3
      <4> HIDE DEF v
      <4> QED BY <3>3, <4>1
    <3> QED BY <3>1, <3>2, <3>3
  <2>4. v = [m \in 0 .. n |-> v[m]]
    OBVIOUS
  <2>5. InOrderTo(v, I, of, n)
    <3> HIDE DEF v
    <3> QED BY <2>3, <2>4 DEF InOrderTo
  <2>6. n \in Nat
    OBVIOUS
  <2> HIDE DEF v
  <2> QED BY <2>5, <2>6
<1> HIDE DEF S
<1>3. k \in S
  BY <1>1, <1>2, UpTo
<1> QED BY <1>3 DEF S

LEMMA InOrderIs ==
    ASSUME NEW I, NEW of
    PROVE  \E u : InOrderTo(u, I, of, LargestTree)
                  /\ Deleting!InOrder(I, of) = u[LargestTree]
<1> DEFINE u == CHOOSE g : InOrderTo(g, I, of, LargestTree)
<1>1. InOrderTo(u, I, of, LargestTree)
  BY InOrderExists, TreesAreFinite
<1>2. Deleting!InOrder(I, of) = u[LargestTree]
  BY DEF Deleting!InOrder, InOrderTo
<1> HIDE DEF u
<1> QED BY <1>1, <1>2

LEMMA InOrderFacts ==
    ASSUME NEW I \in SUBSET Items, NEW T, NEW of, \A c \in I : of[c] \in Seq(T),
           max \in Nat
    PROVE  /\ Deleting!InOrder(I, of) \in Seq(T)
           /\ Els(Deleting!InOrder(I, of)) = UNION {Els(of[c]) : c \in I}
           /\ (\A c \in I : SmallFrom({}, of[c])) => SmallFrom({}, Deleting!InOrder(I, of))
<1> DEFINE k == LargestTree
           AllSmall == \A c \in I : SmallFrom({}, of[c])
           UpToNow(n) == UNION {Els(of[c]) : c \in {i \in I : i <= n}}
<1>1. PICK u : InOrderTo(u, I, of, k) /\ Deleting!InOrder(I, of) = u[k]
  BY InOrderIs
<1>a. k \in Nat
  BY TreesAreFinite
<1>b. I \subseteq 1 .. k
  BY DEF Items
<1> HIDE DEF k
<1> DEFINE S == {n \in 0 .. k : /\ u[n] \in Seq(T)
                                /\ Els(u[n]) = UpToNow(n)
                                /\ AllSmall => SmallFrom({}, u[n])}
<1>2. 0 \in S
  <2>1. 0 \in 0 .. k
    BY <1>a
  <2>2. u[0] = <<>>
    BY <1>1, <2>1 DEF InOrderTo
  <2>3. <<>> \in Seq(T) /\ Len(<<>>) = 0 /\ DOMAIN <<>> = {}
    OBVIOUS
  <2>4. Els(<<>>) = {}
    BY <2>3 DEF Els, Replacing!ToSet
  <2>5. {i \in I : i <= 0} = {}
    <3>1. \A i \in I : ~(i <= 0)
      BY <1>a, <1>b
    <3> QED BY <3>1
  <2>6. UpToNow(0) = {}
    BY <2>5
  <2>7. SmallFrom({}, <<>>)
    <3>1. 1 .. Len(<<>>) = {}
      BY <2>3
    <3> QED BY <3>1 DEF SmallFrom
  <2> QED BY <2>1, <2>2, <2>3, <2>4, <2>6, <2>7
<1>3. ASSUME NEW n \in 1 .. k, n - 1 \in S PROVE n \in S
  <2>1. n \in 0 .. k /\ n # 0
    BY <1>a
  <2>2. u[n] = IF n \in I THEN u[n - 1] \o of[n] ELSE u[n - 1]
    BY <1>1, <2>1 DEF InOrderTo
  <2>3. /\ u[n - 1] \in Seq(T) /\ Els(u[n - 1]) = UpToNow(n - 1)
        /\ AllSmall => SmallFrom({}, u[n - 1])
    BY <1>3
  <2>4. CASE n \notin I
    <3>1. \A i \in I : i <= n <=> i <= n - 1
      <4>1. ASSUME NEW i \in I PROVE i <= n <=> i <= n - 1
        <5>1. i \in 1 .. k /\ i # n
          BY <1>b, <2>4
        <5> QED BY <1>a, <5>1
      <4> QED BY <4>1
    <3>2. UpToNow(n) = UpToNow(n - 1)
      <4>1. {i \in I : i <= n} = {i \in I : i <= n - 1}
        BY <3>1
      <4> QED BY <4>1
    <3>3. u[n] = u[n - 1]
      BY <2>2, <2>4
    <3> HIDE DEF UpToNow, AllSmall
    <3> QED BY <2>1, <2>3, <3>2, <3>3
  <2>5. CASE n \in I
    <3>1. {i \in I : i <= n} = {i \in I : i <= n - 1} \cup {n}
      <4>1. ASSUME NEW i \in I PROVE i <= n <=> (i <= n - 1 \/ i = n)
        <5>1. i \in 1 .. k
          BY <1>b
        <5> QED BY <1>a, <5>1
      <4> QED BY <2>5, <4>1
    <3>2. UpToNow(n) = UpToNow(n - 1) \cup Els(of[n])
      BY <3>1
    <3>3. u[n] = u[n - 1] \o of[n] /\ of[n] \in Seq(T)
      BY <2>2, <2>5
    <3>4. u[n - 1] \o of[n] \in Seq(T)
      BY <2>3, <3>3
    <3>5. Els(u[n]) = UpToNow(n)
      <4> HIDE DEF UpToNow
      <4> QED BY <2>3, <3>2, <3>3, ElsConcat
    <3>6. ASSUME AllSmall PROVE SmallFrom({}, u[n])
      <4>1. SmallFrom({}, u[n - 1]) /\ SmallFrom({}, of[n])
        BY <2>3, <2>5, <3>6
      <4>2. SmallFrom({}, u[n - 1] \o of[n])
        BY <2>3, <3>3, <4>1, SmallConcat
      <4> QED BY <3>3, <4>2
    <3> HIDE DEF UpToNow, AllSmall
    <3> QED BY <2>1, <3>3, <3>4, <3>5, <3>6
  <2> QED BY <2>4, <2>5
<1>4. k \in S
  <2> HIDE DEF S
  <2>1. 0 .. k \subseteq S
    BY <1>2, <1>3, <1>a, UpTo
  <2> QED BY <1>a, <2>1
<1>5. {i \in I : i <= k} = I
  <2>1. \A i \in I : i <= k
    BY <1>a, <1>b
  <2> QED BY <2>1
<1>6. UpToNow(k) = UNION {Els(of[c]) : c \in I}
  BY <1>5
<1>7. /\ u[k] \in Seq(T) /\ Els(u[k]) = UpToNow(k)
      /\ AllSmall => SmallFrom({}, u[k])
  BY <1>4
<1> HIDE DEF UpToNow
<1> QED BY <1>1, <1>6, <1>7

-----------------------------------------------------------------------------
(* What chooseChildResidualsToKeep keeps.  The table has the sums of all
   choices among the items so far, and for each sum the item that completed it,
   when it had what was missing already. *)

SumsTo(u, sizes, capacity, k) ==
    u = [i \in 0 .. k |->
           IF i = 0 THEN [s \in {0} |-> 0]
           ELSE IF i \in DOMAIN sizes
                THEN Deleting!WithItem(u[i - 1], i, sizes[i], capacity) ELSE u[i - 1]]

LEMMA SumsExist ==
    ASSUME NEW f, NEW b, NEW k \in Nat
    PROVE  \E u : SumsTo(u, f, b, k)
<1> DEFINE S == {n \in Nat : \E u : SumsTo(u, f, b, n)}
           none == [s \in {0} |-> 0]
           W(t, i) == Deleting!WithItem(t, i, f[i], b)
<1>1. 0 \in S
  <2> DEFINE u == [n \in 0 .. 0 |-> none]
  <2>1. SumsTo(u, f, b, 0)
    BY DEF SumsTo
  <2> QED BY <2>1
<1>2. ASSUME NEW n \in 1 .. k, n - 1 \in S PROVE n \in S
  <2>1. PICK u : SumsTo(u, f, b, n - 1)
    BY <1>2
  <2> DEFINE last == IF n \in DOMAIN f THEN W(u[n - 1], n) ELSE u[n - 1]
             v == [m \in 0 .. n |-> IF m = n THEN last ELSE u[m]]
  <2> HIDE DEF W, none
  <2>2. u = [m \in 0 .. n - 1 |-> IF m = 0 THEN none
                          ELSE IF m \in DOMAIN f THEN W(u[m - 1], m) ELSE u[m - 1]]
    BY <2>1 DEF SumsTo, W, none
  <2>3. ASSUME NEW m \in 0 .. n
        PROVE  v[m] = IF m = 0 THEN none
                      ELSE IF m \in DOMAIN f THEN W(v[m - 1], m) ELSE v[m - 1]
    <3>1. CASE m = 0
      <4>1. m \in 0 .. n - 1 /\ v[m] = u[m]
        BY <3>1
      <4> HIDE DEF v
      <4> QED BY <2>2, <3>1, <4>1
    <3>2. CASE m \in 1 .. n - 1
      <4>1. m \in 0 .. n - 1 /\ v[m] = u[m] /\ v[m - 1] = u[m - 1] /\ m # 0
        BY <3>2
      <4> HIDE DEF v
      <4> QED BY <2>2, <4>1
    <3>3. CASE m = n
      <4>1. v[m] = last /\ v[m - 1] = u[n - 1] /\ m # 0
        BY <3>3
      <4> HIDE DEF v
      <4> QED BY <3>3, <4>1
    <3> QED BY <3>1, <3>2, <3>3
  <2>4. v = [m \in 0 .. n |-> v[m]]
    OBVIOUS
  <2>5. SumsTo(v, f, b, n)
    <3> HIDE DEF v
    <3> QED BY <2>3, <2>4 DEF SumsTo, W, none
  <2>6. n \in Nat
    OBVIOUS
  <2> HIDE DEF v
  <2> QED BY <2>5, <2>6
<1> HIDE DEF S
<1>3. k \in S
  BY <1>1, <1>2, UpTo
<1> QED BY <1>3 DEF S

LEMMA SumsAre ==
    ASSUME NEW f, NEW b
    PROVE  \E u : SumsTo(u, f, b, LargestTree) /\ Deleting!Sums(f, b) = u[LargestTree]
<1> DEFINE u == CHOOSE g : SumsTo(g, f, b, LargestTree)
<1>1. SumsTo(u, f, b, LargestTree)
  BY SumsExist, TreesAreFinite
<1>2. Deleting!Sums(f, b) = u[LargestTree]
  BY DEF Deleting!Sums, SumsTo
<1> HIDE DEF u
<1> QED BY <1>1, <1>2

LEMMA WithItemFacts ==
    ASSUME NEW t, NEW i, NEW size, NEW b
    PROVE  LET r == Deleting!WithItem(t, i, size, b)
           IN /\ DOMAIN t \subseteq DOMAIN r
              /\ \A s \in size .. b : s - size \in DOMAIN t => s \in DOMAIN r
              /\ \A s \in DOMAIN t : r[s] = t[s]
              /\ \A s \in DOMAIN r : s \in DOMAIN t \/ (/\ r[s] = i /\ s \in size .. b
                                                        /\ s - size \in DOMAIN t)
  BY DEF Deleting!WithItem

SizesOf(f, D) == D \in SUBSET Items /\ f \in [D -> Nat \ {0}]

(* The table that is there after the items up to n. *)
TableOf(t, f, b, n) ==
    /\ DOMAIN t \subseteq 0 .. b /\ 0 \in DOMAIN t
    /\ \A s \in DOMAIN t \ {0} : t[s] \in DOMAIN f /\ f[t[s]] <= s

LEMMA TablesGrow ==
    ASSUME NEW D, NEW f, SizesOf(f, D), NEW b \in Nat, NEW u, SumsTo(u, f, b, LargestTree),
           NEW n \in Items
    PROVE  /\ u[0] = [s \in {0} |-> 0]
           /\ n \notin D => u[n] = u[n - 1]
           /\ n \in D => u[n] = Deleting!WithItem(u[n - 1], n, f[n], b)
<1> DEFINE none == [s \in {0} |-> 0]
           W(t, i) == Deleting!WithItem(t, i, f[i], b)
           k == LargestTree
<1> HIDE DEF none, W
<1>1. u = [i \in 0 .. k |-> IF i = 0 THEN none
                            ELSE IF i \in D THEN W(u[i - 1], i) ELSE u[i - 1]]
  BY DEF SumsTo, none, W, SizesOf
<1>2. n \in 0 .. k /\ n # 0 /\ 0 \in 0 .. k
  BY TreesAreFinite DEF Items
<1>3. u[0] = none
  BY <1>1, <1>2
<1>4. u[n] = IF n \in D THEN W(u[n - 1], n) ELSE u[n - 1]
  BY <1>1, <1>2
<1> QED BY <1>3, <1>4 DEF none, W

LEMMA TablesAre ==
    ASSUME NEW D, NEW f, SizesOf(f, D), NEW b \in Nat, NEW u, SumsTo(u, f, b, LargestTree)
    PROVE  \A n \in 0 .. LargestTree : TableOf(u[n], f, b, n)
<1> DEFINE k == LargestTree
           S == {n \in 0 .. k : TableOf(u[n], f, b, n)}
<1>a. k \in Nat /\ Items = 1 .. k /\ 1 \in Items
  BY TreesAreFinite DEF Items
<1>f. DOMAIN f = D /\ \A i \in D : f[i] \in Nat \ {0}
  BY DEF SizesOf
<1> HIDE DEF k
<1>1. 0 \in S
  <2>1. u[0] = [s \in {0} |-> 0]
    BY <1>a, TablesGrow
  <2>2. DOMAIN u[0] = {0}
    BY <2>1
  <2>3. 0 \in 0 .. k
    BY <1>a
  <2> QED BY <2>2, <2>3 DEF TableOf
<1>2. ASSUME NEW n \in 1 .. k, n - 1 \in S PROVE n \in S
  <2>1. n \in 0 .. k /\ n \in Items
    BY <1>a
  <2>2. TableOf(u[n - 1], f, b, n - 1)
    BY <1>2
  <2>3. CASE n \notin D
    <3>1. u[n] = u[n - 1]
      BY <2>1, <2>3, TablesGrow
    <3> QED BY <2>1, <2>2, <3>1 DEF TableOf
  <2>4. CASE n \in D
    <3> DEFINE t == u[n - 1]
               r == u[n]
    <3>1. r = Deleting!WithItem(t, n, f[n], b)
      BY <2>1, <2>4, TablesGrow
    <3>2. /\ DOMAIN t \subseteq DOMAIN r
          /\ \A s \in DOMAIN t : r[s] = t[s]
          /\ \A s \in DOMAIN r : s \in DOMAIN t \/ (r[s] = n /\ s \in f[n] .. b)
      BY <3>1, WithItemFacts
    <3>3. f[n] \in Nat \ {0}
      BY <1>f, <2>4
    <3> HIDE DEF t, r
    <3>4. TableOf(t, f, b, n - 1)
      BY <2>2 DEF t
    <3>5. DOMAIN r \subseteq 0 .. b /\ 0 \in DOMAIN r
      BY <3>2, <3>3, <3>4 DEF TableOf
    <3>6. ASSUME NEW s \in DOMAIN r \ {0} PROVE r[s] \in DOMAIN f /\ f[r[s]] <= s
      <4>1. CASE s \in DOMAIN t
        BY <3>2, <3>4, <3>6, <4>1 DEF TableOf
      <4>2. CASE r[s] = n /\ s \in f[n] .. b
        BY <1>f, <2>4, <3>3, <4>2
      <4> QED BY <3>2, <4>1, <4>2
    <3>7. TableOf(r, f, b, n)
      BY <3>5, <3>6 DEF TableOf
    <3> QED BY <2>1, <3>7 DEF r
  <2> QED BY <2>3, <2>4
<1>3. 0 .. k \subseteq S
  <2> HIDE DEF S
  <2> QED BY <1>1, <1>2, <1>a, UpTo
<1> QED BY <1>3 DEF k

(* What is in the table once stays in it. *)
LEMMA TablesLast ==
    ASSUME NEW D, NEW f, SizesOf(f, D), NEW b \in Nat, NEW u, SumsTo(u, f, b, LargestTree),
           NEW n \in 0 .. LargestTree, NEW s \in DOMAIN u[n]
    PROVE  s \in DOMAIN u[LargestTree] /\ u[LargestTree][s] = u[n][s]
<1> DEFINE k == LargestTree
           S == {m \in 0 .. k : m < n \/ (s \in DOMAIN u[m] /\ u[m][s] = u[n][s])}
<1>a. k \in Nat /\ Items = 1 .. k
  BY TreesAreFinite DEF Items
<1> HIDE DEF k
<1>b. n \in 0 .. k
  BY DEF k
<1>1. 0 \in S
  BY <1>a, <1>b
<1>2. ASSUME NEW m \in 1 .. k, m - 1 \in S PROVE m \in S
  <2>1. m \in 0 .. k /\ m \in Items
    BY <1>a
  <2>2. CASE m < n
    BY <2>1, <2>2
  <2>3. CASE m = n
    BY <2>1, <2>3
  <2>4. CASE m > n
    <3>1. ~(m - 1 < n)
      BY <1>b, <2>4
    <3>2. s \in DOMAIN u[m - 1] /\ u[m - 1][s] = u[n][s]
      BY <1>2, <3>1
    <3>3. CASE m \notin D
      <4>1. u[m] = u[m - 1]
        BY <2>1, <3>3, TablesGrow
      <4> QED BY <2>1, <3>2, <4>1
    <3>4. CASE m \in D
      <4> DEFINE t == u[m - 1]
                 r == u[m]
      <4>1. r = Deleting!WithItem(t, m, f[m], b)
        BY <2>1, <3>4, TablesGrow
      <4>2. DOMAIN t \subseteq DOMAIN r /\ \A x \in DOMAIN t : r[x] = t[x]
        BY <4>1, WithItemFacts
      <4>3. s \in DOMAIN r /\ r[s] = t[s]
        BY <3>2, <4>2
      <4> QED BY <2>1, <3>2, <4>3
    <3> QED BY <3>3, <3>4
  <2> QED BY <1>b, <2>2, <2>3, <2>4
<1>3. k \in S
  <2> HIDE DEF S
  <2>1. 0 .. k \subseteq S
    BY <1>1, <1>2, <1>a, UpTo
  <2> QED BY <1>a, <2>1
<1>4. ~(k < n)
  BY <1>a, <1>b
<1>5. s \in DOMAIN u[k] /\ u[k][s] = u[n][s]
  BY <1>3, <1>4
<1> QED BY <1>5 DEF k

(* Every choice that fits has its sum in the table. *)
LEMMA AllChoices ==
    ASSUME NEW D, NEW f, SizesOf(f, D), NEW b \in Nat, NEW u, SumsTo(u, f, b, LargestTree),
           NEW X \in SUBSET D, Deleting!Total(f, X) <= b
    PROVE  Deleting!Total(f, X) \in DOMAIN u[LargestTree]
<1> DEFINE k == LargestTree
           Among(n) == {i \in X : i <= n}
           T(Y) == Deleting!Total(f, Y)
           S == {n \in 0 .. k : T(Among(n)) \in DOMAIN u[n]}
<1>a. k \in Nat /\ Items = 1 .. k /\ 1 \in Items
  BY TreesAreFinite DEF Items
<1>f. /\ D \in SUBSET Items /\ f \in [D -> Nat] /\ \A i \in D : f[i] \in Nat \ {0}
  BY DEF SizesOf
<1>x. X \subseteq 1 .. k
  BY <1>a, <1>f
<1>t. \A Y \in SUBSET X : T(Y) \in Nat /\ T(Y) <= b
  <2>1. ASSUME NEW Y \in SUBSET X PROVE T(Y) \in Nat /\ T(Y) <= b
    <3>1. Y \in SUBSET D
      OBVIOUS
    <3>2. T(Y) \in Nat /\ T(X) \in Nat
      BY <1>f, <3>1, TotalType
    <3>3. T(Y) <= T(X)
      BY <1>f, SmallerTotal
    <3> HIDE DEF T
    <3>4. T(X) <= b
      BY DEF T
    <3> QED BY <3>2, <3>3, <3>4
  <2> QED BY <2>1
<1> HIDE DEF k
<1>1. 0 \in S
  <2>1. Among(0) = {}
    <3>1. \A i \in X : ~(i <= 0)
      BY <1>a, <1>x
    <3> QED BY <3>1
  <2>2. T({}) = 0
    BY TotalNone
  <2>3. u[0] = [s \in {0} |-> 0]
    BY <1>a, TablesGrow
  <2>4. 0 \in DOMAIN u[0]
    BY <2>3
  <2>5. 0 \in 0 .. k
    BY <1>a
  <2> HIDE DEF T, Among
  <2> QED BY <2>1, <2>2, <2>4, <2>5
<1>2. ASSUME NEW n \in 1 .. k, n - 1 \in S PROVE n \in S
  <2>1. n \in 0 .. k /\ n \in Items
    BY <1>a
  <2>2. T(Among(n - 1)) \in DOMAIN u[n - 1]
    BY <1>2
  <2>3. DOMAIN u[n - 1] \subseteq DOMAIN u[n]
    <3>1. CASE n \in D
      <4>1. u[n] = Deleting!WithItem(u[n - 1], n, f[n], b)
        BY <2>1, <3>1, TablesGrow
      <4> QED BY <4>1, WithItemFacts
    <3>2. CASE n \notin D
      <4>1. u[n] = u[n - 1]
        BY <2>1, <3>2, TablesGrow
      <4> QED BY <4>1
    <3> QED BY <3>1, <3>2
  <2>4. CASE n \notin X
    <3>1. ASSUME NEW i \in X PROVE i <= n <=> i <= n - 1
      <4>1. i \in 1 .. k /\ i # n
        BY <1>x, <2>4
      <4> QED BY <1>a, <4>1
    <3>2. Among(n) = Among(n - 1)
      BY <3>1
    <3> HIDE DEF T, Among
    <3> QED BY <2>1, <2>2, <2>3, <3>2
  <2>5. CASE n \in X
    <3>1. ASSUME NEW i \in X PROVE i <= n <=> (i <= n - 1 \/ i = n)
      <4>1. i \in 1 .. k
        BY <1>x
      <4> QED BY <1>a, <4>1
    <3>2. Among(n) = Among(n - 1) \cup {n} /\ n \notin Among(n - 1)
      <4>1. ~(n <= n - 1) /\ n <= n
        BY <1>a
      <4> QED BY <2>5, <3>1, <4>1
    <3>3. Among(n - 1) \in SUBSET D /\ n \in D \ Among(n - 1) /\ Among(n) \in SUBSET X
          /\ Among(n - 1) \in SUBSET X
      BY <2>5, <3>2
    <3>4. T(Among(n)) = T(Among(n - 1)) + f[n]
      <4> HIDE DEF Among
      <4>1. T(Among(n - 1) \cup {n}) = T(Among(n - 1)) + f[n]
        BY <1>f, <3>3, TotalOneMore
      <4> QED BY <3>2, <4>1
    <3>5. T(Among(n)) \in Nat /\ T(Among(n)) <= b /\ T(Among(n - 1)) \in Nat
      <4> HIDE DEF T, Among
      <4> QED BY <1>t, <3>3
    <3>6. f[n] \in Nat
      BY <1>f, <3>3
    <3> HIDE DEF T, Among
    <3>7. T(Among(n)) \in f[n] .. b /\ T(Among(n)) - f[n] = T(Among(n - 1))
      BY <3>4, <3>5, <3>6
    <3>8. u[n] = Deleting!WithItem(u[n - 1], n, f[n], b)
      BY <2>1, <3>3, TablesGrow
    <3>9. \A s \in f[n] .. b : s - f[n] \in DOMAIN u[n - 1] => s \in DOMAIN u[n]
      BY <3>8, WithItemFacts
    <3> QED BY <2>1, <2>2, <3>7, <3>9
  <2> QED BY <2>4, <2>5
<1>3. k \in S
  <2> HIDE DEF S
  <2>1. 0 .. k \subseteq S
    BY <1>1, <1>2, <1>a, UpTo
  <2> QED BY <1>a, <2>1
<1>4. Among(k) = X
  <2>1. \A i \in X : i <= k
    BY <1>a, <1>x
  <2> QED BY <2>1
<1> HIDE DEF Among, T
<1>5. T(X) \in DOMAIN u[k]
  BY <1>3, <1>4
<1> QED BY <1>5 DEF T, k

BackTo(g, t, f, m) ==
    g = [s \in 0 .. m |->
           IF s = 0 \/ s \notin DOMAIN t THEN {} ELSE {t[s]} \cup g[s - f[t[s]]]]

LEMMA BackExists ==
    ASSUME NEW t, NEW f, NEW k \in Nat,
           \A s \in DOMAIN t \ {0} : f[t[s]] \in Nat \ {0} /\ f[t[s]] <= s
    PROVE  \E g : BackTo(g, t, f, k)
<1> DEFINE S == {n \in Nat : \E g : BackTo(g, t, f, n)}
<1>1. 0 \in S
  <2> DEFINE g == [n \in 0 .. 0 |-> {}]
  <2>1. BackTo(g, t, f, 0)
    BY DEF BackTo
  <2> QED BY <2>1
<1>2. ASSUME NEW n \in 1 .. k, n - 1 \in S PROVE n \in S
  <2>1. PICK g : BackTo(g, t, f, n - 1)
    BY <1>2
  <2> DEFINE last == IF n \in DOMAIN t THEN {t[n]} \cup g[n - f[t[n]]] ELSE {}
             h == [s \in 0 .. n |-> IF s = n THEN last ELSE g[s]]
  <2>2. g = [s \in 0 .. n - 1 |->
               IF s = 0 \/ s \notin DOMAIN t THEN {} ELSE {t[s]} \cup g[s - f[t[s]]]]
    BY <2>1 DEF BackTo
  <2>3. ASSUME NEW s \in 0 .. n
        PROVE  h[s] = IF s = 0 \/ s \notin DOMAIN t THEN {} ELSE {t[s]} \cup h[s - f[t[s]]]
    <3>1. CASE s = 0 \/ s \notin DOMAIN t
      <4>1. CASE s = n
        <5>1. n # 0
          OBVIOUS
        <5>2. h[s] = last
          BY <4>1
        <5> HIDE DEF h
        <5> QED BY <3>1, <4>1, <5>1, <5>2
      <4>2. CASE s # n
        <5>1. s \in 0 .. n - 1 /\ h[s] = g[s]
          BY <4>2
        <5> HIDE DEF h
        <5> QED BY <2>2, <3>1, <5>1
      <4> QED BY <4>1, <4>2
    <3>2. CASE s # 0 /\ s \in DOMAIN t
      <4>1. f[t[s]] \in Nat \ {0} /\ f[t[s]] <= s
        BY <3>2
      <4>2. s - f[t[s]] \in 0 .. n - 1
        BY <4>1
      <4>3. h[s - f[t[s]]] = g[s - f[t[s]]]
        BY <4>2
      <4>4. CASE s = n
        <5>1. h[s] = last
          BY <4>4
        <5> HIDE DEF h
        <5> QED BY <3>2, <4>3, <4>4, <5>1
      <4>5. CASE s # n
        <5>1. s \in 0 .. n - 1 /\ h[s] = g[s]
          BY <4>5
        <5> HIDE DEF h
        <5>2. g[s] = {t[s]} \cup g[s - f[t[s]]]
          BY <2>2, <3>2, <5>1
        <5> QED BY <3>2, <4>3, <5>1, <5>2
      <4> QED BY <4>4, <4>5
    <3> QED BY <3>1, <3>2
  <2>4. h = [s \in 0 .. n |-> h[s]]
    OBVIOUS
  <2>5. BackTo(h, t, f, n)
    <3> HIDE DEF h
    <3> QED BY <2>3, <2>4 DEF BackTo
  <2>6. n \in Nat
    OBVIOUS
  <2> HIDE DEF h
  <2> QED BY <2>5, <2>6
<1> HIDE DEF S
<1>3. k \in S
  BY <1>1, <1>2, UpTo
<1> QED BY <1>3 DEF S

(* What is found by following the table down has the sum it began with. *)
LEMMA BackSums ==
    ASSUME NEW D, NEW f, SizesOf(f, D), NEW b \in Nat, NEW u, SumsTo(u, f, b, LargestTree),
           NEW g, BackTo(g, u[LargestTree], f, b)
    PROVE  \A s \in DOMAIN u[LargestTree] : g[s] \in SUBSET D /\ Deleting!Total(f, g[s]) = s
<1> DEFINE k == LargestTree
           t == u[k]
           T(Y) == Deleting!Total(f, Y)
           Right(n, s) == g[s] \in SUBSET D /\ (\A i \in g[s] : i <= n) /\ T(g[s]) = s
           S == {n \in 0 .. k : \A s \in DOMAIN u[n] : Right(n, s)}
<1>a. k \in Nat /\ Items = 1 .. k /\ 1 \in Items
  BY TreesAreFinite DEF Items
<1>f. /\ D \in SUBSET Items /\ f \in [D -> Nat] /\ \A i \in D : f[i] \in Nat \ {0}
  BY DEF SizesOf
<1>g. \A s \in 0 .. b :
        g[s] = IF s = 0 \/ s \notin DOMAIN t THEN {} ELSE {t[s]} \cup g[s - f[t[s]]]
  BY DEF BackTo
<1>d. \A n \in 0 .. k : DOMAIN u[n] \subseteq 0 .. b /\ 0 \in DOMAIN u[n]
  BY TablesAre DEF TableOf
<1>l. \A n \in 0 .. k : \A s \in DOMAIN u[n] : s \in DOMAIN t /\ t[s] = u[n][s]
  <2>1. ASSUME NEW n \in 0 .. k, NEW s \in DOMAIN u[n] PROVE s \in DOMAIN t /\ t[s] = u[n][s]
    BY TablesLast
  <2> QED BY <2>1
<1> HIDE DEF k
<1>1. 0 \in S
  <2>1. u[0] = [s \in {0} |-> 0]
    BY <1>a, TablesGrow
  <2>2. DOMAIN u[0] = {0} /\ 0 \in 0 .. k /\ 0 \in 0 .. b
    BY <1>a, <2>1
  <2>3. g[0] = {}
    BY <1>g, <2>2
  <2>4. T({}) = 0
    BY TotalNone
  <2>5. Right(0, 0)
    <3> HIDE DEF T
    <3> QED BY <2>3, <2>4
  <2> HIDE DEF Right
  <2> QED BY <2>2, <2>5
<1>2. ASSUME NEW n \in 1 .. k, n - 1 \in S PROVE n \in S
  <2>1. n \in 0 .. k /\ n \in Items /\ n - 1 \in 0 .. k
    BY <1>a
  <2>2. \A s \in DOMAIN u[n - 1] : Right(n - 1, s)
    BY <1>2
  <2>3. ASSUME NEW s, Right(n - 1, s) PROVE Right(n, s)
    <3>1. ASSUME NEW i \in g[s] PROVE i <= n
      <4>1. i <= n - 1 /\ i \in 1 .. k
        BY <1>a, <1>f, <2>3
      <4> QED BY <1>a, <4>1
    <3> HIDE DEF T
    <3> QED BY <2>3, <3>1
  <2>4. CASE n \notin D
    <3>1. u[n] = u[n - 1]
      BY <2>1, <2>4, TablesGrow
    <3> HIDE DEF Right
    <3> QED BY <2>1, <2>2, <2>3, <3>1
  <2>5. CASE n \in D
    <3>1. u[n] = Deleting!WithItem(u[n - 1], n, f[n], b)
      BY <2>1, <2>5, TablesGrow
    <3>2. ASSUME NEW s \in DOMAIN u[n] PROVE Right(n, s)
      <4>1. CASE s \in DOMAIN u[n - 1]
        <5> HIDE DEF Right
        <5> QED BY <2>2, <2>3, <4>1
      <4>2. CASE s \notin DOMAIN u[n - 1]
        <5> DEFINE rest == s - f[n]
        <5>1. u[n][s] = n /\ s \in f[n] .. b /\ rest \in DOMAIN u[n - 1]
          BY <3>1, <4>2, WithItemFacts
        <5>2. f[n] \in Nat \ {0} /\ s \in 0 .. b /\ s # 0
          BY <1>d, <1>f, <2>1, <2>5, <4>2
        <5>3. s \in DOMAIN t /\ t[s] = n
          BY <1>l, <2>1, <5>1
        <5> HIDE DEF t
        <5>4. g[s] = {n} \cup g[rest]
          BY <1>g, <5>2, <5>3
        <5>5. g[rest] \in SUBSET D /\ (\A i \in g[rest] : i <= n - 1) /\ T(g[rest]) = rest
          BY <2>2, <5>1
        <5>6. n \in D \ g[rest]
          <6>1. ~(n <= n - 1)
            BY <1>a
          <6> QED BY <2>5, <5>5, <6>1
        <5> HIDE DEF rest
        <5>7. T(g[rest] \cup {n}) = T(g[rest]) + f[n]
          BY <1>f, <5>5, <5>6, TotalOneMore
        <5>8. g[s] = g[rest] \cup {n}
          BY <5>4
        <5>9. T(g[s]) = rest + f[n]
          <6> HIDE DEF T
          <6> QED BY <5>5, <5>7, <5>8
        <5>10. rest + f[n] = s
          BY <5>2 DEF rest
        <5>11. ASSUME NEW i \in g[s] PROVE i <= n
          <6>1. i \in 1 .. k
            BY <1>a, <1>f, <2>5, <5>5, <5>8
          <6>2. i <= n - 1 \/ i = n
            BY <5>5, <5>8
          <6> QED BY <1>a, <6>1, <6>2
        <5>12. g[s] \in SUBSET D
          BY <2>5, <5>5, <5>8
        <5> HIDE DEF T
        <5> QED BY <5>9, <5>10, <5>11, <5>12
      <4> QED BY <4>1, <4>2
    <3> HIDE DEF Right
    <3> QED BY <2>1, <3>2
  <2> QED BY <2>4, <2>5
<1>3. k \in S
  <2> HIDE DEF S
  <2>1. 0 .. k \subseteq S
    BY <1>1, <1>2, <1>a, UpTo
  <2> QED BY <1>a, <2>1
<1>4. \A s \in DOMAIN t : g[s] \in SUBSET D /\ T(g[s]) = s
  <2> HIDE DEF T
  <2> QED BY <1>3
<1> QED BY <1>4 DEF k

LEMMA GreatestOf ==
    ASSUME NEW b \in Nat, NEW V \in SUBSET (0 .. b), V # {}
    PROVE  Deleting!Max(V) \in V /\ \A y \in V : Deleting!Max(V) >= y
<1> DEFINE rest == {b - y : y \in V}
<1>1. rest \subseteq Nat /\ rest # {}
  <2>1. ASSUME NEW y \in V PROVE b - y \in Nat
    <3>1. y \in 0 .. b
      OBVIOUS
    <3> QED BY <3>1
  <2> QED BY <2>1
<1>2. PICK z \in rest : \A y \in rest : z <= y
  <2> HIDE DEF rest
  <2> QED BY <1>1, FirstOf
<1>3. PICK x \in V : z = b - x
  BY <1>2
<1>4. ASSUME NEW y \in V PROVE x >= y
  <2>1. b - y \in rest
    OBVIOUS
  <2>2. b - x <= b - y
    <3> HIDE DEF rest
    <3> QED BY <1>2, <1>3, <2>1
  <2>3. x \in 0 .. b /\ y \in 0 .. b
    OBVIOUS
  <2> QED BY <2>2, <2>3
<1> QED BY <1>4 DEF Deleting!Max

LEMMA KeepFacts ==
    ASSUME NEW D, NEW f, SizesOf(f, D), NEW b \in Nat
    PROVE  /\ Deleting!Keep(f, b) \in SUBSET D
           /\ Deleting!Total(f, Deleting!Keep(f, b)) \in 0 .. b
           /\ \A X \in SUBSET D : Deleting!Total(f, X) <= b =>
                Deleting!Total(f, Deleting!Keep(f, b)) >= Deleting!Total(f, X)
<1> DEFINE k == LargestTree
           t == Deleting!Sums(f, b)
           g == CHOOSE h : BackTo(h, t, f, b)
<1>1. PICK u : SumsTo(u, f, b, k) /\ t = u[k]
  BY SumsAre
<1>2. TableOf(t, f, b, k)
  <2>1. k \in 0 .. k
    BY TreesAreFinite
  <2>2. TableOf(u[k], f, b, k)
    BY <1>1, <2>1, TablesAre
  <2> QED BY <1>1, <2>2
<1>3. \A s \in DOMAIN t \ {0} : f[t[s]] \in Nat \ {0} /\ f[t[s]] <= s
  <2>1. \A i \in DOMAIN f : f[i] \in Nat \ {0}
    BY DEF SizesOf
  <2> HIDE DEF t
  <2> QED BY <1>2, <2>1 DEF TableOf
<1>4. Deleting!Keep(f, b) = g[Deleting!Max(DOMAIN t)]
  BY DEF Deleting!Keep, BackTo
<1>5. BackTo(g, t, f, b)
  <2> HIDE DEF t
  <2>1. \E h : BackTo(h, t, f, b)
    BY <1>3, BackExists
  <2> QED BY <2>1
<1> DEFINE m == Deleting!Max(DOMAIN t)
<1> HIDE DEF t, g
<1>6. m \in DOMAIN t /\ \A y \in DOMAIN t : m >= y
  BY <1>2, GreatestOf DEF TableOf
<1>7. \A s \in DOMAIN t : g[s] \in SUBSET D /\ Deleting!Total(f, g[s]) = s
  <2>1. BackTo(g, u[k], f, b)
    BY <1>1, <1>5
  <2>2. \A s \in DOMAIN u[k] : g[s] \in SUBSET D /\ Deleting!Total(f, g[s]) = s
    BY <1>1, <2>1, BackSums
  <2> QED BY <1>1, <2>2
<1>8. \A X \in SUBSET D : Deleting!Total(f, X) <= b => Deleting!Total(f, X) \in DOMAIN t
  <2>1. ASSUME NEW X \in SUBSET D, Deleting!Total(f, X) <= b
        PROVE  Deleting!Total(f, X) \in DOMAIN t
    <3>1. Deleting!Total(f, X) \in DOMAIN u[k]
      BY <1>1, <2>1, AllChoices
    <3> QED BY <1>1, <3>1
  <2> QED BY <2>1
<1>9. m \in 0 .. b
  BY <1>2, <1>6 DEF TableOf
<1> HIDE DEF m
<1>10. Deleting!Keep(f, b) = g[m]
  BY <1>4 DEF m
<1> QED BY <1>6, <1>7, <1>8, <1>9, <1>10

-----------------------------------------------------------------------------
(* The plans. *)

LEMMA UnionIsSmall ==
    ASSUME NEW D \in SUBSET Items, NEW f \in [D -> Nat], NEW R, NEW I \in SUBSET D,
           \A c \in D : IsFiniteSet(R[c]) /\ Cardinality(R[c]) <= f[c]
    PROVE  /\ IsFiniteSet(UNION {R[c] : c \in I})
           /\ Cardinality(UNION {R[c] : c \in I}) <= Deleting!Total(f, I)
<1> DEFINE k == LargestTree
           Among(n) == {i \in I : i <= n}
           All(Y) == UNION {R[c] : c \in Y}
           T(Y) == Deleting!Total(f, Y)
           S == {n \in 0 .. k : IsFiniteSet(All(Among(n))) /\ Cardinality(All(Among(n))) <= T(Among(n))}
<1>a. k \in Nat /\ I \subseteq 1 .. k
  BY TreesAreFinite DEF Items
<1> HIDE DEF k
<1>1. 0 \in S
  <2>1. Among(0) = {}
    <3>1. \A i \in I : ~(i <= 0)
      BY <1>a
    <3> QED BY <3>1
  <2>2. All({}) = {}
    OBVIOUS
  <2>3. T({}) = 0
    BY TotalNone
  <2>4. IsFiniteSet({}) /\ Cardinality({}) = 0
    BY FS_EmptySet
  <2>5. 0 \in 0 .. k /\ 0 <= 0
    BY <1>a
  <2> HIDE DEF T, Among, All
  <2> QED BY <2>1, <2>2, <2>3, <2>4, <2>5
<1>2. ASSUME NEW n \in 1 .. k, n - 1 \in S PROVE n \in S
  <2>1. n \in 0 .. k
    BY <1>a
  <2>2. IsFiniteSet(All(Among(n - 1))) /\ Cardinality(All(Among(n - 1))) <= T(Among(n - 1))
    BY <1>2
  <2>4. CASE n \notin I
    <3>1. ASSUME NEW i \in I PROVE i <= n <=> i <= n - 1
      <4>1. i \in 1 .. k /\ i # n
        BY <1>a, <2>4
      <4> QED BY <1>a, <4>1
    <3>2. Among(n) = Among(n - 1)
      BY <3>1
    <3> HIDE DEF T, Among, All
    <3> QED BY <2>1, <2>2, <3>2
  <2>5. CASE n \in I
    <3>1. ASSUME NEW i \in I PROVE i <= n <=> (i <= n - 1 \/ i = n)
      <4>1. i \in 1 .. k
        BY <1>a
      <4> QED BY <1>a, <4>1
    <3>2. Among(n) = Among(n - 1) \cup {n} /\ n \notin Among(n - 1)
      <4>1. ~(n <= n - 1) /\ n <= n
        BY <1>a
      <4> QED BY <2>5, <3>1, <4>1
    <3>3. Among(n - 1) \in SUBSET D /\ n \in D \ Among(n - 1)
      BY <2>5, <3>2
    <3>4. T(Among(n)) = T(Among(n - 1)) + f[n]
      <4> HIDE DEF Among
      <4>1. T(Among(n - 1) \cup {n}) = T(Among(n - 1)) + f[n]
        BY <3>3, TotalOneMore
      <4> QED BY <3>2, <4>1
    <3>5. T(Among(n - 1)) \in Nat /\ f[n] \in Nat
      <4> HIDE DEF Among
      <4> QED BY <3>3, TotalType
    <3>6. All(Among(n)) = All(Among(n - 1)) \cup R[n]
      BY <3>2
    <3>7. IsFiniteSet(R[n]) /\ Cardinality(R[n]) <= f[n]
      BY <3>3
    <3> HIDE DEF T, Among, All
    <3> DEFINE A == All(Among(n - 1))
               B == R[n]
    <3>8. IsFiniteSet(A) /\ IsFiniteSet(B)
      BY <2>2, <3>7
    <3> HIDE DEF A, B
    <3>9. /\ IsFiniteSet(A \cup B)
          /\ Cardinality(A \cup B) = Cardinality(A) + Cardinality(B) - Cardinality(A \cap B)
      BY <3>8, FS_Union
    <3>10. /\ Cardinality(A) \in Nat /\ Cardinality(B) \in Nat
           /\ Cardinality(A \cap B) \in Nat
      BY <3>8, FS_CardinalityType, FS_Intersection
    <3>11. Cardinality(A) <= T(Among(n - 1)) /\ Cardinality(B) <= f[n]
      BY <2>2, <3>7 DEF A, B
    <3>12. Cardinality(A \cup B) <= T(Among(n))
      BY <3>4, <3>5, <3>9, <3>10, <3>11
    <3>13. All(Among(n)) = A \cup B
      BY <3>6 DEF A, B
    <3> QED BY <2>1, <3>9, <3>12, <3>13
  <2> QED BY <2>4, <2>5
<1>3. k \in S
  <2> HIDE DEF S
  <2>1. 0 .. k \subseteq S
    BY <1>1, <1>2, <1>a, UpTo
  <2> QED BY <1>a, <2>1
<1>4. Among(k) = I
  <2>1. \A i \in I : i <= k
    BY <1>a
  <2> QED BY <2>1
<1> HIDE DEF Among
<1> QED BY <1>3, <1>4

(* What stays with a Rem when the plan below it is done. *)
Rest(r, p) == Deleting!Below(r) \ Subtrees(Els(p.delete))

GoodPlan(r, p, n) ==
    /\ p.residual \in 1 .. max
    /\ p.delete \in Seq(1 .. n)
    /\ SmallFrom({}, p.delete)
    /\ IsFiniteSet(Rest(r, p)) /\ Cardinality(Rest(r, p)) <= p.residual

LEMMA PlanIsGood ==
    ASSUME NEW n, TreeOf(n), max \in Nat \ {0}, NEW r \in 1 .. n, NEW plans,
           \A c \in Deleting!Children(r) : GoodPlan(c, plans[c], n)
    PROVE  GoodPlan(r, Deleting!PlanOf(r, plans), n)
<1> DEFINE C == Deleting!Children(r)
           sizes == [c \in C |-> plans[c].residual]
           ds == [c \in C |-> plans[c].delete]
           ones == [c \in C |-> <<c>>]
           keep == Deleting!Keep(sizes, max - 1)
           off == C \ keep
           d1 == Deleting!InOrder(C, ds)
           d2 == Deleting!InOrder(off, ones)
           p == Deleting!PlanOf(r, plans)
<1>1. p.residual = 1 + Deleting!Total(sizes, keep) /\ p.delete = d1 \o d2
  BY DEF Deleting!PlanOf
<1> HIDE DEF p
<1>t. n \in Nat /\ LargestTree \in Nat /\ n <= LargestTree /\ DOMAIN parent = 2 .. n
  BY TreeFacts DEF TreeOf
<1>2. C \subseteq 2 .. n
  BY <1>t DEF Deleting!Children
<1>3. C \in SUBSET Items /\ C \subseteq 1 .. n
  BY <1>t, <1>2 DEF Items
<1> HIDE DEF C
<1>g. \A c \in C : GoodPlan(c, plans[c], n)
  BY DEF C
<1>4. sizes \in [C -> 1 .. max] /\ 1 .. max \subseteq Nat \ {0}
  BY <1>g DEF GoodPlan
<1>5. SizesOf(sizes, C) /\ sizes \in [C -> Nat]
  BY <1>3, <1>4 DEF SizesOf
<1>6. \A c \in C : sizes[c] = plans[c].residual /\ ds[c] = plans[c].delete /\ ones[c] = <<c>>
  OBVIOUS
<1> HIDE DEF sizes, ds, ones
<1>7. keep \in SUBSET C /\ Deleting!Total(sizes, keep) \in 0 .. max - 1
  <2>1. max - 1 \in Nat
    OBVIOUS
  <2> QED BY <1>5, <2>1, KeepFacts
<1> HIDE DEF keep
<1>8. /\ d1 \in Seq(1 .. n) /\ Els(d1) = UNION {Els(ds[c]) : c \in C}
      /\ SmallFrom({}, d1)
  <2>1. \A c \in C : ds[c] \in Seq(1 .. n) /\ SmallFrom({}, ds[c])
    BY <1>6, <1>g DEF GoodPlan
  <2> QED BY <1>3, <2>1, InOrderFacts
<1>9. d2 \in Seq(off) /\ Els(d2) = off
  <2>1. \A c \in off : ones[c] \in Seq(off) /\ Els(ones[c]) = {c}
    <3>1. ASSUME NEW c \in off PROVE ones[c] \in Seq(off) /\ Els(ones[c]) = {c}
      <4>1. ones[c] = <<c>>
        BY <1>6
      <4>2. <<c>> \in Seq(off) /\ DOMAIN <<c>> = {1} /\ <<c>>[1] = c
        OBVIOUS
      <4> DEFINE one == <<c>>
      <4> HIDE DEF one
      <4>3. Els(one) = {one[1]}
        BY <4>2 DEF one, Els, Replacing!ToSet
      <4> QED BY <4>1, <4>2, <4>3 DEF one
    <3> QED BY <3>1
  <2>2. off \in SUBSET Items
    BY <1>3
  <2> HIDE DEF off
  <2>3. d2 \in Seq(off) /\ Els(d2) = UNION {Els(ones[c]) : c \in off}
    BY <2>1, <2>2, InOrderFacts
  <2>4. UNION {Els(ones[c]) : c \in off} = off
    <3>1. \A c \in off : Els(ones[c]) = {c}
      BY <2>1
    <3> QED BY <3>1
  <2> QED BY <2>3, <2>4
<1> HIDE DEF d1, d2
<1>10. d2 \in Seq(1 .. n)
  <2>1. off \subseteq 1 .. n
    BY <1>3
  <2> HIDE DEF off
  <2> QED BY <1>9, <2>1, SeqMonotonic
<1>11. p.delete \in Seq(1 .. n) /\ Els(p.delete) = Els(d1) \cup Els(d2)
  BY <1>1, <1>8, <1>10, ElsConcat
<1>12. SmallFrom(Subtrees(Els(d1)), d2)
  <2>1. ASSUME NEW i \in 1 .. Len(d2) PROVE IsSmall(Batch(Subtrees(Els(d1)), d2, i))
    <3>1. d2[i] \in C
      <4>1. d2[i] \in off
        BY <1>9
      <4> QED BY <4>1
    <3> DEFINE c == d2[i]
    <3> HIDE DEF c
    <3>2. Batch(Subtrees(Els(d1)), d2, i) \subseteq Rest(c, plans[c])
      <4>1. Els(plans[c].delete) \subseteq Els(d1)
        BY <1>6, <1>8, <3>1 DEF c
      <4> QED BY <4>1 DEF Batch, Rest, Subtrees, c
    <3>3. IsSmall(Rest(c, plans[c]))
      <4>1. GoodPlan(c, plans[c], n)
        BY <1>g, <3>1 DEF c
      <4>2. Cardinality(Rest(c, plans[c])) \in Nat
        BY <4>1, FS_CardinalityType DEF GoodPlan
      <4> QED BY <4>1, <4>2 DEF GoodPlan, IsSmall
    <3> QED BY <3>2, <3>3, SmallerStill
  <2> QED BY <2>1 DEF SmallFrom
<1>13. SmallFrom({}, p.delete)
  <2>1. SmallFrom({}, d1 \o d2)
    BY <1>8, <1>10, <1>12, SmallConcat
  <2> QED BY <1>1, <2>1
<1> DEFINE R == [c \in C |-> Rest(c, plans[c])]
           U == UNION {R[c] : c \in keep}
<1>14. IsFiniteSet(U) /\ Cardinality(U) <= Deleting!Total(sizes, keep)
  <2>1. \A c \in C : IsFiniteSet(R[c]) /\ Cardinality(R[c]) <= sizes[c]
    BY <1>6, <1>g DEF GoodPlan
  <2> HIDE DEF R
  <2> QED BY <1>3, <1>5, <1>7, <2>1, UnionIsSmall
<1>15. Rest(r, p) \subseteq {r} \cup U
  <2>1. ASSUME NEW x \in Rest(r, p), x # r PROVE x \in U
    <3>1. x \in Deleting!Below(r) /\ x \notin Subtrees(Els(p.delete))
      BY DEF Rest
    <3>2. PICK c \in C : x \in Deleting!Below(c)
      BY <2>1, <3>1, BelowChildren DEF C
    <3>3. c \notin off
      BY <1>9, <1>11, <3>1, <3>2 DEF Subtrees
    <3>4. c \in keep
      BY <3>3
    <3>5. Els(plans[c].delete) \subseteq Els(d1)
      BY <1>6, <1>8
    <3>6. x \in R[c]
      BY <1>11, <3>1, <3>2, <3>5 DEF Rest, Subtrees
    <3> QED BY <3>4, <3>6
  <2> QED BY <2>1
<1> HIDE DEF U
<1>16. IsFiniteSet(Rest(r, p)) /\ Cardinality(Rest(r, p)) <= p.residual
  <2>1. IsFiniteSet({r} \cup U) /\ Cardinality({r} \cup U) <= 1 + Cardinality(U)
    <3>1. {r} \cup U = U \cup {r}
      OBVIOUS
    <3>2. IsFiniteSet(U \cup {r})
      BY <1>14, FS_AddElement
    <3>3. Cardinality(U \cup {r}) = IF r \in U THEN Cardinality(U) ELSE Cardinality(U) + 1
      BY <1>14, FS_AddElement
    <3>4. Cardinality(U) \in Nat
      BY <1>14, FS_CardinalityType
    <3>5. Cardinality(U \cup {r}) <= 1 + Cardinality(U)
      <4>1. CASE r \in U
        BY <3>3, <3>4, <4>1
      <4>2. CASE r \notin U
        BY <3>3, <3>4, <4>2
      <4> QED BY <4>1, <4>2
    <3> QED BY <3>1, <3>2, <3>5
  <2>2. IsFiniteSet(Rest(r, p)) /\ Cardinality(Rest(r, p)) <= Cardinality({r} \cup U)
    BY <1>15, <2>1, FS_Subset
  <2>3. /\ Cardinality(U) \in Nat /\ Cardinality({r} \cup U) \in Nat
        /\ Cardinality(Rest(r, p)) \in Nat
    BY <1>14, <2>1, <2>2, FS_CardinalityType
  <2> QED BY <1>1, <1>7, <1>14, <2>1, <2>2, <2>3
<1>17. p.residual \in 1 .. max
  BY <1>1, <1>7
<1> QED BY <1>11, <1>13, <1>16, <1>17 DEF GoodPlan, p

VisitFrom(v, m, n) ==
    v = [x \in m .. n |-> Deleting!PlanOf(x, [c \in Deleting!Children(x) |-> v[c]])]

LEMMA VisitsExist ==
    ASSUME NEW n, TreeOf(n)
    PROVE  \E v : VisitFrom(v, 1, n)
<1> DEFINE C(x) == Deleting!Children(x)
           P(x, f) == Deleting!PlanOf(x, f)
           S == {k \in Nat : \E v : VisitFrom(v, n - k + 1, n)}
<1>t. n \in Nat
  BY TreeFacts
<1>c. \A x \in 1 .. n : C(x) \subseteq x + 1 .. n
  <2>1. ASSUME NEW x \in 1 .. n, NEW c \in C(x) PROVE c \in x + 1 .. n
    <3>1. c \in 2 .. n /\ parent[c] = x /\ parent[c] \in 1 .. c - 1
      BY TreeFacts DEF Deleting!Children
    <3> QED BY <1>t, <3>1
  <2> QED BY <2>1
<1> HIDE DEF C, P
<1>1. 0 \in S
  <2> DEFINE v == [x \in n + 1 .. n |-> P(x, <<>>)]
             w == [x \in n + 1 .. n |-> P(x, [c \in C(x) |-> v[c]])]
  <2>1. n + 1 .. n = {} /\ n - 0 + 1 = n + 1
    BY <1>t
  <2>2. v = w
    BY <2>1
  <2>3. VisitFrom(v, n - 0 + 1, n)
    BY <2>1, <2>2 DEF VisitFrom, C, P
  <2> HIDE DEF v
  <2> QED BY <2>3
<1>2. ASSUME NEW k \in 1 .. n, k - 1 \in S PROVE k \in S
  <2> DEFINE m == n - k + 1
  <2>1. PICK v : VisitFrom(v, n - (k - 1) + 1, n)
    BY <1>2
  <2>2. n - (k - 1) + 1 = m + 1 /\ m \in 1 .. n /\ k \in Nat
    BY <1>t
  <2> HIDE DEF m
  <2>3. v = [x \in m + 1 .. n |-> P(x, [c \in C(x) |-> v[c]])]
    BY <2>1, <2>2 DEF VisitFrom, C, P
  <2> DEFINE last == P(m, [c \in C(m) |-> v[c]])
             w == [x \in m .. n |-> IF x = m THEN last ELSE v[x]]
  <2>4. ASSUME NEW x \in m .. n PROVE w[x] = P(x, [c \in C(x) |-> w[c]])
    <3>1. x \in 1 .. n
      BY <2>2
    <3>2. ASSUME NEW c \in C(x) PROVE v[c] = w[c]
      <4>1. c \in x + 1 .. n
        BY <1>c, <3>1
      <4>2. c \in m .. n /\ c # m
        BY <1>t, <2>2, <4>1
      <4> QED BY <4>2
    <3>3. [c \in C(x) |-> v[c]] = [c \in C(x) |-> w[c]]
      <4> HIDE DEF w
      <4> QED BY <3>2
    <3>4. CASE x = m
      <4>1. w[x] = last
        BY <3>4
      <4> HIDE DEF w
      <4> QED BY <3>3, <3>4, <4>1
    <3>5. CASE x # m
      <4>1. x \in m + 1 .. n /\ w[x] = v[x]
        BY <1>t, <2>2, <3>5
      <4> HIDE DEF w
      <4>2. v[x] = P(x, [c \in C(x) |-> v[c]])
        BY <2>3, <4>1
      <4> QED BY <3>3, <4>1, <4>2
    <3> QED BY <3>4, <3>5
  <2>5. w = [x \in m .. n |-> w[x]]
    OBVIOUS
  <2>6. VisitFrom(w, m, n)
    <3> HIDE DEF w
    <3> QED BY <2>4, <2>5 DEF VisitFrom, C, P
  <2> HIDE DEF w
  <2> QED BY <2>2, <2>6 DEF m
<1> HIDE DEF S
<1>3. n \in S
  <2>1. 0 .. n \subseteq S
    BY <1>1, <1>2, <1>t, UpTo
  <2> QED BY <1>t, <2>1
<1>4. n - n + 1 = 1
  BY <1>t
<1> QED BY <1>3, <1>4 DEF S

LEMMA VisitsAreGood ==
    ASSUME NEW n, TreeOf(n), max \in Nat \ {0}, NEW v, VisitFrom(v, 1, n)
    PROVE  \A x \in 1 .. n : GoodPlan(x, v[x], n)
<1> DEFINE C(x) == Deleting!Children(x)
           P(x, f) == Deleting!PlanOf(x, f)
           S == {k \in 0 .. n : \A x \in n - k + 1 .. n : GoodPlan(x, v[x], n)}
<1>t. n \in Nat
  BY TreeFacts
<1>c. \A x \in 1 .. n : C(x) \subseteq x + 1 .. n
  <2>1. ASSUME NEW x \in 1 .. n, NEW c \in C(x) PROVE c \in x + 1 .. n
    <3>1. c \in 2 .. n /\ parent[c] = x /\ parent[c] \in 1 .. c - 1
      BY TreeFacts DEF Deleting!Children
    <3> QED BY <1>t, <3>1
  <2> QED BY <2>1
<1>v. \A x \in 1 .. n : v[x] = P(x, [c \in C(x) |-> v[c]])
  <2> HIDE DEF C, P
  <2>1. v = [x \in 1 .. n |-> P(x, [c \in C(x) |-> v[c]])]
    BY DEF VisitFrom, C, P
  <2> QED BY <2>1
<1>1. 0 \in S
  <2>1. n - 0 + 1 .. n = {} /\ 0 \in 0 .. n
    BY <1>t
  <2> QED BY <2>1
<1>2. ASSUME NEW k \in 1 .. n, k - 1 \in S PROVE k \in S
  <2> DEFINE m == n - k + 1
  <2>1. n - (k - 1) + 1 = m + 1 /\ m \in 1 .. n /\ k \in 0 .. n
    BY <1>t
  <2>2. \A x \in m + 1 .. n : GoodPlan(x, v[x], n)
    BY <1>2, <2>1
  <2> HIDE DEF m
  <2> DEFINE f == [c \in C(m) |-> v[c]]
  <2>3. \A c \in C(m) : GoodPlan(c, f[c], n)
    <3>1. ASSUME NEW c \in C(m) PROVE GoodPlan(c, f[c], n)
      <4>1. c \in m + 1 .. n
        BY <1>c, <2>1
      <4>2. f[c] = v[c]
        OBVIOUS
      <4> QED BY <2>2, <4>1, <4>2
    <3> QED BY <3>1
  <2>4. v[m] = P(m, f)
    BY <1>v, <2>1
  <2> HIDE DEF f
  <2>5. GoodPlan(m, v[m], n)
    BY <2>1, <2>3, <2>4, PlanIsGood
  <2>6. \A x \in m .. n : x = m \/ x \in m + 1 .. n
    BY <2>1
  <2>7. \A x \in m .. n : GoodPlan(x, v[x], n)
    BY <2>2, <2>5, <2>6
  <2> QED BY <2>1, <2>7 DEF m
<1>3. n \in S
  <2> HIDE DEF S
  <2>1. 0 .. n \subseteq S
    BY <1>1, <1>2, <1>t, UpTo
  <2> QED BY <1>t, <2>1
<1>4. n - n + 1 = 1
  BY <1>t
<1> QED BY <1>3, <1>4

LEMMA RootsAreGood ==
    ASSUME NEW n, TreeOf(n), max \in Nat \ {0}
    PROVE  LET d == Deleting!PlanDeleteRoots(1)
           IN /\ d \in Seq(1 .. n) /\ d # <<>> /\ d[Len(d)] = 1
              /\ SmallFrom({}, d)
<1> DEFINE v == CHOOSE w : VisitFrom(w, 1, n)
           s == v[1].delete
           one == <<1>>
<1>1. VisitFrom(v, 1, n)
  BY VisitsExist
<1>2. Deleting!PlanDeleteRoots(1) = Append(s, 1)
  BY TreeFacts DEF Deleting!PlanDeleteRoots, VisitFrom
<1>t. n \in Nat /\ 1 \in 1 .. n
  BY TreeFacts DEF TreeOf
<1> HIDE DEF v
<1>3. GoodPlan(1, v[1], n)
  BY <1>1, <1>t, VisitsAreGood
<1>4. s \in Seq(1 .. n) /\ SmallFrom({}, s)
  BY <1>3 DEF GoodPlan
<1>5. one \in Seq(1 .. n) /\ Len(one) = 1 /\ one[1] = 1
  BY <1>t
<1> HIDE DEF one
<1>6. SmallFrom(Subtrees(Els(s)), one)
  <2>1. ASSUME NEW i \in 1 .. Len(one) PROVE IsSmall(Batch(Subtrees(Els(s)), one, i))
    <3>1. i = 1
      BY <1>5
    <3>2. Batch(Subtrees(Els(s)), one, i) \subseteq Rest(1, v[1])
      BY <1>5, <3>1 DEF Batch, Rest
    <3>3. IsSmall(Rest(1, v[1]))
      <4>1. Cardinality(Rest(1, v[1])) \in Nat
        BY <1>3, FS_CardinalityType DEF GoodPlan
      <4> QED BY <1>3, <4>1 DEF GoodPlan, IsSmall
    <3> QED BY <3>2, <3>3, SmallerStill
  <2> QED BY <2>1 DEF SmallFrom
<1> HIDE DEF s
<1>7. SmallFrom({}, s \o one)
  BY <1>4, <1>5, <1>6, SmallConcat
<1>8. Append(s, 1) = s \o one
  BY <1>4 DEF one
<1>9. Append(s, 1) \in Seq(1 .. n) /\ Append(s, 1) # <<>>
      /\ Append(s, 1)[Len(Append(s, 1))] = 1
  BY <1>4, <1>t
<1> QED BY <1>2, <1>7, <1>8, <1>9

-----------------------------------------------------------------------------
(* The removals.  What is still there is one tree, and the plan that is left
   has small batches in it and ends with the root. *)

Underway ==
    /\ plan \in Seq(Deleting!Rems)
    /\ SmallFrom(Deleting!Rems \ there, plan)
    /\ IF plan = <<>> THEN 1 \notin there ELSE plan[Len(plan)] = 1

DeleteInv ==
    /\ \E n : TreeOf(n)
    /\ max \in 1 .. LargestBatch
    /\ there \subseteq Deleting!Rems /\ OneTree
    /\ doing \in {"remove", "verify"} => Underway
    /\ doing = "verify" => plan # <<>>
    /\ doing = "deleted" => there = {}

LEMMA DeleteStarts == ASSUME Deleting!Init PROVE DeleteInv
<1>1. PICK n \in 1 .. LargestTree :
        parent \in [2 .. n -> 1 .. n] /\ \A c \in 2 .. n : parent[c] < c
  BY DEF Deleting!Init
<1>2. TreeOf(n)
  BY <1>1 DEF TreeOf
<1>3. OneTree
  <2>1. ASSUME NEW r \in there \ {1} PROVE parent[r] \in there
    <3>1. there = 1 .. n /\ n \in Nat
      BY <1>2, TreeFacts DEF Deleting!Init
    <3>2. r \in 2 .. n
      BY <3>1
    <3>3. parent[r] \in 1 .. n
      BY <1>1, <3>2
    <3> QED BY <3>1, <3>3
  <2> QED BY <2>1 DEF OneTree
<1> QED BY <1>2, <1>3 DEF Deleting!Init, DeleteInv

(* A tree that stays has the same Rems below each. *)
LEMMA SameTree ==
    ASSUME UNCHANGED <<parent, max>>
    PROVE  /\ \A n : TreeOf(n) => TreeOf(n)'
           /\ Deleting!Rems' = Deleting!Rems
           /\ SmallFrom(Deleting!Rems \ there', plan')
                => SmallFrom(Deleting!Rems \ there, plan)'
<1>1. Deleting!Rems' = Deleting!Rems
  BY DEF Deleting!Rems, Deleting!Root
<1>2. Deleting!Lines' = Deleting!Lines
  BY <1>1 DEF Deleting!Lines, Deleting!Root
<1>3. \A n : TreeOf(n) => TreeOf(n)'
  BY DEF TreeOf
<1>4. ASSUME SmallFrom(Deleting!Rems \ there', plan')
      PROVE  SmallFrom(Deleting!Rems \ there, plan)'
  <2>1. ASSUME NEW k \in 1 .. Len(plan')
        PROVE  IsFiniteSet(Batch(Deleting!Rems \ there, plan, k)')
               /\ Cardinality(Batch(Deleting!Rems \ there, plan, k)') <= max
    <3>1. Batch(Deleting!Rems \ there, plan, k)' = Batch(Deleting!Rems \ there', plan', k)
      BY <1>1, <1>2 DEF Batch, Subtrees, Before, Deleting!Below
    <3>2. IsSmall(Batch(Deleting!Rems \ there', plan', k))
      BY <1>4 DEF SmallFrom
    <3> QED BY <3>1, <3>2 DEF IsSmall
  <2>2. max' = max
    OBVIOUS
  <2> QED BY <2>1, <2>2 DEF SmallFrom, IsSmall
<1> QED BY <1>1, <1>3, <1>4

(* What an unchanged plan needs when Rems have gone. *)
LEMMA FewerRems ==
    ASSUME DeleteInv, UNCHANGED <<parent, max, plan>>, there' \subseteq there,
           \A r \in there' \ {1} : parent[r] \in there',
           doing' \in {"remove", "verify"} => doing \in {"remove", "verify"},
           doing' = "verify" => plan # <<>>,
           doing' = "deleted" => there' = {}
    PROVE  DeleteInv'
<1>1. PICK n : TreeOf(n)
  BY DEF DeleteInv
<1>2. TreeOf(n)' /\ Deleting!Rems' = Deleting!Rems
  BY <1>1, SameTree
<1>3. ASSUME doing' \in {"remove", "verify"} PROVE Underway'
  <2>1. Underway
    BY <1>3 DEF DeleteInv
  <2>2. SmallFrom(Deleting!Rems \ there', plan)
    <3>1. max \in Nat /\ Deleting!Rems \ there \subseteq Deleting!Rems \ there'
      BY DEF DeleteInv
    <3>2. SmallFrom(Deleting!Rems \ there, plan)
      BY <2>1 DEF Underway
    <3> QED BY <3>1, <3>2, SmallMonotone
  <2>3. SmallFrom(Deleting!Rems \ there, plan)'
    BY <2>2, SameTree
  <2> QED BY <1>2, <2>1, <2>3 DEF Underway
<1> QED BY <1>2, <1>3 DEF DeleteInv, OneTree

LEMMA HeadAndTail ==
    ASSUME NEW S, NEW s \in Seq(S), s # <<>>
    PROVE  /\ Len(s) \in Nat /\ Len(s) # 0 /\ Tail(s) \in Seq(S)
           /\ Len(Tail(s)) = Len(s) - 1 /\ (Len(s) # 1 => Tail(s) # <<>>)
           /\ (Len(s) = 1 => Tail(s) = <<>>)
           /\ Head(s) = s[1] /\ Head(s) \in S
           /\ \A i \in 1 .. Len(s) - 1 : Tail(s)[i] = s[i + 1]
<1>1. Len(s) \in Nat /\ Len(s) # 0 /\ Tail(s) \in Seq(S) /\ Len(Tail(s)) = Len(s) - 1
  OBVIOUS
<1>2. Head(s) = s[1] /\ s[1] \in S
  BY <1>1, ElementOfSeq
<1>3. \A i \in 1 .. Len(s) - 1 : Tail(s)[i] = s[i + 1]
  OBVIOUS
<1>4. \A t \in Seq(S) : t = <<>> <=> Len(t) = 0
  OBVIOUS
<1>5. (Len(s) # 1 => Tail(s) # <<>>) /\ (Len(s) = 1 => Tail(s) = <<>>)
  BY <1>1, <1>4
<1> QED BY <1>1, <1>2, <1>3, <1>5

(* What the rest of a plan needs when its head is gone. *)
LEMMA HeadIsGone ==
    ASSUME DeleteInv, Underway, plan # <<>>, UNCHANGED <<parent, max>>,
           plan' = Tail(plan), doing' = "remove", there' \subseteq there,
           \A r \in there' \ {1} : parent[r] \in there',
           Deleting!Below(Head(plan)) \cap there' = {}
    PROVE  DeleteInv'
<1>1. PICK n : TreeOf(n)
  BY DEF DeleteInv
<1>t. n \in Nat /\ Deleting!Rems = 1 .. n
  BY <1>1, TreeFacts
<1>2. TreeOf(n)' /\ Deleting!Rems' = Deleting!Rems
  BY <1>1, SameTree
<1>3. plan \in Seq(1 .. n) /\ SmallFrom(Deleting!Rems \ there, plan) /\ plan[Len(plan)] = 1
  BY <1>t DEF Underway
<1>4. /\ Len(plan) \in Nat /\ Len(plan) # 0 /\ Tail(plan) \in Seq(1 .. n)
      /\ Len(Tail(plan)) = Len(plan) - 1 /\ (Len(plan) # 1 => Tail(plan) # <<>>)
      /\ (Len(plan) = 1 => Tail(plan) = <<>>)
      /\ Head(plan) = plan[1] /\ Head(plan) \in 1 .. n
      /\ \A i \in 1 .. Len(plan) - 1 : Tail(plan)[i] = plan[i + 1]
  <2> DEFINE R == 1 .. n
             s == plan
  <2>1. s \in Seq(R) /\ s # <<>>
    BY <1>3
  <2> HIDE DEF R, s
  <2>2. /\ Len(s) \in Nat /\ Len(s) # 0 /\ Tail(s) \in Seq(R)
        /\ Len(Tail(s)) = Len(s) - 1 /\ (Len(s) # 1 => Tail(s) # <<>>)
        /\ (Len(s) = 1 => Tail(s) = <<>>)
        /\ Head(s) = s[1] /\ Head(s) \in R
        /\ \A i \in 1 .. Len(s) - 1 : Tail(s)[i] = s[i + 1]
    BY <2>1, HeadAndTail
  <2> QED BY <2>2 DEF R, s
<1>5. SmallFrom(Deleting!Rems \ there', Tail(plan))
  <2> DEFINE X == Deleting!Rems \ there
             B == Deleting!Below(Head(plan))
  <2>1. max \in Nat
    BY DEF DeleteInv
  <2>2. SmallFrom(X \cup B, Tail(plan))
    BY <1>3, <2>1, SmallTail
  <2>3. X \cup B \subseteq Deleting!Rems \ there'
    BY <1>1, <1>t, <1>4, BelowFacts
  <2> HIDE DEF X, B
  <2> QED BY <2>1, <2>2, <2>3, SmallMonotone
<1>6. SmallFrom(Deleting!Rems \ there, plan)'
  BY <1>5, SameTree
<1>7. IF plan' = <<>> THEN 1 \notin there' ELSE plan'[Len(plan')] = 1
  <2>1. CASE Len(plan) = 1
    <3>1. plan' = <<>> /\ Head(plan) = 1
      BY <1>3, <1>4, <2>1
    <3>2. 1 \in 1 .. n
      BY <1>4, <3>1
    <3>3. 1 \in Deleting!Below(1)
      BY <1>1, <3>2, BelowFacts
    <3> QED BY <3>1, <3>3
  <2>2. CASE Len(plan) # 1
    <3>1. Len(plan) - 1 \in 1 .. Len(plan) - 1 /\ Len(plan) - 1 + 1 = Len(plan)
      BY <1>3, <1>4, <2>2
    <3>2. Tail(plan)[Len(plan) - 1] = plan[Len(plan) - 1 + 1] /\ Tail(plan) # <<>>
      BY <1>4, <2>2, <3>1
    <3>3. Tail(plan)[Len(plan) - 1] = 1
      BY <1>3, <3>1, <3>2
    <3> QED BY <1>4, <3>2, <3>3
  <2> QED BY <2>1, <2>2
<1>8. Underway'
  BY <1>2, <1>4, <1>6, <1>7, <1>t DEF Underway
<1> QED BY <1>2, <1>8 DEF DeleteInv, OneTree

LEMMA DeleteSteps == ASSUME DeleteInv, Deleting!Next PROVE DeleteInv'
<1>1. PICK n : TreeOf(n)
  BY DEF DeleteInv
<1>t. n \in Nat /\ Deleting!Rems = 1 .. n
  BY <1>1, TreeFacts
<1>2. there \subseteq 1 .. n /\ OneTree
  BY <1>t DEF DeleteInv
<1>3. CASE Deleting!MakePlan
  <2>1. /\ doing' = "remove" /\ plan' = Deleting!PlanDeleteRoots(1)
        /\ UNCHANGED <<parent, max, there>>
    BY <1>3 DEF Deleting!MakePlan, Deleting!Root
  <2>2. max \in Nat \ {0}
    BY DEF DeleteInv
  <2>3. /\ plan' \in Seq(1 .. n) /\ plan' # <<>> /\ plan'[Len(plan')] = 1
        /\ SmallFrom({}, plan')
    BY <1>1, <2>1, <2>2, RootsAreGood
  <2>4. SmallFrom(Deleting!Rems \ there', plan')
    BY <2>2, <2>3, SmallMonotone
  <2>5. SmallFrom(Deleting!Rems \ there, plan)' /\ TreeOf(n)' /\ Deleting!Rems' = Deleting!Rems
    BY <1>1, <2>1, <2>4, SameTree
  <2>6. Underway'
    BY <1>t, <2>3, <2>5 DEF Underway
  <2> QED BY <2>1, <2>5, <2>6 DEF DeleteInv, OneTree
<1>4. CASE Deleting!RemoveNext
  <2>1. /\ doing = "remove" /\ plan # <<>> /\ UNCHANGED <<parent, max, there>>
    BY <1>4 DEF Deleting!RemoveNext
  <2>2. Underway
    BY <2>1 DEF DeleteInv
  <2>3. CASE Head(plan) \in there
    <3>1. doing' = "verify" /\ plan' = plan
      BY <1>4, <2>3 DEF Deleting!RemoveNext
    <3>2. there' \subseteq there /\ \A r \in there' \ {1} : parent[r] \in there'
      BY <1>2, <2>1 DEF OneTree
    <3> QED BY <2>1, <3>1, <3>2, FewerRems
  <2>4. CASE Head(plan) \notin there
    <3>1. doing' = "remove" /\ plan' = Tail(plan)
      BY <1>4, <2>1, <2>4 DEF Deleting!RemoveNext
    <3>2. there' \subseteq there /\ \A r \in there' \ {1} : parent[r] \in there'
      BY <1>2, <2>1 DEF OneTree
    <3>3. Head(plan) \in 1 .. n
      BY <1>t, <2>1, <2>2 DEF Underway
    <3>4. Deleting!Below(Head(plan)) \cap there' = {}
      BY <1>1, <1>2, <2>1, <2>4, <3>3, GoneBelow
    <3> QED BY <2>1, <2>2, <3>1, <3>2, <3>4, HeadIsGone
  <2> QED BY <2>3, <2>4
<1>5. CASE Deleting!Verify
  <2>1. doing = "verify" /\ plan # <<>> /\ UNCHANGED <<parent, max>>
    BY <1>5 DEF Deleting!Verify, DeleteInv
  <2>2. Underway
    BY <2>1 DEF DeleteInv
  <2>3. CASE /\ there' = there \ Deleting!Below(Head(plan))
             /\ plan' = Tail(plan) /\ doing' = "remove"
    <3>1. Head(plan) \in 1 .. n
      BY <1>t, <2>1, <2>2 DEF Underway
    <3>2. \A r \in there' \ {1} : parent[r] \in there'
      BY <1>1, <1>2, <2>3, <3>1, PruningKeepsTree
    <3>3. there' \subseteq there /\ Deleting!Below(Head(plan)) \cap there' = {}
      BY <2>3
    <3> QED BY <2>1, <2>2, <2>3, <3>2, <3>3, HeadIsGone
  <2>4. CASE doing' = "failed" /\ UNCHANGED <<there, plan>>
    <3>1. there' \subseteq there /\ \A r \in there' \ {1} : parent[r] \in there'
      BY <1>2, <2>4 DEF OneTree
    <3> QED BY <2>1, <2>4, <3>1, FewerRems
  <2> QED BY <1>5, <2>3, <2>4 DEF Deleting!Verify
<1>6. CASE Deleting!Pruned
  <2>1. /\ doing \in {"remove", "verify"} /\ UNCHANGED <<parent, max, plan, doing>>
    BY <1>6 DEF Deleting!Pruned
  <2>2. PICK r \in there \ {1} : there' = there \ Deleting!Below(r)
    BY <1>6 DEF Deleting!Pruned, Deleting!Root
  <2>3. r \in 1 .. n
    BY <1>2
  <2>4. \A x \in there' \ {1} : parent[x] \in there'
    BY <1>1, <1>2, <2>2, <2>3, PruningKeepsTree
  <2>5. there' \subseteq there
    BY <2>2
  <2>6. doing = "verify" => plan # <<>>
    BY DEF DeleteInv
  <2> QED BY <2>1, <2>4, <2>5, <2>6, FewerRems
<1>7. CASE Deleting!Done
  <2>1. /\ doing = "remove" /\ plan = <<>> /\ doing' = "deleted"
        /\ UNCHANGED <<parent, max, plan, there>>
    BY <1>7 DEF Deleting!Done
  <2>2. 1 \notin there
    BY <2>1 DEF DeleteInv, Underway
  <2>3. there = {}
    BY <1>1, <1>2, <2>2, RootGone
  <2>4. there' \subseteq there /\ \A r \in there' \ {1} : parent[r] \in there'
    BY <2>1, <2>3
  <2> QED BY <2>1, <2>3, <2>4, FewerRems
<1> QED BY <1>3, <1>4, <1>5, <1>6, <1>7 DEF Deleting!Next

LEMMA DeleteStays == ASSUME DeleteInv, UNCHANGED deleteVars PROVE DeleteInv'
<1>1. UNCHANGED <<parent, max, plan, there, doing>>
  BY DEF deleteVars
<1>2. /\ there' \subseteq there /\ \A r \in there' \ {1} : parent[r] \in there'
      /\ doing = "verify" => plan # <<>>
      /\ doing = "deleted" => there = {}
  BY <1>1 DEF DeleteInv, OneTree
<1> QED BY <1>1, <1>2, FewerRems

LEMMA CountIs == ASSUME NEW S PROVE Deleting!Cardinality(S) = Cardinality(S)
  BY DEF Deleting!Cardinality, Cardinality, Deleting!IsFiniteSet, IsFiniteSet

LEMMA BatchesSmall == ASSUME DeleteInv PROVE Deleting!BatchesAreSmall
<1>1. PICK n : TreeOf(n)
  BY DEF DeleteInv
<1>t. n \in Nat /\ Deleting!Rems = 1 .. n
  BY <1>1, TreeFacts
<1>2. ASSUME doing = "verify"
      PROVE  Deleting!Cardinality(Deleting!Below(Head(plan)) \cap there) <= max
  <2>1. Underway /\ plan # <<>>
    BY <1>2 DEF DeleteInv
  <2>2. Head(plan) = plan[1] /\ 1 \in 1 .. Len(plan)
    <3>1. plan \in Seq(1 .. n)
      BY <1>t, <2>1 DEF Underway
    <3>2. Len(plan) \in Nat /\ Len(plan) # 0 /\ Head(plan) = plan[1]
      BY <2>1, <3>1, HeadAndTail
    <3> QED BY <3>2
  <2>4. IsSmall(Batch(Deleting!Rems \ there, plan, 1))
    BY <2>1, <2>2 DEF Underway, SmallFrom
  <2>5. Before(plan, 1) = {}
    BY DEF Before
  <2>6. Deleting!Below(plan[1]) \cap there \subseteq Batch(Deleting!Rems \ there, plan, 1)
    BY <2>5 DEF Batch, Subtrees
  <2>7. max \in Nat
    BY DEF DeleteInv
  <2>8. IsSmall(Deleting!Below(plan[1]) \cap there)
    BY <2>4, <2>6, <2>7, SmallerStill
  <2> QED BY <2>2, <2>8, CountIs DEF IsSmall
<1> QED BY <1>2 DEF Deleting!BatchesAreSmall, DeleteInv, OneTree, Deleting!Root

LEMMA MostIsKept == ASSUME DeleteInv PROVE Deleting!KeepsMost
<1>1. SUFFICES ASSUME NEW f \in [1 .. (LargestTree - 2) -> 1 .. max]
               PROVE  Deleting!Total(f, Deleting!Keep(f, max - 1))
                        = Deleting!Max({s \in {Deleting!Total(f, X) : X \in SUBSET DOMAIN f} :
                                           s < max})
  BY DEF Deleting!KeepsMost
<1> DEFINE D == 1 .. (LargestTree - 2)
           T(X) == Deleting!Total(f, X)
           b == max - 1
           K == Deleting!Keep(f, b)
           V == {s \in {T(X) : X \in SUBSET DOMAIN f} : s < max}
<1>2. max \in Nat \ {0} /\ b \in Nat
  BY DEF DeleteInv
<1>3. SizesOf(f, D) /\ f \in [D -> Nat] /\ D \in SUBSET Items /\ DOMAIN f = D
  <2>1. 1 .. max \subseteq Nat \ {0} /\ D \subseteq Items
    BY <1>2, TreesAreFinite DEF Items
  <2> QED BY <2>1 DEF SizesOf
<1> HIDE DEF D
<1>4. /\ K \in SUBSET D /\ T(K) \in 0 .. max - 1
      /\ \A X \in SUBSET D : T(X) <= max - 1 => T(K) >= T(X)
  <2> HIDE DEF b
  <2>1. /\ Deleting!Keep(f, b) \in SUBSET D
        /\ Deleting!Total(f, Deleting!Keep(f, b)) \in 0 .. b
        /\ \A X \in SUBSET D : Deleting!Total(f, X) <= b =>
             Deleting!Total(f, Deleting!Keep(f, b)) >= Deleting!Total(f, X)
    <3> HIDE DEF K, T, V
    <3>1. SizesOf(f, D) /\ b \in Nat
      BY <1>2, <1>3
    <3> QED BY <3>1, KeepFacts
  <2> QED BY <2>1 DEF b
<1>5. \A X \in SUBSET D : T(X) \in Nat
  BY <1>3, TotalType
<1> HIDE DEF K, T
<1>6. V \in SUBSET (0 .. max - 1)
  <2>1. ASSUME NEW s \in V PROVE s \in 0 .. max - 1
    <3>1. PICK X \in SUBSET D : s = T(X)
      BY <1>3
    <3>2. s \in Nat /\ s < max
      BY <1>5, <3>1
    <3> QED BY <1>2, <3>2
  <2> QED BY <2>1
<1>7. T(K) \in V
  <2>1. T(K) < max
    BY <1>2, <1>4
  <2> QED BY <1>3, <1>4, <2>1
<1>8. ASSUME NEW s \in V PROVE T(K) >= s
  <2>1. PICK X \in SUBSET D : s = T(X)
    BY <1>3
  <2>2. s \in Nat /\ s < max
    BY <1>5, <2>1
  <2>3. s <= max - 1
    BY <1>2, <2>2
  <2> QED BY <1>4, <2>1, <2>3
<1>9. Deleting!Max(V) \in V /\ \A y \in V : Deleting!Max(V) >= y
  <2> HIDE DEF V
  <2> QED BY <1>2, <1>6, <1>7, GreatestOf
<1>10. T(K) = Deleting!Max(V)
  <2> DEFINE M == Deleting!Max(V)
  <2>1. M \in V /\ M >= T(K) /\ T(K) >= M
    BY <1>7, <1>8, <1>9
  <2>2. M \in 0 .. max - 1
    BY <1>6, <2>1
  <2> HIDE DEF M, V
  <2>3. T(K) = M
    BY <1>2, <1>4, <2>1, <2>2
  <2> QED BY <2>3 DEF M
<1> QED BY <1>10 DEF K, T

(* Whatever the tree and the limit, and whatever the user deletes meanwhile,
   RemNote is never asked to remove more Rems at once than the limit allows, what
   is left is one tree until the end, a deletion that succeeds leaves nothing, and
   as much as possible stays together. *)
THEOREM DeletionsHold == AllSpec => []FewSmallBatches
<1>1. AllInit => DeleteInv
  BY DeleteStarts DEF AllInit
<1>2. DeleteInv /\ [AllNext]_allVars => DeleteInv'
  <2>1. SUFFICES ASSUME DeleteInv, [AllNext]_allVars PROVE DeleteInv'
    OBVIOUS
  <2>2. CASE Deleting!Next
    BY <2>1, <2>2, DeleteSteps
  <2>3. CASE UNCHANGED deleteVars
    BY <2>1, <2>3, DeleteStays
  <2> QED BY <2>1, <2>2, <2>3 DEF AllNext, allVars, deleteVars
<1>3. DeleteInv => FewSmallBatches
  BY BatchesSmall, MostIsKept DEF FewSmallBatches
<1> QED BY <1>1, <1>2, <1>3, PTL DEF AllSpec
=============================================================================
