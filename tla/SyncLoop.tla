------------------------------ MODULE SyncLoop ------------------------------
(***************************************************************************)
(* The sync loop of the plugin, runSyncLoop of packages/plugin/src/bridge/ *)
(* runtime.ts, with its sockets (ws.ts, startControlChannel), its watchdog *)
(* and what starts it.  Every step runs to the next await.                 *)
(*                                                                         *)
(* A run that the watchdog has given up goes on as long as its awaits are  *)
(* answered.  What it executes is left out: which ops these are matters to *)
(* nobody here, and each of its races may end at any time, or never.  All  *)
(* sockets that are closed are alike (None); the number of a run or of a   *)
(* socket is used again when it has ended, or no one can use it any more.  *)
(* The poll after a run (syncPollTimer) is one more StartSync.  Durations  *)
(* are left out, except that a socket is opened (8 s) long before the      *)
(* watchdog trips (180 s): that of a run that dials at once, not of one    *)
(* that has awaited a toast first.                                         *)
(***************************************************************************)
EXTENDS Integers, FiniteSets, Functions

CONSTANTS
    Ops,
    Runs, Sockets,   \* numbers, from 1; bounds
    MaxConcurrency,  \* the setting sync-concurrency
    MaxStreak,       \* REQUEST_OPS_RETRY_MAX_STREAK
    MaxLate          \* bound: requests of a socket before another is sent, or
                     \* that are left when a wait times out

VARIABLES
    controlWs, workerWs, \* None unless open
    requests,  \* the number of RequestOps not answered yet, by socket
    syncing, activeRun,
    watchdog,  \* the run for which syncWatchdogTimer is set
    cooldown,  \* now < syncWatchdogTrippedUntil
    mode,      \* of each run: "silent", "manual", or "late" (see Trip)
    phase,     \* where each run stands
    runWs,     \* its ws; None before, and when that is closed
    noWork, streak,
    inFlight,  \* of the current run: the ops entered in its map, each with the
               \* newest of its executions
    executing, \* the number of executions of each op that have not ended
    racing     \* the ops whose promises, entered when the race began, it awaits

loopVars == <<controlWs, workerWs, requests, syncing, activeRun, watchdog,
              cooldown, mode, phase, runWs, noWork, streak, inFlight,
              executing, racing>>

sockVars == <<controlWs, workerWs, requests>>
flagVars == <<syncing, activeRun, watchdog, cooldown>>
pullVars == <<noWork, streak>>
workVars == <<inFlight, executing, racing>>

None == 0

Init ==
    /\ controlWs = None /\ workerWs = None
    /\ requests = [w \in Sockets |-> 0]
    /\ syncing = FALSE /\ activeRun = None /\ watchdog = None
    /\ cooldown = FALSE
    /\ mode = [r \in Runs |-> "silent"]
    /\ phase = [r \in Runs |-> "none"]
    /\ runWs = [r \in Runs |-> None]
    /\ noWork = [r \in Runs |-> FALSE]
    /\ streak = [r \in Runs |-> 0]
    /\ inFlight = {} /\ executing = [o \in Ops |-> 0] /\ racing = {}

(* The sockets that someone can use: a worker socket that another has replaced
   is left to its run. *)
Open == ({controlWs, workerWs} \cup Range(runWs)) \ {None}

-----------------------------------------------------------------------------
(* Sockets *)

Fresh(w) == w \notin Open /\ \A v \in Sockets \ Open : w <= v

(* The sockets W close, and the runs R let go of theirs; whatever was under way
   on a socket that nobody uses any more is lost. *)
Disconnect(W, R) ==
    /\ controlWs' = IF controlWs \in W THEN None ELSE controlWs
    /\ workerWs' = IF workerWs \in W THEN None ELSE workerWs
    /\ runWs' = [r \in Runs |-> IF r \in R \/ runWs[r] \in W THEN None ELSE runWs[r]]
    /\ requests' = [w \in Sockets |-> IF w \in Open' THEN requests[w] ELSE 0]

(* startControlChannel, at first and whenever the channel has been closed. *)
Reconnect ==
    /\ controlWs = None
    /\ \E w \in Sockets : Fresh(w) /\ controlWs' = w
    /\ UNCHANGED <<workerWs, requests, flagVars, mode, phase, runWs, pullVars, workVars>>

Use(r, w) ==
    /\ runWs' = [runWs EXCEPT ![r] = w]
    /\ phase' = [phase EXCEPT ![r] = "pull"]

(* getOrOpenWorkerWs: the control channel, or the worker socket, or dial. *)
ChooseSocket(r) ==
    IF controlWs # None THEN Use(r, controlWs)
    ELSE IF workerWs # None THEN Use(r, workerWs)
    ELSE phase' = [phase EXCEPT ![r] = "dialing"] /\ UNCHANGED runWs

-----------------------------------------------------------------------------
(* Starting a run *)

(* runSyncLoop up to its first await.  (A run that has ended is as in Init.) *)
Starts(r, m) ==
    /\ ~syncing
    /\ phase[r] = "none"
    /\ \A q \in Runs : phase[q] = "none" => r <= q
    /\ syncing' = TRUE /\ activeRun' = r /\ watchdog' = r
    /\ mode' = [mode EXCEPT ![r] = m]
    /\ UNCHANGED <<sockVars, cooldown, pullVars, workVars>>

(* Auto-sync of a control channel, which may have been closed again while its
   toast and its setting were awaited. *)
AutoSync ==
    /\ ~cooldown
    /\ \E r \in Runs : Starts(r, "silent") /\ ChooseSocket(r)

(* StartSync on the control channel, or the light poll 1.5 s after a run that
   has processed something. *)
StartSync == controlWs # None /\ AutoSync

(* The user's command: a toast is awaited first. *)
Manual ==
    \E r \in Runs :
        /\ Starts(r, "manual")
        /\ phase' = [phase EXCEPT ![r] = "toast"]
        /\ UNCHANGED runWs

(* The toast is there, in its own time. *)
Toasted(r) ==
    /\ phase[r] = "toast"
    /\ ChooseSocket(r)
    /\ UNCHANGED <<sockVars, flagVars, mode, pullVars, workVars>>

-----------------------------------------------------------------------------
(* Ending a run *)

(* No run is current any more. *)
GiveBack ==
    /\ syncing' = FALSE /\ activeRun' = None /\ watchdog' = None
    /\ inFlight' = {} /\ executing' = [o \in Ops |-> 0] /\ racing' = {}

(* The finally block for the runs R, which have come to an end: only the one
   that is still current gives the flags back. *)
Finally(R) ==
    /\ phase' = [r \in Runs |-> IF r \in R THEN "none" ELSE phase[r]]
    /\ IF activeRun \in R THEN GiveBack ELSE UNCHANGED <<syncing, activeRun, watchdog, workVars>>
    /\ mode' = [r \in Runs |-> IF r \in R THEN "silent" ELSE mode[r]]
    /\ noWork' = [r \in Runs |-> r \notin R /\ noWork[r]]
    /\ streak' = [r \in Runs |-> IF r \in R THEN 0 ELSE streak[r]]
    /\ UNCHANGED cooldown

(* The first toast is refused, outside of the try: nobody gives the flags back
   until the watchdog trips. *)
ToastFails(r) ==
    /\ phase[r] = "toast"
    /\ \/ /\ r = activeRun
          /\ phase' = [phase EXCEPT ![r] = "stuck"]
          /\ UNCHANGED <<flagVars, mode, pullVars, workVars>>
       \/ r # activeRun /\ Finally({r})
    /\ UNCHANGED <<sockVars, runWs>>

(* The last toast is over, one way or the other. *)
Bye(r) ==
    /\ phase[r] = "farewell"
    /\ Finally({r})
    /\ UNCHANGED <<sockVars, runWs>>

Tripping ==
    /\ syncing /\ watchdog = activeRun
    /\ phase[activeRun] = "dialing" => mode[activeRun] = "manual"

(* Slip: the sockets are left to the run. *)
TripKeepingSockets ==
    /\ Tripping
    /\ GiveBack
    /\ cooldown' = TRUE
    /\ UNCHANGED <<sockVars, mode, phase, runWs, pullVars>>

(* Slip: the watchdog relies on the run to give the flags back. *)
TripRelyingOnRun ==
    /\ Tripping
    /\ watchdog' = None
    /\ cooldown' = TRUE
    /\ Disconnect({controlWs, workerWs}, {})
    /\ UNCHANGED <<syncing, activeRun, mode, phase, pullVars, workVars>>

(* The watchdog: the flags are given back without the run, and the two sockets
   are closed.  A run that has none yet goes on all the same: it is late. *)
Trip ==
    /\ Tripping
    /\ GiveBack
    /\ cooldown' = TRUE
    /\ Disconnect({controlWs, workerWs}, {})
    /\ mode' = [mode EXCEPT ![activeRun] =
          IF phase[activeRun] \in {"toast", "dialing"} THEN "late" ELSE "silent"]
    /\ phase' = [phase EXCEPT ![activeRun] = IF @ \in {"stuck", "farewell"} THEN "none" ELSE @]
    /\ UNCHANGED pullVars

CooldownEnds ==
    /\ cooldown
    /\ cooldown' = FALSE
    /\ UNCHANGED <<sockVars, syncing, activeRun, watchdog, mode, phase, runWs,
                   pullVars, workVars>>

(* A connection is lost.  waitForOpOrNoWork rejects in whatever run waits on
   it, and the exception ends that run. *)
Drop(w) ==
    /\ w \in Open
    /\ Disconnect({w}, {})
    /\ Finally({r \in Runs : phase[r] = "asked" /\ runWs[r] = w})

(* A worker socket that is there already is replaced, and stays with its run. *)
Dialed(r) ==
    /\ phase[r] = "dialing"
    /\ \E w \in Sockets : Fresh(w) /\ workerWs' = w /\ Use(r, w)
    /\ UNCHANGED <<controlWs, flagVars, mode, pullVars, workVars>>
    /\ requests' = [w \in Sockets |-> IF w \in Open' THEN requests[w] ELSE 0]

DialFails(r) ==
    /\ phase[r] = "dialing"
    /\ UNCHANGED <<sockVars, runWs>>
    /\ Finally({r})

-----------------------------------------------------------------------------
(* The loop *)

(* The free capacity. *)
Want(r) == MaxConcurrency - IF r = activeRun THEN Cardinality(inFlight) ELSE 0

(* requestOps: a request on the socket, which swallows it when it is closed. *)
RequestOps(r) ==
    /\ phase[r] = "pull" /\ ~noWork[r] /\ Want(r) > 0
    /\ runWs[r] \in Open => requests[runWs[r]] <= MaxLate
    /\ phase' = [phase EXCEPT ![r] = "asked"]
    /\ requests' = IF runWs[r] \in Open
                   THEN [requests EXCEPT ![runWs[r]] = @ + 1]
                   ELSE requests
    /\ UNCHANGED <<controlWs, workerWs, flagVars, mode, runWs, pullVars, workVars>>

Waiting(w) == {r \in Runs : phase[r] = "asked" /\ runWs[r] = w}

(* The bridge answers the requests of a socket one after the other.  Every
   waiter takes the message; when none is left, because the wait has timed
   out, nobody does.  The runs `busy` have as much as they can execute. *)
AnswerOn(w, busy) ==
    /\ requests[w] > 0
    /\ requests' = [requests EXCEPT ![w] = @ - 1]
    /\ phase' = [r \in Runs |-> IF r \in busy THEN "race"
                               ELSE IF r \in Waiting(w) THEN "pull" ELSE phase[r]]
    /\ UNCHANGED <<controlWs, workerWs, flagVars, mode, runWs, racing>>

(* NoWork, an empty batch, or an error that is not to be repeated. *)
NoWork(w) ==
    /\ AnswerOn(w, {})
    /\ noWork' = [r \in Runs |-> noWork[r] \/ r \in Waiting(w)]
    /\ streak' = [r \in Runs |-> IF r \in Waiting(w) THEN 0 ELSE streak[r]]
    /\ UNCHANGED <<inFlight, executing>>

(* A retryable error: ask again after a pause, MaxStreak times; of a run that
   asks no more, the streak does not matter. *)
RetryableError(w) ==
    /\ AnswerOn(w, {})
    /\ noWork' = [r \in Runs |-> noWork[r] \/ (r \in Waiting(w) /\ streak[r] >= MaxStreak)]
    /\ streak' = [r \in Runs |-> IF r \notin Waiting(w) THEN streak[r]
                                ELSE IF noWork'[r] THEN 0 ELSE streak[r] + 1]
    /\ UNCHANGED <<inFlight, executing>>

(* The current run executes the ops B.  One may be being executed already,
   when its lease has lapsed: at most twice at a time (a bound). *)
Enter(B) ==
    /\ \A o \in B : executing[o] < 2
    /\ inFlight' = inFlight \cup B
    /\ executing' = [o \in Ops |-> IF o \in B THEN executing[o] + 1 ELSE executing[o]]

(* A batch, of at most as many ops as the request wanted: the free capacity, of
   which a late answer knows nothing, so that any number up to the limit may
   come. *)
Batch(w, B) ==
    /\ \E busy \in SUBSET (Waiting(w) \ {activeRun}) : AnswerOn(w, busy)
    /\ Cardinality(B) <= MaxConcurrency
    /\ IF activeRun \in Waiting(w) THEN Enter(B) ELSE UNCHANGED <<inFlight, executing>>
    /\ streak' = [r \in Runs |-> IF r \in Waiting(w) THEN 0 ELSE streak[r]]
    /\ UNCHANGED noWork

(* Promise.race over what the map holds now. *)
Race(r) ==
    /\ phase[r] = "pull" /\ r = activeRun
    /\ noWork[r] \/ Want(r) <= 0
    /\ inFlight # {}
    /\ phase' = [phase EXCEPT ![r] = "race"]
    /\ racing' = inFlight
    /\ UNCHANGED <<sockVars, flagVars, mode, runWs, pullVars, inFlight, executing>>

(* runOne comes to its end, with its ack confirmed or given up, and removes
   the entry of its op, whichever execution that is of.  The race is over if it
   is the newest. *)
Complete(o) ==
    /\ executing[o] > 0
    /\ executing' = [executing EXCEPT ![o] = @ - 1]
    /\ inFlight' = inFlight \ {o}
    /\ \/ o \in racing /\ racing' = {} /\ phase' = [phase EXCEPT ![activeRun] = "pull"]
       \/ (o \in racing => executing[o] > 1) /\ UNCHANGED <<racing, phase>>
    /\ UNCHANGED <<sockVars, flagVars, mode, runWs, pullVars>>

(* A run that is not current any more: one of its executions ends. *)
GoesOn(r) ==
    /\ phase[r] = "race" /\ r # activeRun
    /\ phase' = [phase EXCEPT ![r] = "pull"]
    /\ UNCHANGED <<sockVars, flagVars, mode, runWs, pullVars, workVars>>

(* Or what it awaits never comes, and it may as well have ended. *)
Hangs(r) ==
    /\ phase[r] \in {"race", "toast"} /\ r # activeRun
    /\ Disconnect({}, {r})
    /\ Finally({r})

(* Nothing to ask for and nothing entered: the run closes its worker socket
   and ends; one that the user has started awaits another toast first. *)
EndRun(r) ==
    /\ phase[r] = "pull" /\ noWork[r]
    /\ r = activeRun => inFlight = {}
    /\ Disconnect({runWs[r]} \ {controlWs}, {r})
    /\ \/ mode[r] # "manual" /\ Finally({r})
       \/ /\ mode[r] = "manual"
          /\ phase' = [phase EXCEPT ![r] = "farewell"]
          /\ noWork' = [noWork EXCEPT ![r] = FALSE] /\ streak' = [streak EXCEPT ![r] = 0]
          /\ UNCHANGED <<flagVars, mode, workVars>>

(* waitForOpOrNoWork rejects: after 15 s, or because the socket is closed. *)
WaitRejects(r) ==
    /\ phase[r] = "asked"
    /\ runWs[r] \in Open => requests[runWs[r]] <= MaxLate
    /\ Disconnect({}, {r})
    /\ Finally({r})

Run(r) == Dialed(r) \/ DialFails(r) \/ RequestOps(r) \/ Race(r) \/ EndRun(r)
          \/ WaitRejects(r) \/ GoesOn(r) \/ Hangs(r)

Toast(r) == Toasted(r) \/ ToastFails(r) \/ Bye(r)

Server(w) == NoWork(w) \/ RetryableError(w) \/ \E B \in SUBSET Ops \ {{}} : Batch(w, B)

Next ==
    \/ StartSync \/ AutoSync \/ Manual \/ Trip \/ CooldownEnds \/ Reconnect
    \/ \E r \in Runs : Run(r) \/ Toast(r)
    \/ \E w \in Sockets : Server(w) \/ Drop(w)
    \/ \E o \in Ops : Complete(o)

Spec == Init /\ [][Next]_loopVars

(* Timers fire, the bridge repeats StartSync (its kick), every wait of a run but
   those for toasts is bounded (and its setting is there), and the bridge
   answers, late or in time.  No execution has to end, and no toast. *)
Fairness ==
    /\ WF_loopVars(StartSync) /\ WF_loopVars(Trip) /\ WF_loopVars(CooldownEnds)
    /\ WF_loopVars(Reconnect)
    /\ \A r \in Runs : WF_loopVars(Run(r))
    /\ WF_loopVars(\E w \in Sockets : Server(w))

FairSpec == Spec /\ Fairness

-----------------------------------------------------------------------------
(* Properties *)

(* A batch is taken by one run only, although the loop of a run that the
   watchdog has given up goes on, and a worker socket may be replaced under a
   run: two runs never wait on one open socket, on which the same message would
   answer both.  Of a run that was late, nothing is promised: when its toast
   comes at last, it takes the channel that has been opened again, beside the
   run that is current. *)
TakenOnce ==
    \A w \in Open : \A q, r \in Waiting(w) :
        mode[q] # "late" /\ mode[r] # "late" => q = r

TripsEarly == Trip /\ phase[activeRun] \in {"toast", "stuck", "dialing"}

(* Whatever hangs, fails, times out or trips, the plugin goes on asking for
   ops, once its connections are no longer lost and the user no longer starts
   runs that never get beyond their first toast. *)
KeepsPulling ==
    <>[][~TripsEarly /\ \A w \in Sockets : ~Drop(w)]_loopVars
        => []<>(\E r \in Runs : phase[r] = "asked")
=============================================================================
