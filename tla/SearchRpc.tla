----------------------------- MODULE SearchRpc -----------------------------
(***************************************************************************)
(* The read RPC: lib/wsBridgeCoreReadRpc.ts with the inbox and the timers  *)
(* of runtime/ws-bridge/runWsBridgeRuntime.ts.  A caller (one process of   *)
(* the command line, one connection, one search) sends a SearchRequest;    *)
(* the bridge forwards it to the active worker under an id of its own and  *)
(* routes the worker's SearchResponse back.                                *)
(*                                                                         *)
(* The bridge takes one event at a time from its inbox.  Sockets close,    *)
(* and timers fire, without it: their events wait in the inbox while the   *)
(* bridge still knows the connection or has already cleared the timer.     *)
(* A timeout may be any positive number of milliseconds, so a timer fires  *)
(* at any time after the millisecond in which it was set.  Texts, limits   *)
(* and budgets are left out; a result is the caller whose query it is of.  *)
(***************************************************************************)
EXTENDS Integers, Sequences, FiniteSets, Functions

CONSTANTS
    Callers, Workers, NoWorker,
    ReadRpc,  \* the workers that registered with capabilities.readRpc
    MaxMs     \* bound on the clock

VARIABLES
    ms,        \* Clock.currentTimeMillis
    open,      \* connections whose socket is open
    clients,   \* WsBridgeCoreState.clients
    active,    \* WsBridgeCoreState.activeWorkerConnId
    inbox,     \* events the bridge has not taken yet
    pending,   \* pendingSearchByForwardedRequestId
    timers,    \* the ids of the timers that run
    asked,     \* requests the plugins are working on
    asking,    \* callers that have sent their request
    forwarded, \* the id under which the request of a caller was forwarded
    replies    \* what each caller has been sent

rpcVars == <<ms, open, clients, active, inbox, pending, timers, asked, asking,
             forwarded, replies>>

NoId == <<>>

Init ==
    /\ ms = 0
    /\ open = Callers \cup Workers
    /\ clients = Callers \cup Workers
    /\ active = NoWorker
    /\ inbox = <<>>
    /\ pending = <<>>
    /\ timers = {}
    /\ asked = {}
    /\ asking = {}
    /\ forwarded = [c \in Callers |-> NoId]
    /\ replies = [c \in Callers |-> <<>>]

-----------------------------------------------------------------------------
(* Outside the event loop *)

(* The last millisecond, in which nobody asks any more, begins when no
   request waits in the inbox, so that every timer can fire. *)
NextMs ==
    /\ ms < MaxMs
    /\ ms + 1 = MaxMs => \A i \in DOMAIN inbox : inbox[i].type # "request"
    /\ ms' = ms + 1
    /\ UNCHANGED <<open, clients, active, inbox, pending, timers, asked,
                   asking, forwarded, replies>>

(* A command sends its search; the text may be blank. *)
Ask(c, blank) ==
    /\ c \in open \ asking /\ ms < MaxMs
    /\ asking' = asking \cup {c}
    /\ inbox' = Append(inbox, [type |-> "request", from |-> c, blank |-> blank])
    /\ UNCHANGED <<ms, open, clients, active, pending, timers, asked,
                   forwarded, replies>>

(* A socket closes: the command has given up or ended, or the window has
   gone.  What its plugin was working on can no longer be sent. *)
Close(x) ==
    /\ x \in open
    /\ open' = open \ {x}
    /\ asked' = {a \in asked : a.worker # x}
    /\ inbox' = Append(inbox, [type |-> "gone", conn |-> x])
    /\ UNCHANGED <<ms, clients, active, pending, timers, asking, forwarded,
                   replies>>

(* The plugin sends its results, or its own error. *)
Respond(a) ==
    /\ a \in asked
    /\ asked' = asked \ {a}
    /\ inbox' = Append(inbox, [type |-> "response", id |-> a.id, of |-> a.of])
    /\ UNCHANGED <<ms, open, clients, active, pending, timers, asking,
                   forwarded, replies>>

(* The sleep of a timer ends.  Its event stays in the inbox whatever becomes
   of the timer. *)
Fire(id) ==
    /\ id \in timers /\ ms > id[2]
    /\ timers' = timers \ {id}
    /\ inbox' = Append(inbox, [type |-> "timeout", id |-> id])
    /\ UNCHANGED <<ms, open, clients, active, pending, asked, asking,
                   forwarded, replies>>

(* The user changes windows, or a worker is put in quarantine. *)
Elect(w) ==
    /\ w \in (clients \cap Workers) \cup {NoWorker}
    /\ active' = w
    /\ UNCHANGED <<ms, open, clients, inbox, pending, timers, asked, asking,
                   forwarded, replies>>

-----------------------------------------------------------------------------
(* The event loop *)

(* SendJson to each of these callers whose socket is still open. *)
SendTo(S, what) ==
    replies' = [c \in Callers |-> IF c \in S \cap open
                                  THEN Append(replies[c], what)
                                  ELSE replies[c]]

With(id, entry) ==
    [i \in DOMAIN pending \cup {id} |-> IF i = id THEN entry ELSE pending[i]]

Without(ids) == Restrict(pending, DOMAIN pending \ ids)

NewId == <<active, ms, Cardinality(DOMAIN pending) + 1>>

Refuse(c, why) ==
    /\ SendTo({c}, why)
    /\ UNCHANGED <<pending, timers, asked, forwarded>>

(* Slip: only the callers' id is remembered, no timer is set. *)
ForwardWithoutTimer(c) ==
    /\ pending' = With(NewId, [caller |-> c, worker |-> active])
    /\ asked' = asked \cup {[worker |-> active, id |-> NewId, of |-> c]}
    /\ forwarded' = [forwarded EXCEPT ![c] = NewId]
    /\ UNCHANGED <<replies, timers>>

(* The request went to the worker's socket: pending, and a timer, which
   replaces one with the same id. *)
Forward(c) ==
    /\ pending' = With(NewId, [caller |-> c, worker |-> active])
    /\ timers' = timers \cup {NewId}
    /\ asked' = asked \cup {[worker |-> active, id |-> NewId, of |-> c]}
    /\ forwarded' = [forwarded EXCEPT ![c] = NewId]
    /\ UNCHANGED replies

SearchRequest(e) ==
    /\ e.type = "request"
    /\ IF e.blank THEN Refuse(e.from, "VALIDATION_ERROR")
       ELSE IF active \notin clients \cap ReadRpc
            THEN Refuse(e.from, "NO_ACTIVE_WORKER")
       ELSE IF active \notin open THEN Refuse(e.from, "BRIDGE_ERROR")
       ELSE Forward(e.from)
    /\ UNCHANGED <<clients, active>>

SearchResponse(e) ==
    /\ e.type = "response"
    /\ IF e.id \in DOMAIN pending
       THEN /\ pending' = Without({e.id})
            /\ timers' = timers \ {e.id}
            /\ SendTo({pending[e.id].caller}, e.of)
       ELSE UNCHANGED <<pending, timers, replies>>
    /\ UNCHANGED <<clients, active, asked, forwarded>>

(* Slip: the entry stays, for the response that may still come. *)
SearchTimeoutKeeping(e) ==
    /\ e.type = "timeout"
    /\ IF e.id \in DOMAIN pending
       THEN SendTo({pending[e.id].caller}, "TIMEOUT")
       ELSE UNCHANGED replies
    /\ UNCHANGED <<clients, active, timers, asked, forwarded, pending>>

SearchTimeout(e) ==
    /\ e.type = "timeout"
    /\ IF e.id \in DOMAIN pending
       THEN /\ pending' = Without({e.id})
            /\ SendTo({pending[e.id].caller}, "TIMEOUT")
       ELSE UNCHANGED <<pending, replies>>
    /\ UNCHANGED <<clients, active, timers, asked, forwarded>>

(* abortPendingSearchForConnId, then recomputeActiveWorker. *)
Disconnected(e) ==
    /\ e.type = "gone"
    /\ clients' = clients \ {e.conn}
    /\ LET ids == {id \in DOMAIN pending :
                     e.conn \in {pending[id].caller, pending[id].worker}}
       IN /\ pending' = Without(ids)
          /\ timers' = timers \ ids
          /\ SendTo({pending[id].caller : id \in ids} \ {e.conn}, "BRIDGE_ERROR")
    /\ active' \in IF active = e.conn
                   THEN (clients' \cap Workers) \cup {NoWorker}
                   ELSE {active}
    /\ UNCHANGED <<asked, forwarded>>

Handle(e) ==
    /\ inbox # <<>> /\ e = Head(inbox)
    /\ inbox' = Tail(inbox)
    /\ SearchRequest(e) \/ SearchResponse(e) \/ SearchTimeout(e) \/ Disconnected(e)
    /\ UNCHANGED <<ms, open, asking>>

Loop == inbox # <<>> /\ Handle(Head(inbox))

Next ==
    \/ NextMs
    \/ Loop
    \/ \E c \in Callers, blank \in BOOLEAN : Ask(c, blank)
    \/ \E x \in Callers \cup Workers : Close(x)
    \/ \E a \in asked : Respond(a)
    \/ \E id \in timers : Fire(id)
    \/ \E w \in Workers \cup {NoWorker} : Elect(w)

Spec == Init /\ [][Next]_rpcVars

(* The clock runs, the bridge takes its events, and timers fire.  No plugin
   has to answer and no socket has to close. *)
Fairness ==
    /\ WF_rpcVars(NextMs)
    /\ WF_rpcVars(Loop)
    /\ WF_rpcVars(\E id \in timers : Fire(id))

FairSpec == Spec /\ Fairness

-----------------------------------------------------------------------------
(* Properties *)

(* docs/ssot/agent-remnote/ws-bridge-protocol.md:267: the bridge relates
   responses to requests and reclaims those that time out.  However timeouts,
   late responses, disconnections and events already in the inbox race each
   other, no caller is answered twice. *)
AnsweredOnce == \A c \in Callers : Len(replies[c]) <= 1

(* c is still to be answered, unless the bridge has forwarded another request
   under the same id. *)
Waits(c) ==
    /\ c \in asking /\ c \in open /\ replies[c] = <<>>
    /\ \A d \in Callers \ {c} : forwarded[d] = forwarded[c] => forwarded[c] = NoId

(* Every search comes to an end for the caller that waits for it: at last
   nobody waits who has not been answered or has hung up. *)
EveryCallerHeard == (\E c \in Callers : Waits(c)) ~> (\A c \in Callers : ~Waits(c))
=============================================================================
