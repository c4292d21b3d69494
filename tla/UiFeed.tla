------------------------------- MODULE UiFeed -------------------------------
(***************************************************************************)
(* How what the user selects and focuses in RemNote reaches the command    *)
(* line: the two forwarders of packages/plugin/src/bridge/runtime.ts and   *)
(* the handlers of SelectionChanged and UiContextChanged in                *)
(* lib/wsBridgeCore.ts.                                                    *)
(*                                                                         *)
(* A forwarder runs once at a time.  It takes the open control socket,     *)
(* reads RemNote call by call, compares what it read with what it sent     *)
(* last (its signature) and sends it on the socket it took; an event that  *)
(* arrives meanwhile makes it run once more.  The user acts between any    *)
(* two calls; an event is delivered some time after what it reports.       *)
(*                                                                         *)
(* The bridge takes the messages of a connection in order and forgets the  *)
(* connection when it has gone, so that it does not matter when it takes   *)
(* them: here, when they are sent.  The state file from which the command  *)
(* line reads is a copy made a moment after each change and is left out,   *)
(* as its age is.                                                          *)
(*                                                                         *)
(* A selection is a set of Rems, none when it is empty; of one of more     *)
(* than MaxIds Rems only the first are sent, and it counts as truncated.   *)
(* A text selection goes by the same rules as one of a single Rem.  Of the *)
(* UI context, `place` stands for the url, pane, page and knowledge base.  *)
(***************************************************************************)
EXTENDS Integers, Sequences, FiniteSets

CONSTANTS
    Rems, NoRem, Places,
    MaxIds,      \* the number of ids a SelectionChanged carries
    MaxActs,     \* bound on what the user does
    MaxConns     \* bound on the connections

VARIABLES
    ui,       \* RemNote: the place, the focused Rem, the selection
    acts,     \* how often the user has acted
    due,      \* forwarders an event is on its way to
    session,  \* the control connection
    link,     \* its socket: "closed" or "open"
    task,     \* what each forwarder is doing
    again,    \* selectionForwarderPending, uiContextForwarderPending
    sent,     \* lastSelectionSignature, lastUiContextSignature
    crossed,  \* history: the context was being read when it opened
    known     \* WsBridgeCoreState.clients: selection and uiContext of each

uiVars == <<ui, acts, due, session, link, task, again, sent, crossed, known>>

Forwarders == {"selection", "uiContext"}

Nothing == <<>>
Idle == [ws |-> 0, read |-> Nothing, forced |-> FALSE]

(* A connected client of which nothing is known. *)
NewClient == [selection |-> Nothing, uiContext |-> Nothing]

Init ==
    /\ ui = [place |-> CHOOSE p \in Places : TRUE,
             focus |-> CHOOSE r \in Rems : TRUE, selection |-> {}]
    /\ acts = 0 /\ due = {}
    /\ session = 0 /\ link = "closed"
    /\ task = [f \in Forwarders |-> Idle]
    /\ again = [f \in Forwarders |-> FALSE]
    /\ sent = [f \in Forwarders |-> Nothing]
    /\ crossed = FALSE
    /\ known = <<>>

(* newClientState *)
Connected(c) ==
    [d \in DOMAIN known \cup {c} |-> IF d = c THEN NewClient ELSE known[d]]

Truncated(selection) == Cardinality(selection) > MaxIds

-----------------------------------------------------------------------------
(* The user *)

(* RemNote tells the listeners of a change: EditorSelectionChanged goes to
   the selection's forwarder, URLChange and the like to that of the context,
   FocusedRemChange to both. *)
Listeners(new) ==
    IF new.focus # ui.focus THEN Forwarders
    ELSE IF new.place # ui.place THEN {"uiContext"} ELSE {"selection"}

Act ==
    /\ acts < MaxActs
    /\ acts' = acts + 1
    /\ \/ \E p \in Places \ {ui.place} : ui' = [ui EXCEPT !.place = p]
       \/ \E r \in (Rems \cup {NoRem}) \ {ui.focus} :
              ui' = [ui EXCEPT !.focus = r]
       \/ \E s \in (SUBSET Rems) \ {ui.selection} :
              ui' = [ui EXCEPT !.selection = s]
    /\ due' = due \cup Listeners(ui')
    /\ UNCHANGED <<session, link, task, again, sent, crossed, known>>

-----------------------------------------------------------------------------
(* What the bridge does with a message *)

(* normalizeSelectionForUiContext: what is left of a client's selection, by
   the focus the bridge knows of. *)
Excluded(selection, focus) ==
    /\ selection # {} /\ ~Truncated(selection)
    /\ focus # NoRem /\ focus \notin selection

Normalized(c) ==
    IF /\ c.selection # Nothing /\ c.uiContext # Nothing
       /\ Excluded(c.selection[1], c.uiContext[1].focus)
    THEN [c EXCEPT !.selection = <<{}>>] ELSE c

SelectionChanged(selection) ==
    known' = [known EXCEPT ![session] =
                 Normalized([@ EXCEPT !.selection = <<selection>>])]

UiContextChanged(context) ==
    known' = [known EXCEPT ![session] =
                 Normalized([@ EXCEPT !.uiContext = <<context>>])]

(* A message on the open connection. *)
Received(f, snapshot) ==
    IF f = "selection" THEN SelectionChanged(snapshot)
    ELSE UiContextChanged(snapshot)

-----------------------------------------------------------------------------
(* The forwarders *)

(* forwardSelectionSnapshot or forwardUiContextSnapshot is called for the
   forwarders F, forced or not. *)
Task(f, forced) ==
    IF task[f] = Idle /\ link' = "open"
    THEN [ws |-> session', read |-> Nothing, forced |-> forced]
    ELSE task[f]

(* Slip: a call during a run is dropped. *)
CallDropped(F, forced) ==
    /\ task' = [f \in Forwarders |-> IF f \in F THEN Task(f, forced) ELSE task[f]]
    /\ again' = again

Call(F, forced) ==
    /\ task' = [f \in Forwarders |-> IF f \in F THEN Task(f, forced) ELSE task[f]]
    /\ again' = [f \in Forwarders |->
                     again[f] \/ (f \in F /\ task[f] # Idle)]

(* A listener is called. *)
Event(f) ==
    /\ f \in due
    /\ due' = due \ {f}
    /\ UNCHANGED <<session, link>>
    /\ Call({f}, FALSE)
    /\ UNCHANGED <<ui, acts, sent, crossed, known>>

(* The timer of scheduleSelectionPoll, which runs while the socket is open. *)
Poll ==
    /\ link = "open"
    /\ UNCHANGED <<session, link>>
    /\ Call({"selection"}, FALSE)
    /\ UNCHANGED <<ui, acts, due, sent, crossed, known>>

(* The user has left a selection that does not hold the focused Rem. *)
UnlessLeft(selection, focus) ==
    IF ~Truncated(selection) /\ focus # NoRem /\ focus \notin selection
    THEN {} ELSE selection

(* The focus is asked for only when it can make a difference. *)
FocusMatters(selection) == selection # {} /\ ~Truncated(selection)

(* The snapshot is complete: it is sent unless it is what was sent last, and
   the forwarder ends; it runs again for an event that came meanwhile.  What
   is sent on a closed socket is dropped without an error. *)
Unsent(f, snapshot) == task[f].forced \/ sent[f] # <<snapshot>>

Rerun(f) ==
    IF again[f] /\ link = "open"
    THEN [ws |-> session, read |-> Nothing, forced |-> FALSE]
    ELSE Idle

Finish(f, snapshot) ==
    /\ sent' = [sent EXCEPT ![f] = <<snapshot>>]
    /\ IF Unsent(f, snapshot) /\ link = "open" /\ task[f].ws = session
       THEN Received(f, snapshot)
       ELSE UNCHANGED <<known>>
    /\ task' = [task EXCEPT ![f] = Rerun(f)]
    /\ again' = [again EXCEPT ![f] = FALSE]

(* getAgentSelectionSnapshot, and plugin.focus.getFocusedRem after it. *)
ReadSelection ==
    /\ task["selection"] # Idle
    /\ LET got == task["selection"].read IN
       \/ /\ got = Nothing /\ FocusMatters(ui.selection)
          /\ task' = [task EXCEPT !["selection"].read = <<ui.selection>>]
          /\ UNCHANGED <<again, sent, known>>
       \/ /\ got = Nothing /\ ~FocusMatters(ui.selection)
          /\ Finish("selection", ui.selection)
       \/ /\ got # Nothing
          /\ Finish("selection", UnlessLeft(got[1], ui.focus))
    /\ UNCHANGED <<ui, acts, due, session, link, crossed>>

(* readUiContextSnapshot: the place first, the focused Rem later. *)
ReadUiContext ==
    /\ task["uiContext"] # Idle
    /\ LET got == task["uiContext"].read IN
       \/ /\ got = Nothing
          /\ task' = [task EXCEPT !["uiContext"].read = <<ui.place>>]
          /\ UNCHANGED <<again, sent, known>>
       \/ /\ got # Nothing
          /\ Finish("uiContext", [place |-> got[1], focus |-> ui.focus])
    /\ UNCHANGED <<ui, acts, due, session, link, crossed>>

-----------------------------------------------------------------------------
(* The control socket *)

Close ==
    /\ link = "open" /\ session < MaxConns
    /\ link' = "closed"
    /\ UNCHANGED <<ui, acts, due, session, task, again, sent, crossed, known>>

(* Slip: a new connection is treated like the old one. *)
OpenUnforced ==
    /\ link = "closed" /\ session < MaxConns
    /\ link' = "open" /\ session' = session + 1
    /\ known' = Connected(session')
    /\ crossed' = (task["uiContext"] # Idle)
    /\ Call(Forwarders, FALSE)
    /\ UNCHANGED <<ui, acts, due, sent>>

(* The next one opens; onopen registers the plugin, forgets both signatures
   and calls both forwarders, forced. *)
Open ==
    /\ link = "closed" /\ session < MaxConns
    /\ link' = "open" /\ session' = session + 1
    /\ known' = Connected(session')
    /\ sent' = [f \in Forwarders |-> Nothing]
    /\ crossed' = (task["uiContext"] # Idle)
    /\ Call(Forwarders, TRUE)
    /\ UNCHANGED <<ui, acts, due>>

-----------------------------------------------------------------------------
(* The bridge *)

(* The bridge notices that a connection has gone. *)
Gone(c) ==
    /\ c \in DOMAIN known /\ (c # session \/ link = "closed")
    /\ known' = [d \in DOMAIN known \ {c} |-> known[d]]
    /\ UNCHANGED <<ui, acts, due, session, link, task, again, sent, crossed>>

-----------------------------------------------------------------------------
Next ==
    \/ Act \/ Poll \/ ReadSelection \/ ReadUiContext \/ Close \/ Open
    \/ \E f \in Forwarders : Event(f)
    \/ \E c \in 1 .. MaxConns : Gone(c)

Spec == Init /\ [][Next]_uiVars

-----------------------------------------------------------------------------
(* What the command line reads (loadBridgeSelectionSnapshot,
   loadBridgeUiContextSnapshot): the entry of the active client, which is the
   connection that reported last, or the newest if none has. *)
Newest(C) == CHOOSE c \in C : \A d \in C : c >= d

Picked ==
    LET reported == {c \in DOMAIN known : known[c] # NewClient}
    IN  known[Newest(IF reported = {} THEN DOMAIN known ELSE reported)]

Selection == IF Picked.selection = Nothing THEN {} ELSE Picked.selection[1]

Status ==
    IF known = <<>> THEN "no_client"
    ELSE IF Picked.uiContext = Nothing THEN "no_ui_context" ELSE "ok"

(* Nothing is under way between RemNote and the bridge. *)
Quiet ==
    /\ link = "open" /\ due = {} /\ DOMAIN known = {session}
    /\ \A f \in Forwarders : task[f] = Idle

(* What is selected, as far as the user has not left it. *)
Selected == UnlessLeft(ui.selection, ui.focus)

(* The command line is never left with a selection the user has given up:
   when everything is quiet it is shown what is selected now or nothing,
   whatever the connection and the order in which the reports arrived. *)
NoLeftover ==
    Quiet => Selection \in {Selected, {}}

(* The page and the focus the user has come to rest on have reached the
   command line, unless the last connection opened while the forwarder was
   reading for an older one. *)
ContextIsCurrent ==
    Quiet /\ ~crossed =>
        /\ Status = "ok"
        /\ Picked.uiContext[1] = [place |-> ui.place, focus |-> ui.focus]
=============================================================================
