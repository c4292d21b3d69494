----------------------------- MODULE ApplyPlan -----------------------------
(***************************************************************************)
(* `apply` with kind "actions": from the actions a caller writes to the    *)
(* ops RemNote performs.  The host merges neighbouring actions into bulk   *)
(* ones (commands/_applyEnvelope.ts), compiles each into an op and gives   *)
(* every alias a temporary id (kernel/write-plan/compile.ts); the          *)
(* dispatcher holds an op back while it names a Rem that is still to be    *)
(* made, and keeps conflicting ops apart; the plugin's handlers perform    *)
(* the ops (remCrudOps.ts, portalOps.ts, metaOps.ts).                      *)
(*                                                                         *)
(* A step is an action with its alias (NoName for none), the ids of its    *)
(* input by path, its positions (<<>> or <<n>>) and words (a status, a     *)
(* text) in the order of its items, and the flags that are true.  An id is *)
(* <<"rem", r>>, <<"ref", a>> for "@a", or <<"tmp", a>> for the temporary  *)
(* id of the alias a; the Rem that is made for it is <<"rem", a>>.  An op  *)
(* is a step with the type for the action, its paths being the payload's.  *)
(* Text and Markdown, and the ops whose only effect is on those, leave the *)
(* outline as it is.  What the selection of a batch takes first is         *)
(* DispatchSelection's; here it is any op that may go.                     *)
(***************************************************************************)
EXTENDS Integers, SequencesExt, TLC

CONSTANTS
    Envelopes,  \* [plan : Seq(Step), dryRun : BOOLEAN]
    Outline0,   \* the outline that is found
    MaxOps,     \* 500 in the code
    MaxLapses   \* BOUND: how often the plugin is reloaded over an op

VARIABLES
    envelope,
    ops,        \* the ops of the transaction
    status,     \* of each op
    lapses,
    outline,    \* kids, the children of each Rem; docs, tags, sources, todo
    made        \* the aliases whose temporary id is in queue_id_map

planVars == <<envelope, ops, status, lapses, outline, made>>

Rem(r) == <<"rem", r>>
Ref(a) == <<"ref", a>>
Tmp(a) == <<"tmp", a>>

(* The alias, or the path, of what has none. *)
NoName == ""

Col(s, p) == IF p \in DOMAIN s.ids THEN s.ids[p] ELSE <<>>
Ids(s) == UNION {Range(s.ids[p]) : p \in DOMAIN s.ids}
OfKind(S, k) == {v \in S : v[1] = k}

-----------------------------------------------------------------------------
(* The actions: the op, whether "as" is allowed, the paths that may hold an
   alias, and the paths that must be there. *)

Action(name, op, as, refs, needs) ==
    [name |-> name, op |-> op, as |-> as, refs |-> refs, needs |-> needs]

CreateActions ==
    { Action("write.bullet", "create_rem", TRUE, {"parent_id"}, {}),
      Action("write.md", "create_tree_with_markdown", FALSE, {"parent_id"}, {"parent_id"}),
      Action("write.md.single", "create_single_rem_with_markdown", TRUE,
             {"parent_id"}, {"parent_id"}),
      Action("daily.write", "daily_note_write", FALSE, {}, {}) }

OfChildren ==
    {"rem.children.append", "rem.children.prepend", "rem.children.replace",
     "rem.children.clear"}

ChildrenActions ==
    {Action(a, "create_tree_with_markdown", FALSE, {"rem_id"}, {"rem_id"}) :
        a \in {"rem.children.append", "rem.children.prepend"}}
    \cup {Action(a, "replace_children_with_markdown", FALSE, {"rem_id"}, {"rem_id"}) :
            a \in {"rem.children.replace", "rem.children.clear"}}

PortalActions ==
    { Action("portal.create", "create_portal", TRUE, {"parent_id", "target_rem_id"},
             {"parent_id", "target_rem_id"}),
      Action("portal.createMany", "create_portal_bulk", FALSE, {"parent_id"},
             {"parent_id", "items[].target_rem_id"}) }

(* rem.replace of children; of the Rems themselves it is as replace.block. *)
ReplaceActions ==
    { Action("rem.replace", "replace_children_with_markdown", FALSE,
             {"rem_ids[]"}, {"rem_ids[]"}),
      Action("rem.replace(self)", "replace_selection_with_markdown", FALSE,
             {"rem_ids[]"}, {"rem_ids[]"}) }

BlockActions ==
    { Action("replace.block", "replace_selection_with_markdown", FALSE,
             {"target.rem_ids[]", "portal_id"}, {"target.rem_ids[]"}) }

RemActions ==
    { Action("rem.updateText", "update_text", FALSE, {"rem_id"}, {"rem_id"}),
      Action("rem.move", "move_rem", FALSE, {"rem_id", "new_parent_id"}, {"rem_id"}),
      Action("rem.moveMany", "move_rem_bulk", FALSE, {"rem_ids[]", "new_parent_id"},
             {"rem_ids[]", "new_parent_id"}) }

TagActions ==
    { Action("tag.add", "add_tag", FALSE, {"rem_id", "tag_id"}, {"rem_id", "tag_id"}),
      Action("tag.remove", "remove_tag", FALSE, {"rem_id", "tag_id"}, {"rem_id", "tag_id"}),
      Action("tag.addMany", "add_tag_bulk", FALSE, {}, {"items[].rem_id", "items[].tag_id"}),
      Action("tag.removeMany", "remove_tag_bulk", FALSE, {},
             {"items[].rem_id", "items[].tag_id"}) }

MiscActions ==
    { Action("todo.setStatus", "set_todo_status", FALSE, {"rem_id"}, {"rem_id"}),
      Action("todo.setStatusMany", "set_todo_status_bulk", FALSE, {}, {"items[].rem_id"}),
      Action("source.add", "add_source", FALSE, {"rem_id", "source_id"},
             {"rem_id", "source_id"}),
      Action("source.remove", "remove_source", FALSE, {"rem_id", "source_id"},
             {"rem_id", "source_id"}),
      Action("source.addMany", "add_source_bulk", FALSE, {},
             {"items[].rem_id", "items[].source_id"}),
      Action("source.removeMany", "remove_source_bulk", FALSE, {},
             {"items[].rem_id", "items[].source_id"}) }

ActionTable ==
    CreateActions \cup ChildrenActions \cup PortalActions \cup ReplaceActions
    \cup BlockActions \cup RemActions \cup TagActions \cup MiscActions

(* ACTIONS, by name. *)
Actions == [a \in {t.name : t \in ActionTable} |-> CHOOSE t \in ActionTable : t.name = a]

-----------------------------------------------------------------------------
(* coalesceApplyActions *)

Joinable ==
    {"rem.move", "portal.create", "tag.add", "tag.remove", "todo.setStatus", "source.add",
     "source.remove"}

BulkOf(a) ==
    CASE a = "rem.move" -> "rem.moveMany" [] a = "portal.create" -> "portal.createMany"
      [] a = "tag.add" -> "tag.addMany" [] a = "tag.remove" -> "tag.removeMany"
      [] a = "todo.setStatus" -> "todo.setStatusMany"
      [] a = "source.add" -> "source.addMany" [] a = "source.remove" -> "source.removeMany"

(* Of the bulk of an action: the path that its items share, and the paths of
   the items. *)
SharedPath(a) ==
    CASE a = "rem.move" -> "new_parent_id" [] a = "portal.create" -> "parent_id" [] OTHER -> NoName

ListPath(p) ==
    CASE p = "rem_id" -> "items[].rem_id" [] p = "tag_id" -> "items[].tag_id"
      [] p = "source_id" -> "items[].source_id" [] p = "target_rem_id" -> "items[].target_rem_id"

PathInBulk(a, p) ==
    IF p = SharedPath(a) THEN p ELSE IF a = "rem.move" THEN "rem_ids[]" ELSE ListPath(p)

MayJoin(s) ==
    /\ s.action \in Joinable
    /\ s.as = NoName /\ OfKind(Ids(s), "ref") = {}
    /\ Actions[s.action].needs \cup ({SharedPath(s.action)} \ {NoName}) \subseteq DOMAIN s.ids
    /\ s.action = "rem.move" => s.flags \cap {"standalone", "leave_portal"} = {}

(* What a caller writes: ids of Rems and aliases, and at the paths of an action
   that may be merged, which are all it has, one each. *)
StepShape(s) ==
    /\ \A p \in DOMAIN s.ids : s.ids[p] \in Seq(Ids(s))
    /\ \A v \in Ids(s) : v[1] \in {"rem", "ref"}
    /\ s.action \in Joinable =>
         /\ DOMAIN s.ids \subseteq Actions[s.action].needs \cup {SharedPath(s.action)}
         /\ \A p \in DOMAIN s.ids : Len(s.ids[p]) = 1

EnvelopeShape ==
    \A e \in Envelopes :
        e.plan \in Seq(Range(e.plan)) /\ \A i \in DOMAIN e.plan : StepShape(e.plan[i])

(* Slip: the parents are not compared. *)
AlikeAnywhere(s, t) ==
    /\ t.action = s.action /\ t.flags = s.flags
    /\ s.action = "rem.move" => t.poses = s.poses

(* Of the others, tag.remove compares its flag; the rest have none. *)
Alike(s, t) ==
    /\ t.action = s.action
    /\ Col(t, SharedPath(s.action)) = Col(s, SharedPath(s.action))
    /\ t.flags = s.flags
    /\ s.action = "rem.move" => t.poses = s.poses

(* A step joins the group before it, or begins one. *)
Grouped(gs, s) ==
    IF gs # <<>> /\ MayJoin(s) /\ MayJoin(Head(Last(gs))) /\ Alike(Head(Last(gs)), s)
    THEN [gs EXCEPT ![Len(gs)] = Append(@, s)]
    ELSE Append(gs, <<s>>)

Groups(plan) ==
    LET gs[n \in 0 .. Len(plan)] == IF n = 0 THEN <<>> ELSE Grouped(gs[n - 1], plan[n])
    IN gs[Len(plan)]

Merged(g) ==
    LET a == Head(g).action
        IdsAt(p) == IF p = SharedPath(a) THEN Head(g).ids[p]
                    ELSE [i \in DOMAIN g |-> Head(g[i].ids[p])]
        Source(q) == CHOOSE p \in DOMAIN Head(g).ids : PathInBulk(a, p) = q
    IN [action |-> BulkOf(a), as |-> NoName,
        ids |-> [q \in {PathInBulk(a, p) : p \in DOMAIN Head(g).ids} |-> IdsAt(Source(q))],
        poses |-> IF a = "rem.move" THEN Head(g).poses
                  ELSE FlattenSeq([i \in DOMAIN g |-> g[i].poses]),
        words |-> FlattenSeq([i \in DOMAIN g |-> g[i].words]),
        flags |-> Head(g).flags]

Coalesce(plan) ==
    LET gs == Groups(plan)
    IN [i \in DOMAIN gs |-> IF Len(gs[i]) = 1 THEN Head(gs[i]) ELSE Merged(gs[i])]

-----------------------------------------------------------------------------
(* compileWritePlanV1: an op for every step. *)

Aliases(plan) == {plan[i].as : i \in DOMAIN plan} \ {NoName}

(* What the compile function of the action asks of the input. *)
WellFormed(s) ==
    LET place == CASE s.action = "write.bullet" -> "parent_id"
                   [] s.action = "rem.move" -> "new_parent_id"
                   [] OTHER -> NoName
    IN /\ Actions[s.action].needs \subseteq DOMAIN s.ids
       /\ place # NoName => (place \in DOMAIN s.ids) # ("standalone" \in s.flags)
       /\ s.action = "rem.moveMany" => s.flags \cap {"standalone", "leave_portal"} = {}
       /\ s.action = "rem.replace" => Len(s.ids["rem_ids[]"]) = 1

Accepted(plan) ==
    /\ Len(plan) <= MaxOps
    /\ \A i, j \in DOMAIN plan : i # j /\ plan[i].as # NoName => plan[i].as # plan[j].as
    /\ \A i \in DOMAIN plan :
         LET s == plan[i]
         IN /\ s.action \in DOMAIN Actions
            /\ s.as # NoName => Actions[s.action].as
            /\ \A p \in DOMAIN s.ids : \A v \in OfKind(Range(s.ids[p]), "ref") :
                 v[2] \in Aliases(plan) /\ p \in Actions[s.action].refs
            /\ WellFormed(s)

PayloadPath(a, p) ==
    CASE a \in OfChildren -> "parent_id"
      [] a = "rem.replace" -> "parent_id"
      [] a = "rem.replace(self)" -> "target.rem_ids[]"
      [] OTHER -> p

(* resolveAliasRefsInValue *)
Resolved(v) == IF v[1] = "ref" THEN Tmp(v[2]) ELSE v

(* Slip: the temporary id of a portal is not sent along. *)
ClientTempIdButPortals(s) == IF s.action = "portal.create" THEN NoName ELSE s.as

(* payload.client_temp_id *)
ClientTempId(s) == s.as

CompiledStep(s) ==
    LET Source(q) == CHOOSE p \in DOMAIN s.ids : PayloadPath(s.action, p) = q
    IN [type |-> Actions[s.action].op,
        ids |-> [q \in {PayloadPath(s.action, p) : p \in DOMAIN s.ids} |->
                   [i \in DOMAIN s.ids[Source(q)] |-> Resolved(s.ids[Source(q)][i])]],
        poses |-> IF s.action = "rem.children.prepend" THEN <<<<0>>>> ELSE s.poses,
        words |-> s.words, flags |-> s.flags, makes |-> ClientTempId(s)]

Compiled(plan) == [i \in DOMAIN plan |-> CompiledStep(plan[i])]

-----------------------------------------------------------------------------
(* The op catalog: the paths of an op's payload that hold ids. *)

OutlineIdFields(type) ==
    CASE type = "create_rem" -> {"parent_id", "tags[]"}
      [] type = "create_portal" -> {"parent_id", "target_rem_id"}
      [] type = "create_portal_bulk" -> {"parent_id", "items[].target_rem_id"}
      [] type = "update_text" -> {"rem_id"}
      [] type = "move_rem" -> {"rem_id", "new_parent_id"}
      [] type = "move_rem_bulk" -> {"rem_ids", "rem_ids[]", "new_parent_id"}
      [] type \in {"create_single_rem_with_markdown", "create_tree_with_markdown",
                   "replace_children_with_markdown"} -> {"parent_id"}
      [] type = "replace_selection_with_markdown" -> {"target.rem_ids[]", "portal_id"}
      [] type = "daily_note_write" -> {}

TagOps == {"add_tag", "remove_tag", "add_tag_bulk", "remove_tag_bulk"}

TagIdFields(type) ==
    IF type \in {"add_tag", "remove_tag"} THEN {"rem_id", "tag_id"}
    ELSE {"items[].rem_id", "items[].tag_id"}

MiscOps ==
    {"add_source", "remove_source", "add_source_bulk", "remove_source_bulk",
     "set_todo_status", "set_todo_status_bulk"}

MiscIdFields(type) ==
    CASE type \in {"add_source", "remove_source"} -> {"rem_id", "source_id"}
      [] type \in {"add_source_bulk", "remove_source_bulk"} ->
           {"items[].rem_id", "items[].source_id"}
      [] type = "set_todo_status" -> {"rem_id"}
      [] type = "set_todo_status_bulk" -> {"items[].rem_id"}

AllIdFields(type) ==
    IF type \in TagOps THEN TagIdFields(type)
    ELSE IF type \in MiscOps THEN MiscIdFields(type) ELSE OutlineIdFields(type)

(* Slip: a move is not held back for the Rem it goes to. *)
IdFieldsWithoutParent(type) == AllIdFields(type) \ {"new_parent_id"}

(* idFieldPathsForOpType *)
IdFields(type) == AllIdFields(type)

(* collectTempIdsFromPayload *)
TempIds(o) == OfKind(UNION {Range(Col(o, p)) : p \in IdFields(o.type)}, "tmp")

Unknown(o) == {v \in TempIds(o) : v[2] \notin made}

(* substituteTempIdsInPayload *)
Substituted(o) ==
    LET Real(v) == IF v[1] = "tmp" /\ v[2] \in made THEN Rem(v[2]) ELSE v
    IN [o EXCEPT !.ids = [p \in DOMAIN o.ids |->
          IF p \in IdFields(o.type) THEN [i \in DOMAIN o.ids[p] |-> Real(o.ids[p][i])]
          ELSE o.ids[p]]]

-----------------------------------------------------------------------------
(* deriveConflictKeys of the host, computeOpLockKeys of the plugin. *)

RemKeys(vs) == {<<"rem", v>> : v \in vs}
ChildrenKeys(vs) == {<<"children", v>> : v \in vs}
Around(vs) == RemKeys(vs) \cup ChildrenKeys(vs)

At(o, p) == Range(Col(o, p))

Creates == {"create_rem", "create_single_rem_with_markdown", "create_tree_with_markdown"}
Portals == {"create_portal", "create_portal_bulk"}

Global(name) == {<<"global", Rem(name)>>}
OrGlobal(keys, name) == IF keys = {} THEN Global(name) ELSE keys

ConflictKeys(o) ==
    LET parent == At(o, "parent_id")
        targets == At(o, "target_rem_id") \cup At(o, "items[].target_rem_id")
    IN CASE o.type = "daily_note_write" -> Global("daily_note_write")
         [] o.type \in Portals -> Around(parent) \cup RemKeys(targets)
         [] o.type \in Creates \cup {"replace_children_with_markdown"} ->
              OrGlobal(Around(parent), "structure_unknown")
         [] o.type = "replace_selection_with_markdown" ->
              Global("structure_unknown") \cup RemKeys(At(o, "target.rem_ids[]"))
         [] o.type \in {"move_rem", "move_rem_bulk"} ->
              RemKeys(At(o, "rem_id") \cup At(o, "rem_ids[]"))
              \cup ChildrenKeys(At(o, "new_parent_id"))
         [] OTHER ->
              OrGlobal(RemKeys(At(o, "rem_id") \cup At(o, "items[].rem_id")), "unknown")

ParentsOf(vs) == {p \in DOMAIN outline.kids : vs \cap Range(outline.kids[p]) # {}}

(* Slip: a move takes the keys of what is moved and of where it leaves. *)
MoveLocksAtSource(moved, to) == RemKeys(moved) \cup Around(ParentsOf(moved))

MoveLocks(moved, to) == RemKeys(moved) \cup Around(to) \cup Around(ParentsOf(moved))

LockKeys(o) ==
    LET parent == At(o, "parent_id")
        targets == At(o, "target_rem_id") \cup At(o, "items[].target_rem_id")
        selected == Col(o, "target.rem_ids[]")
    IN CASE o.type = "daily_note_write" -> Global("daily_note_write")
         [] o.type \in Creates \cup Portals -> Around(parent) \cup RemKeys(targets)
         [] o.type = "replace_selection_with_markdown" ->
              RemKeys(Range(selected)) \cup Around(ParentsOf({Head(selected)}))
         [] o.type = "replace_children_with_markdown" ->
              Around(parent) \cup RemKeys(UNION {Range(outline.kids[p]) :
                                                 p \in parent \cap DOMAIN outline.kids})
         [] o.type \in {"move_rem", "move_rem_bulk"} ->
              MoveLocks(At(o, "rem_id") \cup At(o, "rem_ids[]"), At(o, "new_parent_id"))
         [] OTHER -> RemKeys(At(o, "rem_id") \cup At(o, "items[].rem_id"))

-----------------------------------------------------------------------------
(* The handlers: what the first n items of an op do to the outline. *)

(* s without the members of X. *)
Leaving(s, X) ==
    LET rest[n \in 0 .. Len(s)] ==
          IF n = 0 THEN <<>>
          ELSE IF s[n] \in X THEN rest[n - 1] ELSE Append(rest[n - 1], s[n])
    IN rest[Len(s)]

Without(kids, r) == [p \in DOMAIN kids |-> Leaving(kids[p], {r})]

(* plugin.rem.moveRems([r], p, n), of a new Rem and of one that has a place. *)
PutIn(kids, r, p, n) ==
    LET there == IF p \in DOMAIN kids THEN kids[p] ELSE <<>>
    IN [q \in DOMAIN kids \cup {p} |->
          IF q = p THEN InsertAt(there, 1 + Min({n, Len(there)}), r) ELSE kids[q]]

MoveTo(kids, r, p, n) == PutIn(Without(kids, r), r, p, n)

Position(pos, default) == IF pos = <<>> THEN default ELSE Head(pos)

APPEND == 1000

(* A new Rem goes by its alias, or else by its text. *)
NewRem(o) == Rem(IF o.makes # NoName THEN o.makes ELSE Head(o.words))

(* executeCreateRem, executeCreateSingleRemWithMarkdown *)
WithNew(o, kids) ==
    IF "standalone" \in o.flags THEN kids
    ELSE PutIn(kids, NewRem(o), Head(Col(o, "parent_id")),
               IF o.type = "create_rem" THEN Position(o.poses[1], 0) ELSE APPEND)

(* createSinglePortal for each target.  A list in which no position is given
   is appended; in another one an item without takes its index. *)
WithPortals(o, kids, n) ==
    LET targets == Col(o, "target_rem_id") \o Col(o, "items[].target_rem_id")
        implicit == \A i \in DOMAIN o.poses : o.poses[i] = <<>>
        Portal(i) == IF o.makes # NoName THEN Rem(o.makes) ELSE <<"portal", targets[i]>>
        PortalAt(i) == IF implicit THEN APPEND ELSE Position(o.poses[i], i - 1)
        after[i \in 0..n] ==
          IF i = 0 THEN kids
          ELSE PutIn(after[i - 1], Portal(i), Head(o.ids["parent_id"]), PortalAt(i))
    IN after[n]

(* executeMoveRem: with leave_portal, to where the Rem has been. *)
WithMove(o, kids) ==
    LET r == Head(o.ids["rem_id"])
        moved == IF "standalone" \in o.flags THEN Without(kids, r)
                 ELSE MoveTo(kids, r, Head(o.ids["new_parent_id"]), Position(o.poses[1], 0))
        from == {p \in DOMAIN kids : r \in Range(kids[p])}
        Index(p) == CHOOSE i \in DOMAIN kids[p] : kids[p][i] = r
    IN IF "leave_portal" \notin o.flags \/ from = {} THEN moved
       ELSE LET p == CHOOSE p \in from : TRUE
            IN PutIn(moved, <<"portal", r>>, p, Index(p) - 1)

(* executeMoveRemBulk *)
WithMoves(o, kids, n) ==
    LET to == Head(o.ids["new_parent_id"])
        At1(i) == Position(o.poses[1], 0) + i - 1
        after[i \in 0..n] ==
          IF i = 0 THEN kids ELSE MoveTo(after[i - 1], o.ids["rem_ids[]"][i], to, At1(i))
    IN after[n]

Children(o, kids, n) ==
    CASE o.type \in {"create_rem", "create_single_rem_with_markdown"} -> WithNew(o, kids)
      [] o.type \in Portals -> WithPortals(o, kids, n)
      [] o.type = "move_rem" -> WithMove(o, kids)
      [] o.type = "move_rem_bulk" -> WithMoves(o, kids, n)
      [] OTHER -> kids

(* The Rem and the tag, or source, of each of the first n items. *)
Pairs(o, n, p, q) ==
    LET rems == Col(o, "rem_id") \o Col(o, "items[].rem_id")
        others == Col(o, p) \o Col(o, q)
    IN {<<rems[i], others[i]>> : i \in 1..n}

Tagged(o, tags, n) ==
    LET pairs == Pairs(o, n, "tag_id", "items[].tag_id")
    IN CASE o.type = "create_rem" -> tags \cup ({NewRem(o)} \X At(o, "tags[]"))
         [] o.type \in {"add_tag", "add_tag_bulk"} -> tags \cup pairs
         [] o.type \in {"remove_tag", "remove_tag_bulk"} -> tags \ pairs
         [] OTHER -> tags

Sourced(o, sources, n) ==
    LET pairs == Pairs(o, n, "source_id", "items[].source_id")
    IN CASE o.type \in {"add_source", "add_source_bulk"} -> sources \cup pairs
         [] o.type \in {"remove_source", "remove_source_bulk"} -> sources \ pairs
         [] OTHER -> sources

(* Of several statuses for one Rem the last stays. *)
Todo(o, todo, n) ==
    LET rems == Col(o, "rem_id") \o Col(o, "items[].rem_id")
        Last1(r) == Max({i \in 1..n : rems[i] = r})
    IN IF o.type \in {"set_todo_status", "set_todo_status_bulk"}
       THEN [r \in DOMAIN todo \cup {rems[i] : i \in 1..n} |->
               IF r \in {rems[i] : i \in 1..n} THEN o.words[Last1(r)] ELSE todo[r]]
       ELSE todo

Items(o) == Max({1, Len(Col(o, "rem_ids[]")), Len(Col(o, "items[].target_rem_id")),
                 Len(Col(o, "items[].rem_id"))})

Documents(o) ==
    CASE o.type = "create_rem" -> {NewRem(o)}
      [] o.type = "move_rem" -> At(o, "rem_id")
      [] OTHER -> At(o, "rem_ids[]")

Apply(o, before, n) ==
    [kids |-> Children(o, before.kids, n),
     docs |-> before.docs \cup (IF "is_document" \in o.flags /\ n = Items(o)
                                THEN Documents(o) ELSE {}),
     tags |-> Tagged(o, before.tags, n),
     sources |-> Sourced(o, before.sources, n),
     todo |-> Todo(o, before.todo, n)]

-----------------------------------------------------------------------------
(* The steps *)

Init ==
    /\ envelope \in Envelopes
    /\ ops = <<>> /\ status = <<>> /\ lapses = 0
    /\ outline = Outline0 /\ made = {}

(* A plan that is not accepted, and a dry run, end here. *)
Submit ==
    /\ ops = <<>> /\ Accepted(Coalesce(envelope.plan))
    /\ ops' = Compiled(Coalesce(envelope.plan))
    /\ status' = [i \in DOMAIN ops' |-> IF envelope.dryRun THEN "shown" ELSE "pending"]
    /\ UNCHANGED <<envelope, lapses, outline, made>>

(* What the queue calls in flight: the plugin has it and has done nothing, all
   or a part of it, but the ack is still to be committed; or the plugin has
   been reloaded, and the lease is running out. *)
InFlight ==
    {i \in DOMAIN ops : status[i] \in {"in_flight", "performed", "thrown", "cut_off"}}

(* Of a payload before and after substitution. *)
Keys(o) == ConflictKeys(o) \cup ConflictKeys(Substituted(o))

Send(i) ==
    /\ status[i] = "pending" /\ "dead" \notin Range(status)
    /\ Unknown(ops[i]) = {}
    /\ \A j \in InFlight : Keys(ops[i]) \cap Keys(ops[j]) = {}
    /\ status' = [status EXCEPT ![i] = "in_flight"]
    /\ UNCHANGED <<envelope, ops, lapses, outline, made>>

(* The handler succeeds: RemNote has all of it before the queue knows. *)
Perform(i) ==
    /\ status[i] = "in_flight"
    /\ LET o == Substituted(ops[i]) IN outline' = Apply(o, outline, Items(o))
    /\ status' = [status EXCEPT ![i] = "performed"]
    /\ UNCHANGED <<envelope, ops, lapses, made>>

(* What the first n items have done stays when the rest is not done; the id
   of a Rem that they made is lost. *)
Partly(i, n) ==
    LET o == [Substituted(ops[i]) EXCEPT !.makes = NoName]
    IN outline' = IF n = 0 THEN outline ELSE Apply(o, outline, n)

(* Moves are not undone when their Rems cannot be made documents. *)
MovedOnly(i) ==
    LET o == Substituted(ops[i])
    IN /\ o.type \in {"move_rem", "move_rem_bulk"} /\ "is_document" \in o.flags
       /\ outline' = [Apply(o, outline, Items(o)) EXCEPT !.docs = outline.docs]

(* The handler throws at one of its items: executeOp makes that fatal. *)
Throw(i) ==
    /\ status[i] = "in_flight"
    /\ (\E n \in 0..(Items(ops[i]) - 1) : Partly(i, n)) \/ MovedOnly(i)
    /\ status' = [status EXCEPT ![i] = "thrown"]
    /\ UNCHANGED <<envelope, ops, lapses, made>>

(* The ack is committed, and with a success the id of what was made: the gap
   between those two commits is IdMap's. *)
Ack(i) ==
    /\ \/ /\ status[i] = "performed"
          /\ status' = [status EXCEPT ![i] = "succeeded"]
          /\ made' = made \cup ({ops[i].makes} \ {NoName})
       \/ /\ status[i] = "thrown"
          /\ status' = [status EXCEPT ![i] = "dead"]
          /\ UNCHANGED made
    /\ UNCHANGED <<envelope, ops, lapses, outline>>

(* The plugin is reloaded before the ack, with some of the items done, or all. *)
CutOff(i) ==
    /\ status[i] = "in_flight" /\ lapses < MaxLapses
    /\ \E n \in 0..Items(ops[i]) : Partly(i, n)
    /\ status' = [status EXCEPT ![i] = "cut_off"]
    /\ lapses' = lapses + 1
    /\ UNCHANGED <<envelope, ops, made>>

(* The lease lapses, and the op may be dispatched again as a whole. *)
Lapse(i) ==
    /\ status[i] = "cut_off"
    /\ status' = [status EXCEPT ![i] = "pending"]
    /\ UNCHANGED <<envelope, ops, lapses, outline, made>>

Next ==
    \/ Submit
    \/ \E i \in DOMAIN ops :
         Send(i) \/ Perform(i) \/ Throw(i) \/ Ack(i) \/ CutOff(i) \/ Lapse(i)

Spec == Init /\ [][Next]_planVars

(* The sync loop pulls while there is something ready, the plugin performs what
   it takes and answers for it, and a lease ends, unless the plugin throws or is
   reloaded. *)
Progress == \E i \in DOMAIN ops : Send(i) \/ Perform(i) \/ Ack(i) \/ Lapse(i)

FairSpec == Spec /\ WF_planVars(Progress)

-----------------------------------------------------------------------------
(* Properties *)

(* An op never reaches RemNote with a Rem that is not there yet: wherever the
   compiler lets an alias stand, the catalog has an id field, so that the
   dispatcher sees it, holds the op back, and puts the real id in. *)
HeldUntilMade == \A i \in InFlight : \A v \in Ids(Substituted(ops[i])) : v[1] = "rem"

(* What the host keeps apart the plugin keeps apart too, until the ack is
   committed: of a lapsed op that still runs there the host's conflict keys say
   nothing any more. *)
HostKeysAreLocked ==
    \A i \in InFlight :
        LET o == Substituted(ops[i])
        IN \A k \in ConflictKeys(o) : k[1] = "global" \/ k \in LockKeys(o)

(* The outline after the ops have been performed one by one, in their order. *)
Outcome(os) ==
    LET Real(v) == IF v[1] = "tmp" THEN Rem(v[2]) ELSE v
        Do(before, o) ==
          LET r == [o EXCEPT !.ids = [p \in DOMAIN o.ids |->
                      [i \in DOMAIN o.ids[p] |-> Real(o.ids[p][i])]]]
          IN Apply(r, before, Items(r))
        after[n \in 0..Len(os)] == IF n = 0 THEN Outline0 ELSE Do(after[n - 1], os[n])
    IN after[Len(os)]

Unordered(o) == [o EXCEPT !.kids = [p \in DOMAIN o.kids |-> Range(o.kids[p])]]

(* Merging keeps what the caller wrote: nothing that would have been accepted
   is refused, and every Rem ends where it was to go, with the same tags,
   sources and status, whichever neighbours it was merged with. *)
MergingKeepsWork ==
    /\ Accepted(envelope.plan) => Accepted(Coalesce(envelope.plan))
    /\ ops # <<>> => Unordered(Outcome(ops)) = Unordered(Outcome(Compiled(envelope.plan)))

(* Every step can be done before those that need its Rem. *)
Grounded(plan) ==
    \A S \in SUBSET (DOMAIN plan) \ {{}} :
        \E i \in S : \A j \in S : Ref(plan[j].as) \notin Ids(plan[i])

(* A plan settles, whatever the order of its actions, unless some wait for
   each other's Rems (or one for its own): all is done, or an op is dead. *)
PlanSettles ==
    (ops # <<>> /\ ~envelope.dryRun /\ Grounded(envelope.plan))
        ~> (\/ \A i \in DOMAIN ops : status[i] = "succeeded"
            \/ \E i \in DOMAIN ops : status[i] = "dead")
=============================================================================
