----------------------------- MODULE Promotion -----------------------------
(***************************************************************************)
(* `rem create` and `rem move`: a Rem gets a place of its own, and a       *)
(* portal to it stays where it came from or goes where the caller says     *)
(* (commands/write/rem).  The command reads the places from the outline it *)
(* finds, writes them into a plan (_promotion.ts), which ApplyPlan takes   *)
(* from there, waits for the transaction, or until its patience ends, and  *)
(* tells the caller what has become of it (receiptBuilders.ts).            *)
(*                                                                         *)
(* A request is [do |-> "create", source, from, at, portal] with the       *)
(* source "text", "body" (a text below a title), "markdown", "from" or     *)
(* "selection", or [do |-> "move", source |-> "from", from |-> <<r>>, at,  *)
(* portal].  A placement is [kind, ref, pos], pos being <<>> or <<n>>; a   *)
(* portal is a placement too, or of the kind "none" or "in_place".         *)
(* Titles, tags and what a ref is resolved from are left out.              *)
(***************************************************************************)
EXTENDS ApplyPlan

CONSTANT Requests

(* What is made is no Rem that the caller could name or that is in the outline,
   in which every Rem has one place at most. *)
IsFound(v) == v[1] = "rem" /\ v[2] \notin {"durable_target", "portal_rem", "w"}

AtShape(place) ==
    /\ place.pos \in Seq(Nat) /\ Len(place.pos) <= 1
    /\ place.kind \in {"parent", "before", "after"} => IsFound(place.ref)

RequestShape ==
    \A r \in Requests :
        /\ r.do \in {"create", "move"}
        /\ r.source \in {"text", "body", "markdown", "from", "selection"}
        /\ r.from \in Seq(Range(r.from)) /\ \A v \in Range(r.from) : IsFound(v)
        /\ r.do = "move" => r.source = "from" /\ Len(r.from) = 1
        /\ AtShape(r.at) /\ r.at.kind \in {"standalone", "parent", "before", "after"}
        /\ AtShape(r.portal)
        /\ r.portal.kind \in {"none", "in_place", "standalone", "parent", "before", "after"}

OutlineShape ==
    LET kids == Outline0.kids
    IN /\ \A p \in DOMAIN kids :
            /\ IsFound(p) /\ kids[p] \in Seq(Range(kids[p]))
            /\ \A v \in Range(kids[p]) : IsFound(v)
       /\ \A p, q \in DOMAIN kids : \A i \in DOMAIN kids[p], j \in DOMAIN kids[q] :
            kids[p][i] = kids[q][j] => p = q /\ i = j

VARIABLES
    request,
    leftNone,   \* the result of the move: it succeeded, but left no portal
    receipt     \* what the caller is told: [status, portal]

promoVars == <<planVars, request, leftNone, receipt>>

Durable == "durable_target"
PortalRem == "portal_rem"

Targets == request.source \in {"from", "selection"}

(* normalizeExplicitFromSource: each source once. *)
Sources ==
    LET once[n \in 0 .. Len(request.from)] ==
          IF n = 0 THEN <<>>
          ELSE IF request.from[n] \in Range(once[n - 1]) THEN once[n - 1]
          ELSE Append(once[n - 1], request.from[n])
    IN once[Len(request.from)]

-----------------------------------------------------------------------------
(* The places, in the outline that is found. *)

(* requireStableSiblingRange: neighbours under one parent, in any order. *)
RangesIn(kids, ids) ==
    UNION {{<<p, i>> : i \in {i \in 1..(Len(kids[p]) - Len(ids) + 1) :
                Range(SubSeq(kids[p], i, i + Len(ids) - 1)) = Range(ids)}} : p \in DOMAIN kids}

RangesOf(ids) == RangesIn(outline.kids, ids)

TheRange == CHOOSE range \in RangesOf(Sources) : TRUE

(* Slip: the slot is that of the source that is named first. *)
SlotOfFirstNamed ==
    LET p == TheRange[1]
    IN [parent |-> <<p>>,
        pos |-> <<(CHOOSE i \in DOMAIN outline.kids[p] : outline.kids[p][i] = Sources[1]) - 1>>]

Slot == [parent |-> <<TheRange[1]>>, pos |-> <<TheRange[2] - 1>>]

(* The sources of a range in its order; others as they are given. *)
Ordered ==
    IF RangesOf(Sources) = {} THEN Sources
    ELSE SubSeq(outline.kids[TheRange[1]], TheRange[2], TheRange[2] + Len(Sources) - 1)

(* resolveAnchorPlacement *)
BesideAnchor(r, offset) ==
    LET p == CHOOSE p \in ParentsOf({r}) : TRUE
        Index == CHOOSE i \in DOMAIN outline.kids[p] : outline.kids[p][i] = r
    IN [parent |-> <<p>>, pos |-> <<Index - 1 + offset>>]

(* resolvePlacementSpec *)
Resolve(place) ==
    CASE place.kind = "standalone" -> [parent |-> <<>>, pos |-> <<>>]
      [] place.kind = "parent" -> [parent |-> <<place.ref>>, pos |-> place.pos]
      [] place.kind = "before" -> BesideAnchor(place.ref, 0)
      [] place.kind = "after" -> BesideAnchor(place.ref, 1)

Anchorless(place) ==
    place.kind \in {"before", "after"} /\ ParentsOf({place.ref}) = {}

(* The requests that normalize...Intent, parsePortalStrategy and the places
   refuse. *)
Refused ==
    \/ Targets /\ request.from = <<>>
    \/ request.source = "selection" /\ Len(request.from) # Len(Sources)  \* one twice
    \/ request.portal.kind = "standalone"
    \/ request.do = "create" /\ request.portal.kind = "in_place" /\ ~Targets
    \/ /\ \/ request.source = "selection"
          \/ request.do = "create" /\ request.portal.kind = "in_place"
       /\ Targets /\ RangesOf(Sources) = {}
    \/ Anchorless(request.at) \/ Anchorless(request.portal)

-----------------------------------------------------------------------------
(* The plan *)

Do(action, as, ids, pos, flags) ==
    [action |-> action, as |-> as, ids |-> ids, poses |-> <<pos>>, words |-> <<"w">>,
     flags |-> flags]

(* addResolvedPlacementToInput, of a parent that goes by the name given. *)
Placed(place, name) ==
    IF place.parent = <<>> THEN [ids |-> <<>>, flags |-> {"standalone"}]
    ELSE [ids |-> [p \in {name} |-> place.parent], flags |-> {}]

(* The position that comes with a parent is not taken over. *)
PortalPlace ==
    CASE request.portal.kind = "in_place" -> Slot
      [] request.portal.kind = "parent" -> [parent |-> <<request.portal.ref>>, pos |-> <<>>]
      [] OTHER -> Resolve(request.portal)

PortalTo(target) ==
    Do("portal.create", PortalRem,
       [parent_id |-> PortalPlace.parent, target_rem_id |-> <<target>>], PortalPlace.pos, {})

(* buildCreatePromotionActions *)
CreatePlan ==
    LET place == Resolve(request.at)
        where == Placed(place, "parent_id")
        below == CASE request.source = "markdown" ->
                        << Do("rem.children.append", NoName, [rem_id |-> <<Ref(Durable)>>],
                              <<>>, {}) >>
                   [] request.source = "body" ->
                        << Do("write.bullet", NoName, [parent_id |-> <<Ref(Durable)>>], <<>>, {}) >>
                   [] request.source = "text" -> <<>>
                   [] OTHER ->
                        [i \in DOMAIN Ordered |->
                            Do("rem.move", NoName, [rem_id |-> <<Ordered[i]>>,
                                                    new_parent_id |-> <<Ref(Durable)>>], <<>>, {})]
    IN << Do("write.bullet", Durable, where.ids, place.pos, where.flags) >> \o below
       \o (IF request.portal.kind = "none" THEN <<>> ELSE << PortalTo(Ref(Durable)) >>)

(* buildMovePromotionActions *)
MovePlan ==
    LET place == Resolve(request.at)
        where == Placed(place, "new_parent_id")
        leave == IF request.portal.kind = "in_place" THEN {"leave_portal"} ELSE {}
        ids == [p \in DOMAIN where.ids \cup {"rem_id"} |->
                  IF p = "rem_id" THEN request.from ELSE where.ids[p]]
    IN << Do("rem.move", NoName, ids, place.pos, where.flags \cup leave) >>
       \o (IF request.portal.kind \in {"none", "in_place"} THEN <<>>
           ELSE << PortalTo(request.from[1]) >>)

-----------------------------------------------------------------------------
(* The steps *)

PromoInit ==
    /\ request \in Requests /\ leftNone = FALSE
    /\ receipt = [status |-> "none", portal |-> FALSE]
    /\ envelope = [plan |-> <<>>, dryRun |-> FALSE]
    /\ ops = <<>> /\ status = <<>> /\ lapses = 0
    /\ outline = Outline0 /\ made = {}

Promote ==
    /\ envelope.plan = <<>> /\ ~Refused
    /\ envelope' = [plan |-> IF request.do = "create" THEN CreatePlan ELSE MovePlan,
                    dryRun |-> FALSE]
    /\ UNCHANGED <<ops, status, lapses, outline, made, request, leftNone, receipt>>

(* executeMoveRem: a portal that cannot be left is a warning; without a parent
   there is no place to leave it in. *)
MoveOnly(i) ==
    /\ status[i] = "in_flight" /\ "leave_portal" \in ops[i].flags
    /\ LET o == [Substituted(ops[i]) EXCEPT !.flags = @ \ {"leave_portal"}]
       IN outline' = Apply(o, outline, Items(o))
    /\ status' = [status EXCEPT ![i] = "performed"]
    /\ leftNone' = TRUE
    /\ UNCHANGED <<envelope, ops, lapses, made, request, receipt>>

HasPlaceForPortal(i) ==
    "leave_portal" \in ops[i].flags => ParentsOf(At(ops[i], "rem_id")) # {}

Done == \A i \in DOMAIN ops : status[i] = "succeeded"

PortalOps == {i \in DOMAIN ops : ops[i].type = "create_portal"}

(* Slip: the other ops are not looked at. *)
PartialByPortal == Durable \in made /\ \E i \in PortalOps : status[i] # "succeeded"

(* buildPartialCreateReceipt *)
Partial ==
    /\ Durable \in made
    /\ \A i \in DOMAIN ops \ PortalOps : status[i] = "succeeded"
    /\ \E i \in PortalOps : status[i] # "succeeded"

(* The caller hears that all is done, or, when the transaction has failed or
   the time is over, what the queue then knows.  That look fails, or comes too
   late to find a part missing: the caller hears of a failure at any time.
   (What its SELECTs see of commits in between is IdMap's.) *)
Answer ==
    /\ ops # <<>> /\ receipt.status = "none"
    /\ \/ receipt' = [status |-> "failed", portal |-> FALSE]
       \/ /\ Done
          /\ receipt' = [status |-> "ok",
                         portal |-> IF request.do = "move" /\ request.portal.kind = "in_place"
                                    THEN ~leftNone ELSE PortalRem \in made]
       \/ /\ request.do = "create" /\ Partial
          /\ receipt' = [status |-> "partial", portal |-> FALSE]
    /\ UNCHANGED <<planVars, request, leftNone>>

PromoNext ==
    \/ Promote \/ Answer \/ (\E i \in DOMAIN ops : MoveOnly(i))
    \/ Submit /\ envelope.plan # <<>> /\ UNCHANGED <<request, leftNone, receipt>>
    \/ /\ \E i \in DOMAIN ops :
            \/ Send(i) \/ (Perform(i) /\ HasPlaceForPortal(i)) \/ Throw(i)
            \/ Ack(i) \/ CutOff(i) \/ Lapse(i)
       /\ UNCHANGED <<request, leftNone, receipt>>

PromoSpec == PromoInit /\ [][PromoNext]_promoVars

-----------------------------------------------------------------------------
(* Properties *)

Portals0 == {Rem(PortalRem)} \cup {<<"portal", r>> : r \in Range(request.from)}
PortalThere == \E p \in DOMAIN outline.kids : Range(outline.kids[p]) \cap Portals0 # {}

PortalUnderWay == lapses > 0 \/ \E i \in PortalOps : i \in InFlight

GoodReceipt ==
    /\ receipt'.status = "partial" =>
         /\ PortalThere => PortalUnderWay
         /\ Targets => ParentsOf(Range(Sources)) = {Rem(Durable)}
    /\ receipt'.portal => PortalThere
    /\ receipt'.status = "ok" /\ lapses = 0 => (PortalThere => receipt'.portal)

(* What the caller is told is so: of a partial success, that the sources are
   where they were to go, and that the portal is missing if the queue has given
   it up or not begun it; of a success, whether there is a portal.  A caller
   whose time is over before the ack of the portal is committed hears
   "created: false" of one that may stand, and of a portal that a delivery cut
   off has made nobody knows. *)
ReceiptTellsTruth == [][receipt' # receipt => GoodReceipt]_promoVars

Before(p, i) == SubSeq(Outline0.kids[p], 1, i - 1)
After(p, i) == SubSeq(Outline0.kids[p], i + Len(Sources), Len(Outline0.kids[p]))

(* A portal that is left in place stands where the sources were, in whatever
   order the moves and the portal are performed: unless the new Rem itself has
   gone into the same parent above them, which nobody takes into account. *)
PortalFillsSlot ==
    (/\ ops # <<>> /\ Done /\ lapses = 0 /\ ~leftNone
     /\ request.portal.kind = "in_place" /\ request.do = "create")
    => \E slot \in RangesIn(Outline0.kids, Sources) :
         LET p == slot[1]  i == slot[2] IN
         \/ Without(outline.kids, Rem(Durable))[p] =
               Before(p, i) \o <<Rem(PortalRem)>> \o After(p, i)
         \/ Rem(Durable) \in Range(SubSeq(outline.kids[p], 1, i - 1))

(* The documented rule (FR-015C): the sources keep the order they had under
   their parent, whatever order the caller names them in. *)
SourcesKeepOrder ==
    (ops # <<>> /\ Done /\ lapses = 0 /\ request.do = "create" /\ Targets)
    => \A p \in DOMAIN Outline0.kids :
         Range(Sources) \subseteq Range(Outline0.kids[p])
           => outline.kids[Rem(Durable)] =
                SelectSeq(Outline0.kids[p], LAMBDA r : r \in Range(Sources))
=============================================================================
