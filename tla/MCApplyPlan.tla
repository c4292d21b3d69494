---------------------------- MODULE MCApplyPlan ----------------------------
(***************************************************************************)
(* Plans for ApplyPlan: on the pages P and Q, with the Rems A and B under  *)
(* P and the tag T.                                                        *)
(***************************************************************************)
EXTENDS ApplyPlan

SmallOutline == [kids |-> (Rem("P") :> <<Rem("A"), Rem("B")>> @@ Rem("Q") :> <<>>),
                 docs |-> {}, tags |-> {}, sources |-> {}, todo |-> <<>>]

Some ==
    [p \in {"rem_id", "target_rem_id", "target.rem_ids[]", "portal_id"} |-> <<Rem("A")>>] @@
    [p \in {"rem_ids[]", "items[].rem_id", "items[].target_rem_id"} |->
        <<Rem("A"), Rem("B")>>] @@
    "parent_id" :> <<Rem("P")>> @@ "new_parent_id" :> <<Rem("Q")>> @@
    "tag_id" :> <<Rem("T")>> @@ "source_id" :> <<Rem("B")>> @@
    "items[].tag_id" :> <<Rem("T"), Rem("T")>> @@
    "items[].source_id" :> <<Rem("B"), Rem("A")>>

Step(a, as, ids) ==
    [action |-> a, as |-> as, ids |-> ids,
     poses |-> IF a = "portal.createMany" THEN <<<<>>, <<>>>> ELSE <<<<>>>>,
     words |-> IF a = "todo.setStatusMany" THEN <<"w", "w">> ELSE <<"w">>, flags |-> {}]

(* An action with all its paths, one of them holding the alias n. *)
Using(a, p) ==
    LET paths == Actions[a].needs \cup {p}
        ids == [q \in paths |-> IF a = "rem.replace" /\ q = "rem_ids[]" THEN <<Rem("A")>>
                                ELSE Some[q]]
    IN Step(a, "", [ids EXCEPT ![p][1] = Ref("n")])

Bullet(as, parent) == Step("write.bullet", as, [parent_id |-> <<parent>>])
Portal(as, t) == Step("portal.create", as, [parent_id |-> <<Rem("P")>>, target_rem_id |-> <<t>>])
Tag(r) == Step("tag.add", "", [rem_id |-> <<r>>, tag_id |-> <<Rem("T")>>])
Move(r, p) == Step("rem.move", "", [rem_id |-> <<Rem(r)>>, new_parent_id |-> <<Rem(p)>>])

UsingPlans ==
    UNION {{<<Bullet("n", Rem("P")), Using(a, p)>> : p \in Actions[a].refs} :
           a \in DOMAIN Actions}

SpecialPlans ==
    { << Portal("n", Rem("A")), Tag(Ref("n")) >>,
      << Tag(Ref("n")), Bullet("n", Rem("Q")) >>,                      \* forwards
      << Bullet("n", Ref("n")) >>,                                     \* waits for itself
      << Bullet("n", Ref("m")), Bullet("m", Ref("n")) >>,
      << Bullet("n", Rem("P")), Bullet("m", Ref("n")), Tag(Ref("m")) >>,
      << Bullet("n", Rem("P")), Bullet("n", Rem("Q")) >>,              \* refused, as
      << Tag(Ref("n")) >>, << Step("daily.write", "n", <<>>) >>,       \* are these
      << Step("daily.write", "", <<>>), Tag(Rem("A")) >>,
      << [Step("write.bullet", "n", <<>>) EXCEPT !.flags = {"standalone"}], Move("A", "Q") >>,
      << [Move("A", "Q") EXCEPT !.flags = {"leave_portal", "is_document"}], Move("B", "Q") >>,
      << [Step("rem.move", "", [rem_id |-> <<Rem("A")>>]) EXCEPT !.flags = {"standalone"}] >> }

(* What may be merged with one another. *)
Mergeable ==
    { Move("A", "Q"), Move("B", "Q"), Move("B", "P"),
      [Move("A", "Q") EXCEPT !.poses = <<<<1>>>>],
      Portal("", Rem("A")), [Portal("", Rem("B")) EXCEPT !.poses = <<<<0>>>>],
      Tag(Rem("A")), [Tag(Rem("A")) EXCEPT !.action = "tag.remove"],
      [Tag(Rem("B")) EXCEPT !.action = "tag.remove", !.flags = {"remove_properties"}],
      Step("todo.setStatus", "", [rem_id |-> <<Rem("A")>>]),
      [Step("todo.setStatus", "", [rem_id |-> <<Rem("A")>>]) EXCEPT !.words = <<"v">>] }

SmallEnvelopes ==
    [plan : UsingPlans \cup SpecialPlans \cup {<<s, t>> : s, t \in Mergeable},
     dryRun : {FALSE}]
    \cup [plan : {<<s, t, u>> : s, t, u \in Mergeable}, dryRun : {TRUE}]

=============================================================================
