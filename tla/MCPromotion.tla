---------------------------- MODULE MCPromotion ----------------------------
(***************************************************************************)
(* Requests for Promotion: the Rems A, B and C under the page P, another   *)
(* page Q.  A Rem is not to be moved below itself: P and Q are the only    *)
(* parents named.                                                          *)
(***************************************************************************)
EXTENDS Promotion

Pages == [kids |-> (Rem("P") :> <<Rem("A"), Rem("B"), Rem("C")>> @@ Rem("Q") :> <<>>),
          docs |-> {}, tags |-> {}, sources |-> {}, todo |-> <<>>]

At1(kind, r, pos) == [kind |-> kind, ref |-> Rem(r), pos |-> pos]
No == At1("none", "", <<>>)
InPlace == At1("in_place", "", <<>>)

Spots ==
    {At1("standalone", "", <<>>), At1("parent", "P", <<1>>), At1("before", "A", <<>>),
     At1("after", "B", <<>>), At1("after", "P", <<>>)}

SmallRequests ==
    [do : {"create"}, source : {"from"}, from : {<<Rem("B"), Rem("A")>>, <<Rem("C"), Rem("A")>>},
     at : Spots, portal : {InPlace, At1("parent", "P", <<0>>)}]
    \cup [do : {"create"}, source : {"selection"},
          from : {<<Rem("C"), Rem("A")>>, <<Rem("B"), Rem("C"), Rem("B")>>},
          at : {At1("parent", "Q", <<>>)}, portal : {No, InPlace, At1("after", "A", <<>>)}]
    \cup [do : {"create"}, source : {"text", "body", "markdown", "from"}, from : {<<>>},
          at : {At1("parent", "Q", <<>>)},
          portal : {InPlace, At1("before", "C", <<>>), At1("standalone", "", <<>>)}]
    \cup [do : {"move"}, source : {"from"}, from : {<<Rem("B")>>, <<Rem("Q")>>}, at : Spots,
          portal : {No, InPlace, At1("parent", "Q", <<>>)}]

(* rem create --from id:A --from id:B --at standalone *)
TwoSources ==
    [do : {"create"}, source : {"from"}, from : {<<Rem("A"), Rem("B")>>},
     at : {At1("standalone", "", <<>>)}, portal : {No}]
=============================================================================
