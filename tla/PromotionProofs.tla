--------------------------- MODULE PromotionProofs ---------------------------
(***************************************************************************)
(* What is proved of Promotion, for all requests and outlines of the shape *)
(* that Promotion states, and every number of lapses: a portal that is     *)
(* left in place fills the slot of what was moved, and the caller is told  *)
(* the truth.  HostParts takes it over, with its own requests and outline. *)
(***************************************************************************)
EXTENDS Promotion, SequenceTheorems, WellFoundedInduction, TLAPS

-----------------------------------------------------------------------------
(* Induction up to a number, which rests on there being a least number that
   a property does not hold for. *)

Less == OpToRel(<, Nat)

LEMMA LeastNat ==
    ASSUME NEW T, T \subseteq Nat, T # {}
    PROVE  \E x \in T : \A y \in T : x <= y
<1>1. Less = {p \in Nat \X Nat : p[1] < p[2]}
  BY DEF Less, OpToRel
<1>2. PICK x \in T : \A y \in T : <<y, x>> \notin Less
  BY NatLessThanWellFounded, WFMin DEF Less
<1>3. \A y \in T : ~(y < x)
  BY <1>1, <1>2
<1> QED BY <1>3

LEMMA UpTo ==
    ASSUME NEW k \in Nat, NEW S, 0 \in S, \A n \in 1 .. k : n - 1 \in S => n \in S
    PROVE  0 .. k \subseteq S
<1> DEFINE T == (0 .. k) \ S
<1> SUFFICES ASSUME T # {} PROVE FALSE
  OBVIOUS
<1>a. T \subseteq Nat
  OBVIOUS
<1>1. PICK n \in T : \A m \in T : n <= m
  <2> HIDE DEF T
  <2> QED BY <1>a, LeastNat
<1>2. n \in 1 .. k /\ n - 1 \in 0 .. k
  BY <1>1
<1> QED BY <1>1, <1>2

-----------------------------------------------------------------------------
LEMMA ByAppending ==
    ASSUME NEW S, NEW P, <<>> \in P,
           \A s \in Seq(S) : s \in P => \A e \in S : Append(s, e) \in P
    PROVE  Seq(S) \subseteq P
<1> SUFFICES ASSUME NEW s \in Seq(S) PROVE s \in P
  OBVIOUS
<1> DEFINE L == {n \in Nat : \A t \in Seq(S) : Len(t) = n => t \in P}
<1>1. Len(s) \in Nat
  OBVIOUS
<1>2. 0 \in L
  OBVIOUS
<1>3. ASSUME NEW n \in 1 .. Len(s), n - 1 \in L PROVE n \in L
  <2>1. SUFFICES ASSUME NEW t \in Seq(S), Len(t) = n PROVE t \in P
    OBVIOUS
  <2>2. t # <<>>
    BY <2>1
  <2>3. PICK u \in Seq(S), e \in S : t = Append(u, e)
    BY <2>2, SequenceEmptyOrAppend
  <2>4. Len(u) = n - 1
    BY <2>1, <2>3
  <2> QED BY <1>3, <2>3, <2>4
<1> HIDE DEF L
<1>4. Len(s) \in L
  <2>1. 0 .. Len(s) \subseteq L
    BY <1>1, <1>2, <1>3, UpTo
  <2> QED BY <1>1, <2>1
<1> QED BY <1>4 DEF L

RestOf(acc, k, s, X) ==
    acc = [n \in 0 .. k |->
             IF n = 0 THEN <<>>
             ELSE IF s[n] \in X THEN acc[n - 1] ELSE Append(acc[n - 1], s[n])]

LEMMA RestExists ==
    ASSUME NEW s, NEW X, NEW k \in Nat
    PROVE  \E acc : RestOf(acc, k, s, X)
<1> DEFINE S == {n \in Nat : \E acc : RestOf(acc, n, s, X)}
<1>1. 0 \in S
  <2> DEFINE acc == [n \in 0 .. 0 |-> <<>>]
  <2>1. RestOf(acc, 0, s, X)
    BY DEF RestOf
  <2> QED BY <2>1
<1>2. ASSUME NEW n \in 1 .. k, n - 1 \in S PROVE n \in S
  <2>1. PICK acc : RestOf(acc, n - 1, s, X)
    BY <1>2
  <2> DEFINE last == IF s[n] \in X THEN acc[n - 1] ELSE Append(acc[n - 1], s[n])
             new == [m \in 0 .. n |-> IF m = n THEN last ELSE acc[m]]
  <2>2. acc = [m \in 0 .. n - 1 |->
                 IF m = 0 THEN <<>>
                 ELSE IF s[m] \in X THEN acc[m - 1] ELSE Append(acc[m - 1], s[m])]
    BY <2>1 DEF RestOf
  <2>3. ASSUME NEW m \in 0 .. n
        PROVE  new[m] = IF m = 0 THEN <<>>
                        ELSE IF s[m] \in X THEN new[m - 1] ELSE Append(new[m - 1], s[m])
    <3>1. CASE m = 0
      <4>1. m \in 0 .. n - 1 /\ new[m] = acc[m]
        BY <3>1
      <4> QED BY <2>2, <3>1, <4>1
    <3>2. CASE m \in 1 .. n - 1
      <4>1. m \in 0 .. n - 1 /\ new[m] = acc[m] /\ new[m - 1] = acc[m - 1] /\ m # 0
        BY <3>2
      <4> QED BY <2>2, <4>1
    <3>3. CASE m = n
      <4>1. new[m] = last /\ new[m - 1] = acc[n - 1] /\ m # 0
        BY <3>3
      <4> QED BY <3>3, <4>1
    <3> QED BY <3>1, <3>2, <3>3
  <2>4. new = [m \in 0 .. n |-> new[m]]
    OBVIOUS
  <2>5. RestOf(new, n, s, X)
    <3> HIDE DEF new
    <3> QED BY <2>3, <2>4 DEF RestOf
  <2>6. n \in Nat
    OBVIOUS
  <2> HIDE DEF new
  <2> QED BY <2>5, <2>6
<1> HIDE DEF S
<1>3. k \in S
  BY <1>1, <1>2, UpTo
<1> QED BY <1>3 DEF S

LEMMA RestIs ==
    ASSUME NEW S, NEW s \in Seq(S), NEW X
    PROVE  \E acc : RestOf(acc, Len(s), s, X) /\ Leaving(s, X) = acc[Len(s)]
<1> DEFINE acc == CHOOSE g : RestOf(g, Len(s), s, X)
<1>1. RestOf(acc, Len(s), s, X)
  BY RestExists
<1>2. Leaving(s, X) = acc[Len(s)]
  BY DEF Leaving, RestOf
<1> HIDE DEF acc
<1> QED BY <1>1, <1>2

LEMMA LeavingNone == ASSUME NEW X PROVE Leaving(<<>>, X) = <<>>
<1> DEFINE none == <<>>
<1>1. none \in Seq({}) /\ Len(none) = 0
  OBVIOUS
<1> HIDE DEF none
<1>2. PICK acc : RestOf(acc, Len(none), none, X) /\ Leaving(none, X) = acc[Len(none)]
  BY <1>1, RestIs
<1>3. acc[Len(none)] = <<>>
  BY <1>1, <1>2 DEF RestOf
<1> QED BY <1>2, <1>3 DEF none

LEMMA LeavingOneMore ==
    ASSUME NEW S, NEW s \in Seq(S), NEW e \in S, NEW X
    PROVE  Leaving(Append(s, e), X)
             = IF e \in X THEN Leaving(s, X)
               ELSE Append(Leaving(s, X), e)
<1> DEFINE t == Append(s, e)
<1>1. t \in Seq(S) /\ Len(t) = Len(s) + 1 /\ t[Len(t)] = e /\ Len(s) \in Nat
      /\ \A i \in 1 .. Len(s) : t[i] = s[i]
  OBVIOUS
<1> HIDE DEF t
<1>2. PICK a : RestOf(a, Len(t), t, X) /\ Leaving(t, X) = a[Len(t)]
  BY <1>1, RestIs
<1>3. PICK b : RestOf(b, Len(s), s, X) /\ Leaving(s, X) = b[Len(s)]
  BY RestIs
<1> DEFINE Same == {n \in 0 .. Len(s) : a[n] = b[n]}
<1>4. ASSUME NEW n \in 1 .. Len(s), n - 1 \in Same PROVE n \in Same
  <2>1. n \in 0 .. Len(s) /\ n \in 0 .. Len(t) /\ n # 0 /\ t[n] = s[n]
    BY <1>1
  <2>2. a[n] = IF t[n] \in X THEN a[n - 1] ELSE Append(a[n - 1], t[n])
    BY <1>2, <2>1 DEF RestOf
  <2>3. b[n] = IF s[n] \in X THEN b[n - 1] ELSE Append(b[n - 1], s[n])
    BY <1>3, <2>1 DEF RestOf
  <2> QED BY <1>4, <2>1, <2>2, <2>3
<1>5. 0 \in Same
  <2>1. 0 \in 0 .. Len(s) /\ 0 \in 0 .. Len(t)
    BY <1>1
  <2> QED BY <1>2, <1>3, <2>1 DEF RestOf
<1> HIDE DEF Same
<1>6. Len(s) \in Same
  <2>1. 0 .. Len(s) \subseteq Same
    BY <1>1, <1>4, <1>5, UpTo
  <2> QED BY <1>1, <2>1
<1>7. a[Len(s)] = b[Len(s)]
  BY <1>6 DEF Same
<1>8. a[Len(t)] = IF e \in X THEN a[Len(s)] ELSE Append(a[Len(s)], e)
  <2>1. Len(t) \in 0 .. Len(t) /\ Len(t) # 0 /\ Len(t) - 1 = Len(s)
    BY <1>1
  <2> QED BY <1>1, <1>2, <2>1 DEF RestOf
<1> QED BY <1>2, <1>3, <1>7, <1>8 DEF t

LEMMA LeavingIsSeq == ASSUME NEW S, NEW X PROVE \A s \in Seq(S) : Leaving(s, X) \in Seq(S)
<1> DEFINE W(u) == Leaving(u, X)
           P == {s \in Seq(S) : W(s) \in Seq(S)}
<1>1. <<>> \in P
  <2>1. W(<<>>) = <<>>
    BY LeavingNone
  <2>2. <<>> \in Seq(S)
    OBVIOUS
  <2> HIDE DEF W
  <2>3. W(<<>>) \in Seq(S)
    BY <2>1, <2>2
  <2> QED BY <2>2, <2>3
<1>2. ASSUME NEW s \in Seq(S), s \in P, NEW e \in S PROVE Append(s, e) \in P
  <2>1. W(Append(s, e)) = IF e \in X THEN W(s) ELSE Append(W(s), e)
    BY LeavingOneMore
  <2>2. W(s) \in Seq(S) /\ Append(s, e) \in Seq(S)
    BY <1>2
  <2> HIDE DEF W
  <2>3. Append(W(s), e) \in Seq(S)
    BY <2>2
  <2> QED BY <2>1, <2>2, <2>3
<1> HIDE DEF P
<1>3. Seq(S) \subseteq P
  BY <1>1, <1>2, ByAppending
<1> QED BY <1>3 DEF P

Els(s) == Range(s)

LEMMA ElsAppend ==
    ASSUME NEW S, NEW s \in Seq(S), NEW e
    PROVE  Els(Append(s, e)) = Els(s) \cup {e}
<1>1. /\ Len(s) \in Nat /\ DOMAIN s = 1 .. Len(s)
      /\ DOMAIN Append(s, e) = 1 .. Len(s) + 1
      /\ \A i \in 1 .. Len(s) : Append(s, e)[i] = s[i]
      /\ Append(s, e)[Len(s) + 1] = e
  OBVIOUS
<1>2. \A i \in 1 .. Len(s) + 1 : i \in 1 .. Len(s) \/ i = Len(s) + 1
  BY <1>1
<1>3. Len(s) + 1 \in 1 .. Len(s) + 1 /\ 1 .. Len(s) \subseteq 1 .. Len(s) + 1
  BY <1>1
<1> DEFINE t == Append(s, e)
<1> HIDE DEF t
<1>4. Els(t) = Els(s) \cup {e}
  BY <1>1, <1>2, <1>3 DEF t, Els, Range
<1> QED BY <1>4 DEF t

LEMMA ElsConcat ==
    ASSUME NEW S, NEW s \in Seq(S), NEW t \in Seq(S)
    PROVE  Els(s \o t) = Els(s) \cup Els(t)
<1>1. /\ Len(s) \in Nat /\ Len(t) \in Nat /\ Len(s \o t) = Len(s) + Len(t)
      /\ DOMAIN s = 1 .. Len(s) /\ DOMAIN t = 1 .. Len(t)
      /\ DOMAIN (s \o t) = 1 .. Len(s) + Len(t)
      /\ \A i \in 1 .. Len(s) + Len(t) :
           (s \o t)[i] = IF i <= Len(s) THEN s[i] ELSE t[i - Len(s)]
  OBVIOUS
<1>2. \A i \in 1 .. Len(t) :
        Len(s) + i \in 1 .. Len(s) + Len(t) /\ (s \o t)[Len(s) + i] = t[i]
  BY <1>1
<1>3. Els(t) \subseteq Els(s \o t)
  <2>1. SUFFICES ASSUME NEW i \in DOMAIN t PROVE t[i] \in Els(s \o t)
    BY DEF Els, Range
  <2>2. Len(s) + i \in DOMAIN (s \o t) /\ (s \o t)[Len(s) + i] = t[i]
    BY <1>1, <1>2
  <2> QED BY <2>2 DEF Els, Range
<1>4. Els(s) \subseteq Els(s \o t)
  BY <1>1 DEF Els, Range
<1>5. Els(s \o t) \subseteq Els(s) \cup Els(t)
  BY <1>1 DEF Els, Range
<1> QED BY <1>3, <1>4, <1>5

LEMMA ElsOfSeq == ASSUME NEW S, NEW s \in Seq(S) PROVE Els(s) \subseteq S
  BY DEF Els, Range

LEMMA ElsEmpty == ASSUME NEW S, NEW s \in Seq(S) PROVE Els(s) = {} <=> s = <<>>
  BY DEF Els, Range

LEMMA LeavingEls ==
    ASSUME NEW S, NEW X
    PROVE  \A s \in Seq(S) : Els(Leaving(s, X)) = Els(s) \ X
<1> DEFINE P == {s \in Seq(S) : Els(Leaving(s, X)) = Els(s) \ X}
<1>1. <<>> \in P
  BY LeavingNone DEF Els, Range
<1>2. ASSUME NEW s \in Seq(S), s \in P, NEW e \in S PROVE Append(s, e) \in P
  <2>1. Els(Append(s, e)) = Els(s) \cup {e}
    BY ElsAppend
  <2>2. Leaving(s, X) \in Seq(S)
    BY LeavingIsSeq
  <2>3. Els(Append(Leaving(s, X), e)) = Els(Leaving(s, X)) \cup {e}
    BY <2>2, ElsAppend
  <2>4. Els(Leaving(s, X)) = Els(s) \ X
    BY <1>2
  <2>5. Leaving(Append(s, e), X)
          = IF e \in X THEN Leaving(s, X) ELSE Append(Leaving(s, X), e)
    BY LeavingOneMore
  <2>6. Els(Leaving(Append(s, e), X)) = (Els(s) \cup {e}) \ X
    <3>1. CASE e \in X
      BY <2>4, <2>5, <3>1
    <3>2. CASE e \notin X
      BY <2>3, <2>4, <2>5, <3>2
    <3> QED BY <3>1, <3>2
  <2> QED BY <2>1, <2>6
<1> HIDE DEF P
<1>3. Seq(S) \subseteq P
  BY <1>1, <1>2, ByAppending
<1> QED BY <1>3 DEF P

LEMMA LeavingConcat ==
    ASSUME NEW S, NEW X, NEW s \in Seq(S)
    PROVE  \A t \in Seq(S) : Leaving(s \o t, X)
                               = Leaving(s, X) \o Leaving(t, X)
<1> DEFINE W(u) == Leaving(u, X)
           P == {t \in Seq(S) : W(s \o t) = W(s) \o W(t)}
<1>1. <<>> \in P
  <2>1. W(s) \in Seq(S) /\ W(<<>>) = <<>>
    BY LeavingIsSeq, LeavingNone
  <2>2. \A u \in Seq(S) : u \o <<>> = u
    OBVIOUS
  <2> HIDE DEF W
  <2> QED BY <2>1, <2>2
<1>2. ASSUME NEW t \in Seq(S), t \in P, NEW e \in S PROVE Append(t, e) \in P
  <2>1. s \o Append(t, e) = Append(s \o t, e) /\ s \o t \in Seq(S)
    OBVIOUS
  <2>2. W(s) \in Seq(S) /\ W(t) \in Seq(S)
    BY LeavingIsSeq
  <2>3. W(s) \o Append(W(t), e) = Append(W(s) \o W(t), e)
    <3>1. \A a, b \in Seq(S) : a \o Append(b, e) = Append(a \o b, e)
      OBVIOUS
    <3> HIDE DEF W
    <3> QED BY <2>2, <3>1
  <2>4. W(Append(s \o t, e)) = IF e \in X THEN W(s \o t) ELSE Append(W(s \o t), e)
    BY <2>1, LeavingOneMore, ZenonT(30)
  <2>5. W(Append(t, e)) = IF e \in X THEN W(t) ELSE Append(W(t), e)
    BY LeavingOneMore
  <2>6. W(s \o t) = W(s) \o W(t)
    BY <1>2
  <2>7. Append(t, e) \in Seq(S)
    OBVIOUS
  <2> HIDE DEF W
  <2>8. W(s \o Append(t, e)) = W(s) \o W(Append(t, e))
    BY <2>1, <2>3, <2>4, <2>5, <2>6
  <2> QED BY <2>7, <2>8
<1>3. Seq(S) \subseteq P
  <2> HIDE DEF P
  <2> QED BY <1>1, <1>2, ByAppending
<1> QED BY <1>3

LEMMA LeavingOthers ==
    ASSUME NEW S, NEW X
    PROVE  \A s \in Seq(S) : Els(s) \cap X = {} => Leaving(s, X) = s
<1> DEFINE P == {s \in Seq(S) : Els(s) \cap X = {} => Leaving(s, X) = s}
<1>1. <<>> \in P
  BY LeavingNone
<1>2. ASSUME NEW s \in Seq(S), s \in P, NEW e \in S PROVE Append(s, e) \in P
  BY <1>2, ElsAppend, LeavingOneMore
<1> HIDE DEF P
<1>3. Seq(S) \subseteq P
  BY <1>1, <1>2, ByAppending
<1> QED BY <1>3 DEF P

LEMMA LeavingAll ==
    ASSUME NEW S, NEW X, NEW s \in Seq(S), Els(s) \subseteq X
    PROVE  Leaving(s, X) = <<>>
<1>1. Leaving(s, X) \in Seq(S) /\ Els(Leaving(s, X)) = Els(s) \ X
  BY LeavingIsSeq, LeavingEls
<1>2. Els(Leaving(s, X)) = {}
  BY <1>1
<1> QED BY <1>1, <1>2, ElsEmpty

LEMMA LeavingBoth ==
    ASSUME NEW S, NEW X, NEW Y
    PROVE  \A s \in Seq(S) : Leaving(Leaving(s, X), Y)
                               = Leaving(Leaving(s, Y), X)
<1> DEFINE WX(u) == Leaving(u, X)
           WY(u) == Leaving(u, Y)
           P == {s \in Seq(S) : WY(WX(s)) = WX(WY(s))}
<1>1. <<>> \in P
  BY LeavingNone
<1>2. ASSUME NEW s \in Seq(S), s \in P, NEW e \in S PROVE Append(s, e) \in P
  <2>1. WX(s) \in Seq(S) /\ WY(s) \in Seq(S)
    BY LeavingIsSeq
  <2>2. /\ WX(Append(s, e)) = IF e \in X THEN WX(s) ELSE Append(WX(s), e)
        /\ WY(Append(s, e)) = IF e \in Y THEN WY(s) ELSE Append(WY(s), e)
    BY LeavingOneMore
  <2>3. /\ WX(Append(WY(s), e)) = IF e \in X THEN WX(WY(s)) ELSE Append(WX(WY(s)), e)
        /\ WY(Append(WX(s), e)) = IF e \in Y THEN WY(WX(s)) ELSE Append(WY(WX(s)), e)
    BY <2>1, LeavingOneMore
  <2>4. WY(WX(s)) = WX(WY(s)) /\ Append(s, e) \in Seq(S)
    BY <1>2
  <2> HIDE DEF WX, WY
  <2> QED BY <2>2, <2>3, <2>4
<1>3. Seq(S) \subseteq P
  <2> HIDE DEF P
  <2> QED BY <1>1, <1>2, ByAppending
<1> QED BY <1>3

LEMMA LeavingUnion ==
    ASSUME NEW S, NEW X, NEW Y
    PROVE  \A s \in Seq(S) : Leaving(s, X \cup Y)
                               = Leaving(Leaving(s, X), Y)
<1> DEFINE WX(u) == Leaving(u, X)
           WY(u) == Leaving(u, Y)
           WB(u) == Leaving(u, X \cup Y)
           P == {s \in Seq(S) : WB(s) = WY(WX(s))}
<1>1. <<>> \in P
  BY LeavingNone
<1>2. ASSUME NEW s \in Seq(S), s \in P, NEW e \in S PROVE Append(s, e) \in P
  <2>1. WX(s) \in Seq(S)
    BY LeavingIsSeq
  <2>2. /\ WX(Append(s, e)) = IF e \in X THEN WX(s) ELSE Append(WX(s), e)
        /\ WB(Append(s, e)) = IF e \in X \cup Y THEN WB(s) ELSE Append(WB(s), e)
    BY LeavingOneMore
  <2>3. WY(Append(WX(s), e)) = IF e \in Y THEN WY(WX(s)) ELSE Append(WY(WX(s)), e)
    BY <2>1, LeavingOneMore
  <2>4. WB(s) = WY(WX(s)) /\ Append(s, e) \in Seq(S)
    BY <1>2
  <2> HIDE DEF WX, WY, WB
  <2> QED BY <2>2, <2>3, <2>4
<1>3. Seq(S) \subseteq P
  <2> HIDE DEF P
  <2> QED BY <1>1, <1>2, ByAppending
<1> QED BY <1>3

LEMMA LeavingOne ==
    ASSUME NEW e, NEW X
    PROVE  Leaving(<<e>>, X) = IF e \in X THEN <<>> ELSE <<e>>
<1>1. <<e>> = Append(<<>>, e) /\ <<>> \in Seq({e}) /\ e \in {e}
  OBVIOUS
<1>2. Leaving(Append(<<>>, e), X)
        = IF e \in X THEN Leaving(<<>>, X) ELSE Append(Leaving(<<>>, X), e)
  BY <1>1, LeavingOneMore
<1> QED BY <1>1, <1>2, LeavingNone

-----------------------------------------------------------------------------
(* The children of Rems. *)

IsList(s) == s \in Seq(Els(s))
AreLists(K) == \A p \in DOMAIN K : IsList(K[p])

LEMMA ListIn == ASSUME NEW S, NEW s \in Seq(S) PROVE IsList(s)
  BY DEF IsList, Els, Range

LEMMA ListIs == ASSUME NEW s, IsList(s), NEW S, Els(s) \subseteq S PROVE s \in Seq(S)
  BY DEF IsList

LEMMA LeavingList ==
    ASSUME NEW s, IsList(s), NEW X
    PROVE  /\ IsList(Leaving(s, X))
           /\ Els(Leaving(s, X)) = Els(s) \ X
<1> DEFINE t == Leaving(s, X)
<1>1. t \in Seq(Els(s)) /\ Els(t) = Els(s) \ X
  BY LeavingIsSeq, LeavingEls DEF IsList
<1> HIDE DEF t
<1>2. IsList(t)
  BY <1>1, ListIn
<1> QED BY <1>1, <1>2 DEF t

(* Concatenation; outside the next lemmas only what they say of it counts. *)
s ++ t == s \o t

LEMMA ConcatIn ==
    ASSUME NEW s, NEW t, IsList(s), IsList(t)
    PROVE  \E S : s \in Seq(S) /\ t \in Seq(S)
<1>1. s \in Seq(Els(s) \cup Els(t)) /\ t \in Seq(Els(s) \cup Els(t))
  BY ListIs
<1> QED BY <1>1

LEMMA BothLists == ASSUME NEW s, NEW t, IsList(s), IsList(t) PROVE IsList(s ++ t)
<1>1. PICK S : s \in Seq(S) /\ t \in Seq(S)
  BY ConcatIn
<1>2. s \o t \in Seq(S)
  BY <1>1
<1> QED BY <1>2, ListIn DEF ++

LEMMA ElsOf ==
    ASSUME NEW s, NEW t, IsList(s), IsList(t) PROVE Els(s ++ t) = Els(s) \cup Els(t)
<1>1. PICK S : s \in Seq(S) /\ t \in Seq(S)
  BY ConcatIn
<1> QED BY <1>1, ElsConcat DEF ++

LEMMA LeavingOf ==
    ASSUME NEW s, NEW t, IsList(s), IsList(t), NEW X
    PROVE  Leaving(s ++ t, X) = Leaving(s, X) ++ Leaving(t, X)
<1>1. PICK S : s \in Seq(S) /\ t \in Seq(S)
  BY ConcatIn
<1> QED BY <1>1, LeavingConcat DEF ++

LEMMA InARow ==
    ASSUME NEW s, NEW t, NEW w, IsList(s), IsList(t), IsList(w)
    PROVE  (s ++ t) ++ w = s ++ (t ++ w)
<1> DEFINE S == Els(s) \cup Els(t) \cup Els(w)
<1>1. s \in Seq(S) /\ t \in Seq(S) /\ w \in Seq(S)
  BY ListIs
<1> HIDE DEF S
<1> QED BY <1>1 DEF ++

LEMMA LenConcat ==
    ASSUME NEW s, NEW t, IsList(s), IsList(t)
    PROVE  Len(s ++ t) = Len(s) + Len(t)
<1>1. PICK S : s \in Seq(S) /\ t \in Seq(S)
  BY ConcatIn
<1> QED BY <1>1 DEF ++

LEMMA WithNothing == ASSUME NEW s, IsList(s) PROVE s ++ <<>> = s /\ <<>> ++ s = s
<1>1. s \in Seq(Els(s))
  BY DEF IsList
<1> QED BY <1>1 DEF ++

LEMMA ListOfOne == ASSUME NEW e PROVE IsList(<<e>>) /\ Els(<<e>>) = {e}
<1>1. Els(<<e>>) = {e}
  BY DEF Els, Range
<1>2. <<e>> \in Seq({e})
  OBVIOUS
<1> QED BY <1>1, <1>2, ListIn

LEMMA NoList == IsList(<<>>) /\ Els(<<>>) = {}
<1>1. Els(<<>>) = {}
  BY DEF Els, Range
<1>2. <<>> \in Seq({})
  OBVIOUS
<1> QED BY <1>1, <1>2, ListIn

(* A list falls into two at each of its places. *)
LEMMA FallsInTwo ==
    ASSUME NEW s, IsList(s), NEW k \in 0 .. Len(s)
    PROVE  /\ s = SubSeq(s, 1, k) ++ SubSeq(s, k + 1, Len(s))
           /\ IsList(SubSeq(s, 1, k)) /\ IsList(SubSeq(s, k + 1, Len(s)))
           /\ Len(SubSeq(s, 1, k)) = k /\ Len(SubSeq(s, k + 1, Len(s))) = Len(s) - k
           /\ \A i \in 1 .. k : SubSeq(s, 1, k)[i] = s[i]
           /\ \A i \in 1 .. Len(s) - k : SubSeq(s, k + 1, Len(s))[i] = s[k + i]
<1> DEFINE S == Els(s)
<1>1. s \in Seq(S)
  BY DEF IsList
<1> HIDE DEF S
<1> DEFINE u == SubSeq(s, 1, k)
           t == SubSeq(s, k + 1, Len(s))
<1>2. Len(s) \in Nat /\ k \in Nat /\ k <= Len(s)
  BY <1>1
<1>3. u \in Seq(S) /\ Len(u) = k /\ \A i \in 1 .. k : u[i] = s[i]
  BY <1>1, <1>2
<1>4. t \in Seq(S) /\ Len(t) = Len(s) - k /\ \A i \in 1 .. Len(s) - k : t[i] = s[k + i]
  BY <1>1, <1>2
<1> HIDE DEF u, t
<1>5. s = u \o t
  <2>1. u \o t \in Seq(S) /\ Len(u \o t) = Len(s)
    BY <1>2, <1>3, <1>4
  <2>2. ASSUME NEW i \in 1 .. Len(s) PROVE (u \o t)[i] = s[i]
    <3>1. CASE i <= k
      BY <1>2, <1>3, <1>4, <3>1
    <3>2. CASE i > k
      <4>1. (u \o t)[i] = t[i - k]
        BY <1>2, <1>3, <1>4, <3>2
      <4>2. i - k \in 1 .. Len(s) - k /\ k + (i - k) = i
        BY <1>2, <3>2
      <4> QED BY <1>4, <4>1, <4>2
    <3>3. i <= k \/ i > k
      BY <1>2
    <3> QED BY <3>1, <3>2, <3>3
  <2> QED BY <1>1, <2>1, <2>2, SeqEqual
<1>6. IsList(u) /\ IsList(t)
  BY <1>3, <1>4, ListIn
<1> QED BY <1>3, <1>4, <1>5, <1>6 DEF u, t, ++

(* Where it is put, the list falls into two around it. *)
LEMMA LeastOfTwo ==
    ASSUME NEW m \in Nat, NEW n \in Nat
    PROVE  Min({m, n}) = IF m <= n THEN m ELSE n
<1> DEFINE k == IF m <= n THEN m ELSE n
<1>1. k \in {m, n} /\ \A y \in {m, n} : k <= y
  OBVIOUS
<1>2. \A x \in {m, n} : (\A y \in {m, n} : x <= y) => x = k
  OBVIOUS
<1> HIDE DEF k
<1>3. (CHOOSE x \in {m, n} : \A y \in {m, n} : x <= y) = k
  BY <1>1, <1>2
<1> QED BY <1>3 DEF Min, k

ListAt(K, p) == IF p \in DOMAIN K THEN K[p] ELSE <<>>

LEMMA ListAtIs == ASSUME NEW K, AreLists(K), NEW p PROVE IsList(ListAt(K, p))
  BY NoList DEF ListAt, AreLists

IsPutIn(L, K, r, p, n) ==
    /\ DOMAIN L = DOMAIN K \cup {p}
    /\ \A q \in DOMAIN K : q # p => L[q] = K[q]
    /\ AreLists(L)
    /\ Els(L[p]) = Els(ListAt(K, p)) \cup {r}
    /\ \E k \in 0 .. Len(ListAt(K, p)) :
         /\ n <= Len(ListAt(K, p)) => k = n
         /\ L[p] = SubSeq(ListAt(K, p), 1, k) ++ <<r>>
                   ++ SubSeq(ListAt(K, p), k + 1, Len(ListAt(K, p)))

LEMMA PutInIs ==
    ASSUME NEW K, AreLists(K), NEW r, NEW p, NEW n \in Nat
    PROVE  IsPutIn(PutIn(K, r, p, n), K, r, p, n)
<1> DEFINE L == PutIn(K, r, p, n)
<1> DEFINE s == ListAt(K, p)
           k == IF n <= Len(s) THEN n ELSE Len(s)
<1>1. IsList(s)
  BY ListAtIs
<1>a. L = [q \in DOMAIN K \cup {p} |->
             IF q = p THEN InsertAt(s, 1 + Min({n, Len(s)}), r) ELSE K[q]]
  BY DEF PutIn, ListAt
<1>2. Len(s) \in Nat
  BY <1>1 DEF IsList
<1> HIDE DEF s, L
<1>3. k \in 0 .. Len(s) /\ Min({n, Len(s)}) = k /\ (n <= Len(s) => k = n)
  BY <1>2, LeastOfTwo
<1> HIDE DEF k
<1> DEFINE u == SubSeq(s, 1, k)
           t == SubSeq(s, k + 1, Len(s))
<1>4. InsertAt(s, 1 + k, r) = u ++ <<r>> ++ t
  <2>1. (1 + k) - 1 = k /\ 1 + k = k + 1
    BY <1>2, <1>3
  <2> QED BY <2>1 DEF InsertAt, ++
<1>5. DOMAIN L = DOMAIN K \cup {p} /\ \A q \in DOMAIN K : q # p => L[q] = K[q]
  BY <1>a
<1>6. L[p] = u ++ <<r>> ++ t
  BY <1>3, <1>4, <1>a
<1>7. s = u ++ t /\ IsList(u) /\ IsList(t)
  BY <1>1, <1>3, FallsInTwo
<1> HIDE DEF u, t
<1>8. Els(s) = Els(u) \cup Els(t)
  BY <1>7, ElsOf, BothLists
<1>9. IsList(<<r>>) /\ Els(<<r>>) = {r}
  BY ListOfOne
<1> DEFINE w == u ++ <<r>>
<1>10. IsList(w) /\ Els(w) = Els(u) \cup {r}
  BY <1>7, <1>9, ElsOf, BothLists
<1> HIDE DEF w
<1>b. IsList(w ++ t) /\ Els(w ++ t) = Els(w) \cup Els(t)
  BY <1>7, <1>10, ElsOf, BothLists
<1>11. IsList(L[p]) /\ Els(L[p]) = Els(s) \cup {r}
  BY <1>6, <1>8, <1>10, <1>b DEF w
<1>12. AreLists(L)
  BY <1>5, <1>11 DEF AreLists
<1>13. \E m \in 0 .. Len(s) :
         /\ n <= Len(s) => m = n
         /\ L[p] = SubSeq(s, 1, m) ++ <<r>> ++ SubSeq(s, m + 1, Len(s))
  BY <1>3, <1>6 DEF u, t
<1> QED BY <1>5, <1>11, <1>12, <1>13 DEF s, L, IsPutIn

(* The lists that have v. *)
Where(K, v) == {p \in DOMAIN K : v \in Els(K[p])}

LEMMA PutInWhere ==
    ASSUME NEW K, AreLists(K), NEW r, NEW p, NEW n \in Nat, NEW v
    PROVE  Where(PutIn(K, r, p, n), v) = Where(K, v) \cup (IF v = r THEN {p} ELSE {})
<1> DEFINE L == PutIn(K, r, p, n)
<1>k. IsPutIn(L, K, r, p, n)
  BY PutInIs
<1> HIDE DEF L
<1>1. /\ DOMAIN L = DOMAIN K \cup {p} /\ \A q \in DOMAIN K : q # p => L[q] = K[q]
      /\ Els(L[p]) = Els(ListAt(K, p)) \cup {r}
  BY <1>k DEF IsPutIn
<1>2. p \in DOMAIN K => ListAt(K, p) = K[p]
  BY DEF ListAt
<1>3. p \notin DOMAIN K => Els(ListAt(K, p)) = {}
  BY NoList DEF ListAt
<1>4. Where(L, v) = Where(K, v) \cup (IF v = r THEN {p} ELSE {})
  <2>1. ASSUME NEW q PROVE q \in Where(L, v) <=> q \in Where(K, v) \/ (v = r /\ q = p)
    <3>1. CASE q = p
      <4>1. CASE p \in DOMAIN K
        BY <1>1, <1>2, <3>1, <4>1 DEF Where
      <4>2. CASE p \notin DOMAIN K
        BY <1>1, <1>3, <3>1, <4>2 DEF Where
      <4> QED BY <4>1, <4>2
    <3>2. CASE q # p
      BY <1>1, <3>2 DEF Where
    <3> QED BY <3>1, <3>2
  <2> QED BY <2>1
<1> QED BY <1>4 DEF L

IsWithout(L, K, r) ==
    /\ DOMAIN L = DOMAIN K /\ AreLists(L)
    /\ \A p \in DOMAIN K : L[p] = Leaving(K[p], {r})
    /\ \A v : Where(L, v) = IF v = r THEN {} ELSE Where(K, v)

LEMMA WithoutIs ==
    ASSUME NEW K, AreLists(K), NEW r
    PROVE  IsWithout(Without(K, r), K, r)
<1> DEFINE L == Without(K, r)
<1>1. DOMAIN L = DOMAIN K /\ \A p \in DOMAIN K : L[p] = Leaving(K[p], {r})
  BY DEF Without
<1> HIDE DEF L
<1>2. ASSUME NEW p \in DOMAIN K
      PROVE  IsList(L[p]) /\ Els(L[p]) = Els(K[p]) \ {r}
  BY <1>1, LeavingList DEF AreLists
<1>3. AreLists(L)
  BY <1>1, <1>2 DEF AreLists
<1>4. \A v : Where(L, v) = IF v = r THEN {} ELSE Where(K, v)
  BY <1>1, <1>2 DEF Where
<1>5. IsWithout(L, K, r)
  BY <1>1, <1>3, <1>4 DEF IsWithout
<1> QED BY <1>5 DEF L

IsMovedTo(L, K, r, p) ==
    /\ DOMAIN L = DOMAIN K \cup {p} /\ AreLists(L)
    /\ \A q \in DOMAIN K : q # p => L[q] = Leaving(K[q], {r})
    /\ \A v : Where(L, v) = IF v = r THEN {p} ELSE Where(K, v)

LEMMA MoveToIs ==
    ASSUME NEW K, AreLists(K), NEW r, NEW p, NEW n \in Nat
    PROVE  IsMovedTo(MoveTo(K, r, p, n), K, r, p)
<1> DEFINE M == Without(K, r)
           L == PutIn(M, r, p, n)
<1>1. MoveTo(K, r, p, n) = L
  BY DEF MoveTo
<1>a. IsWithout(M, K, r)
  BY WithoutIs
<1> HIDE DEF M
<1>2. /\ DOMAIN M = DOMAIN K /\ AreLists(M)
      /\ \A q \in DOMAIN K : M[q] = Leaving(K[q], {r})
      /\ \A v : Where(M, v) = IF v = r THEN {} ELSE Where(K, v)
  BY <1>a DEF IsWithout
<1>b. IsPutIn(L, M, r, p, n)
  BY <1>2, PutInIs
<1>4. \A v : Where(L, v) = Where(M, v) \cup (IF v = r THEN {p} ELSE {})
  BY <1>2, PutInWhere
<1> HIDE DEF L
<1>3. DOMAIN L = DOMAIN M \cup {p} /\ AreLists(L) /\ \A q \in DOMAIN M : q # p => L[q] = M[q]
  BY <1>b DEF IsPutIn
<1>5. \A v : Where(L, v) = IF v = r THEN {p} ELSE Where(K, v)
  BY <1>2, <1>4
<1>6. IsMovedTo(L, K, r, p)
  BY <1>2, <1>3, <1>5 DEF IsMovedTo
<1> QED BY <1>1, <1>6

-----------------------------------------------------------------------------
(* A list with a slot in it, from which the members of X go, and in which d
   may turn up anywhere: B is before the slot, A after it, as it was at
   first. *)

Halves(u, t, B, A, X, d) ==
    /\ IsList(u) /\ IsList(t) /\ Len(u) = Len(B) /\ Els(u) \cap X = {}
    /\ d \in Els(u) \/ (u = B /\ Leaving(t, X \cup {d}) = A)

Fits(s, B, A, X, d) == \E u, t : s = u ++ t /\ Halves(u, t, B, A, X, d)

(* The slot is filled with e. *)
FitsAround(s, B, A, X, d, e) ==
    \E u, t : s = u ++ <<e>> ++ t /\ Halves(u, t, B, A, X, d)

LEMMA ListType == ASSUME NEW s, IsList(s) PROVE s \in Seq(Els(s)) /\ Len(s) \in Nat
  BY DEF IsList

LEMMA FirstHalf ==
    ASSUME NEW u, NEW t, IsList(u), IsList(t)
    PROVE  SubSeq(u ++ t, 1, Len(u)) = u /\ SubSeq(u ++ t, Len(u) + 1, Len(u ++ t)) = t
<1> DEFINE S == Els(u) \cup Els(t)
<1>1. u \in Seq(S) /\ t \in Seq(S)
  BY ListIs
<1> HIDE DEF S
<1>2. Len(u ++ t) = Len(u) + Len(t) /\ Len(u) \in Nat /\ Len(t) \in Nat
  BY <1>1 DEF ++
<1> DEFINE s == u ++ t
           a == SubSeq(s, 1, Len(u))
           b == SubSeq(s, Len(u) + 1, Len(s))
<1>3. s \in Seq(S) /\ Len(s) = Len(u) + Len(t)
      /\ (\A i \in 1 .. Len(u) : s[i] = u[i])
      /\ (\A i \in 1 .. Len(t) : s[Len(u) + i] = t[i])
  <2>1. ASSUME NEW i \in 1 .. Len(t) PROVE s[Len(u) + i] = t[i]
    <3>1. /\ Len(u) + i \in 1 .. Len(u) + Len(t)
          /\ ~(Len(u) + i <= Len(u)) /\ (Len(u) + i) - Len(u) = i
      BY <1>2
    <3> QED BY <1>1, <1>2, <3>1 DEF ++
  <2> QED BY <1>1, <1>2, <2>1 DEF ++
<1> HIDE DEF s
<1>4. a \in Seq(S) /\ Len(a) = Len(u) /\ \A i \in 1 .. Len(u) : a[i] = s[i]
  BY <1>2, <1>3
<1>5. b \in Seq(S) /\ Len(b) = Len(t) /\ \A i \in 1 .. Len(t) : b[i] = s[Len(u) + i]
  BY <1>2, <1>3
<1> HIDE DEF a, b
<1>6. a = u
  BY <1>1, <1>3, <1>4, SeqEqual
<1>7. b = t
  BY <1>1, <1>3, <1>5, SeqEqual
<1> QED BY <1>6, <1>7 DEF a, b, s

LEMMA FitsAtFirst ==
    ASSUME NEW s, IsList(s), NEW i \in Nat \ {0}, NEW n \in Nat, i + n <= Len(s) + 1, NEW X, NEW d,
           Els(SubSeq(s, i, i + n - 1)) = X,
           \A j \in 1 .. Len(s) : j < i \/ j >= i + n => s[j] \notin X,
           d \notin Els(s)
    PROVE  Fits(s, SubSeq(s, 1, i - 1), SubSeq(s, i + n, Len(s)), X, d)
<1>0. s \in Seq(Els(s)) /\ Len(s) \in Nat
  BY ListType
<1> DEFINE B == SubSeq(s, 1, i - 1)
           t == SubSeq(s, i, Len(s))
           M == SubSeq(t, 1, n)
           A == SubSeq(t, n + 1, Len(t))
<1>1. i - 1 \in 0 .. Len(s) /\ (i - 1) + 1 = i
  BY <1>0
<1>2. /\ s = B ++ t /\ IsList(B) /\ IsList(t)
      /\ Len(B) = i - 1 /\ Len(t) = Len(s) - (i - 1)
      /\ \A j \in 1 .. i - 1 : B[j] = s[j]
      /\ \A j \in 1 .. Len(s) - (i - 1) : t[j] = s[(i - 1) + j]
  <2> DEFINE k == i - 1
  <2>1. k \in 0 .. Len(s) /\ k + 1 = i
    BY <1>1
  <2> HIDE DEF k
  <2>2. /\ s = SubSeq(s, 1, k) ++ SubSeq(s, k + 1, Len(s))
        /\ IsList(SubSeq(s, 1, k)) /\ IsList(SubSeq(s, k + 1, Len(s)))
        /\ Len(SubSeq(s, 1, k)) = k /\ Len(SubSeq(s, k + 1, Len(s))) = Len(s) - k
        /\ \A j \in 1 .. k : SubSeq(s, 1, k)[j] = s[j]
        /\ \A j \in 1 .. Len(s) - k : SubSeq(s, k + 1, Len(s))[j] = s[k + j]
    BY <2>1, FallsInTwo
  <2> QED BY <2>1, <2>2 DEF k
<1> HIDE DEF B, t
<1>3. n \in 0 .. Len(t)
  BY <1>0, <1>2
<1>4. /\ t = M ++ A /\ IsList(M) /\ IsList(A) /\ Len(M) = n /\ Len(A) = Len(t) - n
      /\ \A j \in 1 .. n : M[j] = t[j]
      /\ \A j \in 1 .. Len(t) - n : A[j] = t[n + j]
  BY <1>2, <1>3, FallsInTwo
<1> HIDE DEF M, A
<1>b. \A j \in 1 .. Len(A) : A[j] = s[(i - 1) + (n + j)]
  <2>1. SUFFICES ASSUME NEW j \in 1 .. Len(A) PROVE A[j] = s[(i - 1) + (n + j)]
    OBVIOUS
  <2>2. n + j \in 1 .. Len(s) - (i - 1) /\ j \in 1 .. Len(t) - n
    BY <1>0, <1>2, <1>3, <1>4
  <2>3. t[n + j] = s[(i - 1) + (n + j)]
    BY <1>2, <2>2
  <2> QED BY <1>4, <2>2, <2>3
<1>5. M = SubSeq(s, i, i + n - 1)
  <2> DEFINE m == SubSeq(s, i, i + n - 1)
  <2>1. m \in Seq(Els(s)) /\ Len(m) = n /\ \A j \in 1 .. n : m[j] = s[i + j - 1]
    BY <1>0, <1>1
  <2> HIDE DEF m
  <2>2. \A j \in 1 .. n : M[j] = m[j]
    <3>1. SUFFICES ASSUME NEW j \in 1 .. n PROVE M[j] = m[j]
      OBVIOUS
    <3>2. (i - 1) + j = i + j - 1 /\ j \in 1 .. Len(s) - (i - 1)
      BY <1>0, <1>2, <1>3
    <3>3. t[j] = s[(i - 1) + j]
      BY <1>2, <3>2
    <3> QED BY <1>4, <2>1, <3>2, <3>3
  <2>3. M \in Seq(Els(M))
    BY <1>4, ListType
  <2>4. M \in Seq(Els(M) \cup Els(s)) /\ m \in Seq(Els(M) \cup Els(s))
    BY <2>1, <2>3, SeqMonotonic
  <2>5. Len(M) = Len(m) /\ \A j \in 1 .. Len(M) : M[j] = m[j]
    BY <1>4, <2>1, <2>2
  <2>6. M = m
    BY <2>4, <2>5, SeqEqual
  <2> QED BY <2>6 DEF m
<1>6. A = SubSeq(s, i + n, Len(s))
  <2> DEFINE m == SubSeq(s, i + n, Len(s))
  <2>1. m \in Seq(Els(s)) /\ Len(m) = Len(s) - (i + n) + 1
        /\ \A j \in 1 .. Len(m) : m[j] = s[(i + n) + j - 1]
    BY <1>0, <1>1
  <2> HIDE DEF m
  <2>a. Len(A) = Len(m)
    <3>1. Len(A) = (Len(s) - (i - 1)) - n /\ Len(m) = Len(s) - (i + n) + 1
      BY <1>2, <1>4, <2>1
    <3> QED BY <1>0, <3>1
  <2>2. \A j \in 1 .. Len(m) : A[j] = m[j]
    <3>1. SUFFICES ASSUME NEW j \in 1 .. Len(m) PROVE A[j] = m[j]
      OBVIOUS
    <3>2. (i - 1) + (n + j) = (i + n) + j - 1
      BY <1>0
    <3> QED BY <1>b, <2>1, <2>a, <3>2
  <2>3. A \in Seq(Els(A))
    BY <1>4, ListType
  <2>4. A \in Seq(Els(A) \cup Els(s)) /\ m \in Seq(Els(A) \cup Els(s))
    BY <2>1, <2>3, SeqMonotonic
  <2>5. \A j \in 1 .. Len(A) : A[j] = m[j]
    BY <2>2, <2>a
  <2>6. A = m
    BY <2>4, <2>5, <2>a, SeqEqual
  <2> QED BY <2>6 DEF m
<1>7. Els(B) \cap X = {}
  <2>1. ASSUME NEW v \in Els(B) PROVE v \notin X
    <3>1. PICK j \in DOMAIN B : v = B[j]
      BY DEF Els, Range
    <3>2. j \in 1 .. i - 1
      BY <1>2, ListType
    <3>3. v = s[j] /\ j \in 1 .. Len(s) /\ j < i
      BY <1>0, <1>1, <1>2, <3>1, <3>2
    <3> QED BY <3>3
  <2> QED BY <2>1
<1>8. Els(A) \cap X = {}
  <2>1. ASSUME NEW v \in Els(A) PROVE v \notin X
    <3>1. PICK j \in DOMAIN A : v = A[j]
      BY DEF Els, Range
    <3>2. j \in 1 .. Len(t) - n
      BY <1>4, ListType
    <3>3. v = s[(i - 1) + (n + j)]
      BY <1>b, <1>4, <3>1, <3>2
    <3>4. (i - 1) + (n + j) \in 1 .. Len(s) /\ (i - 1) + (n + j) >= i + n
      BY <1>0, <1>2, <1>3, <3>2
    <3> QED BY <3>3, <3>4
  <2> QED BY <2>1
<1>9. Els(s) = Els(B) \cup Els(t) /\ Els(t) = Els(M) \cup Els(A)
  BY <1>2, <1>4, ElsOf
<1>10. Leaving(t, X \cup {d}) = A
  <2>1. Leaving(t, X \cup {d})
          = Leaving(M, X \cup {d}) ++ Leaving(A, X \cup {d})
    BY <1>4, LeavingOf
  <2>2. Leaving(M, X \cup {d}) = <<>>
    <3>1. M \in Seq(Els(M)) /\ Els(M) \subseteq X \cup {d}
      BY <1>4, <1>5, ListType
    <3> QED BY <3>1, LeavingAll
  <2>3. Leaving(A, X \cup {d}) = A
    <3>1. A \in Seq(Els(A)) /\ Els(A) \cap (X \cup {d}) = {}
      BY <1>4, <1>8, <1>9, ListType
    <3> QED BY <3>1, LeavingOthers
  <2> QED BY <1>4, <2>1, <2>2, <2>3, WithNothing
<1>11. Halves(B, t, B, A, X, d)
  BY <1>2, <1>7, <1>10 DEF Halves
<1> QED BY <1>2, <1>6, <1>11 DEF Fits, B

LEMMA FitsAtLeast ==
    ASSUME NEW s, NEW B, IsList(B), NEW A, NEW X, NEW d, Fits(s, B, A, X, d)
    PROVE  IsList(s) /\ Len(B) <= Len(s)
<1>1. PICK u, t : s = u ++ t /\ Halves(u, t, B, A, X, d)
  BY DEF Fits
<1>2. IsList(u) /\ IsList(t) /\ Len(u) = Len(B)
  BY <1>1 DEF Halves
<1>3. IsList(s) /\ Len(s) = Len(u) + Len(t)
  BY <1>1, <1>2, BothLists, LenConcat
<1> QED BY <1>2, <1>3, ListType

(* A member of X goes. *)
LEMMA HalvesLose ==
    ASSUME NEW u, NEW t, NEW B, NEW A, NEW X, NEW d, NEW r \in X, Halves(u, t, B, A, X, d)
    PROVE  /\ Leaving(u, {r}) = u
           /\ Halves(u, Leaving(t, {r}), B, A, X, d)
<1>1. IsList(u) /\ IsList(t) /\ Len(u) = Len(B) /\ Els(u) \cap X = {}
  BY DEF Halves
<1>2. Leaving(u, {r}) = u
  <2>1. u \in Seq(Els(u)) /\ Els(u) \cap {r} = {}
    BY <1>1, ListType
  <2> QED BY <2>1, LeavingOthers
<1>3. IsList(Leaving(t, {r}))
  BY <1>1, LeavingList
<1>4. Leaving(Leaving(t, {r}), X \cup {d}) = Leaving(t, X \cup {d})
  <2>1. {r} \cup (X \cup {d}) = X \cup {d}
    OBVIOUS
  <2>2. t \in Seq(Els(t))
    BY <1>1, ListType
  <2>3. Leaving(t, {r} \cup (X \cup {d}))
          = Leaving(Leaving(t, {r}), X \cup {d})
    BY <2>2, LeavingUnion
  <2> QED BY <2>1, <2>3
<1> QED BY <1>1, <1>2, <1>3, <1>4 DEF Halves

LEMMA FitsLoses ==
    ASSUME NEW s, NEW B, NEW A, NEW X, NEW d, NEW r \in X, Fits(s, B, A, X, d)
    PROVE  Fits(Leaving(s, {r}), B, A, X, d)
<1>1. PICK u, t : s = u ++ t /\ Halves(u, t, B, A, X, d)
  BY DEF Fits
<1>2. IsList(u) /\ IsList(t)
  BY <1>1 DEF Halves
<1>3. /\ Leaving(u, {r}) = u
      /\ Halves(u, Leaving(t, {r}), B, A, X, d)
  BY <1>1, HalvesLose
<1>4. Leaving(s, {r}) = Leaving(u, {r}) ++ Leaving(t, {r})
  BY <1>1, <1>2, LeavingOf
<1> QED BY <1>3, <1>4 DEF Fits

LEMMA FilledLoses ==
    ASSUME NEW s, NEW B, NEW A, NEW X, NEW d, NEW e, e \notin X, NEW r \in X,
           FitsAround(s, B, A, X, d, e)
    PROVE  FitsAround(Leaving(s, {r}), B, A, X, d, e)
<1>1. PICK u, t : s = u ++ <<e>> ++ t /\ Halves(u, t, B, A, X, d)
  BY DEF FitsAround
<1>2. IsList(u) /\ IsList(t) /\ IsList(<<e>>)
  BY <1>1, ListOfOne DEF Halves
<1>3. Leaving(<<e>>, {r}) = <<e>>
  BY LeavingOne
<1>4. IsList(u ++ <<e>>)
  BY <1>2, BothLists
<1>h. /\ Leaving(u, {r}) = u
      /\ Halves(u, Leaving(t, {r}), B, A, X, d)
  BY <1>1, HalvesLose
<1>5. Leaving(u ++ <<e>>, {r}) = u ++ <<e>>
  <2>1. Leaving(u ++ <<e>>, {r})
          = Leaving(u, {r}) ++ Leaving(<<e>>, {r})
    BY <1>2, LeavingOf
  <2> QED BY <1>3, <1>h, <2>1
<1>6. Leaving(s, {r})
        = Leaving(u ++ <<e>>, {r}) ++ Leaving(t, {r})
  BY <1>1, <1>2, <1>4, LeavingOf
<1> QED BY <1>5, <1>6, <1>h DEF FitsAround

(* The slot is filled. *)
LEMMA FitsFilled ==
    ASSUME NEW s, NEW B, IsList(B), NEW A, NEW X, NEW d, NEW e, Fits(s, B, A, X, d),
           NEW k, k = Len(B)
    PROVE  FitsAround(SubSeq(s, 1, k) ++ <<e>> ++ SubSeq(s, k + 1, Len(s)), B, A, X, d, e)
<1>1. PICK u, t : s = u ++ t /\ Halves(u, t, B, A, X, d)
  BY DEF Fits
<1>2. IsList(u) /\ IsList(t) /\ Len(u) = k
  BY <1>1 DEF Halves
<1>3. SubSeq(s, 1, k) = u /\ SubSeq(s, k + 1, Len(s)) = t
  BY <1>1, <1>2, FirstHalf
<1> QED BY <1>1, <1>3 DEF FitsAround

(* d turns up. *)
LEMMA FitsGains ==
    ASSUME NEW s, NEW B, IsList(B), NEW A, NEW X, NEW d, d \notin X, Fits(s, B, A, X, d),
           NEW k \in 0 .. Len(s)
    PROVE  Fits(SubSeq(s, 1, k) ++ <<d>> ++ SubSeq(s, k + 1, Len(s)), B, A, X, d)
<1>1. PICK u, t : s = u ++ t /\ Halves(u, t, B, A, X, d)
  BY DEF Fits
<1>2. IsList(u) /\ IsList(t) /\ Len(u) = Len(B) /\ Els(u) \cap X = {}
  BY <1>1 DEF Halves
<1> DEFINE a == SubSeq(s, 1, k)
           b == SubSeq(s, k + 1, Len(s))
<1>3. IsList(s) /\ Len(s) = Len(u) + Len(t) /\ Len(u) \in Nat /\ Len(t) \in Nat
  BY <1>1, <1>2, BothLists, LenConcat, ListType
<1>4. s = a ++ b /\ IsList(a) /\ IsList(b) /\ Len(a) = k
  BY <1>3, FallsInTwo
<1>e. IsList(<<d>>) /\ Els(<<d>>) = {d} /\ Len(<<d>>) = 1
  BY ListOfOne
<1>5. CASE Len(u) <= k
  <2> DEFINE j == k - Len(u)
             x == SubSeq(t, 1, j)
             y == SubSeq(t, j + 1, Len(t))
  <2>1. j \in 0 .. Len(t)
    BY <1>3, <1>5
  <2>2. t = x ++ y /\ IsList(x) /\ IsList(y) /\ Len(x) = j
    BY <1>2, <2>1, FallsInTwo
  <2>3. a = u ++ x /\ b = y
    <3> HIDE DEF x, y
    <3>1. s = (u ++ x) ++ y /\ IsList(u ++ x) /\ Len(u ++ x) = k
      <4>1. s = (u ++ x) ++ y
        BY <1>1, <1>2, <2>2, InARow
      <4>2. IsList(u ++ x) /\ Len(u ++ x) = Len(u) + Len(x)
        BY <1>2, <2>2, BothLists, LenConcat
      <4> QED BY <1>3, <2>2, <4>1, <4>2
    <3> QED BY <2>2, <3>1, FirstHalf
  <2> HIDE DEF j, x, y, a, b
  <2> DEFINE w == (x ++ <<d>>) ++ y
  <2>4. IsList(x ++ <<d>>) /\ IsList(w)
    BY <1>e, <2>2, BothLists
  <2>5. (a ++ <<d>>) ++ b = u ++ w
    <3>1. (u ++ x) ++ <<d>> = u ++ (x ++ <<d>>)
      BY <1>2, <1>e, <2>2, InARow
    <3>2. (u ++ (x ++ <<d>>)) ++ y = u ++ ((x ++ <<d>>) ++ y)
      BY <1>2, <2>2, <2>4, InARow
    <3> QED BY <2>3, <3>1, <3>2
  <2>6. Leaving(w, X \cup {d}) = Leaving(t, X \cup {d})
    <3> DEFINE L(z) == Leaving(z, X \cup {d})
    <3>1. L(w) = L(x ++ <<d>>) ++ L(y)
      BY <2>2, <2>4, LeavingOf
    <3>2. L(x ++ <<d>>) = L(x) ++ L(<<d>>)
      BY <1>e, <2>2, LeavingOf
    <3>3. L(<<d>>) = <<>>
      BY LeavingOne
    <3>4. L(x) ++ <<>> = L(x)
      <4>1. IsList(L(x))
        BY <2>2, LeavingList
      <4> HIDE DEF L
      <4> QED BY <4>1, WithNothing
    <3>5. L(t) = L(x) ++ L(y)
      BY <2>2, LeavingOf
    <3> HIDE DEF L, w
    <3>6. L(w) = L(t)
      BY <3>1, <3>2, <3>3, <3>4, <3>5
    <3> QED BY <3>6 DEF L
  <2>7. Halves(u, w, B, A, X, d)
    <3> HIDE DEF w
    <3> QED BY <1>1, <2>4, <2>6 DEF Halves
  <2>8. Fits((a ++ <<d>>) ++ b, B, A, X, d)
    <3> HIDE DEF w
    <3> QED BY <2>5, <2>7 DEF Fits
  <2> QED BY <2>8 DEF a, b
<1>6. CASE k < Len(u)
  <2> DEFINE j == Len(u) - 1
             x == SubSeq(u, 1, k)
             z == SubSeq(u, k + 1, Len(u))
             m == Len(z) - 1
             y == SubSeq(z, 1, m)
             l == SubSeq(z, m + 1, Len(z))
  <2>1. k \in 0 .. Len(u) /\ k \in Nat
    BY <1>3, <1>6
  <2>2. u = x ++ z /\ IsList(x) /\ IsList(z) /\ Len(x) = k /\ Len(z) = Len(u) - k
    BY <1>2, <2>1, FallsInTwo
  <2> HIDE DEF x, z
  <2>3. m \in 0 .. Len(z) /\ m = Len(u) - k - 1
    BY <1>3, <1>6, <2>1, <2>2
  <2>4. z = y ++ l /\ IsList(y) /\ IsList(l) /\ Len(y) = m
    BY <2>2, <2>3, FallsInTwo
  <2> HIDE DEF y, l, m
  <2>5. a = x /\ b = z ++ t
    <3>1. s = x ++ (z ++ t) /\ IsList(z ++ t)
      BY <1>1, <1>2, <2>2, InARow, BothLists
    <3> QED BY <2>2, <3>1, FirstHalf
  <2> HIDE DEF a, b
  <2> DEFINE v == (x ++ <<d>>) ++ y
             w == l ++ t
  <2>6. IsList(x ++ <<d>>) /\ IsList(v) /\ IsList(w)
    BY <1>e, <1>2, <2>2, <2>4, BothLists
  <2>7. Len(v) = Len(u)
    <3>1. Len(x ++ <<d>>) = k + 1
      BY <1>e, <2>2, LenConcat
    <3>2. Len(v) = Len(x ++ <<d>>) + Len(y)
      BY <2>4, <2>6, LenConcat
    <3> QED BY <1>3, <2>1, <2>3, <2>4, <3>1, <3>2
  <2>8. Els(v) = Els(x) \cup {d} \cup Els(y)
    <3>1. Els(x ++ <<d>>) = Els(x) \cup {d}
      BY <1>e, <2>2, ElsOf
    <3>2. Els(v) = Els(x ++ <<d>>) \cup Els(y)
      BY <2>4, <2>6, ElsOf
    <3> QED BY <3>1, <3>2
  <2>9. Els(x) \subseteq Els(u) /\ Els(y) \subseteq Els(u)
    <3>1. Els(u) = Els(x) \cup Els(z)
      BY <2>2, ElsOf
    <3>2. Els(z) = Els(y) \cup Els(l)
      BY <2>4, ElsOf
    <3> QED BY <3>1, <3>2
  <2>10. (a ++ <<d>>) ++ b = v ++ w
    <3> DEFINE h == x ++ <<d>>
    <3>1. IsList(h)
      BY <2>6
    <3> HIDE DEF h
    <3>2. z ++ t = y ++ (l ++ t)
      BY <1>2, <2>4, InARow
    <3>3. (h ++ y) ++ (l ++ t) = h ++ (y ++ (l ++ t))
      BY <1>2, <2>4, <3>1, BothLists, InARow
    <3> QED BY <2>5, <3>2, <3>3 DEF h
  <2> HIDE DEF v, w
  <2>11. Halves(v, w, B, A, X, d)
    BY <1>2, <2>6, <2>7, <2>8, <2>9 DEF Halves
  <2>12. Fits((a ++ <<d>>) ++ b, B, A, X, d)
    BY <2>10, <2>11 DEF Fits
  <2> QED BY <2>12 DEF a, b
<1>7. k \in Nat
  OBVIOUS
<1> QED BY <1>3, <1>5, <1>6, <1>7

LEMMA FilledAtLast ==
    ASSUME NEW s, NEW B, IsList(B), NEW A, NEW X, NEW d, NEW e, e # d, d \notin Els(B),
           Els(s) \cap X = {}, FitsAround(s, B, A, X, d, e)
    PROVE  \/ Leaving(s, {d}) = B ++ <<e>> ++ A
           \/ d \in Els(SubSeq(s, 1, Len(B)))
<1>1. PICK u, t : s = u ++ <<e>> ++ t /\ Halves(u, t, B, A, X, d)
  BY DEF FitsAround
<1>2. IsList(u) /\ IsList(t) /\ Len(u) = Len(B)
  BY <1>1 DEF Halves
<1>e. IsList(<<e>>) /\ Els(<<e>>) = {e}
  BY ListOfOne
<1>3. CASE d \in Els(u)
  <2>1. s = u ++ (<<e>> ++ t) /\ IsList(<<e>> ++ t)
    BY <1>1, <1>2, <1>e, InARow, BothLists
  <2>2. SubSeq(s, 1, Len(u)) = u
    BY <1>2, <2>1, FirstHalf
  <2> QED BY <1>2, <1>3, <2>2
<1>4. CASE u = B /\ Leaving(t, X \cup {d}) = A
  <2>1. IsList(u ++ <<e>>) /\ Els(s) = (Els(u) \cup {e}) \cup Els(t)
    <3>1. IsList(u ++ <<e>>) /\ Els(u ++ <<e>>) = Els(u) \cup Els(<<e>>)
      BY <1>2, <1>e, ElsOf, BothLists
    <3>2. Els((u ++ <<e>>) ++ t) = Els(u ++ <<e>>) \cup Els(t)
      BY <1>2, <3>1, ElsOf
    <3> QED BY <1>1, <1>e, <3>1, <3>2
  <2>2. Leaving(t, X) = t
    <3>1. t \in Seq(Els(t)) /\ Els(t) \cap X = {}
      BY <1>2, <2>1, ListType
    <3> QED BY <3>1, LeavingOthers
  <2>3. Leaving(t, {d}) = A
    <3>1. t \in Seq(Els(t))
      BY <1>2, ListType
    <3>2. Leaving(t, X \cup {d}) = Leaving(Leaving(t, X), {d})
      BY <3>1, LeavingUnion
    <3> QED BY <1>4, <2>2, <3>2
  <2>4. Leaving(u, {d}) = B
    <3>1. B \in Seq(Els(B)) /\ Els(B) \cap {d} = {}
      BY ListType
    <3> QED BY <1>4, <3>1, LeavingOthers
  <2>5. Leaving(<<e>>, {d}) = <<e>>
    BY LeavingOne
  <2>6. Leaving(u ++ <<e>>, {d})
          = Leaving(u, {d}) ++ Leaving(<<e>>, {d})
    BY <1>2, <1>e, LeavingOf
  <2>7. Leaving(s, {d})
          = Leaving(u ++ <<e>>, {d}) ++ Leaving(t, {d})
    BY <1>1, <1>2, <2>1, LeavingOf
  <2> QED BY <2>3, <2>4, <2>5, <2>6, <2>7
<1> QED BY <1>1, <1>3, <1>4 DEF Halves

-----------------------------------------------------------------------------
(* What a plan makes of ops, and what they do to the outline: d is the name
   of the new Rem, before or after substitution, and m what the op makes. *)

Found(v) == IsFound(v)
NewOne == Rem("durable_target")
NewTmp == Tmp("durable_target")
NewText == Rem("w")
ThePortal == Rem("portal_rem")
PortalOf(r) == <<"portal", r>>

IsOp(o) ==
    /\ o = [type |-> o.type, ids |-> o.ids, poses |-> o.poses, words |-> o.words,
            flags |-> o.flags, makes |-> o.makes]
    /\ o.words = <<"w">> /\ \E pos \in Seq(Nat) : o.poses = <<pos>>

IsCreate(o, m) ==
    /\ IsOp(o) /\ o.type = "create_rem" /\ o.makes = m
    /\ \/ o.flags = {"standalone"} /\ DOMAIN o.ids = {}
       \/ o.flags = {} /\ DOMAIN o.ids = {"parent_id"}
          /\ \E p : Found(p) /\ o.ids["parent_id"] = <<p>>

IsText(o, d) ==
    /\ IsOp(o) /\ o.type = "create_tree_with_markdown" /\ o.makes = NoName /\ o.flags = {}
    /\ DOMAIN o.ids = {"parent_id"} /\ o.ids["parent_id"] = <<d>>

IsBody(o, d) ==
    /\ IsOp(o) /\ o.type = "create_rem" /\ o.makes = NoName /\ o.flags = {}
    /\ DOMAIN o.ids = {"parent_id"} /\ o.ids["parent_id"] = <<d>>

IsMove(o, r, d) ==
    /\ IsOp(o) /\ o.type = "move_rem" /\ o.makes = NoName /\ o.flags = {}
    /\ DOMAIN o.ids = {"rem_id", "new_parent_id"}
    /\ o.ids["rem_id"] = <<r>> /\ o.ids["new_parent_id"] = <<d>>

IsPortal(o, p, t, m) ==
    /\ IsOp(o) /\ o.type = "create_portal" /\ o.makes = m /\ o.flags = {}
    /\ DOMAIN o.ids = {"parent_id", "target_rem_id"}
    /\ o.ids["parent_id"] = <<p>> /\ o.ids["target_rem_id"] = <<t>>

IsMoveAway(o, r) ==
    /\ IsOp(o) /\ o.type = "move_rem" /\ o.makes = NoName
    /\ o.flags \subseteq {"standalone", "leave_portal"}
    /\ \/ "standalone" \in o.flags /\ DOMAIN o.ids = {"rem_id"}
       \/ /\ "standalone" \notin o.flags /\ DOMAIN o.ids = {"rem_id", "new_parent_id"}
          /\ \E p : Found(p) /\ o.ids["new_parent_id"] = <<p>>
    /\ o.ids["rem_id"] = <<r>>

LEMMA NamesApart ==
    /\ NoName # "durable_target" /\ NoName # "portal_rem"
    /\ NoName # "w" /\ NoName # "parent_id"
    /\ NoName # "new_parent_id" /\ NoName # "rem_id"
    /\ NoName # "target_rem_id"
  BY Zenon DEF NoName

PlainPaths == {"parent_id", "rem_id", "new_parent_id", "target_rem_id"}

LEMMA OneItem ==
    ASSUME NEW o, DOMAIN o.ids \subseteq PlainPaths
    PROVE  Items(o) = 1
<1>1. /\ Col(o, "rem_ids[]") = <<>>
      /\ Col(o, "items[].target_rem_id") = <<>>
      /\ Col(o, "items[].rem_id") = <<>>
  BY DEF Col, PlainPaths
<1>2. Len(<<>>) = 0
  OBVIOUS
<1>3. Items(o) = Max({1, 0, 0, 0})
  BY <1>1, <1>2 DEF Items
<1>4. (CHOOSE x \in {1, 0, 0, 0} : \A y \in {1, 0, 0, 0} : x >= y) = 1
  OBVIOUS
<1> QED BY <1>3, <1>4 DEF Max

LEMMA FoundApart ==
    ASSUME NEW v, Found(v)
    PROVE  /\ v # NewOne /\ v # NewText /\ v # ThePortal /\ \A r : v # PortalOf(r)
           /\ v # NewTmp /\ v[1] = "rem"
  BY DEF Found, IsFound, NewOne, NewText, ThePortal, PortalOf, NewTmp, Rem,
         Tmp

LEMMA NewApart ==
    /\ NewOne # NewText /\ NewOne # ThePortal /\ NewText # ThePortal
    /\ \A r : PortalOf(r) # NewOne /\ PortalOf(r) # NewText /\ PortalOf(r) # ThePortal
  BY DEF NewOne, NewText, ThePortal, PortalOf, Rem

-----------------------------------------------------------------------------
(* The temporary id is replaced by the real one. *)

RealId(v) == IF v[1] = "tmp" /\ v[2] \in made THEN Rem(v[2]) ELSE v

LEMMA SubstitutedOp ==
    ASSUME NEW o, IsOp(o), DOMAIN o.ids \subseteq IdFields(o.type)
    PROVE  /\ IsOp(Substituted(o))
           /\ Substituted(o).type = o.type
           /\ Substituted(o).flags = o.flags
           /\ Substituted(o).makes = o.makes
           /\ Substituted(o).poses = o.poses
           /\ DOMAIN Substituted(o).ids = DOMAIN o.ids
           /\ \A p \in DOMAIN o.ids : \A v :
                o.ids[p] = <<v>> => Substituted(o).ids[p] = <<RealId(v)>>
<1> DEFINE ids == [p \in DOMAIN o.ids |-> [i \in DOMAIN o.ids[p] |-> RealId(o.ids[p][i])]]
           s == [o EXCEPT !.ids = ids]
<1>1. Substituted(o) = s
  BY DEF Substituted, RealId
<1>2. DOMAIN ids = DOMAIN o.ids
  OBVIOUS
<1>3. ASSUME NEW p \in DOMAIN o.ids, NEW v, o.ids[p] = <<v>> PROVE ids[p] = <<RealId(v)>>
  <2>1. ids[p] = [i \in DOMAIN <<v>> |-> RealId(<<v>>[i])]
    BY <1>3
  <2> DEFINE w == RealId(v)
  <2>2. DOMAIN <<v>> = 1 .. 1 /\ <<v>>[1] = v
    OBVIOUS
  <2>3. ids[p] = [i \in 1 .. 1 |-> w]
    BY <2>1, <2>2
  <2> HIDE DEF w
  <2>4. [i \in 1 .. 1 |-> w] = <<w>>
    OBVIOUS
  <2> QED BY <2>3, <2>4 DEF w
<1> HIDE DEF ids
<1>4. /\ s.type = o.type /\ s.flags = o.flags /\ s.makes = o.makes /\ s.poses = o.poses
      /\ s.ids = ids /\ s.words = o.words
      /\ s = [type |-> o.type, ids |-> ids, poses |-> o.poses, words |-> o.words,
              flags |-> o.flags, makes |-> o.makes]
  BY DEF IsOp
<1> HIDE DEF s
<1>5. IsOp(s)
  BY <1>4 DEF IsOp
<1> QED BY <1>1, <1>2, <1>3, <1>4, <1>5

LEMMA IdFieldsOf ==
    /\ IdFields("create_rem") = {"parent_id", "tags[]"}
    /\ IdFields("create_portal") = {"parent_id", "target_rem_id"}
    /\ IdFields("move_rem") = {"rem_id", "new_parent_id"}
    /\ IdFields("create_tree_with_markdown") = {"parent_id"}
  BY DEF IdFields, AllIdFields, TagOps, MiscOps,
         OutlineIdFields

LEMMA RealIds ==
    /\ \A v : Found(v) => RealId(v) = v
    /\ "durable_target" \in made => RealId(NewTmp) = NewOne
    /\ RealId(NewTmp) \in {NewTmp, NewOne}
  BY DEF RealId, Found, IsFound, NewTmp, NewOne, Tmp, Rem

LEMMA SubstitutedCreate ==
    ASSUME NEW o, NEW m, IsCreate(o, m) PROVE IsCreate(Substituted(o), m)
<1> DEFINE s == Substituted(o)
<1>1. DOMAIN o.ids \subseteq IdFields(o.type) /\ IsOp(o)
  BY IdFieldsOf DEF IsCreate
<1>2. /\ IsOp(s) /\ s.type = o.type /\ s.flags = o.flags /\ s.makes = o.makes
      /\ DOMAIN s.ids = DOMAIN o.ids
      /\ \A p \in DOMAIN o.ids : \A v : o.ids[p] = <<v>> => s.ids[p] = <<RealId(v)>>
  BY <1>1, SubstitutedOp
<1> HIDE DEF s
<1> QED BY <1>2, RealIds DEF IsCreate, s

LEMMA SubstitutedText ==
    ASSUME NEW o, IsText(o, NewTmp) PROVE IsText(Substituted(o), RealId(NewTmp))
<1> DEFINE s == Substituted(o)
<1>1. DOMAIN o.ids \subseteq IdFields(o.type) /\ IsOp(o)
  BY IdFieldsOf DEF IsText
<1>2. /\ IsOp(s) /\ s.type = o.type /\ s.flags = o.flags /\ s.makes = o.makes
      /\ DOMAIN s.ids = DOMAIN o.ids
      /\ \A p \in DOMAIN o.ids : \A v : o.ids[p] = <<v>> => s.ids[p] = <<RealId(v)>>
  BY <1>1, SubstitutedOp
<1> HIDE DEF s
<1> QED BY <1>2 DEF IsText, s

LEMMA SubstitutedBody ==
    ASSUME NEW o, IsBody(o, NewTmp) PROVE IsBody(Substituted(o), RealId(NewTmp))
<1> DEFINE s == Substituted(o)
<1>1. DOMAIN o.ids \subseteq IdFields(o.type) /\ IsOp(o)
  BY IdFieldsOf DEF IsBody
<1>2. /\ IsOp(s) /\ s.type = o.type /\ s.flags = o.flags /\ s.makes = o.makes
      /\ DOMAIN s.ids = DOMAIN o.ids
      /\ \A p \in DOMAIN o.ids : \A v : o.ids[p] = <<v>> => s.ids[p] = <<RealId(v)>>
  BY <1>1, SubstitutedOp
<1> HIDE DEF s
<1> QED BY <1>2 DEF IsBody, s

LEMMA SubstitutedMove ==
    ASSUME NEW o, NEW r, Found(r), IsMove(o, r, NewTmp)
    PROVE  IsMove(Substituted(o), r, RealId(NewTmp))
<1> DEFINE s == Substituted(o)
<1>1. DOMAIN o.ids \subseteq IdFields(o.type) /\ IsOp(o)
  BY IdFieldsOf DEF IsMove
<1>2. /\ IsOp(s) /\ s.type = o.type /\ s.flags = o.flags /\ s.makes = o.makes
      /\ DOMAIN s.ids = DOMAIN o.ids
      /\ \A p \in DOMAIN o.ids : \A v : o.ids[p] = <<v>> => s.ids[p] = <<RealId(v)>>
  BY <1>1, SubstitutedOp
<1>3. RealId(r) = r
  BY RealIds
<1> HIDE DEF s
<1> QED BY <1>2, <1>3 DEF IsMove, s

LEMMA SubstitutedPortal ==
    ASSUME NEW o, NEW p, NEW t, NEW m, Found(p), IsPortal(o, p, t, m)
    PROVE  /\ IsPortal(Substituted(o), p, RealId(t), m)
           /\ Substituted(o).poses = o.poses
<1> DEFINE s == Substituted(o)
<1>1. DOMAIN o.ids \subseteq IdFields(o.type) /\ IsOp(o)
  BY IdFieldsOf DEF IsPortal
<1>2. /\ IsOp(s) /\ s.type = o.type /\ s.flags = o.flags /\ s.makes = o.makes
      /\ DOMAIN s.ids = DOMAIN o.ids /\ s.poses = o.poses
      /\ \A q \in DOMAIN o.ids : \A v : o.ids[q] = <<v>> => s.ids[q] = <<RealId(v)>>
  BY <1>1, SubstitutedOp
<1>3. RealId(p) = p
  BY RealIds
<1> HIDE DEF s
<1> QED BY <1>2, <1>3 DEF IsPortal, s

LEMMA SubstitutedAway ==
    ASSUME NEW o, NEW r, Found(r), IsMoveAway(o, r)
    PROVE  /\ IsMoveAway(Substituted(o), r)
           /\ Substituted(o).flags = o.flags
<1> DEFINE s == Substituted(o)
<1>1. DOMAIN o.ids \subseteq IdFields(o.type) /\ IsOp(o)
  BY IdFieldsOf DEF IsMoveAway
<1>2. /\ IsOp(s) /\ s.type = o.type /\ s.flags = o.flags /\ s.makes = o.makes
      /\ DOMAIN s.ids = DOMAIN o.ids
      /\ \A p \in DOMAIN o.ids : \A v : o.ids[p] = <<v>> => s.ids[p] = <<RealId(v)>>
  BY <1>1, SubstitutedOp
<1>3. RealId(r) = r /\ \A v : Found(v) => RealId(v) = v
  BY RealIds
<1> HIDE DEF s
<1>4. o.ids["rem_id"] = <<r>> /\ "rem_id" \in DOMAIN o.ids
  BY DEF IsMoveAway
<1>5. s.ids["rem_id"] = <<r>>
  BY <1>2, <1>3, <1>4
<1> QED BY <1>2, <1>3, <1>5 DEF IsMoveAway, s

-----------------------------------------------------------------------------
(* The handlers. *)

LEMMA PositionIs ==
    ASSUME NEW pos \in Seq(Nat), NEW n \in Nat
    PROVE  Position(pos, n) \in Nat
<1>1. CASE pos = <<>>
  BY <1>1 DEF Position
<1>2. CASE pos # <<>>
  <2>1. Head(pos) \in Nat
    BY <1>2
  <2> QED BY <1>2, <2>1 DEF Position
<1> QED BY <1>1, <1>2

LEMMA FirstPos ==
    ASSUME NEW o, IsOp(o), NEW n \in Nat PROVE Position(o.poses[1], n) \in Nat
<1>1. PICK pos \in Seq(Nat) : o.poses = <<pos>>
  BY DEF IsOp
<1>2. o.poses[1] = pos
  BY <1>1
<1> QED BY <1>2, PositionIs

LEMMA CreateEffect ==
    ASSUME NEW s, NEW m, IsCreate(s, m), NEW K
    PROVE  \/ Children(s, K, 1) = K
           \/ \E p : \E n \in Nat :
                /\ Found(p)
                /\ Children(s, K, 1)
                     = PutIn(K, IF m = NoName THEN NewText ELSE Rem(m), p, n)
<1>1. Children(s, K, 1) = WithNew(s, K)
  BY DEF IsCreate, Children, Portals
<1>2. CASE s.flags = {"standalone"}
  BY <1>1, <1>2 DEF WithNew
<1>3. CASE /\ s.flags = {} /\ DOMAIN s.ids = {"parent_id"}
           /\ \E p : Found(p) /\ s.ids["parent_id"] = <<p>>
  <2>1. PICK p : Found(p) /\ s.ids["parent_id"] = <<p>>
    BY <1>3
  <2>2. Head(Col(s, "parent_id")) = p
    BY <1>3, <2>1 DEF Col
  <2> DEFINE n == Position(s.poses[1], 0)
  <2>3. n \in Nat
    BY FirstPos DEF IsCreate
  <2>4. NewRem(s) = IF m = NoName THEN NewText ELSE Rem(m)
    <3>1. s.makes = m /\ Head(s.words) = "w"
      BY DEF IsCreate, IsOp
    <3> QED BY <3>1 DEF NewRem, NewText
  <2>5. WithNew(s, K) = PutIn(K, NewRem(s), p, n)
    BY <1>3, <2>2 DEF IsCreate, WithNew
  <2> HIDE DEF n
  <2> QED BY <1>1, <2>1, <2>3, <2>4, <2>5
<1> QED BY <1>2, <1>3 DEF IsCreate

LEMMA TextEffect ==
    ASSUME NEW s, NEW d, IsText(s, d), NEW K PROVE Children(s, K, 1) = K
  BY DEF IsText, Children, Portals

LEMMA BodyEffect ==
    ASSUME NEW s, NEW d, IsBody(s, d), NEW K
    PROVE  \E n \in Nat : Children(s, K, 1) = PutIn(K, NewText, d, n)
<1>1. Children(s, K, 1) = WithNew(s, K)
  BY DEF IsBody, Children, Portals
<1>2. Head(Col(s, "parent_id")) = d
  BY DEF IsBody, Col
<1> DEFINE n == Position(s.poses[1], 0)
<1>3. n \in Nat
  BY FirstPos DEF IsBody
<1>4. NewRem(s) = NewText
  <2>1. s.makes = NoName /\ Head(s.words) = "w"
    BY DEF IsBody, IsOp
  <2> QED BY <2>1 DEF NewRem, NewText
<1>5. WithNew(s, K) = PutIn(K, NewRem(s), d, n)
  BY <1>2 DEF IsBody, WithNew
<1> HIDE DEF n
<1> QED BY <1>1, <1>3, <1>4, <1>5

LEMMA MoveEffect ==
    ASSUME NEW s, NEW r, NEW d, IsMove(s, r, d), NEW K
    PROVE  \E n \in Nat : Children(s, K, 1) = MoveTo(K, r, d, n)
<1>1. Children(s, K, 1) = WithMove(s, K)
  BY DEF IsMove, Children, Portals
<1> DEFINE n == Position(s.poses[1], 0)
<1>2. n \in Nat
  BY FirstPos DEF IsMove
<1>3. Head(s.ids["rem_id"]) = r /\ Head(s.ids["new_parent_id"]) = d
  BY DEF IsMove
<1>4. WithMove(s, K) = MoveTo(K, r, d, n)
  BY <1>3 DEF IsMove, WithMove
<1> HIDE DEF n
<1> QED BY <1>1, <1>2, <1>4

LEMMA PortalEffect ==
    ASSUME NEW s, NEW p, NEW t, NEW m, IsPortal(s, p, t, m), NEW K
    PROVE  \E n \in Nat :
             /\ \A k \in Nat : s.poses = <<<<k>>>> => n = k
             /\ Children(s, K, 1)
                  = PutIn(K, IF m = NoName THEN PortalOf(t) ELSE Rem(m), p, n)
<1>1. Children(s, K, 1) = WithPortals(s, K, 1)
  BY DEF IsPortal, Children, Portals
<1>2. PICK pos \in Seq(Nat) : s.poses = <<pos>>
  BY DEF IsPortal, IsOp
<1> DEFINE targets == Col(s, "target_rem_id") \o Col(s, "items[].target_rem_id")
           implicit == \A i \in DOMAIN s.poses : s.poses[i] = <<>>
           Portal(i) == IF s.makes # NoName THEN Rem(s.makes)
                        ELSE <<"portal", targets[i]>>
           PortalAt(i) == IF implicit THEN APPEND
                          ELSE Position(s.poses[i], i - 1)
           Is(f) == f = [i \in 0 .. 1 |->
                           IF i = 0 THEN K
                           ELSE PutIn(f[i - 1], Portal(i), Head(s.ids["parent_id"]),
                                      PortalAt(i))]
           f == CHOOSE f : Is(f)
<1>3. WithPortals(s, K, 1) = f[1]
  BY DEF WithPortals
<1>4. Is(f)
  <2> DEFINE h == [i \in 0 .. 1 |->
                     IF i = 0 THEN K
                     ELSE PutIn(K, Portal(1), Head(s.ids["parent_id"]), PortalAt(1))]
  <2>1. h[0] = K
    OBVIOUS
  <2>2. \A i \in 0 .. 1 : i = 0 \/ (i = 1 /\ i # 0 /\ i - 1 = 0)
    OBVIOUS
  <2>3. Is(h)
    BY <2>1, <2>2
  <2> HIDE DEF Is
  <2> QED BY <2>3
<1>5. f[1] = PutIn(K, Portal(1), Head(s.ids["parent_id"]), PortalAt(1))
  <2> HIDE DEF f, implicit, targets
  <2> DEFINE g == f
  <2>1. g = [i \in 0 .. 1 |->
               IF i = 0 THEN K
               ELSE PutIn(g[i - 1], Portal(i), Head(s.ids["parent_id"]), PortalAt(i))]
    BY <1>4
  <2> HIDE DEF g, Portal, PortalAt
  <2>2. 0 \in 0 .. 1 /\ 1 \in 0 .. 1 /\ 1 # 0 /\ 1 - 1 = 0
    OBVIOUS
  <2>3. g[0] = K
    BY <2>1, <2>2 DEF Is, Portal, PortalAt
  <2>4. g[1] = PutIn(g[1 - 1], Portal(1), Head(s.ids["parent_id"]), PortalAt(1))
    BY <2>1, <2>2
  <2> QED BY <2>2, <2>3, <2>4 DEF g
<1>6. targets[1] = t
  BY DEF IsPortal, Col
<1>7. Portal(1) = IF m = NoName THEN PortalOf(t) ELSE Rem(m)
  BY <1>6 DEF IsPortal, PortalOf
<1>8. Head(s.ids["parent_id"]) = p
  BY DEF IsPortal
<1>9. PortalAt(1) \in Nat
  <2>1. Position(s.poses[1], 1 - 1) \in Nat
    BY FirstPos DEF IsPortal
  <2>2. APPEND \in Nat
    BY DEF APPEND
  <2> QED BY <2>1, <2>2
<1>10. ASSUME NEW k \in Nat, s.poses = <<<<k>>>> PROVE PortalAt(1) = k
  <2>1. ~implicit
    BY <1>10
  <2>2. Position(s.poses[1], 1 - 1) = k
    BY <1>10 DEF Position
  <2> QED BY <2>1, <2>2
<1> DEFINE n == PortalAt(1)
<1> HIDE DEF f, Is
<1>11. Children(s, K, 1)
         = PutIn(K, IF m = NoName THEN PortalOf(t) ELSE Rem(m), p, n)
  BY <1>1, <1>3, <1>5, <1>7, <1>8
<1>12. n \in Nat /\ \A k \in Nat : s.poses = <<<<k>>>> => n = k
  BY <1>9, <1>10
<1> HIDE DEF n
<1> QED BY <1>11, <1>12

(* The list that r has been in gets the portal. *)
Moved(M, K, r) == AreLists(M) /\ \A v : v # r => Where(M, v) = Where(K, v)

LEMMA AwayEffect ==
    ASSUME NEW s, NEW r, IsMoveAway(s, r), NEW K, AreLists(K)
    PROVE  \E M : /\ Moved(M, K, r)
                  /\ IF "leave_portal" \notin s.flags \/ Where(K, r) = {}
                     THEN Children(s, K, 1) = M
                     ELSE \E p : \E n \in Nat : Children(s, K, 1)
                                                  = PutIn(M, PortalOf(r), p, n)
<1>1. Children(s, K, 1) = WithMove(s, K)
  BY DEF IsMoveAway, Children, Portals
<1>2. Head(s.ids["rem_id"]) = r
  BY DEF IsMoveAway
<1> DEFINE M == IF "standalone" \in s.flags THEN Without(K, r)
                ELSE MoveTo(K, r, Head(s.ids["new_parent_id"]), Position(s.poses[1], 0))
           from == {p \in DOMAIN K : r \in Range(K[p])}
           Index(p) == CHOOSE i \in DOMAIN K[p] : K[p][i] = r
           p0 == CHOOSE p \in from : TRUE
<1>3. Moved(M, K, r)
  <2>1. CASE "standalone" \in s.flags
    <3>1. IsWithout(Without(K, r), K, r)
      BY WithoutIs
    <3> QED BY <2>1, <3>1 DEF IsWithout, Moved
  <2>2. CASE "standalone" \notin s.flags
    <3> DEFINE p == Head(s.ids["new_parent_id"])
               n == Position(s.poses[1], 0)
    <3>1. n \in Nat
      BY FirstPos DEF IsMoveAway
    <3> HIDE DEF p, n
    <3>2. IsMovedTo(MoveTo(K, r, p, n), K, r, p)
      BY <3>1, MoveToIs
    <3>3. M = MoveTo(K, r, p, n)
      BY <2>2 DEF p, n
    <3> HIDE DEF M
    <3> QED BY <3>2, <3>3 DEF IsMovedTo, Moved
  <2> QED BY <2>1, <2>2
<1>4. from = Where(K, r)
  BY DEF Where, Els
<1>5. CASE "leave_portal" \notin s.flags \/ Where(K, r) = {}
  <2>1. WithMove(s, K) = M
    BY <1>2, <1>4, <1>5 DEF WithMove
  <2> HIDE DEF M
  <2> QED BY <1>1, <1>3, <1>5, <2>1
<1>6. CASE ~("leave_portal" \notin s.flags \/ Where(K, r) = {})
  <2>1. WithMove(s, K) = PutIn(M, PortalOf(r), p0, Index(p0) - 1)
    BY <1>2, <1>4, <1>6 DEF WithMove, PortalOf
  <2>2. p0 \in from
    BY <1>4, <1>6
  <2>3. \E i \in DOMAIN K[p0] : K[p0][i] = r
    BY <2>2 DEF Range
  <2>4. Index(p0) \in DOMAIN K[p0]
    BY <2>3
  <2>5. DOMAIN K[p0] \subseteq Nat \ {0}
    <3>1. IsList(K[p0])
      BY <2>2 DEF AreLists
    <3> DEFINE q == K[p0]
    <3> HIDE DEF q
    <3>2. q \in Seq(Els(q))
      BY <3>1, ListType DEF q
    <3> DEFINE E == Els(q)
    <3> HIDE DEF E
    <3>3. DOMAIN q = 1 .. Len(q)
      BY <3>2 DEF E
    <3>4. DOMAIN q \subseteq Nat \ {0}
      BY <3>3
    <3> QED BY <3>4 DEF q
  <2> HIDE DEF M, Index, p0
  <2>6. Index(p0) - 1 \in Nat
    BY <2>4, <2>5
  <2> QED BY <1>1, <1>3, <1>6, <2>1, <2>6
<1> QED BY <1>5, <1>6

-----------------------------------------------------------------------------
(* No two steps of these plans are merged. *)

GroupsOf(g, plan) ==
    g = [n \in 0 .. Len(plan) |->
           IF n = 0 THEN <<>> ELSE Grouped(g[n - 1], plan[n])]

LEMMA NotGrouped ==
    ASSUME NEW S, NEW plan \in Seq(S), \A n \in 2 .. Len(plan) : ~MayJoin(plan[n]),
           NEW n \in 1 .. Len(plan)
    PROVE  Grouped([i \in 1 .. n - 1 |-> <<plan[i]>>], plan[n])
             = [i \in 1 .. n |-> <<plan[i]>>]
<1> DEFINE One == {<<e>> : e \in S}
           gs == [i \in 1 .. n - 1 |-> <<plan[i]>>]
           more == [i \in 1 .. n |-> <<plan[i]>>]
<1>1. Len(plan) \in Nat /\ n \in Nat /\ n - 1 \in Nat
  OBVIOUS
<1>2. \A i \in 1 .. n : <<plan[i]>> \in One
  OBVIOUS
<1>3. gs \in Seq(One) /\ Len(gs) = n - 1 /\ \A i \in 1 .. n - 1 : gs[i] = <<plan[i]>>
  <2> HIDE DEF One
  <2>1. gs \in [1 .. n - 1 -> One]
    BY <1>1, <1>2
  <2> QED BY <1>1, <2>1
<1>4. more \in Seq(One) /\ Len(more) = n /\ \A i \in 1 .. n : more[i] = <<plan[i]>>
  <2> HIDE DEF One
  <2>1. more \in [1 .. n -> One]
    BY <1>1, <1>2
  <2> QED BY <1>1, <2>1
<1> HIDE DEF gs
<1>5. Grouped(gs, plan[n]) = Append(gs, <<plan[n]>>)
  <2>1. CASE n = 1
    <3>1. gs = <<>>
      BY <1>3, <2>1
    <3> QED BY <3>1 DEF Grouped
  <2>2. CASE n # 1
    <3>1. ~MayJoin(plan[n])
      BY <1>1, <2>2
    <3> QED BY <3>1 DEF Grouped
  <2> QED BY <2>1, <2>2
<1>6. Append(gs, <<plan[n]>>) = more
  <2> DEFINE e == <<plan[n]>>
             t == Append(gs, e)
  <2>1. e \in One
    BY <1>1, <1>2
  <2> HIDE DEF One, e, more
  <2>2. /\ t \in Seq(One) /\ Len(t) = n
        /\ \A i \in 1 .. n - 1 : t[i] = gs[i]
        /\ t[n] = e
    BY <1>1, <1>3, <2>1
  <2> HIDE DEF t
  <2>3. ASSUME NEW i \in 1 .. n PROVE t[i] = more[i]
    <3>1. CASE i = n
      BY <1>1, <1>4, <2>2, <3>1 DEF e
    <3>2. CASE i # n
      <4>1. i \in 1 .. n - 1
        BY <1>1, <3>2
      <4>2. t[i] = gs[i] /\ gs[i] = <<plan[i]>> /\ more[i] = <<plan[i]>>
        BY <1>3, <1>4, <2>2, <4>1
      <4> QED BY <4>2
    <3> QED BY <3>1, <3>2
  <2>4. t = more
    BY <1>4, <2>2, <2>3, SeqEqual
  <2> QED BY <2>4 DEF t, e
<1> QED BY <1>5, <1>6 DEF gs

LEMMA CoalesceSame ==
    ASSUME NEW S, NEW plan \in Seq(S), \A n \in 2 .. Len(plan) : ~MayJoin(plan[n])
    PROVE  Coalesce(plan) = plan
<1> DEFINE h == [n \in 0 .. Len(plan) |-> [i \in 1 .. n |-> <<plan[i]>>]]
           g == CHOOSE g : GroupsOf(g, plan)
<1>1. Len(plan) \in Nat
  OBVIOUS
<1>2. h[0] = <<>>
  OBVIOUS
<1>3. ASSUME NEW n \in 1 .. Len(plan) PROVE h[n] = Grouped(h[n - 1], plan[n])
  <2>1. n \in 0 .. Len(plan) /\ n - 1 \in 0 .. Len(plan)
    BY <1>1
  <2>2. h[n] = [i \in 1 .. n |-> <<plan[i]>>] /\ h[n - 1] = [i \in 1 .. n - 1 |-> <<plan[i]>>]
    BY <2>1
  <2> HIDE DEF h
  <2>3. Grouped([i \in 1 .. n - 1 |-> <<plan[i]>>], plan[n])
          = [i \in 1 .. n |-> <<plan[i]>>]
    BY NotGrouped, Zenon
  <2> QED BY <2>2, <2>3
<1>4. GroupsOf(h, plan)
  <2>1. h = [n \in 0 .. Len(plan) |-> h[n]]
    OBVIOUS
  <2> HIDE DEF h
  <2>2. ASSUME NEW n \in 0 .. Len(plan)
        PROVE  h[n] = IF n = 0 THEN <<>> ELSE Grouped(h[n - 1], plan[n])
    <3>1. n = 0 \/ n \in 1 .. Len(plan)
      BY <1>1
    <3> QED BY <1>2, <1>3, <3>1
  <2> QED BY <2>1, <2>2 DEF GroupsOf
<1>5. GroupsOf(g, plan)
  <2> HIDE DEF h
  <2> QED BY <1>4
<1>6. Groups(plan) = g[Len(plan)]
  BY DEF Groups, GroupsOf
<1> HIDE DEF g
<1> DEFINE Same == {n \in 0 .. Len(plan) : g[n] = h[n]}
<1>7. 0 \in Same
  <2>1. 0 \in 0 .. Len(plan)
    BY <1>1
  <2> HIDE DEF h
  <2> QED BY <1>2, <1>5, <2>1 DEF GroupsOf
<1>8. ASSUME NEW n \in 1 .. Len(plan), n - 1 \in Same PROVE n \in Same
  <2>1. n \in 0 .. Len(plan) /\ n # 0
    BY <1>1
  <2>2. g[n] = Grouped(g[n - 1], plan[n])
    BY <1>5, <2>1 DEF GroupsOf
  <2> HIDE DEF h
  <2> QED BY <1>3, <1>8, <2>1, <2>2
<1>9. Len(plan) \in Same
  <2> HIDE DEF Same
  <2>1. 0 .. Len(plan) \subseteq Same
    BY <1>1, <1>7, <1>8, UpTo
  <2> QED BY <1>1, <2>1
<1> DEFINE gs == [i \in 1 .. Len(plan) |-> <<plan[i]>>]
<1>10. Groups(plan) = gs
  <2>1. Len(plan) \in 0 .. Len(plan)
    BY <1>1
  <2> QED BY <1>6, <1>9, <2>1
<1>11. \A i \in 1 .. Len(plan) : Len(<<plan[i]>>) = 1 /\ Head(<<plan[i]>>) = plan[i]
  OBVIOUS
<1>12. Coalesce(plan) = [i \in 1 .. Len(plan) |-> plan[i]]
  BY <1>10, <1>11 DEF Coalesce
<1>13. plan = [i \in 1 .. Len(plan) |-> plan[i]]
  OBVIOUS
<1> QED BY <1>12, <1>13

-----------------------------------------------------------------------------
(* The steps of the plans, compiled. *)

OpNamed(t) ==
    /\ t.name = "write.bullet" => t.op = "create_rem"
    /\ t.name = "rem.move" => t.op = "move_rem"
    /\ t.name = "portal.create" => t.op = "create_portal"
    /\ t.name = "rem.children.append" => t.op = "create_tree_with_markdown"

LEMMA OpNames ==
    /\ Actions["write.bullet"].op = "create_rem"
    /\ Actions["rem.move"].op = "move_rem"
    /\ Actions["portal.create"].op = "create_portal"
    /\ Actions["rem.children.append"].op = "create_tree_with_markdown"
<1>1. /\ \A t \in CreateActions : OpNamed(t)
      /\ \A t \in ChildrenActions : OpNamed(t)
  BY DEF CreateActions, ChildrenActions, Action, OpNamed
<1>2. /\ \A t \in PortalActions : OpNamed(t)
      /\ \A t \in ReplaceActions : OpNamed(t)
      /\ \A t \in BlockActions : OpNamed(t)
      /\ \A t \in RemActions : OpNamed(t)
  BY DEF PortalActions, ReplaceActions, BlockActions,
     RemActions, Action, OpNamed
<1>3. \A t \in TagActions : OpNamed(t)
  BY DEF TagActions, Action, OpNamed
<1>4. \A t \in MiscActions : OpNamed(t)
  BY DEF MiscActions, Action, OpNamed
<1>5. \A t \in ActionTable : OpNamed(t)
  BY <1>1, <1>2, <1>3, <1>4 DEF ActionTable
<1>6. /\ \E t \in CreateActions : t.name = "write.bullet"
      /\ \E t \in RemActions : t.name = "rem.move"
      /\ \E t \in PortalActions : t.name = "portal.create"
      /\ \E t \in ChildrenActions : t.name = "rem.children.append"
  <2>1. \E t \in CreateActions : t.name = "write.bullet"
    <3> DEFINE t == Action("write.bullet", "create_rem", TRUE, {"parent_id"}, {})
    <3>1. t.name = "write.bullet"
      BY DEF Action
    <3> HIDE DEF t
    <3>2. t \in CreateActions
      BY Zenon DEF t, CreateActions
    <3> QED BY <3>1, <3>2
  <2>2. \E t \in RemActions : t.name = "rem.move"
    <3> DEFINE t == Action("rem.move", "move_rem", FALSE, {"rem_id", "new_parent_id"},
                           {"rem_id"})
    <3>1. t.name = "rem.move"
      BY DEF Action
    <3> HIDE DEF t
    <3>2. t \in RemActions
      BY Zenon DEF t, RemActions
    <3> QED BY <3>1, <3>2
  <2>3. \E t \in PortalActions : t.name = "portal.create"
    <3> DEFINE t == Action("portal.create", "create_portal", TRUE,
                           {"parent_id", "target_rem_id"}, {"parent_id", "target_rem_id"})
    <3>1. t.name = "portal.create"
      BY DEF Action
    <3> HIDE DEF t
    <3>2. t \in PortalActions
      BY Zenon DEF t, PortalActions
    <3> QED BY <3>1, <3>2
  <2>4. \E t \in ChildrenActions : t.name = "rem.children.append"
    <3> DEFINE t == Action("rem.children.append", "create_tree_with_markdown", FALSE,
                           {"rem_id"}, {"rem_id"})
    <3>1. t.name = "rem.children.append"
      BY DEF Action
    <3> HIDE DEF t
    <3>2. t \in ChildrenActions
      BY Zenon DEF t, ChildrenActions
    <3> QED BY <3>1, <3>2
  <2> QED BY <2>1, <2>2, <2>3, <2>4
<1>7. ASSUME NEW a, \E t \in ActionTable : t.name = a
      PROVE  /\ Actions[a] \in ActionTable
             /\ Actions[a].name = a
  BY <1>7 DEF Actions
<1>8. \A a \in {"write.bullet", "rem.move", "portal.create", "rem.children.append"} :
        \E t \in ActionTable : t.name = a
  BY <1>6 DEF ActionTable
<1> QED BY <1>5, <1>7, <1>8 DEF OpNamed

(* An op is what its step says, with its own id for the new Rem. *)
IsCompiled(c, as, ids, pos, flags) ==
    /\ IsOp(c) /\ c.poses = <<pos>> /\ c.flags = flags /\ c.makes = as
    /\ DOMAIN c.ids = DOMAIN ids
    /\ \A p \in DOMAIN ids : \A v : ids[p] = <<v>> => c.ids[p] = <<Resolved(v)>>

LEMMA CompiledDo ==
    ASSUME NEW a \in {"write.bullet", "rem.move", "portal.create"}, NEW as, NEW ids,
           NEW pos \in Seq(Nat), NEW flags
    PROVE  LET c == CompiledStep(Do(a, as, ids, pos, flags))
           IN IsCompiled(c, as, ids, pos, flags) /\ c.type = Actions[a].op
<1> DEFINE s == Do(a, as, ids, pos, flags)
           c == CompiledStep(s)
<1>1. /\ s.action = a /\ s.as = as /\ s.ids = ids /\ s.poses = <<pos>> /\ s.words = <<"w">>
      /\ s.flags = flags
  BY DEF Do
<1>2. \A p : PayloadPath(a, p) = p
  BY DEF PayloadPath, OfChildren
<1> DEFINE Path(p) == PayloadPath(a, p)
<1>3. {Path(p) : p \in DOMAIN ids} = DOMAIN ids
  <2> HIDE DEF Path
  <2>1. \A p : Path(p) = p
    BY <1>2 DEF Path
  <2> DEFINE X == DOMAIN ids
  <2> HIDE DEF X
  <2>2. {Path(p) : p \in X} = X
    BY <2>1
  <2> QED BY <2>2 DEF X
<1>4. \A q \in DOMAIN ids : (CHOOSE p \in DOMAIN ids : Path(p) = q) = q
  <2> HIDE DEF Path
  <2>1. \A p : Path(p) = p
    BY <1>2 DEF Path
  <2> QED BY <2>1
<1> DEFINE new == [q \in DOMAIN ids |->
                     [i \in DOMAIN ids[q] |-> Resolved(ids[q][i])]]
<1> HIDE DEF s
<1>5. c = [type |-> Actions[a].op, ids |-> new, poses |-> <<pos>>, words |-> <<"w">>,
           flags |-> flags, makes |-> as]
  <2>1. a # "rem.children.prepend" /\ ClientTempId(s) = as
    BY <1>1 DEF ClientTempId
  <2> DEFINE Source(q) == CHOOSE p \in DOMAIN ids : Path(p) = q
             F(q) == [i \in DOMAIN ids[Source(q)] |-> Resolved(ids[Source(q)][i])]
             G(q) == [i \in DOMAIN ids[q] |-> Resolved(ids[q][i])]
  <2>2. c = [type |-> Actions[a].op,
             ids |-> [q \in {Path(p) : p \in DOMAIN ids} |-> F(q)],
             poses |-> <<pos>>, words |-> <<"w">>, flags |-> flags, makes |-> as]
    BY <1>1, <2>1 DEF CompiledStep
  <2>3. \A q \in DOMAIN ids : Source(q) = q
    BY <1>4
  <2> HIDE DEF Source, Path, c
  <2>4. \A q \in DOMAIN ids : F(q) = G(q)
    BY <2>3
  <2> HIDE DEF F, G
  <2>5. [q \in {Path(p) : p \in DOMAIN ids} |-> F(q)] = [q \in DOMAIN ids |-> G(q)]
    BY <1>3, <2>4
  <2>6. [q \in DOMAIN ids |-> G(q)] = new
    BY DEF G
  <2> QED BY <2>2, <2>5, <2>6
<1>6. ASSUME NEW p \in DOMAIN ids, NEW v, ids[p] = <<v>> PROVE new[p] = <<Resolved(v)>>
  BY <1>6
<1> HIDE DEF c, new
<1>7. /\ c.type = Actions[a].op /\ c.ids = new /\ c.poses = <<pos>>
      /\ c.words = <<"w">> /\ c.flags = flags /\ c.makes = as
      /\ c = [type |-> c.type, ids |-> c.ids, poses |-> c.poses, words |-> c.words,
              flags |-> c.flags, makes |-> c.makes]
  BY <1>5
<1>8. IsOp(c)
  BY <1>7 DEF IsOp
<1>9. DOMAIN c.ids = DOMAIN ids
  BY <1>7 DEF new
<1>10. IsCompiled(c, as, ids, pos, flags)
  BY <1>6, <1>7, <1>8, <1>9 DEF IsCompiled
<1> QED BY <1>7, <1>10 DEF c, s

LEMMA CompiledText ==
    ASSUME NEW v
    PROVE  IsText(CompiledStep(Do("rem.children.append", NoName,
                                  [rem_id |-> <<v>>], <<>>, {})),
                  Resolved(v))
<1> DEFINE ids == [rem_id |-> <<v>>]
           s == Do("rem.children.append", NoName, ids, <<>>, {})
           c == CompiledStep(s)
           new == [q \in {"parent_id"} |-> <<Resolved(v)>>]
<1>1. /\ s.action = "rem.children.append" /\ s.as = NoName /\ s.ids = ids
      /\ s.poses = <<<<>>>>
      /\ s.words = <<"w">> /\ s.flags = {}
  BY DEF Do
<1>2. DOMAIN ids = {"rem_id"} /\ ids["rem_id"] = <<v>>
  OBVIOUS
<1>3. \A p : PayloadPath("rem.children.append", p) = "parent_id"
  BY DEF PayloadPath, OfChildren
<1> HIDE DEF ids, s
<1>4. {PayloadPath(s.action, p) : p \in DOMAIN s.ids} = {"parent_id"}
  BY <1>1, <1>2, <1>3
<1>5. (CHOOSE p \in DOMAIN s.ids : PayloadPath(s.action, p) = "parent_id") = "rem_id"
  BY <1>1, <1>2, <1>3
<1>6. [i \in DOMAIN s.ids["rem_id"] |-> Resolved(s.ids["rem_id"][i])]
        = <<Resolved(v)>>
  BY <1>1, <1>2
<1>7. c.ids = new
  <2> DEFINE Source(q) == CHOOSE p \in DOMAIN s.ids : PayloadPath(s.action, p) = q
             F(q) == [i \in DOMAIN s.ids[Source(q)] |-> Resolved(s.ids[Source(q)][i])]
  <2>1. c.ids = [q \in {PayloadPath(s.action, p) : p \in DOMAIN s.ids} |-> F(q)]
    BY DEF CompiledStep
  <2>2. F("parent_id") = <<Resolved(v)>>
    BY <1>5, <1>6
  <2> HIDE DEF F
  <2> QED BY <1>4, <2>1, <2>2
<1>8. /\ c.type = "create_tree_with_markdown" /\ c.poses = <<<<>>>> /\ c.words = <<"w">>
      /\ c.flags = {} /\ c.makes = NoName
      /\ c = [type |-> c.type, ids |-> c.ids, poses |-> c.poses, words |-> c.words,
              flags |-> c.flags, makes |-> c.makes]
  BY <1>1, OpNames DEF CompiledStep, ClientTempId
<1> HIDE DEF c
<1>9. IsOp(c)
  <2>1. <<>> \in Seq(Nat)
    OBVIOUS
  <2> QED BY <1>8, <2>1 DEF IsOp
<1>10. IsText(c, Resolved(v))
  BY <1>7, <1>8, <1>9 DEF IsText
<1> QED BY <1>10 DEF c, s, ids

LEMMA ResolvedIds ==
    /\ Resolved(Ref("durable_target")) = NewTmp
    /\ \A v : Found(v) => Resolved(v) = v
  BY DEF Resolved, Ref, NewTmp, Found, IsFound

(* What names the new Rem, or makes something of a name, is not merged. *)
LEMMA JoinsNot ==
    ASSUME NEW a, NEW as, NEW ids, NEW pos, NEW flags,
           \/ as # NoName \/ a \notin Joinable
           \/ \E p \in DOMAIN ids : ids[p] = <<Ref("durable_target")>>
    PROVE  ~MayJoin(Do(a, as, ids, pos, flags))
<1> DEFINE s == Do(a, as, ids, pos, flags)
<1>1. s.action = a /\ s.as = as /\ s.ids = ids
  BY DEF Do
<1> HIDE DEF s
<1>2. CASE as # NoName \/ a \notin Joinable
  BY <1>1, <1>2 DEF MayJoin, s
<1>3. CASE \E p \in DOMAIN ids : ids[p] = <<Ref("durable_target")>>
  <2> DEFINE v == Ref("durable_target")
  <2>1. PICK p \in DOMAIN ids : ids[p] = <<v>>
    BY <1>3
  <2>2. v[1] = "ref"
    BY DEF Ref
  <2> HIDE DEF v
  <2>3. v \in Range(<<v>>)
    BY DEF Range
  <2>4. v \in Ids(s)
    BY <1>1, <2>1, <2>3 DEF Ids
  <2>5. v \in OfKind(Ids(s), "ref")
    BY <2>2, <2>4 DEF OfKind
  <2> QED BY <2>5 DEF MayJoin, s
<1> QED BY <1>2, <1>3

-----------------------------------------------------------------------------
(* The request, the outline that is found, and the places. *)

InSlot == request.portal.kind = "in_place"

(* The request is one of those that may be made, and they and the outline have
   the shape that Promotion states. *)
Asked == request \in Requests /\ RequestShape /\ OutlineShape

LEMMA RequestIs ==
    ASSUME Asked
    PROVE  /\ request.do \in {"create", "move"}
           /\ request.source \in {"text", "body", "markdown", "from", "selection"}
           /\ IsList(request.from) /\ \A v \in Els(request.from) : Found(v)
           /\ request.do = "move" => request.source = "from" /\ Len(request.from) = 1
           /\ AtShape(request.at)
           /\ request.at.kind \in {"standalone", "parent", "before", "after"}
           /\ AtShape(request.portal)
           /\ request.portal.kind \in
                {"none", "in_place", "standalone", "parent", "before", "after"}
  BY DEF Asked, RequestShape, IsList, Els, Found

LEMMA OutlineIs ==
    ASSUME Asked
    PROVE  LET kids == Outline0.kids
           IN /\ AreLists(kids)
              /\ \A p \in DOMAIN kids : Found(p) /\ \A v \in Els(kids[p]) : Found(v)
              /\ \A p, q \in DOMAIN kids : \A i \in DOMAIN kids[p], j \in DOMAIN kids[q] :
                   kids[p][i] = kids[q][j] => p = q /\ i = j
  BY DEF Asked, OutlineShape, AreLists, IsList, Els, Found

OnceOf(once, k, s) ==
    once = [n \in 0 .. k |->
              IF n = 0 THEN <<>>
              ELSE IF s[n] \in Els(once[n - 1]) THEN once[n - 1] ELSE Append(once[n - 1], s[n])]

LEMMA OnceExists == ASSUME NEW s, NEW k \in Nat PROVE \E once : OnceOf(once, k, s)
<1> DEFINE S == {n \in Nat : \E once : OnceOf(once, n, s)}
<1>1. 0 \in S
  <2> DEFINE once == [n \in 0 .. 0 |-> <<>>]
  <2>1. OnceOf(once, 0, s)
    BY DEF OnceOf
  <2> QED BY <2>1
<1>2. ASSUME NEW n \in 1 .. k, n - 1 \in S PROVE n \in S
  <2>1. PICK once : OnceOf(once, n - 1, s)
    BY <1>2
  <2> DEFINE last == IF s[n] \in Els(once[n - 1]) THEN once[n - 1] ELSE Append(once[n - 1], s[n])
             new == [m \in 0 .. n |-> IF m = n THEN last ELSE once[m]]
  <2>2. once = [m \in 0 .. n - 1 |->
                 IF m = 0 THEN <<>>
                 ELSE IF s[m] \in Els(once[m - 1]) THEN once[m - 1]
                      ELSE Append(once[m - 1], s[m])]
    BY <2>1 DEF OnceOf
  <2>3. ASSUME NEW m \in 0 .. n
        PROVE  new[m] = IF m = 0 THEN <<>>
                        ELSE IF s[m] \in Els(new[m - 1]) THEN new[m - 1]
                             ELSE Append(new[m - 1], s[m])
    <3>1. CASE m = 0
      <4>1. m \in 0 .. n - 1 /\ new[m] = once[m]
        BY <3>1
      <4> QED BY <2>2, <3>1, <4>1
    <3>2. CASE m \in 1 .. n - 1
      <4>1. m \in 0 .. n - 1 /\ new[m] = once[m] /\ new[m - 1] = once[m - 1] /\ m # 0
        BY <3>2
      <4> QED BY <2>2, <4>1
    <3>3. CASE m = n
      <4>1. new[m] = last /\ new[m - 1] = once[n - 1] /\ m # 0
        BY <3>3
      <4> QED BY <3>3, <4>1
    <3> QED BY <3>1, <3>2, <3>3
  <2>4. new = [m \in 0 .. n |-> new[m]]
    OBVIOUS
  <2>5. OnceOf(new, n, s)
    <3> HIDE DEF new
    <3> QED BY <2>3, <2>4 DEF OnceOf
  <2>6. n \in Nat
    OBVIOUS
  <2> HIDE DEF new
  <2> QED BY <2>5, <2>6
<1> HIDE DEF S
<1>3. k \in S
  <2>1. 0 .. k \subseteq S
    BY <1>1, <1>2, UpTo
  <2> QED BY <2>1
<1> QED BY <1>3 DEF S

(* Each source once: the same Rems. *)
LEMMA SourcesAre ==
    ASSUME IsList(request.from)
    PROVE  IsList(Sources) /\ Els(Sources) = Els(request.from)
<1> DEFINE s == request.from
           k == Len(s)
           once == CHOOSE once : OnceOf(once, k, s)
<1>1. k \in Nat /\ s \in Seq(Els(s))
  BY ListType
<1>2. OnceOf(once, k, s)
  BY <1>1, OnceExists
<1>3. Sources = once[k]
  BY DEF Sources, OnceOf, Els
<1> HIDE DEF once
<1> DEFINE First(n) == {s[i] : i \in 1 .. n}
           Once == {n \in 0 .. k : IsList(once[n]) /\ Els(once[n]) = First(n)}
<1>4. 0 \in Once
  <2>1. 0 \in 0 .. k /\ First(0) = {}
    BY <1>1
  <2>2. once[0] = <<>>
    BY <1>2, <2>1 DEF OnceOf
  <2> QED BY <2>1, <2>2, NoList
<1>5. ASSUME NEW n \in 1 .. k, n - 1 \in Once PROVE n \in Once
  <2>1. n \in 0 .. k /\ n # 0
    BY <1>1
  <2>2. once[n] = IF s[n] \in Els(once[n - 1]) THEN once[n - 1] ELSE Append(once[n - 1], s[n])
    BY <1>2, <2>1 DEF OnceOf
  <2>3. First(n) = First(n - 1) \cup {s[n]}
    BY <1>1
  <2>4. IsList(once[n - 1]) /\ Els(once[n - 1]) = First(n - 1)
    BY <1>5
  <2> HIDE DEF First
  <2>5. CASE s[n] \in Els(once[n - 1])
    BY <2>1, <2>2, <2>3, <2>4, <2>5
  <2>6. CASE s[n] \notin Els(once[n - 1])
    <3> DEFINE S == First(n)
    <3>1. once[n - 1] \in Seq(S)
      BY <2>3, <2>4, ListIs
    <3>2. s[n] \in S
      BY <2>3
    <3> HIDE DEF S
    <3>3. Append(once[n - 1], s[n]) \in Seq(S)
      BY <3>1, <3>2
    <3>4. Els(Append(once[n - 1], s[n])) = Els(once[n - 1]) \cup {s[n]}
      BY <3>1, ElsAppend
    <3> QED BY <2>1, <2>2, <2>3, <2>4, <2>6, <3>3, <3>4, ListIn
  <2> QED BY <2>5, <2>6
<1>6. k \in Once
  <2> HIDE DEF Once
  <2>1. 0 .. k \subseteq Once
    BY <1>1, <1>4, <1>5, UpTo
  <2> QED BY <1>1, <2>1
<1>7. First(k) = Els(s)
  BY <1>1 DEF Els, Range
<1> QED BY <1>3, <1>6, <1>7

IsPlace(spot) ==
    /\ spot.pos \in Seq(Nat)
    /\ spot.parent = <<>> \/ \E p : Found(p) /\ spot.parent = <<p>>

LEMMA BesideIs ==
    ASSUME Asked, outline = Outline0, NEW r, ParentsOf({r}) # {}, NEW n \in {0, 1}
    PROVE  /\ BesideAnchor(r, n).pos \in Seq(Nat)
           /\ \E p : Found(p) /\ BesideAnchor(r, n).parent = <<p>>
<1> DEFINE p == CHOOSE p \in ParentsOf({r}) : TRUE
           i == CHOOSE i \in DOMAIN outline.kids[p] : outline.kids[p][i] = r
<1>1. p \in DOMAIN Outline0.kids /\ r \in Els(Outline0.kids[p])
  BY DEF ParentsOf, Els
<1>2. BesideAnchor(r, n) = [parent |-> <<p>>, pos |-> <<i - 1 + n>>]
  BY DEF BesideAnchor
<1> HIDE DEF p
<1>3. i \in DOMAIN Outline0.kids[p]
  BY <1>1 DEF Els, Range
<1>4. DOMAIN Outline0.kids[p] \subseteq Nat \ {0}
  <2>1. Outline0.kids[p] \in Seq(Els(Outline0.kids[p]))
    BY <1>1, OutlineIs, ListType DEF AreLists
  <2> QED BY <2>1
<1> HIDE DEF i
<1>5. i - 1 + n \in Nat
  BY <1>3, <1>4
<1>6. Found(p)
  BY <1>1, OutlineIs
<1> QED BY <1>2, <1>5, <1>6

LEMMA PlaceIs ==
    ASSUME Asked, outline = Outline0, NEW spot, AtShape(spot),
           spot.kind \in {"standalone", "parent", "before", "after"},
           ~Anchorless(spot)
    PROVE  IsPlace(Resolve(spot))
           /\ (spot.kind # "standalone" => Resolve(spot).parent # <<>>)
<1>1. CASE spot.kind = "standalone"
  <2>1. Resolve(spot) = [parent |-> <<>>, pos |-> <<>>]
    BY <1>1 DEF Resolve
  <2>2. <<>> \in Seq(Nat)
    OBVIOUS
  <2> QED BY <1>1, <2>1, <2>2 DEF IsPlace
<1>2. CASE spot.kind = "parent"
  <2>1. Resolve(spot) = [parent |-> <<spot.ref>>, pos |-> spot.pos]
    BY <1>2 DEF Resolve
  <2>2. Found(spot.ref) /\ spot.pos \in Seq(Nat)
    BY <1>2 DEF AtShape, Found
  <2> QED BY <2>1, <2>2 DEF IsPlace
<1>3. CASE spot.kind \in {"before", "after"}
  <2>1. PICK n \in {0, 1} : Resolve(spot) = BesideAnchor(spot.ref, n)
    BY <1>3 DEF Resolve
  <2>2. ParentsOf({spot.ref}) # {}
    BY <1>3 DEF Anchorless
  <2>3. /\ BesideAnchor(spot.ref, n).pos \in Seq(Nat)
        /\ \E p : Found(p) /\ BesideAnchor(spot.ref, n).parent = <<p>>
    BY <2>2, BesideIs
  <2> QED BY <2>1, <2>3 DEF IsPlace
<1> QED BY <1>1, <1>2, <1>3

(* The slot of the sources, in the outline that is found. *)
Slot0 == CHOOSE slot \in RangesIn(Outline0.kids, Sources) : TRUE

Slots == RangesIn(Outline0.kids, Sources)

LEMMA SlotIs ==
    ASSUME Asked, IsList(Sources), Slots # {}
    PROVE  /\ Slot0 \in Slots /\ Slot0 = <<Slot0[1], Slot0[2]>>
           /\ Slot0[1] \in DOMAIN Outline0.kids /\ Slot0[2] \in Nat \ {0}
           /\ Slot0[2] + Len(Sources) <= Len(Outline0.kids[Slot0[1]]) + 1
           /\ Els(SubSeq(Outline0.kids[Slot0[1]], Slot0[2],
                         Slot0[2] + Len(Sources) - 1)) = Els(Sources)
<1>1. Slot0 \in Slots
  BY DEF Slot0, Slots
<1>2. PICK p \in DOMAIN Outline0.kids :
        \E i \in 1 .. (Len(Outline0.kids[p]) - Len(Sources) + 1) :
          /\ Slot0 = <<p, i>>
          /\ Els(SubSeq(Outline0.kids[p], i, i + Len(Sources) - 1))
               = Els(Sources)
  BY <1>1 DEF Slots, RangesIn, Els
<1>a. PICK i \in 1 .. (Len(Outline0.kids[p]) - Len(Sources) + 1) :
        /\ Slot0 = <<p, i>>
        /\ Els(SubSeq(Outline0.kids[p], i, i + Len(Sources) - 1)) = Els(Sources)
  BY <1>2
<1>3. Len(Sources) \in Nat /\ Len(Outline0.kids[p]) \in Nat
  BY ListType, OutlineIs DEF AreLists
<1>4. Slot0[1] = p /\ Slot0[2] = i
  BY <1>a
<1> QED BY <1>1, <1>a, <1>3, <1>4

LEMMA OrderedAre ==
    ASSUME Asked, outline = Outline0
    PROVE  IsList(Ordered) /\ Els(Ordered) = Els(request.from)
<1>1. IsList(Sources) /\ Els(Sources) = Els(request.from)
  BY RequestIs, SourcesAre
<1>2. RangesOf(Sources) = Slots
  BY DEF RangesOf, Slots
<1>3. CASE Slots = {}
  BY <1>1, <1>2, <1>3 DEF Ordered
<1>4. CASE Slots # {}
  <2> DEFINE p == Slot0[1]
             i == Slot0[2]
             n == Len(Sources)
             s == Outline0.kids[p]
             t == SubSeq(s, i, i + n - 1)
  <2>1. TheRange = Slot0
    BY <1>2 DEF TheRange, Slot0, Slots
  <2>2. Ordered = t
    BY <1>2, <1>4, <2>1 DEF Ordered
  <2>3. p \in DOMAIN Outline0.kids /\ i \in Nat \ {0} /\ i + n <= Len(s) + 1
        /\ Els(t) = Els(Sources)
    BY <1>1, <1>4, SlotIs
  <2>4. s \in Seq(Els(s)) /\ n \in Nat
    BY <1>1, <2>3, OutlineIs, ListType DEF AreLists
  <2> HIDE DEF p, i, n, s
  <2>5. t \in Seq(Els(s))
    BY <2>3, <2>4
  <2> HIDE DEF t
  <2>6. IsList(t)
    BY <2>5, ListIn
  <2> QED BY <1>1, <2>2, <2>3, <2>6
<1> QED BY <1>3, <1>4

LEMMA PortalPlaceIs ==
    ASSUME Asked, outline = Outline0, ~Refused,
           request.portal.kind # "none",
           InSlot => Slots # {}
    PROVE  /\ PortalPlace.pos \in Seq(Nat)
           /\ \E p : Found(p) /\ PortalPlace.parent = <<p>>
           /\ InSlot => PortalPlace = [parent |-> <<Slot0[1]>>, pos |-> <<Slot0[2] - 1>>]
<1>1. CASE InSlot
  <2>1. TheRange = Slot0
    BY DEF TheRange, RangesOf, Slot0, Slots
  <2>2. PortalPlace = [parent |-> <<Slot0[1]>>, pos |-> <<Slot0[2] - 1>>]
    BY <1>1, <2>1 DEF PortalPlace, Slot, InSlot
  <2>3. IsList(Sources)
    BY RequestIs, SourcesAre
  <2>4. Slot0[1] \in DOMAIN Outline0.kids /\ Slot0[2] \in Nat \ {0}
    BY <1>1, <2>3, SlotIs
  <2>5. Slot0[2] - 1 \in Nat
    BY <2>4
  <2> QED BY <2>2, <2>4, <2>5, OutlineIs
<1>2. CASE request.portal.kind = "parent"
  <2>1. PortalPlace = [parent |-> <<request.portal.ref>>, pos |-> <<>>]
    BY <1>2 DEF PortalPlace
  <2>2. Found(request.portal.ref)
    BY <1>2, RequestIs DEF AtShape, Found
  <2> QED BY <1>2, <2>1, <2>2 DEF InSlot
<1>3. CASE request.portal.kind \in {"before", "after"}
  <2>1. PortalPlace = Resolve(request.portal)
    BY <1>3 DEF PortalPlace
  <2>2. ~Anchorless(request.portal) /\ AtShape(request.portal)
    BY RequestIs DEF Refused
  <2>3. /\ IsPlace(Resolve(request.portal))
        /\ Resolve(request.portal).parent # <<>>
    BY <1>3, <2>2, PlaceIs
  <2> QED BY <1>3, <2>1, <2>3 DEF IsPlace, InSlot
<1>4. request.portal.kind # "standalone"
  BY DEF Refused
<1> QED BY <1>1, <1>2, <1>3, <1>4, RequestIs DEF InSlot

-----------------------------------------------------------------------------
(* The plans, and the ops that they become: of `rem create`, the new Rem, what
   is to be below it, and the portal at last; of `rem move`, the move and,
   unless it leaves one itself, the portal. *)

IsLastPortal(o) ==
    \E p : /\ Found(p) /\ IsPortal(o, p, NewTmp, "portal_rem")
           /\ InSlot => p = Slot0[1] /\ o.poses = <<<<Slot0[2] - 1>>>>

IsBelow(o) ==
    \/ IsText(o, NewTmp) \/ IsBody(o, NewTmp)
    \/ \E r \in Els(request.from) : IsMove(o, r, NewTmp)

OpsOfCreate(os) ==
    /\ IsList(os) /\ os # <<>> /\ IsCreate(os[1], "durable_target")
    /\ \A i \in 2 .. Len(os) :
         IsBelow(os[i]) \/ (request.portal.kind # "none" /\ i = Len(os) /\ IsLastPortal(os[i]))
    /\ Targets =>
         /\ request.from # <<>>
         /\ \A r \in Els(request.from) : \E i \in 2 .. Len(os) : IsMove(os[i], r, NewTmp)
    /\ request.portal.kind # "none" => Len(os) >= 2 /\ IsLastPortal(os[Len(os)])
    /\ InSlot => Targets /\ Slots # {}

OpsOfMove(os) ==
    /\ IsList(os) /\ Len(os) \in {1, 2} /\ IsMoveAway(os[1], request.from[1])
    /\ "leave_portal" \in os[1].flags <=> InSlot
    /\ Len(os) = 2 =>
         ~InSlot /\ \E p : Found(p) /\ IsPortal(os[2], p, request.from[1], "portal_rem")

GoodOps(os) == IF request.do = "create" THEN OpsOfCreate(os) ELSE OpsOfMove(os)

TheRef == Ref("durable_target")
TextStep == Do("rem.children.append", NoName, [rem_id |-> <<TheRef>>], <<>>, {})
BodyStep == Do("write.bullet", NoName, [parent_id |-> <<TheRef>>], <<>>, {})
MoveStep(r) ==
    Do("rem.move", NoName, [rem_id |-> <<r>>, new_parent_id |-> <<TheRef>>],
                 <<>>, {})

LEMMA BelowSteps ==
    /\ IsText(CompiledStep(TextStep), NewTmp) /\ ~MayJoin(TextStep)
    /\ IsBody(CompiledStep(BodyStep), NewTmp) /\ ~MayJoin(BodyStep)
    /\ \A r : Found(r) => /\ IsMove(CompiledStep(MoveStep(r)), r, NewTmp)
                          /\ ~MayJoin(MoveStep(r))
<1>1. Resolved(TheRef) = NewTmp
  BY ResolvedIds DEF TheRef
<1>2. <<>> \in Seq(Nat)
  OBVIOUS
<1>3. IsText(CompiledStep(TextStep), NewTmp) /\ ~MayJoin(TextStep)
  <2>1. "rem.children.append" \notin Joinable
    BY DEF Joinable
  <2>2. ~MayJoin(TextStep)
    BY <2>1, JoinsNot DEF TextStep
  <2> QED BY <1>1, <2>2, CompiledText DEF TextStep
<1>4. IsBody(CompiledStep(BodyStep), NewTmp) /\ ~MayJoin(BodyStep)
  <2> DEFINE ids == [parent_id |-> <<TheRef>>]
             c == CompiledStep(BodyStep)
  <2>1. DOMAIN ids = {"parent_id"} /\ ids["parent_id"] = <<TheRef>>
    OBVIOUS
  <2> HIDE DEF ids
  <2>2. IsCompiled(c, NoName, ids, <<>>, {}) /\ c.type = "create_rem"
    BY <1>2, CompiledDo, OpNames DEF BodyStep, ids
  <2>3. ~MayJoin(BodyStep)
    BY <2>1, JoinsNot DEF BodyStep, ids, TheRef
  <2> HIDE DEF c
  <2>4. IsBody(c, NewTmp)
    BY <1>1, <2>1, <2>2 DEF IsCompiled, IsBody
  <2> QED BY <2>3, <2>4 DEF c
<1>5. ASSUME NEW r, Found(r)
      PROVE  /\ IsMove(CompiledStep(MoveStep(r)), r, NewTmp)
             /\ ~MayJoin(MoveStep(r))
  <2> DEFINE ids == [rem_id |-> <<r>>, new_parent_id |-> <<TheRef>>]
             c == CompiledStep(MoveStep(r))
  <2>1. /\ DOMAIN ids = {"rem_id", "new_parent_id"}
        /\ ids["new_parent_id"] = <<TheRef>> /\ ids["rem_id"] = <<r>>
    OBVIOUS
  <2> HIDE DEF ids
  <2>2. IsCompiled(c, NoName, ids, <<>>, {}) /\ c.type = "move_rem"
    BY <1>2, CompiledDo, OpNames DEF MoveStep, ids
  <2>3. ~MayJoin(MoveStep(r))
    BY <2>1, JoinsNot DEF MoveStep, ids, TheRef
  <2> HIDE DEF c
  <2>4. Resolved(r) = r
    BY <1>5, ResolvedIds
  <2>5. IsMove(c, r, NewTmp)
    BY <1>1, <2>1, <2>2, <2>4 DEF IsCompiled, IsMove
  <2> QED BY <2>3, <2>5 DEF c
<1> QED BY <1>3, <1>4, <1>5

LEMMA PortalStep ==
    ASSUME Asked, outline = Outline0, ~Refused,
           request.portal.kind # "none", InSlot => Slots # {}, NEW t
    PROVE  /\ ~MayJoin(PortalTo(t))
           /\ \E p : /\ Found(p)
                     /\ IsPortal(CompiledStep(PortalTo(t)), p,
                                 Resolved(t), "portal_rem")
                     /\ InSlot =>
                          /\ p = Slot0[1]
                          /\ CompiledStep(PortalTo(t)).poses
                               = <<<<Slot0[2] - 1>>>>
<1> DEFINE to == PortalPlace
           ids == [parent_id |-> to.parent, target_rem_id |-> <<t>>]
           s == PortalTo(t)
           c == CompiledStep(s)
<1>1. /\ to.pos \in Seq(Nat) /\ \E p : Found(p) /\ to.parent = <<p>>
      /\ InSlot => to = [parent |-> <<Slot0[1]>>, pos |-> <<Slot0[2] - 1>>]
  BY PortalPlaceIs
<1>2. PICK p : Found(p) /\ to.parent = <<p>>
  BY <1>1
<1>3. /\ DOMAIN ids = {"parent_id", "target_rem_id"}
      /\ ids["parent_id"] = to.parent /\ ids["target_rem_id"] = <<t>>
  OBVIOUS
<1>4. s = Do("portal.create", "portal_rem", ids, to.pos, {})
  BY DEF PortalTo, PortalRem
<1> HIDE DEF to, ids, s
<1>5. IsCompiled(c, "portal_rem", ids, to.pos, {}) /\ c.type = "create_portal"
  BY <1>1, <1>4, CompiledDo, OpNames
<1>6. ~MayJoin(s)
  <2>1. "portal_rem" # NoName
    BY NamesApart
  <2>2. ~MayJoin(Do("portal.create", "portal_rem", ids, to.pos, {}))
    BY <2>1, JoinsNot, Zenon
  <2> QED BY <1>4, <2>2
<1> HIDE DEF c
<1>7. Resolved(p) = p
  BY <1>2, ResolvedIds
<1>8. IsPortal(c, p, Resolved(t), "portal_rem")
  BY <1>2, <1>3, <1>5, <1>7 DEF IsCompiled, IsPortal
<1>9. InSlot => p = Slot0[1] /\ c.poses = <<<<Slot0[2] - 1>>>>
  BY <1>1, <1>2, <1>5 DEF IsCompiled
<1> QED BY <1>2, <1>6, <1>8, <1>9 DEF c, s

LEMMA FirstStep ==
    ASSUME Asked, outline = Outline0, ~Refused
    PROVE  LET to == Resolve(request.at)
               where == Placed(to, "parent_id")
           IN IsCreate(CompiledStep(Do("write.bullet", "durable_target",
                                       where.ids, to.pos, where.flags)),
                       "durable_target")
<1> DEFINE to == Resolve(request.at)
           where == Placed(to, "parent_id")
           c == CompiledStep(Do("write.bullet", "durable_target",
                                where.ids, to.pos, where.flags))
<1>1. IsPlace(to)
  BY RequestIs, PlaceIs DEF Refused
<1>2. IsCompiled(c, "durable_target", where.ids, to.pos, where.flags) /\ c.type = "create_rem"
  BY <1>1, CompiledDo, OpNames DEF IsPlace
<1> HIDE DEF c, to
<1>3. CASE to.parent = <<>>
  <2>1. DOMAIN where.ids = {} /\ where.flags = {"standalone"}
    BY <1>3 DEF Placed
  <2> HIDE DEF where
  <2> QED BY <1>2, <2>1 DEF IsCompiled, IsCreate, c, to, where
<1>4. CASE \E p : Found(p) /\ to.parent = <<p>>
  <2>1. PICK p : Found(p) /\ to.parent = <<p>>
    BY <1>4
  <2>2. /\ DOMAIN where.ids = {"parent_id"} /\ where.flags = {}
        /\ where.ids["parent_id"] = <<p>>
    BY <2>1 DEF Placed
  <2>3. Resolved(p) = p
    BY <2>1, ResolvedIds
  <2> HIDE DEF where
  <2>4. IsCreate(c, "durable_target")
    BY <1>2, <2>1, <2>2, <2>3 DEF IsCompiled, IsCreate
  <2> QED BY <2>4 DEF c, to, where
<1> QED BY <1>1, <1>3, <1>4 DEF IsPlace

LEMMA InThree ==
    ASSUME NEW a, NEW b, NEW c, IsList(b), IsList(c)
    PROVE  /\ IsList(<<a>> ++ b ++ c) /\ Len(<<a>> ++ b ++ c) = 1 + Len(b) + Len(c)
           /\ (<<a>> ++ b ++ c)[1] = a
           /\ \A i \in 1 .. Len(b) : (<<a>> ++ b ++ c)[1 + i] = b[i]
           /\ \A i \in 1 .. Len(c) : (<<a>> ++ b ++ c)[1 + Len(b) + i] = c[i]
<1> DEFINE S == {a} \cup Els(b) \cup Els(c)
           s == <<a>> ++ b
           t == <<a>> ++ b ++ c
<1>1. <<a>> \in Seq(S) /\ b \in Seq(S) /\ c \in Seq(S)
  BY ListIs
<1>2. Len(b) \in Nat /\ Len(c) \in Nat /\ Len(<<a>>) = 1 /\ <<a>>[1] = a
  BY ListType
<1> HIDE DEF S
<1>3. s \in Seq(S) /\ Len(s) = 1 + Len(b) /\ s[1] = a
      /\ \A i \in 1 .. Len(b) : s[1 + i] = b[i]
  BY <1>1, <1>2 DEF ++
<1> HIDE DEF s
<1>4. t = s ++ c
  BY DEF s
<1>5. t \in Seq(S) /\ Len(t) = Len(s) + Len(c) /\ (\A i \in 1 .. Len(s) : t[i] = s[i])
      /\ \A i \in 1 .. Len(c) : t[Len(s) + i] = c[i]
  BY <1>1, <1>3, <1>4 DEF ++
<1> HIDE DEF t
<1>6. t[1] = a
  BY <1>2, <1>3, <1>5
<1>7. ASSUME NEW i \in 1 .. Len(b) PROVE t[1 + i] = b[i]
  <2>1. 1 + i \in 1 .. Len(s)
    BY <1>2, <1>3
  <2> QED BY <1>3, <1>5, <2>1
<1>8. IsList(t)
  BY <1>5, ListIn
<1>9. \A i \in 1 .. Len(c) : t[1 + Len(b) + i] = c[i]
  BY <1>3, <1>5
<1> QED BY <1>3, <1>5, <1>6, <1>7, <1>8, <1>9 DEF t

LEMMA CompiledOf ==
    ASSUME NEW plan, IsList(plan), \A n \in 2 .. Len(plan) : ~MayJoin(plan[n])
    PROVE  LET os == Compiled(Coalesce(plan))
           IN /\ IsList(os) /\ Len(os) = Len(plan)
              /\ \A i \in 1 .. Len(plan) : os[i] = CompiledStep(plan[i])
<1> DEFINE S == Els(plan)
           C == {CompiledStep(plan[i]) : i \in 1 .. Len(plan)}
           os == [i \in 1 .. Len(plan) |-> CompiledStep(plan[i])]
<1>1. plan \in Seq(S) /\ Len(plan) \in Nat
  BY ListType
<1> HIDE DEF S
<1>2. Coalesce(plan) = plan
  BY <1>1, CoalesceSame
<1>3. Compiled(plan) = os
  BY <1>1 DEF Compiled
<1>4. os \in Seq(C) /\ Len(os) = Len(plan)
      /\ \A i \in 1 .. Len(plan) : os[i] = CompiledStep(plan[i])
  <2>1. \A i \in 1 .. Len(plan) : CompiledStep(plan[i]) \in C
    OBVIOUS
  <2> HIDE DEF C
  <2>2. os \in [1 .. Len(plan) -> C]
    BY <2>1
  <2> QED BY <1>1, <2>2
<1> HIDE DEF os, C
<1> QED BY <1>2, <1>3, <1>4, ListIn

LEMMA BelowAre ==
    ASSUME Asked, outline = Outline0, request.do = "create",
           NEW below,
           below = CASE request.source = "markdown" -> <<TextStep>>
                     [] request.source = "body" -> <<BodyStep>>
                     [] request.source = "text" -> <<>>
                     [] OTHER -> [i \in DOMAIN Ordered |-> MoveStep(Ordered[i])]
    PROVE  /\ IsList(below)
           /\ \A i \in 1 .. Len(below) : /\ ~MayJoin(below[i])
                                         /\ IsBelow(CompiledStep(below[i]))
           /\ Targets =>
                \A r \in Els(request.from) : \E i \in 1 .. Len(below) :
                  IsMove(CompiledStep(below[i]), r, NewTmp)
<1>1. CASE request.source = "markdown"
  <2>1. below = <<TextStep>> /\ ~Targets
    BY <1>1 DEF Targets
  <2>2. Len(<<TextStep>>) = 1 /\ <<TextStep>>[1] = TextStep
    OBVIOUS
  <2>3. \A i \in 1 .. 1 : i = 1
    OBVIOUS
  <2> QED BY <2>1, <2>2, <2>3, ListOfOne, BelowSteps DEF IsBelow
<1>2. CASE request.source = "body"
  <2>1. below = <<BodyStep>> /\ ~Targets
    BY <1>2 DEF Targets
  <2>2. Len(<<BodyStep>>) = 1 /\ <<BodyStep>>[1] = BodyStep
    OBVIOUS
  <2>3. \A i \in 1 .. 1 : i = 1
    OBVIOUS
  <2> QED BY <2>1, <2>2, <2>3, ListOfOne, BelowSteps DEF IsBelow
<1>3. CASE request.source = "text"
  <2>1. below = <<>> /\ ~Targets
    BY <1>3 DEF Targets
  <2>2. Len(<<>>) = 0 /\ 1 .. 0 = {}
    OBVIOUS
  <2> QED BY <2>1, <2>2, NoList
<1>4. CASE request.source \in {"from", "selection"}
  <2> DEFINE s == Ordered
             D == {MoveStep(s[i]) : i \in DOMAIN s}
  <2>1. below = [i \in DOMAIN s |-> MoveStep(s[i])]
    BY <1>4
  <2>2. IsList(s) /\ Els(s) = Els(request.from) /\ s \in Seq(Els(s)) /\ Len(s) \in Nat
    BY OrderedAre, ListType
  <2> HIDE DEF s
  <2>3. DOMAIN s = 1 .. Len(s) /\ \A i \in 1 .. Len(s) : s[i] \in Els(request.from)
    <3> DEFINE E == Els(s)
    <3> HIDE DEF E
    <3>1. s \in Seq(E) /\ E = Els(request.from)
      BY <2>2 DEF E
    <3>2. DOMAIN s = 1 .. Len(s) /\ \A i \in 1 .. Len(s) : s[i] \in E
      BY <3>1
    <3> QED BY <3>1, <3>2
  <2>4. \A r \in Els(request.from) : \E i \in 1 .. Len(s) : s[i] = r
    BY <2>2, <2>3 DEF Els, Range
  <2>5. /\ below \in Seq(D) /\ Len(below) = Len(s)
        /\ \A i \in 1 .. Len(s) : below[i] = MoveStep(s[i])
    <3>1. \A i \in 1 .. Len(s) : MoveStep(s[i]) \in D
      BY <2>3
    <3> HIDE DEF D
    <3>2. below \in [1 .. Len(s) -> D]
      BY <2>1, <2>3, <3>1
    <3>3. \A i \in 1 .. Len(s) : below[i] = MoveStep(s[i])
      BY <2>1, <2>3
    <3>4. Len(s) \in Nat
      BY <2>2
    <3>5. below \in Seq(D) /\ Len(below) = Len(s)
      <4> DEFINE n == Len(s)
      <4> HIDE DEF n, D
      <4>1. n \in Nat /\ below \in [1 .. n -> D]
        BY <3>2, <3>4 DEF n
      <4> DEFINE b == below
      <4> HIDE DEF b
      <4>2. b \in [1 .. n -> D]
        BY <4>1 DEF b
      <4>3. b \in Seq(D) /\ Len(b) = n
        BY <4>1, <4>2
      <4> QED BY <4>3 DEF b, n
    <3> QED BY <3>3, <3>5
  <2>6. IsList(below)
    BY <2>5, ListIn
  <2>7. ASSUME NEW i \in 1 .. Len(below)
        PROVE  /\ ~MayJoin(below[i])
               /\ IsMove(CompiledStep(below[i]), s[i], NewTmp)
    <3>1. Found(s[i]) /\ below[i] = MoveStep(s[i])
      BY <2>3, <2>5, RequestIs
    <3> QED BY <3>1, BelowSteps
  <2>8. ASSUME NEW r \in Els(request.from)
        PROVE  \E i \in 1 .. Len(below) : IsMove(CompiledStep(below[i]), r, NewTmp)
    <3>1. PICK i \in 1 .. Len(s) : s[i] = r
      BY <2>4
    <3>2. i \in 1 .. Len(below)
      BY <2>5
    <3> QED BY <2>7, <3>1, <3>2
  <2>9. \A i \in 1 .. Len(below) : IsBelow(CompiledStep(below[i]))
    BY <2>3, <2>5, <2>7 DEF IsBelow
  <2> QED BY <2>6, <2>7, <2>8, <2>9
<1> QED BY <1>1, <1>2, <1>3, <1>4, RequestIs

LEMMA CreatePlanIs ==
    ASSUME Asked, outline = Outline0, ~Refused, request.do = "create"
    PROVE  OpsOfCreate(Compiled(Coalesce(CreatePlan)))
<1> DEFINE to == Resolve(request.at)
           where == Placed(to, "parent_id")
           first == Do("write.bullet", "durable_target", where.ids, to.pos, where.flags)
           below == CASE request.source = "markdown" -> <<TextStep>>
                     [] request.source = "body" -> <<BodyStep>>
                     [] request.source = "text" -> <<>>
                     [] OTHER -> [i \in DOMAIN Ordered |-> MoveStep(Ordered[i])]
           last == IF request.portal.kind = "none" THEN <<>> ELSE <<PortalTo(TheRef)>>
           plan == <<first>> ++ below ++ last
           os == Compiled(Coalesce(plan))
<1>1. CreatePlan = plan
  BY DEF CreatePlan, ++, TextStep, BodyStep, MoveStep, TheRef, Durable
<1>2. IsCreate(CompiledStep(first), "durable_target")
  BY FirstStep
<1> HIDE DEF first
<1>3. /\ IsList(below)
      /\ \A i \in 1 .. Len(below) : /\ ~MayJoin(below[i])
                                    /\ IsBelow(CompiledStep(below[i]))
      /\ Targets =>
           \A r \in Els(request.from) : \E i \in 1 .. Len(below) :
             IsMove(CompiledStep(below[i]), r, NewTmp)
  <2> HIDE DEF below
  <2> QED BY BelowAre DEF below
<1> HIDE DEF below
<1>4. InSlot => Targets /\ Slots # {}
  BY DEF Refused, InSlot, RangesOf, Slots
<1>5. /\ IsList(last)
      /\ IF request.portal.kind = "none" THEN Len(last) = 0
         ELSE /\ Len(last) = 1 /\ ~MayJoin(last[1])
              /\ IsLastPortal(CompiledStep(last[1]))
  <2>1. CASE request.portal.kind = "none"
    BY <2>1, NoList
  <2>2. CASE request.portal.kind # "none"
    <3> DEFINE s == PortalTo(TheRef)
    <3>1. Resolved(TheRef) = NewTmp
      BY ResolvedIds DEF TheRef
    <3>2. ~MayJoin(s) /\ IsLastPortal(CompiledStep(s))
      BY <1>4, <2>2, <3>1, PortalStep DEF IsLastPortal
    <3>3. last = <<s>> /\ Len(<<s>>) = 1 /\ <<s>>[1] = s
      BY <2>2
    <3> HIDE DEF s, last
    <3> QED BY <2>2, <3>2, <3>3, ListOfOne
  <2> QED BY <2>1, <2>2
<1> HIDE DEF last
<1>6. /\ IsList(plan) /\ Len(plan) = 1 + Len(below) + Len(last) /\ plan[1] = first
      /\ \A i \in 1 .. Len(below) : plan[1 + i] = below[i]
      /\ \A i \in 1 .. Len(last) : plan[1 + Len(below) + i] = last[i]
  BY <1>3, <1>5, InThree
<1>7. Len(below) \in Nat /\ Len(last) \in {0, 1} /\ (Len(last) = 0 <=> request.portal.kind = "none")
  BY <1>3, <1>5, ListType
<1> HIDE DEF plan
<1>8. ASSUME NEW n \in 2 .. Len(plan)
      PROVE  \/ n - 1 \in 1 .. Len(below) /\ plan[n] = below[n - 1]
             \/ /\ request.portal.kind # "none" /\ n = Len(plan) /\ plan[n] = last[1]
  <2>1. CASE n <= 1 + Len(below)
    <3>1. n - 1 \in 1 .. Len(below) /\ 1 + (n - 1) = n
      BY <1>6, <1>7, <2>1
    <3> QED BY <1>6, <3>1
  <2>2. CASE n > 1 + Len(below)
    <3>1. Len(last) = 1 /\ n = 1 + Len(below) + 1 /\ n = Len(plan)
      BY <1>6, <1>7, <2>2
    <3> QED BY <1>6, <1>7, <3>1
  <2> QED BY <1>6, <1>7, <2>1, <2>2
<1>9. \A n \in 2 .. Len(plan) : ~MayJoin(plan[n])
  BY <1>3, <1>5, <1>8
<1>10. /\ IsList(os) /\ Len(os) = Len(plan)
       /\ \A i \in 1 .. Len(plan) : os[i] = CompiledStep(plan[i])
  BY <1>6, <1>9, CompiledOf
<1> HIDE DEF os
<1>11. Len(plan) \in Nat \ {0} /\ os # <<>> /\ os[1] = CompiledStep(first)
  <2>1. Len(plan) \in Nat \ {0}
    BY <1>6, <1>7
  <2>2. 1 \in 1 .. Len(plan) /\ Len(<<>>) = 0
    BY <2>1
  <2>3. os # <<>>
    BY <1>10, <2>1, <2>2
  <2> QED BY <1>6, <1>10, <2>1, <2>2, <2>3
<1>12. ASSUME NEW i \in 2 .. Len(os)
       PROVE  IsBelow(os[i])
              \/ (request.portal.kind # "none" /\ i = Len(os) /\ IsLastPortal(os[i]))
  <2>1. i \in 2 .. Len(plan) /\ i \in 1 .. Len(plan)
    BY <1>10, <1>11
  <2>2. os[i] = CompiledStep(plan[i])
    BY <1>10, <2>1
  <2> QED BY <1>3, <1>5, <1>8, <1>10, <2>1, <2>2
<1>13. ASSUME Targets, NEW r \in Els(request.from)
       PROVE  \E i \in 2 .. Len(os) : IsMove(os[i], r, NewTmp)
  <2>1. PICK i \in 1 .. Len(below) : IsMove(CompiledStep(below[i]), r, NewTmp)
    BY <1>3, <1>13
  <2>2. 1 + i \in 2 .. Len(os) /\ 1 + i \in 1 .. Len(plan)
    BY <1>6, <1>7, <1>10
  <2>3. os[1 + i] = CompiledStep(below[i])
    BY <1>6, <1>10, <2>2
  <2> QED BY <2>1, <2>2, <2>3
<1>14. Targets => request.from # <<>>
  BY DEF Refused
<1>15. ASSUME request.portal.kind # "none"
       PROVE  Len(os) >= 2 /\ IsLastPortal(os[Len(os)])
  <2>1. Len(last) = 1 /\ Len(os) = 1 + Len(below) + 1 /\ Len(os) >= 2 /\ Len(os) \in 1 .. Len(plan)
    BY <1>6, <1>7, <1>10, <1>15
  <2>2. os[Len(os)] = CompiledStep(last[1])
    BY <1>6, <1>10, <2>1
  <2> QED BY <1>5, <1>15, <2>1, <2>2
<1>16. OpsOfCreate(os)
  BY <1>2, <1>4, <1>10, <1>11, <1>12, <1>13, <1>14, <1>15 DEF OpsOfCreate
<1> QED BY <1>1, <1>16 DEF os

LEMMA MovePlanIs ==
    ASSUME Asked, outline = Outline0, ~Refused, request.do = "move"
    PROVE  OpsOfMove(Compiled(Coalesce(MovePlan)))
<1> DEFINE to == Resolve(request.at)
           where == Placed(to, "new_parent_id")
           leave == IF request.portal.kind = "in_place" THEN {"leave_portal"} ELSE {}
           ids == [p \in DOMAIN where.ids \cup {"rem_id"} |->
                     IF p = "rem_id" THEN request.from ELSE where.ids[p]]
           r == request.from[1]
           flags == where.flags \cup leave
           first == Do("rem.move", NoName, ids, to.pos, flags)
           last == IF request.portal.kind \in {"none", "in_place"} THEN <<>>
                   ELSE <<PortalTo(r)>>
           plan == <<first>> ++ <<>> ++ last
           os == Compiled(Coalesce(plan))
           c == CompiledStep(first)
<1>1. IsList(last) /\ Len(last) \in {0, 1}
  BY NoList, ListOfOne
<1>2. MovePlan = plan
  <2>1. MovePlan = <<first>> ++ last
    BY DEF MovePlan, ++
  <2> HIDE DEF first, last
  <2>2. IsList(<<first>>)
    BY ListOfOne
  <2> QED BY <2>1, <2>2, WithNothing
<1>3. request.from = <<r>> /\ Found(r)
  <2>1. request.from \in Seq(Els(request.from)) /\ Len(request.from) = 1
    BY RequestIs, ListType
  <2>2. r \in Els(request.from)
    BY <2>1
  <2> QED BY <2>1, <2>2, RequestIs
<1> HIDE DEF r
<1>4. IsPlace(to)
  BY RequestIs, PlaceIs DEF Refused
<1> HIDE DEF to
<1>5. IsCompiled(c, NoName, ids, to.pos, flags) /\ c.type = "move_rem"
  BY <1>4, CompiledDo, OpNames DEF IsPlace
<1>6. ids["rem_id"] = <<r>> /\ DOMAIN ids = DOMAIN where.ids \cup {"rem_id"}
      /\ \A p \in DOMAIN where.ids : p # "rem_id" => ids[p] = where.ids[p]
  BY <1>3
<1>7. Resolved(r) = r
  BY <1>3, ResolvedIds
<1> HIDE DEF first, c, ids
<1>8. IsMoveAway(c, r) /\ ("leave_portal" \in c.flags <=> InSlot)
  <2>1. CASE to.parent = <<>>
    <3>1. DOMAIN where.ids = {} /\ where.flags = {"standalone"}
      BY <2>1 DEF Placed
    <3>2. DOMAIN ids = {"rem_id"}
      BY <1>6, <3>1
    <3>3. c.flags = {"standalone"} \cup leave
      BY <1>5, <3>1 DEF IsCompiled
    <3>4. DOMAIN c.ids = {"rem_id"} /\ c.ids["rem_id"] = <<r>>
      BY <1>5, <1>6, <1>7, <3>2 DEF IsCompiled
    <3> QED BY <1>5, <3>3, <3>4 DEF IsCompiled, IsMoveAway, InSlot
  <2>2. CASE \E p : Found(p) /\ to.parent = <<p>>
    <3>1. PICK p : Found(p) /\ to.parent = <<p>>
      BY <2>2
    <3>2. DOMAIN where.ids = {"new_parent_id"} /\ where.ids["new_parent_id"] = <<p>>
          /\ where.flags = {}
      BY <3>1 DEF Placed
    <3>3. DOMAIN ids = {"new_parent_id", "rem_id"} /\ ids["new_parent_id"] = <<p>>
      BY <1>6, <3>2
    <3>4. c.flags = leave
      BY <1>5, <3>2 DEF IsCompiled
    <3>5. Resolved(p) = p
      BY <3>1, ResolvedIds
    <3>6. /\ DOMAIN c.ids = {"rem_id", "new_parent_id"} /\ c.ids["rem_id"] = <<r>>
          /\ c.ids["new_parent_id"] = <<p>>
      BY <1>5, <1>6, <1>7, <3>3, <3>5 DEF IsCompiled
    <3> QED BY <1>5, <3>1, <3>4, <3>6 DEF IsCompiled, IsMoveAway, InSlot
  <2> QED BY <1>4, <2>1, <2>2 DEF IsPlace
<1>9. ASSUME Len(last) = 1
      PROVE  /\ ~InSlot /\ ~MayJoin(last[1])
             /\ \E p : Found(p) /\ IsPortal(CompiledStep(last[1]), p, r, "portal_rem")
  <2>1. request.portal.kind \notin {"none", "in_place"}
    BY <1>9
  <2>2. ~InSlot
    BY <2>1 DEF InSlot
  <2>3. last = <<PortalTo(r)>> /\ last[1] = PortalTo(r)
    BY <2>1
  <2> HIDE DEF last
  <2> QED BY <1>7, <2>1, <2>2, <2>3, PortalStep
<1> HIDE DEF last
<1>10. /\ IsList(plan) /\ Len(plan) = 1 + Len(last) /\ plan[1] = first
       /\ \A i \in 1 .. Len(last) : plan[1 + i] = last[i]
  <2>1. IsList(<<>>) /\ Len(<<>>) = 0
    BY NoList
  <2>2. /\ IsList(plan) /\ Len(plan) = 1 + 0 + Len(last) /\ plan[1] = first
        /\ \A i \in 1 .. Len(last) : plan[1 + 0 + i] = last[i]
    BY <1>1, <2>1, InThree
  <2> HIDE DEF plan
  <2> QED BY <1>1, <2>2
<1> HIDE DEF plan
<1>11. ASSUME NEW n \in 2 .. Len(plan) PROVE n = 2 /\ Len(last) = 1 /\ plan[n] = last[1]
  BY <1>1, <1>10
<1>12. /\ IsList(os) /\ Len(os) = Len(plan)
       /\ \A i \in 1 .. Len(plan) : os[i] = CompiledStep(plan[i])
  BY <1>9, <1>10, <1>11, CompiledOf
<1> HIDE DEF os
<1>13. os[1] = c
  BY <1>1, <1>10, <1>12 DEF c
<1>14. /\ Len(os) \in {1, 2}
       /\ Len(os) = 2 => Len(last) = 1 /\ os[2] = CompiledStep(last[1])
  BY <1>1, <1>10, <1>12
<1>15. OpsOfMove(os)
  BY <1>8, <1>9, <1>12, <1>13, <1>14 DEF OpsOfMove, r
<1> QED BY <1>2, <1>15 DEF os

-----------------------------------------------------------------------------
(* What an op of these plans does to the children, when it makes something of
   the name m, or of none. *)

Fresh(m) == IF m = NoName THEN NewText ELSE NewOne
FreshPortal(m, r) == IF m = NoName THEN PortalOf(r) ELSE ThePortal

CreateDoes(i, m, K, L) ==
    \/ (i = 1 \/ IsText(ops[i], NewTmp)) /\ L = K
    \/ /\ i = 1
       /\ \E p : \E n \in Nat :
            Found(p) /\ L = PutIn(K, Fresh(m), p, n)
    \/ i # 1 /\ IsBody(ops[i], NewTmp) /\ \E n \in Nat : L = PutIn(K, NewText, NewOne, n)
    \/ /\ i # 1
       /\ \E r \in Els(request.from) : \E n \in Nat :
            IsMove(ops[i], r, NewTmp) /\ L = MoveTo(K, r, NewOne, n)
    \/ /\ i # 1 /\ i = Len(ops) /\ IsLastPortal(ops[i])
       /\ \E p : \E n \in Nat :
            /\ Found(p) /\ (InSlot => p = Slot0[1] /\ n = Slot0[2] - 1)
            /\ L = PutIn(K, FreshPortal(m, NewOne), p, n)

MoveDoes(i, m, leaves, K, L) ==
    LET r == request.from[1] IN
    \/ i = 1 /\ \E M : /\ Moved(M, K, r)
                       /\ IF leaves /\ Where(K, r) # {}
                          THEN \E p : \E n \in Nat : L = PutIn(M, PortalOf(r), p, n)
                          ELSE L = M
    \/ /\ i = 2 /\ ~InSlot /\ ops[i].type = "create_portal"
       /\ \E p : \E n \in Nat :
            L = PutIn(K, FreshPortal(m, r), p, n)

LEMMA FreshIs ==
    /\ \A m : Fresh(m) \in {NewOne, NewText}
    /\ \A m, r : FreshPortal(m, r) \in {PortalOf(r), ThePortal}
    /\ \A m : m # NoName => Fresh(m) = NewOne
    /\ \A m, r : m # NoName => FreshPortal(m, r) = ThePortal
  BY DEF Fresh, FreshPortal

PlainOp(o) ==
    /\ IsOp(o) /\ DOMAIN o.ids \subseteq PlainPaths /\ "is_document" \notin o.flags
    /\ DOMAIN o.ids \subseteq IdFields(o.type)

LEMMA ArePlain ==
    /\ \A o, m : IsCreate(o, m) => PlainOp(o)
    /\ \A o, d : IsText(o, d) => PlainOp(o)
    /\ \A o, d : IsBody(o, d) => PlainOp(o)
    /\ \A o, r, d : IsMove(o, r, d) => PlainOp(o)
    /\ \A o, p, t, m : IsPortal(o, p, t, m) => PlainOp(o)
    /\ \A o, r : IsMoveAway(o, r) => PlainOp(o)
<1> USE DEF PlainOp, PlainPaths
<1>1. \A o, m : IsCreate(o, m) => PlainOp(o)
  BY IdFieldsOf DEF IsCreate
<1>2. \A o, d : IsText(o, d) => PlainOp(o)
  BY IdFieldsOf DEF IsText
<1>3. \A o, d : IsBody(o, d) => PlainOp(o)
  BY IdFieldsOf DEF IsBody
<1>4. \A o, r, d : IsMove(o, r, d) => PlainOp(o)
  BY IdFieldsOf DEF IsMove
<1>5. \A o, p, t, m : IsPortal(o, p, t, m) => PlainOp(o)
  BY IdFieldsOf DEF IsPortal
<1>6. \A o, r : IsMoveAway(o, r) => PlainOp(o)
  BY IdFieldsOf DEF IsMoveAway
<1> QED BY <1>1, <1>2, <1>3, <1>4, <1>5, <1>6

LEMMA OpsArePlain ==
    ASSUME GoodOps(ops), Asked, NEW i \in DOMAIN ops
    PROVE  i \in 1 .. Len(ops) /\ Len(ops) \in Nat /\ PlainOp(ops[i])
<1>1. IsList(ops)
  BY DEF GoodOps, OpsOfCreate, OpsOfMove
<1>2. i \in 1 .. Len(ops) /\ Len(ops) \in Nat /\ (i = 1 \/ i \in 2 .. Len(ops))
  <2>1. ops \in Seq(Els(ops)) /\ Len(ops) \in Nat
    BY <1>1, ListType
  <2> QED BY <2>1
<1>3. CASE request.do = "create"
  BY <1>2, <1>3, ArePlain DEF GoodOps, OpsOfCreate, IsBelow, IsLastPortal
<1>4. CASE request.do # "create"
  <2>1. i = 1 \/ (i = 2 /\ Len(ops) = 2)
    BY <1>2, <1>4 DEF GoodOps, OpsOfMove
  <2> QED BY <1>2, <1>4, <2>1, ArePlain DEF GoodOps, OpsOfMove
<1> QED BY <1>2, <1>3, <1>4

(* An op without its name, or without the portal that it leaves. *)
Making(o, m) == [o EXCEPT !.makes = m]
Flagged(o, f) == [o EXCEPT !.flags = f]

LEMMA ChangedOp ==
    ASSUME NEW o, IsOp(o)
    PROVE  /\ \A m : /\ IsOp(Making(o, m)) /\ Making(o, m).type = o.type
                     /\ Making(o, m).ids = o.ids /\ Making(o, m).poses = o.poses
                     /\ Making(o, m).flags = o.flags /\ Making(o, m).makes = m
           /\ \A f : /\ IsOp(Flagged(o, f)) /\ Flagged(o, f).type = o.type
                     /\ Flagged(o, f).ids = o.ids /\ Flagged(o, f).poses = o.poses
                     /\ Flagged(o, f).flags = f /\ Flagged(o, f).makes = o.makes
<1> SUFFICES ASSUME NEW m, NEW f
             PROVE  LET u == Making(o, m)
                        w == Flagged(o, f)
                    IN /\ IsOp(u) /\ u.type = o.type /\ u.ids = o.ids /\ u.poses = o.poses
                       /\ u.flags = o.flags /\ u.makes = m
                       /\ IsOp(w) /\ w.type = o.type /\ w.ids = o.ids /\ w.poses = o.poses
                       /\ w.flags = f /\ w.makes = o.makes
  BY Zenon
<1> USE DEF Making, Flagged
<1> DEFINE u == [o EXCEPT !.makes = m]
           w == [o EXCEPT !.flags = f]
<1>1. o = [type |-> o.type, ids |-> o.ids, poses |-> o.poses, words |-> o.words,
           flags |-> o.flags, makes |-> o.makes]
  BY DEF IsOp
<1>2. u = [type |-> o.type, ids |-> o.ids, poses |-> o.poses, words |-> o.words,
           flags |-> o.flags, makes |-> m]
  <2>1. /\ DOMAIN o = {"type", "ids", "poses", "words", "flags", "makes"}
    BY <1>1
  <2> QED BY <2>1
<1>3. w = [type |-> o.type, ids |-> o.ids, poses |-> o.poses, words |-> o.words,
           flags |-> f, makes |-> o.makes]
  <2>1. /\ DOMAIN o = {"type", "ids", "poses", "words", "flags", "makes"}
    BY <1>1
  <2> QED BY <2>1
<1> HIDE DEF u, w
<1>4. IsOp(u) /\ u.type = o.type /\ u.ids = o.ids /\ u.poses = o.poses /\ u.flags = o.flags
      /\ u.makes = m
  BY <1>2 DEF IsOp
<1>5. IsOp(w) /\ w.type = o.type /\ w.ids = o.ids /\ w.poses = o.poses /\ w.flags = f
      /\ w.makes = o.makes
  BY <1>3 DEF IsOp
<1> QED BY <1>4, <1>5 DEF u, w

(* As RemNote gets the i-th op. *)
TheOp(i, m) ==
    IF m = ops[i].makes THEN Substituted(ops[i])
    ELSE [Substituted(ops[i]) EXCEPT !.makes = m]

LEMMA TheOpIs ==
    ASSUME NEW i, IsOp(ops[i]), DOMAIN ops[i].ids \subseteq IdFields(ops[i].type), NEW m
    PROVE  /\ IsOp(TheOp(i, m)) /\ TheOp(i, m).type = ops[i].type
           /\ TheOp(i, m).flags = ops[i].flags /\ TheOp(i, m).makes = m
           /\ TheOp(i, m).poses = ops[i].poses /\ DOMAIN TheOp(i, m).ids = DOMAIN ops[i].ids
           /\ \A p \in DOMAIN ops[i].ids : \A v :
                ops[i].ids[p] = <<v>> => TheOp(i, m).ids[p] = <<RealId(v)>>
<1> DEFINE s == Substituted(ops[i])
<1>1. /\ IsOp(s) /\ s.type = ops[i].type /\ s.flags = ops[i].flags /\ s.makes = ops[i].makes
      /\ s.poses = ops[i].poses /\ DOMAIN s.ids = DOMAIN ops[i].ids
      /\ \A p \in DOMAIN ops[i].ids : \A v :
           ops[i].ids[p] = <<v>> => s.ids[p] = <<RealId(v)>>
  BY SubstitutedOp
<1> HIDE DEF s
<1>2. CASE m = ops[i].makes
  <2>1. TheOp(i, m) = s
    BY <1>2 DEF TheOp, s
  <2> QED BY <1>1, <1>2, <2>1
<1>3. CASE m # ops[i].makes
  <2> DEFINE u == Making(s, m)
  <2>1. TheOp(i, m) = u
    BY <1>3 DEF TheOp, s, Making
  <2>2. /\ IsOp(u) /\ u.type = s.type /\ u.ids = s.ids /\ u.poses = s.poses
        /\ u.flags = s.flags /\ u.makes = m
    BY <1>1, ChangedOp
  <2> HIDE DEF u
  <2> QED BY <1>1, <2>1, <2>2
<1> QED BY <1>2, <1>3

LEMMA TheCreate ==
    ASSUME NEW i, NEW m0, IsCreate(ops[i], m0), NEW m PROVE IsCreate(TheOp(i, m), m)
<1>1. PlainOp(ops[i])
  BY ArePlain
<1> DEFINE s == TheOp(i, m)
<1>2. /\ IsOp(s) /\ s.type = ops[i].type /\ s.flags = ops[i].flags /\ s.makes = m
      /\ DOMAIN s.ids = DOMAIN ops[i].ids
      /\ \A p \in DOMAIN ops[i].ids : \A v :
           ops[i].ids[p] = <<v>> => s.ids[p] = <<RealId(v)>>
  BY <1>1, TheOpIs DEF PlainOp
<1> HIDE DEF s
<1> QED BY <1>2, RealIds DEF IsCreate, s

LEMMA TheBelow ==
    ASSUME NEW i, "durable_target" \in made
    PROVE  /\ IsText(ops[i], NewTmp) => IsText(TheOp(i, NoName), NewOne)
           /\ IsBody(ops[i], NewTmp) => IsBody(TheOp(i, NoName), NewOne)
           /\ \A r : Found(r) /\ IsMove(ops[i], r, NewTmp) =>
                IsMove(TheOp(i, NoName), r, NewOne)
<1> DEFINE s == TheOp(i, NoName)
<1>1. ASSUME PlainOp(ops[i])
      PROVE  /\ IsOp(s) /\ s.type = ops[i].type /\ s.flags = ops[i].flags
             /\ s.makes = NoName
             /\ DOMAIN s.ids = DOMAIN ops[i].ids
             /\ \A p \in DOMAIN ops[i].ids : \A v :
                  ops[i].ids[p] = <<v>> => s.ids[p] = <<RealId(v)>>
  BY <1>1, TheOpIs DEF PlainOp
<1>2. RealId(NewTmp) = NewOne /\ \A r : Found(r) => RealId(r) = r
  BY RealIds
<1> HIDE DEF s
<1>3. IsText(ops[i], NewTmp) => IsText(s, NewOne)
  BY <1>1, <1>2, ArePlain DEF IsText
<1>4. IsBody(ops[i], NewTmp) => IsBody(s, NewOne)
  BY <1>1, <1>2, ArePlain DEF IsBody
<1>5. ASSUME NEW r, Found(r), IsMove(ops[i], r, NewTmp) PROVE IsMove(s, r, NewOne)
  BY <1>1, <1>2, <1>5, ArePlain DEF IsMove
<1> QED BY <1>3, <1>4, <1>5 DEF s

LEMMA ThePortalOp ==
    ASSUME NEW i, NEW p, Found(p), NEW t, NEW m0, IsPortal(ops[i], p, t, m0), NEW m
    PROVE  IsPortal(TheOp(i, m), p, RealId(t), m) /\ TheOp(i, m).poses = ops[i].poses
<1>1. PlainOp(ops[i])
  BY ArePlain
<1> DEFINE s == TheOp(i, m)
<1>2. /\ IsOp(s) /\ s.type = ops[i].type /\ s.flags = ops[i].flags /\ s.makes = m
      /\ s.poses = ops[i].poses /\ DOMAIN s.ids = DOMAIN ops[i].ids
      /\ \A q \in DOMAIN ops[i].ids : \A v :
           ops[i].ids[q] = <<v>> => s.ids[q] = <<RealId(v)>>
  BY <1>1, TheOpIs DEF PlainOp
<1>3. RealId(p) = p
  BY RealIds
<1> HIDE DEF s
<1> QED BY <1>2, <1>3 DEF IsPortal, s

LEMMA TheMoveAway ==
    ASSUME NEW i, NEW r, Found(r), IsMoveAway(ops[i], r)
    PROVE  /\ IsMoveAway(TheOp(i, NoName), r)
           /\ TheOp(i, NoName).flags = ops[i].flags
<1>1. TheOp(i, NoName) = Substituted(ops[i])
  BY DEF TheOp, IsMoveAway
<1> QED BY <1>1, SubstitutedAway

LEMMA CreateOpDoes ==
    ASSUME Asked, OpsOfCreate(ops), NEW i \in 1 .. Len(ops),
           i # 1 => "durable_target" \in made,
           NEW m, m \in {NoName, ops[i].makes}, NEW K
    PROVE  CreateDoes(i, m, K, Children(TheOp(i, m), K, 1))
<1> DEFINE L == Children(TheOp(i, m), K, 1)
<1>1. CASE i = 1
  <2>1. IsCreate(ops[1], "durable_target") /\ ops[1].makes = "durable_target"
    BY DEF OpsOfCreate, IsCreate
  <2>2. IsCreate(TheOp(i, m), m)
    BY <1>1, <2>1, TheCreate
  <2>3. \/ L = K
        \/ \E p : \E n \in Nat :
             /\ Found(p)
             /\ L = PutIn(K, IF m = NoName THEN NewText ELSE Rem(m), p, n)
    BY <2>2, CreateEffect
  <2>4. (IF m = NoName THEN NewText ELSE Rem(m)) = Fresh(m)
    BY <1>1, <2>1 DEF NewOne, Fresh
  <2> HIDE DEF L
  <2>5. CreateDoes(i, m, K, L)
    BY <1>1, <2>3, <2>4 DEF CreateDoes
  <2> QED BY <2>5 DEF L
<1>2. CASE i # 1 /\ IsText(ops[i], NewTmp)
  <2>1. m = NoName
    BY <1>2 DEF IsText
  <2>2. IsText(TheOp(i, NoName), NewOne)
    BY <1>2, TheBelow
  <2>3. L = K
    BY <2>1, <2>2, TextEffect
  <2> HIDE DEF L
  <2>4. CreateDoes(i, m, K, L)
    BY <1>2, <2>3 DEF CreateDoes
  <2> QED BY <2>4 DEF L
<1>3. CASE i # 1 /\ IsBody(ops[i], NewTmp)
  <2>1. m = NoName
    BY <1>3 DEF IsBody
  <2>2. IsBody(TheOp(i, NoName), NewOne)
    BY <1>3, TheBelow
  <2>3. \E n \in Nat : L = PutIn(K, NewText, NewOne, n)
    BY <2>1, <2>2, BodyEffect
  <2> HIDE DEF L
  <2>4. CreateDoes(i, m, K, L)
    BY <1>3, <2>3 DEF CreateDoes
  <2> QED BY <2>4 DEF L
<1>4. CASE i # 1 /\ \E r \in Els(request.from) : IsMove(ops[i], r, NewTmp)
  <2>1. PICK r \in Els(request.from) : IsMove(ops[i], r, NewTmp)
    BY <1>4
  <2>2. m = NoName
    BY <2>1 DEF IsMove
  <2>3. IsMove(TheOp(i, NoName), r, NewOne)
    BY <1>4, <2>1, TheBelow, RequestIs
  <2>4. \E n \in Nat : L = MoveTo(K, r, NewOne, n)
    BY <2>2, <2>3, MoveEffect
  <2> HIDE DEF L
  <2>5. CreateDoes(i, m, K, L)
    BY <1>4, <2>1, <2>4 DEF CreateDoes
  <2> QED BY <2>5 DEF L
<1>5. CASE i # 1 /\ i = Len(ops) /\ IsLastPortal(ops[i])
  <2>1. PICK p : /\ Found(p) /\ IsPortal(ops[i], p, NewTmp, "portal_rem")
                 /\ InSlot => p = Slot0[1] /\ ops[i].poses = <<<<Slot0[2] - 1>>>>
    BY <1>5 DEF IsLastPortal
  <2>2. ops[i].makes = "portal_rem"
    BY <2>1 DEF IsPortal
  <2>3. RealId(NewTmp) = NewOne
    BY <1>5, RealIds
  <2>4. IsPortal(TheOp(i, m), p, NewOne, m) /\ TheOp(i, m).poses = ops[i].poses
    BY <2>1, <2>3, ThePortalOp
  <2>5. PICK n \in Nat :
          /\ \A k \in Nat : TheOp(i, m).poses = <<<<k>>>> => n = k
          /\ L = PutIn(K, IF m = NoName THEN PortalOf(NewOne) ELSE Rem(m), p, n)
    BY <2>4, PortalEffect
  <2>6. (IF m = NoName THEN PortalOf(NewOne) ELSE Rem(m))
          = FreshPortal(m, NewOne)
    BY <2>2 DEF ThePortal, FreshPortal
  <2>7. InSlot => n = Slot0[2] - 1
    <3>1. InSlot => Slots # {} /\ IsList(Sources)
      BY RequestIs, SourcesAre DEF OpsOfCreate
    <3>2. InSlot => Slot0[2] - 1 \in Nat
      <4>1. InSlot => Slot0[2] \in Nat \ {0}
        BY <3>1, SlotIs
      <4> QED BY <4>1
    <3> QED BY <2>1, <2>4, <2>5, <3>2
  <2> HIDE DEF L
  <2>8. L = PutIn(K, FreshPortal(m, NewOne), p, n)
    BY <2>5, <2>6
  <2>9. CreateDoes(i, m, K, L)
    BY <1>5, <2>1, <2>7, <2>8 DEF CreateDoes
  <2> QED BY <2>9 DEF L
<1>6. i = 1 \/ (i \in 2 .. Len(ops) /\ i # 1)
  BY ListType DEF OpsOfCreate
<1> QED BY <1>1, <1>2, <1>3, <1>4, <1>5, <1>6 DEF OpsOfCreate, IsBelow

LEMMA SourceOfMove ==
    ASSUME Asked, request.do = "move"
    PROVE  Found(request.from[1]) /\ request.from = <<request.from[1]>>
           /\ Els(request.from) = {request.from[1]}
<1>1. request.from \in Seq(Els(request.from)) /\ Len(request.from) = 1
  BY RequestIs, ListType
<1>2. request.from = <<request.from[1]>>
  BY <1>1
<1>3. Els(request.from) = {request.from[1]}
  BY <1>2, ListOfOne
<1> QED BY <1>2, <1>3, RequestIs

LEMMA MoveOpDoes ==
    ASSUME Asked, request.do = "move", OpsOfMove(ops), NEW i \in 1 .. Len(ops),
           NEW m, m \in {NoName, ops[i].makes}, NEW K, AreLists(K)
    PROVE  MoveDoes(i, m, "leave_portal" \in ops[i].flags, K,
                    Children(TheOp(i, m), K, 1))
<1> DEFINE L == Children(TheOp(i, m), K, 1)
           r == request.from[1]
<1>1. Found(r)
  BY SourceOfMove
<1> HIDE DEF r
<1>2. CASE i = 1
  <2>1. IsMoveAway(ops[i], r) /\ m = NoName
    BY <1>2 DEF OpsOfMove, IsMoveAway, r
  <2>2. IsMoveAway(TheOp(i, m), r) /\ TheOp(i, m).flags = ops[i].flags
    BY <1>1, <2>1, TheMoveAway
  <2>3. \E M : /\ Moved(M, K, r)
               /\ IF "leave_portal" \notin TheOp(i, m).flags \/ Where(K, r) = {}
                  THEN L = M
                  ELSE \E p : \E n \in Nat : L = PutIn(M, PortalOf(r), p, n)
    BY <2>2, AwayEffect
  <2> HIDE DEF L
  <2>4. MoveDoes(i, m, "leave_portal" \in ops[i].flags, K, L)
    BY <1>2, <2>2, <2>3 DEF MoveDoes, r
  <2> QED BY <2>4 DEF L
<1>3. CASE i = 2 /\ Len(ops) = 2
  <2>1. PICK p : Found(p) /\ IsPortal(ops[i], p, r, "portal_rem")
    BY <1>3 DEF OpsOfMove, r
  <2>2. ops[i].makes = "portal_rem" /\ ops[i].type = "create_portal" /\ RealId(r) = r
    BY <1>1, <2>1, RealIds DEF IsPortal
  <2>3. IsPortal(TheOp(i, m), p, r, m)
    BY <2>1, <2>2, ThePortalOp
  <2>4. PICK n \in Nat :
          L = PutIn(K, IF m = NoName THEN PortalOf(r) ELSE Rem(m),
                              p, n)
    BY <2>3, PortalEffect
  <2>5. (IF m = NoName THEN PortalOf(r) ELSE Rem(m)) = FreshPortal(m, r)
    BY <2>2 DEF ThePortal, FreshPortal
  <2> HIDE DEF L
  <2>6. L = PutIn(K, FreshPortal(m, r), p, n)
    BY <2>4, <2>5
  <2>7. ~InSlot
    BY <1>3 DEF OpsOfMove
  <2>8. MoveDoes(i, m, "leave_portal" \in ops[i].flags, K, L)
    BY <1>3, <2>2, <2>6, <2>7 DEF MoveDoes, r
  <2> QED BY <2>8 DEF L
<1>4. i = 1 \/ (i = 2 /\ Len(ops) = 2)
  <2> DEFINE n == Len(ops)
  <2>1. n \in {1, 2} /\ i \in 1 .. n
    BY DEF OpsOfMove
  <2> HIDE DEF n
  <2>2. i = 1 \/ (i = 2 /\ n = 2)
    BY <2>1
  <2> QED BY <2>2 DEF n
<1> QED BY <1>2, <1>3, <1>4

(* What stays as it is, whichever op it is. *)
LEMMA PortalsApart ==
    ASSUME NEW v \in Portals0
    PROVE  ~Found(v) /\ v # NewOne /\ v # NewText
<1>1. v = ThePortal \/ \E r : v = PortalOf(r)
  BY DEF Portals0, ThePortal, PortalOf, PortalRem
<1> QED BY <1>1, FoundApart, NewApart

LEMMA CreateCases ==
    ASSUME NEW i, NEW m, NEW K, NEW L, CreateDoes(i, m, K, L)
    PROVE  \/ L = K
           \/ \E x \in {NewOne, NewText} : \E p : \E n \in Nat : L = PutIn(K, x, p, n)
           \/ /\ IsLastPortal(ops[i])
              /\ \E x \in {PortalOf(NewOne), ThePortal} : \E p : \E n \in Nat :
                   L = PutIn(K, x, p, n)
           \/ \E q \in Els(request.from) : \E n \in Nat : L = MoveTo(K, q, NewOne, n)
<1> DEFINE Made(x) == \E p : \E n \in Nat : L = PutIn(K, x, p, n)
           Moving(q) == \E n \in Nat : L = MoveTo(K, q, NewOne, n)
<1>1. \/ L = K \/ Made(Fresh(m)) \/ Made(NewText)
      \/ IsLastPortal(ops[i]) /\ Made(FreshPortal(m, NewOne))
      \/ \E q \in Els(request.from) : Moving(q)
  BY Zenon DEF CreateDoes
<1> HIDE DEF Made, Moving
<1>2. \/ L = K \/ \E x \in {NewOne, NewText} : Made(x)
      \/ IsLastPortal(ops[i]) /\ \E x \in {PortalOf(NewOne), ThePortal} : Made(x)
      \/ \E q \in Els(request.from) : Moving(q)
  BY <1>1, FreshIs
<1> QED BY <1>2 DEF Made, Moving

LEMMA CreateKeeps ==
    ASSUME Asked, NEW i, NEW m, NEW K, AreLists(K), NEW L, CreateDoes(i, m, K, L)
    PROVE  /\ AreLists(L)
           /\ Where(K, ThePortal) # {} => Where(L, ThePortal) # {}
           /\ \A r \in Els(request.from) : Where(K, r) = {NewOne} => Where(L, r) = {NewOne}
<1> DEFINE Kept == /\ AreLists(L)
                   /\ Where(K, ThePortal) # {} => Where(L, ThePortal) # {}
                   /\ \A r \in Els(request.from) : Where(K, r) = {NewOne} => Where(L, r) = {NewOne}
<1>1. \A r \in Els(request.from) :
        r # NewOne /\ r # NewText /\ r # ThePortal /\ \A t : r # PortalOf(t)
  BY RequestIs, FoundApart
<1>2. ASSUME NEW x, x \in {NewOne, NewText, ThePortal, PortalOf(NewOne)}, NEW p, NEW n \in Nat,
             L = PutIn(K, x, p, n)
      PROVE  Kept
  <2>1. \A v : Where(L, v) = Where(K, v) \cup (IF v = x THEN {p} ELSE {})
    BY <1>2, PutInWhere
  <2>2. AreLists(L)
    BY <1>2, PutInIs DEF IsPutIn
  <2>3. \A r \in Els(request.from) : r # x
    BY <1>1, <1>2
  <2> QED BY <2>1, <2>2, <2>3
<1>3. ASSUME NEW q \in Els(request.from), NEW n \in Nat, L = MoveTo(K, q, NewOne, n)
      PROVE  Kept
  <2>1. IsMovedTo(L, K, q, NewOne)
    BY <1>3, MoveToIs
  <2>2. AreLists(L) /\ \A v : Where(L, v) = IF v = q THEN {NewOne} ELSE Where(K, v)
    BY <2>1 DEF IsMovedTo
  <2> QED BY <1>1, <2>2
<1>4. ASSUME L = K PROVE Kept
  BY <1>4
<1> HIDE DEF Kept
<1>5. Kept
  <2>1. \/ L = K
        \/ \E x \in {NewOne, NewText} : \E p : \E n \in Nat : L = PutIn(K, x, p, n)
        \/ \E x \in {PortalOf(NewOne), ThePortal} : \E p : \E n \in Nat :
             L = PutIn(K, x, p, n)
        \/ \E q \in Els(request.from) : \E n \in Nat : L = MoveTo(K, q, NewOne, n)
    BY CreateCases
  <2>2. CASE \E x \in {NewOne, NewText} : \E p : \E n \in Nat : L = PutIn(K, x, p, n)
    BY <1>2, <2>2
  <2>3. CASE \E x \in {PortalOf(NewOne), ThePortal} : \E p : \E n \in Nat :
               L = PutIn(K, x, p, n)
    BY <1>2, <2>3
  <2> QED BY <1>3, <1>4, <2>1, <2>2, <2>3
<1> QED BY <1>5 DEF Kept

LEMMA CreateNoPortal ==
    ASSUME Asked, NEW i, ~IsLastPortal(ops[i]), NEW m,
           NEW K, AreLists(K), NEW L, CreateDoes(i, m, K, L), NEW v \in Portals0
    PROVE  Where(L, v) = Where(K, v)
<1>1. ~Found(v) /\ v # NewOne /\ v # NewText
  BY PortalsApart
<1>2. ASSUME NEW x, x \in {NewOne, NewText}, NEW p, NEW n \in Nat, L = PutIn(K, x, p, n)
      PROVE  Where(L, v) = Where(K, v)
  <2>1. Where(L, v) = Where(K, v) \cup (IF v = x THEN {p} ELSE {})
    BY <1>2, PutInWhere
  <2> QED BY <1>1, <1>2, <2>1
<1>3. ASSUME NEW q \in Els(request.from), NEW n \in Nat, L = MoveTo(K, q, NewOne, n)
      PROVE  Where(L, v) = Where(K, v)
  <2>1. IsMovedTo(L, K, q, NewOne)
    BY <1>3, MoveToIs
  <2>2. Where(L, v) = IF v = q THEN {NewOne} ELSE Where(K, v)
    BY <2>1 DEF IsMovedTo
  <2>3. Found(q)
    BY RequestIs
  <2> QED BY <1>1, <2>2, <2>3
<1> QED BY <1>2, <1>3, CreateCases

LEMMA CreatePortal ==
    ASSUME NEW i, i # 1, IsLastPortal(ops[i]), NEW m, m # NoName,
           NEW K, AreLists(K), NEW L, CreateDoes(i, m, K, L)
    PROVE  \E p : \E n \in Nat :
             /\ Found(p) /\ (InSlot => p = Slot0[1] /\ n = Slot0[2] - 1)
             /\ L = PutIn(K, ThePortal, p, n) /\ Where(L, ThePortal) # {}
<1>1. ops[i].type = "create_portal"
  BY DEF IsLastPortal, IsPortal
<1>2. PICK p : \E n \in Nat : /\ Found(p) /\ (InSlot => p = Slot0[1] /\ n = Slot0[2] - 1)
                              /\ L = PutIn(K, ThePortal, p, n)
  <2>1. ~IsText(ops[i], NewTmp) /\ ~IsBody(ops[i], NewTmp) /\ \A r : ~IsMove(ops[i], r, NewTmp)
    BY <1>1 DEF IsText, IsBody, IsMove
  <2> QED BY <2>1, FreshIs DEF CreateDoes
<1>3. PICK n \in Nat : /\ Found(p) /\ (InSlot => p = Slot0[1] /\ n = Slot0[2] - 1)
                       /\ L = PutIn(K, ThePortal, p, n)
  BY <1>2
<1>4. Where(L, ThePortal) = Where(K, ThePortal) \cup (IF ThePortal = ThePortal THEN {p} ELSE {})
  BY <1>3, PutInWhere
<1> QED BY <1>3, <1>4

LEMMA CreateMoves ==
    ASSUME OpsOfCreate(ops), NEW i, NEW m, NEW K, AreLists(K), NEW L, CreateDoes(i, m, K, L),
           NEW r, IsMove(ops[i], r, NewTmp)
    PROVE  Where(L, r) = {NewOne}
<1>1. ops[i].type = "move_rem" /\ ops[i].ids["rem_id"] = <<r>>
  BY DEF IsMove
<1>2. i # 1
  <2>1. ops[1].type = "create_rem"
    BY DEF OpsOfCreate, IsCreate
  <2> QED BY <1>1, <2>1
<1>3. ~IsText(ops[i], NewTmp) /\ ~IsBody(ops[i], NewTmp) /\ ~IsLastPortal(ops[i])
  BY <1>1 DEF IsText, IsBody, IsLastPortal, IsPortal
<1>4. PICK q : \E n \in Nat : IsMove(ops[i], q, NewTmp) /\ L = MoveTo(K, q, NewOne, n)
  BY <1>2, <1>3 DEF CreateDoes
<1>5. <<q>> = <<r>>
  BY <1>1, <1>4 DEF IsMove
<1>6. q = r
  BY <1>5
<1>7. IsMovedTo(L, K, q, NewOne)
  BY <1>4, MoveToIs
<1> QED BY <1>6, <1>7 DEF IsMovedTo

MoveKept(i, m, leaves, K, L) ==
    /\ AreLists(L)
    /\ Where(K, ThePortal) # {} => Where(L, ThePortal) # {}
    /\ i = 1 /\ (~leaves \/ Where(K, request.from[1]) = {}) =>
         \A v \in Portals0 : Where(L, v) = Where(K, v)
    /\ i = 1 /\ leaves /\ Where(K, request.from[1]) # {} =>
         Where(L, PortalOf(request.from[1])) # {}
    /\ i = 2 /\ m # NoName => Where(L, ThePortal) # {}

LEMMA MoveKeeps ==
    ASSUME Asked, request.do = "move", NEW i, NEW m, NEW leaves,
           NEW K, AreLists(K), NEW L, MoveDoes(i, m, leaves, K, L)
    PROVE  MoveKept(i, m, leaves, K, L)
<1> USE DEF MoveKept
<1> DEFINE r == request.from[1]
<1>1. Found(r)
  BY SourceOfMove
<1>2. r # ThePortal /\ \A v \in Portals0 : v # r
  BY <1>1, FoundApart, PortalsApart
<1> HIDE DEF r
<1>3. ASSUME NEW H, AreLists(H), NEW x, NEW p, NEW n \in Nat, L = PutIn(H, x, p, n)
      PROVE  /\ AreLists(L) /\ Where(L, x) # {}
             /\ \A v : Where(H, v) \subseteq Where(L, v)
  <2>1. \A v : Where(L, v) = Where(H, v) \cup (IF v = x THEN {p} ELSE {})
    BY <1>3, PutInWhere
  <2>2. AreLists(L)
    BY <1>3, PutInIs DEF IsPutIn
  <2> QED BY <2>1, <2>2
<1>4. CASE i = 1
  <2>1. PICK M : /\ Moved(M, K, r)
                 /\ IF leaves /\ Where(K, r) # {}
                    THEN \E p : \E n \in Nat : L = PutIn(M, PortalOf(r), p, n)
                    ELSE L = M
    BY <1>4 DEF MoveDoes, r
  <2>2. AreLists(M) /\ \A v : v # r => Where(M, v) = Where(K, v)
    BY <2>1 DEF Moved
  <2>3. CASE leaves /\ Where(K, r) # {}
    <3>1. AreLists(L) /\ Where(L, PortalOf(r)) # {} /\ \A v : Where(M, v) \subseteq Where(L, v)
      BY <1>3, <2>1, <2>2, <2>3
    <3> QED BY <1>2, <1>4, <2>2, <2>3, <3>1 DEF r
  <2>4. CASE ~(leaves /\ Where(K, r) # {})
    <3>1. L = M
      BY <2>1, <2>4
    <3> QED BY <1>2, <1>4, <2>2, <2>4, <3>1 DEF r
  <2> QED BY <2>3, <2>4
<1>5. CASE i = 2
  <2> DEFINE x == FreshPortal(m, r)
  <2>a. i # 1
    BY <1>5
  <2>1. PICK p : \E n \in Nat : L = PutIn(K, x, p, n)
    BY <2>a DEF MoveDoes, r
  <2>2. AreLists(L) /\ Where(L, x) # {} /\ \A v : Where(K, v) \subseteq Where(L, v)
    BY <1>3, <2>1
  <2>3. m # NoName => x = ThePortal
    BY FreshIs
  <2> HIDE DEF x
  <2> QED BY <2>a, <2>2, <2>3
<1> QED BY <1>4, <1>5 DEF MoveDoes

-----------------------------------------------------------------------------
(* The slot of the sources while it is there, and when it is filled. *)

Lead == Before(Slot0[1], Slot0[2])
Rest == After(Slot0[1], Slot0[2])
Members0 == Els(Sources)

Open(K) == Slot0[1] \in DOMAIN K /\ Fits(K[Slot0[1]], Lead, Rest, Members0, NewOne)
Filled(K) ==
    /\ Slot0[1] \in DOMAIN K
    /\ FitsAround(K[Slot0[1]], Lead, Rest, Members0, NewOne, ThePortal)

LEMMA LeadIs ==
    ASSUME Asked, Slots # {}
    PROVE  /\ IsList(Lead) /\ Len(Lead) = Slot0[2] - 1 /\ NewOne \notin Els(Lead)
           /\ Slot0[1] \in DOMAIN Outline0.kids /\ Found(Slot0[1])
<1> DEFINE p == Slot0[1]
           i == Slot0[2]
           s == Outline0.kids[p]
<1>1. IsList(Sources)
  BY RequestIs, SourcesAre
<1>2. p \in DOMAIN Outline0.kids /\ i \in Nat \ {0} /\ i + Len(Sources) <= Len(s) + 1
  BY <1>1, SlotIs
<1>3. IsList(s) /\ Found(p) /\ \A v \in Els(s) : Found(v)
  BY <1>2, OutlineIs DEF AreLists
<1>4. Len(s) \in Nat /\ Len(Sources) \in Nat
  BY <1>1, <1>3, ListType
<1> HIDE DEF p, i, s
<1>5. i - 1 \in 0 .. Len(s)
  BY <1>2, <1>4
<1>6. /\ s = SubSeq(s, 1, i - 1) ++ SubSeq(s, (i - 1) + 1, Len(s))
      /\ IsList(SubSeq(s, 1, i - 1)) /\ IsList(SubSeq(s, (i - 1) + 1, Len(s)))
      /\ Len(SubSeq(s, 1, i - 1)) = i - 1
  BY <1>3, <1>5, FallsInTwo
<1>7. Els(SubSeq(s, 1, i - 1)) \subseteq Els(s)
  BY <1>6, ElsOf
<1>8. Lead = SubSeq(s, 1, i - 1)
  BY DEF Lead, Before, p, i, s
<1>9. NewOne \notin Els(s)
  BY <1>3, FoundApart
<1> QED BY <1>2, <1>3, <1>6, <1>7, <1>8, <1>9 DEF p, i

LEMMA OpenAtFirst ==
    ASSUME Asked, Slots # {}
    PROVE  Open(Outline0.kids)
<1> DEFINE p == Slot0[1]
           i == Slot0[2]
           n == Len(Sources)
           s == Outline0.kids[p]
<1>1. IsList(Sources)
  BY RequestIs, SourcesAre
<1>2. /\ p \in DOMAIN Outline0.kids /\ i \in Nat \ {0} /\ i + n <= Len(s) + 1
      /\ Els(SubSeq(s, i, i + n - 1)) = Members0
  BY <1>1, SlotIs DEF Members0
<1>3. IsList(s) /\ \A v \in Els(s) : Found(v)
  BY <1>2, OutlineIs DEF AreLists
<1>4. Len(s) \in Nat /\ n \in Nat /\ s \in Seq(Els(s)) /\ DOMAIN s = 1 .. Len(s)
  BY <1>1, <1>3, ListType
<1>5. \A j, k \in DOMAIN s : s[j] = s[k] => j = k
  BY <1>2, OutlineIs
<1> HIDE DEF p, i, n, s
<1>6. ASSUME NEW j \in 1 .. Len(s), j < i \/ j >= i + n PROVE s[j] \notin Members0
  <2> DEFINE t == SubSeq(s, i, i + n - 1)
  <2>1. t \in Seq(Els(s)) /\ Len(t) = n /\ \A k \in 1 .. n : t[k] = s[i + k - 1]
    BY <1>2, <1>4
  <2>2. \A v \in Els(t) : \E k \in 1 .. n : v = t[k]
    <3>1. DOMAIN t = 1 .. n
      BY <1>4, <2>1
    <3> QED BY <3>1 DEF Els, Range
  <2> HIDE DEF t
  <2>3. ASSUME s[j] \in Els(t) PROVE FALSE
    <3>1. PICK k \in 1 .. n : s[j] = t[k]
      BY <2>2, <2>3
    <3>2. s[j] = s[i + k - 1] /\ i + k - 1 \in 1 .. Len(s)
      BY <1>2, <1>4, <2>1, <3>1
    <3>3. j = i + k - 1
      BY <1>4, <1>5, <3>2
    <3> QED BY <1>2, <1>4, <1>6, <3>1, <3>3
  <2> QED BY <1>2, <2>3 DEF t
<1>7. NewOne \notin Els(s)
  BY <1>3, FoundApart
<1>8. Fits(s, SubSeq(s, 1, i - 1), SubSeq(s, i + n, Len(s)), Members0, NewOne)
  BY <1>2, <1>3, <1>4, <1>6, <1>7, FitsAtFirst
<1> QED BY <1>2, <1>8 DEF Open, Lead, Rest, Before, After, p, i, n, s

LEMMA NewAreNoMembers ==
    ASSUME Asked
    PROVE  /\ NewOne \notin Members0 /\ ThePortal \notin Members0
           /\ Members0 = Els(request.from)
<1>1. Members0 = Els(request.from)
  BY RequestIs, SourcesAre DEF Members0
<1> QED BY <1>1, RequestIs, FoundApart

(* Every other op leaves the slot there, the portal fills it, and the moves that
   come later leave it filled. *)
LEMMA SlotStays ==
    ASSUME Asked, OpsOfCreate(ops), InSlot, NEW i \in 1 .. Len(ops),
           NEW K, AreLists(K), NEW L, CreateDoes(i, ops[i].makes, K, L)
    PROVE  /\ i # Len(ops) /\ Open(K) => Open(L)
           /\ i = Len(ops) /\ Open(K) => Filled(L)
           /\ i # Len(ops) /\ i # 1 /\ Filled(K) => Filled(L)
<1> DEFINE p == Slot0[1]
<1>1. Slots # {} /\ Len(ops) >= 2 /\ IsLastPortal(ops[Len(ops)])
  BY DEF OpsOfCreate, InSlot
<1>2. IsList(Lead) /\ Len(Lead) = Slot0[2] - 1 /\ Found(p)
  BY <1>1, LeadIs
<1>3. NewOne \notin Members0 /\ ThePortal \notin Members0 /\ Members0 = Els(request.from)
  BY NewAreNoMembers
<1>4. p # NewOne
  BY <1>2, FoundApart
<1>5. ops[1].makes = "durable_target"
  BY DEF OpsOfCreate, IsCreate
<1> HIDE DEF p
<1>6. CASE L = K /\ i # Len(ops)
  BY <1>6
<1>7. ASSUME NEW x, NEW q, q # p, NEW n \in Nat, L = PutIn(K, x, q, n), p \in DOMAIN K
      PROVE  p \in DOMAIN L /\ L[p] = K[p]
  <2>1. IsPutIn(L, K, x, q, n)
    BY <1>7, PutInIs
  <2> QED BY <1>7, <2>1 DEF IsPutIn
<1>8. ASSUME i = 1, NEW q, NEW n \in Nat, L = PutIn(K, NewOne, q, n), Open(K)
      PROVE  Open(L)
  <2> DEFINE s == K[p]
  <2>1. p \in DOMAIN K /\ Fits(s, Lead, Rest, Members0, NewOne)
    BY <1>8 DEF Open, p
  <2>2. CASE q # p
    BY <1>7, <1>8, <2>1, <2>2 DEF Open, p
  <2>3. CASE q = p
    <3>1. ListAt(K, p) = s
      BY <2>1 DEF ListAt
    <3> HIDE DEF s
    <3>2. IsPutIn(L, K, NewOne, p, n)
      BY <1>8, <2>3, PutInIs
    <3>3. p \in DOMAIN L /\ \E k \in 0 .. Len(s) :
            L[p] = SubSeq(s, 1, k) ++ <<NewOne>> ++ SubSeq(s, k + 1, Len(s))
      BY <3>1, <3>2 DEF IsPutIn
    <3>4. Fits(L[p], Lead, Rest, Members0, NewOne)
      BY <1>2, <1>3, <2>1, <3>3, FitsGains
    <3> QED BY <3>3, <3>4 DEF Open, p
  <2> QED BY <2>2, <2>3
<1>9. ASSUME NEW n \in Nat, L = PutIn(K, NewText, NewOne, n)
      PROVE  (Open(K) => Open(L)) /\ (Filled(K) => Filled(L))
  BY <1>4, <1>7, <1>9 DEF Open, Filled, p
<1>10. ASSUME NEW r \in Els(request.from), NEW n \in Nat, L = MoveTo(K, r, NewOne, n)
       PROVE  (Open(K) => Open(L)) /\ (Filled(K) => Filled(L))
  <2>1. IsMovedTo(L, K, r, NewOne)
    BY <1>10, MoveToIs
  <2>2. p \in DOMAIN K => p \in DOMAIN L /\ L[p] = Leaving(K[p], {r})
    BY <1>4, <2>1 DEF IsMovedTo
  <2>3. r \in Members0
    BY <1>3, <1>10
  <2>4. Open(K) => Open(L)
    BY <2>2, <2>3, FitsLoses DEF Open, p
  <2>5. Filled(K) => Filled(L)
    BY <1>3, <2>2, <2>3, FilledLoses DEF Filled, p
  <2> QED BY <2>4, <2>5
<1>11. ASSUME i = Len(ops), Open(K) PROVE Filled(L)
  <2> DEFINE s == K[p]
  <2>0. i # 1 /\ IsLastPortal(ops[i])
    BY <1>1, <1>11
  <2>1. ops[i].makes # NoName
    BY <2>0, NamesApart DEF IsLastPortal, IsPortal
  <2>2. PICK q : \E n \in Nat : /\ q = p /\ n = Slot0[2] - 1
                                /\ L = PutIn(K, ThePortal, q, n)
    BY <2>0, <2>1, CreatePortal DEF p
  <2>3. PICK n \in Nat : /\ q = p /\ n = Len(Lead) /\ L = PutIn(K, ThePortal, p, n)
    BY <1>2, <2>2
  <2>4. p \in DOMAIN K /\ Fits(s, Lead, Rest, Members0, NewOne)
    BY <1>11 DEF Open, p
  <2>5. ListAt(K, p) = s
    BY <2>4 DEF ListAt
  <2> HIDE DEF s
  <2>6. n <= Len(s)
    BY <1>2, <2>3, <2>4, FitsAtLeast
  <2>7. IsPutIn(L, K, ThePortal, p, n)
    BY <2>3, PutInIs
  <2>8. p \in DOMAIN L /\ L[p] = SubSeq(s, 1, n) ++ <<ThePortal>> ++ SubSeq(s, n + 1, Len(s))
    BY <2>5, <2>6, <2>7 DEF IsPutIn
  <2>9. FitsAround(SubSeq(s, 1, n) ++ <<ThePortal>> ++ SubSeq(s, n + 1, Len(s)),
                   Lead, Rest, Members0, NewOne, ThePortal)
    BY <1>2, <2>3, <2>4, FitsFilled
  <2> QED BY <2>8, <2>9 DEF Filled, p
<1>12. CASE i = Len(ops)
  BY <1>11, <1>12
<1>13. CASE i # Len(ops)
  <2>1. \/ L = K
        \/ i = 1 /\ \E q : \E n \in Nat : L = PutIn(K, NewOne, q, n)
        \/ \E n \in Nat : L = PutIn(K, NewText, NewOne, n)
        \/ \E r \in Els(request.from) : \E n \in Nat : L = MoveTo(K, r, NewOne, n)
    <3>1. i = 1 => Fresh(ops[i].makes) = NewOne
      BY <1>5, NamesApart, FreshIs
    <3> QED BY <1>13, <3>1 DEF CreateDoes
  <2> QED BY <1>6, <1>8, <1>9, <1>10, <1>13, <2>1
<1> QED BY <1>12, <1>13

-----------------------------------------------------------------------------
(* The inductive invariant. *)

Kids == outline.kids

(* Of an op that RemNote has done, whether or not the queue knows. *)
HasDone(i) == status[i] \in {"performed", "succeeded"}

LeftOne == request.do = "move" /\ InSlot /\ HasDone(1) /\ ~leftNone
PortalDone == \E i \in DOMAIN ops : ops[i].type = "create_portal" /\ HasDone(i)
PortalAcked ==
    \E i \in DOMAIN ops : ops[i].type = "create_portal" /\ status[i] = "succeeded"

Statuses ==
    {"pending", "in_flight", "performed", "thrown", "cut_off", "succeeded", "dead"}

StatusOK == status \in [DOMAIN ops -> Statuses]

(* Nothing that names the new Rem begins before it has been made. *)
MadeOK ==
    /\ "durable_target" \in made => request.do = "create" /\ status[1] = "succeeded"
    /\ request.do = "create" =>
         \A i \in 2 .. Len(ops) : status[i] # "pending" => "durable_target" \in made

MovedOK ==
    request.do = "create" =>
      \A i \in DOMAIN ops : \A r \in Els(request.from) :
        HasDone(i) /\ IsMove(ops[i], r, NewTmp) => Where(Kids, r) = {NewOne}

NoPortalOK ==
    lapses = 0 /\ ~PortalDone /\ ~LeftOne =>
      \A v \in Portals0 : Where(Kids, v) = {}

PortalOK ==
    /\ PortalDone => Where(Kids, ThePortal) # {}
    /\ "portal_rem" \in made <=> PortalAcked

LeftOK ==
    /\ LeftOne => Where(Kids, PortalOf(request.from[1])) # {}
    /\ leftNone => HasDone(1)

SlotOK ==
    request.do = "create" /\ InSlot /\ lapses = 0 =>
      IF HasDone(Len(ops)) THEN Filled(Kids) ELSE Open(Kids)

OpsInv ==
    /\ GoodOps(ops) /\ StatusOK /\ AreLists(Kids)
    /\ MadeOK /\ MovedOK /\ NoPortalOK /\ PortalOK /\ LeftOK /\ SlotOK

PlanOps == Compiled(Coalesce(envelope.plan))

PromoInv ==
    /\ Asked /\ leftNone \in BOOLEAN /\ lapses \in Nat
    /\ ops = <<>> => outline = Outline0 /\ made = {} /\ lapses = 0 /\ leftNone = FALSE
    /\ envelope.plan = <<>> => ops = <<>>
    /\ envelope.plan # <<>> => envelope.dryRun = FALSE /\ GoodOps(PlanOps)
    /\ ops # <<>> => OpsInv

LEMMA SameRequest ==
    ASSUME request' = request
    PROVE  /\ InSlot' = InSlot /\ Slot0' = Slot0 /\ Slots' = Slots
           /\ Sources' = Sources /\ Targets' = Targets
           /\ Portals0' = Portals0
           /\ Lead' = Lead /\ Rest' = Rest /\ Members0' = Members0
<1>1. InSlot' = InSlot /\ Targets' = Targets
  BY DEF InSlot, Targets
<1>2. Sources' = Sources
  BY DEF Sources
<1>3. Portals0' = Portals0
  BY DEF Portals0, Range
<1>4. Slots' = Slots
  BY <1>2 DEF Slots, RangesIn
<1>5. Slot0' = Slot0
  BY <1>4 DEF Slot0, Slots
<1>6. Lead' = Lead /\ Rest' = Rest /\ Members0' = Members0
  BY <1>2, <1>5 DEF Lead, Rest, Members0, Before, After, Els, Range
<1> QED BY <1>1, <1>2, <1>3, <1>4, <1>5, <1>6

LEMMA SameOps ==
    ASSUME request' = request, ops' = ops
    PROVE  GoodOps(ops)' <=> GoodOps(ops)
  BY SameRequest DEF GoodOps, OpsOfCreate, OpsOfMove, IsBelow, IsLastPortal

LEMMA NewOps ==
    ASSUME request' = request, ops' = PlanOps
    PROVE  GoodOps(ops)' <=> GoodOps(PlanOps)
<1> DEFINE os == PlanOps
<1>1. ops' = os
  OBVIOUS
<1> HIDE DEF os
<1>2. GoodOps(ops)' <=> GoodOps(os)
  BY <1>1, SameRequest DEF GoodOps, OpsOfCreate, OpsOfMove, IsBelow, IsLastPortal
<1> QED BY <1>2 DEF os

LEMMA SamePlan ==
    ASSUME request' = request, envelope' = envelope
    PROVE  GoodOps(PlanOps)' <=> GoodOps(PlanOps)
<1>1. PlanOps' = PlanOps
  BY DEF PlanOps
<1> QED BY <1>1, SameRequest DEF GoodOps, OpsOfCreate, OpsOfMove, IsBelow, IsLastPortal

(* The dispatcher holds an op back while it names what is not there. *)
LEMMA NamesNew ==
    ASSUME NEW o, NEW p \in IdFields(o.type), p \in DOMAIN o.ids, o.ids[p] = <<NewTmp>>,
           Unknown(o) = {}
    PROVE  "durable_target" \in made
<1>1. Col(o, p) = <<NewTmp>>
  BY DEF Col
<1>2. NewTmp \in Range(<<NewTmp>>)
  BY ListOfOne DEF Els
<1>3. NewTmp[1] = "tmp" /\ NewTmp[2] = "durable_target"
  BY DEF NewTmp, Tmp
<1>4. NewTmp \in UNION {Range(Col(o, q)) : q \in IdFields(o.type)}
  BY <1>1, <1>2
<1>5. NewTmp \in TempIds(o)
  BY <1>3, <1>4 DEF TempIds, OfKind
<1> QED BY <1>3, <1>5 DEF Unknown

LEMMA HeldBack ==
    ASSUME request.do = "create", GoodOps(ops), NEW i \in 2 .. Len(ops),
           Unknown(ops[i]) = {}
    PROVE  "durable_target" \in made
<1> DEFINE o == ops[i]
<1>1. IsBelow(o) \/ IsLastPortal(o)
  BY DEF GoodOps, OpsOfCreate
<1> HIDE DEF o
<1>2. \E p \in IdFields(o.type) : p \in DOMAIN o.ids /\ o.ids[p] = <<NewTmp>>
  <2>1. CASE IsText(o, NewTmp)
    BY <2>1, IdFieldsOf DEF IsText
  <2>2. CASE IsBody(o, NewTmp)
    BY <2>2, IdFieldsOf DEF IsBody
  <2>3. CASE \E r : IsMove(o, r, NewTmp)
    BY <2>3, IdFieldsOf DEF IsMove
  <2>4. CASE IsLastPortal(o)
    BY <2>4, IdFieldsOf DEF IsLastPortal, IsPortal
  <2> QED BY <1>1, <2>1, <2>2, <2>3, <2>4 DEF IsBelow
<1> QED BY <1>2, NamesNew DEF o

(* The portal is the last op, the only one of its type. *)
LEMMA PortalIsLast ==
    ASSUME request.do = "create", GoodOps(ops), NEW i \in DOMAIN ops
    PROVE  ops[i].type = "create_portal" <=> i # 1 /\ i = Len(ops) /\ IsLastPortal(ops[i])
<1>1. IsList(ops)
  BY DEF GoodOps, OpsOfCreate
<1>2. i = 1 \/ (i # 1 /\ i \in 2 .. Len(ops))
  <2>1. ops \in Seq(Els(ops)) /\ Len(ops) \in Nat
    BY <1>1, ListType
  <2> QED BY <2>1
<1>3. i = 1 => ops[i].type = "create_rem"
  BY DEF GoodOps, OpsOfCreate, IsCreate
<1>4. IsBelow(ops[i]) => ops[i].type # "create_portal"
  BY DEF IsBelow, IsText, IsBody, IsMove
<1>5. IsLastPortal(ops[i]) => ops[i].type = "create_portal"
  BY DEF IsLastPortal, IsPortal
<1> QED BY <1>2, <1>3, <1>4, <1>5 DEF GoodOps, OpsOfCreate

-----------------------------------------------------------------------------
(* The steps, of ops that begin and of those that come to nothing. *)

SameDone ==
    \A j \in DOMAIN ops :
        /\ HasDone(j)' <=> HasDone(j)
        /\ status'[j] = "succeeded" <=> status[j] = "succeeded"

LEMMA Indices ==
    ASSUME GoodOps(ops)
    PROVE  /\ IsList(ops) /\ Len(ops) \in Nat \ {0} /\ DOMAIN ops = 1 .. Len(ops)
           /\ 1 \in DOMAIN ops /\ Len(ops) \in DOMAIN ops
           /\ \A i \in DOMAIN ops : i # 1 => i \in 2 .. Len(ops)
<1>1. IsList(ops) /\ ops # <<>>
  <2>1. CASE request.do = "create"
    BY <2>1 DEF GoodOps, OpsOfCreate
  <2>2. CASE request.do # "create"
    <3>1. IsList(ops) /\ Len(ops) \in {1, 2}
      BY <2>2 DEF GoodOps, OpsOfMove
    <3>2. Len(<<>>) = 0
      OBVIOUS
    <3> QED BY <3>1, <3>2
  <2> QED BY <2>1, <2>2
<1>2. ops \in Seq(Els(ops)) /\ Len(ops) \in Nat
  BY <1>1, ListType
<1>3. Len(ops) \in Nat \ {0} /\ DOMAIN ops = 1 .. Len(ops)
  BY <1>1, <1>2
<1> QED BY <1>1, <1>3

LEMMA QuietStep ==
    ASSUME OpsInv, UNCHANGED <<request, leftNone, ops, lapses, made>>, Kids' = Kids,
           StatusOK', SameDone, MadeOK'
    PROVE  OpsInv'
<1>1. GoodOps(ops)'
  BY SameOps DEF OpsInv
<1>2. AreLists(Kids)'
  BY DEF OpsInv
<1>3. 1 \in DOMAIN ops /\ Len(ops) \in DOMAIN ops
  BY Indices DEF OpsInv
<1>4. /\ InSlot' = InSlot /\ Slot0' = Slot0 /\ Lead' = Lead /\ Rest' = Rest
      /\ Members0' = Members0 /\ Portals0' = Portals0
  BY SameRequest
<1>5. LeftOne' <=> LeftOne
  BY <1>3, <1>4 DEF SameDone, LeftOne
<1>6. (PortalDone' <=> PortalDone) /\ (PortalAcked' <=> PortalAcked)
  BY DEF SameDone, PortalDone, PortalAcked
<1>7. MovedOK'
  BY DEF SameDone, MovedOK, OpsInv
<1>8. NoPortalOK' /\ PortalOK' /\ LeftOK'
  BY <1>3, <1>4, <1>5, <1>6 DEF OpsInv, NoPortalOK, PortalOK, LeftOK, SameDone
<1>9. (Open(Kids)' <=> Open(Kids)) /\ (Filled(Kids)' <=> Filled(Kids))
  BY <1>4 DEF Open, Filled
<1>10. SlotOK'
  BY <1>3, <1>4, <1>9 DEF SameDone, SlotOK, OpsInv
<1> QED BY <1>1, <1>2, <1>7, <1>8, <1>10 DEF OpsInv

(* One status changes. *)
LEMMA OneChanges ==
    ASSUME StatusOK, NEW i \in DOMAIN ops, NEW v \in Statuses,
           ops' = ops, status' = [status EXCEPT ![i] = v]
    PROVE  /\ StatusOK' /\ status'[i] = v
           /\ \A j \in DOMAIN ops : j # i => status'[j] = status[j]
  BY DEF StatusOK

LEMMA SendKeeps ==
    ASSUME OpsInv, NEW i \in DOMAIN ops, Send(i), UNCHANGED <<request, leftNone, receipt>>
    PROVE  OpsInv' /\ UNCHANGED <<envelope, lapses, outline, made, ops>>
<1>1. /\ status[i] = "pending" /\ Unknown(ops[i]) = {}
      /\ status' = [status EXCEPT ![i] = "in_flight"]
      /\ UNCHANGED <<envelope, ops, lapses, outline, made>>
  BY DEF Send
<1>2. /\ StatusOK' /\ status'[i] = "in_flight"
      /\ \A j \in DOMAIN ops : j # i => status'[j] = status[j]
  BY <1>1, OneChanges DEF OpsInv, Statuses
<1>3. SameDone
  BY <1>1, <1>2 DEF SameDone, HasDone
<1>4. 1 \in DOMAIN ops /\ (i # 1 => i \in 2 .. Len(ops)) /\ DOMAIN ops = 1 .. Len(ops)
      /\ Len(ops) \in Nat
  BY Indices DEF OpsInv
<1>5. ASSUME request.do = "create", NEW j \in 2 .. Len(ops), status'[j] # "pending"
      PROVE  "durable_target" \in made
  <2>1. CASE j = i
    BY <1>1, <1>5, <2>1, HeldBack DEF OpsInv
  <2>2. CASE j # i
    BY <1>2, <1>4, <1>5, <2>2 DEF OpsInv, MadeOK
  <2> QED BY <2>1, <2>2
<1>6. MadeOK'
  BY <1>1, <1>3, <1>4, <1>5 DEF MadeOK, OpsInv, SameDone
<1>7. Kids' = Kids
  BY <1>1 DEF Kids
<1> QED BY <1>1, <1>2, <1>3, <1>6, <1>7, QuietStep

(* The handlers, of ops with one item. *)
LEMMA OneItemEach ==
    ASSUME OpsInv, Asked, NEW i \in DOMAIN ops, NEW m
    PROVE  /\ PlainOp(ops[i]) /\ Items(ops[i]) = 1 /\ Items(TheOp(i, m)) = 1
           /\ Items(Substituted(ops[i])) = 1
           /\ "is_document" \notin Substituted(ops[i]).flags
<1>1. PlainOp(ops[i])
  BY OpsArePlain DEF OpsInv
<1>2. DOMAIN TheOp(i, m).ids = DOMAIN ops[i].ids
  BY <1>1, TheOpIs DEF PlainOp
<1>3. DOMAIN Substituted(ops[i]).ids = DOMAIN ops[i].ids
      /\ Substituted(ops[i]).flags = ops[i].flags
  BY <1>1, SubstitutedOp DEF PlainOp
<1> QED BY <1>1, <1>2, <1>3, OneItem DEF PlainOp

LEMMA ThrowKeeps ==
    ASSUME OpsInv, Asked, NEW i \in DOMAIN ops, Throw(i),
           UNCHANGED <<request, leftNone, receipt>>
    PROVE  OpsInv' /\ UNCHANGED <<envelope, lapses, made, ops>>
<1>1. /\ status[i] = "in_flight" /\ status' = [status EXCEPT ![i] = "thrown"]
      /\ UNCHANGED <<envelope, ops, lapses, made>>
      /\ (\E n \in 0 .. (Items(ops[i]) - 1) : Partly(i, n))
         \/ MovedOnly(i)
  BY DEF Throw
<1>2. /\ StatusOK' /\ status'[i] = "thrown"
      /\ \A j \in DOMAIN ops : j # i => status'[j] = status[j]
  BY <1>1, OneChanges DEF OpsInv, Statuses
<1>3. SameDone
  BY <1>1, <1>2 DEF SameDone, HasDone
<1>4. Items(ops[i]) = 1 /\ "is_document" \notin Substituted(ops[i]).flags
  BY OneItemEach
<1>5. ~MovedOnly(i)
  BY <1>4 DEF MovedOnly
<1>6. \E n \in 0 .. 0 : Partly(i, n)
  BY <1>1, <1>4, <1>5
<1>7. Partly(i, 0)
  <2>1. \A n \in 0 .. 0 : n = 0
    OBVIOUS
  <2> QED BY <1>6, <2>1
<1>8. Kids' = Kids
  BY <1>7 DEF Partly, Kids
<1>9. 1 \in DOMAIN ops /\ DOMAIN ops = 1 .. Len(ops) /\ Len(ops) \in Nat
  BY Indices DEF OpsInv
<1>10. ASSUME request.do = "create", NEW j \in 2 .. Len(ops), status'[j] # "pending"
       PROVE  "durable_target" \in made
  <2>1. status[j] # "pending"
    BY <1>1, <1>2, <1>9, <1>10
  <2> QED BY <1>10, <2>1 DEF OpsInv, MadeOK
<1>11. MadeOK'
  BY <1>1, <1>3, <1>9, <1>10 DEF MadeOK, OpsInv, SameDone
<1> QED BY <1>1, <1>2, <1>3, <1>8, <1>11, QuietStep

LEMMA CutOffIs ==
    ASSUME OpsInv, Asked, NEW i \in DOMAIN ops, CutOff(i)
    PROVE  /\ status[i] = "in_flight" /\ status' = [status EXCEPT ![i] = "cut_off"]
           /\ lapses' = lapses + 1 /\ UNCHANGED <<envelope, ops, made>>
           /\ Kids' = Kids \/ Kids' = Children(TheOp(i, NoName), Kids, 1)
<1>1. /\ status[i] = "in_flight" /\ status' = [status EXCEPT ![i] = "cut_off"]
      /\ lapses' = lapses + 1 /\ UNCHANGED <<envelope, ops, made>>
      /\ \E n \in 0 .. Items(ops[i]) : Partly(i, n)
  BY DEF CutOff
<1>2. PlainOp(ops[i]) /\ Items(ops[i]) = 1
  BY OneItemEach
<1>3. PICK n \in 0 .. 1 : Partly(i, n)
  BY <1>1, <1>2
<1> DEFINE s == Substituted(ops[i])
           u == [s EXCEPT !.makes = NoName]
<1>4. TheOp(i, NoName) = u
  <2>1. IsOp(s) /\ s.makes = ops[i].makes
    BY <1>2, SubstitutedOp DEF PlainOp
  <2> HIDE DEF s
  <2>2. CASE ops[i].makes = NoName
    <3>1. s = [type |-> s.type, ids |-> s.ids, poses |-> s.poses, words |-> s.words,
               flags |-> s.flags, makes |-> s.makes]
      BY <2>1 DEF IsOp
    <3>2. u = [type |-> s.type, ids |-> s.ids, poses |-> s.poses, words |-> s.words,
               flags |-> s.flags, makes |-> NoName]
      <4>1. DOMAIN s = {"type", "ids", "poses", "words", "flags", "makes"}
        BY <3>1
      <4> QED BY <4>1
    <3>3. u = s
      BY <2>1, <2>2, <3>1, <3>2
    <3>4. TheOp(i, NoName) = s
      BY <2>2 DEF TheOp, s
    <3> QED BY <3>3, <3>4
  <2>3. CASE ops[i].makes # NoName
    BY <2>3 DEF TheOp, s
  <2> QED BY <2>2, <2>3
<1>5. n = 0 \/ n = 1
  BY <1>3
<1>6. outline' = IF n = 0 THEN outline ELSE Apply(u, outline, n)
  BY <1>3 DEF Partly
<1> HIDE DEF u
<1>7. CASE n = 0
  BY <1>1, <1>6, <1>7 DEF Kids
<1>8. CASE n = 1
  <2>1. outline' = Apply(u, outline, 1)
    BY <1>6, <1>8
  <2>2. outline'.kids = Children(u, outline.kids, 1)
    BY <2>1 DEF Apply
  <2> QED BY <1>1, <1>4, <2>2 DEF Kids
<1> QED BY <1>5, <1>7, <1>8

LEMMA PerformIs ==
    ASSUME OpsInv, Asked, NEW i \in DOMAIN ops, Perform(i)
    PROVE  /\ status[i] = "in_flight" /\ status' = [status EXCEPT ![i] = "performed"]
           /\ UNCHANGED <<envelope, ops, lapses, made>>
           /\ Kids' = Children(TheOp(i, ops[i].makes), Kids, 1)
<1> DEFINE s == Substituted(ops[i])
<1>1. /\ status[i] = "in_flight" /\ status' = [status EXCEPT ![i] = "performed"]
      /\ UNCHANGED <<envelope, ops, lapses, made>>
      /\ outline' = Apply(s, outline, Items(s))
  BY DEF Perform
<1>2. Items(s) = 1
  BY OneItemEach
<1>3. TheOp(i, ops[i].makes) = s
  BY DEF TheOp
<1> HIDE DEF s
<1>4. outline'.kids = Children(s, outline.kids, 1)
  BY <1>1, <1>2 DEF Apply
<1> QED BY <1>1, <1>3, <1>4 DEF Kids

-----------------------------------------------------------------------------
(* The steps that change the outline. *)

LEMMA Begun ==
    ASSUME OpsInv, request.do = "create", NEW i \in DOMAIN ops, status[i] # "pending"
    PROVE  OpsOfCreate(ops) /\ i \in 1 .. Len(ops) /\ (i # 1 => "durable_target" \in made)
<1>1. DOMAIN ops = 1 .. Len(ops) /\ (i # 1 => i \in 2 .. Len(ops))
  BY Indices DEF OpsInv
<1> QED BY <1>1 DEF OpsInv, GoodOps, MadeOK

LEMMA CutOffKeeps ==
    ASSUME OpsInv, Asked, lapses \in Nat, NEW i \in DOMAIN ops,
           CutOff(i), UNCHANGED <<request, leftNone, receipt>>
    PROVE  OpsInv' /\ lapses' \in Nat /\ UNCHANGED <<envelope, made, ops>>
<1> DEFINE L == Children(TheOp(i, NoName), Kids, 1)
<1>1. /\ status[i] = "in_flight" /\ status' = [status EXCEPT ![i] = "cut_off"]
      /\ lapses' = lapses + 1 /\ UNCHANGED <<envelope, ops, made>>
      /\ Kids' = Kids \/ Kids' = L
  BY CutOffIs
<1>2. /\ StatusOK' /\ status'[i] = "cut_off"
      /\ \A j \in DOMAIN ops : j # i => status'[j] = status[j]
  BY <1>1, OneChanges DEF OpsInv, Statuses
<1>3. SameDone
  BY <1>1, <1>2 DEF SameDone, HasDone
<1>4. /\ Len(ops) \in Nat /\ DOMAIN ops = 1 .. Len(ops) /\ 1 \in DOMAIN ops
      /\ (i # 1 => i \in 2 .. Len(ops))
  BY Indices DEF OpsInv
<1>5. AreLists(Kids)
  BY DEF OpsInv
<1> DEFINE H == Kids'
<1>6. /\ AreLists(H)
      /\ Where(Kids, ThePortal) # {} => Where(H, ThePortal) # {}
      /\ request.do = "create" =>
           \A r \in Els(request.from) : Where(Kids, r) = {NewOne} => Where(H, r) = {NewOne}
  <2>1. CASE H = Kids
    BY <1>5, <2>1
  <2>2. CASE H = L /\ request.do = "create"
    <3>1. CreateDoes(i, NoName, Kids, L)
      BY <1>1, <2>2, Begun, CreateOpDoes
    <3> HIDE DEF L, H
    <3> QED BY <1>5, <2>2, <3>1, CreateKeeps
  <2>3. CASE H = L /\ request.do # "create"
    <3>1. request.do = "move" /\ OpsOfMove(ops)
      BY <2>3, RequestIs DEF OpsInv, GoodOps
    <3>2. MoveDoes(i, NoName, "leave_portal" \in ops[i].flags, Kids, L)
      BY <1>4, <1>5, <3>1, MoveOpDoes
    <3> HIDE DEF L, H
    <3>3. AreLists(L) /\ (Where(Kids, ThePortal) # {} => Where(L, ThePortal) # {})
      <4>1. MoveKept(i, NoName, "leave_portal" \in ops[i].flags, Kids, L)
        BY <1>5, <3>1, <3>2, MoveKeeps, Zenon
      <4> QED BY <4>1 DEF MoveKept
    <3> QED BY <2>3, <3>3
  <2> QED BY <1>1, <2>1, <2>2, <2>3
<1>7. lapses' \in Nat /\ lapses' # 0
  BY <1>1
<1>8. GoodOps(ops)'
  BY <1>1, SameOps DEF OpsInv
<1>9. MadeOK'
  <2>1. ASSUME request.do = "create", NEW j \in 2 .. Len(ops), status'[j] # "pending"
        PROVE  "durable_target" \in made
    <3>1. status[j] # "pending"
      BY <1>1, <1>2, <1>4, <2>1
    <3> QED BY <2>1, <3>1 DEF OpsInv, MadeOK
  <2> QED BY <1>1, <1>3, <1>4, <2>1 DEF MadeOK, OpsInv, SameDone
<1>10. MovedOK'
  BY <1>1, <1>3, <1>6 DEF MovedOK, OpsInv, SameDone
<1>11. NoPortalOK' /\ SlotOK'
  BY <1>7 DEF NoPortalOK, SlotOK
<1>12. (PortalDone' <=> PortalDone) /\ (PortalAcked' <=> PortalAcked)
  BY <1>1, <1>3 DEF SameDone, PortalDone, PortalAcked
<1>13. PortalOK'
  BY <1>1, <1>6, <1>12 DEF PortalOK, OpsInv
<1>14. ~LeftOne'
  <2>1. ASSUME LeftOne PROVE FALSE
    <3>1. i # 1 /\ InSlot /\ OpsOfMove(ops)
      BY <1>1, <2>1 DEF LeftOne, HasDone, OpsInv, GoodOps
    <3>2. Len(ops) = 2
      BY <1>4, <3>1 DEF OpsOfMove
    <3> QED BY <3>1, <3>2 DEF OpsOfMove
  <2>2. LeftOne' <=> LeftOne
    BY <1>3, <1>4, SameRequest DEF LeftOne, SameDone
  <2> QED BY <2>1, <2>2
<1>15. LeftOK'
  BY <1>3, <1>4, <1>14 DEF LeftOK, OpsInv, SameDone
<1>16. AreLists(Kids)'
  BY <1>6
<1> QED BY <1>1, <1>2, <1>7, <1>8, <1>9, <1>10, <1>11, <1>13, <1>15, <1>16 DEF OpsInv

LEMMA CreateKinds ==
    ASSUME OpsOfCreate(ops), NEW i \in DOMAIN ops
    PROVE  /\ "leave_portal" \notin ops[i].flags
           /\ ops[i].type = "create_portal" <=> IsLastPortal(ops[i])
           /\ \/ i = 1 /\ ops[i].makes = "durable_target" /\ ~IsLastPortal(ops[i])
              \/ i # 1 /\ ops[i].makes = NoName /\ ~IsLastPortal(ops[i])
              \/ /\ i # 1 /\ i = Len(ops) /\ ops[i].makes = "portal_rem" /\ IsLastPortal(ops[i])
<1>1. i = 1 \/ (i # 1 /\ i \in 2 .. Len(ops))
  <2>1. ops \in Seq(Els(ops)) /\ Len(ops) \in Nat
    BY ListType DEF OpsOfCreate
  <2> QED BY <2>1
<1>2. ASSUME NEW o, IsLastPortal(o)
      PROVE  o.type = "create_portal" /\ o.makes = "portal_rem" /\ o.flags = {}
  BY <1>2 DEF IsLastPortal, IsPortal
<1>3. ASSUME NEW o, IsBelow(o)
      PROVE  o.type # "create_portal" /\ o.makes = NoName /\ o.flags = {}
  BY <1>3 DEF IsBelow, IsText, IsBody, IsMove
<1>4. CASE i = 1
  <2>1. /\ ops[i].type = "create_rem" /\ ops[i].makes = "durable_target"
        /\ "leave_portal" \notin ops[i].flags
    BY <1>4 DEF OpsOfCreate, IsCreate
  <2> QED BY <1>2, <1>4, <2>1
<1>5. CASE i # 1 /\ i \in 2 .. Len(ops)
  BY <1>2, <1>3, <1>5 DEF OpsOfCreate
<1> QED BY <1>1, <1>4, <1>5

LEMMA CreatePerformKeeps ==
    ASSUME OpsInv, Asked, request.do = "create", NEW i \in DOMAIN ops,
           Perform(i), UNCHANGED <<request, leftNone, receipt>>
    PROVE  OpsInv' /\ UNCHANGED <<envelope, lapses, ops>>
<1> DEFINE L == Children(TheOp(i, ops[i].makes), Kids, 1)
<1>1. /\ status[i] = "in_flight" /\ status' = [status EXCEPT ![i] = "performed"]
      /\ UNCHANGED <<envelope, ops, lapses, made>>
      /\ Kids' = L
  BY PerformIs
<1>2. /\ StatusOK' /\ status'[i] = "performed"
      /\ \A j \in DOMAIN ops : j # i => status'[j] = status[j]
  BY <1>1, OneChanges DEF OpsInv, Statuses
<1>3. /\ Len(ops) \in Nat \ {0} /\ DOMAIN ops = 1 .. Len(ops) /\ 1 \in DOMAIN ops
      /\ Len(ops) \in DOMAIN ops
      /\ (i # 1 => i \in 2 .. Len(ops))
  BY Indices DEF OpsInv
<1>4. AreLists(Kids)
  BY DEF OpsInv
<1>5. OpsOfCreate(ops) /\ i \in 1 .. Len(ops) /\ (i # 1 => "durable_target" \in made)
  BY <1>1, Begun
<1>6. CreateDoes(i, ops[i].makes, Kids, L)
  BY <1>5, CreateOpDoes
<1> HIDE DEF L
<1>7. /\ AreLists(L)
      /\ Where(Kids, ThePortal) # {} => Where(L, ThePortal) # {}
      /\ \A r \in Els(request.from) : Where(Kids, r) = {NewOne} => Where(L, r) = {NewOne}
  BY <1>4, <1>6, CreateKeeps
<1>8. /\ ops[i].type = "create_portal" <=> IsLastPortal(ops[i])
      /\ \/ i = 1 /\ ops[i].makes = "durable_target" /\ ~IsLastPortal(ops[i])
         \/ i # 1 /\ ops[i].makes = NoName /\ ~IsLastPortal(ops[i])
         \/ /\ i # 1 /\ i = Len(ops) /\ ops[i].makes = "portal_rem" /\ IsLastPortal(ops[i])
  BY <1>5, CreateKinds
<1>9. GoodOps(ops)' /\ AreLists(Kids)'
  BY <1>1, <1>7, SameOps DEF OpsInv
<1>10. MadeOK'
  <2>1. ASSUME NEW j \in 2 .. Len(ops), status'[j] # "pending" PROVE "durable_target" \in made
    <3>1. CASE j = i
      <4>1. i # 1
        BY <3>1
      <4> QED BY <1>5, <4>1
    <3>2. CASE j # i
      <4>1. status[j] # "pending"
        BY <1>2, <1>3, <2>1, <3>2
      <4> QED BY <4>1 DEF OpsInv, MadeOK
    <3> QED BY <3>1, <3>2
  <2>2. "durable_target" \in made' => status'[1] = "succeeded"
    BY <1>1, <1>2, <1>3 DEF OpsInv, MadeOK
  <2> QED BY <1>1, <2>1, <2>2 DEF MadeOK
<1>11. ASSUME NEW j \in DOMAIN ops, NEW r \in Els(request.from),
              HasDone(j)', IsMove(ops[j], r, NewTmp)
       PROVE  Where(L, r) = {NewOne}
  <2>1. CASE j = i
    BY <1>4, <1>5, <1>6, <1>11, <2>1, CreateMoves
  <2>2. CASE j # i
    <3>1. Where(Kids, r) = {NewOne}
      BY <1>2, <1>11, <2>2 DEF OpsInv, MovedOK, HasDone
    <3> QED BY <1>7, <3>1
  <2> QED BY <2>1, <2>2
<1>12. MovedOK'
  BY <1>1, <1>11 DEF MovedOK
<1>13. /\ PortalDone' <=> PortalDone \/ IsLastPortal(ops[i])
       /\ PortalAcked' <=> PortalAcked
  BY <1>1, <1>2, <1>8 DEF PortalDone, PortalAcked, HasDone
<1>14. ~LeftOne /\ ~LeftOne'
  BY DEF LeftOne
<1>15. NoPortalOK'
  <2>1. ASSUME lapses = 0, ~PortalDone', NEW v \in Portals0 PROVE Where(L, v) = {}
    <3>1. ~PortalDone /\ ~IsLastPortal(ops[i])
      BY <1>13, <2>1
    <3>2. Where(Kids, v) = {}
      BY <1>14, <2>1, <3>1 DEF OpsInv, NoPortalOK
    <3> QED BY <1>4, <1>6, <3>1, <3>2, CreateNoPortal
  <2> QED BY <1>1, <2>1, SameRequest DEF NoPortalOK
<1>16. PortalOK'
  <2>1. IsLastPortal(ops[i]) => Where(L, ThePortal) # {}
    <3>1. ASSUME IsLastPortal(ops[i]) PROVE i # 1 /\ ops[i].makes # NoName
      BY <1>8, <3>1, NamesApart
    <3> QED BY <1>4, <1>6, <3>1, CreatePortal
  <2> QED BY <1>1, <1>7, <1>13, <2>1 DEF PortalOK, OpsInv
<1>17. LeftOK'
  BY <1>2, <1>3, <1>14 DEF LeftOK, OpsInv, HasDone
<1>18. SlotOK'
  <2>1. ASSUME InSlot, lapses = 0
        PROVE  IF HasDone(Len(ops))' THEN Filled(L) ELSE Open(L)
    <3>1. /\ i # Len(ops) /\ Open(Kids) => Open(L)
          /\ i = Len(ops) /\ Open(Kids) => Filled(L)
          /\ i # Len(ops) /\ i # 1 /\ Filled(Kids) => Filled(L)
      BY <1>4, <1>5, <1>6, <2>1, SlotStays
    <3>2. IF HasDone(Len(ops)) THEN Filled(Kids) ELSE Open(Kids)
      BY <2>1 DEF OpsInv, SlotOK
    <3>3. CASE i = Len(ops)
      BY <1>1, <1>2, <3>1, <3>2, <3>3 DEF HasDone
    <3>4. CASE i # Len(ops)
      <4>1. HasDone(Len(ops))' <=> HasDone(Len(ops))
        BY <1>1, <1>2, <1>3, <3>4 DEF HasDone
      <4>2. ASSUME HasDone(Len(ops)) PROVE i # 1
        <5>1. Len(ops) \in 2 .. Len(ops)
          BY <2>1 DEF OpsOfCreate, OpsInv, GoodOps, InSlot
        <5>2. "durable_target" \in made
          BY <4>2, <5>1 DEF OpsInv, MadeOK, HasDone
        <5>3. status[1] = "succeeded"
          BY <5>2 DEF OpsInv, MadeOK
        <5> QED BY <1>1, <5>3
      <4> QED BY <3>1, <3>2, <3>4, <4>1, <4>2
    <3> QED BY <3>3, <3>4
  <2>2. (Open(Kids)' <=> Open(L)) /\ (Filled(Kids)' <=> Filled(L))
    BY <1>1, SameRequest DEF Open, Filled
  <2> QED BY <1>1, <2>1, <2>2, SameRequest DEF SlotOK
<1> QED BY <1>1, <1>2, <1>9, <1>10, <1>12, <1>15, <1>16, <1>17, <1>18 DEF OpsInv

(* The ops of `rem move`. *)
LEMMA MoveKinds ==
    ASSUME OpsOfMove(ops), NEW i \in DOMAIN ops
    PROVE  \/ /\ i = 1 /\ ops[i].makes = NoName /\ ops[i].type # "create_portal"
              /\ "leave_portal" \in ops[i].flags <=> InSlot
           \/ /\ i = 2 /\ ops[i].makes = "portal_rem" /\ ops[i].type = "create_portal"
              /\ "leave_portal" \notin ops[i].flags /\ ~InSlot
<1>1. i = 1 \/ (i = 2 /\ Len(ops) = 2)
  <2>1. ops \in Seq(Els(ops)) /\ Len(ops) \in {1, 2}
    BY ListType DEF OpsOfMove
  <2> QED BY <2>1
<1>2. CASE i = 1
  BY <1>2 DEF OpsOfMove, IsMoveAway
<1>3. CASE i = 2 /\ Len(ops) = 2
  <2>1. \E p : IsPortal(ops[i], p, request.from[1], "portal_rem")
    BY <1>3 DEF OpsOfMove
  <2>2. ~InSlot
    BY <1>3 DEF OpsOfMove
  <2> QED BY <1>3, <2>1, <2>2 DEF IsPortal
<1> QED BY <1>1, <1>2, <1>3

LEMMA MoveStepKeeps ==
    ASSUME OpsInv, Asked, request.do = "move", NEW i \in DOMAIN ops,
           status[i] = "in_flight", status' = [status EXCEPT ![i] = "performed"],
           UNCHANGED <<request, ops, lapses, made>>,
           NEW leaves \in BOOLEAN, MoveDoes(i, ops[i].makes, leaves, Kids, Kids'),
           leaves => InSlot /\ Where(Kids, request.from[1]) # {},
           leftNone' <=> (leftNone \/ (i = 1 /\ InSlot /\ ~leaves))
    PROVE  OpsInv'
<1> DEFINE L == Kids'
           r == request.from[1]
<1>1. /\ StatusOK' /\ status'[i] = "performed"
      /\ \A j \in DOMAIN ops : j # i => status'[j] = status[j]
  BY OneChanges DEF OpsInv, Statuses
<1>2. AreLists(Kids) /\ OpsOfMove(ops) /\ 1 \in DOMAIN ops
  BY Indices DEF OpsInv, GoodOps
<1>3. L = Kids'
  OBVIOUS
<1> HIDE DEF L
<1>4. \/ /\ i = 1 /\ i # 2 /\ ops[i].makes = NoName /\ ops[i].type # "create_portal"
      \/ /\ i = 2 /\ i # 1 /\ ops[i].makes = "portal_rem" /\ ops[i].type = "create_portal"
         /\ ~InSlot
  <2>1. i = 1 \/ i = 2
    BY <1>2, MoveKinds, Zenon
  <2>2. CASE i = 1
    <3>1. i # 2
      BY <2>2
    <3> QED BY <1>2, <2>2, <3>1, MoveKinds, Zenon
  <2>3. CASE i = 2
    <3>1. i # 1
      BY <2>3
    <3> QED BY <1>2, <2>3, <3>1, MoveKinds, Zenon
  <2> QED BY <2>1, <2>2, <2>3
<1>5. /\ AreLists(L)
      /\ Where(Kids, ThePortal) # {} => Where(L, ThePortal) # {}
      /\ i = 1 /\ ~leaves => \A v \in Portals0 : Where(L, v) = Where(Kids, v)
      /\ i = 1 /\ leaves => Where(L, PortalOf(r)) # {}
      /\ i = 2 => Where(L, ThePortal) # {}
  <2>1. MoveDoes(i, ops[i].makes, leaves, Kids, L)
    BY <1>3
  <2>2. i = 2 => ops[i].makes # NoName
    BY <1>4, NamesApart
  <2> DEFINE m == ops[i].makes
  <2> HIDE DEF m
  <2>3. MoveDoes(i, m, leaves, Kids, L) /\ (i = 2 => m # NoName)
    BY <2>1, <2>2 DEF m
  <2>4. MoveKept(i, m, leaves, Kids, L)
    BY <1>2, <2>3, MoveKeeps, Zenon
  <2> QED BY <2>3, <2>4 DEF MoveKept, r
<1>6. GoodOps(ops)' /\ AreLists(Kids)'
  BY <1>3, <1>5, SameOps DEF OpsInv
<1>7. InSlot' = InSlot /\ Portals0' = Portals0
  BY SameRequest
<1>8. MadeOK' /\ MovedOK' /\ SlotOK'
  <2>1. request'.do # "create"
    OBVIOUS
  <2>2. "durable_target" \notin made'
    BY DEF OpsInv, MadeOK
  <2> QED BY <2>1, <2>2 DEF MadeOK, MovedOK, SlotOK
<1>9. (PortalDone' <=> PortalDone \/ i = 2) /\ (PortalAcked' <=> PortalAcked)
  BY <1>1, <1>4 DEF PortalDone, PortalAcked, HasDone
<1>10. i = 1 => ~leftNone /\ ~LeftOne
  BY DEF OpsInv, LeftOK, LeftOne, HasDone
<1>11. i = 1 => (LeftOne' <=> leaves)
  BY <1>1, <1>7, <1>10 DEF LeftOne, HasDone
<1>12. i = 2 => ~LeftOne' /\ (leftNone' <=> leftNone)
  BY <1>4, <1>7 DEF LeftOne
<1>13. NoPortalOK'
  <2>1. ASSUME lapses = 0, ~PortalDone', ~LeftOne', NEW v \in Portals0
        PROVE  Where(L, v) = {}
    <3>1. i = 1 /\ ~PortalDone /\ ~leaves /\ ~LeftOne
      BY <1>4, <1>9, <1>10, <1>11, <2>1
    <3>2. Where(Kids, v) = {}
      BY <2>1, <3>1 DEF OpsInv, NoPortalOK
    <3> QED BY <1>5, <3>1, <3>2
  <2> QED BY <1>3, <1>7, <2>1 DEF NoPortalOK
<1>14. PortalOK'
  <2>1. PortalDone' => Where(L, ThePortal) # {}
    BY <1>5, <1>9 DEF PortalOK, OpsInv
  <2> QED BY <1>3, <1>9, <2>1 DEF PortalOK, OpsInv
<1>15. LeftOK'
  <2>1. LeftOne' => Where(L, PortalOf(r)) # {}
    BY <1>5, <1>4, <1>11, <1>12
  <2>2. leftNone' => HasDone(1)'
    BY <1>1, <1>2, <1>4, <1>12 DEF OpsInv, LeftOK, HasDone
  <2> QED BY <1>3, <2>1, <2>2 DEF LeftOK
<1> QED BY <1>1, <1>6, <1>8, <1>13, <1>14, <1>15 DEF OpsInv

LEMMA MovePerformKeeps ==
    ASSUME OpsInv, Asked, request.do = "move", NEW i \in DOMAIN ops,
           Perform(i), HasPlaceForPortal(i),
           UNCHANGED <<request, leftNone, receipt>>
    PROVE  OpsInv' /\ UNCHANGED <<envelope, lapses, ops>>
<1> DEFINE L == Children(TheOp(i, ops[i].makes), Kids, 1)
           leaves == "leave_portal" \in ops[i].flags
<1>1. /\ status[i] = "in_flight" /\ status' = [status EXCEPT ![i] = "performed"]
      /\ UNCHANGED <<envelope, ops, lapses, made>>
      /\ Kids' = L
  BY PerformIs
<1>2. AreLists(Kids) /\ OpsOfMove(ops) /\ i \in 1 .. Len(ops)
  BY Indices DEF OpsInv, GoodOps
<1>3. MoveDoes(i, ops[i].makes, leaves, Kids, L)
  BY <1>2, MoveOpDoes
<1> HIDE DEF L
<1>4. leaves => InSlot /\ i = 1
  BY <1>2, MoveKinds
<1>5. leftNone' <=> (leftNone \/ (i = 1 /\ InSlot /\ ~leaves))
  <2>1. i = 1 => (leaves <=> InSlot)
    BY <1>2 DEF OpsOfMove
  <2> QED BY <2>1
<1>6. leaves => Where(Kids, request.from[1]) # {}
  <2>1. ASSUME leaves PROVE Where(Kids, request.from[1]) # {}
    <3>1. IsMoveAway(ops[i], request.from[1])
      BY <1>2, <1>4, <2>1 DEF OpsOfMove
    <3>2. Col(ops[i], "rem_id") = <<request.from[1]>>
      BY <3>1 DEF IsMoveAway, Col
    <3>3. At(ops[i], "rem_id") = {request.from[1]}
      BY <3>2, ListOfOne DEF At, Els
    <3>4. ParentsOf({request.from[1]}) # {}
      BY <2>1, <3>3 DEF HasPlaceForPortal
    <3> QED BY <3>4 DEF ParentsOf, Where, Els, Kids
  <2> QED BY <2>1
<1>7. leaves \in BOOLEAN
  OBVIOUS
<1> HIDE DEF leaves
<1> QED BY <1>1, <1>3, <1>4, <1>5, <1>6, <1>7, MoveStepKeeps

LEMMA MoveOnlyKeeps ==
    ASSUME OpsInv, Asked, NEW i \in DOMAIN ops, MoveOnly(i)
    PROVE  OpsInv' /\ leftNone' = TRUE /\ UNCHANGED <<request, envelope, lapses, ops>>
<1> DEFINE s == Substituted(ops[i])
           w == Flagged(s, s.flags \ {"leave_portal"})
           r == request.from[1]
<1>1. /\ status[i] = "in_flight" /\ "leave_portal" \in ops[i].flags
      /\ status' = [status EXCEPT ![i] = "performed"]
      /\ leftNone' = TRUE /\ UNCHANGED <<envelope, ops, lapses, made, request, receipt>>
      /\ outline' = Apply(w, outline, Items(w))
  BY DEF MoveOnly, Flagged
<1>2. request.do = "move"
  <2>1. CASE request.do = "create"
    BY <1>1, <2>1, CreateKinds DEF OpsInv, GoodOps
  <2>2. CASE request.do # "create"
    BY <2>2, RequestIs
  <2> QED BY <2>1, <2>2
<1>3. AreLists(Kids) /\ OpsOfMove(ops)
  BY <1>2 DEF OpsInv, GoodOps
<1>4. i = 1 /\ InSlot /\ ops[i].makes = NoName
  BY <1>1, <1>3, MoveKinds
<1>5. IsMoveAway(ops[i], r) /\ Found(r)
  BY <1>2, <1>3, <1>4, SourceOfMove DEF OpsOfMove
<1> HIDE DEF r
<1>6. IsMoveAway(s, r)
  BY <1>5, SubstitutedAway
<1> HIDE DEF s
<1>8. IsOp(s)
  BY <1>6 DEF IsMoveAway
<1>9. IsOp(w) /\ w.type = s.type /\ w.ids = s.ids /\ w.flags = s.flags \ {"leave_portal"}
      /\ w.makes = s.makes
  BY <1>8, ChangedOp
<1> HIDE DEF w
<1>10. IsMoveAway(w, r) /\ "leave_portal" \notin w.flags
  BY <1>6, <1>9 DEF IsMoveAway
<1>11. Items(w) = 1
  <2>1. DOMAIN w.ids \subseteq PlainPaths
    BY <1>10 DEF IsMoveAway, PlainPaths
  <2> QED BY <2>1, OneItem
<1>12. Kids' = Children(w, Kids, 1)
  <2>1. outline'.kids = Children(w, outline.kids, 1)
    BY <1>1, <1>11 DEF Apply
  <2> QED BY <2>1 DEF Kids
<1>13. PICK M : Moved(M, Kids, r) /\ Children(w, Kids, 1) = M
  BY <1>3, <1>10, AwayEffect
<1>14. MoveDoes(i, ops[i].makes, FALSE, Kids, Kids')
  BY <1>4, <1>12, <1>13 DEF MoveDoes, r
<1>15. OpsInv'
  BY <1>1, <1>2, <1>4, <1>14, MoveStepKeeps
<1> QED BY <1>1, <1>15

-----------------------------------------------------------------------------
(* The ack, and the end of a lease: RemNote stays as it is. *)

LEMMA WhatIsMade ==
    ASSUME OpsInv, Asked, NEW i \in DOMAIN ops
    PROVE  /\ ops[i].makes = "portal_rem" <=> ops[i].type = "create_portal"
           /\ ops[i].makes = "durable_target" => request.do = "create" /\ i = 1
<1>1. CASE request.do = "create"
  <2>1. OpsOfCreate(ops)
    BY <1>1 DEF OpsInv, GoodOps
  <2> QED BY <1>1, <2>1, CreateKinds, NamesApart
<1>2. CASE request.do # "create"
  <2>1. OpsOfMove(ops)
    BY <1>2 DEF OpsInv, GoodOps
  <2>2. \/ ops[i].makes = NoName /\ ops[i].type # "create_portal"
        \/ ops[i].makes = "portal_rem" /\ ops[i].type = "create_portal"
    BY <2>1, MoveKinds, Zenon
  <2> QED BY <2>2, NamesApart
<1> QED BY <1>1, <1>2

LEMMA AckKeeps ==
    ASSUME OpsInv, Asked, NEW i \in DOMAIN ops, Ack(i), UNCHANGED <<request, leftNone, receipt>>
    PROVE  OpsInv' /\ UNCHANGED <<envelope, lapses, ops>>
<1>1. UNCHANGED <<envelope, ops, lapses, outline>> /\ Kids' = Kids
  BY DEF Ack, Kids
<1>2. 1 \in DOMAIN ops /\ Len(ops) \in DOMAIN ops /\ 2 .. Len(ops) \subseteq DOMAIN ops
  BY Indices DEF OpsInv
<1>3. CASE /\ status[i] = "thrown" /\ status' = [status EXCEPT ![i] = "dead"]
           /\ made' = made
  <2>1. /\ StatusOK' /\ status'[i] = "dead"
        /\ \A j \in DOMAIN ops : j # i => status'[j] = status[j]
    BY <1>1, <1>3, OneChanges DEF OpsInv, Statuses
  <2>2. SameDone
    BY <1>3, <2>1 DEF SameDone, HasDone
  <2>3. \A j \in 2 .. Len(ops) : status'[j] # "pending" => status[j] # "pending"
    BY <1>2, <1>3, <2>1
  <2>4. MadeOK'
    BY <1>1, <1>2, <1>3, <2>2, <2>3 DEF MadeOK, OpsInv, SameDone
  <2> QED BY <1>1, <1>3, <2>1, <2>2, <2>4, QuietStep
<1>4. CASE /\ status[i] = "performed" /\ status' = [status EXCEPT ![i] = "succeeded"]
           /\ made' = made \cup ({ops[i].makes} \ {NoName})
  <2>1. /\ StatusOK' /\ status'[i] = "succeeded"
        /\ \A j \in DOMAIN ops : j # i => status'[j] = status[j]
    BY <1>1, <1>4, OneChanges DEF OpsInv, Statuses
  <2>2. \A j \in DOMAIN ops : HasDone(j)' <=> HasDone(j)
    BY <1>4, <2>1 DEF HasDone
  <2>3. /\ ops[i].makes = "portal_rem" <=> ops[i].type = "create_portal"
        /\ ops[i].makes = "durable_target" => request.do = "create" /\ i = 1
    BY WhatIsMade
  <2>4. /\ InSlot' = InSlot /\ Slot0' = Slot0 /\ Lead' = Lead /\ Rest' = Rest
        /\ Members0' = Members0 /\ Portals0' = Portals0
    BY SameRequest
  <2>5. LeftOne' <=> LeftOne
    BY <1>2, <2>2, <2>4 DEF LeftOne
  <2>6. PortalDone' <=> PortalDone
    BY <1>1, <2>2 DEF PortalDone
  <2>7. MadeOK'
    <3>1. \A j \in 2 .. Len(ops) : status'[j] # "pending" => status[j] # "pending"
      BY <1>2, <1>4, <2>1
    <3>2. "durable_target" \in made' => request.do = "create" /\ status'[1] = "succeeded"
      BY <1>2, <1>4, <2>1, <2>3 DEF OpsInv, MadeOK
    <3>3. "durable_target" \in made => "durable_target" \in made'
      BY <1>4
    <3> QED BY <1>1, <3>1, <3>2, <3>3 DEF MadeOK, OpsInv
  <2>8. MovedOK'
    BY <1>1, <2>2 DEF MovedOK, OpsInv
  <2>9. NoPortalOK'
    BY <1>1, <2>4, <2>5, <2>6 DEF NoPortalOK, OpsInv
  <2>10. PortalOK'
    <3>1. PortalAcked' <=> PortalAcked \/ ops[i].type = "create_portal"
      BY <1>1, <1>4, <2>1 DEF PortalAcked
    <3>2. "portal_rem" \in made' <=> "portal_rem" \in made \/ ops[i].makes = "portal_rem"
      BY <1>4, NamesApart
    <3> QED BY <1>1, <2>3, <2>6, <3>1, <3>2 DEF PortalOK, OpsInv
  <2>11. LeftOK'
    BY <1>1, <1>2, <2>2, <2>5 DEF LeftOK, OpsInv
  <2>12. (Open(Kids)' <=> Open(Kids)) /\ (Filled(Kids)' <=> Filled(Kids))
    BY <1>1, <2>4 DEF Open, Filled
  <2>13. SlotOK'
    BY <1>1, <1>2, <2>2, <2>4, <2>12 DEF SlotOK, OpsInv
  <2>14. GoodOps(ops)' /\ AreLists(Kids)'
    BY <1>1, SameOps DEF OpsInv
  <2> QED BY <1>1, <2>1, <2>7, <2>8, <2>9, <2>10, <2>11, <2>13, <2>14 DEF OpsInv
<1> QED BY <1>1, <1>3, <1>4 DEF Ack

LEMMA LapseKeeps ==
    ASSUME OpsInv, NEW i \in DOMAIN ops, Lapse(i), UNCHANGED <<request, leftNone, receipt>>
    PROVE  OpsInv' /\ UNCHANGED <<envelope, lapses, made, ops>>
<1>1. /\ status[i] = "cut_off" /\ status' = [status EXCEPT ![i] = "pending"]
      /\ UNCHANGED <<envelope, ops, lapses, outline, made>>
  BY DEF Lapse
<1>2. /\ StatusOK' /\ status'[i] = "pending"
      /\ \A j \in DOMAIN ops : j # i => status'[j] = status[j]
  BY <1>1, OneChanges DEF OpsInv, Statuses
<1>3. SameDone
  BY <1>1, <1>2 DEF SameDone, HasDone
<1>4. 1 \in DOMAIN ops /\ 2 .. Len(ops) \subseteq DOMAIN ops
  BY Indices DEF OpsInv
<1>5. \A j \in 2 .. Len(ops) : status'[j] # "pending" => status[j] # "pending"
  BY <1>2, <1>4
<1>6. MadeOK'
  BY <1>1, <1>3, <1>4, <1>5 DEF MadeOK, OpsInv, SameDone
<1>7. Kids' = Kids
  BY <1>1 DEF Kids
<1> QED BY <1>1, <1>2, <1>3, <1>6, <1>7, QuietStep

-----------------------------------------------------------------------------
(* The invariant is one. *)

LEMMA SomeOps ==
    ASSUME NEW os, GoodOps(os)
    PROVE  1 \in DOMAIN os /\ Len(os) \in DOMAIN os /\ os # <<>>
<1>1. IsList(os) /\ os # <<>>
  <2>1. CASE request.do = "create"
    BY <2>1 DEF GoodOps, OpsOfCreate
  <2>2. CASE request.do # "create"
    <3>1. IsList(os) /\ Len(os) \in {1, 2}
      BY <2>2 DEF GoodOps, OpsOfMove
    <3>2. Len(<<>>) = 0
      OBVIOUS
    <3> QED BY <3>1, <3>2
  <2> QED BY <2>1, <2>2
<1>2. os \in Seq(Els(os)) /\ Len(os) \in Nat
  BY <1>1, ListType
<1>3. Len(os) \in Nat \ {0} /\ DOMAIN os = 1 .. Len(os)
  BY <1>1, <1>2
<1> QED BY <1>1, <1>3

LEMMA StillAsked == ASSUME Asked, UNCHANGED request PROVE Asked'
  BY DEF Asked

LEMMA PromoInitInv ==
    ASSUME RequestShape, OutlineShape
    PROVE  PromoInit => PromoInv
<1> SUFFICES ASSUME PromoInit PROVE PromoInv
  OBVIOUS
<1>1. /\ Asked /\ leftNone = FALSE /\ envelope.plan = <<>> /\ ops = <<>>
      /\ lapses = 0 /\ outline = Outline0 /\ made = {}
  BY DEF PromoInit, Asked
<1> QED BY <1>1 DEF PromoInv

LEMMA PromoteKeeps == ASSUME PromoInv, Promote PROVE PromoInv'
<1> DEFINE plan == IF request.do = "create" THEN CreatePlan ELSE MovePlan
           os == Compiled(Coalesce(plan))
<1>1. /\ envelope.plan = <<>> /\ ~Refused
      /\ envelope' = [plan |-> plan, dryRun |-> FALSE]
      /\ UNCHANGED <<ops, status, lapses, outline, made, request, leftNone, receipt>>
  BY DEF Promote
<1>2. Asked /\ ops = <<>> /\ outline = Outline0 /\ made = {} /\ lapses = 0
      /\ leftNone = FALSE
  BY <1>1 DEF PromoInv
<1>3. GoodOps(os)
  <2>1. CASE request.do = "create"
    <3>1. plan = CreatePlan
      BY <2>1
    <3> QED BY <1>1, <1>2, <2>1, <3>1, CreatePlanIs DEF GoodOps
  <2>2. CASE request.do # "create"
    <3>1. plan = MovePlan /\ request.do = "move"
      BY <1>2, <2>2, RequestIs
    <3> QED BY <1>1, <1>2, <2>2, <3>1, MovePlanIs DEF GoodOps
  <2> QED BY <2>1, <2>2
<1> HIDE DEF plan
<1>4. envelope'.plan = plan /\ envelope'.dryRun = FALSE
  BY <1>1
<1>5. PlanOps' = os
  BY <1>4 DEF PlanOps
<1> HIDE DEF os
<1>6. GoodOps(PlanOps)'
  <2>1. GoodOps(PlanOps)' <=> GoodOps(os)
    BY <1>1, <1>5, SameRequest DEF GoodOps, OpsOfCreate, OpsOfMove, IsBelow, IsLastPortal
  <2> QED BY <1>3, <2>1
<1> QED BY <1>1, <1>2, <1>4, <1>6, StillAsked DEF PromoInv

LEMMA SubmitKeeps ==
    ASSUME PromoInv, Submit, envelope.plan # <<>>,
           UNCHANGED <<request, leftNone, receipt>>
    PROVE  PromoInv'
<1> DEFINE os == PlanOps
<1>1. /\ ops = <<>> /\ ops' = os
      /\ status' = [i \in DOMAIN os |-> IF envelope.dryRun THEN "shown" ELSE "pending"]
      /\ UNCHANGED <<envelope, lapses, outline, made>>
  BY DEF Submit, PlanOps
<1>2. /\ Asked /\ outline = Outline0 /\ made = {} /\ lapses = 0 /\ leftNone = FALSE
      /\ envelope.dryRun = FALSE /\ GoodOps(os)
  BY <1>1 DEF PromoInv
<1>3. GoodOps(ops)'
  BY <1>1, <1>2, NewOps
<1>4. (GoodOps(PlanOps))'
  BY <1>1, <1>2, SamePlan
<1> HIDE DEF os
<1>5. 1 \in DOMAIN os /\ Len(os) \in DOMAIN os /\ os # <<>>
  BY <1>2, SomeOps
<1>6. status' \in [DOMAIN os -> {"pending"}] /\ \A i \in DOMAIN os : status'[i] = "pending"
  BY <1>1, <1>2
<1>7. StatusOK'
  BY <1>1, <1>6 DEF StatusOK, Statuses
<1>8. Kids' = Outline0.kids /\ AreLists(Outline0.kids)
  BY <1>1, <1>2, OutlineIs DEF Kids
<1>9. \A i \in DOMAIN ops' : status'[i] = "pending"
  BY <1>1, <1>6
<1>10. MadeOK'
  <2>1. \A i \in 2 .. Len(ops') : i \in DOMAIN ops'
    <3>1. IsList(os)
      BY <1>2 DEF GoodOps, OpsOfCreate, OpsOfMove
    <3>2. DOMAIN os = 1 .. Len(os) /\ Len(os) \in Nat
      BY <3>1, ListType
    <3> QED BY <1>1, <3>2
  <2> QED BY <1>1, <1>2, <1>9, <2>1 DEF MadeOK
<1>11. MovedOK'
  BY <1>9 DEF MovedOK, HasDone
<1>12. ~PortalDone' /\ ~PortalAcked'
  BY <1>9 DEF PortalDone, PortalAcked, HasDone
<1>13. ~LeftOne'
  <2>1. status'[1] = "pending"
    BY <1>1, <1>5, <1>9
  <2> QED BY <2>1 DEF LeftOne, HasDone
<1>14. NoPortalOK'
  <2>1. ASSUME NEW v \in Portals0 PROVE Where(Outline0.kids, v) = {}
    <3>1. ~Found(v)
      BY PortalsApart
    <3> QED BY <1>2, <3>1, OutlineIs DEF Where
  <2> QED BY <1>8, <2>1, SameRequest DEF NoPortalOK
<1>15. PortalOK' /\ LeftOK'
  BY <1>1, <1>2, <1>12, <1>13 DEF PortalOK, LeftOK
<1>16. SlotOK'
  <2>1. ASSUME InSlot, request.do = "create" PROVE Open(Outline0.kids)
    BY <1>2, <2>1, OpenAtFirst DEF GoodOps, OpsOfCreate
  <2>2. status'[Len(ops')] = "pending"
    BY <1>1, <1>5, <1>9
  <2>3. Open(Kids)' <=> Open(Outline0.kids)
    BY <1>8, SameRequest DEF Open
  <2>4. InSlot' => InSlot
    BY SameRequest
  <2> QED BY <2>1, <2>2, <2>3, <2>4 DEF SlotOK, HasDone
<1>17. AreLists(Kids)'
  BY <1>8
<1>18. OpsInv'
  BY <1>3, <1>7, <1>10, <1>11, <1>14, <1>15, <1>16, <1>17 DEF OpsInv
<1>19. ops' # <<>>
  BY <1>1, <1>5
<1> QED BY <1>1, <1>2, <1>4, <1>18, <1>19, StillAsked DEF PromoInv

LEMMA NothingNew ==
    ASSUME PromoInv, UNCHANGED <<planVars, request, leftNone>>
    PROVE  PromoInv'
<1>1. UNCHANGED <<envelope, ops, status, lapses, outline, made, request, leftNone>>
  BY DEF planVars
<1>2. ASSUME OpsInv PROVE OpsInv'
  <2>1. SameDone
    BY <1>1 DEF SameDone, HasDone
  <2>2. StatusOK' /\ MadeOK'
    BY <1>1, <1>2 DEF OpsInv, StatusOK, MadeOK
  <2>3. Kids' = Kids
    BY <1>1 DEF Kids
  <2> QED BY <1>1, <1>2, <2>1, <2>2, <2>3, QuietStep
<1>3. GoodOps(PlanOps)' <=> GoodOps(PlanOps)
  BY <1>1, SamePlan
<1> QED BY <1>1, <1>2, <1>3, StillAsked DEF PromoInv

LEMMA OpsStep ==
    ASSUME PromoInv, OpsInv', UNCHANGED <<request, envelope, ops>>, ops # <<>>,
           leftNone' \in BOOLEAN, lapses' \in Nat
    PROVE  PromoInv'
<1>1. GoodOps(PlanOps)' <=> GoodOps(PlanOps)
  BY SamePlan
<1> QED BY <1>1, StillAsked DEF PromoInv

LEMMA PromoNextInv == PromoInv /\ [PromoNext]_promoVars => PromoInv'
<1> SUFFICES ASSUME PromoInv, [PromoNext]_promoVars PROVE PromoInv'
  OBVIOUS
<1>1. ASSUME NEW i \in DOMAIN ops
      PROVE  OpsInv /\ ops # <<>> /\ Asked /\ lapses \in Nat /\ leftNone \in BOOLEAN
  <2>1. ops # <<>>
    OBVIOUS
  <2> QED BY <2>1 DEF PromoInv
<1>2. CASE Promote
  BY <1>2, PromoteKeeps
<1>3. CASE Answer
  BY <1>3, NothingNew DEF Answer
<1>4. ASSUME NEW i \in DOMAIN ops, MoveOnly(i) PROVE PromoInv'
  BY <1>1, <1>4, MoveOnlyKeeps, OpsStep
<1>5. CASE Submit /\ envelope.plan # <<>> /\ UNCHANGED <<request, leftNone, receipt>>
  BY <1>5, SubmitKeeps
<1>6. ASSUME UNCHANGED <<request, leftNone, receipt>>, NEW i \in DOMAIN ops
      PROVE  /\ Send(i) => PromoInv'
             /\ Perform(i) /\ HasPlaceForPortal(i) => PromoInv'
             /\ Throw(i) => PromoInv'
             /\ Ack(i) => PromoInv'
             /\ CutOff(i) => PromoInv'
             /\ Lapse(i) => PromoInv'
  <2>1. ASSUME Send(i) PROVE PromoInv'
    BY <1>1, <1>6, <2>1, SendKeeps, OpsStep
  <2>2. ASSUME Perform(i), HasPlaceForPortal(i) PROVE PromoInv'
    <3>1. OpsInv' /\ UNCHANGED <<envelope, lapses, ops>>
      <4>1. CASE request.do = "create"
        BY <1>1, <1>6, <2>2, <4>1, CreatePerformKeeps
      <4>2. CASE request.do # "create"
        <5>1. request.do = "move"
          BY <1>1, <4>2, RequestIs
        <5> QED BY <1>1, <1>6, <2>2, <5>1, MovePerformKeeps
      <4> QED BY <4>1, <4>2
    <3> QED BY <1>1, <1>6, <3>1, OpsStep
  <2>3. ASSUME Throw(i) PROVE PromoInv'
    BY <1>1, <1>6, <2>3, ThrowKeeps, OpsStep
  <2>4. ASSUME Ack(i) PROVE PromoInv'
    BY <1>1, <1>6, <2>4, AckKeeps, OpsStep
  <2>5. ASSUME CutOff(i) PROVE PromoInv'
    BY <1>1, <1>6, <2>5, CutOffKeeps, OpsStep
  <2>6. ASSUME Lapse(i) PROVE PromoInv'
    BY <1>1, <1>6, <2>6, LapseKeeps, OpsStep
  <2> QED BY <2>1, <2>2, <2>3, <2>4, <2>5, <2>6
<1>7. CASE UNCHANGED promoVars
  BY <1>7, NothingNew DEF promoVars
<1> QED BY <1>2, <1>3, <1>4, <1>5, <1>6, <1>7 DEF PromoNext

-----------------------------------------------------------------------------
(* What the invariant says of the portal, and of the receipt. *)

LEMMA ThereIs ==
    PortalThere <=> \E v \in Portals0 : Where(Kids, v) # {}
  BY DEF PortalThere, Where, Kids, Els

LEMMA AllMoved ==
    ASSUME OpsInv, request.do = "create", Targets,
           \A i \in DOMAIN ops : ops[i].type # "create_portal" => status[i] = "succeeded"
    PROVE  request.from # <<>> /\ \A r \in Els(request.from) : Where(Kids, r) = {NewOne}
<1>1. OpsOfCreate(ops) /\ MovedOK
  BY DEF OpsInv, GoodOps
<1>2. DOMAIN ops = 1 .. Len(ops) /\ Len(ops) \in Nat
  BY Indices DEF OpsInv
<1>3. ASSUME NEW r \in Els(request.from) PROVE Where(Kids, r) = {NewOne}
  <2>1. PICK i \in 2 .. Len(ops) : IsMove(ops[i], r, NewTmp)
    BY <1>1 DEF OpsOfCreate
  <2>2. i \in DOMAIN ops /\ ops[i].type # "create_portal"
    BY <1>2, <2>1 DEF IsMove
  <2> QED BY <1>1, <2>1, <2>2 DEF MovedOK, HasDone
<1> QED BY <1>1, <1>3 DEF OpsOfCreate

LEMMA SlotIsFilled == ASSUME PromoInv PROVE PortalFillsSlot
<1> SUFFICES ASSUME ops # <<>>, Done, lapses = 0, ~leftNone,
                    InSlot, request.do = "create"
             PROVE  \E slot \in Slots :
                      \/ Without(Kids, NewOne)[slot[1]] =
                           Before(slot[1], slot[2]) \o <<ThePortal>>
                           \o After(slot[1], slot[2])
                      \/ NewOne \in Range(SubSeq(Kids[slot[1]], 1, slot[2] - 1))
  BY DEF PortalFillsSlot, InSlot, Slots, Kids, NewOne, ThePortal, Durable,
         PortalRem
<1> DEFINE p == Slot0[1]
           s == Kids[p]
<1>1. OpsInv /\ OpsOfCreate(ops) /\ Asked
  BY DEF PromoInv, OpsInv, GoodOps
<1>2. Slots # {} /\ Targets
  BY <1>1 DEF OpsOfCreate
<1>3. \A i \in DOMAIN ops : status[i] = "succeeded"
  BY DEF Done
<1>4. Filled(Kids) /\ AreLists(Kids)
  BY <1>1, <1>3, Indices DEF OpsInv, SlotOK, HasDone
<1>5. IsList(Lead) /\ Len(Lead) = Slot0[2] - 1 /\ NewOne \notin Els(Lead) /\ Found(p)
  BY <1>1, <1>2, LeadIs
<1>6. Members0 = Els(request.from) /\ ThePortal # NewOne /\ p # NewOne
  BY <1>1, <1>5, NewAreNoMembers, NewApart, FoundApart
<1>7. p \in DOMAIN Kids /\ FitsAround(s, Lead, Rest, Members0, NewOne, ThePortal) /\ IsList(s)
  BY <1>4 DEF Filled, AreLists
<1>8. Els(s) \cap Members0 = {}
  <2>1. \A r \in Members0 : Where(Kids, r) = {NewOne}
    BY <1>1, <1>2, <1>3, <1>6, AllMoved
  <2> QED BY <1>6, <1>7, <2>1 DEF Where
<1> HIDE DEF p, s
<1>9. \/ Leaving(s, {NewOne}) = Lead ++ <<ThePortal>> ++ Rest
      \/ NewOne \in Els(SubSeq(s, 1, Len(Lead)))
  BY <1>5, <1>6, <1>7, <1>8, FilledAtLast
<1>10. Without(Kids, NewOne)[p] = Leaving(s, {NewOne})
  BY <1>7 DEF Without, s
<1>11. Slot0 \in Slots
  BY <1>2 DEF Slot0, Slots
<1>12. CASE Leaving(s, {NewOne}) = Lead ++ <<ThePortal>> ++ Rest
  <2>1. Without(Kids, NewOne)[Slot0[1]]
          = Before(Slot0[1], Slot0[2]) \o <<ThePortal>>
            \o After(Slot0[1], Slot0[2])
    BY <1>10, <1>12 DEF p, ++, Lead, Rest
  <2> QED BY <1>11, <2>1
<1>13. CASE NewOne \in Els(SubSeq(s, 1, Len(Lead)))
  <2>1. NewOne \in Range(SubSeq(Kids[Slot0[1]], 1, Slot0[2] - 1))
    BY <1>5, <1>13 DEF p, s, Els
  <2> QED BY <1>11, <2>1
<1> QED BY <1>9, <1>12, <1>13

LEMMA DoneIsTold ==
    ASSUME OpsInv, Asked, lapses \in Nat, leftNone \in BOOLEAN, Done,
           receipt' = [status |-> "ok",
                       portal |-> IF request.do = "move" /\ InSlot THEN ~leftNone
                                  ELSE "portal_rem" \in made]
    PROVE  GoodReceipt
<1>1. 1 \in DOMAIN ops /\ \A i \in DOMAIN ops : status[i] = "succeeded"
  BY Indices DEF OpsInv, Done
<1>2. CASE request.do = "move" /\ InSlot
  <2>1. OpsOfMove(ops)
    BY <1>2 DEF OpsInv, GoodOps
  <2>2. ~PortalDone
    BY <1>2, <2>1, MoveKinds DEF PortalDone
  <2>3. LeftOne <=> ~leftNone
    BY <1>1, <1>2 DEF LeftOne, HasDone
  <2>4. PortalOf(request.from[1]) \in Portals0
    BY <1>2, SourceOfMove DEF Portals0, PortalOf, Els
  <2>5. ~leftNone => PortalThere
    BY <2>3, <2>4, ThereIs DEF OpsInv, LeftOK
  <2>6. leftNone /\ lapses = 0 => ~PortalThere
    BY <2>2, <2>3, ThereIs DEF OpsInv, NoPortalOK
  <2> QED BY <1>2, <2>5, <2>6 DEF GoodReceipt
<1>3. CASE ~(request.do = "move" /\ InSlot)
  <2>1. ~LeftOne
    BY <1>3 DEF LeftOne
  <2>2. ThePortal \in Portals0
    BY DEF Portals0, ThePortal, PortalRem
  <2>3. "portal_rem" \in made => PortalThere
    BY <1>1, <2>2, ThereIs DEF OpsInv, PortalOK, PortalAcked, PortalDone, HasDone
  <2>4. "portal_rem" \notin made /\ lapses = 0 => ~PortalThere
    <3>1. ~PortalAcked => ~PortalDone
      BY <1>1 DEF PortalAcked, PortalDone
    <3> QED BY <2>1, <3>1, ThereIs DEF OpsInv, PortalOK, NoPortalOK
  <2> QED BY <1>3, <2>3, <2>4 DEF GoodReceipt
<1> QED BY <1>2, <1>3

LEMMA PartialIsTold ==
    ASSUME OpsInv, Asked, lapses \in Nat, request.do = "create",
           Partial, receipt' = [status |-> "partial", portal |-> FALSE]
    PROVE  GoodReceipt
<1>1. /\ \A i \in DOMAIN ops : ops[i].type # "create_portal" => status[i] = "succeeded"
      /\ \E i \in DOMAIN ops : ops[i].type = "create_portal" /\ status[i] # "succeeded"
  BY DEF Partial, PortalOps
<1>2. \A i \in DOMAIN ops : ops[i].type = "create_portal" => i = Len(ops)
  BY PortalIsLast DEF OpsInv
<1>3. ~LeftOne
  BY DEF LeftOne
<1>4. ASSUME PortalThere PROVE PortalUnderWay
  <2>1. CASE PortalDone
    <3>1. PICK i \in DOMAIN ops : ops[i].type = "create_portal" /\ HasDone(i)
      BY <2>1 DEF PortalDone
    <3>2. status[i] = "performed"
      BY <1>1, <1>2, <3>1 DEF HasDone
    <3> QED BY <3>1, <3>2 DEF PortalUnderWay, PortalOps, InFlight
  <2>2. CASE ~PortalDone
    BY <1>3, <1>4, <2>2, ThereIs DEF OpsInv, NoPortalOK, PortalUnderWay
  <2> QED BY <2>1, <2>2
<1>5. ASSUME Targets
      PROVE  ParentsOf(Range(Sources)) = {NewOne}
  <2>1. request.from # <<>> /\ \A r \in Els(request.from) : Where(Kids, r) = {NewOne}
    BY <1>1, <1>5, AllMoved
  <2>2. Els(Sources) = Els(request.from) /\ Els(request.from) # {}
    BY <2>1, RequestIs, SourcesAre, ElsEmpty, ListType
  <2> QED BY <2>1, <2>2 DEF ParentsOf, Where, Kids, Els
<1> QED BY <1>4, <1>5 DEF GoodReceipt, NewOne, Durable

LEMMA AnswerIsTrue ==
    PromoInv /\ [PromoNext]_promoVars => (receipt' # receipt => GoodReceipt)
<1> SUFFICES ASSUME PromoInv, [PromoNext]_promoVars, receipt' # receipt
             PROVE  GoodReceipt
  OBVIOUS
<1>1. Answer
  BY DEF PromoNext, promoVars, Promote, MoveOnly
<1>2. OpsInv /\ Asked /\ lapses \in Nat /\ leftNone \in BOOLEAN
  BY <1>1 DEF PromoInv, Answer
<1>3. CASE Done /\ receipt'.status = "ok"
  <2>1. receipt' = [status |-> "ok",
                    portal |-> IF request.do = "move" /\ InSlot THEN ~leftNone
                               ELSE "portal_rem" \in made]
    BY <1>1, <1>3 DEF Answer, InSlot, PortalRem
  <2> QED BY <1>2, <1>3, <2>1, DoneIsTold
<1>4. CASE request.do = "create" /\ Partial /\ receipt' = [status |-> "partial", portal |-> FALSE]
  BY <1>2, <1>4, PartialIsTold
<1>5. CASE receipt' = [status |-> "failed", portal |-> FALSE]
  BY <1>5 DEF GoodReceipt
<1> QED BY <1>1, <1>3, <1>4, <1>5 DEF Answer

-----------------------------------------------------------------------------
(* A portal that `rem create` leaves in place stands where its sources were, with
   what was before them and after them around it: for every outline, slot and
   place of the new Rem, in whatever order the moves and the portal are
   performed. *)
THEOREM PortalsFillSlots ==
    ASSUME RequestShape, OutlineShape
    PROVE  PromoSpec => []PortalFillsSlot
<1>1. PromoInit => PromoInv
  BY PromoInitInv
<1>2. PromoSpec => []PromoInv
  BY <1>1, PromoNextInv, PTL DEF PromoSpec
<1>3. PromoInv => PortalFillsSlot
  BY SlotIsFilled
<1> QED BY <1>2, <1>3, PTL

(* What the caller of `rem create` and `rem move` is told is so, whenever it is
   told: the sources of a partial success are below the new Rem, and the portal
   is missing unless a delivery of it is under way or has been cut off; a
   success says whether there is one. *)
THEOREM ReceiptsAreTrue ==
    ASSUME RequestShape, OutlineShape
    PROVE  PromoSpec => ReceiptTellsTruth
<1>1. PromoInit => PromoInv
  BY PromoInitInv
<1>2. PromoSpec => []PromoInv
  BY <1>1, PromoNextInv, PTL DEF PromoSpec
<1>3. ASSUME PromoInv, [PromoNext]_promoVars
      PROVE  [receipt' # receipt => GoodReceipt]_promoVars
  BY <1>3, AnswerIsTrue
<1>4. PromoSpec => [][receipt' # receipt => GoodReceipt]_promoVars
  BY <1>2, <1>3, PTL DEF PromoSpec
<1> QED BY <1>4 DEF ReceiptTellsTruth
=============================================================================
