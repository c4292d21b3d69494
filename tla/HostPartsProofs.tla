--------------------------- MODULE HostPartsProofs ---------------------------
(***************************************************************************)
(* What is proved of the parts, of HostParts: the part that runs does what *)
(* its own specification allows, so that what holds of the part, for every *)
(* value of its constants, holds of the whole.  The proofs about the       *)
(* bridge, which HostParts extends, are here; those about the others are   *)
(* in DeliveryProofs, PromotionProofs and LocalPartsProofs.                *)
(***************************************************************************)
EXTENDS HostParts, LocalPartsProofs, SequenceTheorems

-----------------------------------------------------------------------------
(* The bridge, for every set of connections and jobs and every choice of the
   timings *)

(* What the election needs of the state. *)
RankOK == idle \in Seq(Conns) /\ used \in Seq(Conns)

WorkersOK == workers \subseteq Conns

QuarantineOK == quarantine \in [Conns -> Nat]

IInv == RankOK /\ WorkersOK /\ QuarantineOK /\ ActiveIsServing

-----------------------------------------------------------------------------
(* Sequences of connections *)

LEMMA WithoutIsSeq ==
    ASSUME NEW S, NEW s \in Seq(S), NEW c
    PROVE  Without(s, c) \in Seq(S)
<1>1. CASE c \notin Members(s)
  BY <1>1 DEF Without
<1>2. CASE c \in Members(s)
  <2> DEFINE k == CHOOSE i \in DOMAIN s : s[i] = c
  <2>1. k \in 1 .. Len(s)
    BY <1>2, DOMAIN s = 1 .. Len(s) DEF Members
  <2>2. SubSeq(s, 1, k - 1) \in Seq(S) /\ SubSeq(s, k + 1, Len(s)) \in Seq(S)
    <3> HIDE DEF k
    <3> QED BY <2>1, SubSeqProperties
  <2>3. SubSeq(s, 1, k - 1) \o SubSeq(s, k + 1, Len(s)) \in Seq(S)
    BY <2>2, ConcatProperties
  <2> QED BY <1>2, <2>3 DEF Without
<1> QED BY <1>1, <1>2

(* Every member of a rank is a member of one of its parts. *)
LEMMA ConcatMembers ==
    ASSUME NEW S, NEW s \in Seq(S), NEW t \in Seq(S)
    PROVE  Members(s \o t) \subseteq Members(s) \cup Members(t)
<1> SUFFICES ASSUME NEW i \in DOMAIN (s \o t)
             PROVE  (s \o t)[i] \in Members(s) \cup Members(t)
  BY DEF Members
<1>1. i \in 1 .. Len(s) + Len(t)
  BY ConcatProperties
<1>2. CASE i <= Len(s)
  BY <1>1, <1>2, ConcatProperties DEF Members
<1>3. CASE ~(i <= Len(s))
  <2>1. (s \o t)[i] = t[i - Len(s)] /\ i - Len(s) \in 1 .. Len(t)
    BY <1>1, <1>3, ConcatProperties
  <2> QED BY <2>1 DEF Members
<1> QED BY <1>2, <1>3

(* Whoever is elected is a connected, eligible worker. *)
LEMMA ElectedServes ==
    ASSUME NEW s \in Seq(Conns), NEW t \in Seq(Conns), NEW W, NEW looked, NEW quar,
           NEW c \in Elected(s \o t, Eligible(W, looked, quar)), c # NoConn
    PROVE  c \in W /\ quar[c] = 0 /\ c \in Members(s) \cup Members(t)
<1>1. c \in Eligible(W, looked, quar) /\ c \in Members(s \o t)
  BY DEF Elected, Members
<1> QED BY <1>1, ConcatMembers DEF Eligible

-----------------------------------------------------------------------------
(* The invariant *)

(* An election leaves a serving worker, or none, whatever led to it. *)
LEMMA RecomputeServes == ASSUME RankOK', Recompute PROVE ActiveIsServing'
  BY ElectedServes DEF RankOK, Recompute, ActiveIsServing, Clients

LEMMA InitIInv == Init => IInv
  BY Timing DEF Init, IInv, RankOK, WorkersOK, QuarantineOK, ActiveIsServing

(* Where neither the rank nor the workers nor the quarantines nor the active
   worker change, nothing does. *)
LEMMA UnchangedElection ==
    ASSUME IInv, UNCHANGED <<idle, used, workers, active, quarantine>>
    PROVE  IInv'
  BY DEF IInv, RankOK, WorkersOK, QuarantineOK, ActiveIsServing, Clients

LEMMA ConnectionIInv == ASSUME IInv, ConnectionStep PROVE IInv'
<1> USE DEF electVars
<1> PICK c \in Conns : Connect(c) \/ Register(c) \/ Activity(c) \/ Pong(c)
                       \/ SocketCloses(c) \/ Disconnect(c)
  BY DEF ConnectionStep
<1>1. CASE Connect(c)
  <2>1. RankOK' /\ WorkersOK' /\ QuarantineOK' /\ Recompute
    BY <1>1 DEF Connect, IInv, RankOK, WorkersOK, QuarantineOK
  <2> QED BY <2>1, RecomputeServes DEF IInv
<1>2. CASE Register(c)
  <2>1. RankOK' /\ WorkersOK' /\ QuarantineOK' /\ Recompute
    BY <1>2 DEF Register, IInv, RankOK, WorkersOK, QuarantineOK
  <2> QED BY <2>1, RecomputeServes DEF IInv
<1>3. CASE Activity(c)
  <2>1. RankOK' /\ WorkersOK' /\ QuarantineOK' /\ Recompute
    BY <1>3, WithoutIsSeq DEF Activity, IInv, RankOK, WorkersOK, QuarantineOK
  <2> QED BY <2>1, RecomputeServes DEF IInv
<1>4. CASE Pong(c)
  BY <1>4, UnchangedElection DEF Pong
<1>5. CASE SocketCloses(c)
  BY <1>5, UnchangedElection DEF SocketCloses
<1>6. CASE Disconnect(c)
  <2>1. RankOK' /\ WorkersOK' /\ QuarantineOK' /\ Recompute
    BY <1>6, WithoutIsSeq DEF Disconnect, IInv, RankOK, WorkersOK, QuarantineOK
  <2> QED BY <2>1, RecomputeServes DEF IInv
<1> QED BY <1>1, <1>2, <1>3, <1>4, <1>5, <1>6

LEMMA WorkIInv == ASSUME IInv, WorkStep PROVE IInv'
  BY UnchangedElection
     DEF WorkStep, Enqueue, ComesDue, Ack, LeaseExtend, RequestOps, RejectedAck,
         TriggerStartSync, electVars

LEMMA TickIInv == ASSUME IInv, Tick PROVE IInv'
<1>1. RankOK' /\ WorkersOK'
  BY DEF Tick, IInv, RankOK, WorkersOK, electVars
<1>2. QuarantineOK'
  BY DEF Tick, IInv, QuarantineOK, Left
<1>3. ActiveIsServing'
  BY DEF Tick, IInv, WorkersOK, ActiveIsServing, Clients, Left, electVars
<1> QED BY <1>1, <1>2, <1>3 DEF IInv

LEMMA HeartbeatIInv == ASSUME IInv, HeartbeatTick PROVE IInv'
<1>1. RankOK' /\ WorkersOK' /\ QuarantineOK' /\ Recompute
  BY DEF HeartbeatTick, IInv, RankOK, WorkersOK, QuarantineOK
<1> QED BY <1>1, RecomputeServes DEF IInv

(* A kick that escalates leaves the next worker, any other the one it found. *)
LEMMA KickIInv == ASSUME IInv, KickTick PROVE IInv'
<1>1. RankOK' /\ WorkersOK' /\ UNCHANGED <<idle, used, workers>>
  BY DEF KickTick, IInv, RankOK, WorkersOK
<1> PICK leader \in Leaders :
           \/ leader # NoConn /\ (Escalate(leader) \/ NoEscalation(leader))
           \/ active' = leader /\ UNCHANGED quarantine
  BY DEF KickTick
<1>2. leader # NoConn => leader \in workers \cap Clients /\ quarantine[leader] = 0
  BY ElectedServes DEF Leaders, IInv, RankOK, Clients
<1>3. CASE active' = leader /\ UNCHANGED quarantine
  BY <1>1, <1>2, <1>3 DEF IInv, QuarantineOK, ActiveIsServing, Clients
<1>4. CASE leader # NoConn /\ Escalate(leader)
  <2>1. QuarantineOK'
    BY <1>4, Timing DEF Escalate, IInv, QuarantineOK
  <2>2. active' # NoConn => active' \in workers \cap Clients /\ quarantine'[active'] = 0
    <3>1. active' \in Elected(idle \o used, Eligible(workers, seenAge, quarantine'))
      BY <1>4 DEF Escalate
    <3> QED BY <3>1, ElectedServes DEF IInv, RankOK, Clients
  <2>3. ActiveIsServing'
    BY <1>1, <2>2 DEF ActiveIsServing, Clients
  <2> QED BY <1>1, <2>1, <2>3 DEF IInv
<1>5. CASE leader # NoConn /\ NoEscalation(leader)
  BY <1>3, <1>5 DEF NoEscalation
<1> QED BY <1>3, <1>4, <1>5

LEMMA NextIInv == IInv /\ [Next]_vars => IInv'
<1> SUFFICES ASSUME IInv, [Next]_vars PROVE IInv'
  OBVIOUS
<1>1. CASE Next
  BY <1>1, ConnectionIInv, WorkIInv, TickIInv, HeartbeatIInv, KickIInv DEF Next
<1>2. CASE UNCHANGED vars
  BY <1>2, UnchangedElection DEF vars, electVars
<1> QED BY <1>1, <1>2

(* After every event the active worker is a connected, registered worker that
   is not quarantined, or there is none: no event that changes who may work
   (connect, register, disconnect, escalation) forgets to elect again. *)
THEOREM ActiveWorkerServes == Spec => []ActiveIsServing
<1>1. IInv => ActiveIsServing
  BY DEF IInv
<1> QED BY <1>1, InitIInv, NextIInv, PTL DEF Spec

-----------------------------------------------------------------------------
(* The window the user works in *)

EndsWith(s, c) == s # <<>> /\ s[Len(s)] = c

(* The window that was touched last ranks before all others until it has
   gone; a connection never comes back. *)
TouchedLeads ==
    touched # NoConn =>
      touched \in Conns /\ (socket[touched] = "closed" \/ EndsWith(used, touched))

SocketsOK == socket \in [Conns -> {"new", "open", "closed"}]

HInv == RankOK /\ WorkersOK /\ SocketsOK /\ TouchedLeads

(* Another one may leave the sequence: the last stays the last. *)
LEMMA LastStays ==
    ASSUME NEW s \in Seq(Conns), NEW c, NEW d, c # d, EndsWith(s, c)
    PROVE  EndsWith(Without(s, d), c)
<1>1. CASE d \notin Members(s)
  BY <1>1 DEF Without
<1>2. CASE d \in Members(s)
  <2> DEFINE k == CHOOSE i \in DOMAIN s : s[i] = d
             a == SubSeq(s, 1, k - 1)
             b == SubSeq(s, k + 1, Len(s))
  <2>1. k \in 1 .. Len(s) /\ s[k] = d
    BY <1>2, DOMAIN s = 1 .. Len(s) DEF Members
  <2>2. Without(s, d) = a \o b
    BY <1>2 DEF Without
  <2> HIDE DEF k
  <2>3. k < Len(s)
    BY <2>1 DEF EndsWith
  <2>4. a \in Seq(Conns) /\ b \in Seq(Conns) /\ Len(b) = Len(s) - k
        /\ b[Len(s) - k] = s[Len(s)]
    <3>1. Len(s) \in Nat /\ k \in 1 .. Len(s) /\ k - 1 \in 0 .. Len(s) /\ k + 1 \in 1 .. Len(s)
      BY <2>1, <2>3
    <3>2. a \in Seq(Conns)
      BY <3>1, SubSeqProperties
    <3>3. /\ b \in Seq(Conns) /\ Len(b) = Len(s) - (k + 1) + 1
          /\ \A i \in 1 .. Len(s) - (k + 1) + 1 : b[i] = s[k + 1 + i - 1]
      BY <3>1, SubSeqProperties
    <3> HIDE DEF a, b
    <3>4. Len(s) - (k + 1) + 1 = Len(s) - k /\ Len(s) - k \in 1 .. Len(s) - (k + 1) + 1
          /\ k + 1 + (Len(s) - k) - 1 = Len(s)
      BY <2>3, <3>1
    <3> QED BY <3>2, <3>3, <3>4
  <2> HIDE DEF a, b
  <2>5. Len(a \o b) = Len(a) + Len(b) /\ (a \o b)[Len(a) + Len(b)] = b[Len(b)]
    <3>1. Len(a) \in Nat /\ Len(b) \in Nat \ {0}
      BY <2>1, <2>3, <2>4
    <3>2. Len(a \o b) = Len(a) + Len(b)
      BY <2>4, ConcatProperties
    <3>3. \A i \in 1 .. Len(a) + Len(b) :
            (a \o b)[i] = IF i <= Len(a) THEN a[i] ELSE b[i - Len(a)]
      BY <2>4, ConcatProperties
    <3>4. Len(a) + Len(b) - Len(a) = Len(b)
      BY <3>1
    <3>5. Len(a) + Len(b) \in 1 .. Len(a) + Len(b) /\ ~(Len(a) + Len(b) <= Len(a))
      BY <3>1
    <3> QED BY <3>2, <3>3, <3>4, <3>5
  <2>6. a \o b # <<>>
    BY <2>1, <2>3, <2>4, <2>5
  <2> QED BY <2>2, <2>4, <2>5, <2>6 DEF EndsWith
<1> QED BY <1>1, <1>2

LEMMA AppendedLast ==
    ASSUME NEW s \in Seq(Conns), NEW c \in Conns
    PROVE  EndsWith(Append(Without(s, c), c), c)
<1>1. Without(s, c) \in Seq(Conns)
  BY WithoutIsSeq
<1> QED BY <1>1 DEF EndsWith

LEMMA InitHInv == HInit => HInv
  BY DEF HInit, Init, HInv, RankOK, WorkersOK, SocketsOK, TouchedLeads

LEMMA NextHInv == HInv /\ [HNext]_hvars => HInv'
<1> SUFFICES ASSUME HInv, [HNext]_hvars PROVE HInv'
  OBVIOUS
<1> USE DEF HInv
<1>1. CASE UNCHANGED hvars
  BY <1>1 DEF hvars, vars, electVars, RankOK, WorkersOK, SocketsOK, TouchedLeads
<1>2. CASE HNext /\ \E c \in Conns : Activity(c)
  <2> DEFINE c == CHOOSE x \in Conns : Activity(x)
  <2>1. c \in Conns /\ Activity(c)
    BY <1>2
  <2>2. touched' = c
    BY <1>2 DEF HNext
  <2> HIDE DEF c
  <2>3. RankOK' /\ WorkersOK' /\ SocketsOK'
    BY <2>1, WithoutIsSeq DEF Activity, RankOK, WorkersOK, SocketsOK
  <2>4. EndsWith(used', c)
    BY <2>1, AppendedLast DEF Activity, RankOK
  <2> QED BY <2>1, <2>2, <2>3, <2>4 DEF TouchedLeads
<1>3. CASE HNext /\ ~\E c \in Conns : Activity(c)
  <2> Next /\ touched' = touched
    BY <1>3 DEF HNext
  <2> USE DEF electVars
  <2>1. SUFFICES ASSUME TRUE PROVE
          /\ RankOK' /\ WorkersOK' /\ SocketsOK'
          /\ touched \in Conns => \/ socket'[touched] = "closed"
                                  \/ socket[touched] # "closed"
                                     /\ (EndsWith(used, touched) => EndsWith(used', touched))
    BY <1>3, <2>1 DEF TouchedLeads
  <2>2. UNCHANGED electVars => RankOK' /\ WorkersOK' /\ SocketsOK' /\ used' = used /\ socket' = socket
    BY DEF RankOK, WorkersOK, SocketsOK
  <2>3. ASSUME NEW c \in Conns, Connect(c) \/ Register(c)
        PROVE  /\ RankOK' /\ WorkersOK' /\ SocketsOK' /\ used' = used
               /\ \A d \in Conns : socket[d] = "closed" => socket'[d] = "closed"
    <3>1. CASE Connect(c)
      BY <3>1 DEF Connect, RankOK, WorkersOK, SocketsOK
    <3>2. CASE Register(c)
      BY <3>2 DEF Register, RankOK, WorkersOK, SocketsOK
    <3> QED BY <2>3, <3>1, <3>2
  <2>4. ASSUME NEW c \in Conns, SocketCloses(c)
        PROVE  /\ RankOK' /\ WorkersOK' /\ SocketsOK' /\ used' = used
               /\ \A d \in Conns : socket[d] = "closed" => socket'[d] = "closed"
    BY <2>4 DEF SocketCloses, RankOK, WorkersOK, SocketsOK
  <2>5. ASSUME NEW c \in Conns, Disconnect(c)
        PROVE  /\ RankOK' /\ WorkersOK' /\ SocketsOK' /\ socket' = socket
               /\ \A d \in Conns : socket[d] # "closed" /\ EndsWith(used, d) => EndsWith(used', d)
    <3>1. RankOK' /\ WorkersOK' /\ SocketsOK' /\ socket' = socket
      BY <2>5, WithoutIsSeq DEF Disconnect, RankOK, WorkersOK, SocketsOK
    <3>2. socket[c] = "closed" /\ used' = Without(used, c)
      BY <2>5 DEF Disconnect
    <3> QED BY <3>1, <3>2, LastStays DEF RankOK
  <2>6. ASSUME NEW c \in Conns, Pong(c) PROVE UNCHANGED electVars
    BY <2>6 DEF Pong
  <2>7. CASE ConnectionStep
    BY <1>3, <2>2, <2>3, <2>4, <2>5, <2>6, <2>7 DEF ConnectionStep
  <2>8. CASE WorkStep
    <3>1. UNCHANGED electVars
      BY <2>8 DEF WorkStep, Enqueue, ComesDue, Ack, LeaseExtend, RequestOps, RejectedAck,
             TriggerStartSync
    <3> QED BY <2>2, <3>1
  <2>9. CASE Tick \/ HeartbeatTick \/ KickTick
    BY <2>9 DEF Tick, HeartbeatTick, KickTick, RankOK, WorkersOK, SocketsOK
  <2> QED BY <1>3, <2>7, <2>8, <2>9 DEF Next
<1> QED BY <1>1, <1>2, <1>3 DEF HNext

(* The preferred eligible worker is the last of the sequence, if it is one. *)
LEMMA LastIsElected ==
    ASSUME NEW s \in Seq(Conns), NEW t \in Seq(Conns), NEW E, NEW c \in E, EndsWith(t, c),
           NEW w \in Elected(s \o t, E)
    PROVE  w = c
<1>1. s \o t \in Seq(Conns) /\ Len(s \o t) = Len(s) + Len(t)
      /\ Len(s) \in Nat /\ Len(t) \in Nat \ {0}
  BY ConcatProperties DEF EndsWith
<1>2. (s \o t)[Len(s) + Len(t)] = c
  <2>1. \A i \in 1 .. Len(s) + Len(t) :
          (s \o t)[i] = IF i <= Len(s) THEN s[i] ELSE t[i - Len(s)]
    BY ConcatProperties
  <2>2. Len(s) + Len(t) - Len(s) = Len(t)
    BY <1>1
  <2> QED BY <1>1, <2>1, <2>2 DEF EndsWith
<1>3. PICK i \in 1 .. Len(s) + Len(t) :
        /\ w = (s \o t)[i]
        /\ \A l \in 1 .. Len(s) + Len(t) : l > i => (s \o t)[l] \notin E
  BY <1>1, DOMAIN (s \o t) = 1 .. Len(s \o t) DEF Elected
<1> QED BY <1>1, <1>2, <1>3

(* The heartbeat gives the work to the window the user works in. *)
LEMMA TouchedIsElected ==
    ASSUME HInv, HeartbeatTick, touched \in Online, quarantine[touched] = 0
    PROVE  active' = touched
<1>1. touched \in Conns /\ EndsWith(used, touched)
  BY Sets DEF HInv, WorkersOK, TouchedLeads, Online
<1>2. touched \in Eligible(workers, seenAge, quarantine)
  BY DEF Online, Eligible
<1>3. active' \in Elected(idle \o used, Eligible(workers, seenAge, quarantine))
  BY DEF HeartbeatTick, Recompute
<1> QED BY <1>1, <1>2, <1>3, LastIsElected DEF HInv, RankOK

(* The user's window is the active worker whenever the heartbeat has looked:
   for any number of windows, whatever the others and the queue do. *)
THEOREM WorkFollowsTheUser == HSpec => UsersWindowWorks
<1>1. HInv /\ [HNext]_hvars
        => [HeartbeatTick /\ touched \in Online /\ quarantine[touched] = 0
              => active' = touched]_hvars
  BY TouchedIsElected
<1> QED BY InitHInv, NextHInv, <1>1, PTL DEF HSpec, UsersWindowWorks

-----------------------------------------------------------------------------
(* The way of a write *)

LEMMA PartStays == [AllNext]_allVars => part' = part
  BY DEF AllNext, Runs, allVars

LEMMA DeliveryRuns == AllSpec => [](part # "delivery") \/ Delivery!DSpec
<1>1. AllInit => part # "delivery" \/ Delivery!DInit
  BY DEF AllInit
<1>2. ASSUME [AllNext]_allVars, part # "delivery" PROVE (part # "delivery")'
  BY <1>2, PartStays
<1>3. ASSUME [AllNext]_allVars, ~(part # "delivery")
      PROVE  ~(part # "delivery")' /\ [Delivery!DNext]_(Delivery!allVars)
  BY <1>3 DEF AllNext, Runs, allVars, deliveryVars, Delivery!allVars, Delivery!vars,
         Delivery!linkVars, Delivery!pluginVars
<1> QED BY <1>1, <1>2, <1>3, PTL DEF AllSpec, Delivery!DSpec

(* An op with a lock key is done once in a life of the plugin. *)
THEOREM DoneOncePerLife == AllSpec => []AtMostOncePerLife
<1>1. Delivery!DSpec => []Delivery!AtMostOncePerLife
  BY DeliveryConstants, Delivery!DoneOncePerLife
<1>2. Delivery!AtMostOncePerLife => AtMostOncePerLife
  BY DEF AtMostOncePerLife
<1>3. part # "delivery" => AtMostOncePerLife
  BY DEF AtMostOncePerLife
<1> QED BY <1>1, <1>2, <1>3, DeliveryRuns, PTL

(* What the queue says of an op agrees with what the plugin has done. *)
THEOREM VerdictsAreTrue == AllSpec => []VerdictIsTrue
<1>1. Delivery!DSpec => []Delivery!VerdictIsTrue
  BY DeliveryConstants, Delivery!VerdictsAreTrue
<1>2. Delivery!VerdictIsTrue => VerdictIsTrue
  BY DEF VerdictIsTrue
<1>3. part # "delivery" => VerdictIsTrue
  BY DEF VerdictIsTrue
<1> QED BY <1>1, <1>2, <1>3, DeliveryRuns, PTL

-----------------------------------------------------------------------------
(* The lock of the claim *)

LEMMA TransfersRun == AllSpec => [](part # "transfers") \/ Transfers!Spec
<1>1. AllInit => part # "transfers" \/ Transfers!Init
  BY DEF AllInit
<1>2. ASSUME [AllNext]_allVars, part # "transfers" PROVE (part # "transfers")'
  BY <1>2, PartStays
<1>3. ASSUME [AllNext]_allVars, ~(part # "transfers")
      PROVE  ~(part # "transfers")' /\ [Transfers!Next]_(Transfers!lockVars)
  BY <1>3 DEF AllNext, Runs, allVars, lockVars, Transfers!lockVars
<1> QED BY <1>1, <1>2, <1>3, PTL DEF AllSpec, Transfers!Spec

(* withFixedOwnerClaimLock keeps the transfers of any number of commands apart. *)
THEOREM TransfersExclude == AllSpec => []OneTransfer
<1>1. Transfers!Spec => []Transfers!OneTransfer
  <2>1. Transfers!Init => LockInv
    BY LockInitInv
  <2>2. LockInv /\ [Transfers!Next]_(Transfers!lockVars) => LockInv'
    BY LockTypeStep, DeathIsFinal, LockedStep DEF LockInv
  <2>3. LockInv => Transfers!OneTransfer
    BY DEF LockInv, NobodyDied, Locked, Owns, Transfers!OneTransfer
  <2> QED BY <2>1, <2>2, <2>3, PTL DEF Transfers!Spec
<1>2. Transfers!OneTransfer => OneTransfer
  BY DEF OneTransfer
<1>3. part # "transfers" => OneTransfer
  BY DEF OneTransfer
<1> QED BY <1>1, <1>2, <1>3, TransfersRun, PTL

-----------------------------------------------------------------------------
(* Processes *)

LEMMA ProcessesRun == AllSpec => [](part # "processes") \/ Processes!Spec
<1>1. AllInit => part # "processes" \/ Processes!Init
  BY DEF AllInit
<1>2. ASSUME [AllNext]_allVars, part # "processes" PROVE (part # "processes")'
  BY <1>2, PartStays
<1>3. ASSUME [AllNext]_allVars, ~(part # "processes")
      PROVE  ~(part # "processes")' /\ [Processes!Next]_(Processes!stackVars)
  BY <1>3 DEF AllNext, Runs, allVars, stackVars, Processes!stackVars
<1> QED BY <1>1, <1>2, <1>3, PTL DEF AllSpec, Processes!Spec

(* Commands that run one after the other, whatever they do and whatever dies or
   is killed meanwhile, signal no process that is not their own service, and
   find every supervisor in its pid file. *)
THEOREM SupervisorsAreFiled == AllSpec => []OnlyOurDaemon
<1>1. Processes!Spec => []CommandsInv
  BY CommandsInitInv, CommandsNextInv, PTL DEF Processes!Spec
<1>2. CommandsInv => OnlyOurDaemon
  <2>1. ASSUME CommandsInv PROVE Processes!NoStrangerSignalled
    BY <2>1 DEF CommandsInv, OwnSignals, Ours, Processes!NoStrangerSignalled
  <2>2. ASSUME CommandsInv, NEW p \in Pids,
               proc[p].st = "up", proc[p].svc = "daemon"
        PROVE  pidFile[proc[p].install]["daemon"] = p
    <3>1. Supervises(p, proc[p].install) /\ proc[p].install \in Processes!Installs
      BY <2>2 DEF Supervises, CommandsInv, CommandsTypeOK, Processing
    <3> QED BY <2>2, <3>1 DEF CommandsInv, Filed, Unfiled
  <2> QED BY <2>1, <2>2 DEF OnlyOurDaemon, Processes!DaemonTracked, Pids
<1>3. part # "processes" => OnlyOurDaemon
  BY DEF OnlyOurDaemon
<1> QED BY <1>1, <1>2, <1>3, ProcessesRun, PTL

-----------------------------------------------------------------------------
(* What the user selects *)

LEMMA FeedRuns == AllSpec => [](part # "feed") \/ Feed!Spec
<1>1. AllInit => part # "feed" \/ Feed!Init
  BY DEF AllInit
<1>2. ASSUME [AllNext]_allVars, part # "feed" PROVE (part # "feed")'
  BY <1>2, PartStays
<1>3. ASSUME [AllNext]_allVars, ~(part # "feed")
      PROVE  ~(part # "feed")' /\ [Feed!Next]_(Feed!uiVars)
  BY <1>3 DEF AllNext, Runs, allVars, feedVars, Feed!uiVars
<1> QED BY <1>1, <1>2, <1>3, PTL DEF AllSpec, Feed!Spec

LEMMA FeedInvariance == Feed!Spec => []FeedInv
  BY FeedInitInv, FeedNextInv, PTL DEF Feed!Spec

(* Whatever the user does, the plugin reads call by call and the connections
   that come and go: the command line is not left with a selection that the user
   has given up. *)
THEOREM SelectionsAreCurrent == AllSpec => []NoLeftover
<1>1. ASSUME FeedInv, Feed!Quiet PROVE Feed!Selection \in {Feed!Selected, {}}
  <2>1. Feed!Picked = known[session]
    BY <1>1, QuietPicks
  <2>2. link = "open" /\ Resting("selection") /\ "selection" \notin due
    BY <1>1 DEF Feed!Quiet, Resting, Feed!Forwarders
  <2>3. ~again["selection"]
    BY <1>1, <2>2 DEF FeedInv, RepeatsRuns, Feed!Forwarders
  <2>4. sent["selection"] = <<Feed!Selected>>
    BY <1>1, <2>2, <2>3 DEF FeedInv, SelectionInv, Informed
  <2>5. known[session].selection \in {<<>>, <<{}>>, <<Feed!Selected>>}
    BY <1>1, <2>2, <2>4 DEF FeedInv, SelectionInv
  <2>6. <<{}>>[1] = {} /\ <<Feed!Selected>>[1] = Feed!Selected
    OBVIOUS
  <2> QED BY <2>1, <2>5, <2>6 DEF Feed!Selection, Feed!Nothing
<1>2. FeedInv => NoLeftover
  BY <1>1 DEF NoLeftover, Feed!NoLeftover
<1>3. part # "feed" => NoLeftover
  BY DEF NoLeftover
<1> QED BY <1>2, <1>3, FeedRuns, FeedInvariance, PTL

(* And it knows the page and the focus that the user came to rest on, unless
   the connection opened while they were being read for an older one. *)
THEOREM ContextsAreCurrent == AllSpec => []ContextIsCurrent
<1>1. ASSUME FeedInv, Feed!Quiet, ~crossed
      PROVE  /\ Feed!Status = "ok"
             /\ Feed!Picked.uiContext[1] = [place |-> ui.place, focus |-> ui.focus]
  <2> DEFINE now == [place |-> ui.place, focus |-> ui.focus]
  <2>1. Feed!Picked = known[session] /\ known # <<>>
    BY <1>1, QuietPicks
  <2>2. link = "open" /\ Resting("uiContext") /\ "uiContext" \notin due
    BY <1>1 DEF Feed!Quiet, Resting, Feed!Forwarders
  <2>3. ~again["uiContext"]
    BY <1>1, <2>2 DEF FeedInv, RepeatsRuns, Feed!Forwarders
  <2>4. known[session].uiContext = <<now>>
    BY <1>1, <2>2, <2>3 DEF FeedInv, ContextInv, Informed
  <2> HIDE DEF now
  <2>5. <<now>> # <<>> /\ <<now>>[1] = now
    OBVIOUS
  <2> QED BY <2>1, <2>4, <2>5 DEF Feed!Status, Feed!Nothing, now
<1>2. FeedInv => ContextIsCurrent
  BY <1>1 DEF ContextIsCurrent, Feed!ContextIsCurrent
<1>3. part # "feed" => ContextIsCurrent
  BY DEF ContextIsCurrent
<1> QED BY <1>2, <1>3, FeedRuns, FeedInvariance, PTL

-----------------------------------------------------------------------------
(* The store *)

LEMMA StoreRuns == AllSpec => [](part # "store") \/ Store!Spec
<1>1. AllInit => part # "store" \/ Store!Init
  BY DEF AllInit
<1>2. ASSUME [AllNext]_allVars, part # "store" PROVE (part # "store")'
  BY <1>2, PartStays
<1>3. ASSUME [AllNext]_allVars, ~(part # "store")
      PROVE  ~(part # "store")' /\ [Store!Next]_(Store!storeVars)
  BY <1>3 DEF AllNext, Runs, allVars, storeVars, Store!storeVars
<1> QED BY <1>1, <1>2, <1>3, PTL DEF AllSpec, Store!Spec

(* Whoever has opened the store has the schema of today with the ops that were in
   it, and a store with ops can always be opened again: whatever its age, however
   many processes open it at once, wherever they are killed. *)
THEOREM StoresServe == AllSpec => []StoreServes
<1>1. Store!Spec => []StoreInv
  BY StoreInitInv, StoreNextInv, PTL DEF Store!Spec
<1>2. StoreInv => StoreServes
  BY StoreServed DEF StoreServes
<1>3. part # "store" => StoreServes
  BY DEF StoreServes
<1> QED BY <1>1, <1>2, <1>3, StoreRuns, PTL

-----------------------------------------------------------------------------
(* The selection of a batch *)

LEMMA BatchesRun == AllSpec => [](part # "selecting") \/ Batch!Spec
<1>1. AllInit => part # "selecting" \/ Batch!Init
  BY DEF AllInit
<1>2. ASSUME [AllNext]_allVars, part # "selecting" PROVE (part # "selecting")'
  BY <1>2, PartStays
<1>3. ASSUME [AllNext]_allVars, ~(part # "selecting")
      PROVE  ~(part # "selecting")' /\ [Batch!Next]_(Batch!selVars)
  BY <1>3 DEF AllNext, Runs, allVars, selVars, Batch!selVars
<1> QED BY <1>1, <1>2, <1>3, PTL DEF AllSpec, Batch!Spec

(* Whatever is enqueued and asked for, no two ops in flight conflict, and a
   batch keeps to its budgets and leaves nothing that it has room for. *)
THEOREM BatchesAreGood == AllSpec => []GoodBatches
<1>1. Batch!Spec => []SelInv
  BY SelInit, SelNext, PTL DEF Batch!Spec
<1>2. SelInv => GoodBatches
  BY SelGood DEF GoodBatches
<1>3. part # "selecting" => GoodBatches
  BY DEF GoodBatches
<1> QED BY <1>1, <1>2, <1>3, BatchesRun, PTL
-----------------------------------------------------------------------------
(* Rems that get a place of their own *)

LEMMA PromotionRuns == AllSpec => [](part # "promotion") \/ Promoting!PromoSpec
<1>1. AllInit => part # "promotion" \/ Promoting!PromoInit
  BY DEF AllInit
<1>2. ASSUME [AllNext]_allVars, part # "promotion" PROVE (part # "promotion")'
  BY <1>2, PartStays
<1>3. ASSUME [AllNext]_allVars, ~(part # "promotion")
      PROVE  ~(part # "promotion")' /\ [Promoting!PromoNext]_(Promoting!promoVars)
  BY <1>3 DEF AllNext, Runs, allVars, askVars, Promoting!promoVars, Promoting!planVars
<1> QED BY <1>1, <1>2, <1>3, PTL DEF AllSpec, Promoting!PromoSpec

(* A portal that `rem create` leaves in place stands where its sources were, with
   what was before them and after them around it: for every outline, slot and
   place of the new Rem, in whatever order the moves and the portal are
   performed. *)
THEOREM PortalsFillSlots == AllSpec => []PortalFillsSlot
<1>1. Promoting!PromoSpec => []Promoting!PortalFillsSlot
  BY PromotionConstants, Promoting!PortalsFillSlots
<1>2. Promoting!PortalFillsSlot => PortalFillsSlot
  BY DEF PortalFillsSlot
<1>3. part # "promotion" => PortalFillsSlot
  BY DEF PortalFillsSlot
<1> QED BY <1>1, <1>2, <1>3, PromotionRuns, PTL

(* What the caller of `rem create` and `rem move` is told is so, whenever it is
   told: the sources of a partial success are below the new Rem and the portal
   is missing, and a success says whether there is one. *)
THEOREM ReceiptsAreTrue == AllSpec => ReceiptTellsTruth
<1>1. Promoting!PromoSpec => Promoting!ReceiptTellsTruth
  BY PromotionConstants, Promoting!ReceiptsAreTrue
<1>2. ASSUME part # "promotion", [AllNext]_allVars
      PROVE  [receipt' # receipt => Promoting!GoodReceipt]_(Promoting!promoVars)
  <2>1. UNCHANGED askVars
    BY <1>2 DEF AllNext, Runs, allVars
  <2> QED BY <2>1 DEF askVars, Promoting!promoVars, Promoting!planVars
<1>3. Promoting!PromoSpec => [][receipt' # receipt => Promoting!GoodReceipt]_(Promoting!promoVars)
  BY <1>1 DEF Promoting!ReceiptTellsTruth
<1>4. AllSpec => [][receipt' # receipt => Promoting!GoodReceipt]_(Promoting!promoVars)
  BY <1>2, <1>3, PromotionRuns, PTL DEF AllSpec
<1> QED BY <1>4 DEF ReceiptTellsTruth, Promoting!ReceiptTellsTruth
=============================================================================
