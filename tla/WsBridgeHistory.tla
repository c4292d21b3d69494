-------------------------- MODULE WsBridgeHistory --------------------------
(***************************************************************************)
(* The bridge with a history variable: the connection of the window whose  *)
(* selection or context was reported last.                                 *)
(***************************************************************************)
EXTENDS WsBridge

VARIABLE touched

hvars == <<vars, touched>>

HInit == Init /\ touched = NoConn

HNext ==
    /\ Next
    /\ touched' = IF \E c \in Conns : Activity(c)
                  THEN CHOOSE c \in Conns : Activity(c)
                  ELSE touched

HSpec == HInit /\ [][HNext]_hvars /\ Fairness

(* The window the user works in is the active worker whenever the heartbeat
   has looked, while it is online and not quarantined: connections, pongs,
   requests and acks of other windows never take the work away from it. *)
UsersWindowWorks ==
    [][HeartbeatTick /\ touched \in Online /\ quarantine[touched] = 0
         => active' = touched]_hvars
=============================================================================
