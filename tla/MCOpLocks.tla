----------------------------- MODULE MCOpLocks -----------------------------
(* Six requests on three keys: pairs that chain, two equal requests, and one
   without keys. *)
EXTENDS OpLocksLoop, TLC

CONSTANTS k1, k2, k3

MCRequests == 1 .. 6
MCKeys == {k1, k2, k3}
MCLockKeys == (1 :> {k1} @@ 2 :> {k1, k2} @@ 3 :> {k2, k3}
               @@ 4 :> {k3} @@ 5 :> {k1} @@ 6 :> {})
=============================================================================
