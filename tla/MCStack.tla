------------------------------ MODULE MCStack ------------------------------
(***************************************************************************)
(* A stable stack and the transfer of its claim to the source tree.       *)
(***************************************************************************)
EXTENDS Stack

Job(do, install) ==
    [do |-> do, install |-> install, services |-> Services, force |-> TRUE,
     channel |-> install]

(* The stable stack is started, and the source tree takes over. *)
TwoJobs == {Job("ensure", Stable), Job("transfer", Dev)}
=============================================================================
