------------------------------ MODULE MCSession ------------------------------
(***************************************************************************)
(* Alice has an account, Bob may get one; they share a device.             *)
(***************************************************************************)
EXTENDS Session

CONSTANTS alice, bob

MCMaxFaults == [f \in Fault |-> 1]

(***************************************************************************)
(* A stream breaks, or a user taps in a hurry, or the app of a user who    *)
(* signs in and then sends a message or signs in again is killed.  Taps    *)
(* and faults are only counted up and no fairness makes them happen, so    *)
(* within OneTrouble are all behaviours of each case, with its liveness.   *)
(***************************************************************************)
OneTrouble ==
  \/ /\ faults["kill"] = 0
     /\ faults["break"] + faults["hurry"] <= 1
  \/ /\ faults["break"] + faults["hurry"] = 0
     /\ made.signIns + made.messages <= 2
==============================================================================
