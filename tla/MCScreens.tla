------------------------------ MODULE MCScreens ------------------------------
(***************************************************************************)
(* A chat of Alice and Bob; Carol can be found and added.                  *)
(***************************************************************************)
EXTENDS Screens

CONSTANTS alice, bob, carol

(* With documents, or without any but the chat. *)
MCInitialView ==
  {[chat |-> {alice, bob},
    members |-> (alice :> "red") @@ (bob :> "red"),
    messages |-> <<alice>>],
   [chat |-> {alice, bob}, members |-> <<>>, messages |-> <<>>]}

MCContaining == [t \in Text |-> {carol}]

(***************************************************************************)
(* There is at most one change from elsewhere or refusal while the user    *)
(* searches for others and adds them, two if he does nothing.  What is     *)
(* counted only goes up and no fairness makes it happen, so within these   *)
(* bounds are all behaviours of each case, with its liveness.              *)
(***************************************************************************)
Upsets == counts.changes + counts.refusals

OneBusy ==
  \/ Upsets <= 1 /\ Upsets + counts.gestures <= 3
  \/ Upsets <= 2 /\ counts.gestures = 0
==============================================================================
