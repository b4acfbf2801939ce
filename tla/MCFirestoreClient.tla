------------------------- MODULE MCFirestoreClient -------------------------
(***************************************************************************)
(* Two devices write one document that exists on the server and one that   *)
(* does not: a whole document with a server time, merges into two fields,  *)
(* array changes, and an update that needs the document to exist.          *)
(***************************************************************************)
EXTENDS FirestoreClient

CONSTANTS d1, d2, chat, member

MCInitialDocuments ==
  (chat :> [type |-> "document", version |-> 1, state |-> "synced",
            data |-> [colour |-> "red", users |-> {d1}]])
  @@ (member :> Missing)

Colour(k, c) == MergeData(k, [colour |-> c], <<>>)

AddUser == MergeData(chat, <<>>, [users |-> ArrayUnion({d2})])

RemoveUser == UpdateData(chat, <<>>, [users |-> ArrayRemove({d2})])

NewMember == SetData(member, [colour |-> "green"], [added |-> ServerTimestamp])

UpdateMember == UpdateData(member, <<>>, [added |-> ServerTimestamp])

MCWrite == {Colour(chat, "blue"), AddUser, RemoveUser, NewMember, UpdateMember}

MCProgram == {<<Colour(chat, "blue")>>, <<AddUser, NewMember>>, <<RemoveUser>>,
              <<UpdateMember>>}

(***************************************************************************)
(* The two devices race; a stream breaks, a write is refused, an app is    *)
(* killed.  The counters count gestures and faults, for which no fairness  *)
(* is asked, and never go back: within OneBadEnd are all behaviours with a *)
(* broken stream and a refused write and all behaviours with a killed app, *)
(* each with its liveness.                                                 *)
(***************************************************************************)
MCMaxCalls == (d1 :> 2) @@ (d2 :> 1)

MCMaxFaults == [break |-> 1, kill |-> 1, refuse |-> 1]

OneBadEnd == faults.kill = 0 \/ (faults.refuse = 0 /\ faults.break = 0)

(* One device with more writes than the pipeline takes. *)
PipelineMaxCalls == (d1 :> 4)

PipelineProgram == {<<Colour(chat, "blue")>>, <<AddUser, NewMember>>}

PipelineMaxFaults == [break |-> 2, kill |-> 1, refuse |-> 1]
==============================================================================
