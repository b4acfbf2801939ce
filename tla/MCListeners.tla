----------------------------- MODULE MCListeners -----------------------------
(***************************************************************************)
(* The chats of a user, a query with one chat that d1 and another device   *)
(* write.  l1 listens like the screens of the app, l2 like getDocuments.   *)
(***************************************************************************)
EXTENDS Listeners

CONSTANTS d1, d2, chat, l1, l2

MCInitialDocuments ==
  (chat :> [type |-> "document", version |-> 1, state |-> "synced",
            data |-> [colour |-> "red", users |-> {d1}]])

MCMatches(data) == "users" \in DOMAIN data /\ d1 \in data.users

Active == UpdateData(chat, <<>>, [lastActive |-> ServerTimestamp])

Leave == UpdateData(chat, <<>>, [users |-> ArrayRemove({d1})])

Join == MergeData(chat, <<>>, [users |-> ArrayUnion({d1})])

MCWrite == {Active, Leave, Join}

MCProgram == {<<Active>>, <<Leave>>, <<Join>>}

MCMaxCalls == (d1 :> 2) @@ (d2 :> 1)

MCMaxFaults == [break |-> 0, kill |-> 1, refuse |-> 1]

MCMaxListens == (d1 :> 3) @@ (d2 :> 0)

MCMaxUpsets == [fail |-> 2, remove |-> 2, deny |-> 1]

(***************************************************************************)
(* Two writes race with their acknowledgements and snapshots, and the chat *)
(* leaves the query and comes back; or three writes do, while the stream   *)
(* and its one listener stay; or there is one write, and listeners come    *)
(* and go while the connection does.  What these bounds count only goes up *)
(* and no fairness makes it happen, so within them are all behaviours of   *)
(* each scenario by itself, with its liveness.                             *)
(***************************************************************************)
Made == made[d1] + made[d2]

WritesRace ==
  /\ Made <= 2
  /\ faults.kill = 0
  /\ listens[d1] <= 2
  /\ upsets.deny = 0 /\ upsets.fail + upsets.remove <= 1

ThreeWritesRace ==
  /\ \A f \in Fault : faults[f] = 0
  /\ listens[d1] <= 1 /\ DOMAIN sessions[d1].listeners \subseteq {l2}
  /\ \A u \in Upset : upsets[u] = 0

ListenersComeAndGo == Made <= 1 /\ made[d2] = 0 /\ faults.refuse = 0

OneScenario == WritesRace \/ ThreeWritesRace \/ ListenersComeAndGo
=============================================================================
