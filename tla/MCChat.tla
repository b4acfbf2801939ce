------------------------------- MODULE MCChat -------------------------------
(***************************************************************************)
(* One chat, two devices.  Alice and Bob are signed in; Carol has an       *)
(* account and no device.                                                  *)
(***************************************************************************)
EXTENDS Chat

CONSTANTS d1, d2, alice, bob, carol

MCUserOf == [d \in Device |-> IF d = d1 THEN alice ELSE bob]

ChatAt1(users) ==
  [type |-> "document", version |-> 1, state |-> "synced",
   data |-> [name |-> "chat", colour |-> DefaultColour, users |-> users,
             chatLastActive |-> CommitTime(1)]]

(* Alice made the chat, the others were added. *)
MemberAt1(u) ==
  [type |-> "document", version |-> 1, state |-> "synced",
   data |-> IF u = alice
            THEN [name |-> "", nickName |-> "", colour |-> DefaultColour,
                  timeAdded |-> CommitTime(1)]
            ELSE [name |-> AccountName, userName |-> "",
                  colour |-> DefaultColour]]

With(users) ==
  [k \in ChatKey |->
     IF k = ChatDocument /\ users # {} THEN ChatAt1(users)
     ELSE IF k \in {Member(u) : u \in users} THEN MemberAt1(k[2])
     ELSE Missing]

NoChat == With({})

SharedChat == With({alice, bob})

(* Membership: both devices write the users array and member documents. *)
MembershipGestures == {"addNewUser", "removeFromChat", "updateUserColour"}

MembershipCalls == (d1 :> 2) @@ (d2 :> 1)

OneKill == [break |-> 0, kill |-> 1, refuse |-> 0]

OneBreak == [break |-> 1, kill |-> 0, refuse |-> 0]

NoFaults == [break |-> 0, kill |-> 0, refuse |-> 0]

(* Creation: Alice makes the chat and adds Bob, who may change it too. *)
CreationGestures ==
  {"newChat", "addNewUser", "updateChatColour", "updateUserName"}

CreationCalls == (d1 :> 4) @@ (d2 :> 2)

(***************************************************************************)
(* Messages: the handlers of the messages make as many writes again.  One  *)
(* device sends two messages, or both send one: the count of messages      *)
(* never goes back and nobody has to send any, so within OneEach are all   *)
(* behaviours of either case, each with its liveness.                      *)
(***************************************************************************)
MessageCalls == (d1 :> 4) @@ (d2 :> 2)

OneEach ==
  LET Sent(d) == Cardinality(DOMAIN shown \cap MessagesOf(d))
  IN  Sent(d2) = 0 \/ Sent(d1) <= 1

TwoSenders == (d1 :> 2) @@ (d2 :> 2)
==============================================================================
