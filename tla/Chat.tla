-------------------------------- MODULE Chat --------------------------------
(***************************************************************************)
(* What the app stores about one chat, over FirestoreClient: the chat      *)
(* document, one document for each member, one for each message.  The      *)
(* writes of each model class are sequences of setData and updateData      *)
(* calls made one after the other on the main thread; the only completion  *)
(* handler that does more than print is the one of sendMessage.            *)
(*                                                                         *)
(* A configuration gives Key, Write and Program of FirestoreClient the     *)
(* values ChatKey, ChatWrite and ChatProgram.                              *)
(***************************************************************************)
EXTENDS FirestoreClient

CONSTANTS
  User,       \* e-mail addresses
  UserOf,     \* who is signed in on each device
  Candidate,  \* the accounts AddUserViewController can offer
  Gesture,    \* bound: the kinds of gesture the users make
  Viewed      \* bound: the members whose screens are opened

ASSUME UserAssumption == 
  /\ UserOf \in [Device -> User]
  /\ Candidate \cup Viewed \subseteq User

VARIABLES
  screen,  \* what each device has open: the contacts, the chat, a member
  shown    \* history: for each message, the messages on screen when it was sent

chatVars == <<clientVars, screen, shown>>

-----------------------------------------------------------------------------
ChatDocument == <<"chat">>

Member(u) == <<"member", u>>

Message(d, i) == <<"message", d, i>>

MessagesOf(d) == {Message(d, i) : i \in 1 .. MaxCalls[d]}

Messages == UNION {MessagesOf(d) : d \in Device}

ChatKey == {ChatDocument} \cup {Member(u) : u \in User} \cup Messages

DefaultColour == "default"

ChosenColour == "chosen"

AccountName == "Null Name"

(***************************************************************************)
(* The writes of each operation.                                           *)
(***************************************************************************)
CreateBaseChatDocument(u) ==
  SetData(ChatDocument,
          [name |-> "chat", colour |-> DefaultColour, users |-> {u}],
          [chatLastActive |-> ServerTimestamp])

CreateChatUserCollection(u) ==
  SetData(Member(u),
          [name |-> "", nickName |-> "", colour |-> DefaultColour],
          [timeAdded |-> ServerTimestamp])

(* Mutant: the creator has no member document. *)
NewChatBaseOnly(u) == <<CreateBaseChatDocument(u)>>

NewChatWrites(u) == <<CreateBaseChatDocument(u), CreateChatUserCollection(u)>>

(* addNewUser sets the member document as a whole, whatever is in it. *)
MemberDetails(u) ==
  SetData(Member(u),
          [name |-> AccountName, userName |-> "", colour |-> DefaultColour],
          <<>>)

(* Mutants: the two writes swapped; no arrayUnion; no merge. *)
AddNewUserSwapped(u) ==
  <<MemberDetails(u),
    MergeData(ChatDocument, <<>>, [users |-> ArrayUnion({u})])>>

AddNewUserReplacesUsers(u) ==
  <<MergeData(ChatDocument, [users |-> {u}], <<>>), MemberDetails(u)>>

AddNewUserSets(u) ==
  <<SetData(ChatDocument, <<>>, [users |-> ArrayUnion({u})]),
    MemberDetails(u)>>

AddNewUserWrites(u) ==
  <<MergeData(ChatDocument, <<>>, [users |-> ArrayUnion({u})]),
    MemberDetails(u)>>

RemoveFromChatWrites(u) ==
  <<UpdateData(ChatDocument, <<>>, [users |-> ArrayRemove({u})])>>

UpdateChatColourWrites ==
  <<MergeData(ChatDocument, [colour |-> ChosenColour], <<>>)>>

UpdateUserColourWrites(u) ==
  <<MergeData(Member(u), [colour |-> ChosenColour], <<>>)>>

UpdateUserNameWrites(u) == <<MergeData(Member(u), [userName |-> "new"], <<>>)>>

(* Mutant: the time is the device's clock. *)
SendMessageDeviceClock(d, i) ==
  <<SetData(Message(d, i), [fromEmail |-> UserOf[d], time |-> CommitTime(i)],
            <<>>)>>

SendMessageWrites(d, i) ==
  <<SetData(Message(d, i), [fromEmail |-> UserOf[d]],
            [time |-> ServerTimestamp])>>

UpdateChatLastActiveTimestampWrites ==
  <<MergeData(ChatDocument, <<>>, [chatLastActive |-> ServerTimestamp])>>

UserPrograms(u) ==
  {NewChatWrites(u), AddNewUserWrites(u), RemoveFromChatWrites(u),
   UpdateUserColourWrites(u), UpdateUserNameWrites(u)}

MessagePrograms(d) == {SendMessageWrites(d, i) : i \in 1 .. MaxCalls[d]}

ChatProgram ==
  (UNION {UserPrograms(u) : u \in User})
  \cup (UNION {MessagePrograms(d) : d \in Device})
  \cup {UpdateChatColourWrites, UpdateChatLastActiveTimestampWrites}

ChatWrite == UNION {Range(ws) : ws \in ChatProgram}

ASSUME ChatConstants ==
  Key = ChatKey /\ Write = ChatWrite /\ Program = ChatProgram

-----------------------------------------------------------------------------
(***************************************************************************)
(* What the screens show.  ContactsViewController lists the chats whose    *)
(* users contain the signed-in user; a chat without chatLastActive is not  *)
(* in the ordered query.  GroupMembersViewController lists the member      *)
(* documents of those in the users array.                                  *)
(***************************************************************************)
Listed(d) ==
  LET doc == View(d, ChatDocument)
  IN  /\ Exists(doc)
      /\ {"users", "chatLastActive"} \subseteq DOMAIN doc.data
      /\ UserOf[d] \in doc.data.users

MembersShown(d) ==
  {u \in User :
     /\ u \in PreviousArray(View(d, ChatDocument).data, "users")
     /\ Exists(View(d, Member(u)))}

MessagesShown(d) == {m \in Messages : Exists(View(d, m))}

OnChat(d) == screen[d] # <<"contacts">>

(***************************************************************************)
(* A gesture makes writes; the bound MaxCalls leaves room for the writes   *)
(* the completion handlers of messages on their way have yet to make.      *)
(***************************************************************************)
IsMessage(call) == call.write.key \in Messages

Owed(d) ==
  Len(SelectSeq(calls[d] \o queue[d], LAMBDA b : b.live /\ IsMessage(b)))
  + Len(SelectSeq(main[d], LAMBDA h : h.ok /\ IsMessage(h)))

Make(d, ws) ==
  /\ made[d] + Len(ws) + Owed(d) <= MaxCalls[d]
  /\ Call(d, ws)

(***************************************************************************)
(* Gestures.  Screens are pushed on one another: the settings, members and *)
(* message screens all belong to the open chat and stay open when its user *)
(* is removed.                                                             *)
(***************************************************************************)
OpenChat(d) ==
  /\ screen[d] = <<"contacts">>
  /\ Listed(d)
  /\ screen' = [screen EXCEPT ![d] = <<"chat">>]
  /\ UNCHANGED <<clientVars, shown>>

(* Mutant: the screen gets the e-mail address, not the document. *)
OpenMemberAddress(d, u) ==
  /\ screen[d] = <<"chat">>
  /\ u \in MembersShown(d) \cap Viewed
  /\ screen' = [screen EXCEPT ![d] = u]
  /\ UNCHANGED <<clientVars, shown>>

OpenMember(d, u) ==
  /\ screen[d] = <<"chat">>
  /\ Gesture \cap {"removeFromChat", "updateUserColour", "updateUserName"} # {}
  /\ u \in MembersShown(d) \cap Viewed
  /\ screen' = [screen EXCEPT ![d] = Member(u)]
  /\ UNCHANGED <<clientVars, shown>>

Back(d) ==
  /\ OnChat(d)
  /\ screen' = [screen EXCEPT
                  ![d] = IF @ = <<"chat">> THEN <<"contacts">> ELSE <<"chat">>]
  /\ UNCHANGED <<clientVars, shown>>

(* The id is new: this chat is made once, before anything is done in it. *)
NewChat(d) ==
  /\ "newChat" \in Gesture
  /\ screen[d] = <<"contacts">>
  /\ \A e \in Device : made[e] = 0
  /\ Make(d, NewChatWrites(UserOf[d]))
  /\ UNCHANGED <<screen, shown>>

AddNewUser(d, u) ==
  /\ "addNewUser" \in Gesture
  /\ screen[d] = <<"chat">>
  /\ Make(d, AddNewUserWrites(u))
  /\ UNCHANGED <<screen, shown>>

UpdateChatColour(d) ==
  /\ "updateChatColour" \in Gesture
  /\ screen[d] = <<"chat">>
  /\ Make(d, UpdateChatColourWrites)
  /\ UNCHANGED <<screen, shown>>

UpdateUserColour(d, u) ==
  /\ "updateUserColour" \in Gesture
  /\ screen[d] = Member(u)
  /\ Make(d, UpdateUserColourWrites(u))
  /\ UNCHANGED <<screen, shown>>

UpdateUserName(d, u) ==
  /\ "updateUserName" \in Gesture
  /\ screen[d] = Member(u)
  /\ Make(d, UpdateUserNameWrites(u))
  /\ UNCHANGED <<screen, shown>>

RemoveFromChat(d, u) ==
  /\ "removeFromChat" \in Gesture
  /\ screen[d] = Member(u)
  /\ Make(d, RemoveFromChatWrites(u))
  /\ screen' = [screen EXCEPT ![d] = <<"chat">>]
  /\ UNCHANGED shown

SendMessage(d) ==
  LET message == Message(d, made[d] + 1)
  IN  /\ "sendMessage" \in Gesture
      /\ screen[d] = <<"chat">>
      /\ made[d] + Owed(d) + 2 <= MaxCalls[d]
      /\ Make(d, SendMessageWrites(d, made[d] + 1))
      /\ shown' = Overlay([m \in {message} |-> MessagesShown(d)], shown)
      /\ UNCHANGED screen

(***************************************************************************)
(* The main queue runs a completion handler: a message that was stored     *)
(* marks the chat as active, whatever screen is open.                      *)
(***************************************************************************)
(* Mutant: the branches of the handler are swapped. *)
CompletionWritesOnError(handler) ==
  IF ~handler.ok /\ IsMessage(handler)
  THEN UpdateChatLastActiveTimestampWrites
  ELSE <<>>

CompletionWrites(handler) ==
  IF handler.ok /\ IsMessage(handler)
  THEN UpdateChatLastActiveTimestampWrites
  ELSE <<>>

RunCompletion(d) ==
  /\ main[d] # <<>>
  /\ Complete(d, CompletionWrites(Head(main[d])))
  /\ UNCHANGED <<screen, shown>>

Restart(d) ==
  /\ Kill(d)
  /\ screen' = [screen EXCEPT ![d] = <<"contacts">>]
  /\ UNCHANGED shown

ChatInit ==
  /\ Init
  /\ screen = [d \in Device |-> <<"contacts">>]
  /\ shown = <<>>

GestureStep(d) ==
  \/ OpenChat(d) \/ Back(d)
  \/ NewChat(d) \/ UpdateChatColour(d) \/ SendMessage(d)
  \/ \E u \in User : \/ OpenMember(d, u) \/ RemoveFromChat(d, u)
                     \/ UpdateUserColour(d, u) \/ UpdateUserName(d, u)
  \/ \E u \in Candidate : AddNewUser(d, u)

ChatNext ==
  \E d \in Device :
    \/ GestureStep(d)
    \/ RunCompletion(d)
    \/ Background(d) /\ UNCHANGED <<screen, shown>>
    \/ Restart(d)

ChatSpec == ChatInit /\ [][ChatNext]_chatVars

(***************************************************************************)
(* Queues are served and the network comes back; users owe no gesture.     *)
(***************************************************************************)
ChatFairness ==
  \A d \in Device : BackgroundFairness(d) /\ WF_chatVars(RunCompletion(d))

FairChatSpec == ChatSpec /\ ChatFairness

-----------------------------------------------------------------------------
(***************************************************************************)
(* The shape of the app's own state.                                       *)
(***************************************************************************)
ChatTypeOK ==
  /\ screen \in [Device -> {<<"contacts">>, <<"chat">>}
                             \cup {Member(u) : u \in User}]
  /\ DOMAIN shown \subseteq Messages
  /\ \A m \in DOMAIN shown : shown[m] \subseteq Messages

Server(k) == backend[Latest][k]

Members == PreviousArray(Server(ChatDocument).data, "users")

Quiet(d) == calls[d] = <<>> /\ queue[d] = <<>> /\ main[d] = <<>>

Time(m) == Server(m).data["time"]

(***************************************************************************)
(* Nobody has a member document in a chat he was never added to: the two   *)
(* writes of addNewUser and of newChat reach the server in the order in    *)
(* which they were made, through restarts and repeated writes.  (That the  *)
(* second of them gets there at all is MembersHaveDocuments.)              *)
(***************************************************************************)
MemberWasAdded ==
  \A u \in User :
    Exists(Server(Member(u))) =>
      \E v \in DOMAIN backend :
        u \in PreviousArray(backend[v][ChatDocument].data, "users")

(***************************************************************************)
(* The state of the app has its shape: a restarted app shows the list of   *)
(* chats, a member's screen is only opened from the list of members; and   *)
(* what it wrote on the server has the order it was made in.               *)
(***************************************************************************)
ChatInvariant == ChatTypeOK /\ MemberWasAdded

(***************************************************************************)
(* When nothing is on its way, everyone in the users array has the member  *)
(* document that GroupMembersViewController lists: addNewUser is to add    *)
(* the user and "all details to document in user collection".  An app that *)
(* is killed between the two calls leaves a user without his details.      *)
(***************************************************************************)
MembersHaveDocuments ==
  (\A d \in Device : Quiet(d)) => \A u \in Members : Exists(Server(Member(u)))

(***************************************************************************)
(* A user leaves the users array of the server only when a removal of this *)
(* user is committed: no concurrent add, repeated add or change of another *)
(* field, made from an old copy of the chat, drops anybody.                *)
(***************************************************************************)
LeaveByRemoval ==
  [][\A u \in Members \ Members' :
       \E d \in Device : /\ Commit(d)
                         /\ NextSent(d).write = RemoveFromChatWrites(u)[1]]_chatVars

(***************************************************************************)
(* A document on the server loses a field only where a user is added who   *)
(* has a member document already (AddUserViewController offers everybody,  *)
(* and addNewUser sets the document as a whole), and keeps the fields that *)
(* the member screens unwrap.  No other write, made from an old copy or    *)
(* sent once more, replaces what others have written.                      *)
(***************************************************************************)
LosesFields(k) == ~(DOMAIN Server(k).data \subseteq DOMAIN Server(k).data')

FieldsLeaveByAdding ==
  [][\A k \in Key : LosesFields(k) =>
       /\ \E d \in Device, u \in Candidate :
            /\ k = Member(u)
            /\ Commit(d)
            /\ NextSent(d).write = MemberDetails(u)
       /\ {"name", "colour"} \subseteq DOMAIN Server(k).data']_chatVars

(***************************************************************************)
(* The listeners of an open screen force-unwrap the document and the       *)
(* fields they show: they are there as long as the screen is open, on the  *)
(* device's own view, which mixes cached data and pending writes.          *)
(***************************************************************************)
Shows(d, k, fields) ==
  Exists(View(d, k)) /\ fields \subseteq DOMAIN View(d, k).data

ScreensCanShow ==
  \A d \in Device :
    /\ Listed(d) => Shows(d, ChatDocument, {"name"})
    /\ OnChat(d) => Shows(d, ChatDocument, {"name", "colour", "users"})
    /\ screen[d] \in Key => Shows(d, screen[d], {"name", "colour"})
    /\ \A u \in MembersShown(d) : Shows(d, Member(u), {"colour"})

(***************************************************************************)
(* Once the later of two messages of one device is acknowledged, they are  *)
(* in the order in which they were sent, although a broken stream makes    *)
(* the client send messages again and each repeat gets a new time.         *)
(***************************************************************************)
Waiting(d, k) ==
  \E i \in DOMAIN queue[d] : queue[d][i].write.key = k

OwnOrder ==
  \A d \in Device : \A i, j \in 1 .. MaxCalls[d] :
    /\ i < j
    /\ Exists(Server(Message(d, i)))
    /\ Exists(Server(Message(d, j)))
    /\ ~Waiting(d, Message(d, j))
    => Before(Time(Message(d, i)), Time(Message(d, j)))

(***************************************************************************)
(* While no stream breaks, a message comes after everything its sender had *)
(* on screen when it was sent.                                             *)
(***************************************************************************)
CausalOrder ==
  faults.break = 0 => \A m \in DOMAIN shown :
    Exists(Server(m)) => \A c \in shown[m] : Before(Time(c), Time(m))

(***************************************************************************)
(* When nothing is on its way, the chat was last active no earlier than    *)
(* its newest message, so that the list of chats is ordered by it.         *)
(***************************************************************************)
LastActiveCovers ==
  (\A d \in Device : Quiet(d)) =>
    \A m \in Messages :
      Exists(Server(m)) =>
        Before(Time(m), Server(ChatDocument).data["chatLastActive"])

(***************************************************************************)
(* createBaseChatDocument creates a document: its commit never replaces a  *)
(* chat that others have joined.                                           *)
(***************************************************************************)
CreatesNewDocument ==
  [][\A d \in Device :
       /\ Commit(d)
       /\ NextSent(d).write = CreateBaseChatDocument(UserOf[d])
       => Members \subseteq {UserOf[d]}]_chatVars

(***************************************************************************)
(* A message stored on a device comes to be shown on every device, and the *)
(* chat comes to be marked as active for it.                               *)
(***************************************************************************)
MessagesDelivered ==
  <>[](\A m \in DOMAIN shown : \A e \in Device : m \in MessagesShown(e))

ActivityNoted == <>[](LastActiveCovers /\ \A d \in Device : Quiet(d))
==============================================================================
