----------------------------- MODULE ChatProofs -----------------------------
(***************************************************************************)
(* The chat is a use of the Firestore client: every step of ChatSpec is a  *)
(* step of Spec or leaves its variables alone, so that what is proved of   *)
(* the client holds of the app.                                            *)
(***************************************************************************)
EXTENDS Chat, FirestoreClientProofs

(***************************************************************************)
(* The writes of each operation are a sequence of the program.             *)
(***************************************************************************)
LEMMA ProgramParts ==
  /\ \A u \in User : UserPrograms(u) \subseteq Program
  /\ \A d \in Device : MessagePrograms(d) \subseteq Program
  /\ UpdateChatColourWrites \in Program
  /\ UpdateChatLastActiveTimestampWrites \in Program
PROOF
  BY ChatConstants DEF ChatProgram

(***************************************************************************)
(* Each of the sequences by itself.                                        *)
(***************************************************************************)
LEMMA ProgramMembers ==
  /\ \A u \in User : /\ NewChatWrites(u) \in Program
                     /\ AddNewUserWrites(u) \in Program
                     /\ RemoveFromChatWrites(u) \in Program
                     /\ UpdateUserColourWrites(u) \in Program
                     /\ UpdateUserNameWrites(u) \in Program
  /\ \A d \in Device : \A i \in 1 .. MaxCalls[d] :
       SendMessageWrites(d, i) \in Program
PROOF
<1>1. ASSUME NEW u \in User
      PROVE  /\ NewChatWrites(u) \in UserPrograms(u)
             /\ AddNewUserWrites(u) \in UserPrograms(u)
             /\ RemoveFromChatWrites(u) \in UserPrograms(u)
             /\ UpdateUserColourWrites(u) \in UserPrograms(u)
             /\ UpdateUserNameWrites(u) \in UserPrograms(u)
  BY DEF UserPrograms
<1>2. ASSUME NEW d \in Device, NEW i \in 1 .. MaxCalls[d]
      PROVE  SendMessageWrites(d, i) \in MessagePrograms(d)
  BY DEF MessagePrograms
<1> QED
  BY <1>1, <1>2, ProgramParts

(***************************************************************************)
(* Only createBaseChatDocument replaces the chat document.                 *)
(***************************************************************************)
Keeps(write) == write.key = ChatDocument => write.kind # "set"

KeepsAll(ws) == \A i \in DOMAIN ws : Keeps(ws[i])

(***************************************************************************)
(* No operation but newChat replaces the chat document.                    *)
(***************************************************************************)
LEMMA OthersKeep ==
  /\ \A u \in User : /\ KeepsAll(AddNewUserWrites(u))
                     /\ KeepsAll(RemoveFromChatWrites(u))
                     /\ KeepsAll(UpdateUserColourWrites(u))
                     /\ KeepsAll(UpdateUserNameWrites(u))
  /\ \A d \in Device, i \in Nat : KeepsAll(SendMessageWrites(d, i))
  /\ KeepsAll(UpdateChatColourWrites)
  /\ KeepsAll(UpdateChatLastActiveTimestampWrites)
PROOF
<1> USE DEF KeepsAll, Keeps, SetData, MergeData, UpdateData
<1>1. \A u \in User : Member(u) # ChatDocument
  BY DEF Member, ChatDocument
<1>2. \A d \in Device, i \in Nat : Message(d, i) # ChatDocument
  BY DEF Message, ChatDocument
<1>3. ASSUME NEW u \in User
      PROVE  KeepsAll(AddNewUserWrites(u))
  <2> DEFINE add    == MergeData(ChatDocument, <<>>, [users |-> ArrayUnion({u})])
             create == MemberDetails(u)
  <2>1. add.kind = "merge"
    OBVIOUS
  <2>2. create.key = Member(u)
    BY DEF MemberDetails
  <2>3. AddNewUserWrites(u) = <<add, create>>
    BY DEF AddNewUserWrites
  <2> HIDE DEF add, create
  <2> QED
    BY <1>1, <2>1, <2>2, <2>3
<1>4. ASSUME NEW u \in User
      PROVE  /\ KeepsAll(RemoveFromChatWrites(u))
             /\ KeepsAll(UpdateUserColourWrites(u))
             /\ KeepsAll(UpdateUserNameWrites(u))
  BY DEF RemoveFromChatWrites, UpdateUserColourWrites, UpdateUserNameWrites
<1>5. ASSUME NEW d \in Device, NEW i \in Nat
      PROVE  KeepsAll(SendMessageWrites(d, i))
  BY <1>2 DEF SendMessageWrites
<1>6. /\ KeepsAll(UpdateChatColourWrites)
      /\ KeepsAll(UpdateChatLastActiveTimestampWrites)
  BY DEF UpdateChatColourWrites, UpdateChatLastActiveTimestampWrites
<1> QED
  BY <1>3, <1>4, <1>5, <1>6

(***************************************************************************)
(* A gesture makes one sequence of the program, or no write at all; only   *)
(* newChat replaces the chat document.                                     *)
(***************************************************************************)
LEMMA GestureCalls ==
  ASSUME InductiveInvariant, NEW d \in Device, GestureStep(d)
  PROVE  \/ \E ws \in Program : /\ Call(d, ws)
                                /\ "newChat" \notin Gesture => KeepsAll(ws)
         \/ UNCHANGED clientVars
PROOF
<1> DEFINE Calls == \E ws \in Program :
                      /\ Call(d, ws)
                      /\ "newChat" \notin Gesture => KeepsAll(ws)
<1> USE DEF Make
<1>1. CASE OpenChat(d)
  BY <1>1 DEF OpenChat
<1>2. CASE Back(d)
  BY <1>2 DEF Back
<1>3. CASE NewChat(d)
  BY <1>3, ProgramMembers, OthersKeep, UserAssumption DEF NewChat
<1>4. CASE UpdateChatColour(d)
  BY <1>4, ProgramParts, OthersKeep DEF UpdateChatColour
<1>5. CASE SendMessage(d)
  <2>1. made[d] \in Nat /\ MaxCalls[d] \in Nat
    BY BoundAssumption DEF InductiveInvariant, TypeOK
  <2>2. Owed(d) \in Nat
    <3>1. calls[d] \o queue[d] \in Seq(Batch) /\ main[d] \in Seq(Handler)
      BY DEF InductiveInvariant, TypeOK
    <3>2. \A s \in Seq(Batch) :
            Len(SelectSeq(s, LAMBDA b : b.live /\ IsMessage(b))) \in Nat
      OBVIOUS
    <3> QED
      BY <3>1, <3>2 DEF Owed
  <2>3. made[d] + 1 \in 1 .. MaxCalls[d]
    BY <1>5, <2>1, <2>2 DEF SendMessage
  <2>4. Call(d, SendMessageWrites(d, made[d] + 1))
    BY <1>5 DEF SendMessage
  <2> QED
    BY <2>3, <2>4, ProgramMembers, OthersKeep
<1>6. ASSUME NEW u \in User, OpenMember(d, u)
      PROVE  UNCHANGED clientVars
  BY <1>6 DEF OpenMember
<1>7. ASSUME NEW u \in User, RemoveFromChat(d, u)
      PROVE  Calls
  BY <1>7, ProgramMembers, OthersKeep DEF RemoveFromChat
<1>8. ASSUME NEW u \in User, UpdateUserColour(d, u)
      PROVE  Calls
  BY <1>8, ProgramMembers, OthersKeep DEF UpdateUserColour
<1>9. ASSUME NEW u \in User, UpdateUserName(d, u)
      PROVE  Calls
  BY <1>9, ProgramMembers, OthersKeep DEF UpdateUserName
<1>10. ASSUME NEW u \in Candidate, AddNewUser(d, u)
      PROVE  Calls
  BY <1>10, ProgramMembers, OthersKeep, UserAssumption DEF AddNewUser
<1> QED
  BY <1>1, <1>2, <1>3, <1>4, <1>5, <1>6, <1>7, <1>8, <1>9, <1>10
     DEF GestureStep

(***************************************************************************)
(* Every step of the chat is a step of the client or a stutter: gestures   *)
(* are calls, the completion handler of a message is a Complete with the   *)
(* write that marks the chat as active, a restart is a Kill.               *)
(***************************************************************************)
LEMMA ChatStep ==
  ASSUME InductiveInvariant, [ChatNext]_chatVars
  PROVE  [Next]_clientVars
PROOF
<1>1. CASE UNCHANGED chatVars
  BY <1>1 DEF chatVars
<1>2. ASSUME NEW d \in Device, GestureStep(d)
      PROVE  [Next]_clientVars
  BY <1>2, GestureCalls DEF Next
<1>3. ASSUME NEW d \in Device, RunCompletion(d)
      PROVE  Next
  <2>1. CompletionWrites(Head(main[d])) \in Program \cup {<<>>}
    BY ProgramParts DEF CompletionWrites
  <2> QED
    BY <1>3, <2>1 DEF RunCompletion, Next
<1>4. ASSUME NEW d \in Device, Background(d)
      PROVE  Next
  BY <1>4 DEF Next
<1>5. ASSUME NEW d \in Device, Restart(d)
      PROVE  Next
  BY <1>5 DEF Restart, Next
<1> QED
  BY <1>1, <1>2, <1>3, <1>4, <1>5 DEF ChatNext

(***************************************************************************)
(* The app is a use of the Firestore client, and of its queues.            *)
(***************************************************************************)
THEOREM ChatImplementsClient == ChatSpec => Spec
PROOF
<1>1. ChatInit => Init /\ InductiveInvariant
  BY InitInvariant DEF ChatInit
<1>2. InductiveInvariant /\ [ChatNext]_chatVars => [Next]_clientVars
  BY ChatStep
<1>3. InductiveInvariant /\ [ChatNext]_chatVars => InductiveInvariant'
  BY <1>2, NextInvariant
<1> QED
  BY <1>1, <1>2, <1>3, PTL DEF ChatSpec, Spec

(***************************************************************************)
(* What follows for the app: its cached documents are the server's or are  *)
(* marked to be replaced, and "Success" is printed for committed writes.   *)
(***************************************************************************)
THEOREM ChatCacheIsFaithful == ChatSpec => [](CacheFaithful /\ SuccessIsCommitted)
PROOF
  BY ChatImplementsClient, CacheIsFaithful, SuccessMeansCommitted, PTL

(***************************************************************************)
(* No message or membership change that was stored on the device is lost   *)
(* before the server has answered, over restarts of the app.               *)
(***************************************************************************)
THEOREM ChatWritesAreAnswered == ChatSpec => StoredUntilAnswered
PROOF
  BY ChatImplementsClient, StoredWritesAreAnswered, PTL

(***************************************************************************)
(* Once the chat is made, no write on its way replaces its document.       *)
(***************************************************************************)
NoReplacement ==
  \A d \in Device :
    /\ \A i \in DOMAIN calls[d] : Keeps(calls[d][i].write)
    /\ \A i \in DOMAIN queue[d] : Keeps(queue[d][i].write)

(***************************************************************************)
(* A call of writes that do not replace the document.                      *)
(***************************************************************************)
LEMMA EnqueueKeeps ==
  ASSUME TypeOK, NoReplacement, NEW d \in Device, NEW ws \in Seq(Write),
         KeepsAll(ws), Enqueue(d, ws), UNCHANGED queue
  PROVE  NoReplacement'
PROOF
<1> DEFINE new == Batches(ws, made[d])
<1>1. /\ DOMAIN new = 1 .. Len(ws)
      /\ Len(ws) \in Nat /\ DOMAIN ws = 1 .. Len(ws)
      /\ \A i \in 1 .. Len(ws) : new[i].write = ws[i]
  BY DEF Batches
<1>2. new \in Seq(Batch) /\ calls[d] \in Seq(Batch) /\ Len(new) = Len(ws)
  BY <1>1, BatchesType DEF TypeOK
<1> HIDE DEF new
<1>3. calls' = [calls EXCEPT ![d] = @ \o new] /\ DOMAIN calls = Device
  BY DEF Enqueue, TypeOK, new
<1>4. ASSUME NEW i \in DOMAIN (calls[d] \o new)
      PROVE  Keeps((calls[d] \o new)[i].write)
  <2>2. CASE i \in 1 .. Len(calls[d])
    <3>1. (calls[d] \o new)[i] = calls[d][i] /\ i \in DOMAIN calls[d]
      BY <1>2, <2>2
    <3> QED
      BY <3>1 DEF NoReplacement
  <2>3. CASE i \notin 1 .. Len(calls[d])
    <3>1. /\ i - Len(calls[d]) \in 1 .. Len(ws)
          /\ (calls[d] \o new)[i] = new[i - Len(calls[d])]
      BY <1>2, <2>3
    <3> QED
      BY <1>1, <3>1 DEF KeepsAll
  <2> QED
    BY <2>2, <2>3
<1>5. ASSUME NEW e \in Device, NEW i \in DOMAIN calls'[e]
      PROVE  Keeps(calls'[e][i].write)
  <2>1. CASE e = d
    BY <1>3, <1>4, <2>1
  <2>2. CASE e # d
    BY <1>3, <2>2 DEF NoReplacement
  <2> QED
    BY <2>1, <2>2
<1> QED
  BY <1>5 DEF NoReplacement, Keeps

(***************************************************************************)
(* Every step keeps it so when no chat is made.                            *)
(***************************************************************************)
LEMMA NoReplacementKept ==
  ASSUME "newChat" \notin Gesture, InductiveInvariant, NoReplacement,
         [ChatNext]_chatVars
  PROVE  NoReplacement'
PROOF
<1> USE DEF InductiveInvariant
<1>1. CASE UNCHANGED <<calls, queue>>
  BY <1>1 DEF NoReplacement
<1>2. ASSUME NEW d \in Device, NEW ws \in Program \cup {<<>>}, KeepsAll(ws),
             Enqueue(d, ws), UNCHANGED queue
      PROVE  NoReplacement'
  BY <1>2, EnqueueKeeps, ProgramAssumption, EmptySequence
<1>3. ASSUME NEW d \in Device, GestureStep(d)
      PROVE  NoReplacement'
  <2>1. CASE UNCHANGED clientVars
    BY <1>1, <2>1 DEF clientVars
  <2>2. CASE \E ws \in Program : Call(d, ws) /\ KeepsAll(ws)
    BY <1>2, <2>2 DEF Call
  <2> QED
    BY <1>3, <2>1, <2>2, GestureCalls
<1>4. ASSUME NEW d \in Device, RunCompletion(d)
      PROVE  NoReplacement'
  <2> DEFINE ws == CompletionWrites(Head(main[d]))
  <2>1. ws \in Program \cup {<<>>} /\ KeepsAll(ws)
    BY ProgramParts, OthersKeep, EmptySequence DEF CompletionWrites, KeepsAll
  <2>2. Enqueue(d, ws) /\ UNCHANGED queue
    BY <1>4 DEF RunCompletion, Complete
  <2> QED
    BY <1>2, <2>1, <2>2
<1>5. ASSUME NEW d \in Device, WriteLocally(d)
      PROVE  NoReplacement'
  <2>1. calls[d] \in Seq(Batch) /\ calls[d] # <<>> /\ queue[d] \in Seq(Batch)
    BY <1>5 DEF WriteLocally, TypeOK
  <2>2. \A i \in DOMAIN Tail(calls[d]) : Keeps(Tail(calls[d])[i].write)
    BY <2>1, TailFacts DEF NoReplacement
  <2>3. \A i \in DOMAIN Append(queue[d], Head(calls[d])) :
          Keeps(Append(queue[d], Head(calls[d]))[i].write)
    BY <2>1, TailFacts DEF NoReplacement
  <2>4. \A e \in Device :
          /\ calls'[e] = IF e = d THEN Tail(calls[d]) ELSE calls[e]
          /\ queue'[e] = IF e = d THEN Append(queue[d], Head(calls[d]))
                                  ELSE queue[e]
    BY <1>5 DEF WriteLocally, TypeOK
  <2>5. ASSUME NEW e \in Device
        PROVE  /\ \A i \in DOMAIN calls'[e] : Keeps(calls'[e][i].write)
               /\ \A i \in DOMAIN queue'[e] : Keeps(queue'[e][i].write)
    <3>1. CASE e = d
      BY <2>2, <2>3, <2>4, <3>1
    <3>2. CASE e # d
      BY <2>4, <3>2 DEF NoReplacement
    <3> QED
      BY <3>1, <3>2
  <2> QED
    BY <2>5 DEF NoReplacement, Keeps
<1>6. ASSUME NEW d \in Device, AcknowledgeBatch(d) \/ RejectBatch(d)
      PROVE  NoReplacement'
  <2>1. queue[d] \in Seq(Batch) /\ queue[d] # <<>>
    <3>1. responses[d] # <<>>
      BY <1>6 DEF AcknowledgeBatch, RejectBatch
    <3> QED
      BY <3>1, AnswersMatchQueue, EmptySequence DEF TypeOK
  <2>2. \A i \in DOMAIN Tail(queue[d]) : Keeps(Tail(queue[d])[i].write)
    BY <2>1, TailFacts DEF NoReplacement
  <2>3. /\ UNCHANGED calls
        /\ \A e \in Device :
             queue'[e] = IF e = d THEN Tail(queue[d]) ELSE queue[e]
    BY <1>6 DEF AcknowledgeBatch, RejectBatch, TypeOK
  <2> QED
    BY <2>2, <2>3 DEF NoReplacement, Keeps
<1>7. ASSUME NEW d \in Device, Restart(d)
      PROVE  NoReplacement'
  <2>1. \A e \in Device :
          /\ calls'[e] = IF e = d THEN <<>> ELSE calls[e]
          /\ DOMAIN queue'[e] = DOMAIN queue[e]
          /\ \A i \in DOMAIN queue[e] : queue'[e][i].write = queue[e][i].write
    BY <1>7, SMTT(30) DEF Restart, Kill, TypeOK, Batch
  <2> QED
    BY <2>1, EmptySequence DEF NoReplacement, Keeps
<1>8. ASSUME NEW d \in Device, Background(d)
      PROVE  NoReplacement'
  <2>1. CASE WriteLocally(d) \/ AcknowledgeBatch(d) \/ RejectBatch(d)
    BY <1>5, <1>6, <2>1
  <2>2. CASE Commit(d) \/ Refuse(d) \/ BreakStream(d)
             \/ \E v \in 1 .. Latest : ApplyRemoteEvent(d, v)
    BY <1>1, <2>2 DEF Commit, Refuse, BreakStream, ApplyRemoteEvent
  <2> QED
    BY <1>8, <2>1, <2>2 DEF Background
<1>9. CASE UNCHANGED chatVars
  BY <1>1, <1>9 DEF chatVars, clientVars
<1> QED
  BY <1>3, <1>4, <1>7, <1>8, <1>9 DEF ChatNext

(***************************************************************************)
(* The writes to the chat document that do not replace it.                 *)
(***************************************************************************)
LEMMA ChatDocumentWrites ==
  ASSUME NEW write \in ChatWrite, Keeps(write), write.key = ChatDocument
  PROVE  \/ \E v \in User : write = AddNewUserWrites(v)[1]
         \/ \E v \in User : write = RemoveFromChatWrites(v)[1]
         \/ write = UpdateChatColourWrites[1]
         \/ write = UpdateChatLastActiveTimestampWrites[1]
PROOF
<1>1. PICK ws \in ChatProgram : \E i \in DOMAIN ws : write = ws[i]
  BY DEF ChatWrite, Range
<1>2. PICK i \in DOMAIN ws : write = ws[i]
  BY <1>1
<1>3. /\ \A u \in User : Member(u) # ChatDocument
      /\ \A d \in Device, n \in Nat : Message(d, n) # ChatDocument
  BY DEF Member, Message, ChatDocument
<1>4. write.kind # "set"
  BY DEF Keeps
<1>5. ASSUME NEW u \in User, ws \in UserPrograms(u)
      PROVE  \/ write = AddNewUserWrites(u)[1]
             \/ write = RemoveFromChatWrites(u)[1]
  <2>1. ASSUME ws = NewChatWrites(u)
        PROVE  FALSE
    <3>1. \/ write = CreateBaseChatDocument(u)
          \/ write = CreateChatUserCollection(u)
      BY <1>2, <2>1 DEF NewChatWrites
    <3>2. /\ CreateBaseChatDocument(u).kind = "set"
          /\ CreateChatUserCollection(u).kind = "set"
      BY DEF CreateBaseChatDocument, CreateChatUserCollection, SetData
    <3> QED
      BY <1>4, <3>1, <3>2
  <2>2. ASSUME ws = AddNewUserWrites(u)
        PROVE  write = AddNewUserWrites(u)[1]
    <3>1. i = 1 \/ i = 2
      <4>1. \A a, b : \A j \in DOMAIN <<a, b>> : j = 1 \/ j = 2
        OBVIOUS
      <4> QED
        BY <2>2, <4>1 DEF AddNewUserWrites
    <3>2. AddNewUserWrites(u)[2].kind = "set"
      BY DEF AddNewUserWrites, MemberDetails, SetData
    <3> QED
      BY <1>2, <1>4, <2>2, <3>1, <3>2
  <2>3. ASSUME ws = RemoveFromChatWrites(u)
        PROVE  write = RemoveFromChatWrites(u)[1]
    <3>1. i = 1
      BY <2>3 DEF RemoveFromChatWrites
    <3> QED
      BY <1>2, <2>3, <3>1
  <2>4. ASSUME ws = UpdateUserColourWrites(u) \/ ws = UpdateUserNameWrites(u)
        PROVE  FALSE
    <3>1. write.key = Member(u)
      BY <1>2, <2>4 DEF UpdateUserColourWrites, UpdateUserNameWrites, MergeData
    <3> QED
      BY <1>3, <3>1
  <2> QED
    BY <1>5, <2>1, <2>2, <2>3, <2>4 DEF UserPrograms
<1>6. ASSUME NEW d \in Device, ws \in MessagePrograms(d)
      PROVE  FALSE
  <2>1. PICK n \in 1 .. MaxCalls[d] : ws = SendMessageWrites(d, n)
    BY <1>6 DEF MessagePrograms
  <2>2. write.key = Message(d, n)
    BY <1>2, <2>1 DEF SendMessageWrites, SetData
  <2> QED
    BY <1>3, <2>2
<1>7. ASSUME ws = UpdateChatColourWrites
      PROVE  write = UpdateChatColourWrites[1]
  BY <1>2, <1>7 DEF UpdateChatColourWrites
<1>8. ASSUME ws = UpdateChatLastActiveTimestampWrites
      PROVE  write = UpdateChatLastActiveTimestampWrites[1]
  BY <1>2, <1>8 DEF UpdateChatLastActiveTimestampWrites
<1> QED
  BY <1>5, <1>6, <1>7, <1>8 DEF ChatProgram

(***************************************************************************)
(* What a commit makes of the users array: a write that does not replace   *)
(* the document drops nobody but the user it removes.                      *)
(***************************************************************************)
LEMMA UsersKept ==
  ASSUME NEW write \in ChatWrite, Keeps(write), write.key = ChatDocument,
         NEW data, NEW now,
         NEW u, write # RemoveFromChatWrites(u)[1],
         u \in PreviousArray(data, "users")
  PROVE  u \in PreviousArray(NewData(write, data, now), "users")
PROOF
<1>1. \/ \E v \in User : write = AddNewUserWrites(v)[1]
      \/ \E v \in User : write = RemoveFromChatWrites(v)[1]
      \/ write = UpdateChatColourWrites[1]
      \/ write = UpdateChatLastActiveTimestampWrites[1]
  BY ChatDocumentWrites
<1> DEFINE patched == PatchDocument(write, data)
<1>2. ASSUME write.kind # "set", "users" \notin DOMAIN write.fields
      PROVE  PreviousArray(patched, "users") = PreviousArray(data, "users")
  BY <1>2 DEF PatchDocument, PreviousArray, Overlay
<1>3. ASSUME "users" \in DOMAIN write.transforms
      PROVE  PreviousArray(TransformObject(write, patched, now), "users")
             = Transformed(write.transforms["users"],
                           PreviousArray(patched, "users"), now)
  <2> HIDE DEF patched
  <2> QED
    BY <1>3 DEF PreviousArray, TransformObject, Overlay
<1>4. ASSUME "users" \notin DOMAIN write.transforms
      PROVE  PreviousArray(TransformObject(write, patched, now), "users")
             = PreviousArray(patched, "users")
  <2> HIDE DEF patched
  <2> QED
    BY <1>4 DEF PreviousArray, TransformObject, Overlay
<1> HIDE DEF patched
<1>5. ASSUME NEW v \in User, write = AddNewUserWrites(v)[1]
      PROVE  u \in PreviousArray(TransformObject(write, patched, now), "users")
  <2>1. write = MergeData(ChatDocument, <<>>, [users |-> ArrayUnion({v})])
    BY <1>5 DEF AddNewUserWrites
  <2>2. write.kind = "merge" /\ DOMAIN write.fields = {}
        /\ write.transforms = [users |-> ArrayUnion({v})]
    BY <2>1, EmptySequence DEF MergeData
  <2>3. Transformed(ArrayUnion({v}), PreviousArray(patched, "users"), now)
        = PreviousArray(patched, "users") \cup {v}
    BY DEF Transformed, ArrayUnion
  <2> QED
    BY <1>2, <1>3, <2>2, <2>3
<1>6. ASSUME NEW v \in User, write = RemoveFromChatWrites(v)[1]
      PROVE  u \in PreviousArray(TransformObject(write, patched, now), "users")
  <2>1. write = UpdateData(ChatDocument, <<>>, [users |-> ArrayRemove({v})])
    BY <1>6 DEF RemoveFromChatWrites
  <2>2. write.kind = "update" /\ DOMAIN write.fields = {}
        /\ write.transforms = [users |-> ArrayRemove({v})]
    BY <2>1, EmptySequence DEF UpdateData
  <2>3. Transformed(ArrayRemove({v}), PreviousArray(patched, "users"), now)
        = PreviousArray(patched, "users") \ {v}
    BY DEF Transformed, ArrayRemove
  <2>4. u # v
    BY <1>6
  <2> QED
    BY <1>2, <1>3, <2>2, <2>3, <2>4
<1>7. ASSUME write = UpdateChatColourWrites[1]
      PROVE  u \in PreviousArray(TransformObject(write, patched, now), "users")
  <2>1. write = MergeData(ChatDocument, [colour |-> ChosenColour], <<>>)
    BY <1>7 DEF UpdateChatColourWrites
  <2>2. write.kind = "merge" /\ DOMAIN write.fields = {"colour"}
        /\ DOMAIN write.transforms = {}
    BY <2>1, EmptySequence DEF MergeData
  <2> QED
    BY <1>2, <1>4, <2>2
<1>8. ASSUME write = UpdateChatLastActiveTimestampWrites[1]
      PROVE  u \in PreviousArray(TransformObject(write, patched, now), "users")
  <2>1. write = MergeData(ChatDocument, <<>>, [chatLastActive |-> ServerTimestamp])
    BY <1>8 DEF UpdateChatLastActiveTimestampWrites
  <2>2. write.kind = "merge" /\ DOMAIN write.fields = {}
        /\ DOMAIN write.transforms = {"chatLastActive"}
    BY <2>1, EmptySequence DEF MergeData
  <2> QED
    BY <1>2, <1>4, <2>2
<1> QED
  BY <1>1, <1>5, <1>6, <1>7, <1>8 DEF NewData, patched

(***************************************************************************)
(* A step that changes the users array of the server is a commit, and only *)
(* the commit of his removal takes a user away.                            *)
(***************************************************************************)
LEMMA StepKeepsUsers ==
  ASSUME InductiveInvariant, NoReplacement, [ChatNext]_chatVars,
         NEW u \in Members \ Members'
  PROVE  \E d \in Device : /\ Commit(d)
                           /\ NextSent(d).write = RemoveFromChatWrites(u)[1]
PROOF
<1> USE DEF InductiveInvariant
<1>1. backend' # backend
  BY DEF Members, Server, Latest
<1>2. [Next]_clientVars
  BY ChatStep
<1>3. PICK d \in Device : Commit(d)
  BY <1>1, <1>2 DEF Next, clientVars, Call, Complete, Background, Kill,
     WriteLocally, Refuse, AcknowledgeBatch, RejectBatch, BreakStream,
     ApplyRemoteEvent
<1> DEFINE batch   == NextSent(d)
           current == backend[Latest][batch.write.key]
           doc     == ServerApply(batch.write, current, Latest + 1)
<1>4. /\ CanSend(d)
      /\ IsValidFor(batch.write, current)
      /\ backend' = IF doc = current
                    THEN backend
                    ELSE Append(backend, [backend[Latest] EXCEPT
                                            ![batch.write.key] = doc])
  BY <1>3 DEF Commit
<1>5. batch \in Batch /\ Keeps(batch.write)
  <2>1. /\ queue[d] \in Seq(Batch) /\ responses[d] \in Seq(Answer)
        /\ Len(responses[d]) + 1 \in DOMAIN queue[d]
    BY <1>4 DEF CanSend, TypeOK
  <2> QED
    BY <2>1 DEF NextSent, NoReplacement
<1>6. batch.write \in ChatWrite
  BY <1>5, ChatConstants DEF Batch
<1>7. /\ backend' = Append(backend, [backend[Latest] EXCEPT
                                       ![batch.write.key] = doc])
      /\ doc # current
  BY <1>1, <1>4
<1>8. /\ backend'[Latest'] = [backend[Latest] EXCEPT ![batch.write.key] = doc]
      /\ DOMAIN backend[Latest] = Key
      /\ ChatDocument \in Key
  <2>1. backend \in Seq(Range(backend)) /\ Latest = Len(backend)
        /\ Latest \in DOMAIN backend
    BY DEF TypeOK, Latest
  <2>2. Latest' = Latest + 1
    BY <1>7, <2>1 DEF Latest
  <2>3. backend'[Latest + 1] = [backend[Latest] EXCEPT ![batch.write.key] = doc]
    BY <1>7, <2>1
  <2>4. ChatDocument \in Key
    BY ChatConstants DEF ChatKey
  <2> QED
    BY <2>1, <2>2, <2>3, <2>4 DEF TypeOK
<1> HIDE DEF batch, doc, current
<1>9. batch.write.key = ChatDocument
  BY <1>8 DEF Members, Server
<1>10. /\ Members = PreviousArray(current.data, "users")
       /\ Members' = PreviousArray(doc.data, "users")
  BY <1>8, <1>9 DEF Members, Server, current
<1>11. doc.data = NewData(batch.write, current.data, CommitTime(Latest + 1))
  BY <1>7 DEF ServerApply, doc
<1>12. batch.write = RemoveFromChatWrites(u)[1]
  BY <1>5, <1>6, <1>9, <1>10, <1>11, UsersKept
<1> QED
  BY <1>3, <1>12 DEF batch

(***************************************************************************)
(* Once a chat is made, a user leaves its users array on the server only   *)
(* when his removal is committed, however many devices write to the chat   *)
(* at the same time, break off and are restarted.                          *)
(***************************************************************************)
THEOREM UsersLeaveByRemoval ==
  ASSUME "newChat" \notin Gesture
  PROVE  ChatSpec => LeaveByRemoval
PROOF
<1>1. ChatInit => InductiveInvariant /\ NoReplacement
  BY InitInvariant, EmptySequence DEF ChatInit, Init, NoReplacement
<1>2. InductiveInvariant /\ NoReplacement /\ [ChatNext]_chatVars
      => InductiveInvariant' /\ NoReplacement'
  BY ChatStep, NextInvariant, NoReplacementKept
<1>3. InductiveInvariant /\ NoReplacement /\ [ChatNext]_chatVars
      => \A u \in Members \ Members' :
           \E d \in Device : /\ Commit(d)
                             /\ NextSent(d).write = RemoveFromChatWrites(u)[1]
  BY StepKeepsUsers
<1> QED
  BY <1>1, <1>2, <1>3, PTL DEF ChatSpec, LeaveByRemoval

(***************************************************************************)
(* The documents of a chat are different ones.                             *)
(***************************************************************************)
LEMMA KeysDiffer ==
  /\ ChatDocument \in Key
  /\ \A u \in User : Member(u) \in Key /\ Member(u) # ChatDocument
  /\ \A u, v \in User : Member(u) = Member(v) => u = v
  /\ \A m \in Messages : m \in Key /\ m # ChatDocument
  /\ \A m \in Messages, u \in User : m # Member(u)
  /\ \A m \in Messages : \E d \in Device : \E i \in 1 .. MaxCalls[d] : m = Message(d, i)
  /\ \A d \in Device : \A i \in 1 .. MaxCalls[d] : Message(d, i) \in Messages
  /\ \A d, e : \A i, j : Message(d, i) = Message(e, j) => d = e /\ i = j
PROOF
<1>1. \A d, i : Message(d, i) # ChatDocument /\ \A u : Message(d, i) # Member(u)
  BY DEF Message, Member, ChatDocument
<1>2. \A u, v : Member(u) # ChatDocument /\ (Member(u) = Member(v) => u = v)
  BY DEF Member, ChatDocument
<1>3. \A d, e : \A i, j : Message(d, i) = Message(e, j) => d = e /\ i = j
  BY DEF Message
<1>4. ChatKey = Key
  BY ChatConstants
<1>5. /\ ChatDocument \in Key
      /\ \A u \in User : Member(u) \in Key
      /\ Messages \subseteq Key
  BY <1>4 DEF ChatKey
<1>6. /\ \A m \in Messages : \E d \in Device : \E i \in 1 .. MaxCalls[d] : m = Message(d, i)
      /\ \A d \in Device : \A i \in 1 .. MaxCalls[d] : Message(d, i) \in Messages
  BY DEF Messages, MessagesOf
<1> QED
  BY <1>1, <1>2, <1>3, <1>5, <1>6

(***************************************************************************)
(* The writes by their operation.                                          *)
(***************************************************************************)
AddsUser(u) == MergeData(ChatDocument, <<>>, [users |-> ArrayUnion({u})])

RemovesUser(u) == UpdateData(ChatDocument, <<>>, [users |-> ArrayRemove({u})])

ColoursChat == MergeData(ChatDocument, [colour |-> ChosenColour], <<>>)

ColoursMember(u) == MergeData(Member(u), [colour |-> ChosenColour], <<>>)

NamesMember(u) == MergeData(Member(u), [userName |-> "new"], <<>>)

StoresMessage(d, i) ==
  SetData(Message(d, i), [fromEmail |-> UserOf[d]], [time |-> ServerTimestamp])

NotesActivity == MergeData(ChatDocument, <<>>, [chatLastActive |-> ServerTimestamp])

(***************************************************************************)
(* What each gesture makes.                                                *)
(***************************************************************************)
LEMMA ProgramsAre ==
  /\ \A u : NewChatWrites(u) = <<CreateBaseChatDocument(u), CreateChatUserCollection(u)>>
  /\ \A u : AddNewUserWrites(u) = <<AddsUser(u), MemberDetails(u)>>
  /\ \A u : RemoveFromChatWrites(u) = <<RemovesUser(u)>>
  /\ UpdateChatColourWrites = <<ColoursChat>>
  /\ \A u : UpdateUserColourWrites(u) = <<ColoursMember(u)>>
  /\ \A u : UpdateUserNameWrites(u) = <<NamesMember(u)>>
  /\ \A d, i : SendMessageWrites(d, i) = <<StoresMessage(d, i)>>
  /\ UpdateChatLastActiveTimestampWrites = <<NotesActivity>>
PROOF
  BY DEF NewChatWrites, AddNewUserWrites, RemoveFromChatWrites,
         UpdateChatColourWrites, UpdateUserColourWrites, UpdateUserNameWrites,
         SendMessageWrites, UpdateChatLastActiveTimestampWrites,
         AddsUser, RemovesUser, ColoursChat, ColoursMember, NamesMember,
         StoresMessage, NotesActivity

(***************************************************************************)
(* Every write of the app is one of them.                                  *)
(***************************************************************************)
IsUserWrite(write, u) ==
  \/ write = CreateBaseChatDocument(u)
  \/ write = CreateChatUserCollection(u)
  \/ write = AddsUser(u)
  \/ write = MemberDetails(u)
  \/ write = RemovesUser(u)
  \/ write = ColoursMember(u)
  \/ write = NamesMember(u)

(***************************************************************************)
(* Every write of the app is one of the eight.                             *)
(***************************************************************************)
LEMMA WritesAre ==
  ASSUME NEW write \in Write
  PROVE  \/ \E u \in User : IsUserWrite(write, u)
         \/ \E d \in Device : \E i \in 1 .. MaxCalls[d] : write = StoresMessage(d, i)
         \/ write = ColoursChat
         \/ write = NotesActivity
PROOF
<1>1. \A a : \A i \in DOMAIN <<a>> : <<a>>[i] = a
  OBVIOUS
<1>2. \A a, b : \A i \in DOMAIN <<a, b>> : <<a, b>>[i] = a \/ <<a, b>>[i] = b
  OBVIOUS
<1>3. PICK ws \in ChatProgram : \E i \in DOMAIN ws : write = ws[i]
  BY ChatConstants DEF ChatWrite, Range
<1>4. PICK i \in DOMAIN ws : write = ws[i]
  BY <1>3
<1>5. ASSUME NEW u \in User, ws \in UserPrograms(u)
      PROVE  IsUserWrite(write, u)
  <2>1. \/ ws = <<CreateBaseChatDocument(u), CreateChatUserCollection(u)>>
        \/ ws = <<AddsUser(u), MemberDetails(u)>>
        \/ ws = <<RemovesUser(u)>>
        \/ ws = <<ColoursMember(u)>>
        \/ ws = <<NamesMember(u)>>
    BY <1>5, ProgramsAre DEF UserPrograms
  <2> QED
    BY <1>1, <1>2, <1>4, <2>1, Zenon DEF IsUserWrite
<1>6. ASSUME NEW d \in Device, ws \in MessagePrograms(d)
      PROVE  \E j \in 1 .. MaxCalls[d] : write = StoresMessage(d, j)
  <2>1. PICK j \in 1 .. MaxCalls[d] : ws = <<StoresMessage(d, j)>>
    BY <1>6, ProgramsAre DEF MessagePrograms
  <2> QED
    BY <1>1, <1>4, <2>1
<1>7. CASE ws = UpdateChatColourWrites
  BY <1>1, <1>4, <1>7, ProgramsAre
<1>8. CASE ws = UpdateChatLastActiveTimestampWrites
  BY <1>1, <1>4, <1>8, ProgramsAre
<1>9. \/ \E u \in User : ws \in UserPrograms(u)
      \/ \E d \in Device : ws \in MessagePrograms(d)
      \/ ws = UpdateChatColourWrites
      \/ ws = UpdateChatLastActiveTimestampWrites
  BY <1>3 DEF ChatProgram
<1> QED
  BY <1>5, <1>6, <1>7, <1>8, <1>9

(***************************************************************************)
(* The parts of a write.                                                   *)
(***************************************************************************)
HasParts(write, key, kind, fields, transforms) ==
  /\ write.key = key
  /\ write.kind = kind
  /\ DOMAIN write.fields = fields
  /\ DOMAIN write.transforms = transforms

(***************************************************************************)
(* What the parts of each write are.                                       *)
(***************************************************************************)
LEMMA PartsAre ==
  /\ \A u : /\ HasParts(CreateBaseChatDocument(u), ChatDocument, "set",
                        {"name", "colour", "users"}, {"chatLastActive"})
            /\ HasParts(CreateChatUserCollection(u), Member(u), "set",
                        {"name", "nickName", "colour"}, {"timeAdded"})
            /\ HasParts(AddsUser(u), ChatDocument, "merge", {}, {"users"})
            /\ HasParts(MemberDetails(u), Member(u), "set",
                        {"name", "userName", "colour"}, {})
            /\ HasParts(RemovesUser(u), ChatDocument, "update", {}, {"users"})
            /\ HasParts(ColoursMember(u), Member(u), "merge", {"colour"}, {})
            /\ HasParts(NamesMember(u), Member(u), "merge", {"userName"}, {})
  /\ \A d, i : HasParts(StoresMessage(d, i), Message(d, i), "set",
                        {"fromEmail"}, {"time"})
  /\ HasParts(ColoursChat, ChatDocument, "merge", {"colour"}, {})
  /\ HasParts(NotesActivity, ChatDocument, "merge", {}, {"chatLastActive"})
PROOF
  BY EmptySequence
     DEF HasParts, CreateBaseChatDocument, CreateChatUserCollection, AddsUser,
         MemberDetails, RemovesUser, ColoursMember, NamesMember, StoresMessage,
         ColoursChat, NotesActivity, SetData, MergeData, UpdateData

(***************************************************************************)
(* What the invariants need of a write: only the removal of a user needs a *)
(* document to be there; what makes a member document anew gives it what   *)
(* the screens unwrap; messages are written as a whole.                    *)
(***************************************************************************)
LEMMA WriteParts ==
  ASSUME NEW write \in Write
  PROVE  /\ \/ write.key = ChatDocument
            \/ \E u \in User : write.key = Member(u)
            \/ write.key \in Messages
         /\ write.kind = "update" => write.key = ChatDocument
         /\ \A u \in User : write.key = Member(u) => IsUserWrite(write, u)
         /\ \A u \in User : write.key = Member(u) /\ write.kind = "set" =>
              {"name", "colour"} \subseteq DOMAIN write.fields
         /\ \A d \in Device : \A i \in 1 .. MaxCalls[d] :
              write.key = Message(d, i) => write = StoresMessage(d, i)
PROOF
<1>1. CASE \E u \in User : IsUserWrite(write, u)
  <2>1. PICK u \in User : IsUserWrite(write, u)
    BY <1>1
  <2>2. CASE write = CreateBaseChatDocument(u) \/ write = AddsUser(u) \/ write = RemovesUser(u)
    <3>1. write.key = ChatDocument
      BY <2>2, PartsAre DEF HasParts
    <3> QED
      BY <3>1, KeysDiffer
  <2>3. CASE \/ write = CreateChatUserCollection(u) \/ write = MemberDetails(u)
             \/ write = ColoursMember(u) \/ write = NamesMember(u)
    <3>1. /\ write.key = Member(u) /\ write.kind # "update"
          /\ write.kind = "set" => {"name", "colour"} \subseteq DOMAIN write.fields
      BY <2>3, PartsAre DEF HasParts
    <3> QED
      BY <2>1, <3>1, KeysDiffer
  <2> QED
    BY <2>1, <2>2, <2>3 DEF IsUserWrite
<1>2. CASE \E d \in Device : \E i \in 1 .. MaxCalls[d] : write = StoresMessage(d, i)
  <2>1. PICK d \in Device : \E i \in 1 .. MaxCalls[d] : write = StoresMessage(d, i)
    BY <1>2
  <2>2. PICK i \in 1 .. MaxCalls[d] : write = StoresMessage(d, i)
    BY <2>1
  <2>3. write.key = Message(d, i) /\ write.kind # "update"
    BY <2>2, PartsAre DEF HasParts
  <2>4. Message(d, i) \in Messages
    BY KeysDiffer
  <2> QED
    BY <2>2, <2>3, <2>4, KeysDiffer
<1>3. CASE write = ColoursChat \/ write = NotesActivity
  <2>1. write.key = ChatDocument /\ write.kind # "update"
    BY <1>3, PartsAre DEF HasParts
  <2> QED
    BY <2>1, KeysDiffer
<1> QED
  BY <1>1, <1>2, <1>3, WritesAre

(***************************************************************************)
(* The writes of a device on their way to the server: those of the         *)
(* mutation queue, then those waiting on the worker queue.                 *)
(***************************************************************************)
LineLen(d) == Len(queue[d]) + Len(calls[d])

At(d, p) ==
  IF p <= Len(queue[d]) THEN queue[d][p] ELSE calls[d][p - Len(queue[d])]

(***************************************************************************)
(* The shape of the line.                                                  *)
(***************************************************************************)
LEMMA LineType ==
  ASSUME TypeOK, NEW d \in Device
  PROVE  /\ queue[d] \in Seq(Batch) /\ calls[d] \in Seq(Batch)
         /\ responses[d] \in Seq(Answer) /\ main[d] \in Seq(Handler)
         /\ Len(queue[d]) \in Nat /\ Len(calls[d]) \in Nat
         /\ Len(responses[d]) \in 0 .. Len(queue[d])
         /\ DOMAIN queue[d] = 1 .. Len(queue[d])
         /\ DOMAIN calls[d] = 1 .. Len(calls[d])
         /\ DOMAIN responses[d] = 1 .. Len(responses[d])
         /\ LineLen(d) \in Nat
         /\ Len(queue[d]) <= LineLen(d)
         /\ \A p \in 1 .. LineLen(d) :
              /\ At(d, p) \in Batch
              /\ At(d, p).write \in Write
         /\ \A p \in 1 .. Len(queue[d]) : At(d, p) = queue[d][p]
PROOF
<1>1. /\ queue \in [Device -> Seq(Batch)] /\ calls \in [Device -> Seq(Batch)]
      /\ responses \in [Device -> Seq(Answer)] /\ main \in [Device -> Seq(Handler)]
  BY DEF TypeOK
<1>2. /\ Len(queue[d]) \in Nat /\ Len(calls[d]) \in Nat
      /\ DOMAIN calls[d] = 1 .. Len(calls[d])
      /\ DOMAIN queue[d] = 1 .. Len(queue[d])
      /\ DOMAIN responses[d] = 1 .. Len(responses[d])
  BY <1>1
<1>3. Len(responses[d]) \in 0 .. Len(queue[d])
  BY AnswersMatchQueue
<1>4. ASSUME NEW p \in 1 .. LineLen(d)
      PROVE  At(d, p) \in Batch
  <2>1. CASE p <= Len(queue[d])
    <3>1. p \in DOMAIN queue[d]
      BY <1>2, <2>1
    <3> QED
      BY <1>1, <2>1, <3>1 DEF At
  <2>2. CASE ~(p <= Len(queue[d]))
    <3>1. p - Len(queue[d]) \in DOMAIN calls[d]
      BY <1>1, <1>2, <2>2 DEF LineLen
    <3> QED
      BY <1>1, <2>2, <3>1 DEF At
  <2> QED
    BY <2>1, <2>2
<1>5. \A b \in Batch : b.write \in Write
  BY DEF Batch
<1>6. LineLen(d) \in Nat /\ Len(queue[d]) <= LineLen(d)
  BY <1>1, <1>2 DEF LineLen
<1>7. \A p \in 1 .. Len(queue[d]) : At(d, p) = queue[d][p]
  BY <1>1, <1>2 DEF At
<1> QED
  BY <1>1, <1>2, <1>3, <1>4, <1>5, <1>6, <1>7

(***************************************************************************)
(* What a step leaves of the line of a device.                             *)
(***************************************************************************)
SameLine(d) ==
  /\ LineLen(d)' = LineLen(d)
  /\ \A p \in 1 .. LineLen(d) : At(d, p)' = At(d, p)

LineTail(d) ==
  /\ LineLen(d) >= 1
  /\ LineLen(d)' = LineLen(d) - 1
  /\ \A p \in 1 .. LineLen(d) - 1 : At(d, p)' = At(d, p + 1)

LineExtended(d, ws) ==
  /\ LineLen(d)' = LineLen(d) + Len(ws)
  /\ \A p \in 1 .. LineLen(d) : At(d, p)' = At(d, p)
  /\ \A i \in 1 .. Len(ws), p \in Nat :
       p = LineLen(d) + i =>
         /\ At(d, p)'.write = ws[i]
         /\ At(d, p)'.n = made[d] + i
         /\ At(d, p)'.live = TRUE

LineCut(d) ==
  /\ LineLen(d)' = Len(queue[d])
  /\ \A p \in 1 .. Len(queue[d]) :
       At(d, p)'.write = At(d, p).write /\ At(d, p)'.n = At(d, p).n

(***************************************************************************)
(* A device that is not touched.                                           *)
(***************************************************************************)
LEMMA LineUntouched ==
  ASSUME NEW d, queue'[d] = queue[d], calls'[d] = calls[d]
  PROVE  SameLine(d)
PROOF
  BY DEF SameLine, LineLen, At

(***************************************************************************)
(* A call puts its writes at the end of the line.                          *)
(***************************************************************************)
LEMMA EnqueueLine ==
  ASSUME TypeOK, NEW d \in Device, NEW ws \in Seq(Write), Enqueue(d, ws),
         UNCHANGED queue
  PROVE  /\ LineExtended(d, ws)
         /\ \A e \in Device \ {d} : SameLine(e)
         /\ Len(ws) \in Nat
PROOF
<1> DEFINE new == Batches(ws, made[d])
<1>1. /\ Len(ws) \in Nat
      /\ Len(new) = Len(ws)
      /\ \A i \in 1 .. Len(ws) :
           new[i].write = ws[i] /\ new[i].n = made[d] + i /\ new[i].live = TRUE
  BY DEF Batches
<1>2. new \in Seq(Batch) /\ calls[d] \in Seq(Batch)
  BY BatchesType DEF TypeOK
<1> HIDE DEF new
<1>3. /\ calls' = [calls EXCEPT ![d] = @ \o new] /\ DOMAIN calls = Device
      /\ DOMAIN calls' = Device /\ DOMAIN queue = Device /\ queue' = queue
  BY DEF Enqueue, TypeOK, new
<1>4. ASSUME NEW e \in Device \ {d}
      PROVE  SameLine(e)
  BY <1>3, LineUntouched
<1>5. /\ Len(calls[d]) \in Nat /\ Len(queue[d]) \in Nat
      /\ LineLen(d) = Len(queue[d]) + Len(calls[d])
  BY LineType DEF LineLen
<1>6. /\ Len(calls'[d]) = Len(calls[d]) + Len(ws)
      /\ \A i \in 1 .. Len(calls[d]) : calls'[d][i] = calls[d][i]
      /\ \A i \in 1 .. Len(ws) : calls'[d][Len(calls[d]) + i] = new[i]
  <2>1. calls'[d] = calls[d] \o new
    BY <1>3
  <2>2. calls[d] \in Seq(Batch)
    BY <1>2
  <2>3. \A s, t \in Seq(Batch) :
          /\ Len(s \o t) = Len(s) + Len(t)
          /\ \A i \in 1 .. Len(s) : (s \o t)[i] = s[i]
          /\ \A i \in 1 .. Len(t) : (s \o t)[Len(s) + i] = t[i]
    OBVIOUS
  <2>4. new \in Seq(Batch) /\ Len(new) = Len(ws)
    BY <1>1, <1>2
  <2>5. /\ Len(calls[d] \o new) = Len(calls[d]) + Len(new)
        /\ \A i \in 1 .. Len(calls[d]) : (calls[d] \o new)[i] = calls[d][i]
        /\ \A i \in 1 .. Len(new) : (calls[d] \o new)[Len(calls[d]) + i] = new[i]
    BY <2>2, <2>3, <2>4
  <2> QED
    BY <2>1, <2>4, <2>5
<1>7. LineLen(d)' = LineLen(d) + Len(ws)
  BY <1>1, <1>3, <1>5, <1>6 DEF LineLen
<1>8. ASSUME NEW p \in 1 .. LineLen(d)
      PROVE  At(d, p)' = At(d, p)
  <2>1. CASE p <= Len(queue[d])
    BY <1>3, <2>1 DEF At
  <2>2. CASE ~(p <= Len(queue[d]))
    <3>1. p - Len(queue[d]) \in 1 .. Len(calls[d])
      BY <1>3, <1>5, <2>2
    <3> QED
      BY <1>3, <1>6, <2>2, <3>1 DEF At
  <2> QED
    BY <2>1, <2>2
<1>9. ASSUME NEW i \in 1 .. Len(ws), NEW p \in Nat, p = LineLen(d) + i
      PROVE  At(d, p)' = new[i]
  <2>1. ~(p <= Len(queue[d])) /\ p - Len(queue[d]) = Len(calls[d]) + i
    BY <1>1, <1>3, <1>5, <1>9
  <2>2. At(d, p)' = calls'[d][p - Len(queue[d])]
    BY <1>3, <2>1 DEF At
  <2> QED
    BY <1>6, <2>1, <2>2
<1> QED
  BY <1>1, <1>4, <1>7, <1>8, <1>9 DEF LineExtended

(***************************************************************************)
(* Storing a write does not change the line.                               *)
(***************************************************************************)
LEMMA WriteLocallyLine ==
  ASSUME TypeOK, NEW d \in Device, WriteLocally(d)
  PROVE  \A e \in Device : SameLine(e)
PROOF
<1>1. /\ calls[d] # <<>> /\ DOMAIN queue = Device /\ DOMAIN calls = Device
      /\ DOMAIN queue' = Device /\ DOMAIN calls' = Device
      /\ queue' = [queue EXCEPT ![d] = Append(@, Head(calls[d]))]
      /\ calls' = [calls EXCEPT ![d] = Tail(@)]
  BY DEF WriteLocally, TypeOK
<1>2. ASSUME NEW e \in Device, e # d
      PROVE  SameLine(e)
  BY <1>1, <1>2, LineUntouched
<1>3. queue[d] \in Seq(Batch) /\ calls[d] \in Seq(Batch)
  BY DEF TypeOK
<1>4. /\ Head(calls[d]) \in Batch /\ Head(calls[d]) = calls[d][1]
      /\ Len(calls[d]) \in Nat /\ Len(calls[d]) >= 1
      /\ Len(Tail(calls[d])) = Len(calls[d]) - 1
      /\ DOMAIN Tail(calls[d]) = 1 .. Len(calls[d]) - 1
      /\ \A i \in DOMAIN Tail(calls[d]) : Tail(calls[d])[i] = calls[d][i + 1]
  BY <1>1, <1>3, TailFacts
<1>5. /\ Len(queue[d]) \in Nat
      /\ Len(queue'[d]) = Len(queue[d]) + 1
      /\ \A i \in 1 .. Len(queue[d]) : queue'[d][i] = queue[d][i]
      /\ queue'[d][Len(queue[d]) + 1] = calls[d][1]
      /\ calls'[d] = Tail(calls[d])
  BY <1>1, <1>3, <1>4
<1>6. LineLen(d)' = LineLen(d) /\ LineLen(d) = Len(queue[d]) + Len(calls[d])
  BY <1>1, <1>4, <1>5 DEF LineLen
<1>7. ASSUME NEW p \in 1 .. LineLen(d)
      PROVE  At(d, p)' = At(d, p)
  <2>1. CASE p <= Len(queue[d])
    BY <1>1, <1>5, <2>1 DEF At
  <2>2. CASE p = Len(queue[d]) + 1
    BY <1>1, <1>5, <2>2 DEF At
  <2>3. CASE p > Len(queue[d]) + 1
    <3>1. /\ p - (Len(queue[d]) + 1) \in DOMAIN Tail(calls[d])
          /\ p - (Len(queue[d]) + 1) + 1 = p - Len(queue[d])
      BY <1>1, <1>4, <1>5, <1>6, <2>3
    <3>2. At(d, p)' = calls'[d][p - (Len(queue[d]) + 1)]
      <4>1. ~(p <= Len(queue'[d]))
        BY <1>1, <1>5, <2>3
      <4>2. At(d, p)' = calls'[d][p - Len(queue'[d])]
        BY <4>1 DEF At
      <4> QED
        BY <1>5, <4>2
    <3>3. At(d, p) = calls[d][p - Len(queue[d])]
      BY <1>1, <1>5, <2>3 DEF At
    <3> QED
      BY <1>4, <1>5, <3>1, <3>2, <3>3
  <2> QED
    BY <1>1, <1>5, <1>6, <2>1, <2>2, <2>3
<1>8. SameLine(d)
  BY <1>6, <1>7 DEF SameLine
<1> QED
  BY <1>2, <1>8

(***************************************************************************)
(* An answer takes the first write from the line.                          *)
(***************************************************************************)
LEMMA AnswerLine ==
  ASSUME TypeOK, NEW d \in Device, responses[d] # <<>>,
         queue' = [queue EXCEPT ![d] = Tail(@)], UNCHANGED calls
  PROVE  /\ LineTail(d)
         /\ \A e \in Device \ {d} : SameLine(e)
         /\ Len(queue[d]) >= 1 /\ Len(responses[d]) >= 1
         /\ Head(queue[d]) = At(d, 1) /\ Head(responses[d]) = responses[d][1]
         /\ Len(queue'[d]) = Len(queue[d]) - 1
PROOF
<1>1. /\ queue[d] \in Seq(Batch) /\ queue[d] # <<>> /\ DOMAIN queue = Device
      /\ DOMAIN calls = Device /\ DOMAIN queue' = Device /\ DOMAIN calls' = Device
  BY AnswersMatchQueue, EmptySequence DEF TypeOK
<1>2. /\ Head(queue[d]) = queue[d][1]
      /\ Len(queue[d]) \in Nat /\ Len(queue[d]) >= 1
      /\ Len(Tail(queue[d])) = Len(queue[d]) - 1
      /\ DOMAIN Tail(queue[d]) = 1 .. Len(queue[d]) - 1
      /\ \A i \in DOMAIN Tail(queue[d]) : Tail(queue[d])[i] = queue[d][i + 1]
  BY <1>1, TailFacts
<1>3. Head(responses[d]) = responses[d][1] /\ Len(responses[d]) >= 1
  BY TailFacts DEF TypeOK
<1>4. queue'[d] = Tail(queue[d]) /\ calls'[d] = calls[d]
  BY <1>1
<1>5. ASSUME NEW e \in Device \ {d}
      PROVE  SameLine(e)
  BY <1>1, LineUntouched
<1>6. Len(calls[d]) \in Nat /\ LineLen(d) = Len(queue[d]) + Len(calls[d])
  BY LineType DEF LineLen
<1>7. LineLen(d)' = LineLen(d) - 1 /\ LineLen(d) >= 1
  BY <1>1, <1>2, <1>4, <1>6 DEF LineLen
<1>8. ASSUME NEW p \in 1 .. LineLen(d) - 1
      PROVE  At(d, p)' = At(d, p + 1)
  <2>1. CASE p <= Len(queue[d]) - 1
    <3>1. p \in DOMAIN Tail(queue[d]) /\ p + 1 <= Len(queue[d])
      BY <1>1, <1>2, <1>6, <2>1
    <3>2. At(d, p)' = queue'[d][p]
      BY <1>1, <1>2, <1>4, <2>1 DEF At
    <3> QED
      BY <1>1, <1>2, <1>4, <3>1, <3>2 DEF At
  <2>2. CASE ~(p <= Len(queue[d]) - 1)
    <3>1. ~(p + 1 <= Len(queue[d])) /\ p + 1 - Len(queue[d]) = p - (Len(queue[d]) - 1)
      BY <1>1, <1>2, <1>6, <2>2
    <3>2. At(d, p)' = calls'[d][p - (Len(queue[d]) - 1)]
      BY <1>1, <1>2, <1>4, <2>2 DEF At
    <3> QED
      BY <1>1, <1>4, <3>1, <3>2 DEF At
  <2> QED
    BY <2>1, <2>2
<1>9. LineTail(d)
  BY <1>7, <1>8 DEF LineTail
<1>10. At(d, 1) = queue[d][1]
  BY <1>2 DEF At
<1> QED
  BY <1>2, <1>3, <1>4, <1>5, <1>9, <1>10

(***************************************************************************)
(* A restart leaves what is on disk.                                       *)
(***************************************************************************)
LEMMA KillLine ==
  ASSUME TypeOK, NEW d \in Device, Kill(d)
  PROVE  /\ LineCut(d)
         /\ Len(queue'[d]) = Len(queue[d])
         /\ \A e \in Device \ {d} : SameLine(e)
PROOF
<1> DEFINE stored == [i \in DOMAIN queue[d] |-> [queue[d][i] EXCEPT !.live = FALSE]]
<1>1. /\ DOMAIN queue = Device /\ DOMAIN calls = Device
      /\ DOMAIN queue' = Device /\ DOMAIN calls' = Device
      /\ queue' = [queue EXCEPT ![d] = stored]
      /\ calls' = [calls EXCEPT ![d] = <<>>]
  BY DEF Kill, TypeOK
<1>2. Len(queue[d]) \in Nat /\ DOMAIN queue[d] = 1 .. Len(queue[d])
  BY LineType
<1>3. /\ Len(stored) = Len(queue[d])
      /\ \A i \in 1 .. Len(queue[d]) : stored[i] = [queue[d][i] EXCEPT !.live = FALSE]
  BY <1>2
<1>4. \A i \in 1 .. Len(queue[d]) : queue[d][i] \in Batch
  BY <1>2 DEF TypeOK
<1> HIDE DEF stored
<1>5. queue'[d] = stored /\ calls'[d] = <<>>
  BY <1>1
<1>6. ASSUME NEW e \in Device \ {d}
      PROVE  SameLine(e)
  BY <1>1, LineUntouched
<1>7. LineLen(d)' = Len(queue[d])
  BY <1>2, <1>3, <1>5, EmptySequence DEF LineLen
<1>8. ASSUME NEW p \in 1 .. Len(queue[d])
      PROVE  At(d, p)'.write = At(d, p).write /\ At(d, p)'.n = At(d, p).n
  <2>1. At(d, p)' = stored[p] /\ At(d, p) = queue[d][p]
    BY <1>2, <1>3, <1>5 DEF At
  <2>2. stored[p].write = queue[d][p].write /\ stored[p].n = queue[d][p].n
    BY <1>3, <1>4 DEF Batch
  <2> QED
    BY <2>1, <2>2
<1> QED
  BY <1>3, <1>5, <1>6, <1>7, <1>8 DEF LineCut

(***************************************************************************)
(* What happens to the answers of a device.                                *)
(***************************************************************************)
SameAnswers(d) ==
  /\ Len(responses'[d]) = Len(responses[d])
  /\ \A i \in 1 .. Len(responses[d]) : responses'[d][i] = responses[d][i]

AnswersExtended(d, answer) ==
  /\ Len(responses'[d]) = Len(responses[d]) + 1
  /\ \A i \in 1 .. Len(responses[d]) : responses'[d][i] = responses[d][i]
  /\ responses'[d][Len(responses[d]) + 1] = answer

AnswersTail(d) ==
  /\ Len(responses[d]) >= 1
  /\ Len(responses'[d]) = Len(responses[d]) - 1
  /\ \A i \in 1 .. Len(responses[d]) - 1 : responses'[d][i] = responses[d][i + 1]

AnswersLost(d) == Len(responses'[d]) = 0

(***************************************************************************)
(* The server adds an answer.                                              *)
(***************************************************************************)
LEMMA AppendAnswer ==
  ASSUME TypeOK, NEW d \in Device, NEW answer \in Answer,
         responses' = [responses EXCEPT ![d] = Append(@, answer)]
  PROVE  AnswersExtended(d, answer) /\ \A e \in Device \ {d} : SameAnswers(e)
PROOF
<1>1. DOMAIN responses = Device /\ responses[d] \in Seq(Answer)
  BY DEF TypeOK
<1>2. responses'[d] = Append(responses[d], answer)
  BY <1>1
<1>3. AnswersExtended(d, answer)
  BY <1>1, <1>2 DEF AnswersExtended
<1>4. \A e \in Device \ {d} : responses'[e] = responses[e]
  BY <1>1
<1> QED
  BY <1>3, <1>4 DEF SameAnswers

(***************************************************************************)
(* The device takes its first answer.                                      *)
(***************************************************************************)
LEMMA TakeAnswer ==
  ASSUME TypeOK, NEW d \in Device, responses[d] # <<>>,
         responses' = [responses EXCEPT ![d] = Tail(@)]
  PROVE  AnswersTail(d) /\ \A e \in Device \ {d} : SameAnswers(e)
PROOF
<1>1. DOMAIN responses = Device /\ responses[d] \in Seq(Answer)
  BY DEF TypeOK
<1>2. responses'[d] = Tail(responses[d])
  BY <1>1
<1>3. AnswersTail(d)
  BY <1>1, <1>2, TailFacts DEF AnswersTail
<1>4. \A e \in Device \ {d} : responses'[e] = responses[e]
  BY <1>1
<1> QED
  BY <1>3, <1>4 DEF SameAnswers

(***************************************************************************)
(* The answers are lost with their stream.                                 *)
(***************************************************************************)
LEMMA LoseAnswers ==
  ASSUME TypeOK, NEW d \in Device,
         responses' = [responses EXCEPT ![d] = <<>>]
  PROVE  AnswersLost(d) /\ \A e \in Device \ {d} : SameAnswers(e)
PROOF
<1>1. DOMAIN responses = Device
  BY DEF TypeOK
<1>2. responses'[d] = <<>> /\ \A e \in Device \ {d} : responses'[e] = responses[e]
  BY <1>1
<1> QED
  BY <1>2, EmptySequence DEF SameAnswers, AnswersLost

(***************************************************************************)
(* The next write of the line that the server takes.                       *)
(***************************************************************************)
LEMMA NextSentIs ==
  ASSUME TypeOK, NEW d \in Device, CanSend(d)
  PROVE  /\ Len(responses[d]) \in Nat
         /\ Len(responses[d]) + 1 \in 1 .. Len(queue[d])
         /\ NextSent(d) = At(d, Len(responses[d]) + 1)
         /\ NextSent(d) = queue[d][Len(responses[d]) + 1]
         /\ NextSent(d) \in Batch
         /\ NextSent(d).write \in Write
         /\ NextSent(d).write.key \in Key
         /\ \A i \in 1 .. Len(responses[d]) : responses[d][i].ok
PROOF
<1>1. /\ Len(responses[d]) \in Nat
      /\ Len(responses[d]) + 1 \in DOMAIN queue[d]
      /\ NextSent(d) = queue[d][Len(responses[d]) + 1]
  BY NextSentStored
<1>2. DOMAIN queue[d] = 1 .. Len(queue[d]) /\ DOMAIN responses[d] = 1 .. Len(responses[d])
  BY LineType
<1>3. NextSent(d) = At(d, Len(responses[d]) + 1)
  BY <1>1, <1>2, LineType
<1>4. NextSent(d) \in Batch
  BY <1>1 DEF TypeOK
<1>5. NextSent(d).write \in Write
  BY <1>4 DEF Batch
<1> QED
  BY <1>1, <1>2, <1>3, <1>4, <1>5, WriteAssumption DEF CanSend, StreamOpen

(***************************************************************************)
(* The server's history only grows.                                        *)
(***************************************************************************)
HistoryKept ==
  /\ Latest' \in Nat /\ Latest' >= Latest
  /\ DOMAIN backend = 1 .. Latest /\ DOMAIN backend' = 1 .. Latest'
  /\ \A v \in DOMAIN backend : v \in DOMAIN backend' /\ backend'[v] = backend[v]

(***************************************************************************)
(* A step that leaves the server alone keeps its history.                  *)
(***************************************************************************)
LEMMA SameHistory ==
  ASSUME TypeOK, UNCHANGED backend
  PROVE  HistoryKept
PROOF
<1>1. Latest \in Nat /\ DOMAIN backend = 1 .. Latest
  BY DEF TypeOK, Latest
<1> QED
  BY <1>1 DEF HistoryKept, Latest

(***************************************************************************)
(* What a commit does to the server's documents.                           *)
(***************************************************************************)
LEMMA CommitMakes ==
  ASSUME TypeOK, NEW d \in Device, Commit(d),
         NEW write, write = NextSent(d).write
  PROVE  /\ HistoryKept
         /\ \A v \in DOMAIN backend' : v \in DOMAIN backend \/ v = Latest'
         /\ \A k \in Key \ {write.key} : Server(k)' = Server(k)
         /\ Server(write.key)' = ServerApply(write, Server(write.key), Latest + 1)
         /\ Exists(Server(write.key)')
         /\ Server(write.key)'.data
              = NewData(write, Server(write.key).data, CommitTime(Latest + 1))
         /\ Server(write.key)' # Server(write.key) => Latest' = Latest + 1
         /\ Latest' = Latest \/ Latest' = Latest + 1
         /\ log' = Append(log, <<d, NextSent(d).n>>)
PROOF
<1> DEFINE key     == write.key
           current == backend[Latest][key]
           doc     == ServerApply(write, current, Latest + 1)
           new     == [backend[Latest] EXCEPT ![key] = doc]
<1>1. /\ CanSend(d) /\ IsValidFor(write, current)
      /\ backend' = IF doc = current THEN backend ELSE Append(backend, new)
      /\ log' = Append(log, <<d, NextSent(d).n>>)
  BY DEF Commit
<1>2. key \in Key
  BY <1>1, NextSentIs
<1>3. /\ backend \in Seq(Range(backend)) /\ Latest \in Nat /\ Latest >= 1
      /\ Latest \in DOMAIN backend /\ DOMAIN backend = 1 .. Latest
      /\ DOMAIN backend[Latest] = Key
  BY DEF TypeOK, Latest
<1>4. Exists(doc) /\ doc.data = NewData(write, current.data, CommitTime(Latest + 1))
  BY DEF ServerApply, Exists
<1>5. new[key] = doc /\ \A k \in Key \ {key} : new[k] = backend[Latest][k]
  BY <1>2, <1>3
<1> HIDE DEF doc, new, key
<1>6. CASE doc = current
  <2>1. backend' = backend /\ Latest' = Latest
    BY <1>1, <1>6 DEF Latest
  <2>2. HistoryKept
    BY <2>1, SameHistory
  <2>3. \A k \in Key : Server(k)' = Server(k)
    BY <2>1 DEF Server
  <2>4. Server(write.key) = current
    BY DEF Server, key
  <2> QED
    BY <1>1, <1>2, <1>3, <1>4, <1>6, <2>1, <2>2, <2>3, <2>4 DEF doc, key
<1>7. CASE doc # current
  <2>1. backend' = Append(backend, new)
    BY <1>1, <1>7
  <2>2. /\ Len(backend') = Latest + 1
        /\ DOMAIN backend' = 1 .. Latest + 1
        /\ \A v \in 1 .. Latest : backend'[v] = backend[v]
        /\ backend'[Latest + 1] = new
    BY <1>3, <2>1, AppendToAny DEF Latest
  <2>3. Latest' = Latest + 1
    BY <2>2 DEF Latest
  <2>4. HistoryKept
    BY <1>3, <2>2, <2>3 DEF HistoryKept
  <2>5. \A k \in Key : Server(k)' = new[k]
    BY <2>2, <2>3 DEF Server
  <2>6. Server(write.key) = current
    BY DEF Server, key
  <2>7. \A k \in Key \ {write.key} : Server(k)' = Server(k)
    BY <1>5, <2>5 DEF Server, key
  <2>8. Server(write.key)' = doc
    BY <1>2, <1>5, <2>5 DEF key
  <2>9. \A v \in DOMAIN backend' : v \in DOMAIN backend \/ v = Latest'
    BY <1>3, <2>2, <2>3
  <2> QED
    BY <1>1, <1>4, <2>3, <2>4, <2>6, <2>7, <2>8, <2>9 DEF doc, key
<1> QED
  BY <1>6, <1>7

(***************************************************************************)
(* The writes a gesture makes.                                             *)
(***************************************************************************)
MakesWrites(d, ws) ==
  \/ "newChat" \in Gesture /\ ws = NewChatWrites(UserOf[d])
  \/ \E u \in Candidate : OnChat(d) /\ ws = AddNewUserWrites(u)
  \/ OnChat(d) /\ ws = UpdateChatColourWrites
  \/ \E u \in User : /\ screen[d] = Member(u) /\ OnChat(d)
                     /\ \/ ws = RemoveFromChatWrites(u)
                        \/ ws = UpdateUserColourWrites(u)
                        \/ ws = UpdateUserNameWrites(u)
  \/ /\ made[d] + 1 \in 1 .. MaxCalls[d]
     /\ OnChat(d) /\ ws = SendMessageWrites(d, made[d] + 1)

(***************************************************************************)
(* A step on the main thread that may make writes: a gesture, or a         *)
(* completion handler.                                                     *)
(***************************************************************************)
MainStep(d, ws) ==
  /\ ws \in Seq(Write)
  /\ Enqueue(d, ws)
  /\ UNCHANGED <<backend, log, queue, responses, cache, seen, faults>>
  /\ \/ MakesWrites(d, ws) /\ UNCHANGED main
     \/ /\ main[d] # <<>>
        /\ ws = CompletionWrites(Head(main[d]))
        /\ main' = [main EXCEPT ![d] = Tail(@)]

(***************************************************************************)
(* The bound on gestures is a number.                                      *)
(***************************************************************************)
LEMMA OwedType ==
  ASSUME TypeOK, NEW d \in Device
  PROVE  Owed(d) \in Nat
PROOF
<1>1. calls[d] \o queue[d] \in Seq(Batch) /\ main[d] \in Seq(Handler)
  BY DEF TypeOK
<1>2. \A s \in Seq(Batch) :
        Len(SelectSeq(s, LAMBDA b : b.live /\ IsMessage(b))) \in Nat
  OBVIOUS
<1> QED
  BY <1>1, <1>2 DEF Owed

(***************************************************************************)
(* A gesture makes the writes of one operation.                            *)
(***************************************************************************)
LEMMA GestureMakes ==
  ASSUME TypeOK, NEW d \in Device, GestureStep(d)
  PROVE  UNCHANGED clientVars \/ \E ws \in Program : MainStep(d, ws)
PROOF
<1>0. \A u : Member(u) # <<"contacts">> /\ <<"chat">> # <<"contacts">>
  BY DEF Member
<1>1. ASSUME NEW ws \in Program, Call(d, ws), MakesWrites(d, ws)
      PROVE  MainStep(d, ws)
  BY <1>1, ProgramAssumption DEF MainStep, Call
<1>2. CASE OpenChat(d) \/ Back(d) \/ \E u \in User : OpenMember(d, u)
  BY <1>2 DEF OpenChat, Back, OpenMember
<1>3. CASE NewChat(d)
  <2>1. NewChatWrites(UserOf[d]) \in Program
    BY ProgramMembers, UserAssumption
  <2>2. Call(d, NewChatWrites(UserOf[d])) /\ MakesWrites(d, NewChatWrites(UserOf[d]))
    BY <1>3 DEF NewChat, Make, MakesWrites
  <2> QED
    BY <1>1, <2>1, <2>2
<1>4. CASE UpdateChatColour(d)
  <2>1. Call(d, UpdateChatColourWrites) /\ MakesWrites(d, UpdateChatColourWrites)
    BY <1>0, <1>4 DEF UpdateChatColour, Make, MakesWrites, OnChat
  <2> QED
    BY <1>1, <2>1, ProgramParts
<1>5. CASE SendMessage(d)
  <2> DEFINE i == made[d] + 1
  <2>1. i \in 1 .. MaxCalls[d]
    <3>1. made[d] \in Nat /\ MaxCalls[d] \in Nat
      BY BoundAssumption DEF TypeOK
    <3> QED
      BY <1>5, <3>1, OwedType DEF SendMessage
  <2>2. Call(d, SendMessageWrites(d, i)) /\ MakesWrites(d, SendMessageWrites(d, i))
    BY <1>0, <1>5, <2>1 DEF SendMessage, Make, MakesWrites, OnChat
  <2> QED
    BY <1>1, <2>1, <2>2, ProgramMembers
<1>6. ASSUME NEW u \in User, RemoveFromChat(d, u)
      PROVE  \E ws \in Program : MainStep(d, ws)
  <2>1. Call(d, RemoveFromChatWrites(u)) /\ MakesWrites(d, RemoveFromChatWrites(u))
    BY <1>0, <1>6 DEF RemoveFromChat, Make, MakesWrites, OnChat
  <2> QED
    BY <1>1, <2>1, ProgramMembers
<1>7. ASSUME NEW u \in User, UpdateUserColour(d, u)
      PROVE  \E ws \in Program : MainStep(d, ws)
  <2>1. Call(d, UpdateUserColourWrites(u)) /\ MakesWrites(d, UpdateUserColourWrites(u))
    BY <1>0, <1>7 DEF UpdateUserColour, Make, MakesWrites, OnChat
  <2> QED
    BY <1>1, <2>1, ProgramMembers
<1>8. ASSUME NEW u \in User, UpdateUserName(d, u)
      PROVE  \E ws \in Program : MainStep(d, ws)
  <2>1. Call(d, UpdateUserNameWrites(u)) /\ MakesWrites(d, UpdateUserNameWrites(u))
    BY <1>0, <1>8 DEF UpdateUserName, Make, MakesWrites, OnChat
  <2> QED
    BY <1>1, <2>1, ProgramMembers
<1>9. ASSUME NEW u \in Candidate, AddNewUser(d, u)
      PROVE  \E ws \in Program : MainStep(d, ws)
  <2>1. Call(d, AddNewUserWrites(u)) /\ MakesWrites(d, AddNewUserWrites(u))
    BY <1>0, <1>9 DEF AddNewUser, Make, MakesWrites, OnChat
  <2>2. AddNewUserWrites(u) \in Program
    BY ProgramMembers, UserAssumption
  <2> QED
    BY <1>1, <2>1, <2>2
<1> QED
  BY <1>2, <1>3, <1>4, <1>5, <1>6, <1>7, <1>8, <1>9 DEF GestureStep

(***************************************************************************)
(* A completion handler notes the activity of the chat, or makes no write. *)
(***************************************************************************)
LEMMA CompletionMakes ==
  ASSUME TypeOK, NEW d \in Device, RunCompletion(d)
  PROVE  \E ws : MainStep(d, ws)
PROOF
<1> DEFINE ws == CompletionWrites(Head(main[d]))
<1>1. ws \in Seq(Write)
  <2>1. ws \in Program \cup {<<>>}
    BY ProgramParts DEF CompletionWrites
  <2> HIDE DEF ws
  <2> QED
    BY <2>1, ProgramAssumption, EmptySequence
<1>2. MainStep(d, ws)
  BY <1>1 DEF MainStep, RunCompletion, Complete
<1> QED
  BY <1>2

(***************************************************************************)
(* The steps of the chat by what they do to the client.                    *)
(***************************************************************************)
LEMMA ChatStepIs ==
  ASSUME TypeOK, [ChatNext]_chatVars
  PROVE  \/ UNCHANGED clientVars
         \/ \E d \in Device : \E ws : MainStep(d, ws)
         \/ \E d \in Device : \/ WriteLocally(d) \/ Commit(d) \/ Refuse(d)
                              \/ AcknowledgeBatch(d) \/ RejectBatch(d)
                              \/ BreakStream(d)
                              \/ \E v \in 1 .. Latest : ApplyRemoteEvent(d, v)
                              \/ Restart(d)
PROOF
<1>1. CASE UNCHANGED chatVars
  BY <1>1 DEF chatVars
<1>2. ASSUME NEW d \in Device, GestureStep(d)
      PROVE  UNCHANGED clientVars \/ \E ws : MainStep(d, ws)
  BY <1>2, GestureMakes
<1>3. ASSUME NEW d \in Device, RunCompletion(d)
      PROVE  \E ws : MainStep(d, ws)
  BY <1>3, CompletionMakes
<1> QED
  BY <1>1, <1>2, <1>3 DEF ChatNext, Background


(***************************************************************************)
(* The screens: a member's screen is opened from the list of members, and  *)
(* opening it makes no write.                                              *)
(***************************************************************************)
LEMMA ScreenSteps ==
  ASSUME DOMAIN screen = Device, [ChatNext]_chatVars, NEW d \in Device
  PROVE  /\ \/ screen'[d] = screen[d]
            \/ screen'[d] \in {<<"contacts">>, <<"chat">>}
            \/ \E u \in User : /\ screen'[d] = Member(u)
                               /\ u \in MembersShown(d)
                               /\ UNCHANGED clientVars
         /\ DOMAIN screen' = Device
PROOF
<1> DEFINE Moves == \/ screen'[d] = screen[d]
                    \/ screen'[d] \in {<<"contacts">>, <<"chat">>}
                    \/ \E u \in User : /\ screen'[d] = Member(u)
                                       /\ u \in MembersShown(d)
                                       /\ UNCHANGED clientVars
           Goal == Moves /\ DOMAIN screen' = Device
<1>1. CASE UNCHANGED screen
  BY <1>1
<1>2. ASSUME NEW e \in Device, NEW s,
             s = <<"contacts">> \/ s = <<"chat">>,
             screen' = [screen EXCEPT ![e] = s]
      PROVE  Goal
  BY <1>2
<1>3. ASSUME NEW e \in Device, OpenChat(e) \/ Back(e) \/ Restart(e)
      PROVE  Goal
  BY <1>2, <1>3 DEF OpenChat, Back, Restart
<1>4. ASSUME NEW e \in Device, NEW u \in User, OpenMember(e, u)
      PROVE  Goal
  BY <1>4 DEF OpenMember
<1>5. ASSUME NEW e \in Device, NEW u \in User, RemoveFromChat(e, u)
      PROVE  Goal
  BY <1>2, <1>5 DEF RemoveFromChat
<1>6. \/ UNCHANGED screen
      \/ \E e \in Device : \/ OpenChat(e) \/ Back(e) \/ Restart(e)
                           \/ \E u \in User : OpenMember(e, u) \/ RemoveFromChat(e, u)
  BY DEF ChatNext, GestureStep, NewChat, UpdateChatColour, SendMessage,
         UpdateUserColour, UpdateUserName, AddNewUser, RunCompletion, chatVars
<1> QED
  BY <1>1, <1>3, <1>4, <1>5, <1>6

(***************************************************************************)
(* Without refusals of its own the server refuses only the removal of a    *)
(* user from a chat that is not there.                                     *)
(***************************************************************************)
LEMMA OnlyUpdatesRefused ==
  ASSUME TypeOK, MaxFaults["refuse"] = 0, NEW d \in Device, Refuse(d)
  PROVE  /\ NextSent(d).write.kind = "update"
         /\ UNCHANGED faults
         /\ AnswersExtended(d, Error)
         /\ \A e \in Device \ {d} : SameAnswers(e)
PROOF
<1>1. ~FaultHappens("refuse")
  <2>1. faults["refuse"] \in Nat
    BY DEF TypeOK, Fault
  <2> QED
    BY <2>1 DEF FaultHappens
<1>2. Error \in Answer /\ responses' = [responses EXCEPT ![d] = Append(@, Error)]
  BY DEF Refuse, Error, Answer
<1> QED
  BY <1>1, <1>2, AppendAnswer DEF Refuse, IsValidFor

(***************************************************************************)
(* Where apps are not killed, none is.                                     *)
(***************************************************************************)
LEMMA NobodyKilled ==
  ASSUME TypeOK, MaxFaults["kill"] = 0, NEW d \in Device, Restart(d)
  PROVE  FALSE
PROOF
<1>1. faults["kill"] \in Nat
  BY DEF TypeOK, Fault
<1> QED
  BY <1>1 DEF Restart, Kill, FaultHappens

(***************************************************************************)
(* The answers of a commit.                                                *)
(***************************************************************************)
LEMMA CommitAnswers ==
  ASSUME TypeOK, NEW d \in Device, Commit(d),
         NEW write, write = NextSent(d).write,
         NEW doc, doc = ServerApply(write, Server(write.key), Latest + 1)
  PROVE  /\ AnswersExtended(d, Accepted(doc.version))
         /\ \A e \in Device \ {d} : SameAnswers(e)
         /\ IsServerDocument(doc, Latest + 1)
PROOF
<1>1. responses' = [responses EXCEPT ![d] = Append(@, Accepted(doc.version))]
  BY DEF Commit, Server
<1>2. write.key \in Key
  BY NextSentIs DEF Commit
<1>3. Latest \in DOMAIN backend /\ Latest \in Nat
  BY DEF TypeOK, Latest
<1>4. IsServerDocument(Server(write.key), Latest)
  BY <1>2, <1>3 DEF TypeOK, Server
<1>5. IsServerDocument(doc, Latest + 1)
  BY <1>3, <1>4, ServerApplyType
<1>6. Accepted(doc.version) \in Answer
  BY <1>5 DEF Accepted, Answer, IsServerDocument, IsDocument
<1> QED
  BY <1>1, <1>5, <1>6, AppendAnswer

(***************************************************************************)
(* What a step does to one device.                                         *)
(***************************************************************************)
Answers(d) == AcknowledgeBatch(d) \/ RejectBatch(d)

(***************************************************************************)
(* The steps of the app, as one device sees them.                          *)
(***************************************************************************)
LEMMA DeviceSteps ==
  ASSUME TypeOK, [ChatNext]_chatVars, NEW d \in Device
  PROVE  \/ SameLine(d) /\ SameAnswers(d)
         \/ \E ws : MainStep(d, ws) /\ LineExtended(d, ws) /\ SameAnswers(d)
         \/ /\ Commit(d)
            /\ SameLine(d)
            /\ \E version \in Nat : AnswersExtended(d, Accepted(version))
         \/ Refuse(d) /\ SameLine(d) /\ AnswersExtended(d, Error)
         \/ AcknowledgeBatch(d) /\ LineTail(d) /\ AnswersTail(d)
         \/ RejectBatch(d) /\ LineTail(d) /\ AnswersLost(d)
         \/ BreakStream(d) /\ SameLine(d) /\ AnswersLost(d)
         \/ Restart(d) /\ LineCut(d) /\ AnswersLost(d)
PROOF
<1> DEFINE Goal ==
         \/ SameLine(d) /\ SameAnswers(d)
         \/ \E ws : MainStep(d, ws) /\ LineExtended(d, ws) /\ SameAnswers(d)
         \/ /\ Commit(d)
            /\ SameLine(d)
            /\ \E version \in Nat : AnswersExtended(d, Accepted(version))
         \/ Refuse(d) /\ SameLine(d) /\ AnswersExtended(d, Error)
         \/ AcknowledgeBatch(d) /\ LineTail(d) /\ AnswersTail(d)
         \/ RejectBatch(d) /\ LineTail(d) /\ AnswersLost(d)
         \/ BreakStream(d) /\ SameLine(d) /\ AnswersLost(d)
         \/ Restart(d) /\ LineCut(d) /\ AnswersLost(d)
<1>1. ASSUME NEW e \in Device, UNCHANGED <<queue, calls>>
      PROVE  SameLine(e)
  BY <1>1, LineUntouched
<1>2. ASSUME NEW e \in Device, UNCHANGED responses
      PROVE  SameAnswers(e)
  BY <1>2 DEF SameAnswers
<1>3. ASSUME UNCHANGED clientVars
      PROVE  Goal
  BY <1>1, <1>2, <1>3 DEF clientVars
<1>4. ASSUME NEW e \in Device, NEW ws, MainStep(e, ws)
      PROVE  Goal
  <2>1. ws \in Seq(Write) /\ Enqueue(e, ws) /\ UNCHANGED queue /\ UNCHANGED responses
    BY <1>4 DEF MainStep
  <2>2. LineExtended(e, ws) /\ \A x \in Device \ {e} : SameLine(x)
    BY <2>1, EnqueueLine
  <2> QED
    BY <1>2, <1>4, <2>1, <2>2
<1>5. ASSUME NEW e \in Device, WriteLocally(e)
      PROVE  Goal
  BY <1>2, <1>5, WriteLocallyLine DEF WriteLocally
<1>6. ASSUME NEW e \in Device, Commit(e)
      PROVE  Goal
  <2>1. PICK write : write = NextSent(e).write
    OBVIOUS
  <2>2. PICK doc : doc = ServerApply(write, Server(write.key), Latest + 1)
    OBVIOUS
  <2>3. /\ AnswersExtended(e, Accepted(doc.version))
        /\ \A x \in Device \ {e} : SameAnswers(x)
        /\ doc.version \in Nat
    BY <1>6, <2>1, <2>2, CommitAnswers DEF IsServerDocument, IsDocument
  <2>4. SameLine(d)
    BY <1>1, <1>6 DEF Commit
  <2> QED
    BY <1>6, <2>3, <2>4
<1>7. ASSUME NEW e \in Device, Refuse(e)
      PROVE  Goal
  <2>1. Error \in Answer /\ responses' = [responses EXCEPT ![e] = Append(@, Error)]
    BY <1>7 DEF Refuse, Error, Answer
  <2>2. AnswersExtended(e, Error) /\ \A x \in Device \ {e} : SameAnswers(x)
    BY <2>1, AppendAnswer
  <2>3. SameLine(d)
    BY <1>1, <1>7 DEF Refuse
  <2> QED
    BY <1>7, <2>2, <2>3
<1>8. ASSUME NEW e \in Device, AcknowledgeBatch(e)
      PROVE  Goal
  <2>1. /\ responses[e] # <<>> /\ queue' = [queue EXCEPT ![e] = Tail(@)]
        /\ UNCHANGED calls /\ responses' = [responses EXCEPT ![e] = Tail(@)]
    BY <1>8 DEF AcknowledgeBatch
  <2>2. LineTail(e) /\ \A x \in Device \ {e} : SameLine(x)
    BY <2>1, AnswerLine
  <2>3. AnswersTail(e) /\ \A x \in Device \ {e} : SameAnswers(x)
    BY <2>1, TakeAnswer
  <2> QED
    BY <1>8, <2>2, <2>3
<1>9. ASSUME NEW e \in Device, RejectBatch(e)
      PROVE  Goal
  <2>1. /\ responses[e] # <<>> /\ queue' = [queue EXCEPT ![e] = Tail(@)]
        /\ UNCHANGED calls /\ responses' = [responses EXCEPT ![e] = <<>>]
    BY <1>9 DEF RejectBatch
  <2>2. LineTail(e) /\ \A x \in Device \ {e} : SameLine(x)
    BY <2>1, AnswerLine
  <2>3. AnswersLost(e) /\ \A x \in Device \ {e} : SameAnswers(x)
    BY <2>1, LoseAnswers
  <2> QED
    BY <1>9, <2>2, <2>3
<1>10. ASSUME NEW e \in Device, BreakStream(e)
       PROVE  Goal
  <2>1. SameLine(d)
    BY <1>1, <1>10 DEF BreakStream
  <2>2. AnswersLost(e) /\ \A x \in Device \ {e} : SameAnswers(x)
    BY <1>10, LoseAnswers DEF BreakStream
  <2> QED
    BY <1>10, <2>1, <2>2
<1>11. ASSUME NEW e \in Device, NEW v \in 1 .. Latest, ApplyRemoteEvent(e, v)
       PROVE  Goal
  BY <1>1, <1>2, <1>11 DEF ApplyRemoteEvent
<1>12. ASSUME NEW e \in Device, Restart(e)
       PROVE  Goal
  <2>1. Kill(e) /\ responses' = [responses EXCEPT ![e] = <<>>]
    BY <1>12 DEF Restart, Kill
  <2>2. LineCut(e) /\ \A x \in Device \ {e} : SameLine(x)
    BY <2>1, KillLine
  <2>3. AnswersLost(e) /\ \A x \in Device \ {e} : SameAnswers(x)
    BY <2>1, LoseAnswers
  <2> QED
    BY <1>12, <2>2, <2>3
<1> HIDE DEF Goal
<1>13. Goal
  <2>1. CASE \E e \in Device : \/ WriteLocally(e) \/ Commit(e) \/ Refuse(e)
                               \/ AcknowledgeBatch(e) \/ RejectBatch(e)
                               \/ BreakStream(e)
                               \/ (\E v \in 1 .. Latest : ApplyRemoteEvent(e, v))
                               \/ Restart(e)
    <3>1. PICK e \in Device : \/ WriteLocally(e) \/ Commit(e) \/ Refuse(e)
                              \/ AcknowledgeBatch(e) \/ RejectBatch(e)
                              \/ BreakStream(e)
                              \/ (\E v \in 1 .. Latest : ApplyRemoteEvent(e, v))
                              \/ Restart(e)
      BY <2>1
    <3> QED
      BY <3>1, <1>5, <1>6, <1>7, <1>8, <1>9, <1>10, <1>11, <1>12, Zenon
  <2>2. CASE \E e \in Device : \E ws : MainStep(e, ws)
    <3>1. PICK e \in Device : \E ws : MainStep(e, ws)
      BY <2>2
    <3>2. PICK ws : MainStep(e, ws)
      BY <3>1
    <3> QED
      BY <1>4, <3>2
  <2>3. \/ UNCHANGED clientVars
        \/ \E e \in Device : \E ws : MainStep(e, ws)
        \/ \E e \in Device : \/ WriteLocally(e) \/ Commit(e) \/ Refuse(e)
                             \/ AcknowledgeBatch(e) \/ RejectBatch(e)
                             \/ BreakStream(e)
                             \/ (\E v \in 1 .. Latest : ApplyRemoteEvent(e, v))
                             \/ Restart(e)
    BY ChatStepIs
  <2> QED
    BY <1>3, <2>1, <2>2, <2>3
<1> QED
  BY <1>13 DEF Goal

(***************************************************************************)
(* The server's history is only added to, and only by a commit.            *)
(***************************************************************************)
LEMMA ServerSteps ==
  ASSUME TypeOK, [ChatNext]_chatVars
  PROVE  /\ HistoryKept
         /\ UNCHANGED <<backend, log>> \/ \E d \in Device : Commit(d)
PROOF
<1>1. UNCHANGED <<backend, log>> \/ \E d \in Device : Commit(d)
  BY ChatStepIs DEF clientVars, MainStep, WriteLocally, Refuse, AcknowledgeBatch,
     RejectBatch, BreakStream, ApplyRemoteEvent, Restart, Kill
<1>2. ASSUME NEW d \in Device, Commit(d)
      PROVE  HistoryKept
  <2>1. PICK write : write = NextSent(d).write
    OBVIOUS
  <2> QED
    BY <1>2, <2>1, CommitMakes
<1> QED
  BY <1>1, <1>2, SameHistory

(***************************************************************************)
(* The cache of a device changes with an acknowledgement or a snapshot.    *)
(***************************************************************************)
LEMMA CacheSteps ==
  ASSUME TypeOK, [ChatNext]_chatVars, NEW d \in Device
  PROVE  \/ cache'[d] = cache[d]
         \/ AcknowledgeBatch(d)
         \/ \E v \in 1 .. Latest : ApplyRemoteEvent(d, v)
PROOF
<1>1. DOMAIN cache = Device
  BY DEF TypeOK
<1>2. \/ cache' = cache
      \/ \E e \in Device : \/ AcknowledgeBatch(e)
                           \/ \E v \in 1 .. Latest : ApplyRemoteEvent(e, v)
  BY ChatStepIs DEF clientVars, MainStep, WriteLocally, Refuse, Commit,
     RejectBatch, BreakStream, Restart, Kill
<1>3. ASSUME NEW e \in Device, e # d, AcknowledgeBatch(e)
      PROVE  cache'[d] = cache[d]
  BY <1>1, <1>3 DEF AcknowledgeBatch
<1>4. ASSUME NEW e \in Device, e # d, NEW v, ApplyRemoteEvent(e, v)
      PROVE  cache'[d] = cache[d]
  BY <1>1, <1>4 DEF ApplyRemoteEvent
<1> QED
  BY <1>2, <1>3, <1>4

(***************************************************************************)
(* What a write makes of the fields of a document.                         *)
(***************************************************************************)
FieldsAre(new, write, data, now) ==
  /\ DOMAIN new = DOMAIN write.transforms \cup DOMAIN write.fields
                  \cup (IF write.kind = "set" THEN {} ELSE DOMAIN data)
  /\ \A f \in DOMAIN write.transforms :
       new[f] = Transformed(write.transforms[f],
                            PreviousArray(PatchDocument(write, data), f), now)
  /\ \A f \in DOMAIN write.fields \ DOMAIN write.transforms : new[f] = write.fields[f]
  /\ \A f \in DOMAIN data \ (DOMAIN write.transforms \cup DOMAIN write.fields) :
       write.kind # "set" => new[f] = data[f]

(***************************************************************************)
(* The fields after a write, in terms of those before it.                  *)
(***************************************************************************)
LEMMA NewDataFields ==
  ASSUME NEW write, NEW data, NEW now
  PROVE  FieldsAre(NewData(write, data, now), write, data, now)
PROOF
<1> DEFINE patched == PatchDocument(write, data)
           changed == [f \in DOMAIN write.transforms |->
                         Transformed(write.transforms[f], PreviousArray(patched, f), now)]
<1>1. NewData(write, data, now) = Overlay(changed, patched)
  BY DEF NewData, TransformObject
<1>2. /\ DOMAIN patched = DOMAIN write.fields
                          \cup (IF write.kind = "set" THEN {} ELSE DOMAIN data)
      /\ \A f \in DOMAIN write.fields : patched[f] = write.fields[f]
      /\ \A f \in DOMAIN data \ DOMAIN write.fields :
           write.kind # "set" => patched[f] = data[f]
  BY DEF PatchDocument, Overlay
<1>3. DOMAIN changed = DOMAIN write.transforms
  OBVIOUS
<1>4. \A f \in DOMAIN write.transforms :
        changed[f] = Transformed(write.transforms[f], PreviousArray(patched, f), now)
  OBVIOUS
<1> HIDE DEF patched, changed
<1>5. /\ DOMAIN Overlay(changed, patched) = DOMAIN changed \cup DOMAIN patched
      /\ \A f \in DOMAIN changed : Overlay(changed, patched)[f] = changed[f]
      /\ \A f \in DOMAIN patched \ DOMAIN changed : Overlay(changed, patched)[f] = patched[f]
  BY DEF Overlay
<1>6. /\ DOMAIN NewData(write, data, now)
           = DOMAIN write.transforms \cup DOMAIN write.fields
             \cup (IF write.kind = "set" THEN {} ELSE DOMAIN data)
      /\ \A f \in DOMAIN write.fields \ DOMAIN write.transforms :
           NewData(write, data, now)[f] = write.fields[f]
      /\ \A f \in DOMAIN data \ (DOMAIN write.transforms \cup DOMAIN write.fields) :
           write.kind # "set" => NewData(write, data, now)[f] = data[f]
  BY <1>1, <1>2, <1>3, <1>5
<1>7. \A f \in DOMAIN write.transforms :
        NewData(write, data, now)[f]
          = Transformed(write.transforms[f], PreviousArray(PatchDocument(write, data), f), now)
  BY <1>1, <1>3, <1>4, <1>5 DEF patched
<1> QED
  BY <1>6, <1>7 DEF FieldsAre

(***************************************************************************)
(* The users array.                                                        *)
(***************************************************************************)
Adds(write, u) == write = CreateBaseChatDocument(u) \/ write = AddsUser(u)

(***************************************************************************)
(* A write that adds a user is a set or merge of the chat.                 *)
(***************************************************************************)
LEMMA AddsParts ==
  ASSUME NEW write, NEW u, Adds(write, u)
  PROVE  /\ write.key = ChatDocument
         /\ write.kind # "update"
         /\ \A data, now : u \in PreviousArray(NewData(write, data, now), "users")
PROOF
<1>1. CASE write = CreateBaseChatDocument(u)
  <2>1. HasParts(write, ChatDocument, "set", {"name", "colour", "users"}, {"chatLastActive"})
    BY <1>1, PartsAre
  <2>2. write.fields["users"] = {u}
    BY <1>1 DEF CreateBaseChatDocument, SetData
  <2>3. ASSUME NEW data, NEW now
        PROVE  u \in PreviousArray(NewData(write, data, now), "users")
    <3>0. FieldsAre(NewData(write, data, now), write, data, now)
      BY NewDataFields
    <3>1. /\ "users" \in DOMAIN NewData(write, data, now)
          /\ NewData(write, data, now)["users"] = write.fields["users"]
      BY <2>1, <3>0 DEF HasParts, FieldsAre
    <3> QED
      BY <2>2, <3>1 DEF PreviousArray
  <2> QED
    BY <2>1, <2>3 DEF HasParts
<1>2. CASE write = AddsUser(u)
  <2>1. HasParts(write, ChatDocument, "merge", {}, {"users"})
    BY <1>2, PartsAre
  <2>2. write.transforms["users"] = ArrayUnion({u})
    BY <1>2 DEF AddsUser, MergeData
  <2>3. ASSUME NEW data, NEW now
        PROVE  u \in PreviousArray(NewData(write, data, now), "users")
    <3>0. FieldsAre(NewData(write, data, now), write, data, now)
      BY NewDataFields
    <3>1. /\ "users" \in DOMAIN NewData(write, data, now)
          /\ NewData(write, data, now)["users"]
               = Transformed(ArrayUnion({u}), PreviousArray(PatchDocument(write, data), "users"), now)
      BY <2>1, <2>2, <3>0 DEF HasParts, FieldsAre
    <3> QED
      BY <3>1 DEF PreviousArray, Transformed, ArrayUnion
  <2> QED
    BY <2>1, <2>3 DEF HasParts
<1> QED
  BY <1>1, <1>2 DEF Adds

(***************************************************************************)
(* A write brings into the users array only those it adds.                 *)
(***************************************************************************)
LEMMA NewUsers ==
  ASSUME NEW write \in Write, write.key = ChatDocument, NEW data, NEW now, NEW u,
         u \in PreviousArray(NewData(write, data, now), "users"),
         u \notin PreviousArray(data, "users")
  PROVE  Adds(write, u)
PROOF
<1>0. FieldsAre(NewData(write, data, now), write, data, now)
  BY NewDataFields
<1>1. "users" \in DOMAIN NewData(write, data, now) /\ u \in NewData(write, data, now)["users"]
  BY DEF PreviousArray
<1>2. CASE "users" \notin DOMAIN write.transforms \cup DOMAIN write.fields
  <2>1. write.kind # "set" /\ "users" \in DOMAIN data
    BY <1>0, <1>1, <1>2 DEF FieldsAre
  <2>2. NewData(write, data, now)["users"] = data["users"]
    BY <1>0, <1>2, <2>1 DEF FieldsAre
  <2> QED
    BY <1>1, <2>1, <2>2 DEF PreviousArray
<1>3. ASSUME NEW v, write = CreateBaseChatDocument(v)
      PROVE  Adds(write, u)
  <2>1. HasParts(write, ChatDocument, "set", {"name", "colour", "users"}, {"chatLastActive"})
    BY <1>3, PartsAre
  <2>2. write.fields["users"] = {v}
    BY <1>3 DEF CreateBaseChatDocument, SetData
  <2>3. NewData(write, data, now)["users"] = write.fields["users"]
    BY <1>0, <2>1 DEF HasParts, FieldsAre
  <2> QED
    BY <1>1, <1>3, <2>2, <2>3 DEF Adds
<1>4. ASSUME NEW v, write = AddsUser(v) \/ write = RemovesUser(v)
      PROVE  Adds(write, u)
  <2>1. /\ DOMAIN write.fields = {} /\ DOMAIN write.transforms = {"users"}
        /\ write.kind # "set"
    BY <1>4, PartsAre DEF HasParts
  <2>2. PreviousArray(PatchDocument(write, data), "users") = PreviousArray(data, "users")
    BY <2>1 DEF PatchDocument, Overlay, PreviousArray
  <2>3. NewData(write, data, now)["users"]
          = Transformed(write.transforms["users"], PreviousArray(data, "users"), now)
    BY <1>0, <2>1, <2>2 DEF FieldsAre
  <2>4. CASE write = AddsUser(v)
    <3>1. write.transforms["users"] = ArrayUnion({v})
      BY <2>4 DEF AddsUser, MergeData
    <3>2. u = v
      BY <1>1, <2>3, <3>1 DEF Transformed, ArrayUnion
    <3> QED
      BY <2>4, <3>2 DEF Adds
  <2>5. CASE write = RemovesUser(v)
    <3>1. write.transforms["users"] = ArrayRemove({v})
      BY <2>5 DEF RemovesUser, UpdateData
    <3> QED
      BY <1>1, <2>3, <3>1 DEF Transformed, ArrayRemove
  <2> QED
    BY <1>4, <2>4, <2>5
<1>5. ASSUME write = ColoursChat \/ write = NotesActivity
      PROVE  "users" \notin DOMAIN write.transforms \cup DOMAIN write.fields
  BY <1>5, PartsAre DEF HasParts
<1>6. ASSUME NEW v \in User, IsUserWrite(write, v)
      PROVE  \/ write = CreateBaseChatDocument(v) \/ write = AddsUser(v)
             \/ write = RemovesUser(v)
  <2>1. write # CreateChatUserCollection(v) /\ write # MemberDetails(v)
        /\ write # ColoursMember(v) /\ write # NamesMember(v)
    BY PartsAre, KeysDiffer DEF HasParts
  <2> QED
    BY <1>6, <2>1 DEF IsUserWrite
<1>7. ASSUME NEW d \in Device, NEW i \in 1 .. MaxCalls[d], write = StoresMessage(d, i)
      PROVE  FALSE
  <2>1. write.key = Message(d, i) /\ Message(d, i) \in Messages
    BY <1>7, PartsAre, KeysDiffer DEF HasParts
  <2> QED
    BY <2>1, KeysDiffer
<1> QED
  BY <1>2, <1>3, <1>4, <1>5, <1>6, <1>7, WritesAre

(***************************************************************************)
(* A user was added to the chat; or he was, or a write that adds him is in *)
(* the line of the device before position p.                               *)
(***************************************************************************)
Added(u) ==
  \E v \in DOMAIN backend :
    u \in PreviousArray(backend[v][ChatDocument].data, "users")

NotedBefore(d, u, p) ==
  Added(u) \/ \E q \in 1 .. p - 1 : Adds(At(d, q).write, u)

LineAfterAdding(d) ==
  \A u \in User : \A p \in 1 .. LineLen(d) :
    At(d, p).write.key = Member(u) => NotedBefore(d, u, p)

ScreenAfterAdding(d) ==
  \A u \in User : screen[d] = Member(u) => NotedBefore(d, u, LineLen(d) + 1)

AnsweredIsAdded(d) ==
  \A i \in 1 .. Len(responses[d]) :
    responses[d][i].ok => \A u \in User : Adds(At(d, i).write, u) => Added(u)

OnlyUpdatesFail(d) ==
  \A i \in 1 .. Len(responses[d]) :
    ~responses[d][i].ok => At(d, i).write.kind = "update"

CachedIsAdded(d) ==
  \A u \in User :
    u \in PreviousArray(cache[d][ChatDocument].data, "users") => Added(u)

MemberIsAdded ==
  \A u \in User : Exists(Server(Member(u))) => Added(u)

AddingFirst ==
  /\ MemberIsAdded
  /\ \A d \in Device : /\ LineAfterAdding(d)
                       /\ ScreenAfterAdding(d)
                       /\ AnsweredIsAdded(d)
                       /\ OnlyUpdatesFail(d)
                       /\ CachedIsAdded(d)

(***************************************************************************)
(* Who was added stays so: the history of the chat only grows.             *)
(***************************************************************************)
LEMMA AddedStays ==
  ASSUME HistoryKept, NEW u, Added(u)
  PROVE  Added(u)'
PROOF
  BY DEF Added, HistoryKept

(***************************************************************************)
(* What was noted stays so, for the writes that stay in the line.          *)
(***************************************************************************)
LEMMA NotedStays ==
  ASSUME TypeOK, AddingFirst, [ChatNext]_chatVars, MaxFaults["refuse"] = 0,
         NEW d \in Device, NEW u \in User
  PROVE  /\ SameLine(d) => \A p \in 1 .. LineLen(d) + 1 :
              NotedBefore(d, u, p) => NotedBefore(d, u, p)'
         /\ \A ws : LineExtended(d, ws) => \A p \in 1 .. LineLen(d) + 1 :
              NotedBefore(d, u, p) => NotedBefore(d, u, p)'
         /\ LineTail(d) /\ Answers(d) => \A p \in 1 .. LineLen(d) :
              NotedBefore(d, u, p + 1) => NotedBefore(d, u, p)'
         /\ LineCut(d) => \A p \in 1 .. Len(queue[d]) :
              NotedBefore(d, u, p) => NotedBefore(d, u, p)'
PROOF
<1>1. Added(u) => Added(u)'
  BY ServerSteps, AddedStays
<1>2. LineLen(d) \in Nat /\ Len(queue[d]) \in Nat /\ Len(queue[d]) <= LineLen(d)
  BY LineType
<1>3. ASSUME NEW p \in 1 .. LineLen(d) + 1, NotedBefore(d, u, p),
             \A q \in 1 .. p - 1 : At(d, q)'.write = At(d, q).write
      PROVE  NotedBefore(d, u, p)'
  <2>1. CASE Added(u)
    BY <1>1, <2>1 DEF NotedBefore
  <2>2. CASE \E q \in 1 .. p - 1 : Adds(At(d, q).write, u)
    <3>1. PICK q \in 1 .. p - 1 : Adds(At(d, q).write, u)
      BY <2>2
    <3>2. Adds(At(d, q)'.write, u)
      BY <1>3, <3>1
    <3> QED
      BY <3>2 DEF NotedBefore, Adds
  <2> QED
    BY <1>3, <2>1, <2>2 DEF NotedBefore
<1>4. ASSUME SameLine(d) \/ \E ws : LineExtended(d, ws)
      PROVE  \A p \in 1 .. LineLen(d) + 1 : NotedBefore(d, u, p) => NotedBefore(d, u, p)'
  <2>1. \A q \in 1 .. LineLen(d) : At(d, q)' = At(d, q)
    BY <1>4 DEF SameLine, LineExtended
  <2>2. ASSUME NEW p \in 1 .. LineLen(d) + 1, NEW q \in 1 .. p - 1
        PROVE  At(d, q)'.write = At(d, q).write
    <3>1. q \in 1 .. LineLen(d)
      BY <1>2
    <3> QED
      BY <2>1, <3>1
  <2> QED
    BY <1>3, <2>2
<1>5. ASSUME LineCut(d), NEW p \in 1 .. Len(queue[d]), NotedBefore(d, u, p)
      PROVE  NotedBefore(d, u, p)'
  <2>1. ASSUME NEW q \in 1 .. p - 1
        PROVE  At(d, q)'.write = At(d, q).write
    <3>1. q \in 1 .. Len(queue[d])
      BY <1>2
    <3> QED
      BY <1>5, <3>1 DEF LineCut
  <2>2. p \in 1 .. LineLen(d) + 1
    BY <1>2
  <2> QED
    BY <1>3, <1>5, <2>1, <2>2
<1>6. ASSUME LineTail(d), Answers(d), NEW p \in 1 .. LineLen(d), NotedBefore(d, u, p + 1)
      PROVE  NotedBefore(d, u, p)'
  <2>1. CASE Added(u)
    BY <1>1, <2>1 DEF NotedBefore
  <2>2. CASE \E q \in 1 .. p : Adds(At(d, q).write, u)
    <3>1. PICK q \in 1 .. p : Adds(At(d, q).write, u)
      BY <2>2
    <3>2. CASE q = 1
      <4>1. responses[d] # <<>> /\ Len(responses[d]) >= 1 /\ 1 \in 1 .. Len(responses[d])
            /\ Head(responses[d]) = responses[d][1]
        <5>1. responses[d] # <<>>
          BY <1>6 DEF Answers, AcknowledgeBatch, RejectBatch
        <5>2. responses[d] \in Seq(Answer)
          BY DEF TypeOK
        <5> QED
          BY <5>1, <5>2, TailFacts
      <4>2. responses[d][1].ok
        <5>1. At(d, 1).write.kind # "update"
          BY <3>1, <3>2, AddsParts
        <5> QED
          BY <4>1, <5>1 DEF AddingFirst, OnlyUpdatesFail
      <4>3. Added(u)
        BY <3>1, <3>2, <4>1, <4>2 DEF AddingFirst, AnsweredIsAdded
      <4> QED
        BY <1>1, <4>3 DEF NotedBefore
    <3>3. CASE q # 1
      <4>1. /\ q - 1 \in 1 .. LineLen(d) - 1 /\ q - 1 \in 1 .. p - 1
            /\ q - 1 + 1 = q
        BY <1>2, <3>3
      <4>2. At(d, q - 1)' = At(d, q)
        BY <1>6, <4>1 DEF LineTail
      <4>3. PICK r \in 1 .. p - 1 : At(d, r)' = At(d, q)
        BY <4>1, <4>2
      <4>4. Adds(At(d, r)'.write, u)
        BY <3>1, <4>3
      <4> QED
        BY <4>4 DEF NotedBefore, Adds
    <3> QED
      BY <3>2, <3>3
  <2>3. p + 1 - 1 = p
    BY <1>2
  <2> QED
    BY <1>6, <2>1, <2>2, <2>3 DEF NotedBefore
<1> QED
  BY <1>4, <1>5, <1>6

(***************************************************************************)
(* The writes a step on the main thread makes to members: those of an      *)
(* addition, after the write that adds the user, and those of his screen.  *)
(***************************************************************************)
LEMMA MadeWrites ==
  ASSUME NEW d \in Device, NEW ws, MainStep(d, ws), NEW i \in 1 .. Len(ws),
         NEW u \in User, ws[i].key = Member(u)
  PROVE  \/ i = 2 /\ Len(ws) = 2 /\ Adds(ws[1], u)
         \/ screen[d] = Member(u) /\ Len(ws) = 1
PROOF
<1>1. \A a : Len(<<a>>) = 1 /\ \A j \in 1 .. Len(<<a>>) : <<a>>[j] = a
  OBVIOUS
<1>2. \A a, b : Len(<<a, b>>) = 2 /\ <<a, b>>[1] = a /\ <<a, b>>[2] = b
  OBVIOUS
<1>3. ASSUME NEW v \in User, NEW first, NEW second, ws = <<first, second>>, Adds(first, v),
             second.key = Member(v)
      PROVE  i = 2 /\ Len(ws) = 2 /\ Adds(ws[1], u)
  <2>1. Len(ws) = 2 /\ ws[1] = first /\ ws[2] = second
    BY <1>2, <1>3
  <2>2. first.key = ChatDocument
    BY <1>3, AddsParts
  <2>3. i = 2
    BY <2>1, <2>2, KeysDiffer
  <2>4. u = v
    BY <1>3, <2>1, <2>3, KeysDiffer
  <2> QED
    BY <1>3, <2>1, <2>3, <2>4
<1>4. CASE ws = NewChatWrites(UserOf[d])
  <2>1. UserOf[d] \in User
    BY UserAssumption
  <2>2. CreateChatUserCollection(UserOf[d]).key = Member(UserOf[d])
    BY PartsAre DEF HasParts
  <2> QED
    BY <1>3, <1>4, <2>1, <2>2, ProgramsAre DEF Adds
<1>5. CASE \E v \in Candidate : ws = AddNewUserWrites(v)
  <2>1. PICK v \in Candidate : ws = AddNewUserWrites(v)
    BY <1>5
  <2>2. v \in User /\ MemberDetails(v).key = Member(v)
    BY PartsAre, UserAssumption DEF HasParts
  <2> QED
    BY <1>3, <2>1, <2>2, ProgramsAre DEF Adds
<1>6. ASSUME NEW write, ws = <<write>>, write.key = ChatDocument \/ write.key \in Messages
      PROVE  FALSE
  BY <1>1, <1>6, KeysDiffer
<1>7. CASE ws = UpdateChatColourWrites \/ ws = UpdateChatLastActiveTimestampWrites
  <2>1. ColoursChat.key = ChatDocument /\ NotesActivity.key = ChatDocument
    BY PartsAre DEF HasParts
  <2> QED
    BY <1>6, <1>7, <2>1, ProgramsAre
<1>8. CASE \E v \in User : /\ screen[d] = Member(v)
                           /\ \/ ws = RemoveFromChatWrites(v)
                              \/ ws = UpdateUserColourWrites(v)
                              \/ ws = UpdateUserNameWrites(v)
  <2>1. PICK v \in User : /\ screen[d] = Member(v)
                          /\ \/ ws = RemoveFromChatWrites(v)
                             \/ ws = UpdateUserColourWrites(v)
                             \/ ws = UpdateUserNameWrites(v)
    BY <1>8
  <2>2. /\ RemovesUser(v).key = ChatDocument
        /\ ColoursMember(v).key = Member(v) /\ NamesMember(v).key = Member(v)
    BY PartsAre DEF HasParts
  <2>3. PICK write : ws = <<write>> /\ (write.key = ChatDocument \/ write.key = Member(v))
    BY <2>1, <2>2, ProgramsAre
  <2>4. write.key = Member(v)
    BY <1>6, <2>3
  <2>5. Len(ws) = 1 /\ ws[i] = write
    BY <1>1, <2>3
  <2> QED
    BY <2>1, <2>4, <2>5, KeysDiffer
<1>9. CASE /\ made[d] + 1 \in 1 .. MaxCalls[d]
           /\ ws = SendMessageWrites(d, made[d] + 1)
  <2>1. PICK j \in 1 .. MaxCalls[d] : ws = SendMessageWrites(d, j)
    BY <1>9
  <2>2. StoresMessage(d, j).key = Message(d, j) /\ Message(d, j) \in Messages
    BY PartsAre, KeysDiffer DEF HasParts
  <2> QED
    BY <1>6, <2>1, <2>2, ProgramsAre
<1>10. CASE ws = <<>>
  BY <1>10, EmptySequence
<1>11. \/ MakesWrites(d, ws)
       \/ ws = UpdateChatLastActiveTimestampWrites
       \/ ws = <<>>
  BY DEF MainStep, CompletionWrites
<1> QED
  BY <1>4, <1>5, <1>7, <1>8, <1>9, <1>10, <1>11 DEF MakesWrites

(***************************************************************************)
(* In the line, the document of a member stays behind his addition.        *)
(***************************************************************************)
LEMMA LineAfterAddingKept ==
  ASSUME TypeOK, AddingFirst, [ChatNext]_chatVars, MaxFaults["refuse"] = 0,
         NEW d \in Device
  PROVE  LineAfterAdding(d)'
PROOF
<1>1. /\ LineLen(d) \in Nat /\ Len(queue[d]) \in Nat /\ Len(queue[d]) <= LineLen(d)
  BY LineType
<1>2. LineAfterAdding(d) /\ ScreenAfterAdding(d)
  BY DEF AddingFirst
<1>3. CASE SameLine(d)
  <2>1. \A u \in User : \A p \in 1 .. LineLen(d) :
          At(d, p)'.write.key = Member(u) => NotedBefore(d, u, p)'
    BY <1>1, <1>2, <1>3, NotedStays DEF SameLine, LineAfterAdding
  <2> QED
    BY <1>3, <2>1 DEF SameLine, LineAfterAdding
<1>4. ASSUME LineTail(d), Answers(d)
      PROVE  LineAfterAdding(d)'
  <2>1. ASSUME NEW u \in User, NEW p \in 1 .. LineLen(d) - 1, At(d, p)'.write.key = Member(u)
        PROVE  NotedBefore(d, u, p)'
    <3>1. p \in 1 .. LineLen(d) /\ p + 1 \in 1 .. LineLen(d)
      BY <1>1
    <3>2. At(d, p + 1).write.key = Member(u)
      BY <1>4, <2>1 DEF LineTail
    <3>3. NotedBefore(d, u, p + 1)
      BY <1>2, <3>1, <3>2 DEF LineAfterAdding
    <3> QED
      BY <1>4, <3>1, <3>3, NotedStays
  <2> QED
    BY <1>4, <2>1 DEF LineTail, LineAfterAdding
<1>5. ASSUME LineCut(d)
      PROVE  LineAfterAdding(d)'
  <2>1. ASSUME NEW u \in User, NEW p \in 1 .. Len(queue[d]), At(d, p)'.write.key = Member(u)
        PROVE  NotedBefore(d, u, p)'
    <3>1. p \in 1 .. LineLen(d) /\ At(d, p).write.key = Member(u)
      BY <1>1, <1>5, <2>1 DEF LineCut
    <3> QED
      BY <1>2, <1>5, <3>1, NotedStays DEF LineAfterAdding
  <2> QED
    BY <1>5, <2>1 DEF LineCut, LineAfterAdding
<1>6. ASSUME NEW ws, MainStep(d, ws), LineExtended(d, ws)
      PROVE  LineAfterAdding(d)'
  <2>1. Len(ws) \in Nat
    BY <1>6 DEF MainStep
  <2>2. ASSUME NEW u \in User, NEW p \in 1 .. LineLen(d), At(d, p)'.write.key = Member(u)
        PROVE  NotedBefore(d, u, p)'
    <3>1. At(d, p).write.key = Member(u) /\ p \in 1 .. LineLen(d) + 1
      BY <1>1, <1>6, <2>2 DEF LineExtended
    <3> QED
      BY <1>2, <1>6, <3>1, NotedStays DEF LineAfterAdding
  <2>3. ASSUME NEW u \in User, NEW p \in LineLen(d) + 1 .. LineLen(d) + Len(ws),
               At(d, p)'.write.key = Member(u)
        PROVE  NotedBefore(d, u, p)'
    <3>1. PICK i \in 1 .. Len(ws) : p = LineLen(d) + i
      <4>1. p - LineLen(d) \in 1 .. Len(ws) /\ p = LineLen(d) + (p - LineLen(d))
        BY <1>1, <2>1
      <4> QED
        BY <4>1
    <3>2. p \in Nat
      BY <1>1
    <3>3. At(d, p)'.write = ws[i]
      BY <1>6, <3>1, <3>2 DEF LineExtended
    <3>4. CASE i = 2 /\ Len(ws) = 2 /\ Adds(ws[1], u)
      <4>1. PICK q \in Nat : q = LineLen(d) + 1
        BY <1>1
      <4>2. At(d, q)'.write = ws[1]
        BY <1>6, <3>4, <4>1 DEF LineExtended
      <4>3. q \in 1 .. p - 1
        BY <1>1, <3>1, <3>4, <4>1
      <4>4. Adds(At(d, q)'.write, u)
        BY <3>4, <4>2
      <4> QED
        BY <4>3, <4>4 DEF NotedBefore, Adds
    <3>5. CASE screen[d] = Member(u) /\ Len(ws) = 1
      <4>1. p = LineLen(d) + 1 /\ p \in 1 .. LineLen(d) + 1
        BY <1>1, <3>1, <3>5
      <4>2. NotedBefore(d, u, p)
        BY <1>2, <3>5, <4>1 DEF ScreenAfterAdding
      <4> QED
        BY <1>6, <4>1, <4>2, NotedStays
    <3> QED
      BY <1>6, <2>3, <3>3, <3>4, <3>5, MadeWrites
  <2>4. LineLen(d)' = LineLen(d) + Len(ws)
    BY <1>6 DEF LineExtended
  <2>5. \A p \in 1 .. LineLen(d) + Len(ws) :
          p \in 1 .. LineLen(d) \/ p \in LineLen(d) + 1 .. LineLen(d) + Len(ws)
    BY <1>1, <2>1
  <2> QED
    BY <2>2, <2>3, <2>4, <2>5 DEF LineAfterAdding
<1> QED
  BY <1>3, <1>4, <1>5, <1>6, DeviceSteps DEF Answers

(***************************************************************************)
(* Who is shown as a user of the chat was added, or is being added.        *)
(***************************************************************************)
LEMMA ViewUsers ==
  ASSUME TypeOK, NEW d \in Device, CachedIsAdded(d), NEW u \in User,
         u \in PreviousArray(View(d, ChatDocument).data, "users")
  PROVE  NotedBefore(d, u, LineLen(d) + 1)
PROOF
<1> DEFINE q == queue[d]
<1>1. /\ q \in Seq(Batch) /\ Len(q) \in Nat /\ LineLen(d) \in Nat /\ Len(q) <= LineLen(d)
      /\ \A p \in 1 .. Len(q) : At(d, p) = q[p] /\ q[p] \in Batch /\ q[p].write \in Write
  <2>1. \A p \in 1 .. Len(q) : p \in 1 .. LineLen(d)
    BY LineType
  <2> QED
    BY <2>1, LineType
<1> HIDE DEF q
<1>2. PICK views : /\ AreViews(views, cache[d][ChatDocument], q, ChatDocument)
                   /\ View(d, ChatDocument) = views[Len(q)]
  BY <1>1, GetDocumentIsLastView DEF View, q
<1> DEFINE Fine(n) == u \in PreviousArray(views[n].data, "users") =>
                        Added(u) \/ \E p \in 1 .. n : Adds(q[p].write, u)
           T == {n \in 0 .. Len(q) : Fine(n)}
<1>3. 0 \in T
  <2>1. Fine(0)
    BY <1>2 DEF AreViews, CachedIsAdded
  <2> QED
    BY <1>1, <2>1
<1>4. ASSUME NEW n \in 1 .. Len(q), n - 1 \in T
      PROVE  n \in T
  <2>1. views[n] = ApplyToLocalDocument(q[n], ChatDocument, views[n - 1])
    BY <1>2 DEF AreViews
  <2>2. ASSUME u \in PreviousArray(views[n - 1].data, "users")
        PROVE  Added(u) \/ \E p \in 1 .. n : Adds(q[p].write, u)
    <3>1. \A p \in 1 .. n - 1 : p \in 1 .. n
      OBVIOUS
    <3> QED
      BY <1>4, <2>2, <3>1
  <2>3. ASSUME u \in PreviousArray(views[n].data, "users"),
               u \notin PreviousArray(views[n - 1].data, "users")
        PROVE  Adds(q[n].write, u)
    <3>1. views[n] # views[n - 1]
      BY <2>3
    <3>2. /\ q[n].write.key = ChatDocument
          /\ views[n].data = NewData(q[n].write, views[n - 1].data, EstimatedTime(q[n].n))
      BY <2>1, <3>1 DEF ApplyToLocalDocument, ApplyToLocalView
    <3> QED
      BY <1>1, <2>3, <3>2, NewUsers
  <2>4. Fine(n)
    BY <2>2, <2>3
  <2> QED
    BY <1>1, <2>4
<1>5. Fine(Len(q))
  <2> HIDE DEF T
  <2>1. \A n \in 0 .. Len(q) : n \in T
    BY <1>1, <1>3, <1>4, AlongQueue
  <2>2. Len(q) \in T
    BY <1>1, <2>1
  <2> QED
    BY <2>2 DEF T
<1>6. ASSUME NEW p \in 1 .. Len(q), Adds(q[p].write, u)
      PROVE  NotedBefore(d, u, LineLen(d) + 1)
  <2>1. p \in 1 .. (LineLen(d) + 1) - 1 /\ At(d, p) = q[p]
    BY <1>1
  <2>2. Adds(At(d, p).write, u)
    BY <1>6, <2>1
  <2>3. \E r \in 1 .. (LineLen(d) + 1) - 1 : Adds(At(d, r).write, u)
    BY <2>1, <2>2
  <2> QED
    BY <2>3 DEF NotedBefore
<1> QED
  BY <1>2, <1>5, <1>6 DEF NotedBefore

(***************************************************************************)
(* The screen of a member is opened from the list of members.              *)
(***************************************************************************)
LEMMA ScreenAfterAddingKept ==
  ASSUME TypeOK, AddingFirst, [ChatNext]_chatVars, MaxFaults["refuse"] = 0,
         DOMAIN screen = Device, NEW d \in Device
  PROVE  ScreenAfterAdding(d)'
PROOF
<1>1. LineLen(d) \in Nat
  BY LineType
<1>2. ScreenAfterAdding(d) /\ CachedIsAdded(d)
  BY DEF AddingFirst
<1>3. \A v : Member(v) # <<"contacts">> /\ Member(v) # <<"chat">>
  BY DEF Member
<1>4. ASSUME NEW u \in User, NotedBefore(d, u, LineLen(d) + 1), ~Restart(d)
      PROVE  NotedBefore(d, u, LineLen(d) + 1)'
  <2>1. PICK m \in Nat : m = LineLen(d)
    BY <1>1
  <2>2. m + 1 \in 1 .. LineLen(d) + 1
    BY <2>1
  <2>3. CASE SameLine(d)
    <3>1. NotedBefore(d, u, m + 1)' /\ m = LineLen(d)'
      BY <1>4, <2>1, <2>2, <2>3, NotedStays DEF SameLine
    <3> QED
      BY <3>1 DEF NotedBefore, Added, Adds
  <2>4. CASE \E ws : MainStep(d, ws) /\ LineExtended(d, ws)
    <3>1. PICK ws : MainStep(d, ws) /\ LineExtended(d, ws)
      BY <2>4
    <3>2. NotedBefore(d, u, m + 1)'
      BY <1>4, <2>1, <2>2, <3>1, NotedStays
    <3>3. Len(ws) \in Nat /\ LineLen(d)' = m + Len(ws)
      BY <2>1, <3>1 DEF MainStep, LineExtended
    <3>4. \A q \in 1 .. m + 1 - 1 : q \in 1 .. m + Len(ws) + 1 - 1
      BY <3>3
    <3> QED
      BY <3>2, <3>3, <3>4 DEF NotedBefore, Added, Adds
  <2>5. CASE LineTail(d) /\ Answers(d)
    <3>1. m \in 1 .. LineLen(d) /\ LineLen(d)' = m - 1 /\ m - 1 + 1 = m
      BY <2>1, <2>5 DEF LineTail
    <3>2. NotedBefore(d, u, m)'
      BY <1>4, <2>1, <2>5, <3>1, NotedStays
    <3> QED
      BY <3>1, <3>2 DEF NotedBefore, Added, Adds
  <2> QED
    BY <1>4, <2>3, <2>4, <2>5, DeviceSteps DEF Answers
<1>5. ASSUME Restart(d)
      PROVE  screen'[d] = <<"contacts">>
  BY <1>5 DEF Restart
<1>6. ASSUME NEW u \in User, u \in MembersShown(d), UNCHANGED clientVars
      PROVE  NotedBefore(d, u, LineLen(d) + 1)'
  <2>1. NotedBefore(d, u, LineLen(d) + 1)
    BY <1>2, <1>6, ViewUsers DEF MembersShown
  <2> QED
    BY <1>6, <2>1 DEF NotedBefore, clientVars, LineLen, At, Added
<1>7. ASSUME NEW u \in User, screen'[d] = Member(u)
      PROVE  NotedBefore(d, u, LineLen(d) + 1)'
  <2>1. CASE screen'[d] = screen[d]
    <3>1. NotedBefore(d, u, LineLen(d) + 1)
      BY <1>2, <1>7, <2>1 DEF ScreenAfterAdding
    <3>2. ~Restart(d)
      BY <1>3, <1>5, <1>7
    <3> QED
      BY <1>4, <3>1, <3>2
  <2>2. CASE \E v \in User : /\ screen'[d] = Member(v)
                             /\ v \in MembersShown(d)
                             /\ UNCHANGED clientVars
    BY <1>6, <1>7, <2>2, KeysDiffer
  <2> QED
    BY <1>3, <1>7, <2>1, <2>2, ScreenSteps
<1> QED
  BY <1>7 DEF ScreenAfterAdding

(***************************************************************************)
(* The writes that are answered, with whether the answer is an error, are  *)
(* in a set.                                                               *)
(***************************************************************************)
AnswersWithin(d, W) ==
  \A i \in 1 .. Len(responses[d]) : <<At(d, i).write, responses[d][i].ok>> \in W

(***************************************************************************)
(* What holds of all accepted writes holds of all answers accepted.        *)
(***************************************************************************)
LEMMA AnswersStayWithin ==
  ASSUME TypeOK, [ChatNext]_chatVars, NEW d \in Device, NEW W, AnswersWithin(d, W),
         Commit(d) => <<NextSent(d).write, TRUE>> \in W,
         Refuse(d) => <<NextSent(d).write, FALSE>> \in W
  PROVE  AnswersWithin(d, W)'
PROOF
<1>0. PICK n \in Nat : n = Len(responses[d])
  BY LineType
<1>1. LineLen(d) \in Nat /\ n <= LineLen(d) /\ n = Len(responses[d])
  BY <1>0, LineType
<1> DEFINE Good(i) == <<At(d, i)'.write, responses'[d][i].ok>> \in W
<1>2. ASSUME NEW i, NEW j \in 1 .. n, At(d, i)' = At(d, j), responses'[d][i] = responses[d][j]
      PROVE  Good(i)
  BY <1>1, <1>2 DEF AnswersWithin
<1>3. ASSUME \A i \in 1 .. Len(responses'[d]) : Good(i)
      PROVE  AnswersWithin(d, W)'
  BY <1>3 DEF AnswersWithin
<1> HIDE DEF Good
<1>4. ASSUME SameLine(d) \/ \E ws : LineExtended(d, ws), SameAnswers(d)
      PROVE  \A i \in 1 .. Len(responses'[d]) : Good(i)
  <2>1. Len(responses'[d]) = n
    BY <1>1, <1>4 DEF SameAnswers
  <2>2. ASSUME NEW i \in 1 .. n
        PROVE  At(d, i)' = At(d, i) /\ responses'[d][i] = responses[d][i]
    BY <1>1, <1>4 DEF SameAnswers, SameLine, LineExtended
  <2> QED
    BY <1>2, <2>1, <2>2
<1>5. ASSUME NEW answer, SameLine(d), AnswersExtended(d, answer), Good(n + 1)
      PROVE  \A i \in 1 .. Len(responses'[d]) : Good(i)
  <2>1. Len(responses'[d]) = n + 1
    BY <1>1, <1>5 DEF AnswersExtended
  <2>2. ASSUME NEW i \in 1 .. n
        PROVE  At(d, i)' = At(d, i) /\ responses'[d][i] = responses[d][i]
    BY <1>1, <1>5 DEF AnswersExtended, SameLine
  <2>3. \A i \in 1 .. n + 1 : i \in 1 .. n \/ i = n + 1
    BY <1>1
  <2> QED
    BY <1>2, <1>5, <2>1, <2>2, <2>3
<1>6. ASSUME LineTail(d), AnswersTail(d)
      PROVE  \A i \in 1 .. Len(responses'[d]) : Good(i)
  <2>1. Len(responses'[d]) = n - 1
    BY <1>1, <1>6 DEF AnswersTail
  <2>2. ASSUME NEW i \in 1 .. n - 1
        PROVE  /\ At(d, i)' = At(d, i + 1) /\ responses'[d][i] = responses[d][i + 1]
               /\ i + 1 \in 1 .. n
    <3>1. i \in 1 .. Len(responses[d]) - 1 /\ i \in 1 .. LineLen(d) - 1 /\ i + 1 \in 1 .. n
      BY <1>1
    <3> QED
      BY <1>6, <3>1 DEF AnswersTail, LineTail
  <2> QED
    BY <1>2, <2>1, <2>2
<1>7. ASSUME AnswersLost(d)
      PROVE  \A i \in 1 .. Len(responses'[d]) : Good(i)
  BY <1>7 DEF AnswersLost
<1>8. ASSUME Commit(d) \/ Refuse(d), SameLine(d)
      PROVE  At(d, n + 1)'.write = NextSent(d).write
  <2>1. CanSend(d)
    BY <1>8 DEF Commit, Refuse
  <2>2. n + 1 \in 1 .. LineLen(d) /\ NextSent(d) = At(d, n + 1)
    BY <1>1, <2>1, NextSentIs, LineType
  <2> QED
    BY <1>8, <2>2 DEF SameLine
<1>9. ASSUME Commit(d), SameLine(d), NEW version, AnswersExtended(d, Accepted(version))
      PROVE  Good(n + 1)
  <2>1. responses'[d][n + 1].ok = TRUE
    BY <1>1, <1>9 DEF AnswersExtended, Accepted
  <2> QED
    BY <1>8, <1>9, <2>1 DEF Good
<1>10. ASSUME Refuse(d), SameLine(d), AnswersExtended(d, Error)
       PROVE  Good(n + 1)
  <2>1. responses'[d][n + 1].ok = FALSE
    BY <1>1, <1>10 DEF AnswersExtended, Error
  <2> QED
    BY <1>8, <1>10, <2>1 DEF Good
<1>11. \A i \in 1 .. Len(responses'[d]) : Good(i)
  BY <1>4, <1>5, <1>6, <1>7, <1>9, <1>10, DeviceSteps
<1> QED
  BY <1>3, <1>11

(***************************************************************************)
(* Without refusals of its own the server only ever answers the removal of *)
(* a user with an error.                                                   *)
(***************************************************************************)
FailingUpdates == {a \in Write \X BOOLEAN : a[2] \/ a[1].kind = "update"}

(***************************************************************************)
(* A batch answered with an error is an update.                            *)
(***************************************************************************)
LEMMA OnlyUpdatesFailIs ==
  ASSUME TypeOK, NEW d \in Device
  PROVE  OnlyUpdatesFail(d) <=> AnswersWithin(d, FailingUpdates)
PROOF
<1>1. ASSUME NEW i \in 1 .. Len(responses[d])
      PROVE  At(d, i).write \in Write /\ responses[d][i].ok \in BOOLEAN
  <2>1. i \in 1 .. LineLen(d) /\ i \in DOMAIN responses[d]
    BY LineType
  <2>2. responses[d][i] \in Answer
    BY <2>1 DEF TypeOK
  <2> QED
    BY <2>1, <2>2, LineType DEF Answer
<1> QED
  BY <1>1 DEF OnlyUpdatesFail, AnswersWithin, FailingUpdates

(***************************************************************************)
(* Every step keeps it.                                                    *)
(***************************************************************************)
LEMMA OnlyUpdatesFailKept ==
  ASSUME TypeOK, [ChatNext]_chatVars, MaxFaults["refuse"] = 0,
         NEW d \in Device, OnlyUpdatesFail(d)
  PROVE  OnlyUpdatesFail(d)'
PROOF
<1>1. ASSUME CanSend(d)
      PROVE  NextSent(d).write \in Write
  BY <1>1, NextSentIs
<1>2. /\ Commit(d) => <<NextSent(d).write, TRUE>> \in FailingUpdates
      /\ Refuse(d) => <<NextSent(d).write, FALSE>> \in FailingUpdates
  BY <1>1, OnlyUpdatesRefused DEF Commit, Refuse, FailingUpdates
<1>3. AnswersWithin(d, FailingUpdates)'
  BY <1>2, OnlyUpdatesFailIs, AnswersStayWithin
<1>4. \A write, ok : <<write, ok>> \in FailingUpdates => ok \/ write.kind = "update"
  BY DEF FailingUpdates
<1> QED
  BY <1>3, <1>4 DEF OnlyUpdatesFail, AnswersWithin, FailingUpdates

(***************************************************************************)
(* Who was added in a write that succeeded was added.                      *)
(***************************************************************************)
LEMMA AnsweredIsAddedKept ==
  ASSUME TypeOK, [ChatNext]_chatVars, NEW d \in Device, AnsweredIsAdded(d)
  PROVE  AnsweredIsAdded(d)'
PROOF
<1>1. \A u : Added(u) => Added(u)'
  BY ServerSteps, AddedStays
<1>2. PICK W : W = {a \in Write \X BOOLEAN :
                     a[2] => \A u \in User : Adds(a[1], u) => Added(u)'}
  OBVIOUS
<1>3. /\ \A write \in Write, ok \in BOOLEAN :
           (ok => \A u \in User : Adds(write, u) => Added(u)') => <<write, ok>> \in W
      /\ \A write, ok : <<write, ok>> \in W =>
           (ok => \A u \in User : Adds(write, u) => Added(u)')
  BY <1>2
<1>4. ASSUME NEW i \in 1 .. Len(responses[d])
      PROVE  At(d, i).write \in Write /\ responses[d][i].ok \in BOOLEAN
  <2>1. i \in 1 .. LineLen(d) /\ i \in DOMAIN responses[d]
    BY LineType
  <2>2. responses[d][i] \in Answer
    BY <2>1 DEF TypeOK
  <2> QED
    BY <2>1, <2>2, LineType DEF Answer
<1>5. AnswersWithin(d, W)
  BY <1>1, <1>3, <1>4 DEF AnswersWithin, AnsweredIsAdded
<1>6. ASSUME Commit(d)
      PROVE  <<NextSent(d).write, TRUE>> \in W
  <2>1. PICK write : write = NextSent(d).write
    OBVIOUS
  <2>2. write \in Write
    BY <1>6, <2>1, NextSentIs DEF Commit
  <2>3. ASSUME NEW u \in User, Adds(write, u)
        PROVE  Added(u)'
    <3>1. write.key = ChatDocument
      BY <2>3, AddsParts
    <3>2. /\ Server(ChatDocument)'.data
               = NewData(write, Server(ChatDocument).data, CommitTime(Latest + 1))
          /\ Latest' \in DOMAIN backend'
      <4>1. /\ HistoryKept
            /\ Server(write.key)'.data
                 = NewData(write, Server(write.key).data, CommitTime(Latest + 1))
        BY <1>6, <2>1, CommitMakes
      <4>2. Latest \in Nat /\ Latest >= 1
        BY DEF TypeOK, Latest
      <4>3. Latest' \in DOMAIN backend'
        BY <4>1, <4>2 DEF HistoryKept
      <4> QED
        BY <3>1, <4>1, <4>3
    <3>3. u \in PreviousArray(Server(ChatDocument)'.data, "users")
      BY <2>3, <3>2, AddsParts
    <3> QED
      BY <3>2, <3>3 DEF Added, Server
  <2> QED
    BY <1>3, <2>1, <2>2, <2>3
<1>7. ASSUME Refuse(d)
      PROVE  <<NextSent(d).write, FALSE>> \in W
  <2>1. NextSent(d).write \in Write
    BY <1>7, NextSentIs DEF Refuse
  <2> QED
    BY <1>3, <2>1
<1>8. AnswersWithin(d, W)'
  BY <1>5, <1>6, <1>7, AnswersStayWithin
<1>9. ASSUME NEW i \in 1 .. Len(responses'[d]), responses'[d][i].ok, NEW u \in User,
              Adds(At(d, i)'.write, u)
       PROVE  Added(u)'
  BY <1>3, <1>8, <1>9 DEF AnswersWithin
<1> QED
  BY <1>9 DEF AnsweredIsAdded, Adds

(***************************************************************************)
(* A cached document changes to a version of the server's, or to what the  *)
(* write that was acknowledged makes of it.                                *)
(***************************************************************************)
Acknowledged(d, k) ==
  /\ AcknowledgeBatch(d)
  /\ At(d, 1).write.key = k
  /\ At(d, 1).write \in Write
  /\ 1 \in 1 .. Len(responses[d]) /\ 1 \in 1 .. LineLen(d)
  /\ responses[d][1].ok
  /\ cache[d][k].version < responses[d][1].version
  /\ cache'[d][k] = ApplyToRemoteDocument(At(d, 1).write, cache[d][k],
                                          responses[d][1].version)

(***************************************************************************)
(* How a step changes a cached document.                                   *)
(***************************************************************************)
LEMMA CachedChanges ==
  ASSUME TypeOK, [ChatNext]_chatVars, NEW d \in Device, NEW k \in Key
  PROVE  \/ cache'[d][k] = cache[d][k]
         \/ \E v \in DOMAIN backend : /\ cache'[d][k] = backend[v][k]
                                     /\ AcceptsWatchUpdate(cache[d][k], backend[v][k])
         \/ Acknowledged(d, k)
PROOF
<1>1. DOMAIN cache = Device /\ DOMAIN cache[d] = Key
  BY DEF TypeOK
<1>2. ASSUME NEW v \in 1 .. Latest, ApplyRemoteEvent(d, v)
      PROVE  \/ cache'[d][k] = cache[d][k]
             \/ \E w \in DOMAIN backend : /\ cache'[d][k] = backend[w][k]
                                         /\ AcceptsWatchUpdate(cache[d][k], backend[w][k])
  <2>1. v \in DOMAIN backend
    BY DEF TypeOK, Latest
  <2>2. cache'[d][k] = IF AcceptsWatchUpdate(cache[d][k], backend[v][k])
                       THEN backend[v][k] ELSE cache[d][k]
    BY <1>1, <1>2 DEF ApplyRemoteEvent
  <2> QED
    BY <2>1, <2>2
<1>3. ASSUME AcknowledgeBatch(d)
      PROVE  cache'[d][k] = cache[d][k] \/ Acknowledged(d, k)
  <2>1. /\ responses[d] # <<>> /\ Head(responses[d]).ok
        /\ queue' = [queue EXCEPT ![d] = Tail(@)] /\ UNCHANGED calls
        /\ cache' = [cache EXCEPT ![d][Head(queue[d]).write.key] =
                       ApplyBatchResult(Head(queue[d]).write, @, Head(responses[d]).version)]
    BY <1>3 DEF AcknowledgeBatch
  <2>2. /\ Head(queue[d]) = At(d, 1) /\ Head(responses[d]) = responses[d][1]
        /\ Len(queue[d]) >= 1 /\ Len(responses[d]) >= 1
    BY <2>1, AnswerLine
  <2>3. 1 \in 1 .. Len(responses[d]) /\ 1 \in 1 .. LineLen(d)
    BY <2>2, LineType
  <2>4. At(d, 1).write \in Write
    BY <2>3, LineType
  <2>5. CASE At(d, 1).write.key # k
    BY <1>1, <2>1, <2>2, <2>5
  <2>6. CASE At(d, 1).write.key = k
    <3>1. cache'[d][k] = ApplyBatchResult(At(d, 1).write, cache[d][k], responses[d][1].version)
      BY <1>1, <2>1, <2>2, <2>6
    <3> QED
      BY <1>3, <2>1, <2>2, <2>3, <2>4, <2>6, <3>1 DEF ApplyBatchResult, Acknowledged
  <2> QED
    BY <2>5, <2>6
<1> QED
  BY <1>2, <1>3, CacheSteps

(***************************************************************************)
(* Who is in a cached array of users was added.                            *)
(***************************************************************************)
LEMMA CachedIsAddedKept ==
  ASSUME TypeOK, AddingFirst, [ChatNext]_chatVars, NEW d \in Device
  PROVE  CachedIsAdded(d)'
PROOF
<1>1. ChatDocument \in Key
  BY KeysDiffer
<1>2. CachedIsAdded(d) /\ AnsweredIsAdded(d) /\ \A u : Added(u) => Added(u)'
  BY ServerSteps, AddedStays DEF AddingFirst
<1> DEFINE doc == cache'[d][ChatDocument]
           old == cache[d][ChatDocument]
<1>3. ASSUME NEW u \in User, u \in PreviousArray(doc.data, "users"), u \notin PreviousArray(old.data, "users")
      PROVE  Added(u)
  <2>1. CASE \E v \in DOMAIN backend : doc = backend[v][ChatDocument]
    BY <1>3, <2>1 DEF Added
  <2>2. CASE Acknowledged(d, ChatDocument)
    <3> DEFINE write == At(d, 1).write
               version == responses[d][1].version
    <3>1. /\ write \in Write /\ write.key = ChatDocument
          /\ doc = ApplyToRemoteDocument(write, old, version)
          /\ 1 \in 1 .. Len(responses[d]) /\ responses[d][1].ok
      BY <2>2 DEF Acknowledged
    <3>2. doc.data = NewData(write, old.data, CommitTime(version)) \/ doc.data = <<>>
      BY <3>1 DEF ApplyToRemoteDocument, Unknown
    <3>3. PreviousArray(<<>>, "users") = {}
      BY EmptySequence DEF PreviousArray
    <3>4. Adds(write, u)
      BY <1>3, <3>1, <3>2, <3>3, NewUsers
    <3> QED
      BY <1>2, <3>1, <3>4 DEF AnsweredIsAdded
  <2> QED
    BY <1>1, <1>3, <2>1, <2>2, CachedChanges
<1>4. ASSUME NEW u \in User, u \in PreviousArray(doc.data, "users")
      PROVE  Added(u)'
  BY <1>2, <1>3, <1>4 DEF CachedIsAdded
<1> QED
  BY <1>4 DEF CachedIsAdded

(***************************************************************************)
(* Who has a member document, on the server or cached, was added.          *)
(***************************************************************************)
LEMMA MemberIsAddedKept ==
  ASSUME TypeOK, AddingFirst, [ChatNext]_chatVars
  PROVE  MemberIsAdded'
PROOF
<1>1. MemberIsAdded /\ \A u : Added(u) => Added(u)'
  BY ServerSteps, AddedStays DEF AddingFirst
<1>2. CASE UNCHANGED backend
  BY <1>1, <1>2 DEF MemberIsAdded, Server, Latest, Added
<1>3. ASSUME NEW d \in Device, Commit(d)
      PROVE  MemberIsAdded'
  <2> DEFINE p == Len(responses[d]) + 1
  <2>1. PICK write : write = NextSent(d).write
    OBVIOUS
  <2>2. /\ NextSent(d) = At(d, p) /\ p \in 1 .. LineLen(d) /\ p - 1 = Len(responses[d])
        /\ \A i \in 1 .. Len(responses[d]) : responses[d][i].ok
    <3>1. CanSend(d)
      BY <1>3 DEF Commit
    <3> QED
      BY <3>1, NextSentIs, LineType
  <2>3. ASSUME NEW u \in User, write.key = Member(u)
        PROVE  Added(u)
    <3>1. NotedBefore(d, u, p)
      BY <2>1, <2>2, <2>3 DEF AddingFirst, LineAfterAdding
    <3>2. \A i \in 1 .. Len(responses[d]) : Adds(At(d, i).write, u) => Added(u)
      BY <2>2 DEF AddingFirst, AnsweredIsAdded
    <3> HIDE DEF p
    <3> QED
      BY <2>2, <3>1, <3>2 DEF NotedBefore
  <2>4. ASSUME NEW u \in User, Exists(Server(Member(u)))'
        PROVE  Added(u)'
    <3>1. CASE write.key = Member(u)
      BY <1>1, <2>3, <3>1
    <3>2. CASE write.key # Member(u)
      <4>1. Server(Member(u))' = Server(Member(u))
        BY <1>3, <2>1, <3>2, CommitMakes, KeysDiffer
      <4> QED
        BY <1>1, <2>4, <4>1 DEF MemberIsAdded, Exists
    <3> QED
      BY <3>1, <3>2
  <2> QED
    BY <2>4 DEF MemberIsAdded
<1> QED
  BY <1>2, <1>3, ServerSteps

(***************************************************************************)
(* The parts together are kept by every step.                              *)
(***************************************************************************)
LEMMA AddingFirstKept ==
  ASSUME TypeOK, AddingFirst, [ChatNext]_chatVars, MaxFaults["refuse"] = 0,
         DOMAIN screen = Device
  PROVE  AddingFirst'
PROOF
  BY LineAfterAddingKept, ScreenAfterAddingKept, AnsweredIsAddedKept, OnlyUpdatesFailKept, CachedIsAddedKept,
     MemberIsAddedKept
     DEF AddingFirst

(***************************************************************************)
(* They hold at first.                                                     *)
(***************************************************************************)
LEMMA AddingFirstInit ==
  ASSUME ChatInit,
         \A u \in User : Exists(InitialDocuments[Member(u)]) =>
           u \in PreviousArray(InitialDocuments[ChatDocument].data, "users")
  PROVE  AddingFirst
PROOF
<1>1. /\ backend = <<InitialDocuments>>
      /\ \A d \in Device : /\ calls[d] = <<>> /\ queue[d] = <<>> /\ responses[d] = <<>>
                           /\ cache[d] = InitialDocuments /\ screen[d] = <<"contacts">>
  BY DEF ChatInit, Init
<1>2. Latest = 1 /\ 1 \in DOMAIN backend /\ backend[1] = InitialDocuments
      /\ backend[Latest] = InitialDocuments
  BY <1>1 DEF Latest
<1>3. \A u : u \in PreviousArray(InitialDocuments[ChatDocument].data, "users") => Added(u)
  BY <1>2 DEF Added
<1>4. MemberIsAdded
  BY <1>2, <1>3 DEF MemberIsAdded, Server
<1>5. ASSUME NEW d \in Device
      PROVE  /\ LineAfterAdding(d) /\ ScreenAfterAdding(d) /\ AnsweredIsAdded(d)
             /\ OnlyUpdatesFail(d) /\ CachedIsAdded(d)
  <2>1. LineLen(d) = 0 /\ Len(responses[d]) = 0
    <3>1. Len(calls[d]) = 0 /\ Len(queue[d]) = 0 /\ Len(responses[d]) = 0
      BY <1>1, EmptySequence
    <3> QED
      BY <3>1 DEF LineLen
  <2>2. \A u \in User : screen[d] # Member(u)
    BY <1>1 DEF Member
  <2>3. \A u \in User : u \in PreviousArray(cache[d][ChatDocument].data, "users") => Added(u)
    BY <1>1, <1>3
  <2> QED
    BY <2>1, <2>2, <2>3 DEF LineAfterAdding, ScreenAfterAdding, AnsweredIsAdded,
       OnlyUpdatesFail, CachedIsAdded
<1> QED
  BY <1>4, <1>5 DEF AddingFirst

(***************************************************************************)
(* A step keeps the shape of the state of the app.                         *)
(***************************************************************************)
LEMMA ChatTypeKept ==
  ASSUME TypeOK, ChatTypeOK, [ChatNext]_chatVars
  PROVE  ChatTypeOK'
PROOF
<1>1. screen' \in [Device -> {<<"contacts">>, <<"chat">>} \cup {Member(u) : u \in User}]
  <2>1. /\ screen \in [Device -> {<<"contacts">>, <<"chat">>} \cup {Member(u) : u \in User}]
        /\ DOMAIN screen = Device
    BY DEF ChatTypeOK
  <2>2. CASE UNCHANGED screen
    BY <2>1, <2>2
  <2>3. CASE \E e \in Device, s \in {<<"contacts">>, <<"chat">>} \cup {Member(u) : u \in User} :
               screen' = [screen EXCEPT ![e] = s]
    BY <2>1, <2>3
  <2>4. ASSUME NEW e \in Device, OpenChat(e) \/ Restart(e)
        PROVE  \E s \in {<<"contacts">>, <<"chat">>} : screen' = [screen EXCEPT ![e] = s]
    BY <2>4 DEF OpenChat, Restart
  <2>5. ASSUME NEW e \in Device, Back(e)
        PROVE  \E s \in {<<"contacts">>, <<"chat">>} : screen' = [screen EXCEPT ![e] = s]
    BY <2>1, <2>5 DEF Back
  <2>6. ASSUME NEW e \in Device, NEW u \in User, OpenMember(e, u) \/ RemoveFromChat(e, u)
        PROVE  \E s \in {<<"chat">>, Member(u)} : screen' = [screen EXCEPT ![e] = s]
    BY <2>6 DEF OpenMember, RemoveFromChat
  <2>7. \/ UNCHANGED screen
        \/ \E e \in Device : \/ OpenChat(e) \/ Back(e) \/ Restart(e)
                             \/ \E u \in User : OpenMember(e, u) \/ RemoveFromChat(e, u)
    BY DEF ChatNext, GestureStep, NewChat, UpdateChatColour, SendMessage,
           UpdateUserColour, UpdateUserName, AddNewUser, RunCompletion, chatVars
  <2>8. UNCHANGED screen \/ \E e \in Device : \E s \in {<<"contacts">>, <<"chat">>} \cup {Member(u) : u \in User} :
               screen' = [screen EXCEPT ![e] = s]
    <3>1. ASSUME NEW e \in Device, OpenChat(e) \/ Back(e) \/ Restart(e)
          PROVE  \E s \in {<<"contacts">>, <<"chat">>} \cup {Member(u) : u \in User} :
                    screen' = [screen EXCEPT ![e] = s]
      BY <2>4, <2>5, <3>1
    <3>2. ASSUME NEW e \in Device, NEW u \in User, OpenMember(e, u) \/ RemoveFromChat(e, u)
          PROVE  \E s \in {<<"contacts">>, <<"chat">>} \cup {Member(v) : v \in User} :
                    screen' = [screen EXCEPT ![e] = s]
      BY <2>6, <3>2
    <3> QED
      BY <2>7, <3>1, <3>2
  <2> QED
    BY <2>2, <2>3, <2>8
<1>2. DOMAIN shown' \subseteq Messages /\ \A m \in DOMAIN shown' : shown'[m] \subseteq Messages
  <2>1. DOMAIN shown \subseteq Messages /\ \A m \in DOMAIN shown : shown[m] \subseteq Messages
    BY DEF ChatTypeOK
  <2>2. CASE UNCHANGED shown
    BY <2>1, <2>2
  <2>3. ASSUME NEW e \in Device, SendMessage(e)
        PROVE  DOMAIN shown' \subseteq Messages /\ \A m \in DOMAIN shown' : shown'[m] \subseteq Messages
    <3>1. made[e] + 1 \in 1 .. MaxCalls[e]
      <4>1. made[e] \in Nat /\ MaxCalls[e] \in Nat
        BY BoundAssumption DEF TypeOK
      <4> QED
        BY <2>3, <4>1, OwedType DEF SendMessage
    <3>2. Message(e, made[e] + 1) \in Messages
      BY <3>1, KeysDiffer
    <3>3. shown' = Overlay([m \in {Message(e, made[e] + 1)} |-> MessagesShown(e)], shown)
      BY <2>3 DEF SendMessage
    <3>4. MessagesShown(e) \subseteq Messages
      BY DEF MessagesShown
    <3> QED
      BY <2>1, <3>2, <3>3, <3>4 DEF Overlay
  <2>4. UNCHANGED shown \/ \E e \in Device : SendMessage(e)
    BY DEF ChatNext, GestureStep, OpenChat, Back, NewChat, UpdateChatColour, OpenMember,
           RemoveFromChat, UpdateUserColour, UpdateUserName, AddNewUser, RunCompletion,
           Restart, chatVars
  <2> QED
    BY <2>2, <2>3, <2>4
<1> QED
  BY <1>1, <1>2 DEF ChatTypeOK

(***************************************************************************)
(* Nobody has a member document in a chat he was never added to            *)
(* (AddUserManager and CreateChatModel make the two writes in this order), *)
(* through any number of restarts, repeated writes and broken streams. The *)
(* server refuses no write that is valid: a refused addition leaves the    *)
(* member document of one who is not in the chat.                          *)
(***************************************************************************)
THEOREM MembersWereAdded ==
  ASSUME MaxFaults["refuse"] = 0,
         \A u \in User : Exists(InitialDocuments[Member(u)]) =>
           u \in PreviousArray(InitialDocuments[ChatDocument].data, "users")
  PROVE  ChatSpec => []ChatInvariant
PROOF
<1> DEFINE Inv == InductiveInvariant /\ ChatTypeOK /\ AddingFirst
<1>1. ChatInit => Inv
  <2>1. ChatInit => ChatTypeOK
    BY EmptySequence DEF ChatInit, ChatTypeOK
  <2> QED
    BY <2>1, InitInvariant, AddingFirstInit DEF ChatInit
<1>2. Inv /\ [ChatNext]_chatVars => Inv'
  <2> SUFFICES ASSUME Inv, [ChatNext]_chatVars PROVE Inv'
    OBVIOUS
  <2>1. TypeOK /\ DOMAIN screen = Device
    BY DEF InductiveInvariant, ChatTypeOK
  <2>2. InductiveInvariant'
    BY ChatStep, NextInvariant
  <2> QED
    BY <2>1, <2>2, AddingFirstKept, ChatTypeKept
<1>3. Inv => ChatInvariant
  BY DEF AddingFirst, MemberIsAdded, MemberWasAdded, Added, ChatInvariant
<1> QED
  BY <1>1, <1>2, <1>3, PTL DEF ChatSpec

(***************************************************************************)
(* All writes in the line of a device are in a set.                        *)
(***************************************************************************)
LineWithin(d, W) == \A p \in 1 .. LineLen(d) : At(d, p).write \in W

(***************************************************************************)
(* A line stays within a set that has all writes made.                     *)
(***************************************************************************)
LEMMA LineStaysWithin ==
  ASSUME TypeOK, [ChatNext]_chatVars, NEW d \in Device, NEW W, LineWithin(d, W),
         \A ws : MainStep(d, ws) => \A i \in 1 .. Len(ws) : ws[i] \in W
  PROVE  LineWithin(d, W)'
PROOF
<1>1. /\ LineLen(d) \in Nat /\ Len(queue[d]) \in Nat /\ Len(queue[d]) <= LineLen(d)
  BY LineType
<1>2. CASE SameLine(d)
  BY <1>2 DEF SameLine, LineWithin
<1>3. CASE LineTail(d)
  <2>1. ASSUME NEW p \in 1 .. LineLen(d) - 1
        PROVE  At(d, p)'.write \in W
    <3>1. p + 1 \in 1 .. LineLen(d)
      BY <1>1
    <3> QED
      BY <1>3, <3>1 DEF LineTail, LineWithin
  <2> QED
    BY <1>3, <2>1 DEF LineTail, LineWithin
<1>4. CASE LineCut(d)
  <2>1. ASSUME NEW p \in 1 .. Len(queue[d])
        PROVE  At(d, p)'.write \in W
    <3>1. p \in 1 .. LineLen(d)
      BY <1>1
    <3> QED
      BY <1>4, <3>1 DEF LineCut, LineWithin
  <2> QED
    BY <1>4, <2>1 DEF LineCut, LineWithin
<1>5. ASSUME NEW ws, MainStep(d, ws), LineExtended(d, ws)
      PROVE  LineWithin(d, W)'
  <2>1. Len(ws) \in Nat
    BY <1>5 DEF MainStep
  <2>2. ASSUME NEW p \in 1 .. LineLen(d) + Len(ws)
        PROVE  At(d, p)'.write \in W
    <3>1. CASE p \in 1 .. LineLen(d)
      BY <1>5, <3>1 DEF LineExtended, LineWithin
    <3>2. CASE p \notin 1 .. LineLen(d)
      <4>1. PICK i \in 1 .. Len(ws) : p = LineLen(d) + i
        <5>1. p - LineLen(d) \in 1 .. Len(ws) /\ p = LineLen(d) + (p - LineLen(d))
          BY <1>1, <2>1, <3>2
        <5> QED
          BY <5>1
      <4>2. p \in Nat
        BY <1>1
      <4>3. At(d, p)'.write = ws[i]
        BY <1>5, <4>1, <4>2 DEF LineExtended
      <4> QED
        BY <1>5, <4>3
    <3> QED
      BY <3>1, <3>2
  <2> QED
    BY <1>5, <2>2 DEF LineExtended, LineWithin
<1> QED
  BY <1>2, <1>3, <1>4, <1>5, DeviceSteps

(***************************************************************************)
(* Once the chat is made, only the document of a new member and messages   *)
(* are written as a whole.                                                 *)
(***************************************************************************)
IsWhole(write) ==
  write.kind = "set" =>
    (\E u \in Candidate : write = MemberDetails(u)) \/ write.key \in Messages

Wholes == {write \in Write : IsWhole(write)}

(***************************************************************************)
(* Where no chat is made, no document of a chat is replaced.               *)
(***************************************************************************)
LEMMA MadeInTheChat ==
  ASSUME "newChat" \notin Gesture, NEW d \in Device, NEW ws, MainStep(d, ws),
         NEW i \in 1 .. Len(ws)
  PROVE  /\ ws[i] \in Write
         /\ \/ \E u \in Candidate : \/ i = 1 /\ ws[i] = AddsUser(u)
                                    \/ i = 2 /\ ws[i] = MemberDetails(u)
            \/ \E u \in User : /\ screen[d] = Member(u)
                               /\ ws[i] \in {RemovesUser(u), ColoursMember(u), NamesMember(u)}
            \/ ws[i] \in {ColoursChat, NotesActivity}
            \/ \E j \in 1 .. MaxCalls[d] : ws[i] = StoresMessage(d, j)
PROOF
<1>1. \A a : \A j \in 1 .. Len(<<a>>) : <<a>>[j] = a
  OBVIOUS
<1>2. \A a, b : \A j \in 1 .. Len(<<a, b>>) : \/ j = 1 /\ <<a, b>>[j] = a
                                              \/ j = 2 /\ <<a, b>>[j] = b
  OBVIOUS
<1>3. ws[i] \in Write
  BY DEF MainStep
<1>4. CASE ws = <<>>
  BY <1>4, EmptySequence
<1>5. CASE ws = UpdateChatColourWrites \/ ws = UpdateChatLastActiveTimestampWrites
  BY <1>1, <1>3, <1>5, ProgramsAre
<1>6. CASE \E u \in Candidate : ws = AddNewUserWrites(u)
  <2>1. PICK u \in Candidate : ws = AddNewUserWrites(u)
    BY <1>6
  <2>2. ws = <<AddsUser(u), MemberDetails(u)>>
    BY <2>1, ProgramsAre
  <2>3. \/ i = 1 /\ ws[i] = AddsUser(u)
        \/ i = 2 /\ ws[i] = MemberDetails(u)
    BY <1>2, <2>2
  <2> QED
    BY <1>3, <2>3
<1>7. CASE \E u \in User : /\ screen[d] = Member(u)
                           /\ \/ ws = RemoveFromChatWrites(u)
                              \/ ws = UpdateUserColourWrites(u)
                              \/ ws = UpdateUserNameWrites(u)
  <2>1. PICK u \in User : /\ screen[d] = Member(u)
                          /\ \/ ws = RemoveFromChatWrites(u)
                             \/ ws = UpdateUserColourWrites(u)
                             \/ ws = UpdateUserNameWrites(u)
    BY <1>7
  <2>2. ws[i] \in {RemovesUser(u), ColoursMember(u), NamesMember(u)}
    BY <1>1, <2>1, ProgramsAre
  <2> QED
    BY <1>3, <2>1, <2>2
<1>8. CASE /\ made[d] + 1 \in 1 .. MaxCalls[d]
           /\ ws = SendMessageWrites(d, made[d] + 1)
  <2>1. PICK j \in 1 .. MaxCalls[d] : ws = SendMessageWrites(d, j)
    BY <1>8
  <2>2. ws[i] = StoresMessage(d, j)
    BY <1>1, <2>1, ProgramsAre
  <2> QED
    BY <1>3, <2>2
<1> QED
  BY <1>4, <1>5, <1>6, <1>7, <1>8 DEF MainStep, MakesWrites, CompletionWrites

(***************************************************************************)
(* A document that is set again gets all the fields it can have.           *)
(***************************************************************************)
LEMMA MadeWhole ==
  ASSUME "newChat" \notin Gesture, NEW d \in Device, NEW ws, MainStep(d, ws)
  PROVE  \A i \in 1 .. Len(ws) : ws[i] \in Wholes
PROOF
<1>1. \A u : /\ AddsUser(u).kind # "set" /\ RemovesUser(u).kind # "set"
             /\ ColoursMember(u).kind # "set" /\ NamesMember(u).kind # "set"
  BY PartsAre DEF HasParts
<1>2. ColoursChat.kind # "set" /\ NotesActivity.kind # "set"
  BY PartsAre DEF HasParts
<1>3. \A j \in 1 .. MaxCalls[d] : StoresMessage(d, j).key \in Messages
  BY PartsAre, KeysDiffer DEF HasParts
<1>4. ASSUME NEW i \in 1 .. Len(ws)
      PROVE  ws[i] \in Write /\ IsWhole(ws[i])
  <2>1. /\ ws[i] \in Write
        /\ \/ \E u \in Candidate : \/ i = 1 /\ ws[i] = AddsUser(u)
                                   \/ i = 2 /\ ws[i] = MemberDetails(u)
           \/ \E u \in User : /\ screen[d] = Member(u)
                              /\ ws[i] \in {RemovesUser(u), ColoursMember(u), NamesMember(u)}
           \/ ws[i] \in {ColoursChat, NotesActivity}
           \/ \E j \in 1 .. MaxCalls[d] : ws[i] = StoresMessage(d, j)
    BY MadeInTheChat
  <2> QED
    BY <1>1, <1>2, <1>3, <2>1 DEF IsWhole
<1> QED
  BY <1>4 DEF Wholes

(***************************************************************************)
(* A message that is stored again has only the fields that it gets.        *)
(***************************************************************************)
MessageFields ==
  \A m \in Messages : DOMAIN Server(m).data \subseteq {"fromEmail", "time"}

Overwriting == MessageFields /\ \A d \in Device : LineWithin(d, Wholes)

(***************************************************************************)
(* A step that leaves each document its fields, but for the member         *)
(* document that addNewUser sets.                                          *)
(***************************************************************************)
TakenByAdding(k) ==
  /\ \E d \in Device, u \in Candidate :
       k = Member(u) /\ Commit(d) /\ NextSent(d).write = MemberDetails(u)
  /\ {"name", "colour"} \subseteq DOMAIN Server(k).data'

KeepsFields == \A k \in Key : LosesFields(k) => TakenByAdding(k)

(***************************************************************************)
(* A commit leaves a document the fields it has, or sets the document of a *)
(* member who is added.                                                    *)
(***************************************************************************)
LEMMA CommitFields ==
  ASSUME TypeOK, Overwriting, NEW d \in Device, Commit(d)
  PROVE  KeepsFields /\ MessageFields'
PROOF
<1>1. PICK write : write = NextSent(d).write
  OBVIOUS
<1>2. write \in Wholes /\ write \in Write /\ IsWhole(write)
  <2>1. CanSend(d)
    BY DEF Commit
  <2>2. Len(responses[d]) + 1 \in 1 .. LineLen(d) /\ NextSent(d) = At(d, Len(responses[d]) + 1)
    BY <2>1, NextSentIs, LineType
  <2> QED
    BY <1>1, <2>2 DEF Overwriting, LineWithin, Wholes
<1> DEFINE old == Server(write.key).data
           all == DOMAIN write.transforms \cup DOMAIN write.fields
           made1 == all \cup (IF write.kind = "set" THEN {} ELSE DOMAIN old)
<1>3. /\ DOMAIN Server(write.key)'.data = made1
      /\ \A k \in Key \ {write.key} : Server(k)' = Server(k)
  <2>1. /\ Server(write.key)'.data = NewData(write, Server(write.key).data, CommitTime(Latest + 1))
        /\ \A k \in Key \ {write.key} : Server(k)' = Server(k)
    BY <1>1, CommitMakes
  <2>2. FieldsAre(NewData(write, old, CommitTime(Latest + 1)), write, old, CommitTime(Latest + 1))
    BY NewDataFields
  <2>3. DOMAIN NewData(write, old, CommitTime(Latest + 1)) = made1
    BY <2>2 DEF FieldsAre
  <2> QED
    BY <2>1, <2>3
<1>4. ASSUME write.key \in Messages
      PROVE  all = {"fromEmail", "time"} /\ DOMAIN old \subseteq {"fromEmail", "time"}
  <2>1. PICK e \in Device : \E i \in 1 .. MaxCalls[e] : write.key = Message(e, i)
    BY <1>4, KeysDiffer
  <2>2. PICK i \in 1 .. MaxCalls[e] : write.key = Message(e, i)
    BY <2>1
  <2>3. write = StoresMessage(e, i)
    BY <1>2, <2>2, WriteParts
  <2> QED
    BY <1>4, <2>3, PartsAre DEF HasParts, Overwriting, MessageFields
<1>5. ASSUME NEW u \in Candidate, write = MemberDetails(u)
      PROVE  TakenByAdding(write.key)
  <2>1. write.key = Member(u) /\ DOMAIN write.fields = {"name", "userName", "colour"}
    BY <1>5, PartsAre DEF HasParts
  <2>2. {"name", "colour"} \subseteq DOMAIN Server(write.key).data'
    BY <1>3, <2>1
  <2> QED
    BY <1>1, <1>5, <2>1, <2>2 DEF TakenByAdding
<1>6. DOMAIN old \subseteq made1 \/ TakenByAdding(write.key)
  <2>1. CASE write.kind # "set"
    BY <2>1
  <2>2. CASE write.kind = "set"
    BY <1>2, <1>4, <1>5, <2>2 DEF IsWhole
  <2> QED
    BY <2>1, <2>2
<1>7. ASSUME NEW m \in Messages
      PROVE  DOMAIN Server(m)'.data \subseteq {"fromEmail", "time"}
  <2>1. m \in Key
    BY KeysDiffer
  <2>2. CASE write.key = m
    BY <1>3, <1>4, <2>2
  <2>3. CASE write.key # m
    BY <1>3, <2>1, <2>3 DEF Overwriting, MessageFields
  <2> QED
    BY <2>2, <2>3
<1>8. ASSUME NEW k \in Key, LosesFields(k)
      PROVE  TakenByAdding(k)
  <2>1. k = write.key
    BY <1>3, <1>8 DEF LosesFields
  <2> QED
    BY <1>3, <1>6, <1>8, <2>1 DEF LosesFields
<1> QED
  BY <1>7, <1>8 DEF KeepsFields, MessageFields

(***************************************************************************)
(* No write of the app takes a field of a document on the server away,     *)
(* when no chat is made twice, but for addNewUser of somebody who has a    *)
(* member document, which keeps what the screens unwrap.                   *)
(***************************************************************************)
THEOREM FieldsGoByAdding ==
  ASSUME "newChat" \notin Gesture,
         \A m \in Messages :
           DOMAIN InitialDocuments[m].data \subseteq {"fromEmail", "time"}
  PROVE  ChatSpec => FieldsLeaveByAdding
PROOF
<1> DEFINE Inv == InductiveInvariant /\ Overwriting
<1>1. ChatInit => Inv
  <2> SUFFICES ASSUME ChatInit PROVE Overwriting
    BY InitInvariant DEF ChatInit
  <2>1. /\ backend = <<InitialDocuments>>
        /\ \A d \in Device : calls[d] = <<>> /\ queue[d] = <<>>
    BY DEF ChatInit, Init
  <2>2. backend[Latest] = InitialDocuments
    BY <2>1 DEF Latest
  <2>3. \A d \in Device : Len(calls[d]) = 0 /\ Len(queue[d]) = 0
    BY <2>1, EmptySequence
  <2>4. ASSUME NEW d \in Device
        PROVE  LineLen(d) = 0
    <3>1. Len(calls[d]) = 0 /\ Len(queue[d]) = 0
      BY <2>3
    <3> QED
      BY <3>1 DEF LineLen
  <2> QED
    BY <2>2, <2>4 DEF Overwriting, MessageFields, Server, LineWithin
<1>2. Inv /\ [ChatNext]_chatVars => Inv' /\ KeepsFields
  <2> SUFFICES ASSUME Inv, [ChatNext]_chatVars PROVE Inv' /\ KeepsFields
    OBVIOUS
  <2>1. TypeOK
    BY DEF InductiveInvariant
  <2>2. InductiveInvariant'
    BY ChatStep, NextInvariant
  <2>3. \A d \in Device : LineWithin(d, Wholes)'
    BY <2>1, MadeWhole, LineStaysWithin DEF Overwriting
  <2>4. MessageFields' /\ KeepsFields
    <3>1. CASE UNCHANGED backend
      BY <3>1 DEF Overwriting, MessageFields, KeepsFields, LosesFields, Server, Latest
    <3>2. CASE \E d \in Device : Commit(d)
      BY <2>1, <3>2, CommitFields
    <3> QED
      BY <2>1, <3>1, <3>2, ServerSteps
  <2> QED
    BY <2>2, <2>3, <2>4 DEF Overwriting, LineWithin, Wholes, IsWhole
<1>3. KeepsFields =>
        \A k \in Key : LosesFields(k) =>
          /\ \E d \in Device, u \in Candidate :
               /\ k = Member(u)
               /\ Commit(d)
               /\ NextSent(d).write = MemberDetails(u)
          /\ {"name", "colour"} \subseteq DOMAIN Server(k).data'
  BY DEF KeepsFields, TakenByAdding
<1> QED
  BY <1>1, <1>2, <1>3, PTL DEF ChatSpec, FieldsLeaveByAdding

(***************************************************************************)
(* A document that is there stays there; what was written is there.        *)
(***************************************************************************)
LEMMA DocumentStays ==
  ASSUME TypeOK, [ChatNext]_chatVars, NEW k \in Key, Exists(Server(k))
  PROVE  Exists(Server(k)')
PROOF
<1>1. CASE UNCHANGED backend
  BY <1>1 DEF Server, Latest
<1>2. ASSUME NEW d \in Device, Commit(d)
      PROVE  Exists(Server(k)')
  <2>1. PICK write : write = NextSent(d).write
    OBVIOUS
  <2>2. /\ \A j \in Key \ {write.key} : Server(j)' = Server(j)
        /\ Exists(Server(write.key)')
    BY <1>2, <2>1, CommitMakes
  <2>3. CASE k = write.key
    BY <2>2, <2>3
  <2>4. CASE k # write.key
    BY <2>2, <2>4
  <2> QED
    BY <2>3, <2>4
<1> QED
  BY <1>1, <1>2, ServerSteps

AnsweredExists(d) ==
  \A i \in 1 .. Len(responses[d]) :
    responses[d][i].ok => Exists(Server(At(d, i).write.key))

(***************************************************************************)
(* The document of an accepted write is there until it is received.        *)
(***************************************************************************)
LEMMA AnsweredExistsKept ==
  ASSUME TypeOK, [ChatNext]_chatVars, NEW d \in Device, AnsweredExists(d)
  PROVE  AnsweredExists(d)'
PROOF
<1>1. PICK There : There = {k \in Key : Exists(Server(k)')}
  OBVIOUS
<1>2. PICK W : W = {a \in Write \X BOOLEAN : a[2] => a[1].key \in There}
  OBVIOUS
<1>3. /\ \A write \in Write, ok \in BOOLEAN :
           (ok => write.key \in There) => <<write, ok>> \in W
      /\ \A write, ok : <<write, ok>> \in W => (ok => write.key \in There)
  BY <1>2
<1>4. ASSUME NEW i \in 1 .. Len(responses[d])
      PROVE  /\ At(d, i).write \in Write /\ responses[d][i].ok \in BOOLEAN
             /\ At(d, i).write.key \in Key
  <2>1. i \in 1 .. LineLen(d) /\ i \in DOMAIN responses[d]
    BY LineType
  <2>2. responses[d][i] \in Answer
    BY <2>1 DEF TypeOK
  <2> QED
    BY <2>1, <2>2, LineType, WriteAssumption DEF Answer
<1>5. \A k \in Key : Exists(Server(k)) => k \in There
  BY <1>1, DocumentStays
<1>6. AnswersWithin(d, W)
  BY <1>3, <1>4, <1>5 DEF AnswersWithin, AnsweredExists
<1>7. ASSUME Commit(d)
      PROVE  <<NextSent(d).write, TRUE>> \in W
  <2>1. PICK write : write = NextSent(d).write
    OBVIOUS
  <2>2. write \in Write /\ write.key \in Key
    BY <1>7, <2>1, NextSentIs DEF Commit
  <2>3. Exists(Server(write.key)')
    BY <1>7, <2>1, CommitMakes
  <2> QED
    BY <1>1, <1>3, <2>1, <2>2, <2>3
<1>8. ASSUME Refuse(d)
      PROVE  <<NextSent(d).write, FALSE>> \in W
  <2>1. NextSent(d).write \in Write
    BY <1>8, NextSentIs DEF Refuse
  <2> QED
    BY <1>3, <2>1
<1>9. AnswersWithin(d, W)'
  BY <1>6, <1>7, <1>8, AnswersStayWithin
<1>10. ASSUME NEW i \in 1 .. Len(responses'[d]), responses'[d][i].ok
       PROVE  Exists(Server(At(d, i).write.key)')
  <2>1. PICK key : key = At(d, i)'.write.key
    OBVIOUS
  <2>2. key \in There
    BY <1>3, <1>9, <1>10, <2>1 DEF AnswersWithin
  <2>3. Exists(Server(key)')
    BY <1>1, <2>2
  <2> QED
    BY <2>1, <2>3 DEF Server
<1> QED
  BY <1>10 DEF AnsweredExists, Exists

(***************************************************************************)
(* A write adds one user.                                                  *)
(***************************************************************************)
LEMMA AddsOne ==
  ASSUME NEW write, NEW u, Adds(write, u)
  PROVE  /\ \A v : Adds(write, v) => v = u
         /\ \/ HasParts(write, ChatDocument, "set", {"name", "colour", "users"}, {"chatLastActive"})
            \/ HasParts(write, ChatDocument, "merge", {}, {"users"})
         /\ write \in Write => u \in User
PROOF
<1>1. \A v : CreateBaseChatDocument(v).fields["users"] = {v}
  BY DEF CreateBaseChatDocument, SetData
<1>2. \A v : AddsUser(v).transforms["users"].elements = {v}
  BY DEF AddsUser, MergeData, ArrayUnion
<1>3. \A v : CreateBaseChatDocument(v).kind = "set" /\ AddsUser(v).kind = "merge"
  BY PartsAre DEF HasParts
<1>4. \A v : Adds(write, v) => v = u
  BY <1>1, <1>2, <1>3 DEF Adds
<1>5. \/ HasParts(write, ChatDocument, "set", {"name", "colour", "users"}, {"chatLastActive"})
      \/ HasParts(write, ChatDocument, "merge", {}, {"users"})
  BY PartsAre DEF Adds
<1>6. ASSUME write \in Write
      PROVE  u \in User
  <2>1. \/ HasParts(write, ChatDocument, "set", {"name", "colour", "users"}, {"chatLastActive"})
        \/ HasParts(write, ChatDocument, "merge", {}, {"users"})
    BY <1>5
  <2>2. ASSUME NEW d \in Device, NEW i \in 1 .. MaxCalls[d], write = StoresMessage(d, i)
        PROVE  FALSE
    <3>1. write.key \in Messages
      BY <2>2, PartsAre, KeysDiffer DEF HasParts
    <3> QED
      BY <2>1, <3>1, KeysDiffer DEF HasParts
  <2>3. write # ColoursChat /\ write # NotesActivity
    BY <2>1, PartsAre DEF HasParts
  <2>4. PICK v \in User : IsUserWrite(write, v)
    BY <1>6, <2>2, <2>3, WritesAre
  <2>5. /\ write # CreateChatUserCollection(v) /\ write # MemberDetails(v)
        /\ write # ColoursMember(v) /\ write # NamesMember(v) /\ write # RemovesUser(v)
    BY <2>1, PartsAre, KeysDiffer DEF HasParts
  <2> QED
    BY <1>4, <2>4, <2>5 DEF IsUserWrite, Adds
<1> QED
  BY <1>4, <1>5, <1>6

(***************************************************************************)
(* Who adds a user goes on to make his document.                           *)
(***************************************************************************)
LEMMA MadeAdds ==
  ASSUME NEW d \in Device, NEW ws, MainStep(d, ws), NEW i \in 1 .. Len(ws),
         NEW u \in User, Adds(ws[i], u)
  PROVE  i = 1 /\ Len(ws) = 2 /\ ws[2].key = Member(u)
PROOF
<1>1. \A a : Len(<<a>>) = 1 /\ \A j \in 1 .. Len(<<a>>) : <<a>>[j] = a
  OBVIOUS
<1>2. \A a, b : Len(<<a, b>>) = 2 /\ <<a, b>>[1] = a /\ <<a, b>>[2] = b
  OBVIOUS
<1>3. ASSUME NEW v \in User, NEW first, NEW second, ws = <<first, second>>, Adds(first, v),
             second.key = Member(v)
      PROVE  i = 1 /\ Len(ws) = 2 /\ ws[2].key = Member(u)
  <2>1. Len(ws) = 2 /\ ws[1] = first /\ ws[2] = second
    BY <1>2, <1>3
  <2>2. i = 1
    <3>1. ws[i].key = ChatDocument
      BY AddsParts
    <3> QED
      BY <1>3, <2>1, <3>1, KeysDiffer
  <2>3. u = v
    BY <1>3, <2>1, <2>2, AddsOne
  <2> QED
    BY <1>3, <2>1, <2>2, <2>3
<1>4. CASE ws = NewChatWrites(UserOf[d])
  <2>1. UserOf[d] \in User
    BY UserAssumption
  <2>2. CreateChatUserCollection(UserOf[d]).key = Member(UserOf[d])
    BY PartsAre DEF HasParts
  <2> QED
    BY <1>3, <1>4, <2>1, <2>2, ProgramsAre DEF Adds
<1>5. CASE \E v \in Candidate : ws = AddNewUserWrites(v)
  <2>1. PICK v \in Candidate : ws = AddNewUserWrites(v)
    BY <1>5
  <2>2. v \in User /\ MemberDetails(v).key = Member(v)
    BY PartsAre, UserAssumption DEF HasParts
  <2> QED
    BY <1>3, <2>1, <2>2, ProgramsAre DEF Adds
<1>6. ASSUME NEW write, ws = <<write>>,
             \/ write.key # ChatDocument
             \/ write.kind = "update"
             \/ DOMAIN write.transforms # {"users"} /\ write.kind # "set"
      PROVE  FALSE
  <2>1. Adds(write, u)
    BY <1>1, <1>6
  <2> QED
    BY <1>6, <2>1, AddsOne DEF HasParts
<1>7. CASE ws = UpdateChatColourWrites \/ ws = UpdateChatLastActiveTimestampWrites
  <2>1. /\ DOMAIN ColoursChat.transforms # {"users"} /\ ColoursChat.kind # "set"
        /\ DOMAIN NotesActivity.transforms # {"users"} /\ NotesActivity.kind # "set"
    BY PartsAre DEF HasParts
  <2> QED
    BY <1>6, <1>7, <2>1, ProgramsAre
<1>8. CASE \E v \in User : /\ screen[d] = Member(v)
                           /\ \/ ws = RemoveFromChatWrites(v)
                              \/ ws = UpdateUserColourWrites(v)
                              \/ ws = UpdateUserNameWrites(v)
  <2>1. PICK v \in User : \/ ws = RemoveFromChatWrites(v)
                          \/ ws = UpdateUserColourWrites(v)
                          \/ ws = UpdateUserNameWrites(v)
    BY <1>8
  <2>2. /\ RemovesUser(v).kind = "update"
        /\ ColoursMember(v).key # ChatDocument /\ NamesMember(v).key # ChatDocument
    BY PartsAre, KeysDiffer DEF HasParts
  <2> QED
    BY <1>6, <2>1, <2>2, ProgramsAre
<1>9. CASE /\ made[d] + 1 \in 1 .. MaxCalls[d]
           /\ ws = SendMessageWrites(d, made[d] + 1)
  <2>1. PICK j \in 1 .. MaxCalls[d] : ws = SendMessageWrites(d, j)
    BY <1>9
  <2>2. StoresMessage(d, j).key # ChatDocument
    BY PartsAre, KeysDiffer DEF HasParts
  <2> QED
    BY <1>6, <2>1, <2>2, ProgramsAre
<1>10. CASE ws = <<>>
  BY <1>10, EmptySequence
<1>11. \/ MakesWrites(d, ws)
       \/ ws = UpdateChatLastActiveTimestampWrites
       \/ ws = <<>>
  BY DEF MainStep, CompletionWrites
<1> QED
  BY <1>4, <1>5, <1>7, <1>8, <1>9, <1>10, <1>11 DEF MakesWrites

(***************************************************************************)
(* A member has his document, or it is in the line of a device after       *)
(* position p.                                                             *)
(***************************************************************************)
HasDocumentAfter(d, u, p) ==
  \/ Exists(Server(Member(u)))
  \/ \E q \in 1 .. LineLen(d) : p < q /\ At(d, q).write.key = Member(u)

AddsBeforeDocument(d) ==
  \A u \in User : \A p \in 1 .. LineLen(d) :
    Adds(At(d, p).write, u) => HasDocumentAfter(d, u, p)

MembersAwaited ==
  \A u \in Members :
    u \in User /\ (Exists(Server(Member(u))) \/ \E d \in Device : HasDocumentAfter(d, u, 0))

DocumentsAwaited ==
  /\ MembersAwaited
  /\ \A d \in Device : /\ AddsBeforeDocument(d)
                       /\ OnlyUpdatesFail(d)
                       /\ AnsweredExists(d)

(***************************************************************************)
(* A write that creates a document goes from the line to the server.       *)
(***************************************************************************)
LEMMA AwaitedStays ==
  ASSUME TypeOK, [ChatNext]_chatVars, NEW d \in Device, NEW u \in User,
         OnlyUpdatesFail(d), AnsweredExists(d)
  PROVE  /\ SameLine(d) => \A p \in Nat : HasDocumentAfter(d, u, p) => HasDocumentAfter(d, u, p)'
         /\ \A ws : MainStep(d, ws) /\ LineExtended(d, ws) =>
              \A p \in Nat : HasDocumentAfter(d, u, p) => HasDocumentAfter(d, u, p)'
         /\ LineTail(d) /\ Answers(d) => \A p \in Nat :
              /\ HasDocumentAfter(d, u, p + 1) => HasDocumentAfter(d, u, p)'
              /\ HasDocumentAfter(d, u, 0) => HasDocumentAfter(d, u, 0)'
PROOF
<1>1. LineLen(d) \in Nat
  BY LineType
<1>2. Exists(Server(Member(u))) => \A p \in Nat : HasDocumentAfter(d, u, p)'
  BY DocumentStays, KeysDiffer DEF HasDocumentAfter, Exists
<1>3. ASSUME SameLine(d), NEW p \in Nat, HasDocumentAfter(d, u, p)
      PROVE  HasDocumentAfter(d, u, p)'
  BY <1>2, <1>3 DEF HasDocumentAfter, SameLine
<1>4. ASSUME NEW ws, MainStep(d, ws), LineExtended(d, ws), NEW p \in Nat, HasDocumentAfter(d, u, p)
      PROVE  HasDocumentAfter(d, u, p)'
  <2>1. Len(ws) \in Nat
    BY <1>4 DEF MainStep
  <2>2. \A q \in 1 .. LineLen(d) : q \in 1 .. LineLen(d) + Len(ws)
    BY <1>1, <2>1
  <2> QED
    BY <1>2, <1>4, <2>2 DEF HasDocumentAfter, LineExtended
<1>5. ASSUME LineTail(d), NEW p \in Nat, NEW q \in 1 .. LineLen(d), p + 1 < q,
             At(d, q).write.key = Member(u)
      PROVE  HasDocumentAfter(d, u, p)'
  <2>1. q - 1 \in 1 .. LineLen(d) - 1 /\ p < q - 1 /\ (q - 1) + 1 = q
    BY <1>1, <1>5
  <2>2. PICK r \in 1 .. LineLen(d) - 1 : r = q - 1
    BY <2>1
  <2>3. At(d, r)'.write.key = Member(u) /\ p < r
    BY <1>5, <2>1, <2>2 DEF LineTail
  <2> QED
    BY <1>5, <2>3 DEF LineTail, HasDocumentAfter
<1>6. ASSUME LineTail(d), Answers(d), At(d, 1).write.key = Member(u)
      PROVE  Exists(Server(Member(u)))
  <2>1. responses[d] # <<>>
    BY <1>6 DEF Answers, AcknowledgeBatch, RejectBatch
  <2>2. Len(responses[d]) >= 1 /\ 1 \in 1 .. Len(responses[d]) /\ 1 \in 1 .. LineLen(d)
    <3>1. responses[d] \in Seq(Answer)
      BY DEF TypeOK
    <3>2. Len(responses[d]) >= 1
      BY <2>1, <3>1, TailFacts
    <3> QED
      BY <3>2, LineType
  <2>3. At(d, 1).write.kind # "update"
    <3>1. At(d, 1).write \in Write
      BY <2>2, LineType
    <3> QED
      BY <1>6, <3>1, WriteParts, KeysDiffer
  <2> QED
    BY <1>6, <2>2, <2>3 DEF OnlyUpdatesFail, AnsweredExists
<1>7. ASSUME LineTail(d), Answers(d), NEW p \in Nat, HasDocumentAfter(d, u, p + 1)
      PROVE  HasDocumentAfter(d, u, p)'
  BY <1>2, <1>5, <1>7 DEF HasDocumentAfter
<1>8. ASSUME LineTail(d), Answers(d), HasDocumentAfter(d, u, 0)
      PROVE  HasDocumentAfter(d, u, 0)'
  <2>1. CASE Exists(Server(Member(u)))
    BY <1>2, <2>1
  <2>2. CASE \E q \in 1 .. LineLen(d) : 0 < q /\ At(d, q).write.key = Member(u)
    <3>1. PICK q \in 1 .. LineLen(d) : At(d, q).write.key = Member(u)
      BY <2>2
    <3>2. CASE q = 1
      BY <1>2, <1>6, <1>8, <3>1, <3>2
    <3>3. CASE q # 1
      <4>1. 0 + 1 < q
        BY <1>1, <3>3
      <4> QED
        BY <1>5, <1>8, <3>1, <4>1
    <3> QED
      BY <3>2, <3>3
  <2> QED
    BY <1>8, <2>1, <2>2 DEF HasDocumentAfter
<1> QED
  BY <1>3, <1>4, <1>7, <1>8

(***************************************************************************)
(* In the line, an addition stays before the document it announces.        *)
(***************************************************************************)
LEMMA AddsBeforeDocumentKept ==
  ASSUME TypeOK, [ChatNext]_chatVars, MaxFaults["kill"] = 0, NEW d \in Device,
         OnlyUpdatesFail(d), AnsweredExists(d), AddsBeforeDocument(d)
  PROVE  AddsBeforeDocument(d)'
PROOF
<1>1. LineLen(d) \in Nat
  BY LineType
<1>2. CASE SameLine(d)
  <2>1. ASSUME NEW u \in User, NEW p \in 1 .. LineLen(d), Adds(At(d, p)'.write, u)
        PROVE  HasDocumentAfter(d, u, p)'
    <3>1. HasDocumentAfter(d, u, p) /\ p \in Nat
      BY <1>2, <2>1 DEF SameLine, AddsBeforeDocument
    <3> QED
      BY <1>2, <3>1, AwaitedStays
  <2> QED
    BY <1>2, <2>1 DEF SameLine, AddsBeforeDocument, Adds
<1>3. ASSUME LineTail(d), Answers(d)
      PROVE  AddsBeforeDocument(d)'
  <2>1. ASSUME NEW u \in User, NEW p \in 1 .. LineLen(d) - 1, Adds(At(d, p)'.write, u)
        PROVE  HasDocumentAfter(d, u, p)'
    <3>1. p \in Nat /\ p + 1 \in 1 .. LineLen(d)
      BY <1>1
    <3>2. At(d, p)' = At(d, p + 1)
      BY <1>3 DEF LineTail
    <3>3. HasDocumentAfter(d, u, p + 1)
      BY <2>1, <3>1, <3>2 DEF AddsBeforeDocument
    <3> QED
      BY <1>3, <3>1, <3>3, AwaitedStays
  <2> QED
    BY <1>3, <2>1 DEF LineTail, AddsBeforeDocument, Adds
<1>4. ASSUME NEW ws, MainStep(d, ws), LineExtended(d, ws)
      PROVE  AddsBeforeDocument(d)'
  <2>1. Len(ws) \in Nat /\ LineLen(d)' = LineLen(d) + Len(ws)
    BY <1>4 DEF MainStep, LineExtended
  <2>2. ASSUME NEW u \in User, NEW p \in 1 .. LineLen(d), Adds(At(d, p)'.write, u)
        PROVE  HasDocumentAfter(d, u, p)'
    <3>1. HasDocumentAfter(d, u, p) /\ p \in Nat
      BY <1>4, <2>2 DEF LineExtended, AddsBeforeDocument
    <3> QED
      BY <1>4, <3>1, AwaitedStays
  <2>3. ASSUME NEW u \in User, NEW i \in 1 .. Len(ws), NEW p \in Nat, p = LineLen(d) + i,
               Adds(At(d, p)'.write, u)
        PROVE  HasDocumentAfter(d, u, p)'
    <3>1. At(d, p)'.write = ws[i]
      BY <1>4, <2>3 DEF LineExtended
    <3>2. i = 1 /\ Len(ws) = 2 /\ ws[2].key = Member(u)
      BY <1>4, <2>3, <3>1, MadeAdds
    <3>3. PICK q \in Nat : q = LineLen(d) + 2
      BY <1>1
    <3>4. At(d, q)'.write = ws[2]
      BY <1>4, <3>2, <3>3 DEF LineExtended
    <3>5. q \in 1 .. LineLen(d) + Len(ws) /\ p < q
      BY <1>1, <2>3, <3>2, <3>3
    <3> QED
      BY <2>1, <3>2, <3>4, <3>5 DEF HasDocumentAfter
  <2>4. ASSUME NEW u \in User, NEW p \in 1 .. LineLen(d) + Len(ws), Adds(At(d, p)'.write, u)
        PROVE  HasDocumentAfter(d, u, p)'
    <3>1. CASE p \in 1 .. LineLen(d)
      BY <2>2, <2>4, <3>1
    <3>2. CASE p \notin 1 .. LineLen(d)
      <4>1. p \in Nat /\ p - LineLen(d) \in 1 .. Len(ws) /\ p = LineLen(d) + (p - LineLen(d))
        BY <1>1, <2>1, <3>2
      <4>2. PICK i \in 1 .. Len(ws) : p = LineLen(d) + i
        BY <4>1
      <4> QED
        BY <2>3, <2>4, <4>1, <4>2
    <3> QED
      BY <3>1, <3>2
  <2> QED
    BY <2>1, <2>4 DEF AddsBeforeDocument, Adds
<1>5. ~Restart(d)
  BY NobodyKilled
<1> QED
  BY <1>2, <1>3, <1>4, <1>5, DeviceSteps DEF Answers

(***************************************************************************)
(* Whoever is a user of the chat has his document, or it is in a line.     *)
(***************************************************************************)
LEMMA MembersAwaitedKept ==
  ASSUME TypeOK, [ChatNext]_chatVars, MaxFaults["kill"] = 0, DocumentsAwaited
  PROVE  MembersAwaited'
PROOF
<1>1. ASSUME NEW u \in User, Exists(Server(Member(u))) \/ \E d \in Device : HasDocumentAfter(d, u, 0)
      PROVE  Exists(Server(Member(u))') \/ \E d \in Device : HasDocumentAfter(d, u, 0)'
  <2>1. CASE Exists(Server(Member(u)))
    BY <2>1, DocumentStays, KeysDiffer
  <2>2. ASSUME NEW d \in Device, HasDocumentAfter(d, u, 0)
        PROVE  HasDocumentAfter(d, u, 0)'
    <3>1. OnlyUpdatesFail(d) /\ AnsweredExists(d) /\ LineLen(d) \in Nat
      BY LineType DEF DocumentsAwaited
    <3>2. CASE SameLine(d)
      BY <2>2, <3>1, <3>2, AwaitedStays
    <3>3. CASE \E ws : MainStep(d, ws) /\ LineExtended(d, ws)
      BY <2>2, <3>1, <3>3, AwaitedStays
    <3>4. CASE LineTail(d) /\ Answers(d)
      BY <2>2, <3>1, <3>4, AwaitedStays
    <3> QED
      BY <3>2, <3>3, <3>4, NobodyKilled, DeviceSteps DEF Answers
  <2> QED
    BY <1>1, <2>1, <2>2
<1>2. CASE UNCHANGED backend
  <2>1. Members' = Members
    BY <1>2 DEF Members, Server, Latest
  <2> QED
    BY <1>1, <2>1 DEF MembersAwaited, DocumentsAwaited, Exists
<1>3. ASSUME NEW d \in Device, Commit(d)
      PROVE  MembersAwaited'
  <2>1. PICK write : write = NextSent(d).write
    OBVIOUS
  <2>2. PICK p \in Nat : p = Len(responses[d]) + 1
    BY LineType
  <2>3. write = At(d, p).write /\ p \in 1 .. LineLen(d) /\ write \in Write
    <3>1. CanSend(d)
      BY <1>3 DEF Commit
    <3> QED
      BY <2>1, <2>2, <3>1, NextSentIs, LineType
  <2>4. SameLine(d)
    BY <1>3, LineUntouched DEF Commit
  <2>5. ASSUME NEW u \in Members'
        PROVE  u \in Members \/ (write.key = ChatDocument /\ Adds(write, u))
    <3>1. CASE write.key # ChatDocument
      <4>1. Server(ChatDocument)' = Server(ChatDocument)
        BY <1>3, <2>1, <3>1, CommitMakes, KeysDiffer
      <4> QED
        BY <4>1 DEF Members
    <3>2. CASE write.key = ChatDocument
      <4>1. Server(ChatDocument)'.data
               = NewData(write, Server(ChatDocument).data, CommitTime(Latest + 1))
        <5>1. Server(write.key)'.data
               = NewData(write, Server(write.key).data, CommitTime(Latest + 1))
          BY <1>3, <2>1, CommitMakes
        <5> QED
          BY <3>2, <5>1
      <4> QED
        BY <2>3, <3>2, <4>1, NewUsers DEF Members
    <3> QED
      BY <3>1, <3>2
  <2>6. ASSUME NEW u \in User, Adds(write, u)
        PROVE  HasDocumentAfter(d, u, 0)'
    <3>1. HasDocumentAfter(d, u, p)
      BY <2>3, <2>6 DEF DocumentsAwaited, AddsBeforeDocument
    <3>2. HasDocumentAfter(d, u, p)'
      BY <2>4, <3>1, AwaitedStays DEF DocumentsAwaited
    <3> QED
      BY <3>2 DEF HasDocumentAfter, Exists
  <2>7. ASSUME NEW u \in Members'
        PROVE  /\ u \in User
               /\ Exists(Server(Member(u))') \/ \E e \in Device : HasDocumentAfter(e, u, 0)'
    <3>1. CASE u \in Members
      <4>1. u \in User /\ (Exists(Server(Member(u))) \/ \E e \in Device : HasDocumentAfter(e, u, 0))
        BY <3>1 DEF DocumentsAwaited, MembersAwaited
      <4> QED
        BY <1>1, <4>1
    <3>2. CASE write.key = ChatDocument /\ Adds(write, u)
      <4>1. u \in User
        BY <2>3, <3>2, AddsOne
      <4> QED
        BY <2>6, <3>2, <4>1
    <3> QED
      BY <2>5, <3>1, <3>2
  <2> QED
    BY <2>7 DEF MembersAwaited, Exists
<1> QED
  BY <1>2, <1>3, ServerSteps

(***************************************************************************)
(* When nothing is on its way, everyone in the users array of the chat has *)
(* the member document that GroupMembersViewController lists. No app is    *)
(* killed and no valid write refused: either takes one of the two writes   *)
(* of an addition and leaves the other.                                    *)
(***************************************************************************)
THEOREM QuietMembersHaveDocuments ==
  ASSUME MaxFaults["kill"] = 0, MaxFaults["refuse"] = 0,
         \A u \in PreviousArray(InitialDocuments[ChatDocument].data, "users") :
           u \in User /\ Exists(InitialDocuments[Member(u)])
  PROVE  ChatSpec => []MembersHaveDocuments
PROOF
<1> DEFINE Inv == InductiveInvariant /\ DocumentsAwaited
<1>1. ChatInit => Inv
  <2> SUFFICES ASSUME ChatInit PROVE DocumentsAwaited
    BY InitInvariant DEF ChatInit
  <2>1. /\ backend = <<InitialDocuments>>
        /\ \A d \in Device : calls[d] = <<>> /\ queue[d] = <<>> /\ responses[d] = <<>>
    BY DEF ChatInit, Init
  <2>2. backend[Latest] = InitialDocuments
    BY <2>1 DEF Latest
  <2>3. ASSUME NEW d \in Device
        PROVE  LineLen(d) = 0 /\ Len(responses[d]) = 0
    <3>1. Len(calls[d]) = 0 /\ Len(queue[d]) = 0 /\ Len(responses[d]) = 0
      BY <2>1, EmptySequence
    <3> QED
      BY <3>1 DEF LineLen
  <2>4. MembersAwaited
    BY <2>2 DEF MembersAwaited, Members, Server
  <2> QED
    BY <2>3, <2>4 DEF DocumentsAwaited, AddsBeforeDocument, OnlyUpdatesFail, AnsweredExists
<1>2. Inv /\ [ChatNext]_chatVars => Inv'
  <2> SUFFICES ASSUME Inv, [ChatNext]_chatVars PROVE Inv'
    OBVIOUS
  <2>1. TypeOK
    BY DEF InductiveInvariant
  <2>2. InductiveInvariant'
    BY ChatStep, NextInvariant
  <2>3. MembersAwaited'
    BY <2>1, MembersAwaitedKept
  <2>4. ASSUME NEW d \in Device
        PROVE  AddsBeforeDocument(d)' /\ OnlyUpdatesFail(d)' /\ AnsweredExists(d)'
    BY <2>1, AddsBeforeDocumentKept, OnlyUpdatesFailKept, AnsweredExistsKept DEF DocumentsAwaited
  <2> QED
    BY <2>2, <2>3, <2>4 DEF DocumentsAwaited
<1>3. Inv => MembersHaveDocuments
  <2> SUFFICES ASSUME Inv, \A d \in Device : Quiet(d), NEW u \in Members
               PROVE  Exists(Server(Member(u)))
    BY DEF MembersHaveDocuments
  <2>1. ASSUME NEW d \in Device
        PROVE  LineLen(d) = 0
    <3>1. Len(calls[d]) = 0 /\ Len(queue[d]) = 0
      BY EmptySequence DEF Quiet
    <3> QED
      BY <3>1 DEF LineLen
  <2> QED
    BY <2>1 DEF DocumentsAwaited, MembersAwaited, HasDocumentAfter
<1> QED
  BY <1>1, <1>2, <1>3, PTL DEF ChatSpec

(***************************************************************************)
(* The numbers along the line of a device ascend; the writes the worker    *)
(* queue has yet to take come after all that the server knows of.          *)
(***************************************************************************)
LEMMA LineNumbers ==
  ASSUME TypeOK, NEW d \in Device, NumberedOn(d)
  PROVE  /\ made[d] \in Nat /\ made[d] <= MaxCalls[d]
         /\ Len(calls[d]) \in Nat /\ Len(calls[d]) <= made[d]
         /\ \A p \in 1 .. LineLen(d) :
              At(d, p).n \in Nat /\ 1 <= At(d, p).n /\ At(d, p).n <= made[d]
         /\ \A p \in 1 .. LineLen(d) : p > Len(queue[d]) =>
              At(d, p).n > made[d] - Len(calls[d])
         /\ \A p, q \in 1 .. LineLen(d) : p < q => At(d, p).n < At(d, q).n
         /\ \A i \in DOMAIN log : log[i][1] = d =>
              log[i][2] \in Nat /\ log[i][2] <= made[d] - Len(calls[d])
PROOF
<1>1. PICK a \in Nat, c \in Nat, m \in Nat :
        /\ a = Len(queue[d]) /\ c = Len(calls[d]) /\ m = made[d]
        /\ LineLen(d) = a + c
  BY LineType DEF LineLen, TypeOK
<1>2. DOMAIN queue[d] = 1 .. a /\ DOMAIN calls[d] = 1 .. c
  BY <1>1, LineType
<1>3. c <= m /\ m <= MaxCalls[d]
  BY <1>1 DEF NumberedOn
<1>4. ASSUME NEW p \in 1 .. a
      PROVE  /\ At(d, p) = queue[d][p] /\ queue[d][p].n \in Nat
             /\ 1 <= queue[d][p].n /\ queue[d][p].n <= m - c
  <2>1. At(d, p) = queue[d][p]
    BY <1>1 DEF At
  <2>2. PICK n \in Nat : n = queue[d][p].n
    <3>1. queue[d] \in Seq(Batch)
      BY LineType
    <3>2. queue[d][p] \in Batch
      BY <1>1, <3>1
    <3> QED
      BY <3>2 DEF Batch
  <2>3. n >= 1 /\ n + c <= m
    BY <1>1, <1>2, <2>2 DEF NumberedOn
  <2>4. 1 <= n /\ n <= m - c
    BY <2>3
  <2> QED
    BY <2>1, <2>2, <2>4
<1>5. ASSUME NEW p \in 1 .. a + c, p > a
      PROVE  At(d, p).n = m - c + (p - a)
  <2>1. PICK i \in 1 .. c : i = p - a
    BY <1>5
  <2>2. ~(p <= a)
    BY <1>5
  <2>3. At(d, p) = calls[d][i]
    BY <1>1, <2>1, <2>2 DEF At
  <2>4. calls[d][i].n = m - c + i
    BY <1>1, <1>2 DEF NumberedOn
  <2> QED
    BY <2>1, <2>3, <2>4
<1>6. ASSUME NEW p \in 1 .. a + c
      PROVE  At(d, p).n \in Nat /\ 1 <= At(d, p).n /\ At(d, p).n <= m
  <2>1. CASE p \in 1 .. a
    BY <1>3, <1>4, <2>1
  <2>2. CASE p > a
    BY <1>3, <1>5, <2>2
  <2> QED
    BY <2>1, <2>2
<1>7. ASSUME NEW p \in 1 .. a + c, p > a
      PROVE  At(d, p).n > m - c
  BY <1>5, <1>7
<1>8. ASSUME NEW p \in 1 .. a + c, NEW q \in 1 .. a + c, p < q
      PROVE  At(d, p).n < At(d, q).n
  <2>1. CASE q \in 1 .. a
    <3>1. p \in 1 .. a /\ p \in 1 .. q - 1 /\ q \in DOMAIN queue[d]
      BY <1>2, <1>8, <2>1
    <3>2. queue[d][p].n < queue[d][q].n
      BY <3>1 DEF NumberedOn
    <3> QED
      BY <1>4, <2>1, <3>1, <3>2
  <2>2. CASE q > a /\ p \in 1 .. a
    BY <1>3, <1>4, <1>6, <1>7, <2>2
  <2>3. CASE q > a /\ p > a
    BY <1>5, <1>8, <2>3
  <2> QED
    BY <1>8, <2>1, <2>2, <2>3
<1>9. ASSUME NEW i \in DOMAIN log, log[i][1] = d
      PROVE  log[i][2] \in Nat /\ log[i][2] <= m - c
  <2>1. log \in Seq(Device \X Nat)
    BY DEF TypeOK
  <2>2. log[i] \in Device \X Nat
    BY <2>1
  <2>3. PICK n \in Nat : n = log[i][2]
    BY <2>2
  <2>4. n + c <= m
    BY <1>1, <1>9, <2>3 DEF NumberedOn
  <2>5. n <= m - c
    BY <2>4
  <2> QED
    BY <2>3, <2>5
<1> QED
  BY <1>1, <1>3, <1>6, <1>7, <1>8, <1>9

(***************************************************************************)
(* A message is only made by sendMessage, with the number of its write.    *)
(***************************************************************************)
LEMMA MadeMessages ==
  ASSUME NEW d \in Device, NEW ws, MainStep(d, ws), NEW i \in 1 .. Len(ws),
         ws[i].key \in Messages
  PROVE  /\ ws = SendMessageWrites(d, made[d] + 1) /\ i = 1 /\ Len(ws) = 1
         /\ ws[i].key = Message(d, made[d] + 1)
         /\ made[d] + 1 \in 1 .. MaxCalls[d]
PROOF
<1>1. \A a : Len(<<a>>) = 1 /\ \A j \in 1 .. Len(<<a>>) : j = 1 /\ <<a>>[j] = a
  OBVIOUS
<1>2. \A a, b : \A j \in 1 .. Len(<<a, b>>) : \/ <<a, b>>[j] = a
                                              \/ <<a, b>>[j] = b
  OBVIOUS
<1>3. ASSUME NEW u \in User, IsUserWrite(ws[i], u)
      PROVE  FALSE
  <2>1. ws[i].key = ChatDocument \/ ws[i].key = Member(u)
    BY <1>3, PartsAre DEF IsUserWrite, HasParts
  <2> QED
    BY <2>1, KeysDiffer
<1>4. CASE ws = NewChatWrites(UserOf[d])
  <2>1. UserOf[d] \in User
    BY UserAssumption
  <2>2. ws[i] = CreateBaseChatDocument(UserOf[d]) \/ ws[i] = CreateChatUserCollection(UserOf[d])
    BY <1>2, <1>4, ProgramsAre
  <2> QED
    BY <1>3, <2>1, <2>2 DEF IsUserWrite
<1>5. CASE \E v \in Candidate : ws = AddNewUserWrites(v)
  <2>1. PICK v \in Candidate : ws = AddNewUserWrites(v)
    BY <1>5
  <2>2. v \in User
    BY UserAssumption
  <2>3. ws[i] = AddsUser(v) \/ ws[i] = MemberDetails(v)
    BY <1>2, <2>1, ProgramsAre
  <2> QED
    BY <1>3, <2>2, <2>3 DEF IsUserWrite
<1>6. CASE ws = UpdateChatColourWrites \/ ws = UpdateChatLastActiveTimestampWrites
  <2>1. ColoursChat.key = ChatDocument /\ NotesActivity.key = ChatDocument
    BY PartsAre DEF HasParts
  <2>2. ws[i] = ColoursChat \/ ws[i] = NotesActivity
    BY <1>1, <1>6, ProgramsAre
  <2> QED
    BY <2>1, <2>2, KeysDiffer
<1>7. CASE \E v \in User : /\ screen[d] = Member(v)
                           /\ \/ ws = RemoveFromChatWrites(v)
                              \/ ws = UpdateUserColourWrites(v)
                              \/ ws = UpdateUserNameWrites(v)
  <2>1. PICK v \in User : \/ ws = RemoveFromChatWrites(v)
                          \/ ws = UpdateUserColourWrites(v)
                          \/ ws = UpdateUserNameWrites(v)
    BY <1>7
  <2>2. ws[i] \in {RemovesUser(v), ColoursMember(v), NamesMember(v)}
    BY <1>1, <2>1, ProgramsAre
  <2> QED
    BY <1>3, <2>2 DEF IsUserWrite
<1>8. CASE /\ made[d] + 1 \in 1 .. MaxCalls[d]
           /\ ws = SendMessageWrites(d, made[d] + 1)
  <2>1. PICK j \in 1 .. MaxCalls[d] : j = made[d] + 1
    BY <1>8
  <2>2. ws = <<StoresMessage(d, j)>> /\ StoresMessage(d, j).key = Message(d, j)
    BY <1>8, <2>1, ProgramsAre, PartsAre DEF HasParts
  <2>3. i = 1 /\ Len(ws) = 1 /\ ws[i] = StoresMessage(d, j)
    BY <1>1, <2>2
  <2> QED
    BY <1>8, <2>1, <2>2, <2>3
<1>9. CASE ws = <<>>
  BY <1>9, EmptySequence
<1>10. \/ MakesWrites(d, ws)
       \/ ws = UpdateChatLastActiveTimestampWrites
       \/ ws = <<>>
  BY DEF MainStep, CompletionWrites
<1> QED
  BY <1>4, <1>5, <1>6, <1>7, <1>8, <1>9, <1>10 DEF MakesWrites

(***************************************************************************)
(* All batches in the line of a device are in a set.                       *)
(***************************************************************************)
BatchesWithin(d, B) ==
  \A p \in 1 .. LineLen(d) : <<At(d, p).n, At(d, p).write>> \in B

(***************************************************************************)
(* They stay so when those made are in it.                                 *)
(***************************************************************************)
LEMMA BatchesStayWithin ==
  ASSUME TypeOK, [ChatNext]_chatVars, NEW d \in Device, NEW B, BatchesWithin(d, B),
         \A ws : MainStep(d, ws) =>
           \A i \in 1 .. Len(ws) : <<made[d] + i, ws[i]>> \in B
  PROVE  BatchesWithin(d, B)'
PROOF
<1>1. /\ LineLen(d) \in Nat /\ Len(queue[d]) \in Nat /\ Len(queue[d]) <= LineLen(d)
  BY LineType
<1>2. CASE SameLine(d)
  BY <1>2 DEF SameLine, BatchesWithin
<1>3. CASE LineTail(d)
  <2>1. ASSUME NEW p \in 1 .. LineLen(d) - 1
        PROVE  <<At(d, p)'.n, At(d, p)'.write>> \in B
    <3>1. p + 1 \in 1 .. LineLen(d)
      BY <1>1
    <3> QED
      BY <1>3, <3>1 DEF LineTail, BatchesWithin
  <2> QED
    BY <1>3, <2>1 DEF LineTail, BatchesWithin
<1>4. CASE LineCut(d)
  <2>1. ASSUME NEW p \in 1 .. Len(queue[d])
        PROVE  <<At(d, p)'.n, At(d, p)'.write>> \in B
    <3>1. p \in 1 .. LineLen(d)
      BY <1>1
    <3>2. <<At(d, p).n, At(d, p).write>> \in B
      BY <3>1 DEF BatchesWithin
    <3>3. At(d, p)'.n = At(d, p).n /\ At(d, p)'.write = At(d, p).write
      BY <1>4 DEF LineCut
    <3> QED
      BY <1>4, <3>2, <3>3
  <2> QED
    BY <1>4, <2>1 DEF LineCut, BatchesWithin
<1>5. ASSUME NEW ws, MainStep(d, ws), LineExtended(d, ws)
      PROVE  BatchesWithin(d, B)'
  <2>1. Len(ws) \in Nat
    BY <1>5 DEF MainStep
  <2>2. ASSUME NEW p \in 1 .. LineLen(d) + Len(ws)
        PROVE  <<At(d, p)'.n, At(d, p)'.write>> \in B
    <3>1. CASE p \in 1 .. LineLen(d)
      BY <1>5, <3>1 DEF LineExtended, BatchesWithin
    <3>2. CASE p \notin 1 .. LineLen(d)
      <4>1. PICK i \in 1 .. Len(ws) : p = LineLen(d) + i
        <5>1. p - LineLen(d) \in 1 .. Len(ws) /\ p = LineLen(d) + (p - LineLen(d))
          BY <1>1, <2>1, <3>2
        <5> QED
          BY <5>1
      <4>2. p \in Nat
        BY <1>1
      <4>3. At(d, p)'.write = ws[i] /\ At(d, p)'.n = made[d] + i
        BY <1>5, <4>1, <4>2 DEF LineExtended
      <4> QED
        BY <1>5, <4>3
    <3> QED
      BY <3>1, <3>2
  <2> QED
    BY <1>5, <2>2 DEF LineExtended, BatchesWithin
<1> QED
  BY <1>2, <1>3, <1>4, <1>5, DeviceSteps

(***************************************************************************)
(* A device has only its own messages in its line, each with its number.   *)
(***************************************************************************)
OwnBatches(d) ==
  {b \in Nat \X Write :
     \A e \in Device : \A i \in 1 .. MaxCalls[e] :
       b[2].key = Message(e, i) => e = d /\ i = b[1]}

(***************************************************************************)
(* A step leaves only own messages, each under its own number, in the      *)
(* line.                                                                   *)
(***************************************************************************)
LEMMA OwnBatchesKept ==
  ASSUME TypeOK, [ChatNext]_chatVars, NEW d \in Device,
         BatchesWithin(d, OwnBatches(d))
  PROVE  BatchesWithin(d, OwnBatches(d))'
PROOF
<1>1. PICK B : B = OwnBatches(d)
  OBVIOUS
<1>2. ASSUME NEW ws, MainStep(d, ws), NEW i \in 1 .. Len(ws)
      PROVE  <<made[d] + i, ws[i]>> \in B
  <2>1. PICK n \in Nat : n = made[d]
    BY DEF TypeOK
  <2>2. ws[i] \in Write /\ i \in Nat
    BY <1>2 DEF MainStep
  <2>3. ASSUME NEW e \in Device, NEW j \in 1 .. MaxCalls[e], ws[i].key = Message(e, j)
        PROVE  e = d /\ j = n + i
    <3>1. ws[i].key \in Messages
      BY <2>3, KeysDiffer
    <3>2. i = 1 /\ ws[i].key = Message(d, n + 1)
      BY <1>2, <2>1, <3>1, MadeMessages
    <3> QED
      BY <2>3, <3>2, KeysDiffer
  <2>4. <<n + i, ws[i]>> \in Nat \X Write
    BY <2>1, <2>2
  <2>5. <<n + i, ws[i]>> \in OwnBatches(d)
    BY <2>3, <2>4 DEF OwnBatches
  <2> QED
    BY <1>1, <2>1, <2>5
<1>3. BatchesWithin(d, B)'
  BY <1>1, <1>2, BatchesStayWithin
<1> QED
  BY <1>1, <1>3 DEF BatchesWithin, OwnBatches

(***************************************************************************)
(* What it says of a batch of the line.                                    *)
(***************************************************************************)
LEMMA OwnMessage ==
  ASSUME NEW d \in Device, BatchesWithin(d, OwnBatches(d)),
         NEW p \in 1 .. LineLen(d), NEW e \in Device, NEW i \in 1 .. MaxCalls[e],
         At(d, p).write.key = Message(e, i)
  PROVE  e = d /\ i = At(d, p).n
PROOF
<1>1. <<At(d, p).n, At(d, p).write>> \in OwnBatches(d)
  BY DEF BatchesWithin
<1> QED
  BY <1>1 DEF OwnBatches

(***************************************************************************)
(* The messages of the server: each is in the log and has the time of a    *)
(* commit.                                                                 *)
(***************************************************************************)
IsLogged(d, i) == <<d, i>> \in Range(log)

MessagesLogged ==
  \A d \in Device : \A i \in 1 .. MaxCalls[d] :
    Exists(Server(Message(d, i))) => IsLogged(d, i)

MessagesTimed ==
  \A m \in Messages :
    Exists(Server(m)) => \E v \in 1 .. Latest : Time(m) = CommitTime(v)

MessagesStored ==
  /\ MessagesLogged
  /\ MessagesTimed
  /\ \A d \in Device : BatchesWithin(d, OwnBatches(d)) /\ OnlyUpdatesFail(d)

(***************************************************************************)
(* What a commit does to the messages: the one it stores, if it stores     *)
(* one, gets a time that is later than all others.                         *)
(***************************************************************************)
StoresNow(d, m) ==
  /\ Commit(d)
  /\ At(d, Len(responses[d]) + 1).write.key = m
  /\ Exists(Server(m)')
  /\ Latest' = Latest + 1
  /\ Time(m)' = CommitTime(Latest + 1)

(***************************************************************************)
(* The time of a message is the server's, at the commit.                   *)
(***************************************************************************)
LEMMA StoresMessageData ==
  ASSUME NEW e, NEW i, NEW data, NEW now
  PROVE  NewData(StoresMessage(e, i), data, now)["time"] = now
PROOF
<1> DEFINE write == StoresMessage(e, i)
<1>1. FieldsAre(NewData(write, data, now), write, data, now)
  BY NewDataFields
<1>2. "time" \in DOMAIN write.transforms /\ write.transforms["time"].op = "stamp"
  BY DEF StoresMessage, SetData, ServerTimestamp
<1>3. Transformed(write.transforms["time"],
                  PreviousArray(PatchDocument(write, data), "time"), now) = now
  BY <1>2 DEF Transformed
<1> QED
  BY <1>1, <1>2, <1>3 DEF FieldsAre

(***************************************************************************)
(* A commit stores the message its write is of, or leaves it alone.        *)
(***************************************************************************)
LEMMA CommitStores ==
  ASSUME TypeOK, MessagesTimed, NEW d \in Device, Commit(d), NEW m \in Messages
  PROVE  \/ /\ At(d, Len(responses[d]) + 1).write.key # m
            /\ Server(m)' = Server(m)
         \/ StoresNow(d, m)
PROOF
<1>1. PICK write : write = NextSent(d).write
  OBVIOUS
<1>2. /\ write = At(d, Len(responses[d]) + 1).write
      /\ write \in Write /\ m \in Key
  BY <1>1, NextSentIs, KeysDiffer DEF Commit
<1>3. CASE write.key # m
  BY <1>1, <1>2, <1>3, CommitMakes
<1>4. CASE write.key = m
  <2>1. PICK e \in Device : \E i \in 1 .. MaxCalls[e] : m = Message(e, i)
    BY KeysDiffer
  <2>1a. PICK i \in 1 .. MaxCalls[e] : m = Message(e, i)
    BY <2>1
  <2>2. write = StoresMessage(e, i)
    BY <1>2, <1>4, <2>1a, WriteParts
  <2>3. /\ Exists(Server(m)')
        /\ Server(m)'.data = NewData(write, Server(m).data, CommitTime(Latest + 1))
        /\ Server(m)' # Server(m) => Latest' = Latest + 1
    BY <1>1, <1>4, CommitMakes
  <2>4. Server(m)'.data["time"] = CommitTime(Latest + 1)
    BY <2>2, <2>3, StoresMessageData
  <2>5. Latest \in Nat
    BY DEF TypeOK, Latest
  <2>6. Server(m)' # Server(m)
    <3>1. SUFFICES ASSUME Server(m)' = Server(m) PROVE FALSE
      OBVIOUS
    <3>2. Exists(Server(m)) /\ Time(m) = CommitTime(Latest + 1)
      BY <2>3, <2>4, <3>1 DEF Time
    <3>3. PICK v \in 1 .. Latest : CommitTime(v) = CommitTime(Latest + 1)
      BY <3>2 DEF MessagesTimed
    <3>4. v = Latest + 1
      BY <3>3 DEF CommitTime
    <3> QED
      BY <2>5, <3>4
  <2>7. Time(m)' = CommitTime(Latest + 1)
    BY <2>4 DEF Time
  <2> QED
    BY <1>2, <1>4, <2>3, <2>6, <2>7 DEF StoresNow
<1> QED
  BY <1>2, <1>3, <1>4

(***************************************************************************)
(* The same of any step.                                                   *)
(***************************************************************************)
LEMMA MessageSteps ==
  ASSUME TypeOK, MessagesTimed, [ChatNext]_chatVars, NEW m \in Messages
  PROVE  /\ Latest \in Nat /\ Latest' \in Nat /\ Latest' >= Latest
         /\ \/ Server(m)' = Server(m) /\ Time(m)' = Time(m)
            \/ \E d \in Device : StoresNow(d, m)
PROOF
<1>1. Latest \in Nat /\ Latest' \in Nat /\ Latest' >= Latest
  BY ServerSteps DEF HistoryKept, TypeOK, Latest
<1>2. CASE UNCHANGED backend
  BY <1>1, <1>2 DEF Server, Time, Latest
<1>3. ASSUME NEW d \in Device, Commit(d)
      PROVE  \/ Server(m)' = Server(m) /\ Time(m)' = Time(m)
             \/ StoresNow(d, m)
  <2>1. CASE Server(m)' = Server(m)
    BY <2>1 DEF Time
  <2> QED
    BY <1>3, <2>1, CommitStores
<1> QED
  BY <1>1, <1>2, <1>3, ServerSteps

(***************************************************************************)
(* Every step keeps what is known of the stored messages.                  *)
(***************************************************************************)
LEMMA MessagesStoredKept ==
  ASSUME TypeOK, MessagesStored, [ChatNext]_chatVars, MaxFaults["refuse"] = 0
  PROVE  MessagesStored'
PROOF
<1>1. ASSUME NEW m \in Messages, Exists(Server(m)')
      PROVE  \E v \in 1 .. Latest' : Time(m)' = CommitTime(v)
  <2>1. /\ Latest \in Nat /\ Latest' \in Nat /\ Latest' >= Latest
        /\ \/ Server(m)' = Server(m) /\ Time(m)' = Time(m)
           \/ \E d \in Device : StoresNow(d, m)
    BY MessageSteps DEF MessagesStored
  <2>2. CASE Server(m)' = Server(m) /\ Time(m)' = Time(m)
    <3>1. PICK v \in 1 .. Latest : Time(m) = CommitTime(v)
      BY <1>1, <2>2 DEF MessagesStored, MessagesTimed
    <3>2. v \in 1 .. Latest'
      BY <2>1
    <3> QED
      BY <2>2, <3>1, <3>2
  <2>3. CASE \E d \in Device : StoresNow(d, m)
    <3>1. Latest' = Latest + 1 /\ Time(m)' = CommitTime(Latest + 1)
      BY <2>3 DEF StoresNow
    <3>2. Latest' \in 1 .. Latest'
      BY <2>1, <3>1
    <3> QED
      BY <3>1, <3>2
  <2> QED
    BY <2>1, <2>2, <2>3
<1>2. MessagesTimed'
  <2>1. ASSUME NEW m \in Messages, Exists(Server(m))'
        PROVE  (\E v \in 1 .. Latest : Time(m) = CommitTime(v))'
    BY <1>1, <2>1 DEF Exists, CommitTime
  <2> QED
    BY <2>1 DEF MessagesTimed
<1>3. ASSUME NEW d \in Device, NEW i \in 1 .. MaxCalls[d], Exists(Server(Message(d, i))')
      PROVE  <<d, i>> \in Range(log')
  <2>1. PICK m \in Messages : m = Message(d, i)
    BY KeysDiffer
  <2>2. log \in Seq(Device \X Nat)
    BY DEF TypeOK
  <2>3. CASE Exists(Server(m))
    <3>1. <<d, i>> \in Range(log)
      BY <2>1, <2>3 DEF MessagesStored, MessagesLogged, IsLogged
    <3>2. CASE UNCHANGED log
      BY <3>1, <3>2
    <3>3. ASSUME NEW e \in Device, Commit(e)
          PROVE  <<d, i>> \in Range(log')
      <4>1. log' = Append(log, <<e, NextSent(e).n>>) /\ NextSent(e) \in Batch
        BY <3>3, CommitMakes, NextSentIs DEF Commit
      <4>2. <<e, NextSent(e).n>> \in Device \X Nat
        BY <4>1 DEF Batch
      <4> QED
        BY <2>2, <3>1, <4>1, <4>2, RangeOfAppend
    <3> QED
      BY <3>2, <3>3, ServerSteps
  <2>4. CASE ~Exists(Server(m))
    <3>1. Server(m)' # Server(m)
      BY <1>3, <2>1, <2>4 DEF Exists
    <3>2. PICK e \in Device : StoresNow(e, m)
      BY <3>1, MessageSteps DEF MessagesStored
    <3>3. /\ Commit(e)
          /\ Len(responses[e]) + 1 \in 1 .. Len(queue[e])
          /\ NextSent(e) = At(e, Len(responses[e]) + 1)
          /\ NextSent(e) \in Batch
      BY <3>2, NextSentIs DEF StoresNow, Commit
    <3>4. PICK p \in 1 .. LineLen(e) : p = Len(responses[e]) + 1
      BY <3>3, LineType
    <3>5. e = d /\ i = At(e, p).n
      BY <2>1, <3>2, <3>4, OwnMessage DEF MessagesStored, StoresNow
    <3>6. log' = Append(log, <<e, NextSent(e).n>>)
      BY <3>3, CommitMakes
    <3>7. log' = Append(log, <<d, i>>) /\ <<d, i>> \in Device \X Nat
      BY <3>3, <3>4, <3>5, <3>6
    <3> QED
      BY <2>2, <3>7, RangeOfAppend
  <2> QED
    BY <2>3, <2>4
<1>4. MessagesLogged'
  <2>1. ASSUME NEW d \in Device, NEW i \in 1 .. MaxCalls[d], Exists(Server(Message(d, i)))'
        PROVE  IsLogged(d, i)'
    BY <1>3, <2>1 DEF IsLogged, Exists, Range
  <2> QED
    BY <2>1 DEF MessagesLogged
<1>5. ASSUME NEW d \in Device
      PROVE  BatchesWithin(d, OwnBatches(d))' /\ OnlyUpdatesFail(d)'
  BY OwnBatchesKept, OnlyUpdatesFailKept DEF MessagesStored
<1> QED
  BY <1>2, <1>4, <1>5 DEF MessagesStored

(***************************************************************************)
(* One of the writes W is in the line of the device and not answered.      *)
(***************************************************************************)
Pending(d, W) ==
  \E p \in 1 .. LineLen(d) : p > Len(responses[d]) /\ At(d, p).write \in W

WritesOf(k) == {write \in Write : write.key = k}

(***************************************************************************)
(* Nothing is answered after an error: the rejected batch is the only      *)
(* answered one.                                                           *)
(***************************************************************************)
LEMMA RejectedAlone ==
  ASSUME TypeOK, ErrorIsLast, NEW d \in Device, RejectBatch(d)
  PROVE  Len(responses[d]) = 1
PROOF
<1>1. responses[d] \in Seq(Answer) /\ responses[d] # <<>> /\ ~Head(responses[d]).ok
  BY DEF TypeOK, RejectBatch
<1>2. Head(responses[d]) = responses[d][1] /\ 1 \in DOMAIN responses[d]
  BY <1>1, TailFacts, LineType
<1> QED
  BY <1>1, <1>2 DEF ErrorIsLast

(***************************************************************************)
(* A write that is no update stays pending until the server takes it; only *)
(* a kill of the app, before it was stored, loses it.                      *)
(***************************************************************************)
LEMMA PendingStays ==
  ASSUME TypeOK, ErrorIsLast, [ChatNext]_chatVars, MaxFaults["refuse"] = 0,
         NEW d \in Device, NEW W, \A write \in W : write.kind # "update",
         Pending(d, W)
  PROVE  \/ Pending(d, W)'
         \/ Commit(d) /\ At(d, Len(responses[d]) + 1).write \in W
         \/ Restart(d) /\ \A p \in 1 .. Len(queue[d]) : At(d, p).write \notin W
PROOF
<1>1. PICK L \in Nat, a \in Nat, s \in Nat :
        L = LineLen(d) /\ a = Len(responses[d]) /\ s = Len(queue[d]) /\ s <= L /\ a <= s
  BY LineType
<1>2. PICK p \in 1 .. L : p > a /\ At(d, p).write \in W
  BY <1>1 DEF Pending
<1>3. ASSUME NEW b \in Nat, b = Len(responses'[d]), NEW q \in 1 .. LineLen(d)', q > b,
             At(d, q)'.write \in W
      PROVE  Pending(d, W)'
  BY <1>3 DEF Pending
<1>4. CASE SameLine(d) /\ SameAnswers(d)
  BY <1>1, <1>2, <1>3, <1>4 DEF SameLine, SameAnswers
<1>5. ASSUME NEW ws, MainStep(d, ws), LineExtended(d, ws), SameAnswers(d)
      PROVE  Pending(d, W)'
  <2>1. Len(ws) \in Nat /\ LineLen(d)' = L + Len(ws) /\ Len(responses'[d]) = a
    BY <1>1, <1>5 DEF MainStep, LineExtended, SameAnswers
  <2>2. p \in 1 .. LineLen(d)' /\ At(d, p)' = At(d, p)
    BY <1>1, <1>5, <2>1 DEF LineExtended
  <2> QED
    BY <1>2, <1>3, <2>1, <2>2
<1>6. ASSUME NEW answer, SameLine(d), AnswersExtended(d, answer), p # a + 1
      PROVE  Pending(d, W)'
  <2>1. Len(responses'[d]) = a + 1 /\ p > a + 1 /\ a + 1 \in Nat
    BY <1>1, <1>2, <1>6 DEF AnswersExtended
  <2>2. p \in 1 .. LineLen(d)' /\ At(d, p)' = At(d, p)
    BY <1>1, <1>6 DEF SameLine
  <2> QED
    BY <1>2, <1>3, <2>1, <2>2
<1>7. ASSUME Refuse(d)
      PROVE  p # a + 1
  BY <1>1, <1>2, <1>7, OnlyUpdatesRefused, NextSentIs DEF Refuse
<1>8. ASSUME NEW b \in Nat, b = Len(responses'[d]), b = a - 1, LineTail(d)
      PROVE  Pending(d, W)'
  <2>1. PICK q \in 1 .. L - 1 : p = q + 1
    <3>1. p - 1 \in 1 .. L - 1 /\ p = (p - 1) + 1
      BY <1>2, <1>8
    <3> QED
      BY <3>1
  <2>2. q > b /\ q \in 1 .. LineLen(d)' /\ At(d, q)' = At(d, p)
    BY <1>1, <1>2, <1>8, <2>1 DEF LineTail
  <2> QED
    BY <1>2, <1>3, <1>8, <2>2
<1>9. ASSUME AcknowledgeBatch(d), LineTail(d), AnswersTail(d)
      PROVE  Pending(d, W)'
  <2>1. Len(responses'[d]) = Len(responses[d]) - 1 /\ Len(responses[d]) >= 1
    BY <1>9 DEF AnswersTail
  <2>2. a >= 1 /\ Len(responses'[d]) = a - 1
    BY <1>1, <2>1
  <2>3. PICK b \in Nat : b = a - 1
    BY <2>2
  <2> QED
    BY <1>8, <1>9, <2>2, <2>3
<1>10. ASSUME RejectBatch(d), LineTail(d), AnswersLost(d)
       PROVE  Pending(d, W)'
  <2>1. Len(responses'[d]) = 0 /\ a = 1
    BY <1>1, <1>10, RejectedAlone DEF AnswersLost
  <2>2. PICK b \in Nat : b = Len(responses'[d]) /\ b = a - 1
    BY <2>1
  <2> QED
    BY <1>8, <1>10, <2>2
<1>11. CASE SameLine(d) /\ AnswersLost(d)
  BY <1>1, <1>2, <1>3, <1>11 DEF SameLine, AnswersLost
<1>12. ASSUME Restart(d), LineCut(d), AnswersLost(d),
              NEW q \in 1 .. Len(queue[d]), At(d, q).write \in W
       PROVE  Pending(d, W)'
  <2>1. q \in 1 .. LineLen(d)' /\ At(d, q)'.write \in W /\ q > 0 /\ Len(responses'[d]) = 0
    BY <1>1, <1>12 DEF LineCut, AnswersLost
  <2> QED
    BY <1>3, <2>1
<1> QED
  <2>1. \/ SameLine(d) /\ SameAnswers(d)
        \/ \E ws : MainStep(d, ws) /\ LineExtended(d, ws) /\ SameAnswers(d)
        \/ Commit(d) /\ SameLine(d) /\ \E answer : AnswersExtended(d, answer)
        \/ Refuse(d) /\ SameLine(d) /\ AnswersExtended(d, Error)
        \/ AcknowledgeBatch(d) /\ LineTail(d) /\ AnswersTail(d)
        \/ RejectBatch(d) /\ LineTail(d) /\ AnswersLost(d)
        \/ SameLine(d) /\ AnswersLost(d)
        \/ Restart(d) /\ LineCut(d) /\ AnswersLost(d)
    BY DeviceSteps
  <2>2. CASE Commit(d) /\ SameLine(d) /\ \E answer : AnswersExtended(d, answer)
    BY <1>1, <1>2, <1>6, <2>2
  <2>3. CASE Refuse(d) /\ SameLine(d) /\ AnswersExtended(d, Error)
    BY <1>6, <1>7, <2>3
  <2> QED
    BY <1>4, <1>5, <1>9, <1>10, <1>11, <1>12, <2>1, <2>2, <2>3

-----------------------------------------------------------------------------
(***************************************************************************)
(* What is on the server of a device's messages has left its worker queue. *)
(***************************************************************************)
LEMMA StoredLeftCalls ==
  ASSUME TypeOK, Numbered, MessagesStored, NEW d \in Device,
         NEW i \in 1 .. MaxCalls[d], Exists(Server(Message(d, i)))
  PROVE  /\ i <= made[d]
         /\ \A p \in 1 .. LineLen(d) :
              At(d, p).write.key = Message(d, i) => p <= Len(queue[d])
PROOF
<1>1. NumberedOn(d)
  BY DEF Numbered
<1>2. PICK m \in Nat, c \in Nat : m = made[d] /\ c = Len(calls[d]) /\ c <= m
  BY <1>1, LineNumbers
<1>3. <<d, i>> \in Range(log)
  BY DEF MessagesStored, MessagesLogged, IsLogged
<1>4. PICK k \in DOMAIN log : log[k] = <<d, i>>
  BY <1>3 DEF Range
<1>5. i <= m - c
  BY <1>1, <1>2, <1>4, LineNumbers
<1>6. ASSUME NEW p \in 1 .. LineLen(d), At(d, p).write.key = Message(d, i),
             p > Len(queue[d])
      PROVE  FALSE
  <2>1. i = At(d, p).n
    BY <1>6, OwnMessage DEF MessagesStored
  <2>2. At(d, p).n > m - c
    BY <1>1, <1>2, <1>6, LineNumbers
  <2> QED
    BY <1>2, <1>5, <2>1, <2>2
<1>7. LineLen(d) \in Nat /\ Len(queue[d]) \in Nat
  BY LineType
<1> QED
  BY <1>2, <1>5, <1>6, <1>7

(***************************************************************************)
(* The messages of a device: one the server has, and will not get again,   *)
(* is later than those before it; and one it has stays in the line while   *)
(* there is anything older in it.                                          *)
(***************************************************************************)
AnsweredInOrder(d) ==
  \A i, j \in 1 .. MaxCalls[d] :
    /\ i < j
    /\ Exists(Server(Message(d, i)))
    /\ Exists(Server(Message(d, j)))
    /\ ~Pending(d, WritesOf(Message(d, j)))
    => Before(Time(Message(d, i)), Time(Message(d, j)))

InLine(d, k) == \E q \in 1 .. LineLen(d) : At(d, q).write.key = k

LaterStayInLine(d) ==
  \A j \in 1 .. MaxCalls[d] :
    /\ Exists(Server(Message(d, j)))
    /\ \E p \in 1 .. LineLen(d) : At(d, p).n < j
    => InLine(d, Message(d, j))

SendingInOrder ==
  MessagesStored /\ \A d \in Device : AnsweredInOrder(d) /\ LaterStayInLine(d)

(***************************************************************************)
(* The server takes what is at the first position without an answer.       *)
(***************************************************************************)
LEMMA StoringPosition ==
  ASSUME TypeOK, MessagesStored, NEW e \in Device, NEW d \in Device,
         NEW i \in 1 .. MaxCalls[d], StoresNow(e, Message(d, i))
  PROVE  /\ e = d /\ SameLine(d)
         /\ \E p \in 1 .. LineLen(d) :
              /\ p = Len(responses[d]) + 1
              /\ At(d, p).write.key = Message(d, i) /\ At(d, p).n = i
              /\ Len(responses'[d]) = p
PROOF
<1>1. Commit(e) /\ At(e, Len(responses[e]) + 1).write.key = Message(d, i)
  BY DEF StoresNow
<1>2. PICK p \in 1 .. LineLen(e) : p = Len(responses[e]) + 1
  <2>1. Len(responses[e]) + 1 \in 1 .. Len(queue[e])
    BY <1>1, NextSentIs DEF Commit
  <2> QED
    BY <2>1, LineType
<1>3. e = d /\ i = At(e, p).n
  BY <1>1, <1>2, OwnMessage DEF MessagesStored
<1>4. SameLine(d)
  BY <1>1, <1>3, LineUntouched DEF Commit
<1>5. Len(responses'[d]) = p
  BY <1>1, <1>2, <1>3, CommitAnswers DEF AnswersExtended
<1> QED
  BY <1>1, <1>2, <1>3, <1>4, <1>5

(***************************************************************************)
(* Every step keeps a stored later message in the line.                    *)
(***************************************************************************)
LEMMA LaterStayInLineKept ==
  ASSUME TypeOK, Numbered, SendingInOrder, [ChatNext]_chatVars, NEW d \in Device
  PROVE  LaterStayInLine(d)'
PROOF
<1>1. NumberedOn(d) /\ MessagesStored /\ LaterStayInLine(d)
  BY DEF Numbered, SendingInOrder
<1>2. PICK L \in Nat, s \in Nat, m \in Nat :
        L = LineLen(d) /\ s = Len(queue[d]) /\ s <= L /\ m = made[d]
  BY LineType DEF TypeOK
<1> SUFFICES ASSUME NEW j \in 1 .. MaxCalls[d], Exists(Server(Message(d, j)))',
                    NEW p \in 1 .. LineLen(d)', At(d, p)'.n < j
             PROVE  \E q \in 1 .. LineLen(d)' : At(d, q)'.write.key = Message(d, j)
  BY DEF LaterStayInLine, InLine
<1>3. PICK k \in Messages : k = Message(d, j)
  BY KeysDiffer
<1>4. CASE \E e \in Device : StoresNow(e, k)
  <2>1. PICK e \in Device : StoresNow(e, k)
    BY <1>4
  <2>2. PICK q \in 1 .. LineLen(d) : SameLine(d) /\ At(d, q).write.key = k
    BY <1>1, <1>3, <2>1, StoringPosition
  <2> QED
    BY <1>3, <2>2 DEF SameLine
<1>5. CASE ~\E e \in Device : StoresNow(e, k)
  <2>1. Exists(Server(k))
    <3>1. Server(k)' = Server(k)
      BY <1>1, <1>5, MessageSteps DEF MessagesStored
    <3> QED
      BY <1>3, <3>1 DEF Exists
  <2>2. /\ j <= m
        /\ \A q \in 1 .. L : At(d, q).write.key = k => q <= s
    BY <1>1, <1>2, <1>3, <2>1, StoredLeftCalls
  <2>3. ASSUME NEW r \in 1 .. L, At(d, r).n < j
        PROVE  \E q \in 1 .. L : At(d, q).write.key = k /\ At(d, q).n = j
    <3>1. PICK q \in 1 .. L : At(d, q).write.key = k
      BY <1>1, <1>2, <1>3, <2>1, <2>3 DEF LaterStayInLine, InLine
    <3>2. At(d, q).n = j
      BY <1>1, <1>2, <1>3, <3>1, OwnMessage DEF MessagesStored
    <3> QED
      BY <3>1, <3>2
  <2>4. CASE SameLine(d)
    BY <1>2, <1>3, <2>3, <2>4 DEF SameLine
  <2>5. ASSUME NEW ws, MainStep(d, ws), LineExtended(d, ws)
        PROVE  \E q \in 1 .. LineLen(d)' : At(d, q)'.write.key = k
    <3>1. Len(ws) \in Nat /\ LineLen(d)' = L + Len(ws)
      BY <1>2, <2>5 DEF MainStep, LineExtended
    <3>2. p \in 1 .. L
      <4>1. ASSUME p \notin 1 .. L
            PROVE  FALSE
        <5>1. PICK i \in 1 .. Len(ws) : p = L + i
          <6>1. p - L \in 1 .. Len(ws) /\ p = L + (p - L)
            BY <3>1, <4>1
          <6> QED
            BY <6>1
        <5>2. At(d, p)'.n = m + i
          BY <1>2, <2>5, <5>1 DEF LineExtended
        <5> QED
          BY <2>2, <5>2
      <4> QED
        BY <4>1
    <3>3. At(d, p).n < j
      BY <1>2, <2>5, <3>2 DEF LineExtended
    <3>4. PICK q \in 1 .. L : At(d, q).write.key = k
      BY <2>3, <3>2, <3>3
    <3>5. q \in 1 .. LineLen(d)' /\ At(d, q)'.write.key = k
      BY <1>2, <2>5, <3>1, <3>4 DEF LineExtended
    <3> QED
      BY <3>5
  <2>6. CASE LineTail(d)
    <3>1. L >= 1 /\ LineLen(d)' = L - 1 /\ p \in 1 .. L - 1
      BY <1>2, <2>6 DEF LineTail
    <3>2. PICK r \in 1 .. L : r = p + 1
      BY <3>1
    <3>3. At(d, p)' = At(d, r)
      BY <1>2, <2>6, <3>1, <3>2 DEF LineTail
    <3>4. PICK q \in 1 .. L : At(d, q).write.key = k /\ At(d, q).n = j
      BY <2>3, <3>3
    <3>5. q # 1
      <4>1. 1 \in 1 .. L /\ 1 < r
        BY <3>1, <3>2
      <4>2. At(d, 1).n < At(d, r).n /\ At(d, 1).n \in Nat /\ At(d, r).n \in Nat
        BY <1>1, <1>2, <4>1, LineNumbers
      <4> QED
        BY <3>3, <3>4, <4>2
    <3>6. PICK t \in 1 .. L - 1 : q = t + 1
      <4>1. q - 1 \in 1 .. L - 1 /\ q = (q - 1) + 1
        BY <3>5
      <4> QED
        BY <4>1
    <3>7. At(d, t)' = At(d, q)
      BY <1>2, <2>6, <3>6 DEF LineTail
    <3> QED
      BY <1>3, <3>1, <3>4, <3>7
  <2>7. CASE LineCut(d)
    <3>1. p \in 1 .. s /\ At(d, p)'.n = At(d, p).n
      BY <1>2, <2>7 DEF LineCut
    <3>2. PICK q \in 1 .. L : At(d, q).write.key = k
      BY <1>2, <2>3, <3>1
    <3>3. q \in 1 .. s
      BY <2>2, <3>2
    <3>4. At(d, q)'.write.key = k
      BY <1>2, <2>7, <3>2, <3>3 DEF LineCut
    <3>5. q \in 1 .. LineLen(d)'
      BY <1>2, <2>7, <3>3 DEF LineCut
    <3> QED
      BY <1>3, <3>4, <3>5
  <2> QED
    BY <1>3, <2>4, <2>5, <2>6, <2>7, DeviceSteps
<1> QED
  BY <1>4, <1>5

(***************************************************************************)
(* A commit is later than all that was stored before it.                   *)
(***************************************************************************)
LEMMA StoredBefore ==
  ASSUME TypeOK, MessagesTimed, NEW m \in Messages, Exists(Server(m))
  PROVE  Before(Time(m), CommitTime(Latest + 1))
PROOF
<1>1. PICK v \in 1 .. Latest : Time(m) = CommitTime(v)
  BY DEF MessagesTimed
<1>2. Latest \in Nat
  BY DEF TypeOK, Latest
<1>3. v < Latest + 1
  BY <1>2
<1>4. Before(CommitTime(v), CommitTime(Latest + 1))
  BY <1>3 DEF Before, CommitTime
<1> QED
  BY <1>1, <1>4

(***************************************************************************)
(* No write that stores a message is an update.                            *)
(***************************************************************************)
LEMMA MessagesAreNotUpdates ==
  ASSUME NEW m \in Messages
  PROVE  /\ \A write \in WritesOf(m) : write.kind # "update"
         /\ \A write \in Write : write \in WritesOf(m) <=> write.key = m
PROOF
<1>1. ASSUME NEW write \in Write, write.key = m, write.kind = "update"
      PROVE  FALSE
  <2>1. write.key = ChatDocument
    BY <1>1, WriteParts
  <2> QED
    BY <1>1, <2>1, KeysDiffer
<1> QED
  BY <1>1 DEF WritesOf

(***************************************************************************)
(* Every step keeps the answered messages of a device in their order.      *)
(***************************************************************************)
LEMMA AnsweredInOrderKept ==
  ASSUME TypeOK, Numbered, ErrorIsLast, SendingInOrder, [ChatNext]_chatVars,
         MaxFaults["refuse"] = 0, NEW d \in Device
  PROVE  AnsweredInOrder(d)'
PROOF
<1>1. /\ NumberedOn(d) /\ MessagesStored /\ MessagesTimed
      /\ LaterStayInLine(d) /\ AnsweredInOrder(d)
  BY DEF Numbered, SendingInOrder, MessagesStored
<1> SUFFICES ASSUME NEW i \in 1 .. MaxCalls[d], NEW j \in 1 .. MaxCalls[d], i < j,
                    Exists(Server(Message(d, i)))', Exists(Server(Message(d, j)))',
                    ~Pending(d, WritesOf(Message(d, j)))'
             PROVE  Before(Time(Message(d, i)), Time(Message(d, j)))'
  BY DEF AnsweredInOrder
<1>2. PICK a \in Messages, b \in Messages : a = Message(d, i) /\ b = Message(d, j)
  BY KeysDiffer
<1>3. a # b
  BY <1>2, KeysDiffer
<1>4. /\ Exists(Server(a))' /\ Exists(Server(b))' /\ ~Pending(d, WritesOf(b))'
      /\ Before(Time(a), Time(b))' => Before(Time(Message(d, i)), Time(Message(d, j)))'
  BY <1>2 DEF WritesOf
<1>5. SUFFICES Before(Time(a)', Time(b)')
  BY <1>4 DEF Before
<1>6. ASSUME NEW k \in Messages, Server(k)' = Server(k), Exists(Server(k))'
      PROVE  Exists(Server(k))
  BY <1>6 DEF Exists
<1>7. CASE \E e \in Device : StoresNow(e, b)
  <2>1. PICK e \in Device : StoresNow(e, b)
    BY <1>7
  <2>2. PICK p \in 1 .. LineLen(d) : /\ p = Len(responses[d]) + 1
                                     /\ At(d, p).write.key = b
    BY <1>1, <1>2, <2>1, StoringPosition
  <2>3. ~\E f \in Device : StoresNow(f, a)
    <3>1. ASSUME NEW f \in Device, StoresNow(f, a)
          PROVE  FALSE
      <4>1. PICK q \in 1 .. LineLen(d) : /\ q = Len(responses[d]) + 1
                                         /\ At(d, q).write.key = a
        BY <1>1, <1>2, <3>1, StoringPosition
      <4> QED
        BY <1>3, <2>2, <4>1
    <3> QED
      BY <3>1
  <2>4. Server(a)' = Server(a) /\ Time(a)' = Time(a)
    BY <1>1, <2>3, MessageSteps
  <2>5. Before(Time(a), CommitTime(Latest + 1))
    BY <1>1, <1>4, <1>6, <2>4, StoredBefore
  <2> QED
    BY <2>1, <2>4, <2>5 DEF StoresNow
<1>8. CASE ~\E e \in Device : StoresNow(e, b)
  <2>1. Server(b)' = Server(b) /\ Time(b)' = Time(b) /\ Exists(Server(b))
    BY <1>1, <1>4, <1>6, <1>8, MessageSteps
  <2>2. CASE \E f \in Device : StoresNow(f, a)
    <3>1. PICK f \in Device : StoresNow(f, a)
      BY <2>2
    <3>2. PICK p \in 1 .. LineLen(d) : /\ SameLine(d) /\ At(d, p).n = i
                                       /\ Len(responses'[d]) = p
      BY <1>1, <1>2, <3>1, StoringPosition
    <3>3. PICK q \in 1 .. LineLen(d) : At(d, q).write.key = b
      BY <1>1, <1>2, <2>1, <3>2 DEF LaterStayInLine, InLine
    <3>4. At(d, q).n = j
      BY <1>1, <1>2, <3>3, OwnMessage DEF MessagesStored
    <3>5. q > p
      <4>1. LineLen(d) \in Nat
        BY LineType
      <4>2. q < p => At(d, q).n < At(d, p).n
        BY <1>1, LineNumbers
      <4>3. ~(q < p) /\ q # p
        BY <3>2, <3>4, <4>2
      <4> QED
        BY <4>1, <4>3
    <3>6. At(d, q)'.write \in WritesOf(b)
      <4>1. At(d, q).write \in Write
        BY LineType
      <4> QED
        BY <3>2, <3>3, <4>1, MessagesAreNotUpdates DEF SameLine
    <3>7. q \in 1 .. LineLen(d)' /\ q > Len(responses'[d])
      BY <3>2, <3>5 DEF SameLine
    <3> QED
      BY <1>4, <3>6, <3>7 DEF Pending, WritesOf
  <2>3. CASE ~\E f \in Device : StoresNow(f, a)
    <3>1. Server(a)' = Server(a) /\ Time(a)' = Time(a) /\ Exists(Server(a))
      BY <1>1, <1>4, <1>6, <2>3, MessageSteps
    <3>2. ~Pending(d, WritesOf(b))
      <4>1. SUFFICES ASSUME Pending(d, WritesOf(b)) PROVE FALSE
        OBVIOUS
      <4>2. PICK W : W = WritesOf(b)
        OBVIOUS
      <4>3. Pending(d, W) /\ ~Pending(d, W)' /\ \A write \in W : write.kind # "update"
        BY <1>4, <4>1, <4>2, MessagesAreNotUpdates DEF Pending, WritesOf
      <4>4. CASE Commit(d) /\ At(d, Len(responses[d]) + 1).write \in W
        <5>1. At(d, Len(responses[d]) + 1).write.key = b
          BY <4>2, <4>4 DEF WritesOf
        <5>2. StoresNow(d, b)
          BY <1>1, <4>4, <5>1, CommitStores
        <5> QED
          BY <1>8, <5>2
      <4>5. CASE Restart(d) /\ \A p \in 1 .. Len(queue[d]) : At(d, p).write \notin W
        <5>1. PICK p \in 1 .. LineLen(d) : At(d, p).write \in W
          BY <4>3 DEF Pending
        <5>2. At(d, p).write.key = b
          BY <4>2, <5>1 DEF WritesOf
        <5>3. p <= Len(queue[d])
          BY <1>1, <1>2, <2>1, <5>2, StoredLeftCalls
        <5>4. p \in 1 .. Len(queue[d])
          BY <5>3, LineType
        <5> QED
          BY <4>5, <5>1, <5>4
      <4> QED
        BY <4>3, <4>4, <4>5, PendingStays
    <3> QED
      BY <1>1, <1>2, <2>1, <3>1, <3>2 DEF AnsweredInOrder
  <2> QED
    BY <2>2, <2>3
<1> QED
  BY <1>7, <1>8

(***************************************************************************)
(* Together: what orders the messages of a device is inductive.            *)
(***************************************************************************)
LEMMA SendingInOrderKept ==
  ASSUME TypeOK, Numbered, ErrorIsLast, SendingInOrder, [ChatNext]_chatVars,
         MaxFaults["refuse"] = 0
  PROVE  SendingInOrder'
PROOF
<1>1. MessagesStored'
  BY MessagesStoredKept DEF SendingInOrder
<1>2. ASSUME NEW d \in Device
      PROVE  AnsweredInOrder(d)' /\ LaterStayInLine(d)'
  BY AnsweredInOrderKept, LaterStayInLineKept
<1> QED
  BY <1>1, <1>2 DEF SendingInOrder

(***************************************************************************)
(* Nothing is in line, and no message is stored, at first.                 *)
(***************************************************************************)
LEMMA MessagesStoredInit ==
  ASSUME ChatInit, \A m \in Messages : ~Exists(InitialDocuments[m])
  PROVE  /\ MessagesStored
         /\ \A m \in Messages : ~Exists(Server(m))
         /\ \A d \in Device : LineLen(d) = 0 /\ Len(responses[d]) = 0
PROOF
<1>1. /\ backend = <<InitialDocuments>>
      /\ \A d \in Device : calls[d] = <<>> /\ queue[d] = <<>> /\ responses[d] = <<>>
  BY DEF ChatInit, Init
<1>2. backend[Latest] = InitialDocuments
  BY <1>1 DEF Latest
<1>3. \A m \in Messages : ~Exists(Server(m))
  BY <1>2 DEF Server
<1>4. ASSUME NEW d \in Device
      PROVE  LineLen(d) = 0 /\ Len(responses[d]) = 0
  <2>1. Len(calls[d]) = 0 /\ Len(queue[d]) = 0 /\ Len(responses[d]) = 0
    BY <1>1, EmptySequence
  <2> QED
    BY <2>1 DEF LineLen
<1>5. MessagesLogged /\ MessagesTimed
  BY <1>3, KeysDiffer DEF MessagesLogged, MessagesTimed
<1>6. \A d \in Device : BatchesWithin(d, OwnBatches(d)) /\ OnlyUpdatesFail(d)
  BY <1>4 DEF BatchesWithin, OnlyUpdatesFail
<1> QED
  BY <1>3, <1>4, <1>5, <1>6 DEF MessagesStored

(***************************************************************************)
(* Once the later of two messages of one device is acknowledged, they are  *)
(* in the order in which they were sent, through broken streams, repeated  *)
(* commits and kills of the app.  The server refuses no valid write: what  *)
(* it committed once and then refused would keep its old time.             *)
(***************************************************************************)
THEOREM MessagesAreInOrder ==
  ASSUME MaxFaults["refuse"] = 0,
         \A m \in Messages : ~Exists(InitialDocuments[m])
  PROVE  ChatSpec => []OwnOrder
PROOF
<1> DEFINE Inv == QueueInvariant /\ SendingInOrder
<1>1. ChatInit => Inv
  <2> SUFFICES ASSUME ChatInit PROVE SendingInOrder
    BY InitQueueInvariant DEF ChatInit
  <2>1. /\ MessagesStored
        /\ \A d \in Device : \A i \in 1 .. MaxCalls[d] : ~Exists(Server(Message(d, i)))
    BY MessagesStoredInit, KeysDiffer
  <2> QED
    BY <2>1 DEF SendingInOrder, AnsweredInOrder, LaterStayInLine
<1>2. Inv /\ [ChatNext]_chatVars => Inv'
  <2> SUFFICES ASSUME Inv, [ChatNext]_chatVars PROVE Inv'
    OBVIOUS
  <2>1. InductiveInvariant /\ TypeOK /\ Numbered /\ ErrorIsLast
    BY DEF QueueInvariant, InductiveInvariant
  <2>2. QueueInvariant'
    BY <2>1, ChatStep, NextQueueInvariant
  <2>3. SendingInOrder'
    BY <2>1, SendingInOrderKept
  <2> QED
    BY <2>2, <2>3
<1>3. Inv => OwnOrder
  <2> SUFFICES ASSUME Inv, NEW d \in Device,
                      NEW i \in 1 .. MaxCalls[d], NEW j \in 1 .. MaxCalls[d], i < j,
                      Exists(Server(Message(d, i))), Exists(Server(Message(d, j))),
                      ~Waiting(d, Message(d, j))
               PROVE  Before(Time(Message(d, i)), Time(Message(d, j)))
    BY DEF OwnOrder
  <2>1. TypeOK /\ Numbered /\ MessagesStored /\ AnsweredInOrder(d)
    BY DEF QueueInvariant, InductiveInvariant, SendingInOrder
  <2>2. ASSUME Pending(d, WritesOf(Message(d, j)))
        PROVE  FALSE
    <3>1. PICK p \in 1 .. LineLen(d) : At(d, p).write.key = Message(d, j)
      BY <2>2 DEF Pending, WritesOf
    <3>2. p <= Len(queue[d])
      BY <2>1, <3>1, StoredLeftCalls
    <3>3. p \in DOMAIN queue[d] /\ At(d, p) = queue[d][p]
      BY <2>1, <3>2, LineType
    <3> QED
      BY <3>1, <3>3 DEF Waiting
  <2> QED
    BY <2>1, <2>2 DEF AnsweredInOrder
<1> QED
  BY <1>1, <1>2, <1>3, PTL DEF ChatSpec

(***************************************************************************)
(* While no stream has broken, none breaks.                                *)
(***************************************************************************)
LEMMA NothingBroke ==
  ASSUME TypeOK, [ChatNext]_chatVars, faults'["break"] = 0
  PROVE  faults["break"] = 0 /\ \A d \in Device : ~BreakStream(d)
PROOF
<1>1. faults \in [Fault -> Nat] /\ "break" \in Fault
  BY DEF TypeOK, Fault
<1>2. ASSUME NEW kind \in Fault, FaultHappens(kind)
      PROVE  kind # "break" /\ faults["break"] = 0
  <2>1. PICK n \in Nat : n = faults["break"]
    BY <1>1
  <2>2. kind = "break" => faults'["break"] = n + 1
    BY <1>1, <1>2, <2>1 DEF FaultHappens
  <2>3. kind # "break" => faults'["break"] = n
    BY <1>1, <1>2, <2>1 DEF FaultHappens
  <2> QED
    BY <2>1, <2>2, <2>3
<1>3. ASSUME NEW d \in Device, BreakStream(d)
      PROVE  FALSE
  BY <1>1, <1>2, <1>3 DEF BreakStream
<1>4. CASE UNCHANGED faults
  BY <1>3, <1>4
<1>5. CASE FaultHappens("refuse") \/ FaultHappens("kill")
  BY <1>2, <1>3, <1>5 DEF Fault
<1> QED
  BY <1>3, <1>4, <1>5, ChatStepIs
     DEF MainStep, WriteLocally, Commit, Refuse, AcknowledgeBatch, RejectBatch,
         ApplyRemoteEvent, Restart, Kill, clientVars

(***************************************************************************)
(* What is shown of a document that the cache does not have is in line.    *)
(***************************************************************************)
LEMMA ViewedIsQueued ==
  ASSUME TypeOK, NEW d \in Device, NEW k \in Key, Exists(View(d, k))
  PROVE  \/ Exists(cache[d][k])
         \/ \E p \in 1 .. Len(queue[d]) : At(d, p).write.key = k
PROOF
<1> DEFINE q == queue[d]
<1>1. /\ q \in Seq(Batch) /\ Len(q) \in Nat
      /\ \A p \in 1 .. Len(q) : At(d, p) = q[p]
  BY LineType
<1> HIDE DEF q
<1>2. PICK views : /\ AreViews(views, cache[d][k], q, k)
                   /\ View(d, k) = views[Len(q)]
  BY <1>1, GetDocumentIsLastView DEF View, q
<1> DEFINE Known(n) == Exists(views[n]) =>
                         \/ Exists(cache[d][k])
                         \/ \E p \in 1 .. Len(q) : At(d, p).write.key = k
           T == {n \in 0 .. Len(q) : Known(n)}
<1>3. 0 \in T
  <2>1. Known(0)
    BY <1>2 DEF AreViews
  <2> QED
    BY <1>1, <2>1
<1>4. ASSUME NEW n \in 1 .. Len(q), n - 1 \in T
      PROVE  n \in T
  <2>1. views[n] = ApplyToLocalDocument(q[n], k, views[n - 1])
    BY <1>2 DEF AreViews
  <2>2. CASE q[n].write.key = k
    <3>1. Known(n)
      BY <1>1, <2>2
    <3> QED
      BY <1>1, <3>1
  <2>3. CASE q[n].write.key # k
    <3>1. views[n] = views[n - 1]
      BY <2>1, <2>3 DEF ApplyToLocalDocument
    <3>2. Known(n)
      BY <1>4, <3>1
    <3> QED
      BY <1>1, <3>2
  <2> QED
    BY <2>2, <2>3
<1>5. Known(Len(q))
  <2> HIDE DEF T
  <2>1. \A n \in 0 .. Len(q) : n \in T
    BY <1>1, <1>3, <1>4, AlongQueue
  <2>2. Len(q) \in T
    BY <1>1, <2>1
  <2> QED
    BY <2>2 DEF T
<1> QED
  BY <1>2, <1>5 DEF q

LEMMA ViewedIsKnown ==
  ASSUME TypeOK, NEW d \in Device, NEW k \in Key, Exists(View(d, k))
  PROVE  \/ Exists(cache[d][k])
         \/ \E p \in 1 .. LineLen(d) : At(d, p).write.key = k
PROOF
<1>1. \A p \in 1 .. Len(queue[d]) : p \in 1 .. LineLen(d)
  BY LineType
<1> QED
  BY <1>1, ViewedIsQueued

(***************************************************************************)
(* What a version of the server or a cache has, the server has now.        *)
(***************************************************************************)
DocumentsRemain ==
  /\ \A v \in DOMAIN backend, k \in Key : Exists(backend[v][k]) => Exists(Server(k))
  /\ \A d \in Device, k \in Key : Exists(cache[d][k]) => Exists(Server(k))
  /\ \A d \in Device : AnsweredExists(d)

(***************************************************************************)
(* No document that a device knows of disappears from the server.          *)
(***************************************************************************)
LEMMA DocumentsRemainKept ==
  ASSUME TypeOK, DocumentsRemain, [ChatNext]_chatVars
  PROVE  DocumentsRemain'
PROOF
<1>1. ASSUME NEW v \in DOMAIN backend', NEW k \in Key, Exists(backend'[v][k])
      PROVE  Exists(Server(k)')
  <2>1. CASE v \in DOMAIN backend
    <3>1. backend'[v] = backend[v]
      BY <2>1, ServerSteps DEF HistoryKept
    <3>2. Exists(Server(k))
      BY <1>1, <2>1, <3>1 DEF DocumentsRemain
    <3> QED
      BY <3>2, DocumentStays
  <2>2. CASE v = Latest'
    BY <1>1, <2>2 DEF Server
  <2>3. v \in DOMAIN backend \/ v = Latest'
    BY CommitMakes, ServerSteps
  <2> QED
    BY <2>1, <2>2, <2>3
<1>2. ASSUME NEW d \in Device, NEW k \in Key, Exists(cache'[d][k])
      PROVE  Exists(Server(k)')
  <2>1. ASSUME Exists(Server(k))
        PROVE  Exists(Server(k)')
    BY <2>1, DocumentStays
  <2>2. CASE cache'[d][k] = cache[d][k]
    BY <1>2, <2>1, <2>2 DEF DocumentsRemain
  <2>3. CASE \E v \in DOMAIN backend : cache'[d][k] = backend[v][k]
    BY <1>2, <2>1, <2>3 DEF DocumentsRemain
  <2>4. CASE Acknowledged(d, k)
    <3>1. Exists(Server(k))
      BY <2>4 DEF Acknowledged, DocumentsRemain, AnsweredExists
    <3> QED
      BY <2>1, <3>1
  <2> QED
    BY <2>2, <2>3, <2>4, CachedChanges
<1>3. \A d \in Device : AnsweredExists(d)'
  BY AnsweredExistsKept DEF DocumentsRemain
<1>4. \A v \in DOMAIN backend', k \in Key : Exists(backend'[v][k]) => Exists(Server(k)')
  BY <1>1
<1>5. \A d \in Device, k \in Key : Exists(cache'[d][k]) => Exists(Server(k)')
  BY <1>2
<1> QED
  BY <1>3, <1>4, <1>5 DEF DocumentsRemain, Exists

(***************************************************************************)
(* What was on screen is only noted when a message is sent.                *)
(***************************************************************************)
Notes(d) ==
  /\ made[d] + 1 \in 1 .. MaxCalls[d]
  /\ shown' = Overlay([m \in {Message(d, made[d] + 1)} |-> MessagesShown(d)], shown)
  /\ made' = [made EXCEPT ![d] = @ + 1]
  /\ UNCHANGED <<backend, log, queue, responses, cache, faults>>
  /\ LineExtended(d, SendMessageWrites(d, made[d] + 1))
  /\ \A e \in Device \ {d} : SameLine(e)

(***************************************************************************)
(* Only sending a message notes what is on screen.                         *)
(***************************************************************************)
LEMMA ShownSteps ==
  ASSUME TypeOK, [ChatNext]_chatVars
  PROVE  shown' = shown \/ \E d \in Device : Notes(d)
PROOF
<1>1. ASSUME NEW d \in Device, SendMessage(d)
      PROVE  Notes(d)
  <2>1. PICK i \in 1 .. MaxCalls[d] : i = made[d] + 1
    <3>1. made[d] \in Nat /\ MaxCalls[d] \in Nat
      BY BoundAssumption DEF TypeOK
    <3> QED
      BY <1>1, <3>1, OwedType DEF SendMessage
  <2>2. /\ Enqueue(d, SendMessageWrites(d, i))
        /\ UNCHANGED <<backend, log, queue, responses, cache, faults>>
    BY <1>1, <2>1 DEF SendMessage, Make, Call
  <2>3. SendMessageWrites(d, i) \in Seq(Write)
    BY ProgramMembers, ProgramAssumption
  <2>4. Len(SendMessageWrites(d, i)) = 1
    <3>1. \A a : Len(<<a>>) = 1
      OBVIOUS
    <3> QED
      BY <3>1, ProgramsAre
  <2>5. /\ LineExtended(d, SendMessageWrites(d, i))
        /\ \A e \in Device \ {d} : SameLine(e)
    BY <2>2, <2>3, EnqueueLine
  <2>6. made' = [made EXCEPT ![d] = @ + 1]
    BY <2>2, <2>4 DEF Enqueue
  <2>7. shown' = Overlay([m \in {Message(d, made[d] + 1)} |-> MessagesShown(d)], shown)
    BY <1>1 DEF SendMessage
  <2> QED
    BY <2>1, <2>2, <2>5, <2>6, <2>7 DEF Notes
<1>2. ASSUME NEW d \in Device, GestureStep(d)
      PROVE  shown' = shown \/ Notes(d)
  <2>1. CASE SendMessage(d)
    BY <1>1, <2>1
  <2>2. CASE ~SendMessage(d)
    BY <1>2, <2>2
       DEF GestureStep, OpenChat, Back, NewChat, UpdateChatColour, OpenMember,
           RemoveFromChat, UpdateUserColour, UpdateUserName, AddNewUser
  <2> QED
    BY <2>1, <2>2
<1>3. ASSUME NEW d \in Device,
             \/ RunCompletion(d)
             \/ Background(d) /\ UNCHANGED <<screen, shown>>
             \/ Restart(d)
      PROVE  shown' = shown
  BY <1>3 DEF RunCompletion, Restart
<1>4. CASE UNCHANGED chatVars
  BY <1>4 DEF chatVars
<1> QED
  BY <1>2, <1>3, <1>4 DEF ChatNext

(***************************************************************************)
(* While no stream breaks: a message is stored once; it is behind all that *)
(* was on screen when it was sent, on the server as in the line.           *)
(***************************************************************************)
StoredOnce(d) ==
  \A p \in 1 .. LineLen(d) :
    p > Len(responses[d]) /\ At(d, p).write.key \in Messages =>
      ~Exists(Server(At(d, p).write.key))

ShownBefore(d) ==
  \A i \in 1 .. MaxCalls[d] : Message(d, i) \in DOMAIN shown =>
    \A p \in 1 .. LineLen(d) : At(d, p).write.key = Message(d, i) =>
      \A c \in shown[Message(d, i)] :
        Exists(Server(c)) \/ \E q \in 1 .. p - 1 : At(d, q).write.key = c

ShownIsEarlier ==
  \A m \in DOMAIN shown : Exists(Server(m)) =>
    \A c \in shown[m] : Exists(Server(c)) /\ Before(Time(c), Time(m))

Causal ==
  /\ ShownIsEarlier
  /\ \A d \in Device : StoredOnce(d) /\ ShownBefore(d)

ShownAreMade ==
  \A d \in Device : \A i \in 1 .. MaxCalls[d] :
    Message(d, i) \in DOMAIN shown => i <= made[d]

CausalInvariant ==
  /\ MessagesStored
  /\ DocumentsRemain
  /\ ShownAreMade
  /\ faults.break = 0 => Causal

(***************************************************************************)
(* No call is taken back, not by a restart either.                         *)
(***************************************************************************)
LEMMA MadeGrows ==
  ASSUME TypeOK, [ChatNext]_chatVars, NEW d \in Device
  PROVE  made[d] \in Nat /\ made'[d] \in Nat /\ made[d] <= made'[d]
PROOF
<1>1. made \in [Device -> Nat]
  BY DEF TypeOK
<1>2. CASE made' = made
  BY <1>1, <1>2
<1>3. ASSUME NEW e \in Device, NEW ws \in Seq(Write), Enqueue(e, ws)
      PROVE  made'[d] \in Nat /\ made[d] <= made'[d]
  <2>1. PICK l \in Nat : l = Len(ws)
    OBVIOUS
  <2>2. made' = [made EXCEPT ![e] = @ + l]
    BY <1>3, <2>1 DEF Enqueue
  <2>3. CASE d = e
    BY <1>1, <2>1, <2>2, <2>3
  <2>4. CASE d # e
    BY <1>1, <2>2, <2>4
  <2> QED
    BY <2>3, <2>4
<1> QED
  BY <1>1, <1>2, <1>3, ChatStepIs
     DEF MainStep, WriteLocally, Commit, Refuse, AcknowledgeBatch, RejectBatch,
         BreakStream, ApplyRemoteEvent, Restart, Kill, clientVars

(***************************************************************************)
(* What was on screen is noted of messages that were sent only.            *)
(***************************************************************************)
LEMMA ShownAreMadeKept ==
  ASSUME TypeOK, ShownAreMade, [ChatNext]_chatVars
  PROVE  ShownAreMade'
PROOF
<1> SUFFICES ASSUME NEW d \in Device, NEW i \in 1 .. MaxCalls[d],
                    Message(d, i) \in DOMAIN shown'
             PROVE  i <= made'[d]
  BY DEF ShownAreMade
<1>1. CASE Message(d, i) \in DOMAIN shown
  BY <1>1, MadeGrows DEF ShownAreMade
<1>2. CASE Message(d, i) \notin DOMAIN shown
  <2>1. PICK e \in Device : Notes(e)
    BY <1>2, ShownSteps
  <2>2. DOMAIN shown' = {Message(e, made[e] + 1)} \cup DOMAIN shown
    BY <2>1 DEF Notes, Overlay
  <2>3. e = d /\ i = made[d] + 1
    BY <1>2, <2>2, KeysDiffer
  <2>4. made'[d] = made[d] + 1
    BY <2>1, <2>3 DEF Notes, TypeOK
  <2> QED
    BY <2>3, <2>4
<1> QED
  BY <1>1, <1>2

(***************************************************************************)
(* A message that is stored once is not stored when it is there.           *)
(***************************************************************************)
LEMMA NotAgain ==
  ASSUME TypeOK, NEW e \in Device, StoredOnce(e), NEW m \in Messages, StoresNow(e, m)
  PROVE  ~Exists(Server(m))
PROOF
<1>1. Len(responses[e]) + 1 \in 1 .. Len(queue[e])
  BY NextSentIs DEF StoresNow, Commit
<1>2. PICK p \in 1 .. LineLen(e) : p = Len(responses[e]) + 1 /\ p > Len(responses[e])
  BY <1>1, LineType
<1>3. At(e, p).write.key = m
  BY <1>2 DEF StoresNow
<1> QED
  BY <1>2, <1>3 DEF StoredOnce

(***************************************************************************)
(* While no stream breaks, no message is sent again after it was stored.   *)
(***************************************************************************)
LEMMA StoredOnceKept ==
  ASSUME TypeOK, Numbered, ErrorIsLast, MessagesStored, [ChatNext]_chatVars,
         MaxFaults["kill"] = 0, \A e \in Device : ~BreakStream(e),
         NEW d \in Device, StoredOnce(d)
  PROVE  StoredOnce(d)'
PROOF
<1>1. NumberedOn(d) /\ MessagesTimed
  BY DEF Numbered, MessagesStored
<1>2. PICK L \in Nat, a \in Nat : L = LineLen(d) /\ a = Len(responses[d])
  BY LineType
<1> SUFFICES ASSUME NEW p \in 1 .. LineLen(d)', p > Len(responses'[d]),
                    NEW m \in Messages, At(d, p)'.write.key = m, Exists(Server(m)')
             PROVE  FALSE
  BY DEF StoredOnce, Server, Exists
<1>3. ASSUME NEW e \in Device, StoresNow(e, m)
      PROVE  FALSE
  <2>1. PICK f \in Device : \E i \in 1 .. MaxCalls[f] : m = Message(f, i)
    BY KeysDiffer
  <2>2. PICK i \in 1 .. MaxCalls[f] : m = Message(f, i)
    BY <2>1
  <2>3. /\ e = f
        /\ \E q \in 1 .. LineLen(f) : At(f, q).n = i /\ Len(responses'[f]) = q
    BY <1>3, <2>2, StoringPosition
  <2>4. SameLine(d)
    <3>1. Commit(e)
      BY <1>3 DEF StoresNow
    <3> QED
      BY <3>1, LineUntouched DEF Commit
  <2>5. p \in 1 .. LineLen(d) /\ At(d, p).write.key = m
    BY <2>4 DEF SameLine
  <2>6. d = f /\ At(d, p).n = i
    BY <2>2, <2>5, OwnMessage DEF MessagesStored
  <2>7. PICK q \in 1 .. LineLen(d) : At(d, q).n = i /\ Len(responses'[d]) = q
    BY <2>3, <2>6
  <2>8. At(d, q).n < At(d, p).n /\ At(d, q).n \in Nat
    BY <1>1, <2>5, <2>7, LineNumbers
  <2> QED
    BY <2>6, <2>7, <2>8
<1>4. Exists(Server(m))
  <2>1. Server(m)' = Server(m)
    BY <1>1, <1>3, MessageSteps
  <2> QED
    BY <2>1
<1>5. ASSUME NEW q \in 1 .. L, q > a, At(d, q).write.key = m
      PROVE  FALSE
  BY <1>2, <1>4, <1>5 DEF StoredOnce
<1>6. CASE SameLine(d) /\ SameAnswers(d)
  BY <1>2, <1>5, <1>6 DEF SameLine, SameAnswers
<1>7. ASSUME NEW ws, MainStep(d, ws), LineExtended(d, ws), SameAnswers(d)
      PROVE  FALSE
  <2>1. Len(ws) \in Nat /\ LineLen(d)' = L + Len(ws) /\ Len(responses'[d]) = a
    BY <1>2, <1>7 DEF MainStep, LineExtended, SameAnswers
  <2>2. CASE p \in 1 .. L
    BY <1>2, <1>5, <1>7, <2>1, <2>2 DEF LineExtended
  <2>3. CASE p \notin 1 .. L
    <3>1. PICK i \in 1 .. Len(ws) : p = L + i
      <4>1. p - L \in 1 .. Len(ws) /\ p = L + (p - L)
        BY <2>1, <2>3
      <4> QED
        BY <4>1
    <3>2. ws[i].key = m
      BY <1>2, <1>7, <3>1 DEF LineExtended
    <3>3. m = Message(d, made[d] + 1) /\ made[d] + 1 \in 1 .. MaxCalls[d]
      BY <1>7, <3>2, MadeMessages
    <3>4. made[d] + 1 <= made[d]
      BY <1>4, <3>3, StoredLeftCalls
    <3>5. made[d] \in Nat
      BY DEF TypeOK
    <3> QED
      BY <3>4, <3>5
  <2> QED
    BY <2>2, <2>3
<1>8. ASSUME NEW answer, SameLine(d), AnswersExtended(d, answer)
      PROVE  FALSE
  <2>1. Len(responses'[d]) = a + 1 /\ p \in 1 .. L /\ At(d, p).write.key = m
    BY <1>2, <1>8 DEF AnswersExtended, SameLine
  <2>2. p > a
    BY <2>1
  <2> QED
    BY <1>5, <2>1, <2>2
<1>9. ASSUME NEW b \in Nat, b = Len(responses'[d]), a = b + 1, LineTail(d)
      PROVE  FALSE
  <2>1. p \in 1 .. L - 1 /\ p > b
    BY <1>2, <1>9 DEF LineTail
  <2>2. PICK q \in 1 .. L : q = p + 1 /\ q > a
    BY <1>9, <2>1
  <2>3. At(d, q).write.key = m
    BY <1>2, <1>9, <2>1, <2>2 DEF LineTail
  <2> QED
    BY <1>5, <2>2, <2>3
<1>10. ASSUME LineTail(d), AnswersTail(d)
       PROVE  FALSE
  <2>1. Len(responses'[d]) = Len(responses[d]) - 1 /\ Len(responses[d]) >= 1
    BY <1>10 DEF AnswersTail
  <2>2. PICK b \in Nat : b = Len(responses'[d]) /\ a = b + 1
    <3>1. a >= 1 /\ Len(responses'[d]) = a - 1
      BY <1>2, <2>1
    <3> QED
      BY <3>1
  <2> QED
    BY <1>9, <1>10, <2>2
<1>11. ASSUME RejectBatch(d), LineTail(d), AnswersLost(d)
       PROVE  FALSE
  <2>1. Len(responses'[d]) = 0 /\ a = 0 + 1
    BY <1>2, <1>11, RejectedAlone DEF AnswersLost
  <2> QED
    BY <1>9, <1>11, <2>1
<1>12. ~Restart(d)
  BY NobodyKilled
<1> QED
  <2>1. \/ SameLine(d) /\ SameAnswers(d)
        \/ \E ws : MainStep(d, ws) /\ LineExtended(d, ws) /\ SameAnswers(d)
        \/ SameLine(d) /\ \E answer : AnswersExtended(d, answer)
        \/ LineTail(d) /\ AnswersTail(d)
        \/ RejectBatch(d) /\ LineTail(d) /\ AnswersLost(d)
    BY <1>12, DeviceSteps
  <2> QED
    BY <1>6, <1>7, <1>8, <1>10, <1>11, <2>1

(***************************************************************************)
(* What a step makes of what was noted of a message.                       *)
(***************************************************************************)
LEMMA ShownAfter ==
  ASSUME TypeOK, ChatTypeOK, [ChatNext]_chatVars, NEW m \in DOMAIN shown'
  PROVE  \/ m \in DOMAIN shown /\ shown'[m] = shown[m] /\ shown'[m] \subseteq Messages
         \/ \E d \in Device : /\ Notes(d) /\ m = Message(d, made[d] + 1)
                              /\ shown'[m] = MessagesShown(d)
PROOF
<1>1. CASE shown' = shown
  BY <1>1 DEF ChatTypeOK
<1>2. ASSUME NEW d \in Device, Notes(d)
      PROVE  \/ m \in DOMAIN shown /\ shown'[m] = shown[m] /\ shown'[m] \subseteq Messages
             \/ m = Message(d, made[d] + 1) /\ shown'[m] = MessagesShown(d)
  BY <1>2 DEF Notes, Overlay, ChatTypeOK
<1> QED
  BY <1>1, <1>2, ShownSteps

(***************************************************************************)
(* Every step keeps a message behind what its sender had on screen.        *)
(***************************************************************************)
LEMMA ShownBeforeKept ==
  ASSUME TypeOK, ChatTypeOK, Numbered, MessagesStored, DocumentsRemain, ShownAreMade,
         [ChatNext]_chatVars, MaxFaults["kill"] = 0,
         NEW d \in Device, ShownBefore(d)
  PROVE  ShownBefore(d)'
PROOF
<1>1. NumberedOn(d)
  BY DEF Numbered
<1>2. PICK L \in Nat, n \in Nat : L = LineLen(d) /\ n = made[d]
  BY LineType DEF TypeOK
<1> SUFFICES ASSUME NEW i \in 1 .. MaxCalls[d], Message(d, i) \in DOMAIN shown',
                    NEW p \in 1 .. LineLen(d)', At(d, p)'.write.key = Message(d, i),
                    NEW c \in shown'[Message(d, i)]
             PROVE  Exists(Server(c)') \/ \E q \in 1 .. p - 1 : At(d, q)'.write.key = c
  BY DEF ShownBefore, Server, Exists
<1>3. PICK m \in Messages : m = Message(d, i) /\ m \in DOMAIN shown'
  BY KeysDiffer
<1>4. ASSUME c \in Messages, Exists(Server(c))
      PROVE  Exists(Server(c)')
  BY <1>4, DocumentStays, KeysDiffer
<1>5. CASE \E e \in Device : /\ Notes(e) /\ m = Message(e, made[e] + 1)
                             /\ shown'[m] = MessagesShown(e)
  <2>1. Notes(d) /\ i = n + 1 /\ c \in MessagesShown(d)
    <3>1. PICK e \in Device : /\ Notes(e) /\ m = Message(e, made[e] + 1)
                             /\ shown'[m] = MessagesShown(e)
      BY <1>5
    <3>2. PICK j \in 1 .. MaxCalls[e] : j = made[e] + 1
      BY <3>1 DEF Notes
    <3>3. Message(d, i) = Message(e, j)
      BY <1>3, <3>1, <3>2
    <3>4. e = d /\ i = j
      BY <3>3, KeysDiffer
    <3>5. c \in shown'[m]
      BY <1>3
    <3> QED
      BY <1>2, <3>1, <3>2, <3>4, <3>5
  <2>2. PICK ws : Len(ws) = 1 /\ LineExtended(d, ws)
    <3>1. \A a : Len(<<a>>) = 1
      OBVIOUS
    <3>2. Len(SendMessageWrites(d, made[d] + 1)) = 1
      BY <3>1, ProgramsAre
    <3> QED
      BY <2>1, <3>2 DEF Notes
  <2>3. LineLen(d)' = L + 1
    BY <1>2, <2>2 DEF LineExtended
  <2>4. p = L + 1
    <3>1. ASSUME p \in 1 .. L
          PROVE  FALSE
      <4>1. At(d, p).write.key = Message(d, i)
        BY <1>2, <2>2, <3>1 DEF LineExtended
      <4>2. i = At(d, p).n
        BY <1>2, <3>1, <4>1, OwnMessage DEF MessagesStored
      <4>3. At(d, p).n <= n
        BY <1>1, <1>2, <3>1, LineNumbers
      <4> QED
        BY <2>1, <4>2, <4>3
    <3> QED
      BY <2>3, <3>1
  <2>5. c \in Messages /\ c \in Key /\ Exists(View(d, c))
    BY <2>1, KeysDiffer DEF MessagesShown
  <2>6. CASE Exists(cache[d][c])
    BY <1>4, <2>5, <2>6 DEF DocumentsRemain
  <2>7. CASE \E q \in 1 .. LineLen(d) : At(d, q).write.key = c
    <3>1. PICK q \in 1 .. L : At(d, q).write.key = c
      BY <1>2, <2>7
    <3>2. At(d, q)'.write.key = c /\ q \in 1 .. p - 1
      BY <1>2, <2>2, <2>4, <3>1 DEF LineExtended
    <3> QED
      BY <3>2
  <2> QED
    BY <2>5, <2>6, <2>7, ViewedIsKnown
<1>6. CASE m \in DOMAIN shown /\ shown'[m] = shown[m] /\ shown'[m] \subseteq Messages
  <2>1. c \in Messages /\ c \in shown[m] /\ i <= n
    BY <1>2, <1>3, <1>6 DEF ShownAreMade
  <2>2. ASSUME NEW r \in 1 .. L, At(d, r).write.key = m
        PROVE  Exists(Server(c)') \/ \E q \in 1 .. r - 1 : At(d, q).write.key = c
    BY <1>2, <1>3, <1>4, <1>6, <2>1, <2>2 DEF ShownBefore
  <2>3. CASE SameLine(d)
    <3>1. p \in 1 .. L /\ At(d, p).write.key = m /\ \A q \in 1 .. L : At(d, q)' = At(d, q)
      BY <1>2, <1>3, <2>3 DEF SameLine
    <3>2. \A q \in 1 .. p - 1 : q \in 1 .. L
      BY <3>1
    <3> QED
      BY <2>2, <3>1, <3>2
  <2>4. ASSUME NEW ws, MainStep(d, ws), LineExtended(d, ws)
        PROVE  Exists(Server(c)') \/ \E q \in 1 .. p - 1 : At(d, q)'.write.key = c
    <3>1. /\ Len(ws) \in Nat /\ LineLen(d)' = L + Len(ws)
          /\ \A q \in 1 .. L : At(d, q)' = At(d, q)
      BY <1>2, <2>4 DEF MainStep, LineExtended
    <3>2. CASE p \in 1 .. L
      <4>1. \A q \in 1 .. p - 1 : q \in 1 .. L
        BY <3>2
      <4> QED
        BY <1>3, <2>2, <3>1, <3>2, <4>1
    <3>3. CASE p \notin 1 .. L
      <4>1. PICK j \in 1 .. Len(ws) : p = L + j
        <5>1. p - L \in 1 .. Len(ws) /\ p = L + (p - L)
          BY <3>1, <3>3
        <5> QED
          BY <5>1
      <4>2. ws[j].key = m
        BY <1>2, <1>3, <2>4, <4>1 DEF LineExtended
      <4>3. m = Message(d, n + 1)
        BY <1>2, <2>4, <4>2, MadeMessages
      <4>4. i = n + 1
        <5>1. PICK k \in 1 .. MaxCalls[d] : k = n + 1
          BY <1>2, <2>4, <4>2, MadeMessages
        <5>2. Message(d, i) = Message(d, k)
          BY <1>3, <4>3, <5>1
        <5> QED
          BY <5>1, <5>2, KeysDiffer
      <4> QED
        BY <2>1, <4>4
    <3> QED
      BY <3>2, <3>3
  <2>5. CASE LineTail(d) /\ Answers(d)
    <3>1. LineLen(d)' = L - 1 /\ p \in 1 .. L - 1 /\ L >= 1
      BY <1>2, <2>5 DEF LineTail
    <3>2. PICK r \in 1 .. L : r = p + 1 /\ r - 1 = p
      BY <3>1
    <3>3. At(d, r).write.key = m
      BY <1>2, <1>3, <2>5, <3>1, <3>2 DEF LineTail
    <3>4. ASSUME NEW q \in 1 .. p, At(d, q).write.key = c
          PROVE  Exists(Server(c)') \/ \E t \in 1 .. p - 1 : At(d, t)'.write.key = c
      <4>1. CASE q = 1
        <5>1. 1 \in 1 .. Len(responses[d]) /\ 1 \in 1 .. LineLen(d)
          <6>1. responses[d] # <<>> /\ responses[d] \in Seq(Answer)
            BY <2>5 DEF Answers, AcknowledgeBatch, RejectBatch, TypeOK
          <6>2. Len(responses[d]) >= 1 /\ Len(responses[d]) \in Nat
            BY <6>1, TailFacts
          <6> QED
            BY <1>2, <3>1, <6>2
        <5>2. At(d, 1).write \in Write /\ At(d, 1).write.key = c
          BY <3>4, <4>1, <5>1, LineType
        <5>3. At(d, 1).write.kind # "update"
          BY <2>1, <5>2, WriteParts, KeysDiffer
        <5>4. responses[d][1].ok
          BY <5>1, <5>3 DEF MessagesStored, OnlyUpdatesFail
        <5>5. Exists(Server(c))
          BY <5>1, <5>2, <5>4 DEF DocumentsRemain, AnsweredExists
        <5> QED
          BY <1>4, <2>1, <5>5
      <4>2. CASE q # 1
        <5>1. PICK t \in 1 .. p - 1 : q = t + 1
          <6>1. q - 1 \in 1 .. p - 1 /\ q = (q - 1) + 1
            BY <3>1, <4>2
          <6> QED
            BY <6>1
        <5>2. t \in 1 .. L - 1
          BY <3>1
        <5>3. At(d, t)' = At(d, q)
          BY <1>2, <2>5, <5>1, <5>2 DEF LineTail
        <5> QED
          BY <3>4, <5>3
      <4> QED
        BY <4>1, <4>2
    <3> QED
      BY <2>2, <3>2, <3>3, <3>4
  <2>6. ~Restart(d)
    BY NobodyKilled
  <2> QED
    BY <2>3, <2>4, <2>5, <2>6, DeviceSteps DEF Answers
<1> QED
  BY <1>3, <1>5, <1>6, ShownAfter

(***************************************************************************)
(* A message is stored later than what its sender had on screen.           *)
(***************************************************************************)
LEMMA ShownIsEarlierKept ==
  ASSUME TypeOK, ChatTypeOK, Numbered, MessagesStored, DocumentsRemain, ShownAreMade,
         Causal, [ChatNext]_chatVars
  PROVE  ShownIsEarlier'
PROOF
<1>1. MessagesTimed
  BY DEF MessagesStored
<1> SUFFICES ASSUME NEW m \in DOMAIN shown', Exists(Server(m)'), NEW c \in shown'[m]
             PROVE  Exists(Server(c)') /\ Before(Time(c)', Time(m)')
  BY DEF ShownIsEarlier, Server, Exists, Time, Before
<1>2. ASSUME NEW d \in Device, Notes(d), m = Message(d, made[d] + 1)
      PROVE  FALSE
  <2>1. PICK i \in 1 .. MaxCalls[d] : i = made[d] + 1
    BY <1>2 DEF Notes
  <2>2. UNCHANGED backend
    BY <1>2 DEF Notes
  <2>3. Exists(Server(m))
    BY <2>2 DEF Server, Latest
  <2>4. i <= made[d] /\ made[d] \in Nat
    BY <1>2, <2>1, <2>3, StoredLeftCalls DEF TypeOK
  <2> QED
    BY <2>1, <2>4
<1>3. CASE m \in DOMAIN shown /\ shown'[m] = shown[m] /\ shown'[m] \subseteq Messages
  <2>1. /\ m \in Messages /\ c \in Messages /\ c \in shown[m]
        /\ m \in Key /\ c \in Key
    BY <1>3, KeysDiffer DEF ChatTypeOK
  <2>2. ASSUME Exists(Server(c))
        PROVE  /\ Exists(Server(c)')
               /\ Server(c)' = Server(c) /\ Time(c)' = Time(c)
    <3>1. ~\E e \in Device : StoresNow(e, c)
      BY <2>1, <2>2, NotAgain DEF Causal
    <3> QED
      BY <1>1, <2>1, <2>2, <3>1, MessageSteps, DocumentStays
  <2>3. CASE \E e \in Device : StoresNow(e, m)
    <3>1. PICK e \in Device : StoresNow(e, m)
      BY <2>3
    <3>2. PICK d \in Device : \E j \in 1 .. MaxCalls[d] : m = Message(d, j)
      BY <2>1, KeysDiffer
    <3>3. PICK i \in 1 .. MaxCalls[d] : m = Message(d, i)
      BY <3>2
    <3>4. e = d /\ \E r \in 1 .. LineLen(d) : /\ r = Len(responses[d]) + 1
                                              /\ At(d, r).write.key = m
      BY <3>1, <3>3, StoringPosition
    <3>5. PICK p \in 1 .. LineLen(d) : p = Len(responses[d]) + 1 /\ At(d, p).write.key = m
      BY <3>4
    <3>6. Exists(Server(c)) \/ \E q \in 1 .. p - 1 : At(d, q).write.key = c
      BY <1>3, <2>1, <3>3, <3>5 DEF Causal, ShownBefore
    <3>7. ASSUME NEW q \in 1 .. p - 1, At(d, q).write.key = c
          PROVE  Exists(Server(c))
      <4>1. q \in 1 .. Len(responses[d])
        BY <3>5, LineType
      <4>2. responses[d][q].ok
        BY <3>1, <3>4, <4>1, NextSentIs DEF StoresNow, Commit
      <4> QED
        BY <3>7, <4>1, <4>2 DEF DocumentsRemain, AnsweredExists
    <3>8. Exists(Server(c))
      BY <3>6, <3>7
    <3>9. Before(Time(c), CommitTime(Latest + 1)) /\ Time(m)' = CommitTime(Latest + 1)
      BY <1>1, <2>1, <3>1, <3>8, StoredBefore DEF StoresNow
    <3> QED
      BY <2>2, <3>8, <3>9
  <2>4. CASE ~\E e \in Device : StoresNow(e, m)
    <3>1. Server(m)' = Server(m) /\ Time(m)' = Time(m)
      BY <1>1, <2>1, <2>4, MessageSteps
    <3>2. Exists(Server(m))
      BY <3>1
    <3>3. Exists(Server(c)) /\ Before(Time(c), Time(m))
      BY <1>3, <2>1, <3>2 DEF Causal, ShownIsEarlier
    <3> QED
      BY <2>2, <3>1, <3>3
  <2> QED
    BY <2>3, <2>4
<1> QED
  BY <1>2, <1>3, ShownAfter

(***************************************************************************)
(* While no stream breaks, a message comes after everything its sender had *)
(* on screen when it was sent, whoever sent that and whether or not it was *)
(* on its way.  No app is killed, which has the pipeline sent again as a   *)
(* broken stream has, and no valid write is refused.                       *)
(***************************************************************************)
THEOREM MessagesAreCausal ==
  ASSUME MaxFaults["kill"] = 0, MaxFaults["refuse"] = 0,
         \A m \in Messages : ~Exists(InitialDocuments[m])
  PROVE  ChatSpec => []CausalOrder
PROOF
<1> DEFINE Inv == QueueInvariant /\ ChatTypeOK /\ CausalInvariant
<1>1. ChatInit => Inv
  <2> SUFFICES ASSUME ChatInit PROVE ChatTypeOK /\ CausalInvariant
    BY InitQueueInvariant DEF ChatInit
  <2>1. /\ MessagesStored
        /\ \A d \in Device : LineLen(d) = 0 /\ Len(responses[d]) = 0
    BY MessagesStoredInit
  <2>2. DOMAIN shown = {} /\ screen = [d \in Device |-> <<"contacts">>]
    BY EmptySequence DEF ChatInit
  <2>3. ChatTypeOK
    BY <2>2 DEF ChatTypeOK
  <2>4. DocumentsRemain
    <3>1. /\ backend = <<InitialDocuments>> /\ cache = [d \in Device |-> InitialDocuments]
      BY DEF ChatInit, Init
    <3>2. DOMAIN backend = {1} /\ backend[1] = InitialDocuments /\ Latest = 1
      BY <3>1 DEF Latest
    <3>3. \A d \in Device : AnsweredExists(d)
      BY <2>1 DEF AnsweredExists
    <3> QED
      BY <3>1, <3>2, <3>3 DEF DocumentsRemain, Server
  <2>5. ShownAreMade /\ ShownIsEarlier
    BY <2>2 DEF ShownAreMade, ShownIsEarlier
  <2>6. \A d \in Device : StoredOnce(d) /\ ShownBefore(d)
    BY <2>1 DEF StoredOnce, ShownBefore
  <2> QED
    BY <2>1, <2>3, <2>4, <2>5, <2>6 DEF CausalInvariant, Causal
<1>2. Inv /\ [ChatNext]_chatVars => Inv'
  <2> SUFFICES ASSUME Inv, [ChatNext]_chatVars PROVE Inv'
    OBVIOUS
  <2>1. /\ InductiveInvariant /\ TypeOK /\ Numbered /\ ErrorIsLast
        /\ MessagesStored /\ DocumentsRemain /\ ShownAreMade
    BY DEF QueueInvariant, InductiveInvariant, CausalInvariant
  <2>2. QueueInvariant'
    BY <2>1, ChatStep, NextQueueInvariant
  <2>3. ChatTypeOK'
    BY <2>1, ChatTypeKept
  <2>4. MessagesStored' /\ DocumentsRemain' /\ ShownAreMade'
    BY <2>1, MessagesStoredKept, DocumentsRemainKept, ShownAreMadeKept
  <2>5. ASSUME faults'["break"] = 0
        PROVE  Causal'
    <3>1. faults["break"] = 0 /\ \A d \in Device : ~BreakStream(d)
      BY <2>1, <2>5, NothingBroke
    <3>2. Causal
      BY <3>1 DEF CausalInvariant
    <3>3. ShownIsEarlier'
      BY <2>1, <3>2, ShownIsEarlierKept
    <3>4. ASSUME NEW d \in Device
          PROVE  StoredOnce(d)' /\ ShownBefore(d)'
      BY <2>1, <3>1, <3>2, StoredOnceKept, ShownBeforeKept DEF Causal
    <3> QED
      BY <3>3, <3>4 DEF Causal
  <2> QED
    BY <2>2, <2>3, <2>4, <2>5 DEF CausalInvariant
<1>3. Inv => CausalOrder
  BY DEF CausalInvariant, Causal, ShownIsEarlier, CausalOrder
<1> QED
  BY <1>1, <1>2, <1>3, PTL DEF ChatSpec

-----------------------------------------------------------------------------
(***************************************************************************)
(* The chat was active no earlier than a message, or something is on its   *)
(* way that will see to it: the message itself, its completion handler, or *)
(* the update that the handler makes.                                      *)
(***************************************************************************)
Covered(m) ==
  /\ "chatLastActive" \in DOMAIN Server(ChatDocument).data
  /\ Before(Time(m), Server(ChatDocument).data["chatLastActive"])

Completing(d, m) ==
  \E i \in 1 .. Len(main[d]) : main[d][i].ok /\ main[d][i].write.key = m

ActivityDue(d, m) ==
  InLine(d, m) \/ Completing(d, m) \/ Pending(d, {NotesActivity})

LiveLine(d) == \A p \in 1 .. LineLen(d) : At(d, p).live

ActivityAwaited ==
  \A d \in Device :
    /\ LiveLine(d)
    /\ \A i \in 1 .. MaxCalls[d] :
         Exists(Server(Message(d, i))) =>
           Covered(Message(d, i)) \/ ActivityDue(d, Message(d, i))

(***************************************************************************)
(* While no app is killed every write has its completion handler.          *)
(***************************************************************************)
LEMMA LiveLineKept ==
  ASSUME TypeOK, [ChatNext]_chatVars, MaxFaults["kill"] = 0,
         NEW d \in Device, LiveLine(d)
  PROVE  LiveLine(d)'
PROOF
<1>1. PICK L \in Nat : L = LineLen(d)
  BY LineType
<1>2. CASE SameLine(d)
  BY <1>2 DEF SameLine, LiveLine
<1>3. CASE LineTail(d)
  <2>1. ASSUME NEW p \in 1 .. L - 1
        PROVE  At(d, p)'.live
    <3>1. p + 1 \in 1 .. L
      BY <1>1
    <3> QED
      BY <1>1, <1>3, <3>1 DEF LineTail, LiveLine
  <2> QED
    BY <1>1, <1>3, <2>1 DEF LineTail, LiveLine
<1>4. ASSUME NEW ws, MainStep(d, ws), LineExtended(d, ws)
      PROVE  LiveLine(d)'
  <2>1. PICK l \in Nat : l = Len(ws)
    BY <1>4 DEF MainStep
  <2>2. ASSUME NEW p \in 1 .. L + l
        PROVE  At(d, p)'.live
    <3>1. CASE p \in 1 .. L
      BY <1>1, <1>4, <3>1 DEF LineExtended, LiveLine
    <3>2. CASE p \notin 1 .. L
      <4>1. PICK i \in 1 .. l : p = L + i
        <5>1. p - L \in 1 .. l /\ p = L + (p - L)
          BY <3>2
        <5> QED
          BY <5>1
      <4>2. At(d, p)'.live = TRUE
        BY <1>1, <1>4, <2>1, <4>1 DEF LineExtended
      <4> QED
        BY <4>2
    <3> QED
      BY <3>1, <3>2
  <2>3. LineLen(d)' = L + l
    BY <1>1, <1>4, <2>1 DEF LineExtended
  <2> QED
    BY <2>2, <2>3 DEF LiveLine
<1>5. ~Restart(d)
  BY NobodyKilled
<1> QED
  <2>1. \/ SameLine(d) \/ LineTail(d)
        \/ \E ws : MainStep(d, ws) /\ LineExtended(d, ws)
    BY <1>5, DeviceSteps
  <2> QED
    BY <1>2, <1>3, <1>4, <2>1

(***************************************************************************)
(* What a step makes of the completion handlers that wait on a main queue. *)
(***************************************************************************)
LEMMA HandlerSteps ==
  ASSUME TypeOK, [ChatNext]_chatVars, NEW d \in Device
  PROVE  \/ main'[d] = main[d]
         \/ \E ws : /\ MainStep(d, ws)
                    /\ main[d] # <<>>
                    /\ ws = CompletionWrites(Head(main[d]))
                    /\ main'[d] = Tail(main[d])
         \/ \E handler : /\ Answers(d)
                         /\ handler.write = Head(queue[d]).write
                         /\ main'[d] = Append(main[d], handler)
         \/ Restart(d)
PROOF
<1>1. DOMAIN main = Device
  BY DEF TypeOK
<1>2. ASSUME NEW e \in Device, NEW ws, MainStep(e, ws)
      PROVE  \/ main'[d] = main[d]
             \/ /\ MainStep(d, ws) /\ main[d] # <<>>
                /\ ws = CompletionWrites(Head(main[d]))
                /\ main'[d] = Tail(main[d])
  <2>1. CASE UNCHANGED main
    BY <2>1
  <2>2. CASE /\ main[e] # <<>>
             /\ ws = CompletionWrites(Head(main[e]))
             /\ main' = [main EXCEPT ![e] = Tail(@)]
    BY <1>1, <1>2, <2>2
  <2> QED
    BY <1>2, <2>1, <2>2 DEF MainStep
<1>3. ASSUME NEW e \in Device, NEW batch, NEW ok, NotifyUser(e, batch, ok)
      PROVE  \/ main'[d] = main[d]
             \/ \E handler : /\ d = e /\ handler.write = batch.write
                             /\ main'[d] = Append(main[d], handler)
  BY <1>1, <1>3 DEF NotifyUser
<1>4. ASSUME NEW e \in Device, Restart(e)
      PROVE  main'[d] = main[d] \/ Restart(d)
  BY <1>1, <1>4 DEF Restart, Kill
<1>5. ASSUME NEW e \in Device, AcknowledgeBatch(e) \/ RejectBatch(e)
      PROVE  \/ main'[d] = main[d]
             \/ \E handler : /\ Answers(d)
                             /\ handler.write = Head(queue[d]).write
                             /\ main'[d] = Append(main[d], handler)
  BY <1>3, <1>5 DEF AcknowledgeBatch, RejectBatch, Answers
<1>6. ASSUME NEW e \in Device,
             \/ WriteLocally(e) \/ Commit(e) \/ Refuse(e) \/ BreakStream(e)
             \/ \E v \in 1 .. Latest : ApplyRemoteEvent(e, v)
      PROVE  main'[d] = main[d]
  BY <1>6 DEF WriteLocally, Commit, Refuse, BreakStream, ApplyRemoteEvent
<1> QED
  BY <1>2, <1>4, <1>5, <1>6, ChatStepIs DEF clientVars

(***************************************************************************)
(* A chat that covers a message goes on to cover it: no write of the chat  *)
(* takes the time back.                                                    *)
(***************************************************************************)
LEMMA ChatWritesNote ==
  ASSUME NEW write \in Write, write.key = ChatDocument, NEW data, NEW now
  PROVE  LET new == NewData(write, data, now)
         IN  \/ "chatLastActive" \in DOMAIN new /\ new["chatLastActive"] = now
             \/ "chatLastActive" \in DOMAIN data =>
                  /\ "chatLastActive" \in DOMAIN new
                  /\ new["chatLastActive"] = data["chatLastActive"]
PROOF
<1>1. PICK new : new = NewData(write, data, now)
  OBVIOUS
<1>2. FieldsAre(new, write, data, now)
  BY <1>1, NewDataFields
<1>3. ASSUME NEW f, f \in DOMAIN write.transforms, write.transforms[f].op = "stamp"
      PROVE  f \in DOMAIN new /\ new[f] = now
  BY <1>2, <1>3 DEF FieldsAre, Transformed
<1>4. ASSUME write.kind # "set",
             NEW f \in DOMAIN data,
             f \notin DOMAIN write.transforms \cup DOMAIN write.fields
      PROVE  f \in DOMAIN new /\ new[f] = data[f]
  BY <1>2, <1>4 DEF FieldsAre
<1>5. ASSUME NEW u \in User, write = CreateBaseChatDocument(u)
      PROVE  /\ "chatLastActive" \in DOMAIN write.transforms
             /\ write.transforms["chatLastActive"].op = "stamp"
  BY <1>5 DEF CreateBaseChatDocument, SetData, ServerTimestamp
<1>6. ASSUME write = NotesActivity
      PROVE  /\ "chatLastActive" \in DOMAIN write.transforms
             /\ write.transforms["chatLastActive"].op = "stamp"
  BY <1>6 DEF NotesActivity, MergeData, ServerTimestamp
<1>7. ASSUME NEW u \in User, write = AddsUser(u) \/ write = RemovesUser(u)
      PROVE  /\ write.kind # "set"
             /\ "chatLastActive" \notin DOMAIN write.transforms \cup DOMAIN write.fields
  BY <1>7, PartsAre DEF HasParts
<1>8. ASSUME write = ColoursChat
      PROVE  /\ write.kind # "set"
             /\ "chatLastActive" \notin DOMAIN write.transforms \cup DOMAIN write.fields
  BY <1>8, PartsAre DEF HasParts
<1>9. \/ \E u \in User : \/ write = CreateBaseChatDocument(u)
                         \/ write = AddsUser(u) \/ write = RemovesUser(u)
      \/ write = ColoursChat
      \/ write = NotesActivity
  <2>1. ASSUME NEW u \in User,
               \/ write = CreateChatUserCollection(u) \/ write = MemberDetails(u)
               \/ write = ColoursMember(u) \/ write = NamesMember(u)
        PROVE  FALSE
    BY <2>1, PartsAre, KeysDiffer DEF HasParts
  <2>2. ASSUME NEW d \in Device, NEW i \in 1 .. MaxCalls[d], write = StoresMessage(d, i)
        PROVE  FALSE
    BY <2>2, PartsAre, KeysDiffer DEF HasParts
  <2> QED
    BY <2>1, <2>2, WritesAre DEF IsUserWrite
<1> QED
  BY <1>1, <1>3, <1>4, <1>5, <1>6, <1>7, <1>8, <1>9

(***************************************************************************)
(* A message that is covered and not stored again stays covered.           *)
(***************************************************************************)
LEMMA CoveredStays ==
  ASSUME TypeOK, MessagesTimed, [ChatNext]_chatVars, NEW m \in Messages,
         Exists(Server(m)), Time(m)' = Time(m), Covered(m)
  PROVE  Covered(m)'
PROOF
<1>1. CASE UNCHANGED backend
  BY <1>1 DEF Covered, Server, Latest
<1>2. ASSUME NEW d \in Device, Commit(d)
      PROVE  Covered(m)'
  <2>1. PICK write : write = NextSent(d).write
    OBVIOUS
  <2>2. write \in Write
    BY <1>2, <2>1, NextSentIs DEF Commit
  <2>3. CASE write.key # ChatDocument
    <3>1. Server(ChatDocument)' = Server(ChatDocument)
      BY <1>2, <2>1, <2>3, CommitMakes, KeysDiffer
    <3> QED
      BY <3>1 DEF Covered
  <2>4. CASE write.key = ChatDocument
    <3>1. Server(ChatDocument)'.data
            = NewData(write, Server(ChatDocument).data, CommitTime(Latest + 1))
      BY <1>2, <2>1, <2>4, CommitMakes
    <3>2. Before(Time(m), CommitTime(Latest + 1))
      BY StoredBefore
    <3> QED
      BY <2>2, <2>4, <3>1, <3>2, ChatWritesNote DEF Covered
  <2> QED
    BY <2>3, <2>4
<1> QED
  BY <1>1, <1>2, ServerSteps

(***************************************************************************)
(* The update of the chat covers every message there is.                   *)
(***************************************************************************)
LEMMA ActivityCovers ==
  ASSUME TypeOK, MessagesTimed, NEW d \in Device, Commit(d),
         At(d, Len(responses[d]) + 1).write = NotesActivity,
         NEW m \in Messages, Exists(Server(m)), Time(m)' = Time(m)
  PROVE  Covered(m)'
PROOF
<1>1. PICK write : write = NextSent(d).write
  OBVIOUS
<1>2. write = NotesActivity /\ write.key = ChatDocument
  BY <1>1, NextSentIs, PartsAre DEF Commit, HasParts
<1>3. PICK new : new = NewData(write, Server(ChatDocument).data, CommitTime(Latest + 1))
  OBVIOUS
<1>4. Server(ChatDocument)'.data = new
  BY <1>1, <1>2, <1>3, CommitMakes
<1>5. FieldsAre(new, write, Server(ChatDocument).data, CommitTime(Latest + 1))
  BY <1>3, NewDataFields
<1>6. /\ "chatLastActive" \in DOMAIN write.transforms
      /\ write.transforms["chatLastActive"].op = "stamp"
  BY <1>2 DEF NotesActivity, MergeData, ServerTimestamp
<1>7. "chatLastActive" \in DOMAIN new /\ new["chatLastActive"] = CommitTime(Latest + 1)
  BY <1>5, <1>6 DEF FieldsAre, Transformed
<1>8. Before(Time(m), CommitTime(Latest + 1))
  BY StoredBefore
<1> QED
  BY <1>4, <1>7, <1>8 DEF Covered

(***************************************************************************)
(* What is on its way for a message stays so until the chat covers it.     *)
(***************************************************************************)
LEMMA DueStays ==
  ASSUME TypeOK, ErrorIsLast, [ChatNext]_chatVars,
         MaxFaults["kill"] = 0, MaxFaults["refuse"] = 0,
         NEW d \in Device, LiveLine(d), OnlyUpdatesFail(d),
         NEW m \in Messages, ActivityDue(d, m)
  PROVE  \/ ActivityDue(d, m)'
         \/ Commit(d) /\ At(d, Len(responses[d]) + 1).write = NotesActivity
PROOF
<1>1. ~Restart(d)
  BY NobodyKilled
<1>2. PICK L \in Nat, s \in Nat, a \in Nat :
        L = LineLen(d) /\ s = Len(queue[d]) /\ a = Len(responses[d]) /\ s <= L /\ a <= s
  BY LineType
<1>3. CASE InLine(d, m)
  <2>1. PICK q \in 1 .. L : At(d, q).write.key = m
    BY <1>2, <1>3 DEF InLine
  <2>2. ASSUME NEW p \in 1 .. LineLen(d)', At(d, p)'.write.key = m
        PROVE  ActivityDue(d, m)'
    BY <2>2 DEF ActivityDue, InLine
  <2>3. CASE SameLine(d)
    BY <1>2, <2>1, <2>2, <2>3 DEF SameLine
  <2>4. ASSUME NEW ws, MainStep(d, ws), LineExtended(d, ws)
        PROVE  ActivityDue(d, m)'
    <3>1. Len(ws) \in Nat /\ LineLen(d)' = L + Len(ws) /\ At(d, q)' = At(d, q)
      BY <1>2, <2>1, <2>4 DEF MainStep, LineExtended
    <3>2. q \in 1 .. LineLen(d)'
      BY <3>1
    <3> QED
      BY <2>1, <2>2, <3>1, <3>2
  <2>5. ASSUME LineTail(d), q # 1
        PROVE  ActivityDue(d, m)'
    <3>1. PICK p \in 1 .. L - 1 : q = p + 1
      <4>1. q - 1 \in 1 .. L - 1 /\ q = (q - 1) + 1
        BY <2>5
      <4> QED
        BY <4>1
    <3>2. p \in 1 .. LineLen(d)' /\ At(d, p)' = At(d, q)
      BY <1>2, <2>5, <3>1 DEF LineTail
    <3> QED
      BY <2>1, <2>2, <3>2
  <2>6. ASSUME responses[d] # <<>>
        PROVE  /\ a >= 1 /\ Head(queue[d]) = At(d, 1)
               /\ Head(responses[d]) = responses[d][1]
    <3>1. a # 0
      BY <1>2, <2>6, LineType, EmptySequence
    <3>2. 1 \in 1 .. s /\ 1 \in 1 .. a
      BY <1>2, <3>1
    <3>3. Head(queue[d]) = queue[d][1] /\ Head(responses[d]) = responses[d][1]
      BY <1>2, <3>2, LineType
    <3> QED
      BY <1>2, <3>2, <3>3, LineType
  <2>7. ASSUME AcknowledgeBatch(d), q = 1
        PROVE  ActivityDue(d, m)'
    <3>1. Head(queue[d]) = At(d, 1) /\ At(d, 1).live
      BY <1>2, <2>1, <2>6, <2>7 DEF AcknowledgeBatch, LiveLine
    <3>2. main'[d] = Append(main[d], [n |-> At(d, 1).n, write |-> At(d, 1).write,
                                      ok |-> TRUE])
      BY <2>7, <3>1 DEF AcknowledgeBatch, NotifyUser, TypeOK
    <3>3. PICK h \in Nat : h = Len(main[d]) + 1
      BY LineType
    <3>4. /\ Len(main'[d]) = h
          /\ main'[d][h] = [n |-> At(d, 1).n, write |-> At(d, 1).write, ok |-> TRUE]
      BY <3>2, <3>3, LineType
    <3>5. h \in 1 .. Len(main'[d]) /\ main'[d][h].ok /\ main'[d][h].write.key = m
      BY <2>1, <2>7, <3>3, <3>4, LineType
    <3> QED
      BY <3>5 DEF ActivityDue, Completing
  <2>8. ASSUME RejectBatch(d)
        PROVE  q # 1
    <3>1. 1 \in 1 .. a /\ ~responses[d][1].ok
      BY <1>2, <2>6, <2>8 DEF RejectBatch
    <3>2. At(d, 1).write.kind = "update"
      BY <1>2, <3>1 DEF OnlyUpdatesFail
    <3>3. ASSUME q = 1
          PROVE  FALSE
      <4>1. At(d, 1).write \in Write
        BY <1>2, <2>1, <3>3, LineType
      <4>2. m = ChatDocument
        BY <2>1, <3>2, <3>3, <4>1, WriteParts
      <4> QED
        BY <4>2, KeysDiffer
    <3> QED
      BY <3>3
  <2> QED
    <3>1. \/ SameLine(d)
          \/ \E ws : MainStep(d, ws) /\ LineExtended(d, ws)
          \/ AcknowledgeBatch(d) /\ LineTail(d)
          \/ RejectBatch(d) /\ LineTail(d)
      BY <1>1, DeviceSteps
    <3> QED
      BY <2>3, <2>4, <2>5, <2>7, <2>8, <3>1
<1>4. CASE Completing(d, m)
  <2>1. PICK M \in Nat : M = Len(main[d])
    BY LineType
  <2>2. PICK h \in 1 .. M : main[d][h].ok /\ main[d][h].write.key = m
    BY <1>4, <2>1 DEF Completing
  <2>3. ASSUME NEW i \in 1 .. Len(main'[d]), main'[d][i].ok, main'[d][i].write.key = m
        PROVE  ActivityDue(d, m)'
    BY <2>3 DEF ActivityDue, Completing
  <2>4. CASE main'[d] = main[d]
    BY <2>1, <2>2, <2>3, <2>4
  <2>5. ASSUME NEW handler, main'[d] = Append(main[d], handler)
        PROVE  ActivityDue(d, m)'
    <3>1. Len(main'[d]) = M + 1 /\ main'[d][h] = main[d][h]
      BY <2>1, <2>2, <2>5, LineType
    <3>2. h \in 1 .. Len(main'[d])
      BY <3>1
    <3> QED
      BY <2>2, <2>3, <3>1, <3>2
  <2>6. ASSUME NEW ws, MainStep(d, ws), main[d] # <<>>,
               ws = CompletionWrites(Head(main[d])), main'[d] = Tail(main[d])
        PROVE  ActivityDue(d, m)'
    <3>1. CASE h # 1
      <4>1. PICK i \in 1 .. M - 1 : h = i + 1
        <5>1. h - 1 \in 1 .. M - 1 /\ h = (h - 1) + 1
          BY <3>1
        <5> QED
          BY <5>1
      <4>2. Len(main'[d]) = M - 1 /\ main'[d][i] = main[d][i + 1]
        BY <2>1, <2>6, <4>1, LineType
      <4> QED
        BY <2>2, <2>3, <4>1, <4>2
    <3>2. CASE h = 1
      <4>1. Head(main[d]) = main[d][1]
        BY <2>1, <2>2, <3>2, LineType
      <4>2. ws = <<NotesActivity>>
        BY <2>2, <2>6, <3>2, <4>1, ProgramsAre DEF CompletionWrites, IsMessage
      <4>3. Len(ws) = 1 /\ ws[1] = NotesActivity
        <5>1. \A x : Len(<<x>>) = 1 /\ <<x>>[1] = x
          OBVIOUS
        <5> QED
          BY <4>2, <5>1
      <4>4. LineExtended(d, ws) /\ UNCHANGED responses
        BY <2>6, EnqueueLine DEF MainStep
      <4>5. LineLen(d)' = L + 1 /\ At(d, L + 1)'.write = NotesActivity
        <5>1. 1 \in 1 .. Len(ws) /\ L + 1 \in Nat
          BY <4>3
        <5> QED
          BY <1>2, <4>3, <4>4, <5>1 DEF LineExtended
      <4>6. PICK p \in Nat : p = L + 1
        OBVIOUS
      <4>7. p \in 1 .. LineLen(d)' /\ p > Len(responses'[d]) /\ At(d, p)'.write = NotesActivity
        BY <1>2, <4>4, <4>5, <4>6
      <4> QED
        BY <4>7 DEF ActivityDue, Pending
    <3> QED
      BY <3>1, <3>2
  <2> QED
    BY <1>1, <2>4, <2>5, <2>6, HandlerSteps
<1>5. CASE Pending(d, {NotesActivity})
  <2>1. \A write \in {NotesActivity} : write.kind # "update"
    BY PartsAre DEF HasParts
  <2>2. \/ Pending(d, {NotesActivity})'
        \/ Commit(d) /\ At(d, Len(responses[d]) + 1).write \in {NotesActivity}
    BY <1>1, <1>5, <2>1, PendingStays
  <2> QED
    BY <2>2 DEF ActivityDue
<1> QED
  BY <1>3, <1>4, <1>5 DEF ActivityDue

(***************************************************************************)
(* Every step keeps it.                                                    *)
(***************************************************************************)
LEMMA ActivityAwaitedKept ==
  ASSUME TypeOK, ErrorIsLast, MessagesStored, ActivityAwaited, [ChatNext]_chatVars,
         MaxFaults["kill"] = 0, MaxFaults["refuse"] = 0
  PROVE  ActivityAwaited'
PROOF
<1>1. MessagesTimed
  BY DEF MessagesStored
<1>2. ASSUME NEW d \in Device
      PROVE  LiveLine(d)'
  BY LiveLineKept DEF ActivityAwaited
<1>3. ASSUME NEW d \in Device, NEW i \in 1 .. MaxCalls[d],
             Exists(Server(Message(d, i))')
      PROVE  Covered(Message(d, i))' \/ ActivityDue(d, Message(d, i))'
  <2>1. PICK m \in Messages : m = Message(d, i)
    BY KeysDiffer
  <2>2. CASE \E e \in Device : StoresNow(e, m)
    <3>1. PICK e \in Device : StoresNow(e, Message(d, i))
      BY <2>1, <2>2
    <3>2. PICK p \in 1 .. LineLen(d) : At(d, p).write.key = Message(d, i) /\ SameLine(d)
      BY <3>1, StoringPosition
    <3>3. p \in 1 .. LineLen(d)' /\ At(d, p)'.write.key = Message(d, i)
      BY <3>2 DEF SameLine
    <3> QED
      BY <3>3 DEF ActivityDue, InLine
  <2>3. CASE Server(m)' = Server(m) /\ Time(m)' = Time(m)
    <3>1. Exists(Server(m))
      BY <1>3, <2>1, <2>3
    <3>2. CASE Covered(m)
      BY <1>1, <2>1, <2>3, <3>1, <3>2, CoveredStays
    <3>3. CASE ActivityDue(d, m)
      <4>1. LiveLine(d) /\ OnlyUpdatesFail(d)
        BY DEF ActivityAwaited, MessagesStored
      <4>2. \/ ActivityDue(d, m)'
            \/ Commit(d) /\ At(d, Len(responses[d]) + 1).write = NotesActivity
        BY <3>3, <4>1, DueStays
      <4>3. Covered(m)' \/ ActivityDue(d, m)'
        BY <1>1, <2>3, <3>1, <4>2, ActivityCovers
      <4> QED
        BY <2>1, <4>3
    <3> QED
      BY <2>1, <3>1, <3>2, <3>3 DEF ActivityAwaited
  <2> QED
    BY <1>1, <2>2, <2>3, MessageSteps
<1> QED
  BY <1>2, <1>3 DEF ActivityAwaited, Server, Exists

(***************************************************************************)
(* When nothing is on its way, the chat was last active no earlier than    *)
(* its newest message, through broken streams and repeated messages: the   *)
(* handler of sendMessage (MessagesManager.swift) runs after the message   *)
(* was stored and makes an update that is stored later.  No app is killed, *)
(* which loses the handler, and no valid write is refused.                 *)
(***************************************************************************)
THEOREM LastActivityCovers ==
  ASSUME MaxFaults["kill"] = 0, MaxFaults["refuse"] = 0,
         \A m \in Messages : ~Exists(InitialDocuments[m])
  PROVE  ChatSpec => []LastActiveCovers
PROOF
<1> DEFINE Inv == QueueInvariant /\ MessagesStored /\ ActivityAwaited
<1>1. ChatInit => Inv
  <2> SUFFICES ASSUME ChatInit PROVE MessagesStored /\ ActivityAwaited
    BY InitQueueInvariant DEF ChatInit
  <2>1. /\ MessagesStored
        /\ \A m \in Messages : ~Exists(Server(m))
        /\ \A d \in Device : LineLen(d) = 0
    BY MessagesStoredInit
  <2>2. \A d \in Device : LiveLine(d)
    BY <2>1 DEF LiveLine
  <2> QED
    BY <2>1, <2>2, KeysDiffer DEF ActivityAwaited
<1>2. Inv /\ [ChatNext]_chatVars => Inv'
  <2> SUFFICES ASSUME Inv, [ChatNext]_chatVars PROVE Inv'
    OBVIOUS
  <2>1. InductiveInvariant /\ TypeOK /\ ErrorIsLast
    BY DEF QueueInvariant, InductiveInvariant
  <2>2. QueueInvariant'
    BY <2>1, ChatStep, NextQueueInvariant
  <2> QED
    BY <2>1, <2>2, MessagesStoredKept, ActivityAwaitedKept
<1>3. Inv => LastActiveCovers
  <2> SUFFICES ASSUME Inv, \A d \in Device : Quiet(d),
                      NEW m \in Messages, Exists(Server(m))
               PROVE  Before(Time(m), Server(ChatDocument).data["chatLastActive"])
    BY DEF LastActiveCovers
  <2>1. PICK d \in Device : \E i \in 1 .. MaxCalls[d] : m = Message(d, i)
    BY KeysDiffer
  <2>2. Covered(m) \/ ActivityDue(d, m)
    BY <2>1 DEF ActivityAwaited
  <2>3. Len(queue[d]) = 0 /\ Len(calls[d]) = 0 /\ Len(main[d]) = 0
    BY DEF Quiet
  <2>4. LineLen(d) = 0
    BY <2>3 DEF LineLen
  <2>5. ~ActivityDue(d, m)
    BY <2>3, <2>4 DEF ActivityDue, InLine, Completing, Pending
  <2> QED
    BY <2>2, <2>5 DEF Covered
<1> QED
  BY <1>1, <1>2, <1>3, PTL DEF ChatSpec

-----------------------------------------------------------------------------
(***************************************************************************)
(* The documents the screens show, with the fields that their listeners    *)
(* force-unwrap.  A write is whole when it brings them all.                *)
(***************************************************************************)
ShownKeys == {ChatDocument} \cup {Member(u) : u \in User}

Needed(k) ==
  IF k = ChatDocument THEN {"name", "colour", "users"} ELSE {"name", "colour"}

Whole(write) ==
  /\ write.key \in ShownKeys
  /\ write.kind # "update"
  /\ Needed(write.key) \subseteq DOMAIN write.fields

(***************************************************************************)
(* A document has the fields, or there is none.                            *)
(***************************************************************************)
Sound(doc, k) ==
  IF Exists(doc) THEN Needed(k) \subseteq DOMAIN doc.data
  ELSE doc.type = "none" /\ doc.version = 0

(***************************************************************************)
(* The first n writes of a device's line leave it with the document k.     *)
(***************************************************************************)
Held(d, k, n) ==
  \/ Exists(cache[d][k])
  \/ \E q \in 1 .. n : At(d, q).write.key = k /\ Whole(At(d, q).write)

(***************************************************************************)
(* The document without which a write is not made: a message is of a chat. *)
(***************************************************************************)
Ground(write) == IF write.key \in Messages THEN ChatDocument ELSE write.key

LineHeld(d) ==
  \A p \in 1 .. LineLen(d) :
    Whole(At(d, p).write) \/ Held(d, Ground(At(d, p).write), p - 1)

HandlersHeld(d) ==
  \A i \in 1 .. Len(main[d]) :
    main[d][i].write.key \in Messages => Exists(cache[d][ChatDocument])

ScreenHeld(d) ==
  /\ OnChat(d) => Held(d, ChatDocument, Len(queue[d]))
  /\ \A u \in User : screen[d] = Member(u) => Held(d, Member(u), Len(queue[d]))

DocumentsSound ==
  \A k \in ShownKeys :
    /\ \A v \in DOMAIN backend : Sound(backend[v][k], k)
    /\ \A d \in Device : Sound(cache[d][k], k)

ScreensHeld ==
  /\ DocumentsSound
  /\ DocumentsRemain
  /\ \A d \in Device : /\ LineHeld(d)
                       /\ HandlersHeld(d)
                       /\ ScreenHeld(d)
                       /\ OnlyUpdatesFail(d)

LEMMA ShownKeysAre ==
  /\ ShownKeys \subseteq Key
  /\ ChatDocument \in ShownKeys
  /\ \A u \in User : Member(u) \in ShownKeys
  /\ \A m \in Messages : m \notin ShownKeys
  /\ \A write \in Write : Ground(write) \in ShownKeys
  /\ \A write : write.key \in ShownKeys => Ground(write) = write.key
PROOF
<1>1. /\ ShownKeys \subseteq Key
      /\ ChatDocument \in ShownKeys
      /\ \A u \in User : Member(u) \in ShownKeys
      /\ \A m \in Messages : m \notin ShownKeys
  BY KeysDiffer DEF ShownKeys
<1>2. ASSUME NEW write \in Write
      PROVE  Ground(write) \in ShownKeys
  BY <1>1, WriteParts DEF Ground
<1> QED
  BY <1>1, <1>2 DEF Ground

(***************************************************************************)
(* What replaces a shown document as a whole is whole itself.              *)
(***************************************************************************)
LEMMA SetsAreWhole ==
  ASSUME NEW write \in Write, write.key \in ShownKeys, write.kind = "set"
  PROVE  Whole(write)
PROOF
<1>1. ASSUME NEW u \in User, write = CreateBaseChatDocument(u)
      PROVE  Whole(write)
  BY <1>1, PartsAre DEF HasParts, Whole, Needed
<1>2. ASSUME NEW u \in User, write = CreateChatUserCollection(u) \/ write = MemberDetails(u)
      PROVE  Whole(write)
  <2>1. /\ write.key = Member(u) /\ write.kind = "set"
        /\ {"name", "colour"} \subseteq DOMAIN write.fields
    BY <1>2, PartsAre DEF HasParts
  <2>2. Needed(write.key) = {"name", "colour"}
    BY <2>1, KeysDiffer DEF Needed
  <2> QED
    BY <2>1, <2>2 DEF Whole
<1>3. ASSUME NEW u \in User,
             \/ write = AddsUser(u) \/ write = RemovesUser(u)
             \/ write = ColoursMember(u) \/ write = NamesMember(u)
      PROVE  FALSE
  BY <1>3, PartsAre DEF HasParts
<1>4. ASSUME NEW d \in Device, NEW i \in 1 .. MaxCalls[d], write = StoresMessage(d, i)
      PROVE  FALSE
  BY <1>4, PartsAre, KeysDiffer, ShownKeysAre DEF HasParts
<1>5. ASSUME write = ColoursChat \/ write = NotesActivity
      PROVE  FALSE
  BY <1>5, PartsAre DEF HasParts
<1> QED
  BY <1>1, <1>2, <1>3, <1>4, <1>5, WritesAre DEF IsUserWrite

(***************************************************************************)
(* A write of a document that has the fields leaves it with them; a whole  *)
(* write brings them.                                                      *)
(***************************************************************************)
LEMMA NewDataNeeded ==
  ASSUME NEW write \in Write, NEW k \in ShownKeys, write.key = k, NEW data, NEW now,
         Whole(write) \/ Needed(k) \subseteq DOMAIN data
  PROVE  Needed(k) \subseteq DOMAIN NewData(write, data, now)
PROOF
<1>1. PICK new : new = NewData(write, data, now)
  OBVIOUS
<1>2. FieldsAre(new, write, data, now)
  BY <1>1, NewDataFields
<1>3. CASE Whole(write)
  BY <1>1, <1>2, <1>3 DEF Whole, FieldsAre
<1>4. CASE ~Whole(write)
  <2>1. write.kind # "set"
    BY <1>4, SetsAreWhole
  <2>2. Needed(k) \subseteq DOMAIN data
    BY <1>4
  <2> QED
    BY <1>1, <1>2, <2>1, <2>2 DEF FieldsAre
<1> QED
  BY <1>3, <1>4

-----------------------------------------------------------------------------
(***************************************************************************)
(* A device that holds a document shows it with all its fields.            *)
(***************************************************************************)
LEMMA HeldIsShown ==
  ASSUME TypeOK, DocumentsSound, NEW d \in Device, LineHeld(d), NEW k \in ShownKeys,
         Held(d, k, Len(queue[d]))
  PROVE  Shows(d, k, Needed(k))
PROOF
<1> DEFINE q == queue[d]
<1>1. /\ q \in Seq(Batch) /\ Len(q) \in Nat
      /\ \A p \in 1 .. Len(q) : /\ At(d, p) = q[p] /\ p \in 1 .. LineLen(d)
                                /\ q[p].write \in Write
  <2>1. /\ queue[d] \in Seq(Batch)
        /\ Len(queue[d]) \in Nat /\ LineLen(d) \in Nat
        /\ Len(queue[d]) <= LineLen(d)
        /\ \A p \in 1 .. LineLen(d) : At(d, p).write \in Write
        /\ \A p \in 1 .. Len(queue[d]) : At(d, p) = queue[d][p]
    BY LineType
  <2>2. ASSUME NEW p \in 1 .. Len(queue[d])
        PROVE  p \in 1 .. LineLen(d)
    BY <2>1
  <2> QED
    BY <2>1, <2>2
<1>2. Held(d, k, Len(q))
  OBVIOUS
<1> HIDE DEF q
<1>3. k \in Key
  BY ShownKeysAre
<1>4. PICK views : /\ AreViews(views, cache[d][k], q, k)
                   /\ View(d, k) = views[Len(q)]
  BY <1>1, <1>3, GetDocumentIsLastView DEF View, q
<1> DEFINE Has(n) == Exists(views[n]) /\ Needed(k) \subseteq DOMAIN views[n].data
           Fine(n) == Held(d, k, n) => Has(n)
           T == {n \in 0 .. Len(q) : Fine(n)}
<1>5. 0 \in T
  <2>1. Fine(0)
    BY <1>4 DEF AreViews, Held, DocumentsSound, Sound
  <2> QED
    BY <1>1, <2>1
<1>6. ASSUME NEW n \in 1 .. Len(q), n - 1 \in T
      PROVE  n \in T
  <2>1. /\ views[n] = ApplyToLocalDocument(q[n], k, views[n - 1])
        /\ At(d, n) = q[n] /\ q[n].write \in Write /\ n \in 1 .. LineLen(d)
    BY <1>1, <1>4 DEF AreViews
  <2>2. SUFFICES ASSUME Held(d, k, n) PROVE Has(n)
    BY <1>1
  <2>3. Held(d, k, n - 1) => Has(n - 1)
    BY <1>6
  <2>4. CASE q[n].write.key # k
    <3>1. views[n] = views[n - 1]
      BY <2>1, <2>4 DEF ApplyToLocalDocument
    <3>2. Held(d, k, n - 1)
      <4>1. ASSUME NEW p \in 1 .. n, At(d, p).write.key = k
            PROVE  p \in 1 .. n - 1
        <5>1. p # n
          BY <2>1, <2>4, <4>1
        <5> QED
          BY <5>1
      <4> QED
        BY <2>2, <4>1 DEF Held
    <3> QED
      BY <2>3, <3>1, <3>2
  <2>5. CASE q[n].write.key = k
    <3>1. Whole(q[n].write) \/ Has(n - 1)
      <4>1. Ground(q[n].write) = k
        BY <2>5, ShownKeysAre
      <4> QED
        BY <2>1, <2>3, <4>1 DEF LineHeld
    <3>2. IsValidFor(q[n].write, views[n - 1])
      BY <3>1 DEF Whole, IsValidFor
    <3>3. /\ views[n].type = "document"
          /\ views[n].data = NewData(q[n].write, views[n - 1].data, EstimatedTime(q[n].n))
      BY <2>1, <2>5, <3>2 DEF ApplyToLocalDocument, ApplyToLocalView
    <3>4. Needed(k) \subseteq DOMAIN views[n].data
      BY <2>1, <2>5, <3>1, <3>3, NewDataNeeded
    <3> QED
      BY <3>3, <3>4 DEF Exists
  <2> QED
    BY <2>4, <2>5
<1>7. Fine(Len(q))
  <2> HIDE DEF T
  <2>1. \A n \in 0 .. Len(q) : n \in T
    BY <1>1, <1>5, <1>6, AlongQueue
  <2>2. Len(q) \in T
    BY <1>1, <2>1
  <2> QED
    BY <2>2 DEF T
<1> QED
  BY <1>2, <1>4, <1>7 DEF Shows

(***************************************************************************)
(* A device holds what it shows.                                           *)
(***************************************************************************)
LEMMA ShownIsHeld ==
  ASSUME TypeOK, NEW d \in Device, LineHeld(d), NEW k \in ShownKeys, Exists(View(d, k))
  PROVE  Held(d, k, Len(queue[d]))
PROOF
<1>1. PICK s \in Nat : s = Len(queue[d]) /\ s <= LineLen(d) /\ LineLen(d) \in Nat
  BY LineType
<1>2. \/ Exists(cache[d][k])
      \/ \E p \in 1 .. s : At(d, p).write.key = k
  BY <1>1, ViewedIsQueued, ShownKeysAre
<1>3. ASSUME NEW p \in 1 .. s, At(d, p).write.key = k
      PROVE  Held(d, k, s)
  <2>1. p \in 1 .. LineLen(d) /\ \A r \in 1 .. p - 1 : r \in 1 .. s
    BY <1>1
  <2>2. Ground(At(d, p).write) = k
    BY <1>3, ShownKeysAre
  <2>3. Whole(At(d, p).write) \/ Held(d, k, p - 1)
    BY <2>1, <2>2 DEF LineHeld
  <2> QED
    BY <1>3, <2>1, <2>3 DEF Held
<1> QED
  BY <1>1, <1>2, <1>3 DEF Held

(***************************************************************************)
(* A cached document has a version; without one there is no document.      *)
(***************************************************************************)
LEMMA VersionsTell ==
  ASSUME TypeOK, CacheFaithful, DocumentsSound, NEW d \in Device, NEW k \in ShownKeys
  PROVE  /\ Exists(cache[d][k]) <=> cache[d][k].version >= 1
         /\ \A v \in DOMAIN backend : Exists(backend[v][k]) <=> backend[v][k].version >= 1
         /\ cache[d][k].version \in Nat
         /\ \A v \in DOMAIN backend : backend[v][k].version \in Nat
PROOF
<1>1. k \in Key
  BY ShownKeysAre
<1>2. /\ IsDocument(cache[d][k]) /\ seen[d] \in DOMAIN backend /\ seen[d] \in Nat
      /\ \A v \in DOMAIN backend : IsServerDocument(backend[v][k], v)
  BY <1>1 DEF TypeOK, Latest
<1>3. \A v \in DOMAIN backend : /\ Exists(backend[v][k]) <=> backend[v][k].version >= 1
                                /\ backend[v][k].version \in Nat
  BY <1>2 DEF DocumentsSound, Sound, IsServerDocument, IsDocument, Exists
<1>4. cache[d][k].version \in Nat
  BY <1>2 DEF IsDocument
<1>5. cache[d][k].version >= 1 => Exists(cache[d][k])
  BY <1>4 DEF DocumentsSound, Sound
<1>6. ASSUME Exists(cache[d][k])
      PROVE  cache[d][k].version >= 1
  <2>1. CASE cache[d][k] = backend[seen[d]][k]
    BY <1>2, <1>3, <1>6, <2>1
  <2>2. CASE AheadOfWatch(d, k)
    <3>1. cache[d][k].version \in seen[d] + 1 .. Latest
      BY <2>2 DEF AheadOfWatch
    <3> QED
      BY <1>2, <1>4, <3>1
  <2> QED
    BY <1>1, <2>1, <2>2 DEF CacheFaithful
<1> QED
  BY <1>3, <1>4, <1>5, <1>6

(***************************************************************************)
(* A cache keeps what it has of a shown document.                          *)
(***************************************************************************)
LEMMA CachedStays ==
  ASSUME TypeOK, CacheFaithful, DocumentsSound, [ChatNext]_chatVars,
         NEW d \in Device, NEW k \in ShownKeys, Exists(cache[d][k])
  PROVE  Exists(cache'[d][k])
PROOF
<1>1. k \in Key
  BY ShownKeysAre
<1>2. ASSUME NEW v \in DOMAIN backend, cache'[d][k] = backend[v][k],
             AcceptsWatchUpdate(cache[d][k], backend[v][k])
      PROVE  Exists(cache'[d][k])
  <2>1. backend[v][k].version >= cache[d][k].version
    BY <1>2, VersionsTell DEF AcceptsWatchUpdate
  <2>2. backend[v][k].version >= 1
    BY <2>1, VersionsTell
  <2> QED
    BY <1>2, <2>2, VersionsTell
<1>3. CASE Acknowledged(d, k)
  BY <1>3 DEF Acknowledged, ApplyToRemoteDocument, IsValidFor, Exists
<1> QED
  BY <1>1, <1>2, <1>3, CachedChanges

(***************************************************************************)
(* The acknowledgement of a whole write leaves the cache with a document.  *)
(***************************************************************************)
LEMMA WholeIsCached ==
  ASSUME TypeOK, CacheFaithful, AnswersTrue, DocumentsSound, NEW d \in Device,
         AcknowledgeBatch(d), NEW k \in ShownKeys,
         At(d, 1).write.key = k, Whole(At(d, 1).write)
  PROVE  Exists(cache'[d][k])
PROOF
<1>1. k \in Key /\ DOMAIN cache = Device /\ DOMAIN cache[d] = Key
  BY ShownKeysAre DEF TypeOK
<1>2. /\ responses[d] # <<>> /\ Head(responses[d]).ok
      /\ queue' = [queue EXCEPT ![d] = Tail(@)] /\ UNCHANGED calls
      /\ cache' = [cache EXCEPT ![d][Head(queue[d]).write.key] =
                     ApplyBatchResult(Head(queue[d]).write, @, Head(responses[d]).version)]
  BY DEF AcknowledgeBatch
<1>3. /\ Head(queue[d]) = At(d, 1) /\ Head(responses[d]) = responses[d][1]
      /\ Len(queue[d]) >= 1 /\ Len(responses[d]) >= 1
  BY <1>2, AnswerLine
<1>4. 1 \in DOMAIN responses[d]
  BY <1>3, LineType
<1>5. responses[d][1].version \in 1 .. Latest /\ Latest \in Nat
  <2>1. responses[d][1].version \in 1 .. Latest
    BY <1>2, <1>3, <1>4 DEF AnswersTrue
  <2>2. Latest \in Nat
    BY DEF TypeOK, Latest
  <2> QED
    BY <2>1, <2>2
<1>6. cache'[d][k] = ApplyBatchResult(At(d, 1).write, cache[d][k], responses[d][1].version)
  BY <1>1, <1>2, <1>3
<1>7. CASE cache[d][k].version < responses[d][1].version
  <2>1. IsValidFor(At(d, 1).write, cache[d][k])
    BY DEF Whole, IsValidFor
  <2> QED
    BY <1>6, <1>7, <2>1 DEF ApplyBatchResult, ApplyToRemoteDocument, Exists
<1>8. CASE ~(cache[d][k].version < responses[d][1].version)
  <2>1. cache[d][k].version >= 1
    BY <1>5, <1>8, VersionsTell
  <2> QED
    BY <1>6, <1>8, <2>1, VersionsTell DEF ApplyBatchResult
<1> QED
  BY <1>7, <1>8

(***************************************************************************)
(* What is acknowledged is whole, or of a document that is there.          *)
(***************************************************************************)
LEMMA CachedIsSound ==
  ASSUME TypeOK, DocumentsSound, [ChatNext]_chatVars, NEW d \in Device, LineHeld(d),
         NEW k \in ShownKeys
  PROVE  Sound(cache'[d][k], k)
PROOF
<1>1. CASE Acknowledged(d, k)
  <2>1. PICK write \in Write : write = At(d, 1).write
    BY <1>1 DEF Acknowledged
  <2>2. write.key = k /\ Ground(write) = k
    BY <1>1, <2>1, ShownKeysAre DEF Acknowledged
  <2>3. Whole(write) \/ Held(d, k, 0)
    <3>1. 1 \in 1 .. LineLen(d) /\ 1 - 1 = 0
      BY <1>1 DEF Acknowledged
    <3> QED
      BY <2>1, <2>2, <3>1 DEF LineHeld
  <2>4. Held(d, k, 0) => Exists(cache[d][k])
    BY DEF Held
  <2>5. IsValidFor(write, cache[d][k])
    BY <2>3, <2>4 DEF Whole, IsValidFor
  <2>6. /\ cache'[d][k].type = "document"
        /\ cache'[d][k].data
             = NewData(write, cache[d][k].data, CommitTime(responses[d][1].version))
    BY <1>1, <2>1, <2>5 DEF Acknowledged, ApplyToRemoteDocument
  <2>7. Whole(write) \/ Needed(k) \subseteq DOMAIN cache[d][k].data
    BY <2>3, <2>4 DEF DocumentsSound, Sound
  <2>8. Needed(k) \subseteq DOMAIN cache'[d][k].data
    BY <2>2, <2>6, <2>7, NewDataNeeded
  <2> QED
    BY <2>6, <2>8 DEF Sound, Exists
<1>2. CASE ~Acknowledged(d, k)
  BY <1>2, CachedChanges, ShownKeysAre DEF DocumentsSound
<1> QED
  BY <1>1, <1>2

(***************************************************************************)
(* A write of a shown document is committed to one that is there, or is    *)
(* whole: what its device holds, the server has.                           *)
(***************************************************************************)
LEMMA CommittedIsSound ==
  ASSUME TypeOK, DocumentsSound, DocumentsRemain, NEW d \in Device, LineHeld(d), Commit(d),
         NEW k \in ShownKeys
  PROVE  Sound(Server(k)', k)
PROOF
<1>1. PICK write \in Write : write = NextSent(d).write
  BY NextSentIs DEF Commit
<1>2. PICK a \in Nat, L \in Nat :
        /\ a = Len(responses[d]) /\ L = LineLen(d) /\ a + 1 \in 1 .. L
        /\ write = At(d, a + 1).write
        /\ \A i \in 1 .. a : responses[d][i].ok
  <2>1. PICK a \in Nat, L \in Nat, s \in Nat :
          a = Len(responses[d]) /\ L = LineLen(d) /\ s = Len(queue[d]) /\ s <= L
    BY LineType
  <2>2. a + 1 \in 1 .. s
    BY <2>1, NextSentIs DEF Commit
  <2> QED
    BY <1>1, <2>1, <2>2, NextSentIs DEF Commit
<1>3. Sound(Server(k), k)
  BY DEF DocumentsSound, Server, TypeOK, Latest
<1>4. CASE write.key # k
  BY <1>1, <1>3, <1>4, CommitMakes, ShownKeysAre
<1>5. CASE write.key = k
  <2>1. /\ Exists(Server(k)')
        /\ Server(k)'.data = NewData(write, Server(k).data, CommitTime(Latest + 1))
    BY <1>1, <1>5, CommitMakes
  <2>2. Whole(write) \/ Held(d, k, a)
    <3>1. Ground(write) = k
      BY <1>5, ShownKeysAre
    <3>2. PICK p \in 1 .. L : p = a + 1 /\ p - 1 = a
      BY <1>2
    <3> QED
      BY <1>2, <3>1, <3>2 DEF LineHeld
  <2>3. ASSUME Held(d, k, a)
        PROVE  Exists(Server(k))
    <3>1. ASSUME NEW q \in 1 .. a, At(d, q).write.key = k
          PROVE  Exists(Server(k))
      BY <1>2, <3>1 DEF DocumentsRemain, AnsweredExists
    <3> QED
      BY <2>3, <3>1, ShownKeysAre DEF Held, DocumentsRemain
  <2>4. Whole(write) \/ Needed(k) \subseteq DOMAIN Server(k).data
    BY <1>3, <2>2, <2>3 DEF Sound
  <2>5. Needed(k) \subseteq DOMAIN Server(k)'.data
    BY <1>5, <2>1, <2>4, NewDataNeeded
  <2> QED
    BY <2>1, <2>5 DEF Sound
<1> QED
  BY <1>4, <1>5

(***************************************************************************)
(* Together: no step leaves a shown document without a field.              *)
(***************************************************************************)
LEMMA DocumentsSoundKept ==
  ASSUME TypeOK, DocumentsSound, DocumentsRemain, [ChatNext]_chatVars,
         \A d \in Device : LineHeld(d)
  PROVE  DocumentsSound'
PROOF
<1> SUFFICES ASSUME NEW k \in ShownKeys
             PROVE  /\ \A v \in DOMAIN backend' : Sound(backend'[v][k], k)
                    /\ \A d \in Device : Sound(cache'[d][k], k)
  BY DEF DocumentsSound, Sound, Needed, ShownKeys
<1>1. ASSUME NEW d \in Device
      PROVE  Sound(cache'[d][k], k)
  BY CachedIsSound
<1>2. CASE UNCHANGED backend
  BY <1>1, <1>2 DEF DocumentsSound
<1>3. ASSUME NEW d \in Device, Commit(d), NEW v \in DOMAIN backend'
      PROVE  Sound(backend'[v][k], k)
  <2>1. CASE v \in DOMAIN backend
    <3>1. backend'[v] = backend[v]
      BY <2>1, ServerSteps DEF HistoryKept
    <3> QED
      BY <2>1, <3>1 DEF DocumentsSound
  <2>2. CASE v = Latest'
    <3>1. Sound(Server(k)', k)
      BY <1>3, CommittedIsSound
    <3> QED
      BY <2>2, <3>1 DEF Server
  <2>3. PICK write : write = NextSent(d).write
    OBVIOUS
  <2>4. \A w \in DOMAIN backend' : w \in DOMAIN backend \/ w = Latest'
    BY <1>3, <2>3, CommitMakes
  <2> QED
    BY <2>1, <2>2, <2>4
<1> QED
  BY <1>1, <1>2, <1>3, ServerSteps

(***************************************************************************)
(* What a device holds after the first writes of its line, it holds after  *)
(* a step, an answered write of the line replaced by the document of the   *)
(* cache.                                                                  *)
(***************************************************************************)
LEMMA HeldStays ==
  ASSUME TypeOK, CacheFaithful, AnswersTrue, DocumentsSound, [ChatNext]_chatVars,
         NEW d \in Device, OnlyUpdatesFail(d), NEW k \in ShownKeys
  PROVE  /\ SameLine(d) \/ (\E ws : LineExtended(d, ws)) =>
              \A n \in 0 .. LineLen(d) : Held(d, k, n) => Held(d, k, n)'
         /\ LineTail(d) /\ Answers(d) => \A n \in 0 .. LineLen(d) - 1 :
              /\ Held(d, k, n + 1) => Held(d, k, n)'
              /\ Held(d, k, 0) => Held(d, k, 0)'
         /\ LineCut(d) => \A n \in 0 .. Len(queue[d]) : Held(d, k, n) => Held(d, k, n)'
PROOF
<1>1. Exists(cache[d][k]) => Exists(cache'[d][k])
  BY CachedStays
<1>2. PICK L \in Nat, s \in Nat : L = LineLen(d) /\ s = Len(queue[d]) /\ s <= L
  BY LineType
<1>3. ASSUME NEW n \in Nat, Held(d, k, n),
             \A q \in 1 .. n : At(d, q)'.write = At(d, q).write
      PROVE  Held(d, k, n)'
  <2>1. CASE Exists(cache[d][k])
    BY <1>1, <2>1 DEF Held, Exists
  <2>2. ASSUME NEW q \in 1 .. n, At(d, q).write.key = k, Whole(At(d, q).write)
        PROVE  Held(d, k, n)'
    <3>1. At(d, q)'.write.key = k /\ Whole(At(d, q)'.write)
      BY <1>3, <2>2
    <3> QED
      BY <3>1 DEF Held, Whole, Needed, ShownKeys
  <2> QED
    BY <1>3, <2>1, <2>2 DEF Held
<1>4. ASSUME SameLine(d) \/ (\E ws : LineExtended(d, ws)),
             NEW n \in 0 .. L, Held(d, k, n)
      PROVE  Held(d, k, n)'
  <2>1. \A q \in 1 .. L : At(d, q)' = At(d, q)
    BY <1>2, <1>4 DEF SameLine, LineExtended
  <2>2. \A q \in 1 .. n : q \in 1 .. L
    OBVIOUS
  <2> QED
    BY <1>3, <1>4, <2>1, <2>2
<1>5. ASSUME LineCut(d), NEW n \in 0 .. s, Held(d, k, n)
      PROVE  Held(d, k, n)'
  <2>1. \A q \in 1 .. s : At(d, q)'.write = At(d, q).write
    BY <1>2, <1>5 DEF LineCut
  <2>2. \A q \in 1 .. n : q \in 1 .. s
    OBVIOUS
  <2> QED
    BY <1>3, <1>5, <2>1, <2>2
<1>6. ASSUME Answers(d), At(d, 1).write.key = k, Whole(At(d, 1).write)
      PROVE  Exists(cache'[d][k])
  <2>1. responses[d] # <<>>
    BY <1>6 DEF Answers, AcknowledgeBatch, RejectBatch
  <2>2. 1 \in 1 .. Len(responses[d]) /\ Head(responses[d]) = responses[d][1]
    <3>1. responses[d] \in Seq(Answer)
      BY LineType
    <3> QED
      BY <2>1, <3>1, TailFacts
  <2>3. responses[d][1].ok
    BY <1>6, <2>2 DEF OnlyUpdatesFail, Whole
  <2>4. AcknowledgeBatch(d)
    BY <1>6, <2>2, <2>3 DEF Answers, RejectBatch
  <2> QED
    BY <1>6, <2>4, WholeIsCached
<1>7. ASSUME LineTail(d), Answers(d), NEW n \in 0 .. L - 1, Held(d, k, n + 1)
      PROVE  Held(d, k, n)'
  <2>1. CASE Exists(cache'[d][k])
    BY <2>1 DEF Held, Exists
  <2>2. CASE ~Exists(cache'[d][k])
    <3>1. PICK q \in 1 .. n + 1 : At(d, q).write.key = k /\ Whole(At(d, q).write)
      BY <1>1, <1>7, <2>2 DEF Held
    <3>2. q # 1
      BY <1>6, <1>7, <2>2, <3>1
    <3>3. PICK p \in 1 .. n : q = p + 1
      <4>1. q - 1 \in 1 .. n /\ q = (q - 1) + 1
        BY <3>2
      <4> QED
        BY <4>1
    <3>4. p \in 1 .. L - 1
      OBVIOUS
    <3>5. At(d, p)' = At(d, q)
      BY <1>2, <1>7, <3>3, <3>4 DEF LineTail
    <3>6. At(d, p)'.write.key = k /\ Whole(At(d, p)'.write)
      BY <3>1, <3>5
    <3> QED
      BY <3>6 DEF Held, Whole, Needed, ShownKeys
  <2> QED
    BY <2>1, <2>2
<1>8. ASSUME Held(d, k, 0)
      PROVE  Held(d, k, 0)'
  <2>1. Exists(cache'[d][k])
    BY <1>1, <1>8 DEF Held
  <2> QED
    BY <2>1 DEF Held, Exists
<1> QED
  BY <1>2, <1>4, <1>5, <1>7, <1>8

(***************************************************************************)
(* What is made on an open screen is made of a document that is held.      *)
(***************************************************************************)
LEMMA MadeHeld ==
  ASSUME TypeOK, NEW d \in Device, ScreenHeld(d), HandlersHeld(d),
         NEW ws, MainStep(d, ws), NEW i \in 1 .. Len(ws)
  PROVE  Whole(ws[i]) \/ Held(d, Ground(ws[i]), Len(queue[d]))
PROOF
<1>1. ws[i] \in Write
  BY DEF MainStep
<1>2. \A a, b : \A j \in 1 .. Len(<<a, b>>) : \/ <<a, b>>[j] = a
                                              \/ <<a, b>>[j] = b
  OBVIOUS
<1>3. \A a : \A j \in 1 .. Len(<<a>>) : <<a>>[j] = a
  OBVIOUS
<1>4. ASSUME ws[i].key = ChatDocument \/ ws[i].key \in Messages
      PROVE  Ground(ws[i]) = ChatDocument
  BY <1>4 DEF Ground
<1>5. ASSUME ws[i].key \in ShownKeys, ws[i].kind = "set"
      PROVE  Whole(ws[i])
  BY <1>1, <1>5, SetsAreWhole
<1>6. CASE ws = NewChatWrites(UserOf[d])
  <2>1. ws[i] = CreateBaseChatDocument(UserOf[d]) \/ ws[i] = CreateChatUserCollection(UserOf[d])
    BY <1>2, <1>6, ProgramsAre
  <2>2. UserOf[d] \in User
    BY UserAssumption
  <2>3. ws[i].key \in ShownKeys /\ ws[i].kind = "set"
    BY <2>1, <2>2, PartsAre, ShownKeysAre DEF HasParts
  <2> QED
    BY <1>5, <2>3
<1>7. ASSUME NEW u \in Candidate, OnChat(d), ws = AddNewUserWrites(u)
      PROVE  Whole(ws[i]) \/ Held(d, Ground(ws[i]), Len(queue[d]))
  <2>1. ws[i] = AddsUser(u) \/ ws[i] = MemberDetails(u)
    BY <1>2, <1>7, ProgramsAre
  <2>2. CASE ws[i] = AddsUser(u)
    <3>1. ws[i].key = ChatDocument
      BY <2>2, PartsAre DEF HasParts
    <3> QED
      BY <1>4, <1>7, <3>1 DEF ScreenHeld
  <2>3. CASE ws[i] = MemberDetails(u)
    <3>1. ws[i].key \in ShownKeys /\ ws[i].kind = "set"
      BY <2>3, PartsAre, ShownKeysAre, UserAssumption DEF HasParts
    <3> QED
      BY <1>5, <3>1
  <2> QED
    BY <2>1, <2>2, <2>3
<1>8. ASSUME OnChat(d), ws = UpdateChatColourWrites
      PROVE  Held(d, Ground(ws[i]), Len(queue[d]))
  <2>1. ws[i].key = ChatDocument
    BY <1>3, <1>8, ProgramsAre, PartsAre DEF HasParts
  <2> QED
    BY <1>4, <1>8, <2>1 DEF ScreenHeld
<1>9. ASSUME NEW u \in User, screen[d] = Member(u), OnChat(d),
             \/ ws = RemoveFromChatWrites(u)
             \/ ws = UpdateUserColourWrites(u)
             \/ ws = UpdateUserNameWrites(u)
      PROVE  Held(d, Ground(ws[i]), Len(queue[d]))
  <2>1. ws[i] \in {RemovesUser(u), ColoursMember(u), NamesMember(u)}
    BY <1>3, <1>9, ProgramsAre
  <2>2. ws[i].key = ChatDocument \/ ws[i].key = Member(u)
    BY <2>1, PartsAre DEF HasParts
  <2>3. CASE ws[i].key = ChatDocument
    BY <1>4, <1>9, <2>3 DEF ScreenHeld
  <2>4. CASE ws[i].key = Member(u)
    <3>1. Ground(ws[i]) = Member(u)
      BY <2>4, ShownKeysAre
    <3> QED
      BY <1>9, <3>1 DEF ScreenHeld
  <2> QED
    BY <2>2, <2>3, <2>4
<1>10. ASSUME made[d] + 1 \in 1 .. MaxCalls[d], OnChat(d),
              ws = SendMessageWrites(d, made[d] + 1)
       PROVE  Held(d, Ground(ws[i]), Len(queue[d]))
  <2>1. ws[i].key = Message(d, made[d] + 1)
    BY <1>3, <1>10, ProgramsAre, PartsAre DEF HasParts
  <2>2. ws[i].key \in Messages
    BY <1>10, <2>1, KeysDiffer
  <2> QED
    BY <1>4, <1>10, <2>2 DEF ScreenHeld
<1>11. ASSUME main[d] # <<>>, ws = CompletionWrites(Head(main[d]))
       PROVE  Held(d, Ground(ws[i]), Len(queue[d]))
  <2>1. Len(ws) # 0
    BY DEF MainStep
  <2>2. /\ Head(main[d]).write.key \in Messages
        /\ ws = <<NotesActivity>>
    <3>1. Len(<<>>) = 0
      BY EmptySequence
    <3> QED
      BY <1>11, <2>1, <3>1, ProgramsAre DEF CompletionWrites, IsMessage
  <2>3. 1 \in 1 .. Len(main[d]) /\ Head(main[d]) = main[d][1]
    BY <1>11, LineType, TailFacts
  <2>4. Exists(cache[d][ChatDocument])
    BY <2>2, <2>3 DEF HandlersHeld
  <2>5. ws[i].key = ChatDocument
    BY <1>3, <2>2, PartsAre DEF HasParts
  <2> QED
    BY <1>4, <2>4, <2>5 DEF Held
<1>12. MakesWrites(d, ws) \/ (main[d] # <<>> /\ ws = CompletionWrites(Head(main[d])))
  BY DEF MainStep
<1> QED
  BY <1>6, <1>7, <1>8, <1>9, <1>10, <1>11, <1>12 DEF MakesWrites

(***************************************************************************)
(* Every step keeps each write of the line behind what it needs.           *)
(***************************************************************************)
LEMMA LineHeldKept ==
  ASSUME TypeOK, CacheFaithful, AnswersTrue, DocumentsSound, [ChatNext]_chatVars,
         NEW d \in Device, OnlyUpdatesFail(d), LineHeld(d), ScreenHeld(d), HandlersHeld(d)
  PROVE  LineHeld(d)'
PROOF
<1>1. PICK L \in Nat, s \in Nat : L = LineLen(d) /\ s = Len(queue[d]) /\ s <= L
  BY LineType
<1>2. ASSUME NEW p \in 1 .. L
      PROVE  /\ At(d, p).write \in Write
             /\ Ground(At(d, p).write) \in ShownKeys
             /\ Whole(At(d, p).write) \/ Held(d, Ground(At(d, p).write), p - 1)
             /\ p - 1 \in 0 .. L
  BY <1>1, LineType, ShownKeysAre DEF LineHeld
<1>3. ASSUME NEW p \in Nat, NEW write, write = At(d, p)'.write,
             Whole(write) \/ Held(d, Ground(write), p - 1)'
      PROVE  (Whole(At(d, p).write) \/ Held(d, Ground(At(d, p).write), p - 1))'
  <2>1. CASE Whole(write)
    BY <1>3, <2>1 DEF Whole, Needed, ShownKeys
  <2>2. CASE Held(d, Ground(write), p - 1)'
    BY <1>3, <2>2 DEF Held, Ground, Whole, Needed, ShownKeys
  <2> QED
    BY <1>3, <2>1, <2>2
<1>4. ASSUME NEW p \in 1 .. L, SameLine(d) \/ (\E ws : LineExtended(d, ws))
      PROVE  (Whole(At(d, p).write) \/ Held(d, Ground(At(d, p).write), p - 1))'
  <2>1. PICK write : write = At(d, p).write
    OBVIOUS
  <2>2. write = At(d, p)'.write
    BY <1>1, <1>4, <2>1 DEF SameLine, LineExtended
  <2>3. Whole(write) \/ Held(d, Ground(write), p - 1)'
    BY <1>1, <1>2, <1>4, <2>1, HeldStays
  <2> QED
    BY <1>3, <2>2, <2>3
<1>5. CASE SameLine(d)
  BY <1>1, <1>4, <1>5 DEF LineHeld, SameLine
<1>6. ASSUME NEW ws, MainStep(d, ws), LineExtended(d, ws)
      PROVE  LineHeld(d)'
  <2>1. PICK l \in Nat : l = Len(ws)
    BY <1>6 DEF MainStep
  <2>2. ASSUME NEW p \in 1 .. L + l
        PROVE  (Whole(At(d, p).write) \/ Held(d, Ground(At(d, p).write), p - 1))'
    <3>1. CASE p \in 1 .. L
      BY <1>4, <1>6, <3>1
    <3>2. CASE p \notin 1 .. L
      <4>1. PICK i \in 1 .. l : p = L + i
        <5>1. p - L \in 1 .. l /\ p = L + (p - L)
          BY <3>2
        <5> QED
          BY <5>1
      <4>2. ws[i] = At(d, p)'.write /\ ws[i] \in Write
        BY <1>1, <1>6, <2>1, <4>1 DEF LineExtended, MainStep
      <4>3. Whole(ws[i]) \/ Held(d, Ground(ws[i]), s)
        BY <1>1, <1>6, <2>1, MadeHeld
      <4>4. Held(d, Ground(ws[i]), s) => Held(d, Ground(ws[i]), s)'
        <5>1. s \in 0 .. LineLen(d) /\ Ground(ws[i]) \in ShownKeys
          BY <1>1, <4>2, ShownKeysAre
        <5> QED
          BY <1>6, <5>1, HeldStays
      <4>5. Held(d, Ground(ws[i]), s)' => Held(d, Ground(ws[i]), p - 1)'
        <5>1. \A q \in 1 .. s : q \in 1 .. p - 1
          BY <1>1, <4>1
        <5> QED
          BY <5>1 DEF Held
      <4> QED
        BY <1>3, <4>2, <4>3, <4>4, <4>5
    <3> QED
      BY <3>1, <3>2
  <2>3. LineLen(d)' = L + l
    BY <1>1, <1>6, <2>1 DEF LineExtended
  <2> QED
    BY <2>2, <2>3 DEF LineHeld
<1>7. CASE LineTail(d) /\ Answers(d)
  <2>1. ASSUME NEW p \in 1 .. L - 1
        PROVE  (Whole(At(d, p).write) \/ Held(d, Ground(At(d, p).write), p - 1))'
    <3>1. PICK r \in 1 .. L, n \in 0 .. L - 1 : r = p + 1 /\ n = p - 1 /\ r - 1 = n + 1
      <4>1. p + 1 \in 1 .. L /\ p - 1 \in 0 .. L - 1 /\ (p + 1) - 1 = (p - 1) + 1
        OBVIOUS
      <4> QED
        BY <4>1
    <3>2. PICK write : write = At(d, r).write
      OBVIOUS
    <3>3. write = At(d, p)'.write
      BY <1>1, <1>7, <3>1, <3>2 DEF LineTail
    <3>4. /\ Whole(write) \/ Held(d, Ground(write), n + 1)
          /\ Ground(write) \in ShownKeys
      BY <1>2, <3>1, <3>2
    <3>5. Held(d, Ground(write), n + 1) => Held(d, Ground(write), n)'
      BY <1>1, <1>7, <3>4, HeldStays
    <3> QED
      BY <1>3, <3>1, <3>3, <3>4, <3>5
  <2> QED
    BY <1>1, <1>7, <2>1 DEF LineHeld, LineTail
<1>8. CASE LineCut(d)
  <2>1. ASSUME NEW p \in 1 .. s
        PROVE  (Whole(At(d, p).write) \/ Held(d, Ground(At(d, p).write), p - 1))'
    <3>1. PICK n \in 0 .. s : n = p - 1
      <4>1. p - 1 \in 0 .. s
        OBVIOUS
      <4> QED
        BY <4>1
    <3>2. PICK write : write = At(d, p).write
      OBVIOUS
    <3>3. write = At(d, p)'.write
      BY <1>1, <1>8, <3>2 DEF LineCut
    <3>4. /\ Whole(write) \/ Held(d, Ground(write), n)
          /\ Ground(write) \in ShownKeys
      <4>1. p \in 1 .. L
        BY <1>1
      <4> QED
        BY <1>2, <3>1, <3>2, <4>1
    <3>5. Held(d, Ground(write), n) => Held(d, Ground(write), n)'
      BY <1>1, <1>8, <3>4, HeldStays
    <3> QED
      BY <1>3, <3>1, <3>3, <3>4, <3>5
  <2> QED
    BY <1>1, <1>8, <2>1 DEF LineHeld, LineCut
<1> QED
  <2>1. \/ SameLine(d)
        \/ \E ws : MainStep(d, ws) /\ LineExtended(d, ws)
        \/ LineTail(d) /\ Answers(d)
        \/ LineCut(d)
    BY DeviceSteps DEF Answers
  <2> QED
    BY <1>5, <1>6, <1>7, <1>8, <2>1

(***************************************************************************)
(* What a step makes of the length of a mutation queue.                    *)
(***************************************************************************)
LEMMA QueueSteps ==
  ASSUME TypeOK, [ChatNext]_chatVars, NEW d \in Device
  PROVE  \/ Answers(d) /\ LineTail(d) /\ Len(queue'[d]) = Len(queue[d]) - 1
         \/ Len(queue'[d]) \in {Len(queue[d]), Len(queue[d]) + 1}
PROOF
<1>1. DOMAIN queue = Device /\ Len(queue[d]) \in Nat
  BY LineType DEF TypeOK
<1>2. CASE UNCHANGED queue
  BY <1>1, <1>2
<1>3. ASSUME NEW e \in Device, WriteLocally(e)
      PROVE  Len(queue'[d]) \in {Len(queue[d]), Len(queue[d]) + 1}
  <2>1. queue' = [queue EXCEPT ![e] = Append(@, Head(calls[e]))]
    BY <1>3 DEF WriteLocally
  <2>2. CASE d = e
    <3>1. queue'[d] = Append(queue[d], Head(calls[d])) /\ queue[d] \in Seq(Batch)
      BY <1>1, <2>1, <2>2, LineType
    <3>2. Head(calls[d]) \in Batch
      BY <1>3, <2>2, LineType, TailFacts DEF WriteLocally
    <3>3. Len(queue'[d]) = Len(queue[d]) + 1
      BY <3>1, <3>2
    <3> QED
      BY <3>3
  <2>3. CASE d # e
    BY <1>1, <2>1, <2>3
  <2> QED
    BY <2>2, <2>3
<1>4. ASSUME NEW e \in Device, Answers(e)
      PROVE  \/ Answers(d) /\ LineTail(d) /\ Len(queue'[d]) = Len(queue[d]) - 1
             \/ Len(queue'[d]) = Len(queue[d])
  <2>1. /\ responses[e] # <<>>
        /\ queue' = [queue EXCEPT ![e] = Tail(@)] /\ UNCHANGED calls
    BY <1>4 DEF Answers, AcknowledgeBatch, RejectBatch
  <2>2. CASE d = e
    BY <1>4, <2>1, <2>2, AnswerLine
  <2>3. CASE d # e
    BY <1>1, <2>1, <2>3
  <2> QED
    BY <2>2, <2>3
<1>5. ASSUME NEW e \in Device, Restart(e)
      PROVE  Len(queue'[d]) = Len(queue[d])
  <2>1. Kill(e)
    BY <1>5 DEF Restart
  <2>2. CASE d = e
    BY <2>1, <2>2, KillLine
  <2>3. CASE d # e
    BY <1>1, <2>1, <2>3 DEF Kill
  <2> QED
    BY <2>2, <2>3
<1>6. \/ UNCHANGED queue
      \/ \E e \in Device : WriteLocally(e) \/ Answers(e) \/ Restart(e)
  BY ChatStepIs DEF clientVars, MainStep, Commit, Refuse, BreakStream, ApplyRemoteEvent,
                    Answers
<1> QED
  BY <1>2, <1>3, <1>4, <1>5, <1>6

(***************************************************************************)
(* What a device holds with its mutation queue it goes on to hold.         *)
(***************************************************************************)
LEMMA HeldOnQueue ==
  ASSUME TypeOK, CacheFaithful, AnswersTrue, DocumentsSound, [ChatNext]_chatVars,
         NEW d \in Device, OnlyUpdatesFail(d), NEW k \in ShownKeys,
         ~Restart(d), Held(d, k, Len(queue[d]))
  PROVE  Held(d, k, Len(queue[d]))'
PROOF
<1>1. PICK L \in Nat, s \in Nat : L = LineLen(d) /\ s = Len(queue[d]) /\ s <= L
  BY LineType
<1>2. PICK t : t = Len(queue'[d])
  OBVIOUS
<1>3. SUFFICES Held(d, k, t)'
  BY <1>2 DEF Held
<1>4. CASE Answers(d) /\ LineTail(d) /\ t = s - 1
  <2>1. PICK n \in 0 .. L - 1 : n = t /\ n + 1 = s
    <3>1. s >= 1
      <4>1. responses[d] # <<>>
        BY <1>4 DEF Answers, AcknowledgeBatch, RejectBatch
      <4>2. Len(responses[d]) >= 1
        BY <4>1, LineType, TailFacts
      <4> QED
        BY <1>1, <4>2, LineType
    <3>2. s - 1 \in 0 .. L - 1 /\ (s - 1) + 1 = s
      BY <1>1, <3>1
    <3> QED
      BY <1>4, <3>2
  <2>2. Held(d, k, n + 1)
    BY <1>1, <2>1
  <2>3. Held(d, k, n)'
    BY <1>1, <1>4, <2>2, HeldStays
  <2> QED
    BY <2>1, <2>3
<1>5. CASE t \in {s, s + 1} /\ ~Answers(d)
  <2>1. SameLine(d) \/ \E ws : LineExtended(d, ws)
    BY <1>5, DeviceSteps DEF Answers
  <2>2. Held(d, k, s)'
    BY <1>1, <2>1, HeldStays
  <2>3. \A q \in 1 .. s : q \in 1 .. t
    BY <1>1, <1>5
  <2> QED
    BY <2>2, <2>3 DEF Held
<1>6. ASSUME t \in {s, s + 1}, Answers(d)
      PROVE  FALSE
  <2>1. /\ responses[d] # <<>>
        /\ queue' = [queue EXCEPT ![d] = Tail(@)] /\ UNCHANGED calls
    BY <1>6 DEF Answers, AcknowledgeBatch, RejectBatch
  <2>2. Len(queue'[d]) = Len(queue[d]) - 1
    BY <2>1, AnswerLine
  <2> QED
    BY <1>1, <1>2, <1>6, <2>2
<1> QED
  BY <1>1, <1>2, <1>4, <1>5, <1>6, QueueSteps

(***************************************************************************)
(* Screens are opened from lists that show what they open.                 *)
(***************************************************************************)
LEMMA ScreenOpens ==
  ASSUME DOMAIN screen = Device, [ChatNext]_chatVars, NEW d \in Device
  PROVE  OnChat(d)' => OnChat(d) \/ (Listed(d) /\ UNCHANGED clientVars)
PROOF
<1>1. \A u : Member(u) # <<"contacts">>
  BY DEF Member
<1>2. CASE UNCHANGED screen
  BY <1>2 DEF OnChat
<1>3. ASSUME NEW e \in Device, OpenChat(e)
      PROVE  OnChat(d)' => OnChat(d) \/ (Listed(d) /\ UNCHANGED clientVars)
  BY <1>3 DEF OpenChat, OnChat
<1>4. ASSUME NEW e \in Device, Back(e)
      PROVE  OnChat(d)' => OnChat(d)
  BY <1>4 DEF Back, OnChat
<1>5. ASSUME NEW e \in Device, Restart(e)
      PROVE  OnChat(d)' => OnChat(d)
  BY <1>5 DEF Restart, OnChat
<1>6. ASSUME NEW e \in Device, NEW u \in User, OpenMember(e, u) \/ RemoveFromChat(e, u)
      PROVE  OnChat(d)' => OnChat(d)
  <2>1. OnChat(e)
    BY <1>1, <1>6 DEF OpenMember, RemoveFromChat, OnChat
  <2>2. \E s : screen' = [screen EXCEPT ![e] = s]
    BY <1>6 DEF OpenMember, RemoveFromChat
  <2> QED
    BY <2>1, <2>2 DEF OnChat
<1>7. \/ UNCHANGED screen
      \/ \E e \in Device : \/ OpenChat(e) \/ Back(e) \/ Restart(e)
                           \/ \E u \in User : OpenMember(e, u) \/ RemoveFromChat(e, u)
  BY DEF ChatNext, GestureStep, NewChat, UpdateChatColour, SendMessage,
         UpdateUserColour, UpdateUserName, AddNewUser, RunCompletion, chatVars
<1> QED
  BY <1>2, <1>3, <1>4, <1>5, <1>6, <1>7

(***************************************************************************)
(* An app that is started again shows the list of chats.                   *)
(***************************************************************************)
LEMMA RestartCloses ==
  ASSUME DOMAIN screen = Device, NEW d \in Device, Restart(d)
  PROVE  ~OnChat(d)' /\ \A u \in User : screen'[d] # Member(u)
PROOF
<1>1. \A u : Member(u) # <<"contacts">>
  BY DEF Member
<1>2. screen'[d] = <<"contacts">>
  BY DEF Restart
<1> QED
  BY <1>1, <1>2 DEF OnChat

(***************************************************************************)
(* What an open screen shows is held as long as it is open.                *)
(***************************************************************************)
LEMMA ScreenHeldKept ==
  ASSUME TypeOK, CacheFaithful, AnswersTrue, DocumentsSound, [ChatNext]_chatVars,
         DOMAIN screen = Device,
         NEW d \in Device, OnlyUpdatesFail(d), LineHeld(d), ScreenHeld(d)
  PROVE  ScreenHeld(d)'
PROOF
<1>1. ASSUME NEW k \in ShownKeys, UNCHANGED clientVars, Exists(View(d, k))
      PROVE  Held(d, k, Len(queue[d]))'
  <2>1. Held(d, k, Len(queue[d]))
    BY <1>1, ShownIsHeld
  <2>2. UNCHANGED <<queue, calls, cache>>
    BY <1>1 DEF clientVars
  <2> QED
    BY <2>1, <2>2 DEF Held, At, Whole, Needed, ShownKeys, Exists
<1>2. ASSUME OnChat(d)'
      PROVE  Held(d, ChatDocument, Len(queue[d]))'
  <2>1. CASE OnChat(d)
    <3>1. ~Restart(d)
      BY <1>2, RestartCloses
    <3> QED
      BY <2>1, <3>1, HeldOnQueue, ShownKeysAre DEF ScreenHeld
  <2>2. CASE Listed(d) /\ UNCHANGED clientVars
    BY <1>1, <2>2, ShownKeysAre DEF Listed
  <2> QED
    BY <1>2, <2>1, <2>2, ScreenOpens
<1>3. ASSUME NEW u \in User, screen'[d] = Member(u)
      PROVE  Held(d, Member(u), Len(queue[d]))'
  <2>1. CASE screen'[d] = screen[d]
    <3>1. ~Restart(d)
      BY <1>3, RestartCloses
    <3> QED
      BY <1>3, <2>1, <3>1, HeldOnQueue, ShownKeysAre DEF ScreenHeld
  <2>2. CASE u \in MembersShown(d) /\ UNCHANGED clientVars
    BY <1>1, <2>2, ShownKeysAre DEF MembersShown
  <2>3. Member(u) \notin {<<"contacts">>, <<"chat">>}
    BY DEF Member
  <2>4. \A v \in User : Member(v) = Member(u) => v = u
    BY KeysDiffer
  <2> QED
    BY <1>3, <2>1, <2>2, <2>3, <2>4, ScreenSteps
<1> QED
  BY <1>2, <1>3 DEF ScreenHeld

(***************************************************************************)
(* A handler of a message waits on a device that has the chat in its       *)
(* cache.                                                                  *)
(***************************************************************************)
LEMMA HandlersHeldKept ==
  ASSUME TypeOK, CacheFaithful, DocumentsSound, [ChatNext]_chatVars,
         NEW d \in Device, LineHeld(d), HandlersHeld(d)
  PROVE  HandlersHeld(d)'
PROOF
<1>1. Exists(cache[d][ChatDocument]) => Exists(cache'[d][ChatDocument])
  BY CachedStays, ShownKeysAre
<1>2. PICK M \in Nat : M = Len(main[d])
  BY LineType
<1>3. SUFFICES ASSUME NEW i \in 1 .. Len(main'[d]), main'[d][i].write.key \in Messages
               PROVE  Exists(cache'[d][ChatDocument])
  BY DEF HandlersHeld, Exists, Messages, MessagesOf, Message
<1>4. ASSUME NEW h \in 1 .. M, main'[d][i] = main[d][h]
      PROVE  Exists(cache'[d][ChatDocument])
  BY <1>1, <1>2, <1>3, <1>4 DEF HandlersHeld
<1>5. CASE main'[d] = main[d]
  BY <1>2, <1>4, <1>5
<1>6. CASE main[d] # <<>> /\ main'[d] = Tail(main[d])
  <2>1. Len(main'[d]) = M - 1 /\ main'[d][i] = main[d][i + 1] /\ i + 1 \in 1 .. M
    BY <1>2, <1>6, LineType, TailFacts
  <2> QED
    BY <1>4, <2>1
<1>7. ASSUME NEW handler, Answers(d), handler.write = Head(queue[d]).write,
             main'[d] = Append(main[d], handler)
      PROVE  Exists(cache'[d][ChatDocument])
  <2>1. Len(main'[d]) = M + 1
    BY <1>2, <1>7, LineType
  <2>2. CASE i \in 1 .. M
    <3>1. main'[d][i] = main[d][i]
      BY <1>2, <1>7, <2>2, LineType
    <3> QED
      BY <1>4, <2>2, <3>1
  <2>3. CASE i = M + 1
    <3>1. main'[d][i] = handler
      BY <1>2, <1>7, <2>3, LineType
    <3>2. /\ responses[d] # <<>>
          /\ queue' = [queue EXCEPT ![d] = Tail(@)] /\ UNCHANGED calls
      BY <1>7 DEF Answers, AcknowledgeBatch, RejectBatch
    <3>3. Head(queue[d]) = At(d, 1) /\ Len(queue[d]) >= 1
      BY <3>2, AnswerLine
    <3>4. At(d, 1).write.key \in Messages /\ 1 \in 1 .. LineLen(d) /\ 1 - 1 = 0
      BY <1>3, <1>7, <3>1, <3>3, LineType
    <3>5. ~Whole(At(d, 1).write) /\ Ground(At(d, 1).write) = ChatDocument
      BY <3>4, ShownKeysAre DEF Whole, Ground
    <3>6. Held(d, ChatDocument, 0)
      BY <3>4, <3>5 DEF LineHeld
    <3> QED
      BY <1>1, <3>6 DEF Held
  <2> QED
    BY <2>1, <2>2, <2>3
<1>8. CASE Restart(d)
  <2>1. Len(main'[d]) = 0
    BY <1>8, EmptySequence DEF Restart, Kill, TypeOK
  <2> QED
    BY <2>1
<1> QED
  BY <1>5, <1>6, <1>7, <1>8, HandlerSteps

(***************************************************************************)
(* The listeners of an open screen find the document and the fields that   *)
(* they force-unwrap (ChatViewController, GroupSettingsTableViewController,*)
(* MemberViewModel), on the device's own view, in a chat that is there or  *)
(* is being made, through restarts, broken streams and snapshots at any    *)
(* version.  No valid write is refused: a refused base document takes the  *)
(* chat away from under its screen.                                        *)
(***************************************************************************)
THEOREM ScreensAlwaysShow ==
  ASSUME MaxFaults["refuse"] = 0,
         Exists(InitialDocuments[ChatDocument]) =>
           {"name", "colour", "users"} \subseteq DOMAIN InitialDocuments[ChatDocument].data,
         \A u \in User : Exists(InitialDocuments[Member(u)]) =>
           {"name", "colour"} \subseteq DOMAIN InitialDocuments[Member(u)].data
  PROVE  ChatSpec => []ScreensCanShow
PROOF
<1> DEFINE Inv == InductiveInvariant /\ ChatTypeOK /\ ScreensHeld
<1>1. ChatInit => Inv
  <2> SUFFICES ASSUME ChatInit PROVE ChatTypeOK /\ ScreensHeld
    BY InitInvariant DEF ChatInit
  <2>1. /\ backend = <<InitialDocuments>> /\ cache = [d \in Device |-> InitialDocuments]
        /\ calls = [d \in Device |-> <<>>] /\ queue = [d \in Device |-> <<>>]
        /\ responses = [d \in Device |-> <<>>] /\ main = [d \in Device |-> <<>>]
        /\ screen = [d \in Device |-> <<"contacts">>] /\ shown = <<>>
    BY DEF ChatInit, Init
  <2>2. DOMAIN backend = {1} /\ backend[1] = InitialDocuments /\ Latest = 1
    BY <2>1 DEF Latest
  <2>3. \A d \in Device : /\ Len(queue[d]) = 0 /\ Len(calls[d]) = 0
                          /\ Len(responses[d]) = 0 /\ Len(main[d]) = 0
    BY <2>1, EmptySequence
  <2>4. ASSUME NEW d \in Device
        PROVE  LineLen(d) = 0
    <3>1. Len(queue[d]) = 0 /\ Len(calls[d]) = 0
      BY <2>3
    <3> QED
      BY <3>1 DEF LineLen
  <2>5. ChatTypeOK
    BY <2>1, EmptySequence DEF ChatTypeOK
  <2>6. ASSUME NEW k \in ShownKeys
        PROVE  Sound(InitialDocuments[k], k)
    <3>1. k \in Key
      BY ShownKeysAre
    <3>2. ~Exists(InitialDocuments[k]) =>
            InitialDocuments[k].type = "none" /\ InitialDocuments[k].version = 0
      BY <3>1, InitialAssumption DEF Exists
    <3>3. Exists(InitialDocuments[k]) => Needed(k) \subseteq DOMAIN InitialDocuments[k].data
      BY KeysDiffer DEF Needed, ShownKeys
    <3> QED
      BY <3>2, <3>3 DEF Sound
  <2>7. DocumentsSound
    BY <2>1, <2>2, <2>6 DEF DocumentsSound
  <2>8. DocumentsRemain
    <3>1. \A d \in Device : AnsweredExists(d)
      BY <2>3 DEF AnsweredExists
    <3> QED
      BY <2>1, <2>2, <3>1 DEF DocumentsRemain, Server
  <2>9. \A d \in Device : /\ LineHeld(d) /\ HandlersHeld(d) /\ OnlyUpdatesFail(d)
    BY <2>3, <2>4 DEF LineHeld, HandlersHeld, OnlyUpdatesFail
  <2>10. \A d \in Device : ScreenHeld(d)
    BY <2>1 DEF ScreenHeld, OnChat, Member
  <2> QED
    BY <2>5, <2>7, <2>8, <2>9, <2>10 DEF ScreensHeld
<1>2. Inv /\ [ChatNext]_chatVars => Inv'
  <2> SUFFICES ASSUME Inv, [ChatNext]_chatVars PROVE Inv'
    OBVIOUS
  <2>1. /\ TypeOK /\ CacheFaithful /\ AnswersTrue /\ DOMAIN screen = Device
        /\ DocumentsSound /\ DocumentsRemain
    BY DEF InductiveInvariant, ChatTypeOK, ScreensHeld
  <2>2. InductiveInvariant'
    BY ChatStep, NextInvariant
  <2>3. ChatTypeOK'
    BY <2>1, ChatTypeKept
  <2>4. DocumentsSound' /\ DocumentsRemain'
    BY <2>1, DocumentsSoundKept, DocumentsRemainKept DEF ScreensHeld
  <2>5. ASSUME NEW d \in Device
        PROVE  /\ LineHeld(d)' /\ HandlersHeld(d)' /\ ScreenHeld(d)'
               /\ OnlyUpdatesFail(d)'
    <3>1. LineHeld(d) /\ HandlersHeld(d) /\ ScreenHeld(d) /\ OnlyUpdatesFail(d)
      BY DEF ScreensHeld
    <3> QED
      BY <2>1, <3>1, LineHeldKept, HandlersHeldKept, ScreenHeldKept, OnlyUpdatesFailKept
  <2> QED
    BY <2>2, <2>3, <2>4, <2>5 DEF ScreensHeld
<1>3. Inv => ScreensCanShow
  <2> SUFFICES ASSUME Inv, NEW d \in Device
               PROVE  /\ Listed(d) => Shows(d, ChatDocument, {"name"})
                      /\ OnChat(d) => Shows(d, ChatDocument, {"name", "colour", "users"})
                      /\ screen[d] \in Key => Shows(d, screen[d], {"name", "colour"})
                      /\ \A u \in MembersShown(d) : Shows(d, Member(u), {"colour"})
    BY DEF ScreensCanShow
  <2>1. TypeOK /\ DocumentsSound /\ LineHeld(d) /\ ScreenHeld(d)
    BY DEF InductiveInvariant, ScreensHeld
  <2>2. ASSUME NEW k \in ShownKeys, Exists(View(d, k))
        PROVE  Shows(d, k, Needed(k))
    BY <2>1, <2>2, ShownIsHeld, HeldIsShown
  <2>3. Listed(d) => Shows(d, ChatDocument, {"name"})
    BY <2>2, ShownKeysAre DEF Listed, Shows, Needed
  <2>4. OnChat(d) => Shows(d, ChatDocument, {"name", "colour", "users"})
    <3>1. ASSUME OnChat(d)
          PROVE  Shows(d, ChatDocument, Needed(ChatDocument))
      BY <2>1, <3>1, HeldIsShown, ShownKeysAre DEF ScreenHeld
    <3> QED
      BY <3>1 DEF Needed
  <2>5. \A u \in User : Needed(Member(u)) = {"name", "colour"}
    BY KeysDiffer DEF Needed
  <2>6. screen[d] \in Key => Shows(d, screen[d], {"name", "colour"})
    <3>1. ASSUME screen[d] \in Key, NEW u \in User, screen[d] = Member(u)
          PROVE  Shows(d, Member(u), {"name", "colour"})
      <4>1. Held(d, Member(u), Len(queue[d]))
        BY <2>1, <3>1 DEF ScreenHeld
      <4>2. Shows(d, Member(u), Needed(Member(u)))
        BY <2>1, <4>1, HeldIsShown, ShownKeysAre
      <4> QED
        BY <2>5, <4>2
    <3>2. <<"contacts">> \notin Key
      BY ChatConstants DEF ChatKey, ChatDocument, Member, Messages, MessagesOf, Message
    <3>3. CASE screen[d] = <<"chat">>
      <4>1. Shows(d, ChatDocument, {"name", "colour"})
        BY <2>4, <3>3 DEF OnChat, Shows
      <4> QED
        BY <3>3, <4>1 DEF ChatDocument
    <3> QED
      BY <3>1, <3>2, <3>3 DEF ChatTypeOK
  <2>7. \A u \in MembersShown(d) : Shows(d, Member(u), {"colour"})
    BY <2>2, <2>5, ShownKeysAre DEF MembersShown, Shows
  <2> QED
    BY <2>3, <2>4, <2>6, <2>7
<1> QED
  BY <1>1, <1>2, <1>3, PTL DEF ChatSpec
=============================================================================
