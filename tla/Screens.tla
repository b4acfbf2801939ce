------------------------------- MODULE Screens -------------------------------
(***************************************************************************)
(* The arrays behind the tables of the app, filled by listeners that       *)
(* register further listeners.  GroupMembersModel listens to the members   *)
(* again at every snapshot of the chat, MessagesManager to the messages at *)
(* every snapshot of the members; none of them is ever removed, and all    *)
(* those of one query fill the same array.  AddUserManager fills its array *)
(* once, and filters it as the user types.                                 *)
(*                                                                         *)
(* The worker queue is reduced to what the screens see of it: the local    *)
(* view of each query, which changes by gestures and snapshots, the calls  *)
(* of addSnapshotListener waiting, and the listeners in the order in which *)
(* they were added.  When an event is raised is as in module Listeners.    *)
(***************************************************************************)
EXTENDS SequencesExt, Naturals, FiniteSets, TLC

CONSTANTS
  Person,          \* email addresses
  Colour,          \* colours of members; one of them is the default
  DefaultColour,
  Text,            \* search texts, besides the empty one
  Containing,      \* for each text the addresses it is part of
  InitialView,     \* the views there may be to begin with: see view
  MaxChanges,      \* bound: changes of the views that come from elsewhere
  MaxRefusals,     \* bound: refused queries, refused messages
  MaxGestures      \* bound: gestures of the user

Colours == UNION {[S -> Colour] : S \in SUBSET Person}

Views == [chat : SUBSET Person, members : Colours, messages : Seq(Person)]

ASSUME PersonAssumption ==
  /\ InitialView \subseteq Views
  /\ Containing \in [Text -> SUBSET Person]
  /\ DefaultColour \in Colour

ASSUME BoundAssumption ==
  MaxChanges \in Nat /\ MaxRefusals \in Nat /\ MaxGestures \in Nat

VARIABLES
  view,            \* the documents of each query as the worker sees them: the
                   \* users array of the chat, the colours of the members who
                   \* have a document, the senders of the messages
  settled,         \* is the query in sync, or the device offline?
  tasks,           \* calls of addSnapshotListener and setData on the worker queue
  listeners,       \* the listeners, in the order of registration
  main,            \* events and completion handlers on the main queue
  chatMemberArray, \* GroupMembersModel: the users array last seen
  chatMembers,     \* GroupMembersModel: the members behind the table
  userOptions,     \* MessagesManager: colours by sender
  messages,        \* MessagesManager: the messages behind the table
  bubbles,         \* the rows of the table of messages when last reloaded
  totalUsers,      \* AddUserManager: all users loaded
  possibleUsers,   \* AddUserManager: the users behind the table
  searching,       \* is the search screen open?
  text,            \* the text in the search field
  counts           \* how many changes, refusals, gestures there have been

workerVars == <<view, settled, tasks, listeners>>
memberVars == <<chatMemberArray, chatMembers>>
messageVars == <<userOptions, messages, bubbles>>
searchVars == <<totalUsers, possibleUsers, searching, text>>
screenVars == <<view, settled, tasks, listeners, main, chatMemberArray,
                chatMembers, userOptions, messages, bubbles, totalUsers,
                possibleUsers, searching, text, counts>>

Query == {"chat", "members", "messages"}

-----------------------------------------------------------------------------
(***************************************************************************)
(* Listeners.  One that has been told nothing yet is told of a view that   *)
(* has documents or is settled; after that it is told of every change.     *)
(***************************************************************************)
Empty(q) == q # "chat" /\ DOMAIN view[q] = {}

EmptyNext(q) == q # "chat" /\ DOMAIN view'[q] = {}

(* The elements of s at the places in I, in their order. *)
Place(I, k) == CHOOSE i \in I : Cardinality({j \in I : j <= i}) = k

At(s, I) == [k \in 1 .. Cardinality(I) |-> s[Place(I, k)]]

Of(q) == {i \in DOMAIN listeners : listeners[i].query = q}

Told(q) == {i \in Of(q) : listeners[i].raised}

Event(l, q, docs) ==
  [kind |-> "snapshot", handler |-> l.handler, docs |-> docs]

Events(q, I) ==
  LET ls == At(listeners, I)
  IN  [i \in DOMAIN ls |-> Event(ls[i], q, view'[q])]

ToldAll(q) ==
  listeners' = [i \in DOMAIN listeners |->
                  IF listeners[i].query = q
                  THEN [listeners[i] EXCEPT !.raised = TRUE]
                  ELSE listeners[i]]

RaiseSnapshots(q) ==
  LET ready == settled[q] \/ ~EmptyNext(q)
  IN  /\ main' = main \o Events(q, IF ready THEN Of(q) ELSE Told(q))
      /\ IF ready THEN ToldAll(q) ELSE UNCHANGED listeners

(* Mutant: a listener has to wait for the next change. *)
AddSnapshotListenerUntold(l) ==
  /\ listeners' = Append(listeners,
                    [query |-> l.query, handler |-> l.handler, raised |-> FALSE])
  /\ UNCHANGED <<main, view>>

AddSnapshotListener(l) ==
  LET ready == settled[l.query] \/ ~Empty(l.query)
  IN  /\ listeners' = Append(listeners,
                        [query |-> l.query, handler |-> l.handler,
                         raised |-> ready])
      /\ main' = IF ready THEN Append(main, Event(l, l.query, view[l.query]))
                 ELSE main
      /\ UNCHANGED view

(* A write of addNewUser shows at once in the view of its document. *)
AddNewUser(query, u) ==
  /\ view' = [view EXCEPT ![query] =
                IF query = "chat" THEN @ \cup {u}
                ELSE [v \in DOMAIN @ \cup {u} |->
                        IF v = u THEN DefaultColour ELSE @[v]]]
  /\ IF view' = view THEN UNCHANGED <<main, listeners>>
     ELSE RaiseSnapshots(query)

RunTask ==
  /\ tasks # <<>>
  /\ tasks' = Tail(tasks)
  /\ LET task == Head(tasks)
     IN  IF task.kind = "listen" THEN AddSnapshotListener(task)
         ELSE AddNewUser(task.query, task.user)
  /\ UNCHANGED <<settled, memberVars, messageVars, searchVars, counts>>

(* The server says that the query is in sync, or the device goes offline. *)
Settle(q) ==
  /\ Of(q) # {}
  /\ ~settled[q]
  /\ settled' = [settled EXCEPT ![q] = TRUE]
  /\ UNCHANGED view
  /\ main' = main \o Events(q, Of(q) \ Told(q))
  /\ ToldAll(q)
  /\ UNCHANGED <<tasks, memberVars, messageVars, searchVars, counts>>

(* The server refuses the query: every listener hears of it and is gone. *)
Refuse(q) ==
  /\ counts.refusals < MaxRefusals
  /\ Of(q) # {}
  /\ LET ls == At(listeners, Of(q))
     IN  main' = main \o [i \in DOMAIN ls |->
                            [kind |-> "error", handler |-> ls[i].handler]]
  /\ listeners' = At(listeners, DOMAIN listeners \ Of(q))
  /\ settled' = [settled EXCEPT ![q] = FALSE]
  /\ counts' = [counts EXCEPT !.refusals = @ + 1]
  /\ UNCHANGED <<view, tasks, memberVars, messageVars, searchVars>>

Show(q, docs) ==
  /\ view[q] # docs
  /\ view' = [view EXCEPT ![q] = docs]
  /\ RaiseSnapshots(q)

(* Snapshots and gestures on other screens change the views. *)
Change ==
  /\ counts.changes < MaxChanges
  /\ \/ \E u \in Person : Show("chat", view["chat"] \cup {u})
                          \/ Show("chat", view["chat"] \ {u})
     \/ \E u \in Person, c \in Colour :
          Show("members", [v \in DOMAIN view["members"] \cup {u} |->
                             IF v = u THEN c ELSE view["members"][v]])
     \/ \E u \in Person : Show("messages", <<u>> \o view["messages"])
  /\ counts' = [counts EXCEPT !.changes = @ + 1]
  /\ UNCHANGED <<settled, tasks, memberVars, messageVars, searchVars>>

(* A message that was shown while it was pending is refused. *)
RejectMessage ==
  /\ counts.refusals < MaxRefusals
  /\ view["messages"] # <<>>
  /\ Show("messages", Tail(view["messages"]))
  /\ counts' = [counts EXCEPT !.refusals = @ + 1]
  /\ UNCHANGED <<settled, tasks, memberVars, messageVars, searchVars>>

-----------------------------------------------------------------------------
(***************************************************************************)
(* The handlers, on the main queue.                                        *)
(***************************************************************************)
Call(query, handler) ==
  tasks' = Append(tasks,
             [kind |-> "listen", query |-> query, handler |-> handler])

(* Mutant: the members are listened to once. *)
LoadValidMembersOnce(users) ==
  /\ chatMemberArray' = users
  /\ IF chatMemberArray = {} THEN Call("members", "list") ELSE UNCHANGED tasks
  /\ UNCHANGED <<chatMembers, messageVars, searchVars>>

LoadValidMembers(users) ==
  /\ chatMemberArray' = users
  /\ Call("members", "list")
  /\ UNCHANGED <<chatMembers, messageVars, searchVars>>

LoadMembers(docs) ==
  /\ chatMembers' = [u \in DOMAIN docs \cap chatMemberArray |-> docs[u]]
  /\ UNCHANGED <<chatMemberArray, tasks, messageVars, searchVars>>

(* The colours in docs, and what was known of others. *)
Over(docs, known) ==
  [u \in DOMAIN docs \cup DOMAIN known |->
     IF u \in DOMAIN docs THEN docs[u] ELSE known[u]]

(* Mutant: the messages are listened to once. *)
LoadUserOptionsOnce(docs) ==
  /\ userOptions' = Over(docs, userOptions)
  /\ IF DOMAIN userOptions = {} THEN Call("messages", "bubbles")
     ELSE UNCHANGED tasks
  /\ UNCHANGED <<messages, bubbles, memberVars, searchVars>>

LoadUserOptions(docs) ==
  /\ userOptions' = Over(docs, userOptions)
  /\ Call("messages", "bubbles")
  /\ UNCHANGED <<messages, bubbles, memberVars, searchVars>>

LoadMessageColour(sender) ==
  IF sender \in DOMAIN userOptions THEN userOptions[sender] ELSE DefaultColour

Bubbles(senders) ==
  [i \in DOMAIN senders |->
     [from |-> senders[i], colour |-> LoadMessageColour(senders[i])]]

(* The delegate is told after each message: of none when there is none. *)
LoadMessages(senders) ==
  /\ messages' = senders
  /\ bubbles' = IF senders = <<>> THEN bubbles ELSE Bubbles(senders)
  /\ UNCHANGED <<userOptions, tasks, memberVars, searchVars>>

LoadUsers(users) ==
  /\ totalUsers' = totalUsers \cup users
  /\ possibleUsers' = totalUsers'
  /\ UNCHANGED <<searching, text, tasks, memberVars, messageVars>>

Fail(handler) ==
  /\ messages' = IF handler = "bubbles" THEN <<>> ELSE messages
  /\ UNCHANGED <<userOptions, bubbles, tasks, memberVars, searchVars>>

RunMain ==
  /\ main # <<>>
  /\ main' = Tail(main)
  /\ LET event == Head(main)
     IN  IF event.kind = "error" THEN Fail(event.handler)
         ELSE CASE event.handler = "valid"   -> LoadValidMembers(event.docs)
                [] event.handler = "list"    -> LoadMembers(event.docs)
                [] event.handler = "options" -> LoadUserOptions(event.docs)
                [] event.handler = "bubbles" -> LoadMessages(event.docs)
                [] event.handler = "users"   -> LoadUsers(event.docs)
  /\ UNCHANGED <<view, settled, listeners, counts>>

-----------------------------------------------------------------------------
(***************************************************************************)
(* The search screen: getDocuments is called when it opens, and the user   *)
(* can type before the answer has come.                                    *)
(***************************************************************************)
Gesture ==
  /\ counts.gestures < MaxGestures
  /\ counts' = [counts EXCEPT !.gestures = @ + 1]

GetDocuments ==
  /\ Gesture
  /\ ~searching
  /\ searching' = TRUE
  /\ main' = Append(main,
               [kind |-> "snapshot", handler |-> "users", docs |-> Person])
  /\ UNCHANGED <<totalUsers, possibleUsers, text, workerVars, memberVars,
                 messageVars>>

(* Mutant: what is typed is matched against everybody. *)
MatchingAnyone(value) ==
  IF value = "" THEN totalUsers ELSE Containing[value]

Matching(value) ==
  IF value = "" THEN totalUsers ELSE totalUsers \cap Containing[value]

TextFieldDidChange(value) ==
  /\ Gesture
  /\ searching
  /\ value # text
  /\ text' = value
  /\ possibleUsers' = Matching(value)
  /\ UNCHANGED <<searching, totalUsers, workerVars, main, memberVars,
                 messageVars>>

(* addNewUser makes two writes, one after the other. *)
DidSelectRow(u) ==
  /\ Gesture
  /\ u \in possibleUsers
  /\ tasks' = tasks \o <<[kind |-> "write", query |-> "chat", user |-> u],
                         [kind |-> "write", query |-> "members", user |-> u]>>
  /\ UNCHANGED <<view, settled, listeners, main, memberVars, messageVars,
                 searchVars>>

-----------------------------------------------------------------------------
(***************************************************************************)
(* The screens of one chat are open, one above the other: messages and     *)
(* members, and the search for users when the user opens it.               *)
(***************************************************************************)
Init ==
  /\ view \in InitialView
  /\ settled = [q \in Query |-> FALSE]
  /\ tasks = <<[kind |-> "listen", query |-> "members", handler |-> "options"],
               [kind |-> "listen", query |-> "chat", handler |-> "valid"]>>
  /\ listeners = <<>>
  /\ main = <<>>
  /\ chatMemberArray = {}
  /\ chatMembers = <<>>
  /\ userOptions = <<>>
  /\ messages = <<>>
  /\ bubbles = <<>>
  /\ totalUsers = {}
  /\ possibleUsers = {}
  /\ searching = FALSE
  /\ text = ""
  /\ counts = [changes |-> 0, refusals |-> 0, gestures |-> 0]

Next ==
  \/ RunTask
  \/ RunMain
  \/ Change
  \/ RejectMessage
  \/ \E q \in Query : Settle(q) \/ Refuse(q)
  \/ GetDocuments
  \/ \E value \in Text \cup {""} : TextFieldDidChange(value)
  \/ \E u \in Person : DidSelectRow(u)

ScreensSpec == Init /\ [][Next]_screenVars

(* Both queues are served. *)
ServedSpec ==
  /\ ScreensSpec
  /\ WF_screenVars(RunTask)
  /\ WF_screenVars(RunMain)

-----------------------------------------------------------------------------
(***************************************************************************)
(* The data of the tables; titles and labels are functions of it.          *)
(***************************************************************************)
ScreensTypeOK ==
  /\ view \in Views
  /\ settled \in [Query -> BOOLEAN]
  /\ \A i \in DOMAIN tasks : tasks[i].query \in Query
  /\ \A i \in DOMAIN listeners :
       /\ listeners[i].query \in Query
       /\ listeners[i].raised \in BOOLEAN
  /\ chatMemberArray \subseteq Person
  /\ {chatMembers, userOptions} \subseteq Colours
  /\ messages \in Seq(Person)
  /\ \A i \in DOMAIN bubbles :
       bubbles[i].from \in Person /\ bubbles[i].colour \in Colour
  /\ totalUsers \subseteq Person
  /\ possibleUsers \subseteq totalUsers

Idle == tasks = <<>> /\ main = <<>>

Listening(handler) == \E i \in DOMAIN listeners : listeners[i].handler = handler

(***************************************************************************)
(* When all events have been handled, whichever of the piled up listeners  *)
(* was the last has left the right list: the members that have a document  *)
(* and are in the users array, as they are now.                            *)
(***************************************************************************)
MembersShown ==
  [u \in DOMAIN view["members"] \cap view["chat"] |-> view["members"][u]]

MembersAreCurrent ==
  Idle /\ Listening("valid") /\ Listening("list") => chatMembers = MembersShown

(***************************************************************************)
(* And the table of messages shows the messages there are, each in the     *)
(* colour its sender has now ("Now call load messages since message        *)
(* colours have been saved", MessagesManager.swift).                       *)
(***************************************************************************)
ColourOf(u) ==
  IF u \in DOMAIN view["members"] THEN view["members"][u] ELSE DefaultColour

BubblesShown ==
  [i \in DOMAIN view["messages"] |->
     [from |-> view["messages"][i], colour |-> ColourOf(view["messages"][i])]]

BubblesAreCurrent ==
  /\ Idle
  /\ view["messages"] # <<>>
  /\ Listening("options") /\ Listening("bubbles")
  => bubbles = BubblesShown

(***************************************************************************)
(* Both tables are right when there is nothing left to handle, and nobody  *)
(* is offered to be added who has no account.                              *)
(***************************************************************************)
ScreensInvariant ==
  /\ ScreensTypeOK
  /\ MembersAreCurrent
  /\ BubblesAreCurrent

(***************************************************************************)
(* The handlers come to an end, although each of them registers listeners  *)
(* that are told at once: the tables come to show what there is, for good. *)
(***************************************************************************)
EventuallyCurrent ==
  <>[](Idle /\ MembersAreCurrent /\ BubblesAreCurrent)
==============================================================================
