--------------------------- MODULE ListenersProofs ---------------------------
(***************************************************************************)
(* Listeners are told what the view is, and the view is the local store    *)
(* but for the documents it holds back.  The steps are those of the        *)
(* Firestore client, of the view and its listeners, and of the watch       *)
(* stream's connection; one lemma for each function of the code says what  *)
(* it does to the parts of a session.                                      *)
(***************************************************************************)
EXTENDS Listeners, FirestoreClientProofs

(***************************************************************************)
(* Every step is a step of the client or leaves its variables alone.       *)
(***************************************************************************)
LEMMA NextIsClientStep ==
  ASSUME [ListenersNext]_allVars
  PROVE  [Next]_clientVars
<1>1. CASE UNCHANGED allVars
  BY <1>1 DEF allVars
<1>2. ASSUME NEW d \in Device,
             \/ ClientStep(d)
             \/ StoreWrite(d)
             \/ HandleSuccessfulWrite(d)
             \/ HandleRejectedWrite(d)
             \/ RestartApp(d)
             \/ \E v \in 1 .. Latest : WatchSnapshot(d, v)
      PROVE  Next
  BY <1>2
     DEF ClientStep, StoreWrite, HandleSuccessfulWrite, HandleRejectedWrite,
         RestartApp, WatchSnapshot, Next, Background
<1>3. ASSUME NEW d \in Device,
             \/ \E l \in Listener : AddQueryListener(d, l) \/ RemoveQueryListener(d, l)
             \/ OnWatchStreamOpen(d)
             \/ OnWatchStreamClose(d)
             \/ IdleTimerFires(d)
             \/ OnlineStateTimerFires(d)
             \/ OnWatchStreamChange(d)
             \/ MarkCurrent(d)
             \/ HandleRejectedListen(d)
      PROVE  UNCHANGED clientVars
  BY <1>3
     DEF AddQueryListener, RemoveQueryListener, OnWatchStreamOpen,
         OnWatchStreamClose, IdleTimerFires, OnlineStateTimerFires,
         OnWatchStreamChange, MarkCurrent, HandleRejectedListen
<1> QED
  BY <1>1, <1>2, <1>3 DEF ListenersNext

(***************************************************************************)
(* Listening is a use of the Firestore client: what is proved of the       *)
(* client holds under every query.                                         *)
(***************************************************************************)
THEOREM ListenersImplementClient == ListenersSpec => Spec
<1>1. ListenersInit => Init
  BY DEF ListenersInit
<1>2. [ListenersNext]_allVars => [Next]_clientVars
  BY NextIsClientStep
<1> QED
  BY <1>1, <1>2, PTL DEF ListenersSpec, Spec

(***************************************************************************)
(* The client's invariant goes on along the steps of the listeners.        *)
(***************************************************************************)
LEMMA ListenersKeepClient ==
  ASSUME InductiveInvariant, [ListenersNext]_allVars
  PROVE  InductiveInvariant'
BY NextIsClientStep, NextInvariant

-----------------------------------------------------------------------------
(***************************************************************************)
(* The records that sessions are made of.                                  *)
(***************************************************************************)
Shaped(s) ==
  /\ DOMAIN s = {"view", "last", "listeners", "stream", "asked", "online"}
  /\ DOMAIN s.view = {"docs", "mutated", "current", "sync"}
  /\ DOMAIN s.last = {"docs", "mutated", "fromCache"}
  /\ DOMAIN s.online = {"state", "failed", "timer"}

(***************************************************************************)
(* So is the session of an app that has just started, which nobody listens *)
(* to.                                                                     *)
(***************************************************************************)
LEMMA NewSessionShaped ==
  Shaped(NewSession) /\ ~Listening(NewSession) /\ NewSession.view = NewView
BY EmptySequence DEF Shaped, NewSession, NewView, Listening

(***************************************************************************)
(* The part of a session that is about the connection.                     *)
(***************************************************************************)
SameConnection(t, s) ==
  /\ t.stream = s.stream
  /\ t.asked = s.asked
  /\ t.online = s.online

(***************************************************************************)
(* What a snapshot says of the view as a whole: whether it is current, and *)
(* so in sync.                                                             *)
(***************************************************************************)
LEMMA ViewIsShaped ==
  ASSUME NEW view, NEW docs, NEW changes, NEW current
  PROVE  /\ DOMAIN ApplyChanges(view, docs, changes, current)
              = {"docs", "mutated", "current", "sync"}
         /\ ApplyChanges(view, docs, changes, current).current = current
         /\ ApplyChanges(view, docs, changes, current).sync
              = IF current THEN "synced" ELSE "local"
BY DEF ApplyChanges

(***************************************************************************)
(* EmitNewSnapshots is about the view, its last snapshot and what the      *)
(* listeners know.                                                         *)
(***************************************************************************)
LEMMA EmitFields ==
  ASSUME NEW s, Shaped(s), NEW docs, NEW current
  PROVE  LET t == EmitNewSnapshots(s, docs, current)
         IN  /\ Shaped(t)
             /\ SameConnection(t, s)
             /\ DOMAIN t.listeners = DOMAIN s.listeners
             /\ ~Listening(s) => t = s
             /\ Listening(s) =>
                  t.view = ApplyChanges(s.view, docs,
                                        ComputeDocumentChanges(s.view, docs),
                                        current)
<1> DEFINE changes == ComputeDocumentChanges(s.view, docs)
           view == ApplyChanges(s.view, docs, changes, current)
           t == [s EXCEPT !.view = view]
           snapshot == [docs |-> view.docs,
                        mutated |-> view.mutated,
                        fromCache |-> view.sync = "local",
                        changes |-> changes,
                        syncChanged |-> view.sync # s.view.sync]
           told == OnViewSnapshots(t, snapshot)
<1>1. DOMAIN view = {"docs", "mutated", "current", "sync"}
  BY ViewIsShaped
<1>2. \/ ~Listening(s) /\ EmitNewSnapshots(s, docs, current) = s
      \/ Listening(s) /\ EmitNewSnapshots(s, docs, current) \in {t, told}
  BY DEF EmitNewSnapshots
<1> HIDE DEF view, changes
<1>3. /\ Shaped(t) /\ SameConnection(t, s) /\ t.view = view
      /\ t.listeners = s.listeners
  BY <1>1 DEF Shaped, SameConnection
<1> HIDE DEF t, snapshot
<1>4. /\ Shaped(told) /\ SameConnection(told, t) /\ told.view = t.view
      /\ DOMAIN told.listeners = DOMAIN t.listeners
  BY <1>3 DEF Shaped, SameConnection, OnViewSnapshots
<1> HIDE DEF told
<1>5. Shaped(told) /\ SameConnection(told, s)
  BY <1>3, <1>4 DEF SameConnection
<1>6. SameConnection(s, s)
  BY DEF SameConnection
<1> QED
  BY <1>2, <1>3, <1>4, <1>5, <1>6 DEF view, changes

(***************************************************************************)
(* Without documents to take over only the sync state changes.             *)
(***************************************************************************)
SameDocuments(view, old) ==
  /\ DOMAIN view.docs = DOMAIN old.docs
  /\ \A k \in DOMAIN old.docs : view.docs[k] = old.docs[k]
  /\ view.mutated = old.mutated

(***************************************************************************)
(* Without documents EmitNewSnapshots changes at most the sync state.      *)
(***************************************************************************)
LEMMA EmptyEmit ==
  ASSUME NEW s, Shaped(s), NEW current
  PROVE  LET t == EmitNewSnapshots(s, <<>>, current)
         IN  /\ SameDocuments(t.view, s.view)
             /\ Listening(s) =>
                  t.view.sync = IF current THEN "synced" ELSE "local"
<1> DEFINE changes == ComputeDocumentChanges(s.view, <<>>)
           view == ApplyChanges(s.view, <<>>, changes, current)
           t == EmitNewSnapshots(s, <<>>, current)
<1>1. IF Listening(s) THEN t.view = view ELSE t = s
  BY EmitFields
<1>2. DOMAIN changes = {}
  BY EmptySequence DEF ComputeDocumentChanges, Restrict
<1> HIDE DEF changes
<1>3. SameDocuments(view, s.view)
  BY <1>2 DEF ApplyChanges, OfType, SameDocuments
<1>4. view.sync = IF current THEN "synced" ELSE "local"
  BY ViewIsShaped
<1>5. SameDocuments(s.view, s.view)
  BY DEF SameDocuments
<1> HIDE DEF view, t
<1> QED
  BY <1>1, <1>3, <1>4, <1>5 DEF t

(***************************************************************************)
(* A new online state, which may put the view out of sync.                 *)
(***************************************************************************)
Unsynced(s) == EmitNewSnapshots(s, <<>>, FALSE)

MayBeUnsynced(view, old) ==
  SameDocuments(view, old) /\ view.sync \in {old.sync, "local"}

(***************************************************************************)
(* A new online state: going offline may put the view out of sync, nothing *)
(* else touches it.                                                        *)
(***************************************************************************)
LEMMA BroadcastFields ==
  ASSUME NEW s, Shaped(s), NEW state
  PROVE  LET t == SetAndBroadcast(s, state)
         IN  /\ Shaped(t)
             /\ t.stream = s.stream
             /\ t.asked = s.asked
             /\ DOMAIN t.listeners = DOMAIN s.listeners
             /\ t.online.state = state
             /\ t.online.failed = s.online.failed
             /\ t.online.timer = s.online.timer
             /\ MayBeUnsynced(t.view, s.view)
             /\ state # "offline" => t.view = s.view
<1> DEFINE u == IF s.view.current /\ state = "offline" THEN Unsynced(s) ELSE s
           t == HandleOnlineStateChange(s, state)
<1>0. MayBeUnsynced(s.view, s.view)
  BY DEF MayBeUnsynced, SameDocuments
<1>1. /\ Shaped(u) /\ SameConnection(u, s)
      /\ DOMAIN u.listeners = DOMAIN s.listeners
      /\ MayBeUnsynced(u.view, s.view)
      /\ state # "offline" => u = s
  <2>1. /\ Shaped(Unsynced(s)) /\ SameConnection(Unsynced(s), s)
        /\ DOMAIN Unsynced(s).listeners = DOMAIN s.listeners
    BY EmitFields DEF Unsynced
  <2>2. MayBeUnsynced(Unsynced(s).view, s.view)
    BY <1>0, EmitFields, EmptyEmit DEF Unsynced, MayBeUnsynced
  <2> QED
    BY <1>0, <2>1, <2>2 DEF SameConnection
<1>2. t = [u EXCEPT !.online.state = state,
                    !.listeners = [l \in DOMAIN @ |->
                                     OnOnlineStateChanged(l, @[l], u.last, state)]]
  BY DEF HandleOnlineStateChange, Unsynced
<1> HIDE DEF u, t
<1>3. /\ Shaped(t)
      /\ t.stream = u.stream /\ t.asked = u.asked /\ t.view = u.view
      /\ DOMAIN t.listeners = DOMAIN u.listeners
      /\ t.online.state = state
      /\ t.online.failed = u.online.failed
      /\ t.online.timer = u.online.timer
  BY <1>1, <1>2 DEF Shaped
<1>4. CASE state = s.online.state
  BY <1>0, <1>4 DEF SetAndBroadcast
<1>5. CASE state # s.online.state
  BY <1>1, <1>3, <1>5 DEF SetAndBroadcast, SameConnection, t
<1> QED
  BY <1>4, <1>5

-----------------------------------------------------------------------------
(***************************************************************************)
(* What was told to the listeners of a session adds up.  Until the view    *)
(* has its first snapshot, in state none, nobody was told anything.  A     *)
(* document of the view is marked as pending when it was so as it was      *)
(* taken from the local store.                                             *)
(***************************************************************************)
LastIsView(s) ==
  /\ DOMAIN s.last.docs = DOMAIN s.view.docs
  /\ \A k \in DOMAIN s.view.docs : s.last.docs[k] = s.view.docs[k]
  /\ s.last.mutated = s.view.mutated
  /\ s.last.fromCache = (s.view.sync = "local")

Knows(l, listener, view) ==
  /\ view.sync # "none"
  /\ listener.shown = DataOf(view.docs)
  /\ l \in WithMetadata =>
       /\ listener.mutated = view.mutated
       /\ listener.fromCache = (view.sync # "synced")

IsTold(l, listener, view) ==
  /\ DOMAIN listener = {"raised", "shown", "mutated", "fromCache"}
  /\ listener.raised \in BOOLEAN
  /\ IF listener.raised THEN Knows(l, listener, view)
     ELSE DOMAIN listener.shown = {}

MarksPending(view) ==
  view.mutated = {k \in DOMAIN view.docs : view.docs[k].state = "local"}

AddsUp(s) ==
  /\ s.view.sync \in {"none", "local", "synced"}
  /\ s.view.current = (s.view.sync = "synced")
  /\ MarksPending(s.view)
  /\ s.view.sync # "none" => LastIsView(s)
  /\ \A l \in DOMAIN s.listeners : IsTold(l, s.listeners[l], s.view)

(***************************************************************************)
(* What a change of a document says of it, before and after.               *)
(***************************************************************************)
LEMMA ChangeSays ==
  ASSUME NEW view, NEW docs
  PROVE  LET changes == ComputeDocumentChanges(view, docs)
         IN  /\ DOMAIN changes \subseteq DOMAIN docs
             /\ \A k \in DOMAIN docs :
                  IF ChangeOf(view, k, docs[k]) = "none"
                  THEN k \notin DOMAIN changes
                  ELSE k \in DOMAIN changes /\ changes[k] = ChangeOf(view, k, docs[k])
             /\ \A k \in DOMAIN changes :
                  /\ changes[k] \in {"added", "removed", "modified", "metadata"}
                  /\ changes[k] = "added" => k \notin DOMAIN view.docs
                  /\ changes[k] # "added" => k \in DOMAIN view.docs
                  /\ changes[k] = "metadata" => view.docs[k].data = docs[k].data
<1> DEFINE type == [k \in DOMAIN docs |-> ChangeOf(view, k, docs[k])]
           changes == ComputeDocumentChanges(view, docs)
<1>1. changes = [k \in {k \in DOMAIN docs : type[k] # "none"} |-> type[k]]
  BY DEF ComputeDocumentChanges, Restrict
<1>2. \A k \in DOMAIN docs :
        /\ type[k] = ChangeOf(view, k, docs[k])
        /\ type[k] \in {"none", "added", "removed", "modified", "metadata"}
        /\ type[k] = "added" => k \notin DOMAIN view.docs
        /\ type[k] \notin {"none", "added"} => k \in DOMAIN view.docs
        /\ type[k] = "metadata" => view.docs[k].data = docs[k].data
  <2>1. \A k \in DOMAIN docs : type[k] = ChangeOf(view, k, docs[k])
    OBVIOUS
  <2> SUFFICES ASSUME NEW k \in DOMAIN docs
               PROVE  LET c == ChangeOf(view, k, docs[k])
                      IN  /\ c \in {"none", "added", "removed", "modified", "metadata"}
                          /\ c = "added" => k \notin DOMAIN view.docs
                          /\ c \notin {"none", "added"} => k \in DOMAIN view.docs
                          /\ c = "metadata" => view.docs[k].data = docs[k].data
    BY <2>1
  <2> DEFINE doc == docs[k]
  <2>2. CASE k \notin DOMAIN view.docs
    <3>1. ChangeOf(view, k, docs[k]) = IF InQuery(doc) THEN "added" ELSE "none"
      BY <2>2 DEF ChangeOf
    <3> QED
      BY <2>2, <3>1
  <2>3. CASE k \in DOMAIN view.docs /\ ~InQuery(doc)
    <3>1. ChangeOf(view, k, docs[k]) = "removed"
      BY <2>3 DEF ChangeOf
    <3> QED
      BY <2>3, <3>1
  <2>4. CASE k \in DOMAIN view.docs /\ InQuery(doc) /\ view.docs[k].data # doc.data
    <3>1. ChangeOf(view, k, docs[k]) \in {"none", "modified"}
      BY <2>4 DEF ChangeOf
    <3> QED
      BY <2>4, <3>1
  <2>5. CASE k \in DOMAIN view.docs /\ InQuery(doc) /\ view.docs[k].data = doc.data
    <3>1. ChangeOf(view, k, docs[k]) \in {"none", "metadata"}
      BY <2>5 DEF ChangeOf
    <3> QED
      BY <2>5, <3>1
  <2> QED
    BY <2>2, <2>3, <2>4, <2>5
<1> HIDE DEF type
<1> QED
  BY <1>1, <1>2

(***************************************************************************)
(* What becomes of the documents that changes speak of, and of the others. *)
(***************************************************************************)
LEMMA ApplyChangesDocs ==
  ASSUME NEW view, NEW docs, NEW current,
         NEW changes, changes = ComputeDocumentChanges(view, docs),
         NEW new, new = ApplyChanges(view, docs, changes, current)
  PROVE  /\ \A k : k \in DOMAIN new.docs <=>
                     IF k \in DOMAIN changes THEN changes[k] # "removed"
                     ELSE k \in DOMAIN view.docs
         /\ \A k \in DOMAIN new.docs :
              new.docs[k] = IF k \in DOMAIN changes THEN docs[k] ELSE view.docs[k]
         /\ \A k : k \in new.mutated <=>
                     IF k \in DOMAIN changes
                     THEN changes[k] # "removed" /\ docs[k].state = "local"
                     ELSE k \in view.mutated
<1>1. \A k \in DOMAIN changes :
        /\ changes[k] \in {"added", "removed", "modified", "metadata"}
        /\ changes[k] = "added" => k \notin DOMAIN view.docs
        /\ changes[k] # "added" => k \in DOMAIN view.docs
  BY ChangeSays
<1>2. \A k, c : k \in OfType(changes, {c}) <=> k \in DOMAIN changes /\ changes[k] = c
  BY DEF OfType
<1>3. /\ DOMAIN new.docs = (DOMAIN view.docs \ OfType(changes, {"removed"}))
                             \cup OfType(changes, {"added"})
      /\ \A k \in DOMAIN new.docs :
           new.docs[k] = IF k \in DOMAIN changes THEN docs[k] ELSE view.docs[k]
      /\ new.mutated = (view.mutated \ DOMAIN changes) \cup
               {k \in DOMAIN changes \ OfType(changes, {"removed"}) :
                  docs[k].state = "local"}
  BY DEF ApplyChanges
<1>4. ASSUME NEW k
      PROVE  /\ k \in DOMAIN new.docs <=>
                  IF k \in DOMAIN changes THEN changes[k] # "removed"
                  ELSE k \in DOMAIN view.docs
             /\ k \in new.mutated <=>
                  IF k \in DOMAIN changes
                  THEN changes[k] # "removed" /\ docs[k].state = "local"
                  ELSE k \in view.mutated
  <2>1. /\ k \in OfType(changes, {"removed"}) <=> k \in DOMAIN changes /\ changes[k] = "removed"
        /\ k \in OfType(changes, {"added"}) <=> k \in DOMAIN changes /\ changes[k] = "added"
    BY <1>2
  <2>2. k \in DOMAIN new.docs <=>
          \/ k \in DOMAIN view.docs /\ k \notin OfType(changes, {"removed"})
          \/ k \in OfType(changes, {"added"})
    BY <1>3
  <2>3. k \in new.mutated <=>
          \/ k \in view.mutated /\ k \notin DOMAIN changes
          \/ /\ k \in DOMAIN changes /\ k \notin OfType(changes, {"removed"})
             /\ docs[k].state = "local"
    BY <1>3
  <2>4. CASE k \in DOMAIN changes
    BY <1>1, <2>1, <2>2, <2>3, <2>4
  <2>5. CASE k \notin DOMAIN changes
    BY <2>1, <2>2, <2>3, <2>5
  <2> QED
    BY <2>4, <2>5
<1> QED
  BY <1>3, <1>4

(***************************************************************************)
(* The changes of a snapshot, without those of metadata if the listener    *)
(* does not want them, take the documents from the old view to the new.    *)
(***************************************************************************)
LEMMA ReplayedIsView ==
  ASSUME NEW view, NEW docs, NEW current, NEW l,
         NEW changes, changes = ComputeDocumentChanges(view, docs),
         NEW new, new = ApplyChanges(view, docs, changes, current)
  PROVE  /\ Replay(DataOf(view.docs), ChangesFor(l, changes), new.docs) = DataOf(new.docs)
         /\ DOMAIN ChangesFor(l, changes) = {} => DataOf(new.docs) = DataOf(view.docs)
         /\ l \in WithMetadata => ChangesFor(l, changes) = changes
<1> DEFINE mine == ChangesFor(l, changes)
<1>1. \A k \in DOMAIN changes :
        /\ changes[k] \in {"added", "removed", "modified", "metadata"}
        /\ changes[k] = "added" => k \notin DOMAIN view.docs
        /\ changes[k] # "added" => k \in DOMAIN view.docs
        /\ changes[k] = "metadata" => view.docs[k].data = docs[k].data
  BY ChangeSays
<1>2. /\ DOMAIN mine \subseteq DOMAIN changes
      /\ \A k \in DOMAIN mine : mine[k] = changes[k]
      /\ \A k \in DOMAIN changes \ DOMAIN mine : changes[k] = "metadata"
      /\ l \in WithMetadata => mine = changes
  BY DEF ChangesFor, Restrict, OfType
<1> HIDE DEF mine
<1>3. /\ \A k : k \in DOMAIN new.docs <=>
                  IF k \in DOMAIN changes THEN changes[k] # "removed"
                  ELSE k \in DOMAIN view.docs
      /\ \A k \in DOMAIN new.docs :
           new.docs[k] = IF k \in DOMAIN changes THEN docs[k] ELSE view.docs[k]
  BY ApplyChangesDocs
<1>4. /\ DOMAIN DataOf(view.docs) = DOMAIN view.docs
      /\ \A k \in DOMAIN view.docs : DataOf(view.docs)[k] = view.docs[k].data
      /\ DataOf(new.docs) = [k \in DOMAIN new.docs |-> new.docs[k].data]
  BY DEF DataOf
<1>5. \A c, k : k \in OfType(mine, {c}) <=> k \in DOMAIN mine /\ mine[k] = c
  BY DEF OfType
<1>6. (DOMAIN view.docs \ OfType(mine, {"removed"})) \cup OfType(mine, {"added"})
        = DOMAIN new.docs
  <2>1. ASSUME NEW k
        PROVE  k \in DOMAIN new.docs <=>
                 \/ k \in DOMAIN view.docs /\ k \notin OfType(mine, {"removed"})
                 \/ k \in OfType(mine, {"added"})
    <3>1. /\ k \in OfType(mine, {"removed"}) <=> k \in DOMAIN mine /\ mine[k] = "removed"
          /\ k \in OfType(mine, {"added"}) <=> k \in DOMAIN mine /\ mine[k] = "added"
      BY <1>5
    <3>2. k \in DOMAIN new.docs <=>
            IF k \in DOMAIN changes THEN changes[k] # "removed"
            ELSE k \in DOMAIN view.docs
      BY <1>3
    <3>3. CASE k \in DOMAIN mine
      BY <1>1, <1>2, <3>1, <3>2, <3>3
    <3>4. CASE k \notin DOMAIN mine /\ k \in DOMAIN changes
      <4>1. changes[k] = "metadata"
        BY <1>2, <3>4
      <4> QED
        BY <1>1, <3>1, <3>2, <3>4, <4>1
    <3>5. CASE k \notin DOMAIN changes
      BY <1>2, <3>1, <3>2, <3>5
    <3> QED
      BY <3>3, <3>4, <3>5
  <2> QED
    BY <2>1
<1>7. \A k \in DOMAIN new.docs :
        new.docs[k].data = IF k \in DOMAIN mine THEN new.docs[k].data
                           ELSE DataOf(view.docs)[k]
  BY <1>1, <1>2, <1>3, <1>4
<1>8. Replay(DataOf(view.docs), mine, new.docs)
        = [k \in DOMAIN new.docs |->
             IF k \in DOMAIN mine THEN new.docs[k].data ELSE DataOf(view.docs)[k]]
  BY <1>4, <1>6 DEF Replay
<1>9. Replay(DataOf(view.docs), mine, new.docs) = DataOf(new.docs)
  BY <1>4, <1>7, <1>8
<1>10. ASSUME DOMAIN mine = {}
       PROVE  DataOf(new.docs) = DataOf(view.docs)
  <2>1. DOMAIN new.docs = DOMAIN view.docs
    BY <1>1, <1>2, <1>3, <1>10
  <2>2. \A k \in DOMAIN new.docs : new.docs[k].data = view.docs[k].data
    BY <1>1, <1>2, <1>3, <1>10
  <2> QED
    BY <2>1, <2>2 DEF DataOf
<1> QED
  BY <1>2, <1>9, <1>10 DEF mine

(***************************************************************************)
(* An event leaves a listener with the snapshot's view, if its changes do. *)
(***************************************************************************)
LEMMA EventTells ==
  ASSUME NEW l, NEW listener, NEW changes, NEW snapshot, NEW view,
         view.sync \in {"local", "synced"},
         snapshot.mutated = view.mutated,
         snapshot.fromCache = (view.sync = "local"),
         Replay(listener.shown, changes, snapshot.docs) = DataOf(view.docs)
  PROVE  IsTold(l, OnEvent(listener, changes, snapshot), view)
BY DEF OnEvent, IsTold, Knows

(***************************************************************************)
(* The first event says all documents are new.                             *)
(***************************************************************************)
LEMMA InitialEventTells ==
  ASSUME NEW l, NEW listener, NEW snapshot, NEW view,
         DOMAIN listener.shown = {},
         view.sync \in {"local", "synced"},
         snapshot.mutated = view.mutated,
         snapshot.fromCache = (view.sync = "local"),
         DOMAIN snapshot.docs = DOMAIN view.docs,
         \A k \in DOMAIN view.docs : snapshot.docs[k] = view.docs[k]
  PROVE  IsTold(l, RaiseInitialEvent(listener, snapshot), view)
<1> DEFINE changes == [k \in DOMAIN snapshot.docs |-> "added"]
<1>1. /\ OfType(changes, {"removed"}) = {}
      /\ OfType(changes, {"added"}) = DOMAIN view.docs
      /\ DOMAIN changes = DOMAIN view.docs
  BY DEF OfType
<1> HIDE DEF changes
<1>2. Replay(listener.shown, changes, snapshot.docs)
        = [k \in DOMAIN view.docs |-> snapshot.docs[k].data]
  BY <1>1 DEF Replay
<1>3. Replay(listener.shown, changes, snapshot.docs) = DataOf(view.docs)
  BY <1>2 DEF DataOf
<1> QED
  BY <1>3, EventTells DEF RaiseInitialEvent, changes

(***************************************************************************)
(* A snapshot that holds for the view, and says what changed since the     *)
(* view that a listener knows, leaves the listener with the new view.      *)
(***************************************************************************)
Tells(snapshot, old, view) ==
  /\ view.sync \in {"local", "synced"}
  /\ snapshot.mutated = view.mutated
  /\ snapshot.fromCache = (view.sync = "local")
  /\ DOMAIN snapshot.docs = DOMAIN view.docs
  /\ \A k \in DOMAIN view.docs : snapshot.docs[k] = view.docs[k]
  /\ old.sync # "none" =>
       /\ \A l : /\ Replay(DataOf(old.docs), ChangesFor(l, snapshot.changes),
                           snapshot.docs) = DataOf(view.docs)
                 /\ DOMAIN ChangesFor(l, snapshot.changes) = {} =>
                      DataOf(view.docs) = DataOf(old.docs)
       /\ \A l \in WithMetadata :
            DOMAIN ChangesFor(l, snapshot.changes) = {} /\ ~snapshot.syncChanged =>
              view.mutated = old.mutated /\ view.sync = old.sync

(***************************************************************************)
(* OnViewSnapshot passes such a snapshot on, or has nothing to say that    *)
(* the listener did not know.                                              *)
(***************************************************************************)
LEMMA SnapshotTells ==
  ASSUME NEW l, NEW listener, NEW snapshot, NEW old, NEW view, NEW previous,
         NEW state, IsTold(l, listener, old), Tells(snapshot, old, view)
  PROVE  IsTold(l, OnViewSnapshot(l, listener, snapshot, previous, state), view)
<1> DEFINE changes == ChangesFor(l, snapshot.changes)
           new == OnViewSnapshot(l, listener, snapshot, previous, state)
<1>0. listener.raised \in BOOLEAN
  BY DEF IsTold
<1>1. CASE ~listener.raised /\ ShouldRaiseInitialEvent(l, snapshot, state)
  <2>1. new = RaiseInitialEvent(listener, snapshot)
    BY <1>1 DEF OnViewSnapshot
  <2>2. DOMAIN listener.shown = {}
    BY <1>1 DEF IsTold
  <2> QED
    BY <2>1, <2>2, InitialEventTells DEF Tells
<1>2. CASE listener.raised /\ ShouldRaiseEvent(l, changes, snapshot, previous)
  <2>1. new = OnEvent(listener, changes, snapshot)
    BY <1>2 DEF OnViewSnapshot
  <2>2. old.sync # "none" /\ listener.shown = DataOf(old.docs)
    BY <1>2 DEF IsTold, Knows
  <2>3. Replay(listener.shown, changes, snapshot.docs) = DataOf(view.docs)
    BY <2>2 DEF Tells
  <2> HIDE DEF changes
  <2> QED
    BY <2>1, <2>3, EventTells DEF Tells
<1>3. CASE ~listener.raised /\ ~ShouldRaiseInitialEvent(l, snapshot, state)
  <2>1. new = listener
    BY <1>3 DEF OnViewSnapshot
  <2> QED
    BY <1>3, <2>1 DEF IsTold
<1>4. CASE listener.raised /\ ~ShouldRaiseEvent(l, changes, snapshot, previous)
  <2>1. new = listener
    BY <1>4 DEF OnViewSnapshot
  <2>2. /\ DOMAIN changes = {}
        /\ l \in WithMetadata => ~snapshot.syncChanged
    BY <1>4 DEF ShouldRaiseEvent
  <2>3. Knows(l, listener, old)
    BY <1>4 DEF IsTold
  <2>4. /\ old.sync # "none"
        /\ DataOf(view.docs) = DataOf(old.docs)
        /\ l \in WithMetadata => view.mutated = old.mutated /\ view.sync = old.sync
    BY <2>2, <2>3 DEF Knows, Tells
  <2>5. Knows(l, listener, view)
    BY <2>3, <2>4 DEF Knows, Tells
  <2> QED
    BY <1>4, <2>1, <2>5 DEF IsTold
<1> QED
  BY <1>0, <1>1, <1>2, <1>3, <1>4

(***************************************************************************)
(* The snapshots of EmitNewSnapshots are such snapshots.                   *)
(***************************************************************************)
LEMMA EmitAddsUp ==
  ASSUME NEW s, Shaped(s), AddsUp(s), Listening(s), NEW docs, NEW current \in BOOLEAN
  PROVE  LET t == EmitNewSnapshots(s, docs, current)
         IN  AddsUp(t) /\ t.view.sync # "none"
<1> DEFINE changes == ComputeDocumentChanges(s.view, docs)
           view == ApplyChanges(s.view, docs, changes, current)
           t == [s EXCEPT !.view = view]
           snapshot == [docs |-> view.docs,
                        mutated |-> view.mutated,
                        fromCache |-> view.sync = "local",
                        changes |-> changes,
                        syncChanged |-> view.sync # s.view.sync]
           told == OnViewSnapshots(t, snapshot)
<1>1. EmitNewSnapshots(s, docs, current) =
        IF DOMAIN changes = {} /\ view.sync = s.view.sync THEN t ELSE told
  BY DEF EmitNewSnapshots
<1>2. /\ \A k : k \in DOMAIN view.docs <=>
                  IF k \in DOMAIN changes THEN changes[k] # "removed"
                  ELSE k \in DOMAIN s.view.docs
      /\ \A k \in DOMAIN view.docs :
           view.docs[k] = IF k \in DOMAIN changes THEN docs[k] ELSE s.view.docs[k]
      /\ \A k : k \in view.mutated <=>
                  IF k \in DOMAIN changes
                  THEN changes[k] # "removed" /\ docs[k].state = "local"
                  ELSE k \in s.view.mutated
  BY ApplyChangesDocs
<1>3. /\ view.sync = IF current THEN "synced" ELSE "local"
      /\ view.current = current
  BY ViewIsShaped
<1>4. MarksPending(view)
  <2>1. \A k : k \in s.view.mutated <=>
                 k \in DOMAIN s.view.docs /\ s.view.docs[k].state = "local"
    BY DEF AddsUp, MarksPending
  <2> HIDE DEF view, changes
  <2>2. ASSUME NEW k
        PROVE  k \in view.mutated <=> k \in DOMAIN view.docs /\ view.docs[k].state = "local"
    BY <1>2, <2>1
  <2> QED
    BY <2>2 DEF MarksPending
<1>5. \A l : /\ Replay(DataOf(s.view.docs), ChangesFor(l, changes), view.docs) = DataOf(view.docs)
             /\ DOMAIN ChangesFor(l, changes) = {} => DataOf(view.docs) = DataOf(s.view.docs)
             /\ l \in WithMetadata => ChangesFor(l, changes) = changes
  BY ReplayedIsView
<1>6. DOMAIN changes = {} => view.mutated = s.view.mutated
  BY <1>2
<1>7. Tells(snapshot, s.view, view)
  <2> HIDE DEF view, changes
  <2> QED
    BY <1>3, <1>5, <1>6 DEF Tells
<1>8. CASE DOMAIN changes = {} /\ view.sync = s.view.sync
  <2>1. t.view = view /\ t.listeners = s.listeners /\ t.last = s.last
    BY DEF Shaped
  <2>2. /\ DOMAIN view.docs = DOMAIN s.view.docs
        /\ \A k \in DOMAIN view.docs : view.docs[k] = s.view.docs[k]
        /\ DataOf(view.docs) = DataOf(s.view.docs)
    <3> HIDE DEF view, changes
    <3>1. ASSUME NEW k PROVE k \in DOMAIN view.docs <=> k \in DOMAIN s.view.docs
      BY <1>2, <1>8
    <3>2. \A k \in DOMAIN view.docs : view.docs[k] = s.view.docs[k]
      BY <1>2, <1>8
    <3>3. DOMAIN view.docs = DOMAIN s.view.docs
      BY <3>1
    <3> QED
      BY <3>2, <3>3 DEF DataOf
  <2> HIDE DEF t, view, changes
  <2>3. s.view.sync # "none"
    BY <1>3, <1>8
  <2>4. LastIsView(t)
    BY <1>6, <1>8, <2>1, <2>2, <2>3 DEF AddsUp, LastIsView
  <2>5. ASSUME NEW l \in DOMAIN s.listeners
        PROVE  IsTold(l, s.listeners[l], view)
    BY <1>6, <1>8, <2>2 DEF AddsUp, IsTold, Knows
  <2>6. AddsUp(t)
    BY <1>3, <1>4, <2>1, <2>4, <2>5 DEF AddsUp
  <2> QED
    BY <1>1, <1>3, <1>8, <2>1, <2>6
<1>9. CASE ~(DOMAIN changes = {} /\ view.sync = s.view.sync)
  <2>1. t.view = view /\ t.listeners = s.listeners /\ t.last = s.last /\ Shaped(t)
    BY ViewIsShaped DEF Shaped
  <2>2. /\ told.view = view
        /\ told.listeners = [l \in DOMAIN s.listeners |->
              OnViewSnapshot(l, s.listeners[l], snapshot, s.last, t.online.state)]
        /\ told.last = [docs |-> view.docs, mutated |-> view.mutated,
                        fromCache |-> view.sync = "local"]
    <3> HIDE DEF t, view, changes
    <3> QED
      BY <2>1 DEF OnViewSnapshots, Shaped
  <2> HIDE DEF told, t, view, changes, snapshot
  <2>3. ASSUME NEW l \in DOMAIN s.listeners
        PROVE  IsTold(l, told.listeners[l], view)
    <3>1. IsTold(l, s.listeners[l], s.view)
      BY DEF AddsUp
    <3> QED
      BY <1>7, <2>2, <3>1, SnapshotTells
  <2>4. LastIsView(told)
    BY <2>2 DEF LastIsView
  <2>5. AddsUp(told)
    BY <1>3, <1>4, <2>2, <2>3, <2>4 DEF AddsUp
  <2> QED
    BY <1>1, <1>3, <1>9, <2>2, <2>5
<1> QED
  BY <1>8, <1>9

(***************************************************************************)
(* So are those that come with a change of the online state.               *)
(***************************************************************************)
LEMMA BroadcastAddsUp ==
  ASSUME NEW s, Shaped(s), AddsUp(s), NEW state,
         Listening(s) => s.view.sync # "none",
         ~Listening(s) => s.view = NewView
  PROVE  LET t == SetAndBroadcast(s, state)
         IN  /\ AddsUp(t)
             /\ Listening(t) => t.view.sync # "none"
             /\ ~Listening(t) => t.view = NewView
<1> DEFINE u == IF s.view.current /\ state = "offline" THEN Unsynced(s) ELSE s
           t == HandleOnlineStateChange(s, state)
<1>1. /\ Shaped(u) /\ AddsUp(u)
      /\ Listening(u) => u.view.sync # "none"
      /\ ~Listening(u) => u.view = NewView
  <2>1. CASE Listening(s)
    BY <2>1, EmitFields, EmitAddsUp DEF Unsynced, Listening
  <2>2. CASE ~Listening(s)
    BY <2>2, EmitFields DEF Unsynced
  <2> QED
    BY <2>1, <2>2
<1>2. t = [u EXCEPT !.online.state = state,
                    !.listeners = [l \in DOMAIN @ |->
                                     OnOnlineStateChanged(l, @[l], u.last, state)]]
  BY DEF HandleOnlineStateChange, Unsynced
<1> HIDE DEF u, t
<1>3. /\ t.view = u.view /\ t.last = u.last
      /\ t.listeners = [l \in DOMAIN u.listeners |->
                          OnOnlineStateChanged(l, u.listeners[l], u.last, state)]
  BY <1>1, <1>2 DEF Shaped
<1>4. ASSUME NEW l \in DOMAIN u.listeners
      PROVE  IsTold(l, OnOnlineStateChanged(l, u.listeners[l], u.last, state), u.view)
  <2>1. IsTold(l, u.listeners[l], u.view) /\ Listening(u)
    BY <1>1 DEF AddsUp, Listening
  <2>2. LastIsView(u) /\ u.view.sync \in {"local", "synced"}
    BY <1>1, <2>1 DEF AddsUp
  <2>3. ~u.listeners[l].raised => IsTold(l, RaiseInitialEvent(u.listeners[l], u.last), u.view)
    BY <2>1, <2>2, InitialEventTells DEF LastIsView, IsTold
  <2> QED
    BY <2>1, <2>3 DEF OnOnlineStateChanged
<1>5. AddsUp(t)
  BY <1>1, <1>3, <1>4 DEF AddsUp, LastIsView
<1>6. Listening(t) <=> Listening(u)
  BY <1>3 DEF Listening
<1> QED
  BY <1>1, <1>3, <1>5, <1>6 DEF SetAndBroadcast, t

(***************************************************************************)
(* What the listeners of a session were told, as long as there are any.    *)
(***************************************************************************)
Told(s) ==
  /\ AddsUp(s)
  /\ Listening(s) => s.view.sync # "none"
  /\ ~Listening(s) => s.view = NewView

(***************************************************************************)
(* A step that is not about the view, its last snapshot and the listeners. *)
(***************************************************************************)
LEMMA ToldStays ==
  ASSUME NEW s, Told(s), NEW t,
         t.view = s.view, t.last = s.last, t.listeners = s.listeners
  PROVE  Told(t)
BY DEF Told, AddsUp, LastIsView, Listening

(***************************************************************************)
(* A change of the online state leaves the listeners with what the view    *)
(* is.                                                                     *)
(***************************************************************************)
LEMMA BroadcastTells ==
  ASSUME NEW s, Shaped(s), Told(s), NEW state
  PROVE  Told(SetAndBroadcast(s, state))
BY BroadcastAddsUp DEF Told

(***************************************************************************)
(* UpdateState: an answer, or nobody who waits for one.                    *)
(***************************************************************************)
LEMMA UpdateStateFields ==
  ASSUME NEW s, Shaped(s), NEW state \in {"unknown", "online"}
  PROVE  LET t == UpdateState(s, state)
         IN  /\ Shaped(t)
             /\ t.stream = s.stream /\ t.asked = s.asked /\ t.view = s.view
             /\ DOMAIN t.listeners = DOMAIN s.listeners
             /\ t.online.state = state
             /\ t.online.failed = FALSE /\ t.online.timer = FALSE
             /\ Told(s) => Told(t)
<1> DEFINE u == [s EXCEPT !.online.timer = FALSE, !.online.failed = FALSE]
<1>1. /\ Shaped(u)
      /\ u.stream = s.stream /\ u.asked = s.asked /\ u.view = s.view
      /\ u.last = s.last /\ u.listeners = s.listeners
      /\ u.online.failed = FALSE /\ u.online.timer = FALSE
  BY DEF Shaped
<1>2. UpdateState(s, state) = SetAndBroadcast(u, state)
  BY DEF UpdateState
<1> HIDE DEF u
<1>3. Told(s) => Told(u)
  BY <1>1, ToldStays
<1> QED
  BY <1>1, <1>2, <1>3, BroadcastFields, BroadcastTells

(***************************************************************************)
(* Starting the watch stream, also after a failure.                        *)
(***************************************************************************)
LEMMA StartFields ==
  ASSUME NEW s, Shaped(s)
  PROVE  LET t == StartWatchStream(s)
         IN  /\ Shaped(t)
             /\ t.stream = "starting" /\ t.asked = s.asked /\ t.view = s.view
             /\ DOMAIN t.listeners = DOMAIN s.listeners
             /\ s.online.failed => t.online = s.online
             /\ ~s.online.failed =>
                  /\ t.online.state = "unknown"
                  /\ t.online.failed = s.online.failed /\ t.online.timer = TRUE
             /\ Told(s) => Told(t)
<1> DEFINE u == [s EXCEPT !.stream = "starting"]
           b == SetAndBroadcast(u, "unknown")
           w == [b EXCEPT !.online.timer = TRUE]
<1>1. /\ Shaped(u)
      /\ u.stream = "starting" /\ u.asked = s.asked /\ u.view = s.view
      /\ u.last = s.last /\ u.listeners = s.listeners /\ u.online = s.online
  BY DEF Shaped
<1>2. StartWatchStream(s) = IF u.online.failed THEN u ELSE w
  BY DEF StartWatchStream, HandleWatchStreamStart
<1> HIDE DEF u
<1>3. Told(s) => Told(u)
  BY <1>1, ToldStays
<1>4. /\ Shaped(b)
      /\ b.stream = u.stream /\ b.asked = u.asked /\ b.view = u.view
      /\ DOMAIN b.listeners = DOMAIN u.listeners
      /\ b.online.state = "unknown" /\ b.online.failed = u.online.failed
      /\ Told(u) => Told(b)
  BY <1>1, BroadcastFields, BroadcastTells
<1> HIDE DEF b
<1>5. /\ Shaped(w)
      /\ w.stream = b.stream /\ w.asked = b.asked /\ w.view = b.view
      /\ w.last = b.last /\ w.listeners = b.listeners
      /\ w.online.state = b.online.state /\ w.online.failed = b.online.failed
      /\ w.online.timer = TRUE
  BY <1>4 DEF Shaped
<1> HIDE DEF w
<1>6. Told(b) => Told(w)
  BY <1>5, ToldStays
<1> QED
  BY <1>1, <1>2, <1>3, <1>4, <1>5, <1>6

(***************************************************************************)
(* A stream that fails: an answer on it is forgotten, the second failure   *)
(* in a row means that the device is offline.                              *)
(***************************************************************************)
LEMMA FailureFields ==
  ASSUME NEW s, Shaped(s)
  PROVE  LET t == HandleWatchStreamFailure(s)
         IN  /\ Shaped(t)
             /\ t.stream = s.stream /\ t.asked = s.asked
             /\ MayBeUnsynced(t.view, s.view)
             /\ DOMAIN t.listeners = DOMAIN s.listeners
             /\ IF s.online.state = "online"
                THEN /\ t.online.state = "unknown"
                     /\ t.online.failed = s.online.failed
                     /\ t.online.timer = s.online.timer
                ELSE /\ t.online.state = "offline"
                     /\ t.online.failed = TRUE /\ t.online.timer = FALSE
             /\ Told(s) => Told(t)
<1>1. CASE s.online.state = "online"
  BY <1>1, BroadcastFields, BroadcastTells DEF HandleWatchStreamFailure
<1>2. CASE s.online.state # "online"
  <2> DEFINE u == [s EXCEPT !.online.failed = TRUE, !.online.timer = FALSE]
  <2>1. /\ Shaped(u)
        /\ u.stream = s.stream /\ u.asked = s.asked /\ u.view = s.view
        /\ u.last = s.last /\ u.listeners = s.listeners
        /\ u.online.failed = TRUE /\ u.online.timer = FALSE
    BY DEF Shaped
  <2>2. HandleWatchStreamFailure(s) = SetAndBroadcast(u, "offline")
    BY <1>2 DEF HandleWatchStreamFailure
  <2> HIDE DEF u
  <2>3. Told(s) => Told(u)
    BY <2>1, ToldStays
  <2> QED
    BY <1>2, <2>1, <2>2, <2>3, BroadcastFields, BroadcastTells
<1> QED
  BY <1>1, <1>2

-----------------------------------------------------------------------------
(***************************************************************************)
(* The first listener of a query makes its view.                           *)
(***************************************************************************)
LEMMA AddedFields ==
  ASSUME NEW s, Shaped(s), NEW l
  PROVE  LET t == Added(s, l)
         IN  /\ Shaped(t) /\ SameConnection(t, s)
             /\ t.view = s.view /\ t.last = s.last
             /\ DOMAIN t.listeners = DOMAIN s.listeners \cup {l}
             /\ t.listeners[l] = IF l \in DOMAIN s.listeners THEN t.listeners[l]
                                 ELSE NewListener
             /\ l \notin DOMAIN s.listeners =>
                  \A i \in DOMAIN s.listeners : t.listeners[i] = s.listeners[i]
             /\ Listening(t)
BY DEF Added, Shaped, SameConnection, Listening

(***************************************************************************)
(* A new listener was told nothing, whatever the view is.                  *)
(***************************************************************************)
LEMMA NewListenerIsTold ==
  ASSUME NEW l, NEW view
  PROVE  IsTold(l, NewListener, view)
BY EmptySequence DEF IsTold, NewListener

(***************************************************************************)
(* The view is made of the documents of the local store, out of sync, and  *)
(* the watch stream is started unless it runs.                             *)
(***************************************************************************)
LEMMA ListenFirstFields ==
  ASSUME NEW d, Shaped(sessions[d]), ~Listening(sessions[d]), NEW l
  PROVE  LET s == sessions[d]
             t == ListenFirst(d, l)
         IN  /\ Shaped(t)
             /\ t.asked = s.asked
             /\ t.stream = IF s.stream = "stopped" THEN "starting" ELSE s.stream
             /\ DOMAIN t.listeners = DOMAIN s.listeners \cup {l}
             /\ t.view = ApplyChanges(NewView, LocalDocuments(d),
                           ComputeDocumentChanges(NewView, LocalDocuments(d)), FALSE)
             /\ s.stream # "stopped" \/ s.online.failed => t.online = s.online
             /\ s.stream = "stopped" /\ ~s.online.failed =>
                  /\ t.online.state = "unknown"
                  /\ t.online.failed = s.online.failed /\ t.online.timer = TRUE
             /\ Told(t)
<1> DEFINE a == Added(sessions[d], l)
           n == [a EXCEPT !.view = NewView]
           e == EmitNewSnapshots(n, LocalDocuments(d), FALSE)
<1>1. /\ Shaped(a) /\ SameConnection(a, sessions[d])
      /\ DOMAIN a.listeners = DOMAIN sessions[d].listeners \cup {l}
      /\ \A i \in DOMAIN a.listeners : a.listeners[i] = NewListener
  BY AddedFields DEF Listening
<1>2. ListenFirst(d, l) = IF e.stream = "stopped" THEN StartWatchStream(e) ELSE e
  BY DEF ListenFirst
<1> HIDE DEF a
<1>3. /\ Shaped(n) /\ SameConnection(n, a) /\ n.view = NewView
      /\ n.listeners = a.listeners
  BY <1>1 DEF Shaped, SameConnection, NewView
<1>4. Listening(n)
  BY <1>1, <1>3 DEF Listening
<1> HIDE DEF n
<1>5. AddsUp(n)
  <2>1. MarksPending(NewView)
    BY EmptySequence DEF MarksPending, NewView
  <2>2. NewView.sync = "none" /\ NewView.current = FALSE
    BY DEF NewView
  <2>3. \A i \in DOMAIN n.listeners : IsTold(i, n.listeners[i], n.view)
    BY <1>1, <1>3, NewListenerIsTold
  <2> QED
    BY <1>3, <2>1, <2>2, <2>3 DEF AddsUp
<1>6. /\ Shaped(e) /\ SameConnection(e, n)
      /\ DOMAIN e.listeners = DOMAIN n.listeners
      /\ e.view = ApplyChanges(NewView, LocalDocuments(d),
                    ComputeDocumentChanges(NewView, LocalDocuments(d)), FALSE)
      /\ AddsUp(e) /\ e.view.sync # "none"
  <2> DEFINE docs == LocalDocuments(d)
  <2> HIDE DEF docs
  <2>1. PICK current \in BOOLEAN : current = FALSE
    OBVIOUS
  <2>2. e = EmitNewSnapshots(n, docs, current)
    BY <2>1 DEF e, docs
  <2> HIDE DEF e
  <2>3. /\ Shaped(e) /\ SameConnection(e, n)
        /\ DOMAIN e.listeners = DOMAIN n.listeners
        /\ e.view = ApplyChanges(n.view, docs, ComputeDocumentChanges(n.view, docs), current)
    BY <1>3, <1>4, <2>2, EmitFields
  <2>4. AddsUp(e) /\ e.view.sync # "none"
    BY <1>3, <1>4, <1>5, <2>2, EmitAddsUp
  <2> QED
    BY <1>3, <2>1, <2>3, <2>4 DEF docs
<1> HIDE DEF e
<1>7. Told(e)
  BY <1>4, <1>6 DEF Told, Listening
<1>8. CASE e.stream = "stopped"
  <2>1. ListenFirst(d, l) = StartWatchStream(e)
    BY <1>2, <1>8
  <2> DEFINE t == StartWatchStream(e)
  <2>2. /\ Shaped(t)
        /\ t.stream = "starting" /\ t.asked = e.asked /\ t.view = e.view
        /\ DOMAIN t.listeners = DOMAIN e.listeners
        /\ e.online.failed => t.online = e.online
        /\ ~e.online.failed =>
             /\ t.online.state = "unknown"
             /\ t.online.failed = e.online.failed /\ t.online.timer = TRUE
        /\ Told(t)
    BY <1>6, <1>7, StartFields
  <2> HIDE DEF t
  <2>3. e.asked = sessions[d].asked /\ e.stream = sessions[d].stream
        /\ e.online = sessions[d].online
        /\ DOMAIN e.listeners = DOMAIN sessions[d].listeners \cup {l}
    BY <1>1, <1>3, <1>6 DEF SameConnection
  <2> QED
    BY <1>6, <1>8, <2>1, <2>2, <2>3 DEF t
<1>9. CASE e.stream # "stopped"
  <2>1. ListenFirst(d, l) = e
    BY <1>2, <1>9
  <2>2. e.asked = sessions[d].asked /\ e.stream = sessions[d].stream
        /\ e.online = sessions[d].online
        /\ DOMAIN e.listeners = DOMAIN sessions[d].listeners \cup {l}
    BY <1>1, <1>3, <1>6 DEF SameConnection
  <2> QED
    BY <1>6, <1>7, <1>9, <2>1, <2>2
<1> QED
  BY <1>8, <1>9

(***************************************************************************)
(* A later one is given the last snapshot, and waits for the next if that  *)
(* does not do for a first event.                                          *)
(***************************************************************************)
LEMMA ListenAgainFields ==
  ASSUME NEW d, Shaped(sessions[d]), Told(sessions[d]), Listening(sessions[d]),
         NEW l, l \notin DOMAIN sessions[d].listeners
  PROVE  LET s == sessions[d]
             t == ListenAgain(d, l)
         IN  /\ Shaped(t) /\ SameConnection(t, s)
             /\ t.view = s.view
             /\ DOMAIN t.listeners = DOMAIN s.listeners \cup {l}
             /\ Told(t)
<1> DEFINE s == sessions[d]
           a == Added(s, l)
           new == OnViewSnapshot(l, a.listeners[l], LastSnapshot(a), a.last, a.online.state)
           t == ListenAgain(d, l)
<1>1. /\ Shaped(a) /\ SameConnection(a, s)
      /\ a.view = s.view /\ a.last = s.last
      /\ DOMAIN a.listeners = DOMAIN s.listeners \cup {l}
      /\ a.listeners[l] = NewListener
      /\ \A i \in DOMAIN s.listeners : a.listeners[i] = s.listeners[i]
  BY AddedFields
<1>2. t = [a EXCEPT !.listeners[l] = new]
  BY DEF ListenAgain
<1> HIDE DEF a, new, t
<1>3. /\ Shaped(t) /\ SameConnection(t, a) /\ t.view = a.view /\ t.last = a.last
      /\ DOMAIN t.listeners = DOMAIN a.listeners
      /\ t.listeners[l] = new
      /\ \A i \in DOMAIN s.listeners : t.listeners[i] = a.listeners[i]
  BY <1>1, <1>2 DEF Shaped, SameConnection
<1>4. LastIsView(s) /\ s.view.sync \in {"local", "synced"}
  BY DEF Told, AddsUp
<1>5. IsTold(l, new, s.view)
  <2> DEFINE snapshot == LastSnapshot(a)
             start == [NewView EXCEPT !.sync = "none"]
  <2>1. /\ snapshot.mutated = s.view.mutated
        /\ snapshot.fromCache = (s.view.sync = "local")
        /\ DOMAIN snapshot.docs = DOMAIN s.view.docs
        /\ \A k \in DOMAIN s.view.docs : snapshot.docs[k] = s.view.docs[k]
    BY <1>1, <1>4 DEF LastSnapshot, LastIsView
  <2>2. NewView.sync = "none"
    BY DEF NewView
  <2> HIDE DEF snapshot
  <2>3. Tells(snapshot, NewView, s.view)
    BY <1>4, <2>1, <2>2 DEF Tells
  <2>4. IsTold(l, a.listeners[l], NewView)
    BY <1>1, NewListenerIsTold
  <2> QED
    BY <2>3, <2>4, SnapshotTells DEF new, snapshot
<1>6. \A i \in DOMAIN s.listeners : IsTold(i, s.listeners[i], s.view)
  BY DEF Told, AddsUp
<1>7. Told(t)
  <2>1. Listening(t)
    BY <1>1, <1>3 DEF Listening
  <2>2. \A i \in DOMAIN t.listeners : IsTold(i, t.listeners[i], t.view)
    BY <1>1, <1>3, <1>5, <1>6
  <2>3. AddsUp(t)
    BY <1>1, <1>3, <1>4, <2>2 DEF Told, AddsUp, LastIsView
  <2> QED
    BY <1>1, <1>3, <1>4, <2>1, <2>3 DEF Told
<1>8. SameConnection(t, s) /\ t.view = s.view
      /\ DOMAIN t.listeners = DOMAIN s.listeners \cup {l}
  BY <1>1, <1>3 DEF SameConnection
<1> QED
  BY <1>3, <1>7, <1>8 DEF t

(***************************************************************************)
(* The state of the connection of a session, with what OnlineStateTracker  *)
(* asserts of its timer.                                                   *)
(***************************************************************************)
Connected(s) ==
  /\ s.stream \in {"stopped", "starting", "open", "current"}
  /\ s.online.state \in {"unknown", "online", "offline"}
  /\ s.online.timer \in BOOLEAN /\ s.online.failed \in BOOLEAN
  /\ s.online.timer => /\ s.online.state = "unknown"
                       /\ ~s.online.failed
                       /\ s.stream # "stopped"
  /\ s.online.failed => s.online.state = "offline"

OfQuery(s) ==
  /\ DOMAIN s.listeners \subseteq Listener
  /\ DOMAIN s.view.docs \subseteq Key
  /\ s.asked \in Nat

Good(s) == Shaped(s) /\ Told(s) /\ Connected(s) /\ OfQuery(s)

GoodSessions == DOMAIN sessions = Device /\ \A d \in Device : Good(sessions[d])

(***************************************************************************)
(* A step is about the session of one device.                              *)
(***************************************************************************)
OnlySession(d) ==
  /\ DOMAIN sessions' = Device
  /\ \A e \in Device \ {d} : sessions'[e] = sessions[e]

(***************************************************************************)
(* An action that replaces the session of its device.                      *)
(***************************************************************************)
LEMMA OneSession ==
  ASSUME GoodSessions, NEW d \in Device, NEW s, sessions' = [sessions EXCEPT ![d] = s]
  PROVE  OnlySession(d) /\ sessions'[d] = s
BY DEF GoodSessions, OnlySession

(***************************************************************************)
(* A session after which the view has the same documents, and the stream   *)
(* does not say CURRENT unless it did before.                              *)
(***************************************************************************)
QuietSession(t, s) ==
  /\ Listening(t) => Listening(s) /\ MayBeUnsynced(t.view, s.view)
  /\ t.asked \in {s.asked, Latest}
  /\ t.stream = "current" => /\ s.stream = "current" /\ t.asked = s.asked
                             /\ Listening(s) => Listening(t)

(***************************************************************************)
(* A step that leaves the view, the listeners and the version asked for    *)
(* alone is quiet.                                                         *)
(***************************************************************************)
LEMMA SameViewIsQuiet ==
  ASSUME NEW t, NEW s, t.view = s.view, DOMAIN t.listeners = DOMAIN s.listeners,
         t.stream = s.stream \/ t.stream # "current",
         t.asked = s.asked
  PROVE  QuietSession(t, s)
BY DEF QuietSession, MayBeUnsynced, SameDocuments, Listening

(***************************************************************************)
(* The fields of a view without documents.                                 *)
(***************************************************************************)
LEMMA NewViewFields ==
  /\ DOMAIN NewView = {"docs", "mutated", "current", "sync"}
  /\ DOMAIN NewView.docs = {} /\ NewView.mutated = {}
  /\ NewView.current = FALSE /\ NewView.sync = "none"
BY EmptySequence DEF NewView

(***************************************************************************)
(* A new session is good.                                                  *)
(***************************************************************************)
LEMMA NewSessionIsGood == Good(NewSession)
<1>1. /\ DOMAIN NewSession.listeners = {}
      /\ NewSession.stream = "stopped" /\ NewSession.asked = 0
      /\ NewSession.online = [state |-> "unknown", failed |-> FALSE, timer |-> FALSE]
  BY EmptySequence DEF NewSession
<1>2. Told(NewSession)
  <2>1. MarksPending(NewView)
    BY NewViewFields DEF MarksPending
  <2> QED
    BY <1>1, <2>1, NewViewFields, NewSessionShaped DEF Told, AddsUp
<1>3. Connected(NewSession)
  BY <1>1 DEF Connected
<1> QED
  BY <1>1, <1>2, <1>3, NewSessionShaped, NewViewFields DEF Good, OfQuery

(***************************************************************************)
(* A view of other documents has their keys.                               *)
(***************************************************************************)
LEMMA ViewKeys ==
  ASSUME NEW view, DOMAIN view.docs \subseteq Key,
         NEW docs, DOMAIN docs \subseteq Key, NEW current
  PROVE  DOMAIN ApplyChanges(view, docs, ComputeDocumentChanges(view, docs),
                             current).docs \subseteq Key
<1> DEFINE changes == ComputeDocumentChanges(view, docs)
           new == ApplyChanges(view, docs, changes, current)
<1>1. DOMAIN changes \subseteq DOMAIN docs
  BY ChangeSays
<1>2. \A k : k \in DOMAIN new.docs <=>
               IF k \in DOMAIN changes THEN changes[k] # "removed"
               ELSE k \in DOMAIN view.docs
  BY ApplyChangesDocs
<1> HIDE DEF changes, new
<1> QED
  BY <1>1, <1>2 DEF changes, new

(***************************************************************************)
(* EmitNewSnapshots keeps sessions good.                                   *)
(***************************************************************************)
LEMMA EmitIsGood ==
  ASSUME NEW s, Good(s), NEW docs, DOMAIN docs \subseteq Key, NEW current \in BOOLEAN
  PROVE  Good(EmitNewSnapshots(s, docs, current))
<1> DEFINE t == EmitNewSnapshots(s, docs, current)
           view == ApplyChanges(s.view, docs, ComputeDocumentChanges(s.view, docs), current)
<1>0. Shaped(s) /\ Told(s) /\ Connected(s) /\ OfQuery(s)
  BY DEF Good
<1>1. /\ Shaped(t) /\ SameConnection(t, s)
      /\ DOMAIN t.listeners = DOMAIN s.listeners
      /\ ~Listening(s) => t = s
      /\ Listening(s) => t.view = view
  BY <1>0, EmitFields
<1>2. Listening(s) => AddsUp(t) /\ t.view.sync # "none"
  BY <1>0, EmitAddsUp DEF Told
<1>3. DOMAIN view.docs \subseteq Key
  BY <1>0, ViewKeys DEF OfQuery
<1> HIDE DEF t, view
<1>4. Told(t)
  <2>1. CASE Listening(s)
    BY <1>1, <1>2, <2>1 DEF Told, Listening
  <2>2. CASE ~Listening(s)
    BY <1>0, <1>1, <2>2
  <2> QED
    BY <2>1, <2>2
<1>5. Connected(t)
  BY <1>0, <1>1 DEF Connected, SameConnection
<1>6. OfQuery(t)
  BY <1>0, <1>1, <1>3 DEF OfQuery, SameConnection
<1> QED
  BY <1>1, <1>4, <1>5, <1>6 DEF Good, t

(***************************************************************************)
(* So does an answer, or the loss of the last listener.                    *)
(***************************************************************************)
LEMMA UpdateStateIsGood ==
  ASSUME NEW s, Good(s), NEW state \in {"unknown", "online"}
  PROVE  LET t == UpdateState(s, state)
         IN  /\ Good(t)
             /\ t.stream = s.stream /\ t.asked = s.asked /\ t.view = s.view
             /\ DOMAIN t.listeners = DOMAIN s.listeners
             /\ t.online.state = state
<1> DEFINE t == UpdateState(s, state)
<1>0. Shaped(s) /\ Told(s) /\ Connected(s) /\ OfQuery(s)
  BY DEF Good
<1>1. /\ Shaped(t) /\ Told(t)
      /\ t.stream = s.stream /\ t.asked = s.asked /\ t.view = s.view
      /\ DOMAIN t.listeners = DOMAIN s.listeners
      /\ t.online.state = state
      /\ t.online.failed = FALSE /\ t.online.timer = FALSE
  BY <1>0, UpdateStateFields
<1> HIDE DEF t
<1>2. Connected(t) /\ OfQuery(t)
  BY <1>0, <1>1 DEF Connected, OfQuery
<1> QED
  BY <1>1, <1>2 DEF Good, t

(***************************************************************************)
(* The stream is where it was put.                                         *)
(***************************************************************************)
LEMMA StreamIsGood ==
  ASSUME NEW s, Shaped(s), Told(s), OfQuery(s), NEW stream
  PROVE  LET t == [s EXCEPT !.stream = stream]
         IN  /\ Shaped(t) /\ Told(t) /\ OfQuery(t)
             /\ t.stream = stream /\ t.asked = s.asked /\ t.online = s.online
             /\ t.view = s.view /\ t.listeners = s.listeners
<1> DEFINE t == [s EXCEPT !.stream = stream]
<1>1. /\ Shaped(t)
      /\ t.stream = stream /\ t.asked = s.asked /\ t.online = s.online
      /\ t.view = s.view /\ t.listeners = s.listeners /\ t.last = s.last
  BY DEF Shaped
<1> HIDE DEF t
<1>2. Told(t)
  BY <1>1, ToldStays
<1> QED
  BY <1>1, <1>2 DEF OfQuery, t

(***************************************************************************)
(* The server gets the query, as of its latest version.                    *)
(***************************************************************************)
LEMMA AskedIsGood ==
  ASSUME TypeOK, NEW s, Good(s)
  PROVE  LET t == Asked(s)
         IN  /\ Good(t)
             /\ t.asked = Latest /\ t.stream = s.stream
             /\ t.view = s.view /\ t.listeners = s.listeners /\ t.online = s.online
<1> DEFINE t == Asked(s)
<1>0. Shaped(s) /\ Told(s) /\ Connected(s) /\ OfQuery(s)
  BY DEF Good
<1>1. /\ Shaped(t)
      /\ t.stream = s.stream /\ t.asked = Latest /\ t.online = s.online
      /\ t.view = s.view /\ t.listeners = s.listeners /\ t.last = s.last
  BY <1>0 DEF Shaped, Asked
<1> HIDE DEF t
<1>2. Told(t)
  BY <1>0, <1>1, ToldStays
<1>3. Latest \in Nat
  BY DEF TypeOK, Latest
<1> QED
  BY <1>0, <1>1, <1>2, <1>3 DEF Good, Connected, OfQuery, t

(***************************************************************************)
(* The view goes with its last listener.                                   *)
(***************************************************************************)
LEMMA WithoutViewIsGood ==
  ASSUME NEW s, Good(s)
  PROVE  LET t == WithoutView(s)
         IN  /\ Good(t) /\ SameConnection(t, s)
             /\ ~Listening(t) /\ t.view = NewView
<1> DEFINE t == WithoutView(s)
<1>0. Shaped(s) /\ Connected(s) /\ OfQuery(s)
  BY DEF Good
<1>1. /\ Shaped(t) /\ SameConnection(t, s)
      /\ t.view = NewView /\ DOMAIN t.listeners = {}
  BY <1>0, NewViewFields, NewSessionShaped, EmptySequence
     DEF Shaped, SameConnection, WithoutView
<1> HIDE DEF t
<1>2. Told(t)
  <2>1. MarksPending(NewView)
    BY NewViewFields DEF MarksPending
  <2> QED
    BY <1>1, <2>1, NewViewFields DEF Told, AddsUp, Listening
<1>3. Connected(t) /\ OfQuery(t) /\ ~Listening(t)
  BY <1>0, <1>1, NewViewFields DEF Connected, OfQuery, SameConnection, Listening
<1> QED
  BY <1>1, <1>2, <1>3 DEF Good, t

(***************************************************************************)
(* Listeners come and go.                                                  *)
(***************************************************************************)
LEMMA AddQueryListenerIsGood ==
  ASSUME TypeOK, GoodSessions, NEW d \in Device, NEW l \in Listener, AddQueryListener(d, l)
  PROVE  /\ OnlySession(d) /\ Good(sessions'[d])
         /\ IF Listening(sessions[d])
            THEN QuietSession(sessions'[d], sessions[d])
            ELSE /\ sessions'[d].asked = Latest
                 /\ sessions'[d].stream \in {"starting", sessions[d].stream}
                 /\ sessions'[d].view =
                      ApplyChanges(NewView, LocalDocuments(d),
                        ComputeDocumentChanges(NewView, LocalDocuments(d)), FALSE)
<1> DEFINE s == sessions[d]
<1>0. Good(s) /\ Shaped(s) /\ Told(s) /\ Connected(s) /\ OfQuery(s)
  BY DEF GoodSessions, Good
<1>1. /\ OnlySession(d)
      /\ sessions'[d] = IF Listening(s) THEN ListenAgain(d, l) ELSE Asked(ListenFirst(d, l))
  BY OneSession DEF AddQueryListener, GoodSessions
<1>2. CASE Listening(s)
  <2> DEFINE t == ListenAgain(d, l)
  <2>1. l \notin DOMAIN s.listeners
    BY DEF AddQueryListener
  <2>2. /\ Shaped(t) /\ SameConnection(t, s)
        /\ t.view = s.view
        /\ DOMAIN t.listeners = DOMAIN s.listeners \cup {l}
        /\ Told(t)
    BY <1>0, <1>2, <2>1, ListenAgainFields
  <2> HIDE DEF t
  <2>3. Connected(t) /\ OfQuery(t)
    BY <1>0, <2>2 DEF Connected, OfQuery, SameConnection
  <2>4. QuietSession(t, s)
    BY <1>2, <2>2 DEF QuietSession, SameConnection, MayBeUnsynced, SameDocuments, Listening
  <2> QED
    BY <1>1, <1>2, <2>2, <2>3, <2>4 DEF Good, t
<1>3. CASE ~Listening(s)
  <2> DEFINE docs == LocalDocuments(d)
             t == ListenFirst(d, l)
  <2>1. /\ Shaped(t)
        /\ t.asked = s.asked
        /\ t.stream = IF s.stream = "stopped" THEN "starting" ELSE s.stream
        /\ DOMAIN t.listeners = DOMAIN s.listeners \cup {l}
        /\ t.view = ApplyChanges(NewView, docs, ComputeDocumentChanges(NewView, docs), FALSE)
        /\ s.stream # "stopped" \/ s.online.failed => t.online = s.online
        /\ s.stream = "stopped" /\ ~s.online.failed =>
             /\ t.online.state = "unknown"
             /\ t.online.failed = s.online.failed /\ t.online.timer = TRUE
        /\ Told(t)
    BY <1>0, <1>3, ListenFirstFields
  <2>3. DOMAIN docs = Key
    BY DEF LocalDocuments
  <2> HIDE DEF docs, t
  <2>4. DOMAIN t.view.docs \subseteq Key
    BY <2>1, <2>3, ViewKeys, NewViewFields
  <2>5. Connected(t)
    BY <1>0, <2>1 DEF Connected
  <2>6. Good(t)
    BY <1>0, <2>1, <2>4, <2>5 DEF Good, OfQuery
  <2>7. /\ Good(Asked(t)) /\ Asked(t).asked = Latest
        /\ Asked(t).stream = t.stream /\ Asked(t).view = t.view
    BY <2>6, AskedIsGood
  <2>8. sessions'[d] = Asked(t)
    BY <1>1, <1>3 DEF t
  <2> QED
    BY <1>1, <1>3, <2>1, <2>7, <2>8 DEF docs
<1> QED
  BY <1>1, <1>2, <1>3

(***************************************************************************)
(* Removing a listener, the last one or another.                           *)
(***************************************************************************)
LEMMA RemoveQueryListenerIsGood ==
  ASSUME GoodSessions, NEW d \in Device, NEW l \in Listener, RemoveQueryListener(d, l)
  PROVE  /\ OnlySession(d) /\ Good(sessions'[d])
         /\ QuietSession(sessions'[d], sessions[d])
<1> DEFINE s == sessions[d]
           left == Removed(s, l)
<1>0. Good(s) /\ Shaped(s) /\ Told(s) /\ Connected(s) /\ OfQuery(s)
  BY DEF GoodSessions, Good
<1>1. /\ OnlySession(d) /\ l \in DOMAIN s.listeners
      /\ sessions'[d] = IF DOMAIN s.listeners = {l} THEN StopListening(s) ELSE left
  <2>1. /\ l \in DOMAIN s.listeners
        /\ sessions' = [sessions EXCEPT ![d] =
                          IF DOMAIN s.listeners = {l} THEN StopListening(s) ELSE left]
    BY DEF RemoveQueryListener, GoodSessions
  <2> HIDE DEF left
  <2> QED
    BY <2>1, OneSession
<1>2. Good(StopListening(s)) /\ QuietSession(StopListening(s), s)
  <2> DEFINE w == WithoutView(s)
  <2>1. Good(w) /\ SameConnection(w, s) /\ ~Listening(w)
    BY <1>0, WithoutViewIsGood
  <2>2. StopListening(s) = IF s.stream \in {"open", "current"}
                           THEN [w EXCEPT !.stream = "open"]
                           ELSE UpdateState(w, "unknown")
    BY DEF StopListening
  <2> HIDE DEF w
  <2>3. CASE s.stream \in {"open", "current"}
    <3> DEFINE t == [w EXCEPT !.stream = "open"]
    <3>1. /\ Shaped(t) /\ Told(t) /\ OfQuery(t)
          /\ t.stream = "open" /\ t.online = w.online
          /\ t.asked = w.asked /\ t.listeners = w.listeners
      BY <2>1, StreamIsGood DEF Good
    <3> HIDE DEF t
    <3>2. Connected(t)
      BY <2>1, <3>1 DEF Connected, Good
    <3>3. QuietSession(t, s)
      BY <2>1, <3>1 DEF QuietSession, Listening, SameConnection
    <3> QED
      BY <2>2, <2>3, <3>1, <3>2, <3>3 DEF Good, t
  <2>4. CASE s.stream \notin {"open", "current"}
    <3> DEFINE t == UpdateState(w, "unknown")
    <3>1. /\ Good(t)
          /\ t.stream = w.stream /\ t.asked = w.asked
          /\ DOMAIN t.listeners = DOMAIN w.listeners
      BY <2>1, UpdateStateIsGood
    <3> HIDE DEF t
    <3>2. QuietSession(t, s)
      BY <2>1, <2>4, <3>1 DEF QuietSession, Listening, SameConnection
    <3> QED
      BY <2>2, <2>4, <3>1, <3>2 DEF t
  <2> QED
    BY <2>3, <2>4
<1>3. CASE DOMAIN s.listeners # {l}
  <2>1. /\ Shaped(left) /\ SameConnection(left, s)
        /\ left.view = s.view /\ left.last = s.last
        /\ DOMAIN left.listeners = DOMAIN s.listeners \ {l}
        /\ \A i \in DOMAIN left.listeners : left.listeners[i] = s.listeners[i]
    BY <1>0 DEF Shaped, SameConnection, Restrict, Removed
  <2> HIDE DEF left
  <2>2. Listening(s) /\ Listening(left)
    BY <1>1, <1>3, <2>1 DEF Listening
  <2>3. AddsUp(left)
    BY <1>0, <2>1 DEF Told, AddsUp, LastIsView
  <2>4. Told(left) /\ Connected(left) /\ OfQuery(left)
    BY <1>0, <2>1, <2>2, <2>3 DEF Told, Connected, OfQuery, SameConnection
  <2>5. QuietSession(left, s)
    BY <2>1, <2>2 DEF QuietSession, SameConnection, MayBeUnsynced, SameDocuments
  <2> QED
    BY <1>1, <1>3, <2>1, <2>4, <2>5 DEF Good
<1> QED
  BY <1>1, <1>2, <1>3

-----------------------------------------------------------------------------
(***************************************************************************)
(* The connection comes and goes.                                          *)
(***************************************************************************)
LEMMA OpenIsGood ==
  ASSUME TypeOK, GoodSessions, NEW d \in Device, OnWatchStreamOpen(d)
  PROVE  /\ OnlySession(d) /\ Good(sessions'[d])
         /\ QuietSession(sessions'[d], sessions[d])
<1> DEFINE s == sessions[d]
           t == [s EXCEPT !.stream = "open"]
<1>0. Good(s) /\ Shaped(s) /\ Told(s) /\ Connected(s) /\ OfQuery(s)
  BY DEF GoodSessions, Good
<1>1. OnlySession(d) /\ sessions'[d] = Asked(t)
  BY OneSession DEF OnWatchStreamOpen, GoodSessions
<1>2. /\ Shaped(t) /\ Told(t) /\ OfQuery(t)
      /\ t.stream = "open" /\ t.online = s.online
      /\ t.view = s.view /\ t.listeners = s.listeners
  BY <1>0, StreamIsGood
<1> HIDE DEF t
<1>3. Connected(t)
  BY <1>0, <1>2 DEF Connected
<1>4. Good(t)
  BY <1>2, <1>3 DEF Good
<1> DEFINE a == Asked(t)
<1>5. /\ Good(a)
      /\ a.asked = Latest /\ a.stream = t.stream
      /\ a.view = t.view /\ a.listeners = t.listeners
  BY <1>4, AskedIsGood
<1> HIDE DEF a
<1>6. QuietSession(a, s)
  BY <1>2, <1>5 DEF QuietSession, MayBeUnsynced, SameDocuments, Listening
<1> QED
  BY <1>1, <1>5, <1>6 DEF a

(***************************************************************************)
(* A stream that nobody needs is stopped.                                  *)
(***************************************************************************)
LEMMA StoppedIsGood ==
  ASSUME NEW s, Good(s)
  PROVE  /\ Good(UpdateState([s EXCEPT !.stream = "stopped"], "unknown"))
         /\ QuietSession(UpdateState([s EXCEPT !.stream = "stopped"], "unknown"), s)
<1> DEFINE t == [s EXCEPT !.stream = "stopped"]
           u == UpdateState(t, "unknown")
<1>0. Shaped(s) /\ Told(s) /\ Connected(s) /\ OfQuery(s)
  BY DEF Good
<1>1. /\ Shaped(t) /\ Told(t) /\ OfQuery(t)
      /\ t.stream = "stopped" /\ t.listeners = s.listeners /\ t.view = s.view
      /\ t.asked = s.asked
  BY <1>0, StreamIsGood
<1> HIDE DEF t
<1>2. /\ Shaped(u) /\ Told(u)
      /\ u.stream = "stopped" /\ u.view = t.view /\ u.asked = t.asked
      /\ DOMAIN u.listeners = DOMAIN t.listeners
      /\ u.online.state = "unknown"
      /\ u.online.failed = FALSE /\ u.online.timer = FALSE
  BY <1>1, UpdateStateFields
<1> HIDE DEF u
<1>3. Connected(u) /\ OfQuery(u)
  BY <1>1, <1>2 DEF Connected, OfQuery
<1>4. QuietSession(u, s)
  BY <1>1, <1>2, SameViewIsQuiet
<1> QED
  BY <1>2, <1>3, <1>4 DEF Good, u, t

(***************************************************************************)
(* A stream fails, and is started again if there are listeners.            *)
(***************************************************************************)
LEMMA CloseIsGood ==
  ASSUME GoodSessions, NEW d \in Device, OnWatchStreamClose(d)
  PROVE  /\ OnlySession(d) /\ Good(sessions'[d])
         /\ QuietSession(sessions'[d], sessions[d])
<1> DEFINE s == sessions[d]
           f == HandleWatchStreamFailure(s)
           t == StartWatchStream(f)
<1>0. Good(s) /\ Shaped(s) /\ Told(s) /\ Connected(s) /\ OfQuery(s)
  BY DEF GoodSessions, Good
<1>1. /\ OnlySession(d)
      /\ sessions'[d] = IF Listening(s) THEN t
                        ELSE UpdateState([s EXCEPT !.stream = "stopped"], "unknown")
  BY OneSession DEF OnWatchStreamClose, GoodSessions
<1>2. Good(t) /\ QuietSession(t, s)
  <2>1. /\ Shaped(f) /\ Told(f) /\ f.asked = s.asked
        /\ MayBeUnsynced(f.view, s.view)
        /\ DOMAIN f.listeners = DOMAIN s.listeners
        /\ IF s.online.state = "online"
           THEN /\ f.online.state = "unknown"
                /\ f.online.failed = s.online.failed
                /\ f.online.timer = s.online.timer
           ELSE /\ f.online.state = "offline"
                /\ f.online.failed = TRUE /\ f.online.timer = FALSE
    BY <1>0, FailureFields
  <2>2. f.online.failed \in BOOLEAN /\ f.online.timer \in BOOLEAN
    BY <1>0, <2>1 DEF Connected
  <2> HIDE DEF f
  <2>3. /\ Shaped(t) /\ Told(t)
        /\ t.stream = "starting" /\ t.view = f.view /\ t.asked = f.asked
        /\ DOMAIN t.listeners = DOMAIN f.listeners
        /\ f.online.failed => t.online = f.online
        /\ ~f.online.failed =>
             /\ t.online.state = "unknown"
             /\ t.online.failed = f.online.failed /\ t.online.timer = TRUE
    BY <2>1, StartFields
  <2> HIDE DEF t
  <2>5. Connected(t)
    <3>1. f.online.failed => f.online.state = "offline" /\ ~f.online.timer
      BY <1>0, <2>1 DEF Connected
    <3> QED
      BY <2>2, <2>3, <3>1 DEF Connected
  <2>6. OfQuery(t)
    BY <1>0, <2>1, <2>3 DEF OfQuery, MayBeUnsynced, SameDocuments
  <2>7. QuietSession(t, s)
    BY <2>1, <2>3 DEF QuietSession, Listening
  <2> QED
    BY <2>3, <2>5, <2>6, <2>7 DEF Good
<1> QED
  BY <1>0, <1>1, <1>2, StoppedIsGood

(***************************************************************************)
(* A stream without a query is closed after a while.                       *)
(***************************************************************************)
LEMMA IdleIsGood ==
  ASSUME GoodSessions, NEW d \in Device, IdleTimerFires(d)
  PROVE  /\ OnlySession(d) /\ Good(sessions'[d])
         /\ QuietSession(sessions'[d], sessions[d])
BY OneSession, StoppedIsGood DEF IdleTimerFires, GoodSessions

(***************************************************************************)
(* Waiting for an answer comes to an end.                                  *)
(***************************************************************************)
LEMMA TimerIsGood ==
  ASSUME GoodSessions, NEW d \in Device, OnlineStateTimerFires(d)
  PROVE  /\ OnlySession(d) /\ Good(sessions'[d])
         /\ QuietSession(sessions'[d], sessions[d])
<1> DEFINE s == sessions[d]
           u == [s EXCEPT !.online.timer = FALSE]
           t == SetAndBroadcast(u, "offline")
<1>0. Good(s) /\ Shaped(s) /\ Told(s) /\ Connected(s) /\ OfQuery(s)
  BY DEF GoodSessions, Good
<1>1. OnlySession(d) /\ sessions'[d] = t
  BY OneSession DEF OnlineStateTimerFires, GoodSessions
<1>2. /\ Shaped(u)
      /\ u.stream = s.stream /\ u.view = s.view /\ u.last = s.last
      /\ u.listeners = s.listeners /\ u.asked = s.asked
      /\ u.online.timer = FALSE /\ u.online.failed = s.online.failed
  BY <1>0 DEF Shaped
<1> HIDE DEF u
<1>3. Told(u)
  BY <1>0, <1>2, ToldStays
<1>4. /\ Shaped(t) /\ Told(t)
      /\ t.stream = s.stream /\ t.asked = s.asked
      /\ DOMAIN t.listeners = DOMAIN s.listeners
      /\ t.online.state = "offline"
      /\ t.online.failed = s.online.failed /\ t.online.timer = FALSE
      /\ MayBeUnsynced(t.view, s.view)
  BY <1>2, <1>3, BroadcastFields, BroadcastTells
<1> HIDE DEF t
<1>5. Connected(t) /\ OfQuery(t)
  BY <1>0, <1>4 DEF Connected, OfQuery, MayBeUnsynced, SameDocuments
<1>6. QuietSession(t, s)
  BY <1>4 DEF QuietSession, Listening
<1> QED
  BY <1>1, <1>4, <1>5, <1>6 DEF Good

(***************************************************************************)
(* An open stream says one thing or another.                               *)
(***************************************************************************)
LEMMA OpenStreamIsGood ==
  ASSUME NEW s, Good(s), NEW stream \in {"starting", "open", "current"}
  PROVE  LET t == [s EXCEPT !.stream = stream]
         IN  /\ Good(t)
             /\ t.stream = stream /\ t.asked = s.asked /\ t.online = s.online
             /\ t.view = s.view /\ t.listeners = s.listeners
<1> DEFINE t == [s EXCEPT !.stream = stream]
<1>0. Shaped(s) /\ Told(s) /\ Connected(s) /\ OfQuery(s)
  BY DEF Good
<1>1. /\ Shaped(t) /\ Told(t) /\ OfQuery(t)
      /\ t.stream = stream /\ t.asked = s.asked /\ t.online = s.online
      /\ t.view = s.view /\ t.listeners = s.listeners
  BY <1>0, StreamIsGood
<1> HIDE DEF t
<1>2. Connected(t)
  BY <1>0, <1>1 DEF Connected
<1> QED
  BY <1>1, <1>2 DEF Good, t

(***************************************************************************)
(* What a session makes of an answer that brings documents.                *)
(***************************************************************************)
LEMMA AnswerFields ==
  ASSUME NEW s, Good(s), s.stream \in {"open", "current"},
         NEW docs, DOMAIN docs \subseteq Key, NEW current \in BOOLEAN
  PROVE  LET t == OnAnswer(s, docs, current)
         IN  /\ Good(t)
             /\ t.stream = IF current THEN "current" ELSE s.stream
             /\ t.asked = s.asked
             /\ DOMAIN t.listeners = DOMAIN s.listeners
             /\ Listening(s) =>
                  t.view = ApplyChanges(s.view, docs,
                                        ComputeDocumentChanges(s.view, docs), current)
<1> DEFINE u == UpdateState(s, "online")
           e == EmitNewSnapshots(u, docs, current)
           stream == IF current THEN "current" ELSE e.stream
           t == [e EXCEPT !.stream = stream]
<1>1. /\ Good(u)
      /\ u.stream = s.stream /\ u.asked = s.asked /\ u.view = s.view
      /\ DOMAIN u.listeners = DOMAIN s.listeners
  BY UpdateStateIsGood
<1>2. OnAnswer(s, docs, current) = t
  BY DEF OnAnswer
<1> HIDE DEF u
<1>3. Good(e)
  BY <1>1, EmitIsGood
<1>4. Shaped(u)
  BY <1>1 DEF Good
<1>5. /\ SameConnection(e, u)
      /\ DOMAIN e.listeners = DOMAIN u.listeners
      /\ Listening(u) =>
           e.view = ApplyChanges(u.view, docs, ComputeDocumentChanges(u.view, docs), current)
  BY <1>4, EmitFields
<1> HIDE DEF e
<1>6. stream \in {"starting", "open", "current"}
  BY <1>1, <1>5 DEF SameConnection
<1>7. /\ Good(t)
      /\ t.stream = stream /\ t.asked = e.asked
      /\ t.view = e.view /\ t.listeners = e.listeners
  <2> HIDE DEF stream
  <2> QED
    BY <1>3, <1>6, OpenStreamIsGood
<1> HIDE DEF t
<1> QED
  BY <1>1, <1>2, <1>5, <1>7 DEF SameConnection, Listening

(***************************************************************************)
(* The answers of the server.                                              *)
(***************************************************************************)
LEMMA ChangeIsGood ==
  ASSUME GoodSessions, NEW d \in Device, OnWatchStreamChange(d)
  PROVE  /\ OnlySession(d) /\ Good(sessions'[d])
         /\ QuietSession(sessions'[d], sessions[d])
<1> DEFINE s == sessions[d]
           t == UpdateState(s, "online")
<1>1. OnlySession(d) /\ sessions'[d] = t
  BY OneSession DEF OnWatchStreamChange, GoodSessions
<1>2. Good(s)
  BY DEF GoodSessions
<1>3. /\ Good(t)
      /\ t.stream = s.stream /\ t.asked = s.asked /\ t.view = s.view
      /\ DOMAIN t.listeners = DOMAIN s.listeners
  BY <1>2, UpdateStateIsGood
<1> HIDE DEF t, s
<1>4. QuietSession(t, s)
  BY <1>3, SameViewIsQuiet
<1> QED
  BY <1>1, <1>3, <1>4 DEF s

(***************************************************************************)
(* CURRENT puts the view in sync and brings no documents.                  *)
(***************************************************************************)
LEMMA MarkCurrentIsGood ==
  ASSUME GoodSessions, NEW d \in Device, MarkCurrent(d)
  PROVE  /\ OnlySession(d) /\ Good(sessions'[d])
         /\ sessions'[d].stream = "current"
         /\ sessions'[d].asked = sessions[d].asked
         /\ DOMAIN sessions'[d].listeners = DOMAIN sessions[d].listeners
         /\ sessions'[d].view =
              ApplyChanges(sessions[d].view, <<>>,
                           ComputeDocumentChanges(sessions[d].view, <<>>), TRUE)
<1> DEFINE s == sessions[d]
<1>1. PICK current \in BOOLEAN : current = TRUE
  OBVIOUS
<1>2. PICK docs : docs = <<>>
  OBVIOUS
<1> DEFINE t == OnAnswer(s, docs, current)
<1>3. OnlySession(d) /\ sessions'[d] = t
  BY <1>1, <1>2, OneSession DEF MarkCurrent, GoodSessions
<1>4. Good(s) /\ Listening(s) /\ s.stream \in {"open", "current"} /\ DOMAIN docs \subseteq Key
  BY <1>2, EmptySequence DEF GoodSessions, MarkCurrent
<1>5. /\ Good(t)
      /\ t.stream = IF current THEN "current" ELSE s.stream
      /\ t.asked = s.asked
      /\ DOMAIN t.listeners = DOMAIN s.listeners
      /\ t.view = ApplyChanges(s.view, docs, ComputeDocumentChanges(s.view, docs), current)
  BY <1>4, AnswerFields
<1> HIDE DEF t
<1> QED
  BY <1>1, <1>2, <1>3, <1>5

(***************************************************************************)
(* A query that is denied loses its listeners and its view.                *)
(***************************************************************************)
LEMMA DeniedIsGood ==
  ASSUME GoodSessions, NEW d \in Device, HandleRejectedListen(d)
  PROVE  /\ OnlySession(d) /\ Good(sessions'[d])
         /\ QuietSession(sessions'[d], sessions[d])
<1> DEFINE u == UpdateState(sessions[d], "online")
           w == WithoutView(u)
<1>1. OnlySession(d) /\ sessions'[d] = [w EXCEPT !.stream = "open"]
  BY OneSession DEF HandleRejectedListen, GoodSessions
<1>2. Good(u) /\ u.asked = sessions[d].asked
  BY UpdateStateIsGood DEF GoodSessions
<1> HIDE DEF u
<1>3. Good(w) /\ w.asked = u.asked /\ ~Listening(w)
  BY <1>2, WithoutViewIsGood DEF SameConnection
<1> HIDE DEF w
<1> DEFINE t == [w EXCEPT !.stream = "open"]
<1>4. /\ Good(t)
      /\ t.stream = "open" /\ t.asked = w.asked /\ t.listeners = w.listeners
  BY <1>3, OpenStreamIsGood
<1> HIDE DEF t
<1>5. QuietSession(t, sessions[d])
  BY <1>2, <1>3, <1>4 DEF QuietSession, Listening
<1> QED
  BY <1>1, <1>4, <1>5 DEF t

(***************************************************************************)
(* A snapshot brings the documents of which the cache changed.             *)
(***************************************************************************)
LEMMA SnapshotIsGood ==
  ASSUME GoodSessions, NEW d \in Device, NEW v \in 1 .. Latest, WatchSnapshot(d, v)
  PROVE  /\ OnlySession(d) /\ Good(sessions'[d])
         /\ DOMAIN sessions'[d].listeners = DOMAIN sessions[d].listeners
         /\ \E current \in {sessions[d].stream = "current", v >= sessions[d].asked} :
              /\ sessions'[d].stream = IF current THEN "current" ELSE sessions[d].stream
              /\ sessions'[d].asked = sessions[d].asked
              /\ \E docs :
                   /\ docs = NewLocalDocuments(d, {k \in Key : cache'[d][k] # cache[d][k]})
                   /\ sessions'[d].view =
                        ApplyChanges(sessions[d].view, docs,
                                     ComputeDocumentChanges(sessions[d].view, docs), current)
<1> DEFINE s == sessions[d]
<1>1. PICK docs : docs = NewLocalDocuments(d, {k \in Key : cache'[d][k] # cache[d][k]})
  OBVIOUS
<1>2. PICK current \in {sessions[d].stream = "current", v >= sessions[d].asked} :
        sessions' = [sessions EXCEPT ![d] = OnAnswer(sessions[d], docs, current)]
  BY <1>1 DEF WatchSnapshot
<1> DEFINE t == OnAnswer(s, docs, current)
<1>3. OnlySession(d) /\ sessions'[d] = t
  BY <1>2, OneSession
<1>4. Good(s) /\ Listening(s) /\ s.stream \in {"open", "current"}
  BY DEF GoodSessions, WatchSnapshot, IsOpen
<1>5. current \in BOOLEAN
  <2>1. s.asked \in Nat
    BY <1>4 DEF Good, OfQuery
  <2>2. (v >= s.asked) \in BOOLEAN
    BY <2>1
  <2> QED
    BY <1>2, <2>2
<1>6. DOMAIN docs \subseteq Key
  BY <1>1 DEF NewLocalDocuments
<1>7. /\ Good(t)
      /\ t.stream = IF current THEN "current" ELSE s.stream
      /\ t.asked = s.asked
      /\ DOMAIN t.listeners = DOMAIN s.listeners
      /\ t.view = ApplyChanges(s.view, docs, ComputeDocumentChanges(s.view, docs), current)
  BY <1>4, <1>5, <1>6, AnswerFields
<1> HIDE DEF t
<1> QED
  BY <1>1, <1>2, <1>3, <1>7

(***************************************************************************)
(* A change of the local store.                                            *)
(***************************************************************************)
LEMMA StoreIsGood ==
  ASSUME GoodSessions, NEW d \in Device, NEW k \in Key, LocalStoreChanges(d, k)
  PROVE  /\ OnlySession(d) /\ Good(sessions'[d])
         /\ SameConnection(sessions'[d], sessions[d])
         /\ DOMAIN sessions'[d].listeners = DOMAIN sessions[d].listeners
         /\ ~Listening(sessions[d]) => sessions'[d] = sessions[d]
         /\ Listening(sessions[d]) =>
              \E docs :
                /\ docs = NewLocalDocuments(d, {k})
                /\ sessions'[d].view =
                     ApplyChanges(sessions[d].view, docs,
                                  ComputeDocumentChanges(sessions[d].view, docs),
                                  sessions[d].view.current)
<1> DEFINE s == sessions[d]
<1>1. PICK docs : docs = NewLocalDocuments(d, {k})
  OBVIOUS
<1>2. Good(s) /\ Shaped(s) /\ s.view.current \in BOOLEAN
  BY DEF GoodSessions, Good, Told, AddsUp
<1>3. PICK current \in BOOLEAN : current = s.view.current
  BY <1>2
<1>4. DOMAIN docs \subseteq Key
  BY <1>1 DEF NewLocalDocuments
<1> DEFINE t == EmitNewSnapshots(s, docs, current)
<1>5. OnlySession(d) /\ sessions'[d] = t
  BY <1>1, <1>3, OneSession DEF LocalStoreChanges
<1>6. Good(t)
  BY <1>2, <1>4, EmitIsGood
<1>7. /\ SameConnection(t, s)
      /\ DOMAIN t.listeners = DOMAIN s.listeners
      /\ ~Listening(s) => t = s
      /\ Listening(s) =>
           t.view = ApplyChanges(s.view, docs, ComputeDocumentChanges(s.view, docs), current)
  BY <1>2, EmitFields
<1> HIDE DEF t
<1> QED
  BY <1>1, <1>3, <1>5, <1>6, <1>7

(***************************************************************************)
(* A restart forgets the session.                                          *)
(***************************************************************************)
LEMMA RestartIsGood ==
  ASSUME GoodSessions, NEW d \in Device, RestartApp(d)
  PROVE  OnlySession(d) /\ Good(sessions'[d]) /\ sessions'[d] = NewSession
<1>1. OnlySession(d) /\ sessions'[d] = NewSession
  BY OneSession DEF RestartApp
<1> QED
  BY <1>1, NewSessionIsGood

-----------------------------------------------------------------------------
(***************************************************************************)
(* The bookkeeping of the bounds.                                          *)
(***************************************************************************)
Counted == listens \in [Device -> Nat] /\ upsets \in [Upset -> Nat]

(***************************************************************************)
(* Every step keeps the counts.                                            *)
(***************************************************************************)
LEMMA StaysCounted ==
  ASSUME Counted, [ListenersNext]_allVars
  PROVE  Counted'
<1>1. ASSUME NEW kind \in Upset, UpsetHappens(kind)
      PROVE  upsets' \in [Upset -> Nat]
  BY <1>1 DEF UpsetHappens, Counted
<1>2. ASSUME NEW d \in Device, NEW l, AddQueryListener(d, l)
      PROVE  Counted'
  BY <1>2 DEF AddQueryListener, Counted
<1>3. ASSUME NEW d \in Device,
             (\E l \in Listener : RemoveQueryListener(d, l))
               \/ OnWatchStreamClose(d) \/ HandleRejectedListen(d)
      PROVE  Counted'
  BY <1>1, <1>3 DEF RemoveQueryListener, OnWatchStreamClose, HandleRejectedListen,
                    Counted, Upset
<1>4. ASSUME NEW d \in Device,
             \/ ClientStep(d)
             \/ StoreWrite(d)
             \/ HandleSuccessfulWrite(d)
             \/ HandleRejectedWrite(d)
             \/ RestartApp(d)
             \/ OnWatchStreamOpen(d)
             \/ IdleTimerFires(d)
             \/ OnlineStateTimerFires(d)
             \/ OnWatchStreamChange(d)
             \/ MarkCurrent(d)
             \/ \E v \in 1 .. Latest : WatchSnapshot(d, v)
      PROVE  UNCHANGED <<listens, upsets>>
  BY <1>4
     DEF ClientStep, StoreWrite, HandleSuccessfulWrite, HandleRejectedWrite,
         LocalStoreChanges, RestartApp, OnWatchStreamOpen, IdleTimerFires,
         OnlineStateTimerFires, OnWatchStreamChange, MarkCurrent, WatchSnapshot,
         listenerVars
<1>5. CASE UNCHANGED allVars
  BY <1>5 DEF allVars, listenerVars, Counted
<1>6. UNCHANGED <<listens, upsets>> => Counted'
  BY DEF Counted
<1> QED
  BY <1>2, <1>3, <1>4, <1>5, <1>6 DEF ListenersNext

(***************************************************************************)
(* Every step is about one session, which it leaves good.                  *)
(***************************************************************************)
LEMMA WritesAreOfKeys ==
  ASSUME TypeOK, NEW d \in Device
  PROVE  /\ calls[d] # <<>> => Head(calls[d]).write.key \in Key
         /\ queue[d] # <<>> => Head(queue[d]).write.key \in Key
<1>1. calls[d] \in Seq(Batch) /\ queue[d] \in Seq(Batch)
  BY DEF TypeOK
<1>2. \A batch \in Batch : batch.write.key \in Key
  BY WriteAssumption DEF Batch
<1> QED
  BY <1>1, <1>2, TailFacts

(***************************************************************************)
(* An answer is of a batch that is still in the queue.                     *)
(***************************************************************************)
LEMMA AnsweredIsQueued ==
  ASSUME TypeOK, NEW d \in Device, responses[d] # <<>>
  PROVE  queue[d] # <<>>
<1>1. responses[d] \in Seq(Answer)
  BY DEF TypeOK
<1>2. Len(responses[d]) \in Nat /\ Len(responses[d]) >= 1
  BY <1>1, TailFacts
<1> QED
  BY <1>2, AnswersMatchQueue, EmptySequence

(***************************************************************************)
(* A step of the listeners or the watch stream is about one session, which *)
(* it leaves good.                                                         *)
(***************************************************************************)
LEMMA StepsAreGood ==
  ASSUME TypeOK, GoodSessions, NEW d \in Device,
         \/ StoreWrite(d)
         \/ HandleSuccessfulWrite(d)
         \/ HandleRejectedWrite(d)
         \/ RestartApp(d)
         \/ \E l \in Listener : AddQueryListener(d, l) \/ RemoveQueryListener(d, l)
         \/ OnWatchStreamOpen(d)
         \/ OnWatchStreamClose(d)
         \/ IdleTimerFires(d)
         \/ OnlineStateTimerFires(d)
         \/ OnWatchStreamChange(d)
         \/ MarkCurrent(d)
         \/ HandleRejectedListen(d)
         \/ \E v \in 1 .. Latest : WatchSnapshot(d, v)
  PROVE  OnlySession(d) /\ Good(sessions'[d])
<1>1. CASE StoreWrite(d)
  <2>1. Head(calls[d]).write.key \in Key
    BY <1>1, WritesAreOfKeys DEF StoreWrite, WriteLocally
  <2> QED
    BY <1>1, <2>1, StoreIsGood DEF StoreWrite
<1>2. CASE HandleSuccessfulWrite(d)
  <2>1. Head(queue[d]).write.key \in Key
    BY <1>2, WritesAreOfKeys, AnsweredIsQueued DEF HandleSuccessfulWrite, AcknowledgeBatch
  <2> QED
    BY <1>2, <2>1, StoreIsGood DEF HandleSuccessfulWrite
<1>3. CASE HandleRejectedWrite(d)
  <2>1. Head(queue[d]).write.key \in Key
    BY <1>3, WritesAreOfKeys, AnsweredIsQueued DEF HandleRejectedWrite, RejectBatch
  <2> QED
    BY <1>3, <2>1, StoreIsGood DEF HandleRejectedWrite
<1>4. CASE RestartApp(d)
  BY <1>4, RestartIsGood
<1>5. CASE \E l \in Listener : AddQueryListener(d, l) \/ RemoveQueryListener(d, l)
  BY <1>5, AddQueryListenerIsGood, RemoveQueryListenerIsGood
<1>6. CASE OnWatchStreamOpen(d) \/ OnWatchStreamClose(d)
  BY <1>6, OpenIsGood, CloseIsGood
<1>7. CASE IdleTimerFires(d) \/ OnlineStateTimerFires(d)
  BY <1>7, IdleIsGood, TimerIsGood
<1>8. CASE OnWatchStreamChange(d) \/ MarkCurrent(d) \/ HandleRejectedListen(d)
  BY <1>8, ChangeIsGood, MarkCurrentIsGood, DeniedIsGood
<1>9. CASE \E v \in 1 .. Latest : WatchSnapshot(d, v)
  BY <1>9, SnapshotIsGood
<1> QED
  BY <1>1, <1>2, <1>3, <1>4, <1>5, <1>6, <1>7, <1>8, <1>9

(***************************************************************************)
(* So all sessions stay good.                                              *)
(***************************************************************************)
LEMMA StaysGood ==
  ASSUME TypeOK, GoodSessions, [ListenersNext]_allVars
  PROVE  GoodSessions'
<1>1. ASSUME NEW d \in Device, OnlySession(d), Good(sessions'[d])
      PROVE  GoodSessions'
  <2>1. DOMAIN sessions' = Device
    BY <1>1 DEF OnlySession
  <2>2. ASSUME NEW e \in Device PROVE Good(sessions'[e])
    BY <1>1 DEF OnlySession, GoodSessions
  <2> QED
    BY <2>1, <2>2 DEF GoodSessions
<1>2. UNCHANGED sessions => GoodSessions'
  BY DEF GoodSessions
<1>3. ASSUME NEW d \in Device, ClientStep(d)
      PROVE  UNCHANGED sessions
  BY <1>3 DEF ClientStep, listenerVars
<1>4. UNCHANGED allVars => UNCHANGED sessions
  BY DEF allVars, listenerVars
<1> QED
  BY <1>1, <1>2, <1>3, <1>4, StepsAreGood DEF ListenersNext

(***************************************************************************)
(* What holds of all sessions in all states.                               *)
(***************************************************************************)
SessionInvariant == InductiveInvariant /\ Counted /\ GoodSessions

(***************************************************************************)
(* In every behaviour the sessions are good and the client keeps its       *)
(* invariant.                                                              *)
(***************************************************************************)
THEOREM SessionsAreGood == ListenersSpec => []SessionInvariant
<1>1. ListenersInit => SessionInvariant
  <2> SUFFICES ASSUME ListenersInit PROVE SessionInvariant
    OBVIOUS
  <2>1. InductiveInvariant
    BY InitInvariant DEF ListenersInit
  <2>2. Counted
    BY DEF ListenersInit, Counted
  <2>3. GoodSessions
    BY NewSessionIsGood DEF ListenersInit, GoodSessions
  <2> QED
    BY <2>1, <2>2, <2>3 DEF SessionInvariant
<1>2. SessionInvariant /\ [ListenersNext]_allVars => SessionInvariant'
  <2> SUFFICES ASSUME SessionInvariant, [ListenersNext]_allVars
               PROVE  SessionInvariant'
    OBVIOUS
  <2>1. InductiveInvariant /\ TypeOK /\ Counted /\ GoodSessions
    BY DEF SessionInvariant, InductiveInvariant
  <2>2. InductiveInvariant'
    BY <2>1, ListenersKeepClient
  <2>3. Counted'
    BY <2>1, StaysCounted
  <2>4. GoodSessions'
    BY <2>1, StaysGood
  <2> QED
    BY <2>2, <2>3, <2>4 DEF SessionInvariant
<1> QED
  BY <1>1, <1>2, PTL DEF ListenersSpec

(***************************************************************************)
(* The timer never runs when it must not.                                  *)
(***************************************************************************)
THEOREM TimersWait == ListenersSpec => []TimerWaitsForServer
<1>1. SessionInvariant => TimerWaitsForServer
  BY DEF SessionInvariant, GoodSessions, Good, Connected, TimerWaitsForServer
<1> QED
  BY <1>1, SessionsAreGood, PTL

(***************************************************************************)
(* The state keeps its shape, and the events of a listener add up to the   *)
(* view.                                                                   *)
(***************************************************************************)
LEMMA GoodAddsUp ==
  ASSUME SessionInvariant
  PROVE  ListenersTypeOK /\ ChangesAddUp
<1>1. ListenersTypeOK
  <2>1. ASSUME NEW d \in Device
        PROVE  LET s == sessions[d]
               IN  /\ DOMAIN s.listeners \subseteq Listener
                   /\ s.stream \in {"stopped", "starting", "open", "current"}
                   /\ s.online.state \in {"unknown", "online", "offline"}
                   /\ s.view.sync \in {"none", "local", "synced"}
                   /\ DOMAIN s.view.docs \subseteq Key
                   /\ s.view.mutated \subseteq DOMAIN s.view.docs
    BY DEF SessionInvariant, GoodSessions, Good, Connected, OfQuery, Told, AddsUp,
           MarksPending
  <2> QED
    BY <2>1 DEF ListenersTypeOK, SessionInvariant, Counted
<1>2. ChangesAddUp
  <2>1. ASSUME NEW d \in Device, NEW l \in DOMAIN sessions[d].listeners,
               sessions[d].listeners[l].raised
        PROVE  Knows(l, sessions[d].listeners[l], sessions[d].view)
    BY <2>1 DEF SessionInvariant, GoodSessions, Good, Told, AddsUp, IsTold
  <2> QED
    BY <2>1 DEF ChangesAddUp, Knows
<1> QED
  BY <1>1, <1>2

-----------------------------------------------------------------------------
(***************************************************************************)
(* What is shown is the cached document, or has pending writes on top.     *)
(***************************************************************************)
LEMMA ViewIsLocalOrCached ==
  ASSUME NEW doc, NEW batches, Len(batches) \in Nat, NEW key
  PROVE  LET view == GetDocument(doc, batches, key)
         IN  view.state = "local" \/ view = doc
<1>1. PICK views : /\ AreViews(views, doc, batches, key)
                   /\ GetDocument(doc, batches, key) = views[Len(batches)]
  BY GetDocumentIsLastView
<1> DEFINE m == Len(batches)
           T == {n \in 0 .. m : views[n].state = "local" \/ views[n] = doc}
<1>2. 0 \in T
  BY <1>1 DEF AreViews
<1>3. ASSUME NEW n \in 1 .. m, n - 1 \in T
      PROVE  n \in T
  <2>1. views[n] = ApplyToLocalDocument(batches[n], key, views[n - 1])
    BY <1>1 DEF AreViews
  <2>2. views[n].state = "local" \/ views[n] = views[n - 1]
    BY <2>1 DEF ApplyToLocalDocument, ApplyToLocalView
  <2> QED
    BY <1>3, <2>2
<1>4. m \in T
  <2>1. m \in Nat /\ m \in 0 .. m
    OBVIOUS
  <2> HIDE DEF T, m
  <2>2. \A n \in 0 .. m : n \in T
    BY <1>2, <1>3, <2>1, AlongQueue
  <2> QED
    BY <2>1, <2>2
<1> QED
  BY <1>1, <1>4

(***************************************************************************)
(* A batch that is stored goes on top of the others.                       *)
(***************************************************************************)
LEMMA ViewOfAppended ==
  ASSUME NEW doc, NEW q \in Seq(Batch), NEW batch \in Batch, NEW key
  PROVE  GetDocument(doc, Append(q, batch), key)
           = ApplyToLocalDocument(batch, key, GetDocument(doc, q, key))
<1> DEFINE m == Len(q)
           p == Append(q, batch)
<1>1. /\ m \in Nat /\ Len(p) = m + 1 /\ Len(p) \in Nat
      /\ \A n \in 1 .. m : p[n] = q[n]
      /\ p[m + 1] = batch
  OBVIOUS
<1> HIDE DEF p
<1>2. PICK views : AreViews(views, doc, q, key) /\ GetDocument(doc, q, key) = views[m]
  BY <1>1, GetDocumentIsLastView
<1>3. PICK more : AreViews(more, doc, p, key) /\ GetDocument(doc, p, key) = more[m + 1]
  <2>1. \E more : AreViews(more, doc, p, key) /\ GetDocument(doc, p, key) = more[Len(p)]
    BY <1>1, GetDocumentIsLastView
  <2> QED
    BY <1>1, <2>1
<1> DEFINE T == {n \in 0 .. m : more[n] = views[n]}
<1>4. 0 \in T
  BY <1>1, <1>2, <1>3 DEF AreViews
<1>5. ASSUME NEW n \in 1 .. m, n - 1 \in T
      PROVE  n \in T
  <2>1. n \in 1 .. Len(p)
    BY <1>1
  <2>2. /\ views[n] = ApplyToLocalDocument(q[n], key, views[n - 1])
        /\ more[n] = ApplyToLocalDocument(p[n], key, more[n - 1])
    BY <1>2, <1>3, <2>1 DEF AreViews
  <2> QED
    BY <1>1, <1>5, <2>2
<1>6. m \in T
  <2>1. m \in 0 .. m
    BY <1>1
  <2> HIDE DEF T, m
  <2>2. \A n \in 0 .. m : n \in T
    BY <1>1, <1>4, <1>5, AlongQueue
  <2> QED
    BY <2>1, <2>2
<1>7. more[m + 1] = ApplyToLocalDocument(p[m + 1], key, more[m])
  <2>1. m + 1 \in 1 .. Len(p) /\ m + 1 - 1 = m
    BY <1>1
  <2> QED
    BY <1>3, <2>1 DEF AreViews
<1> QED
  BY <1>1, <1>2, <1>3, <1>6, <1>7 DEF p

(***************************************************************************)
(* The first batch of the queue goes below the others.                     *)
(***************************************************************************)
LEMMA ViewOfTail ==
  ASSUME NEW doc, NEW q \in Seq(Batch), q # <<>>, NEW key
  PROVE  GetDocument(doc, q, key)
           = GetDocument(ApplyToLocalDocument(Head(q), key, doc), Tail(q), key)
<1> DEFINE r == Tail(q)
           m == Len(r)
           first == ApplyToLocalDocument(Head(q), key, doc)
<1>1. /\ Head(q) = q[1] /\ m \in Nat /\ Len(q) = m + 1 /\ Len(q) \in Nat
      /\ \A n \in 1 .. m : r[n] = q[n + 1]
  <2>1. /\ Head(q) = q[1] /\ Len(q) \in Nat /\ Len(q) >= 1
        /\ Len(Tail(q)) = Len(q) - 1
        /\ DOMAIN Tail(q) = 1 .. Len(q) - 1
        /\ \A i \in DOMAIN Tail(q) : Tail(q)[i] = q[i + 1]
    BY TailFacts
  <2> QED
    BY <2>1
<1> HIDE DEF r, first
<1>2. PICK views : AreViews(views, doc, q, key) /\ GetDocument(doc, q, key) = views[m + 1]
  <2>1. \E views : AreViews(views, doc, q, key) /\ GetDocument(doc, q, key) = views[Len(q)]
    BY <1>1, GetDocumentIsLastView
  <2> QED
    BY <1>1, <2>1
<1>3. PICK rest : AreViews(rest, first, r, key) /\ GetDocument(first, r, key) = rest[m]
  BY <1>1, GetDocumentIsLastView
<1> DEFINE T == {n \in 0 .. m : rest[n] = views[n + 1]}
<1>4. 0 \in T
  <2>1. 1 \in 1 .. Len(q) /\ 1 - 1 = 0
    BY <1>1
  <2>2. views[1] = ApplyToLocalDocument(q[1], key, doc)
    BY <1>2, <2>1 DEF AreViews
  <2>3. rest[0] = first
    BY <1>3 DEF AreViews
  <2> QED
    BY <1>1, <2>2, <2>3 DEF first
<1>5. ASSUME NEW n \in 1 .. m, n - 1 \in T
      PROVE  n \in T
  <2>1. n + 1 \in 1 .. Len(q) /\ n + 1 - 1 = n /\ n - 1 + 1 = n
    BY <1>1
  <2>2. /\ views[n + 1] = ApplyToLocalDocument(q[n + 1], key, views[n])
        /\ rest[n] = ApplyToLocalDocument(r[n], key, rest[n - 1])
    BY <1>2, <1>3, <2>1 DEF AreViews
  <2> QED
    BY <1>1, <1>5, <2>1, <2>2
<1>6. m \in T
  <2>1. m \in 0 .. m
    BY <1>1
  <2> HIDE DEF T, m
  <2>2. \A n \in 0 .. m : n \in T
    BY <1>1, <1>4, <1>5, AlongQueue
  <2> QED
    BY <2>1, <2>2
<1> QED
  BY <1>2, <1>3, <1>6 DEF r, first

(***************************************************************************)
(* What the steps of the client do to the documents that are shown.  The   *)
(* queue and the cache of the other documents do not matter.               *)
(***************************************************************************)
LEMMA CacheOfOther ==
  ASSUME TypeOK, NEW d \in Device, AcknowledgeBatch(d),
         NEW e \in Device, NEW k \in Key, e = d => k # Head(queue[d]).write.key
  PROVE  cache'[e][k] = cache[e][k]
BY DEF TypeOK, AcknowledgeBatch

(***************************************************************************)
(* A write that is stored goes on top of what is shown.                    *)
(***************************************************************************)
LEMMA StoredView ==
  ASSUME TypeOK, NEW d \in Device, WriteLocally(d), NEW k \in Key
  PROVE  View(d, k)' = ApplyToLocalDocument(Head(calls[d]), k, View(d, k))
<1>1. /\ cache'[d][k] = cache[d][k]
      /\ queue'[d] = Append(queue[d], Head(calls[d]))
      /\ queue[d] \in Seq(Batch) /\ calls[d] \in Seq(Batch) /\ calls[d] # <<>>
  BY DEF TypeOK, WriteLocally
<1>2. Head(calls[d]) \in Batch
  BY <1>1, TailFacts
<1> QED
  BY <1>1, <1>2, ViewOfAppended DEF View

(***************************************************************************)
(* An answer leaves what is shown of the other documents alone.            *)
(***************************************************************************)
LEMMA ViewOfOther ==
  ASSUME TypeOK, NEW d \in Device, AcknowledgeBatch(d) \/ RejectBatch(d),
         NEW k \in Key, k # Head(queue[d]).write.key
  PROVE  View(d, k)' = View(d, k)
<1>1. queue[d] # <<>> /\ queue[d] \in Seq(Batch)
  BY AnsweredIsQueued DEF AcknowledgeBatch, RejectBatch, TypeOK
<1>2. cache'[d][k] = cache[d][k]
  BY CacheOfOther DEF RejectBatch
<1>3. queue'[d] = Tail(queue[d])
  BY DEF AcknowledgeBatch, RejectBatch, TypeOK
<1>4. ApplyToLocalDocument(Head(queue[d]), k, cache[d][k]) = cache[d][k]
  BY DEF ApplyToLocalDocument
<1>5. GetDocument(cache[d][k], queue[d], k) = GetDocument(cache[d][k], Tail(queue[d]), k)
  BY <1>1, <1>4, ViewOfTail
<1> QED
  BY <1>2, <1>3, <1>5 DEF View

(***************************************************************************)
(* What is shown of a document depends on its device's cache and queue.    *)
(***************************************************************************)
LEMMA SameView ==
  ASSUME NEW e, NEW k, cache'[e][k] = cache[e][k], queue'[e] = queue[e]
  PROVE  View(e, k)' = View(e, k)
BY DEF View

(***************************************************************************)
(* A cached document marked by a commit is ahead of the watch stream.      *)
(***************************************************************************)
LEMMA CommittedIsAhead ==
  ASSUME InductiveInvariant, NEW d \in Device, NEW k \in Key,
         cache[d][k].state = "committed"
  PROVE  AheadOfWatch(d, k)
<1>1. seen[d] \in DOMAIN backend
  BY DEF InductiveInvariant, TypeOK, Latest
<1>2. backend[seen[d]][k].state = "synced"
  BY <1>1 DEF InductiveInvariant, TypeOK, IsServerDocument
<1> QED
  BY <1>2 DEF InductiveInvariant, CacheFaithful

(***************************************************************************)
(* A document that a snapshot leaves as it is stays ahead.                 *)
(***************************************************************************)
LEMMA StaysAhead ==
  ASSUME InductiveInvariant, [Next]_clientVars, NEW d \in Device, NEW k \in Key,
         AheadOfWatch(d, k), cache'[d][k] = cache[d][k]
  PROVE  AheadOfWatch(d, k)'
<1> DEFINE doc == cache[d][k]
<1>0. TypeOK /\ BackendCoherent
  BY DEF InductiveInvariant
<1>1. /\ HasPendingWrites(doc)
      /\ doc.version \in seen[d] + 1 .. Latest
      /\ backend[doc.version][k].version = doc.version
  BY DEF AheadOfWatch
<1>2. DOMAIN backend = 1 .. Latest /\ Latest \in Nat /\ seen[d] \in 1 .. Latest
  BY <1>0 DEF TypeOK, Latest
<1>3. CASE UNCHANGED <<backend, seen>>
  BY <1>1, <1>3 DEF AheadOfWatch, Latest
<1>4. ASSUME NEW e \in Device, Commit(e)
      PROVE  AheadOfWatch(d, k)'
  <2>1. /\ UNCHANGED seen
        /\ Latest' >= Latest /\ Latest' \in Nat
        /\ backend'[doc.version] = backend[doc.version]
    <3> DEFINE new == [backend[Latest] EXCEPT
                         ![NextSent(e).write.key] =
                            ServerApply(NextSent(e).write,
                                        backend[Latest][NextSent(e).write.key],
                                        Latest + 1)]
    <3>1. UNCHANGED seen /\ backend' \in {backend, Append(backend, new)}
      BY <1>4 DEF Commit
    <3> HIDE DEF new
    <3>2. /\ Len(Append(backend, new)) = Latest + 1
          /\ \A i \in 1 .. Latest : Append(backend, new)[i] = backend[i]
      BY <1>0, AppendToAny DEF TypeOK, Latest
    <3> QED
      BY <1>1, <1>2, <3>1, <3>2 DEF Latest
  <2> QED
    BY <1>1, <1>2, <2>1 DEF AheadOfWatch
<1>5. ASSUME NEW e \in Device, NEW v \in 1 .. Latest, ApplyRemoteEvent(e, v)
      PROVE  AheadOfWatch(d, k)'
  <2>1. CASE e # d
    <3>1. UNCHANGED backend /\ seen'[d] = seen[d]
      BY <1>0, <1>5, <2>1 DEF ApplyRemoteEvent, TypeOK
    <3> QED
      BY <1>1, <3>1 DEF AheadOfWatch, Latest
  <2>2. CASE e = d
    <3>1. UNCHANGED backend /\ seen'[d] = v
      BY <1>0, <1>5, <2>2 DEF ApplyRemoteEvent, TypeOK
    <3>2. /\ v \in DOMAIN backend /\ backend[v][k].state = "synced"
          /\ backend[v][k].version \in Nat /\ doc.version \in Nat
      <4>1. v \in DOMAIN backend /\ doc.version \in Nat
        BY <1>1, <1>2
      <4>2. IsServerDocument(backend[v][k], v)
        BY <1>0, <4>1 DEF TypeOK
      <4> QED
        BY <4>1, <4>2 DEF IsServerDocument, IsDocument
    <3>3. ~AcceptsWatchUpdate(doc, backend[v][k])
      <4>1. cache'[d][k] = IF AcceptsWatchUpdate(doc, backend[v][k]) THEN backend[v][k] ELSE doc
        BY <1>0, <1>5, <2>2 DEF ApplyRemoteEvent, TypeOK
      <4> QED
        BY <1>1, <3>2, <4>1 DEF HasPendingWrites
    <3>4. backend[v][k].version < doc.version
      BY <1>1, <3>2, <3>3 DEF AcceptsWatchUpdate
    <3>5. ~(doc.version <= v)
      <4> SUFFICES ASSUME doc.version <= v PROVE FALSE
        OBVIOUS
      <4>1. doc.version \in DOMAIN backend
        BY <1>1, <1>2
      <4>2. backend[doc.version][k].version <= backend[v][k].version
        BY <1>0, <3>2, <4>1, BackendMonotone
      <4> QED
        BY <1>1, <3>2, <3>4, <4>2
    <3>6. doc.version \in v + 1 .. Latest
      BY <1>1, <1>2, <3>2, <3>5
    <3> QED
      BY <1>1, <3>1, <3>6 DEF AheadOfWatch, Latest
  <2> QED
    BY <2>1, <2>2
<1>6. ASSUME NEW e \in Device,
             \/ \E ws \in Program : Call(e, ws)
             \/ \E ws \in Program \cup {<<>>} : Complete(e, ws)
             \/ WriteLocally(e) \/ Refuse(e) \/ AcknowledgeBatch(e)
             \/ RejectBatch(e) \/ BreakStream(e) \/ Kill(e)
      PROVE  UNCHANGED <<backend, seen>>
  BY <1>6 DEF Call, Complete, WriteLocally, Refuse, AcknowledgeBatch, RejectBatch,
              BreakStream, Kill
<1> QED
  BY <1>3, <1>4, <1>5, <1>6 DEF Next, Background, clientVars

(***************************************************************************)
(* What a snapshot leaves of a document that changed.  One that is shown   *)
(* with a pending write is taken over as soon as the local store has it    *)
(* again; its result is held back only while it is marked.                 *)
(***************************************************************************)
LEMMA EmittedKey ==
  ASSUME NEW view, MarksPending(view), NEW docs, NEW k \in DOMAIN docs, NEW current
  PROVE  LET new == ApplyChanges(view, docs, ComputeDocumentChanges(view, docs), current)
         IN  /\ \/ InQuery(docs[k]) /\ k \in DOMAIN new.docs
                     /\ new.docs[k].data = docs[k].data
                \/ ~InQuery(docs[k]) /\ k \notin DOMAIN new.docs
                \/ k \in new.mutated /\ docs[k].state = "committed"
             /\ k \in DOMAIN new.docs /\ docs[k].state = "local" => k \in new.mutated
             /\ k \in view.mutated /\ docs[k].state = "committed" /\ k \in DOMAIN new.docs =>
                  k \in new.mutated
             /\ k \in DOMAIN new.docs => InQuery(docs[k])
<1> DEFINE changes == ComputeDocumentChanges(view, docs)
           new == ApplyChanges(view, docs, changes, current)
           doc == docs[k]
           c == ChangeOf(view, k, docs[k])
<1>1. IF c = "none" THEN k \notin DOMAIN changes
      ELSE k \in DOMAIN changes /\ changes[k] = c
  BY ChangeSays
<1>2. /\ k \in DOMAIN new.docs <=>
           IF k \in DOMAIN changes THEN changes[k] # "removed" ELSE k \in DOMAIN view.docs
      /\ k \in DOMAIN new.docs =>
           new.docs[k] = IF k \in DOMAIN changes THEN doc ELSE view.docs[k]
      /\ k \in new.mutated <=>
           IF k \in DOMAIN changes THEN changes[k] # "removed" /\ doc.state = "local"
           ELSE k \in view.mutated
  BY ApplyChangesDocs
<1>3. k \in view.mutated <=> k \in DOMAIN view.docs /\ view.docs[k].state = "local"
  BY DEF MarksPending
<1> HIDE DEF changes, new
<1> DEFINE Goal == /\ \/ InQuery(doc) /\ k \in DOMAIN new.docs
                            /\ new.docs[k].data = doc.data
                      \/ ~InQuery(doc) /\ k \notin DOMAIN new.docs
                      \/ k \in new.mutated /\ doc.state = "committed"
                   /\ k \in DOMAIN new.docs /\ doc.state = "local" => k \in new.mutated
                   /\ k \in view.mutated /\ doc.state = "committed" /\ k \in DOMAIN new.docs =>
                        k \in new.mutated
                   /\ k \in DOMAIN new.docs => InQuery(doc)
<1>4. ASSUME k \notin DOMAIN view.docs PROVE Goal
  <2>1. c = IF InQuery(doc) THEN "added" ELSE "none"
    BY <1>4 DEF ChangeOf
  <2> HIDE DEF c, doc
  <2> QED
    BY <1>1, <1>2, <1>3, <1>4, <2>1 DEF doc
<1>5. ASSUME k \in DOMAIN view.docs, ~InQuery(doc) PROVE Goal
  <2>1. c = "removed"
    BY <1>5 DEF ChangeOf
  <2> HIDE DEF c
  <2> QED
    BY <1>1, <1>2, <1>5, <2>1
<1>6. ASSUME k \in DOMAIN view.docs, InQuery(doc), view.docs[k].data # doc.data
      PROVE  Goal
  <2>1. c = IF view.docs[k].state = "local" /\ doc.state = "committed"
            THEN "none" ELSE "modified"
    BY <1>6 DEF ChangeOf, ShouldWaitForSyncedDocument
  <2> HIDE DEF c
  <2> QED
    BY <1>1, <1>2, <1>3, <1>6, <2>1
<1>7. ASSUME k \in DOMAIN view.docs, InQuery(doc), view.docs[k].data = doc.data
      PROVE  Goal
  <2>1. c = IF (k \in view.mutated) # (doc.state = "local"
                                         \/ (k \in view.mutated /\ doc.state = "committed"))
            THEN "metadata" ELSE "none"
    BY <1>7 DEF ChangeOf, HasPendingMutations
  <2> HIDE DEF c
  <2> QED
    BY <1>1, <1>2, <1>3, <1>7, <2>1
<1>8. Goal
  BY <1>4, <1>5, <1>6, <1>7
<1> QED
  BY <1>8 DEF new, changes

(***************************************************************************)
(* The other documents of the view are left alone.                         *)
(***************************************************************************)
LEMMA EmittedOther ==
  ASSUME NEW view, NEW docs, NEW k, k \notin DOMAIN docs, NEW current
  PROVE  LET new == ApplyChanges(view, docs, ComputeDocumentChanges(view, docs), current)
         IN  /\ k \in DOMAIN new.docs <=> k \in DOMAIN view.docs
             /\ k \in DOMAIN new.docs => new.docs[k] = view.docs[k]
             /\ k \in new.mutated <=> k \in view.mutated
<1> DEFINE changes == ComputeDocumentChanges(view, docs)
           new == ApplyChanges(view, docs, changes, current)
<1>1. k \notin DOMAIN changes
  BY ChangeSays
<1>2. /\ k \in DOMAIN new.docs <=>
           IF k \in DOMAIN changes THEN changes[k] # "removed" ELSE k \in DOMAIN view.docs
      /\ k \in DOMAIN new.docs =>
           new.docs[k] = IF k \in DOMAIN changes THEN docs[k] ELSE view.docs[k]
      /\ k \in new.mutated <=>
           IF k \in DOMAIN changes THEN changes[k] # "removed" /\ docs[k].state = "local"
           ELSE k \in view.mutated
  BY ApplyChangesDocs
<1> HIDE DEF changes, new
<1> QED
  BY <1>1, <1>2 DEF changes, new

-----------------------------------------------------------------------------
(***************************************************************************)
(* What a commit does to the server's documents and to the answers.        *)
(***************************************************************************)
LEMMA CommitFields ==
  ASSUME InductiveInvariant, NEW d \in Device, Commit(d)
  PROVE  /\ Latest \in Nat /\ DOMAIN backend = 1 .. Latest
         /\ DOMAIN backend' = 1 .. Latest' /\ Latest' \in {Latest, Latest + 1}
         /\ \A v \in 1 .. Latest : backend'[v] = backend[v]
         /\ Len(log) \in Nat /\ Len(log') = Len(log) + 1
         /\ \A e \in Device \ {d} : responses'[e] = responses[e]
         /\ \E version \in Nat :
              /\ responses'[d] = Append(responses[d], Accepted(version))
              /\ Latest' = Latest + 1 => version = Latest + 1
         /\ Latest' = Latest + 1 =>
              \A k \in Key : \/ backend'[Latest + 1][k] = backend[Latest][k]
                             \/ Exists(backend'[Latest + 1][k])
         /\ UNCHANGED <<queue, cache, seen, faults>>
<1> DEFINE write == NextSent(d).write
           current == backend[Latest][write.key]
           doc == ServerApply(write, current, Latest + 1)
           new == [backend[Latest] EXCEPT ![write.key] = doc]
<1>1. /\ Latest \in Nat /\ Latest >= 1 /\ DOMAIN backend = 1 .. Latest
      /\ backend \in Seq(Range(backend)) /\ log \in Seq(Device \X Nat)
      /\ responses \in [Device -> Seq(Answer)]
  BY DEF InductiveInvariant, TypeOK, Latest
<1>2. /\ backend' = IF doc = current THEN backend ELSE Append(backend, new)
      /\ log' = Append(log, <<d, NextSent(d).n>>)
      /\ responses' = [responses EXCEPT ![d] = Append(@, Accepted(doc.version))]
      /\ UNCHANGED <<queue, cache, seen, faults>>
  BY DEF Commit
<1>3. Len(log) \in Nat /\ Len(log') = Len(log) + 1
  <2>1. InductiveInvariant'
    BY CommitInvariant
  <2>2. log' \in Seq(Device \X Nat)
    BY <2>1 DEF InductiveInvariant, TypeOK
  <2>3. Len(log) \in Nat /\ Len(Append(log, <<d, NextSent(d).n>>)) = Len(log) + 1
    BY <1>1
  <2> QED
    BY <1>2, <2>3
<1>4. /\ responses'[d] = Append(responses[d], Accepted(doc.version))
      /\ \A e \in Device \ {d} : responses'[e] = responses[e]
  BY <1>1, <1>2
<1>5. /\ IsServerDocument(doc, Latest + 1) /\ doc.type = "document"
      /\ doc = current \/ doc.version = Latest + 1
  <2>1. write.key \in Key
    <3>1. queue[d] \in Seq(Batch) /\ Len(responses[d]) \in Nat
          /\ Len(responses[d]) < Len(queue[d])
      BY <1>1 DEF InductiveInvariant, TypeOK, Commit, CanSend
    <3>2. queue[d][Len(responses[d]) + 1] \in Batch
      BY <3>1
    <3> QED
      BY <3>2, WriteAssumption DEF NextSent, Batch
  <2>2. Latest \in DOMAIN backend
    BY <1>1
  <2>3. IsServerDocument(current, Latest)
    BY <2>1, <2>2 DEF InductiveInvariant, TypeOK
  <2> HIDE DEF current, write
  <2> QED
    BY <1>1, <2>3, ServerApplyType
<1>6. doc.version \in Nat
  BY <1>5 DEF IsServerDocument, IsDocument
<1>7. \A k \in Key : new[k] = backend[Latest][k] \/ Exists(new[k])
  <2> HIDE DEF doc
  <2>0. Latest \in DOMAIN backend
    BY <1>1
  <2>1. DOMAIN backend[Latest] = Key
    BY <2>0 DEF InductiveInvariant, TypeOK
  <2> QED
    BY <1>5, <2>1 DEF Exists
<1> HIDE DEF doc, current, new
<1>8. CASE doc = current
  <2>1. backend' = backend /\ Latest' = Latest
    BY <1>2, <1>8 DEF Latest
  <2>2. Latest' # Latest + 1
    BY <1>1, <2>1
  <2> QED
    BY <1>1, <1>2, <1>3, <1>4, <1>6, <2>1, <2>2
<1>9. CASE doc # current
  <2>1. /\ backend' = Append(backend, new)
        /\ Len(Append(backend, new)) = Len(backend) + 1
        /\ DOMAIN Append(backend, new) = 1 .. Len(backend) + 1
        /\ \A i \in 1 .. Len(backend) : Append(backend, new)[i] = backend[i]
        /\ Append(backend, new)[Len(backend) + 1] = new
    BY <1>1, <1>2, <1>9, AppendToAny
  <2>2. /\ Latest' = Latest + 1
        /\ DOMAIN backend' = 1 .. Latest + 1
        /\ \A v \in 1 .. Latest : backend'[v] = backend[v]
        /\ backend'[Latest + 1] = new
    BY <2>1 DEF Latest
  <2>3. doc.version = Latest + 1
    BY <1>5, <1>9
  <2> QED
    BY <1>1, <1>2, <1>3, <1>4, <1>6, <1>7, <2>2, <2>3
<1> QED
  BY <1>8, <1>9

(***************************************************************************)
(* The server never deletes, and has no more versions than commits.        *)
(***************************************************************************)
ServerGrows ==
  /\ Latest <= Len(log) + 1
  /\ \A v \in DOMAIN backend, k \in Key :
       backend[v][k].version >= 1 => Exists(backend[v][k])

(***************************************************************************)
(* It goes on growing: only a commit is about the server, and makes at     *)
(* most one version.                                                       *)
(***************************************************************************)
LEMMA ServerGrowsOn ==
  ASSUME InductiveInvariant, ServerGrows, [Next]_clientVars
  PROVE  ServerGrows'
<1>1. CASE UNCHANGED <<backend, log>>
  BY <1>1 DEF ServerGrows, Latest
<1>2. ASSUME NEW d \in Device, Commit(d)
      PROVE  ServerGrows'
  <2>1. /\ Latest \in Nat /\ DOMAIN backend = 1 .. Latest
        /\ DOMAIN backend' = 1 .. Latest' /\ Latest' \in {Latest, Latest + 1}
        /\ \A v \in 1 .. Latest : backend'[v] = backend[v]
        /\ Len(log) \in Nat /\ Len(log') = Len(log) + 1
        /\ Latest' = Latest + 1 =>
             \A k \in Key : \/ backend'[Latest + 1][k] = backend[Latest][k]
                            \/ Exists(backend'[Latest + 1][k])
    BY <1>2, CommitFields
  <2>2. Latest' <= Len(log') + 1
    BY <2>1 DEF ServerGrows
  <2>3. ASSUME NEW v \in DOMAIN backend', NEW k \in Key, backend'[v][k].version >= 1
        PROVE  Exists(backend'[v][k])
    <3>1. CASE v \in 1 .. Latest
      BY <2>1, <2>3, <3>1 DEF ServerGrows
    <3>2. CASE v \notin 1 .. Latest
      <4>1. v = Latest + 1 /\ Latest' = Latest + 1 /\ Latest >= 1
        BY <2>1, <3>2 DEF InductiveInvariant, TypeOK
      <4>2. Latest \in DOMAIN backend
        BY <2>1, <4>1
      <4> QED
        BY <2>1, <2>3, <4>1, <4>2 DEF ServerGrows
    <3> QED
      BY <3>1, <3>2
  <2> QED
    BY <2>2, <2>3 DEF ServerGrows
<1>3. ASSUME NEW d \in Device,
             \/ \E ws \in Program : Call(d, ws)
             \/ \E ws \in Program \cup {<<>>} : Complete(d, ws)
             \/ WriteLocally(d) \/ Refuse(d) \/ AcknowledgeBatch(d)
             \/ RejectBatch(d) \/ BreakStream(d) \/ Kill(d)
             \/ \E v \in 1 .. Latest : ApplyRemoteEvent(d, v)
      PROVE  UNCHANGED <<backend, log>>
  BY <1>3 DEF Call, Complete, WriteLocally, Refuse, AcknowledgeBatch, RejectBatch,
              BreakStream, Kill, ApplyRemoteEvent
<1> QED
  BY <1>1, <1>2, <1>3 DEF Next, Background, clientVars

(***************************************************************************)
(* The runs in which the documents in sync are the server's: no write was  *)
(* refused that the server could have taken, and none changed nothing.     *)
(***************************************************************************)
Orderly == faults.refuse = 0 /\ EveryCommitChanged

(***************************************************************************)
(* A run that is orderly was so before, and its last commit or refusal was *)
(* not one of those.                                                       *)
(***************************************************************************)
LEMMA WasOrderly ==
  ASSUME InductiveInvariant, ServerGrows, [Next]_clientVars, Orderly'
  PROVE  /\ Orderly
         /\ \A d \in Device : Commit(d) => Latest' = Latest + 1
         /\ \A d \in Device : Refuse(d) =>
              ~IsValidFor(NextSent(d).write, backend[Latest][NextSent(d).write.key])
<1>1. faults \in [Fault -> Nat] /\ Latest \in Nat
  BY DEF InductiveInvariant, TypeOK, Latest
<1>2. \A kind \in Fault : FaultHappens(kind) =>
        /\ faults'.refuse = IF kind = "refuse" THEN faults.refuse + 1 ELSE faults.refuse
  BY <1>1 DEF FaultHappens, Fault
<1>3. faults.refuse \in Nat
  BY <1>1 DEF Fault
<1>4. faults'.refuse = 0 /\ Latest' = Len(log') + 1
  BY DEF Orderly, EveryCommitChanged
<1>5. ASSUME NEW d \in Device, Commit(d)
      PROVE  Orderly /\ Latest' = Latest + 1
  <2>1. /\ Len(log) \in Nat /\ Len(log') = Len(log) + 1
        /\ Latest' \in {Latest, Latest + 1} /\ UNCHANGED faults
    BY <1>5, CommitFields
  <2> QED
    BY <1>1, <1>4, <2>1 DEF ServerGrows, Orderly, EveryCommitChanged
<1>6. ASSUME NEW d \in Device, Refuse(d)
      PROVE  /\ Orderly
             /\ ~IsValidFor(NextSent(d).write, backend[Latest][NextSent(d).write.key])
  <2>1. ~FaultHappens("refuse")
    BY <1>2, <1>3, <1>4 DEF Fault
  <2> QED
    BY <1>4, <1>6, <2>1 DEF Refuse, Orderly, EveryCommitChanged, Latest
<1>7. ASSUME NEW d \in Device, BreakStream(d) \/ Kill(d)
      PROVE  Orderly
  <2>1. faults'.refuse = faults.refuse
    BY <1>2, <1>7 DEF BreakStream, Kill, Fault
  <2> QED
    BY <1>4, <1>7, <2>1 DEF BreakStream, Kill, Orderly, EveryCommitChanged, Latest
<1>8. ASSUME NEW d \in Device,
             \/ \E ws \in Program : Call(d, ws)
             \/ \E ws \in Program \cup {<<>>} : Complete(d, ws)
             \/ WriteLocally(d) \/ AcknowledgeBatch(d) \/ RejectBatch(d)
             \/ \E v \in 1 .. Latest : ApplyRemoteEvent(d, v)
      PROVE  UNCHANGED <<backend, log, faults>>
  BY <1>8 DEF Call, Complete, WriteLocally, AcknowledgeBatch, RejectBatch,
              ApplyRemoteEvent
<1>9. UNCHANGED <<backend, log, faults>> => Orderly
  BY <1>4 DEF Orderly, EveryCommitChanged, Latest
<1>10. Orderly
  BY <1>5, <1>6, <1>7, <1>8, <1>9 DEF Next, Background, clientVars
<1> QED
  BY <1>5, <1>6, <1>10

(***************************************************************************)
(* In those runs the answers on the write stream fit what the device has:  *)
(* a commit has a version after those of the answers before it and of the  *)
(* results in the cache, and a refused update is of a document that        *)
(* nobody has ever made, so that the device has no result of it either.    *)
(***************************************************************************)
Fits(answers, batches, docs) ==
  \A i \in DOMAIN answers :
    IF answers[i].ok
    THEN /\ \A j \in 1 .. i - 1 : answers[j].version < answers[i].version
         /\ \A k \in Key : docs[k].state = "committed" =>
                             docs[k].version < answers[i].version
    ELSE /\ docs[batches[i].write.key].state # "committed"
         /\ \A j \in 1 .. i - 1 : batches[j].write.key # batches[i].write.key

AnswersFit == Orderly => \A d \in Device : Fits(responses[d], queue[d], cache[d])

(***************************************************************************)
(* Without answers there is nothing to fit.                                *)
(***************************************************************************)
LEMMA FitsWithout ==
  ASSUME NEW batches, NEW docs
  PROVE  Fits(<<>>, batches, docs)
BY EmptySequence DEF Fits

(***************************************************************************)
(* What is answered is a batch of the queue, for a known document.         *)
(***************************************************************************)
LEMMA KeyOfAnswered ==
  ASSUME TypeOK, NEW d \in Device, NEW i \in 1 .. Len(queue[d])
  PROVE  queue[d][i] \in Batch /\ queue[d][i].write.key \in Key
<1>1. queue[d] \in Seq(Batch)
  BY DEF TypeOK
<1>2. queue[d][i] \in Batch
  BY <1>1
<1> QED
  BY <1>2, WriteAssumption DEF Batch

(***************************************************************************)
(* Results in the cache that go or stay as they are.                       *)
(***************************************************************************)
LEMMA FitsStill ==
  ASSUME NEW answers, NEW batches, NEW docs, Fits(answers, batches, docs),
         NEW after, \A k \in Key : after[k].state = "committed" => after[k] = docs[k],
         \A i \in DOMAIN answers : batches[i].write.key \in Key
  PROVE  Fits(answers, batches, after)
BY DEF Fits

(***************************************************************************)
(* Batches that are stored come after those that are answered.             *)
(***************************************************************************)
LEMMA FitsMore ==
  ASSUME NEW answers \in Seq(Answer), NEW q \in Seq(Batch), Len(answers) <= Len(q),
         NEW docs, Fits(answers, q, docs), NEW batch \in Batch
  PROVE  Fits(answers, Append(q, batch), docs)
<1>1. \A i \in DOMAIN answers : i \in 1 .. Len(q) /\ \A j \in 1 .. i - 1 : j \in 1 .. Len(q)
  OBVIOUS
<1>2. \A i \in 1 .. Len(q) : Append(q, batch)[i] = q[i]
  OBVIOUS
<1> QED
  BY <1>1, <1>2 DEF Fits

(***************************************************************************)
(* A commit with a version after all others.                               *)
(***************************************************************************)
LEMMA FitsAccepted ==
  ASSUME NEW answers \in Seq(Answer), NEW q, NEW docs, Fits(answers, q, docs),
         NEW version \in Nat,
         \A i \in DOMAIN answers : answers[i].version < version,
         \A k \in Key : docs[k].state = "committed" => docs[k].version < version
  PROVE  Fits(Append(answers, Accepted(version)), q, docs)
<1> DEFINE more == Append(answers, Accepted(version))
           m == Len(answers)
<1>1. Accepted(version) \in Answer /\ Accepted(version).ok
      /\ Accepted(version).version = version
  BY DEF Accepted, Answer
<1>2. /\ m \in Nat /\ DOMAIN answers = 1 .. m /\ DOMAIN more = 1 .. m + 1
      /\ \A i \in 1 .. m : more[i] = answers[i]
      /\ more[m + 1] = Accepted(version)
  BY <1>1
<1> HIDE DEF more, m
<1>3. ASSUME NEW i \in DOMAIN more
      PROVE  IF more[i].ok
             THEN /\ \A j \in 1 .. i - 1 : more[j].version < more[i].version
                  /\ \A k \in Key : docs[k].state = "committed" =>
                                      docs[k].version < more[i].version
             ELSE /\ docs[q[i].write.key].state # "committed"
                  /\ \A j \in 1 .. i - 1 : q[j].write.key # q[i].write.key
  <2>1. CASE i \in 1 .. m
    <3>1. \A j \in 1 .. i - 1 : j \in 1 .. m
      BY <1>2, <2>1
    <3> QED
      BY <1>2, <2>1, <3>1 DEF Fits
  <2>2. CASE i = m + 1
    <3>1. \A j \in 1 .. i - 1 : j \in 1 .. m
      BY <1>2, <2>2
    <3> QED
      BY <1>1, <1>2, <2>2, <3>1
  <2> QED
    BY <1>2, <2>1, <2>2
<1> QED
  BY <1>3 DEF Fits, more

(***************************************************************************)
(* A refusal, of a document that no batch before it was about and of which *)
(* there is no result.                                                     *)
(***************************************************************************)
LEMMA FitsRefused ==
  ASSUME NEW answers \in Seq(Answer), NEW q, NEW docs, Fits(answers, q, docs),
         docs[q[Len(answers) + 1].write.key].state # "committed",
         \A j \in 1 .. Len(answers) : q[j].write.key # q[Len(answers) + 1].write.key
  PROVE  Fits(Append(answers, Error), q, docs)
<1> DEFINE more == Append(answers, Error)
           m == Len(answers)
<1>1. Error \in Answer /\ ~Error.ok
  BY DEF Error, Answer
<1>2. /\ m \in Nat /\ DOMAIN answers = 1 .. m /\ DOMAIN more = 1 .. m + 1
      /\ \A i \in 1 .. m : more[i] = answers[i]
      /\ more[m + 1] = Error
  BY <1>1
<1>3. /\ docs[q[m + 1].write.key].state # "committed"
      /\ \A j \in 1 .. m : q[j].write.key # q[m + 1].write.key
  OBVIOUS
<1> HIDE DEF more, m
<1>4. ASSUME NEW i \in DOMAIN more
      PROVE  IF more[i].ok
             THEN /\ \A j \in 1 .. i - 1 : more[j].version < more[i].version
                  /\ \A k \in Key : docs[k].state = "committed" =>
                                      docs[k].version < more[i].version
             ELSE /\ docs[q[i].write.key].state # "committed"
                  /\ \A j \in 1 .. i - 1 : q[j].write.key # q[i].write.key
  <2>1. CASE i \in 1 .. m
    <3>1. \A j \in 1 .. i - 1 : j \in 1 .. m
      BY <1>2, <2>1
    <3> QED
      BY <1>2, <2>1, <3>1 DEF Fits
  <2>2. CASE i = m + 1
    <3>1. \A j \in 1 .. i - 1 : j \in 1 .. m
      BY <1>2, <2>2
    <3> QED
      BY <1>1, <1>2, <1>3, <2>2, <3>1
  <2> QED
    BY <1>2, <2>1, <2>2
<1> QED
  BY <1>4 DEF Fits, more

(***************************************************************************)
(* The result of the first answer goes to the cache.                       *)
(***************************************************************************)
LEMMA FitsReceived ==
  ASSUME NEW answers \in Seq(Answer), answers # <<>>, answers[1].ok,
         NEW q \in Seq(Batch), Len(answers) <= Len(q),
         NEW docs, Fits(answers, q, docs),
         NEW after,
         \A k \in Key : after[k].state = "committed" =>
           after[k] = docs[k] \/ (k = q[1].write.key /\ after[k].version = answers[1].version),
         \A i \in 1 .. Len(q) : q[i].write.key \in Key
  PROVE  Fits(Tail(answers), Tail(q), after)
<1> DEFINE rest == Tail(answers)
           left == Tail(q)
           m == Len(answers)
<1>1. /\ m \in Nat /\ m >= 1 /\ DOMAIN answers = 1 .. m
      /\ DOMAIN rest = 1 .. m - 1
      /\ \A i \in 1 .. m - 1 : rest[i] = answers[i + 1]
  BY TailFacts
<1>2. /\ Len(q) \in Nat /\ m <= Len(q)
      /\ \A i \in 1 .. m - 1 : left[i] = q[i + 1]
  <2>1. Len(q) \in Nat /\ m <= Len(q) /\ q # <<>>
    BY <1>1, EmptySequence
  <2>2. DOMAIN left = 1 .. Len(q) - 1 /\ \A i \in DOMAIN left : left[i] = q[i + 1]
    BY <2>1, TailFacts
  <2>3. \A i \in 1 .. m - 1 : i \in 1 .. Len(q) - 1
    BY <1>1, <2>1
  <2> QED
    BY <2>1, <2>2, <2>3
<1> HIDE DEF rest, left, m
<1>3. ASSUME NEW i \in DOMAIN rest
      PROVE  IF rest[i].ok
             THEN /\ \A j \in 1 .. i - 1 : rest[j].version < rest[i].version
                  /\ \A k \in Key : after[k].state = "committed" =>
                                      after[k].version < rest[i].version
             ELSE /\ after[left[i].write.key].state # "committed"
                  /\ \A j \in 1 .. i - 1 : left[j].write.key # left[i].write.key
  <2>1. /\ i \in 1 .. m - 1 /\ i + 1 \in DOMAIN answers /\ i + 1 \in 1 .. Len(q)
        /\ 1 \in 1 .. (i + 1) - 1
        /\ \A j \in 1 .. i - 1 : j \in 1 .. m - 1 /\ j + 1 \in 1 .. (i + 1) - 1
    BY <1>1, <1>2
  <2>2. rest[i] = answers[i + 1] /\ left[i] = q[i + 1]
    BY <1>1, <1>2, <2>1
  <2>3. \A j \in 1 .. i - 1 : rest[j] = answers[j + 1] /\ left[j] = q[j + 1]
    BY <1>1, <1>2, <2>1
  <2>4. CASE answers[i + 1].ok
    <3>1. /\ \A j \in 1 .. (i + 1) - 1 : answers[j].version < answers[i + 1].version
          /\ \A k \in Key : docs[k].state = "committed" =>
                              docs[k].version < answers[i + 1].version
      BY <2>1, <2>4 DEF Fits
    <3>2. answers[1].version < answers[i + 1].version
      BY <2>1, <3>1
    <3>3. \A k \in Key : after[k].state = "committed" => after[k].version < answers[i + 1].version
      BY <3>1, <3>2
    <3>4. \A j \in 1 .. i - 1 : answers[j + 1].version < answers[i + 1].version
      BY <2>1, <3>1
    <3> QED
      BY <2>2, <2>3, <2>4, <3>3, <3>4
  <2>5. CASE ~answers[i + 1].ok
    <3>1. /\ docs[q[i + 1].write.key].state # "committed"
          /\ \A j \in 1 .. (i + 1) - 1 : q[j].write.key # q[i + 1].write.key
      BY <2>1, <2>5 DEF Fits
    <3>2. q[1].write.key # q[i + 1].write.key
      BY <2>1, <3>1
    <3>3. after[q[i + 1].write.key].state # "committed"
      BY <2>1, <3>1, <3>2
    <3>4. \A j \in 1 .. i - 1 : q[j + 1].write.key # q[i + 1].write.key
      BY <2>1, <3>1
    <3> QED
      BY <2>2, <2>3, <2>5, <3>3, <3>4
  <2> QED
    BY <2>4, <2>5
<1> QED
  BY <1>3 DEF Fits, rest, left

(***************************************************************************)
(* A document that has a commit behind it is there.                        *)
(***************************************************************************)
LEMMA CommittedExists ==
  ASSUME InductiveInvariant, ServerGrows, NEW k \in Key,
         NEW v \in 1 .. Latest, backend[v][k].version >= 1
  PROVE  Exists(backend[Latest][k])
<1>1. /\ v \in DOMAIN backend /\ Latest \in DOMAIN backend /\ v <= Latest
      /\ TypeOK /\ BackendCoherent
  BY DEF InductiveInvariant, TypeOK, Latest
<1>2. backend[v][k].version <= backend[Latest][k].version
  BY <1>1, BackendMonotone
<1>3. backend[v][k].version \in Nat /\ backend[Latest][k].version \in Nat
  BY <1>1 DEF TypeOK, IsServerDocument, IsDocument
<1> QED
  BY <1>1, <1>2, <1>3 DEF ServerGrows

(***************************************************************************)
(* A document of which a device has a result is on the server.             *)
(***************************************************************************)
LEMMA ResultExists ==
  ASSUME InductiveInvariant, ServerGrows, NEW d \in Device, NEW k \in Key,
         cache[d][k].state = "committed"
  PROVE  Exists(backend[Latest][k])
<1>1. AheadOfWatch(d, k)
  BY CommittedIsAhead
<1>2. seen[d] \in 1 .. Latest /\ Latest \in Nat
  BY DEF InductiveInvariant, TypeOK, Latest
<1>3. /\ cache[d][k].version \in 1 .. Latest
      /\ backend[cache[d][k].version][k].version >= 1
  BY <1>1, <1>2 DEF AheadOfWatch
<1> QED
  BY <1>3, CommittedExists

(***************************************************************************)
(* A result is of a version that the server has reached.                   *)
(***************************************************************************)
LEMMA ResultIsOld ==
  ASSUME InductiveInvariant, NEW d \in Device, NEW k \in Key,
         cache[d][k].state = "committed"
  PROVE  cache[d][k].version \in Nat /\ cache[d][k].version <= Latest
<1>1. AheadOfWatch(d, k)
  BY CommittedIsAhead
<1>2. seen[d] \in 1 .. Latest /\ Latest \in Nat
  BY DEF InductiveInvariant, TypeOK, Latest
<1> QED
  BY <1>1, <1>2 DEF AheadOfWatch

(***************************************************************************)
(* The steps of the client keep the answers fitting.                       *)
(***************************************************************************)
LEMMA CommitFits ==
  ASSUME InductiveInvariant, NEW d \in Device, Commit(d), Latest' = Latest + 1,
         NEW e \in Device, Fits(responses[e], queue[e], cache[e])
  PROVE  Fits(responses'[e], queue'[e], cache'[e])
<1>1. /\ Latest \in Nat
      /\ \A f \in Device \ {d} : responses'[f] = responses[f]
      /\ UNCHANGED <<queue, cache>>
  BY CommitFields
<1>2. PICK version \in Nat : /\ responses'[d] = Append(responses[d], Accepted(version))
                             /\ version = Latest + 1
  BY CommitFields
<1>3. CASE e # d
  BY <1>1, <1>3
<1>4. CASE e = d
  <2>1. responses[d] \in Seq(Answer)
    BY DEF InductiveInvariant, TypeOK
  <2>2. \A i \in DOMAIN responses[d] : responses[d][i].version < version
    <3>1. \A i \in DOMAIN responses[d] : responses[d][i].ok
      BY DEF Commit, CanSend, StreamOpen
    <3>2. \A i \in DOMAIN responses[d] : responses[d][i].version \in 1 .. Latest
      BY <3>1 DEF InductiveInvariant, AnswersTrue
    <3>3. \A n \in 1 .. Latest : n < version
      BY <1>1, <1>2
    <3> QED
      BY <3>2, <3>3
  <2>3. \A k \in Key : cache[d][k].state = "committed" => cache[d][k].version < version
    BY <1>1, <1>2, ResultIsOld
  <2>4. Fits(Append(responses[d], Accepted(version)), queue[d], cache[d])
    BY <1>4, <2>1, <2>2, <2>3, FitsAccepted
  <2> QED
    BY <1>1, <1>2, <1>4, <2>4
<1> QED
  BY <1>3, <1>4

(***************************************************************************)
(* The server refuses an update only for a document that nobody has made.  *)
(***************************************************************************)
LEMMA RefuseFits ==
  ASSUME InductiveInvariant, ServerGrows, NEW d \in Device, Refuse(d),
         ~IsValidFor(NextSent(d).write, backend[Latest][NextSent(d).write.key]),
         NEW e \in Device, Fits(responses[e], queue[e], cache[e])
  PROVE  Fits(responses'[e], queue'[e], cache'[e])
<1>0. TypeOK
  BY DEF InductiveInvariant
<1>1. /\ UNCHANGED <<queue, cache>>
      /\ responses' = [responses EXCEPT ![d] = Append(responses[d], Error)]
  BY DEF Refuse
<1>2. CASE e # d
  BY <1>0, <1>1, <1>2 DEF TypeOK
<1>3. CASE e = d
  <2> DEFINE m == Len(responses[d])
             k == queue[d][m + 1].write.key
  <2>1. responses'[d] = Append(responses[d], Error) /\ responses[d] \in Seq(Answer)
    BY <1>0, <1>1 DEF TypeOK
  <2>2. /\ m \in Nat /\ m + 1 \in 1 .. Len(queue[d])
        /\ DOMAIN responses[d] = 1 .. m
        /\ \A i \in 1 .. m : i \in 1 .. Len(queue[d])
    BY <1>0, AnswersMatchQueue DEF Refuse, CanSend
  <2>3. k \in Key
    BY <1>0, <2>2, KeyOfAnswered
  <2>4. ~Exists(backend[Latest][k])
    BY DEF NextSent, IsValidFor
  <2>5. cache[d][k].state # "committed"
    <3> HIDE DEF k
    <3> QED
      BY <2>3, <2>4, ResultExists
  <2>6. ASSUME NEW j \in 1 .. m, queue[d][j].write.key = k
        PROVE  FALSE
    <3>1. j \in DOMAIN responses[d] /\ responses[d][j].ok
      BY <2>2 DEF Refuse, CanSend, StreamOpen
    <3>2. /\ responses[d][j].version \in 1 .. Latest
          /\ backend[responses[d][j].version][k].version = responses[d][j].version
      <4> HIDE DEF k
      <4>1. /\ responses[d][j].version \in 1 .. Latest
            /\ backend[responses[d][j].version][queue[d][j].write.key].version
                 = responses[d][j].version
        BY <3>1 DEF InductiveInvariant, AnswersTrue
      <4> QED
        BY <2>6, <4>1
    <3>3. Latest \in Nat
      BY <1>0 DEF TypeOK, Latest
    <3> HIDE DEF k
    <3>4. PICK v \in 1 .. Latest : v = responses[d][j].version
      BY <3>2
    <3>5. backend[v][k].version >= 1
      BY <3>2, <3>3, <3>4
    <3> QED
      BY <2>3, <2>4, <3>5, CommittedExists
  <2>7. Fits(Append(responses[d], Error), queue[d], cache[d])
    BY <1>3, <2>1, <2>5, <2>6, FitsRefused
  <2> QED
    BY <1>1, <1>3, <2>1, <2>7
<1> QED
  BY <1>2, <1>3

(***************************************************************************)
(* The result of the first answer has a version before the others.         *)
(***************************************************************************)
LEMMA AcknowledgeFits ==
  ASSUME InductiveInvariant, NEW d \in Device, AcknowledgeBatch(d),
         NEW e \in Device, Fits(responses[e], queue[e], cache[e])
  PROVE  Fits(responses'[e], queue'[e], cache'[e])
<1>0. TypeOK
  BY DEF InductiveInvariant
<1> DEFINE write == Head(queue[d]).write
           v == Head(responses[d]).version
<1>1. /\ cache' = [cache EXCEPT ![d] = [cache[d] EXCEPT ![write.key] =
                                          ApplyBatchResult(write, cache[d][write.key], v)]]
      /\ queue' = [queue EXCEPT ![d] = Tail(queue[d])]
      /\ responses' = [responses EXCEPT ![d] = Tail(responses[d])]
      /\ responses[d] # <<>> /\ Head(responses[d]).ok
  BY DEF AcknowledgeBatch
<1>2. CASE e # d
  BY <1>0, <1>1, <1>2 DEF TypeOK
<1>3. CASE e = d
  <2>1. /\ queue'[d] = Tail(queue[d]) /\ responses'[d] = Tail(responses[d])
        /\ queue[d] \in Seq(Batch) /\ responses[d] \in Seq(Answer)
        /\ Len(responses[d]) <= Len(queue[d])
    BY <1>0, <1>1 DEF TypeOK
  <2>2. queue[d] # <<>>
    BY <1>0, <1>1, AnsweredIsQueued
  <2>3. Head(queue[d]) = queue[d][1] /\ Head(responses[d]) = responses[d][1]
    BY <1>1, <2>1, <2>2, TailFacts
  <2>4. ApplyBatchResult(write, cache[d][write.key], v) = cache[d][write.key]
        \/ ApplyBatchResult(write, cache[d][write.key], v).version = v
    BY DEF ApplyBatchResult, ApplyToRemoteDocument, Unknown
  <2>5. \A k \in Key : cache'[d][k] = IF k = write.key
                                      THEN ApplyBatchResult(write, cache[d][write.key], v)
                                      ELSE cache[d][k]
    BY <1>0, <1>1 DEF TypeOK
  <2>6. \A i \in 1 .. Len(queue[d]) : queue[d][i].write.key \in Key
    BY <1>0, KeyOfAnswered
  <2>7. \A k \in Key : cache'[d][k].state = "committed" =>
          \/ cache'[d][k] = cache[d][k]
          \/ k = queue[d][1].write.key /\ cache'[d][k].version = responses[d][1].version
    BY <2>3, <2>4, <2>5
  <2>8. responses[d][1].ok
    BY <1>1, <2>3
  <2>9. Fits(Tail(responses[d]), Tail(queue[d]), cache'[d])
    BY <1>1, <1>3, <2>1, <2>6, <2>7, <2>8, FitsReceived
  <2> QED
    BY <1>3, <2>1, <2>9
<1> QED
  BY <1>2, <1>3

(***************************************************************************)
(* A snapshot leaves results or replaces them by synced documents.         *)
(***************************************************************************)
LEMMA SnapshotFits ==
  ASSUME InductiveInvariant, NEW d \in Device, NEW v \in 1 .. Latest,
         ApplyRemoteEvent(d, v),
         NEW e \in Device, Fits(responses[e], queue[e], cache[e])
  PROVE  Fits(responses'[e], queue'[e], cache'[e])
<1>0. TypeOK
  BY DEF InductiveInvariant
<1>1. v \in DOMAIN backend
  BY <1>0 DEF TypeOK, Latest
<1>2. \A k \in Key : cache'[e][k] = cache[e][k] \/ cache'[e][k] = backend[v][k]
  BY <1>0 DEF ApplyRemoteEvent, TypeOK
<1>3. \A k \in Key : backend[v][k].state = "synced"
  BY <1>0, <1>1 DEF TypeOK, IsServerDocument
<1>4. \A k \in Key : cache'[e][k].state = "committed" => cache'[e][k] = cache[e][k]
  BY <1>2, <1>3
<1>5. \A i \in DOMAIN responses[e] : queue[e][i].write.key \in Key
  BY <1>0, AnswersMatchQueue, KeyOfAnswered
<1>6. Fits(responses[e], queue[e], cache'[e])
  BY <1>4, <1>5, FitsStill
<1>7. UNCHANGED <<queue, responses>>
  BY DEF ApplyRemoteEvent
<1> QED
  BY <1>6, <1>7

(***************************************************************************)
(* Every step of an orderly run keeps the answers fitting.                 *)
(***************************************************************************)
LEMMA AnswersGoOnFitting ==
  ASSUME InductiveInvariant, ServerGrows, AnswersFit, [Next]_clientVars
  PROVE  AnswersFit'
<1>0. TypeOK
  BY DEF InductiveInvariant
<1> SUFFICES ASSUME Orderly', NEW e \in Device
             PROVE  Fits(responses'[e], queue'[e], cache'[e])
  BY DEF AnswersFit
<1>1. /\ Orderly
      /\ \A d \in Device : Commit(d) => Latest' = Latest + 1
      /\ \A d \in Device : Refuse(d) =>
           ~IsValidFor(NextSent(d).write, backend[Latest][NextSent(d).write.key])
  BY WasOrderly
<1>2. Fits(responses[e], queue[e], cache[e])
  BY <1>1 DEF AnswersFit
<1>3. ASSUME UNCHANGED <<responses, queue, cache>>
      PROVE  Fits(responses'[e], queue'[e], cache'[e])
  BY <1>2, <1>3
<1>4. ASSUME NEW d \in Device, WriteLocally(d)
      PROVE  Fits(responses'[e], queue'[e], cache'[e])
  <2>1. /\ UNCHANGED <<responses, cache>> /\ calls[d] # <<>>
        /\ queue' = [queue EXCEPT ![d] = Append(queue[d], Head(calls[d]))]
        /\ calls[d] \in Seq(Batch) /\ queue[d] \in Seq(Batch)
        /\ responses[d] \in Seq(Answer) /\ Len(responses[d]) <= Len(queue[d])
    BY <1>0, <1>4 DEF WriteLocally, TypeOK
  <2>2. Head(calls[d]) \in Batch
    BY <2>1, TailFacts
  <2>3. CASE e # d
    BY <1>0, <1>2, <2>1, <2>3 DEF TypeOK
  <2>4. CASE e = d
    <3>1. queue'[d] = Append(queue[d], Head(calls[d]))
      BY <1>0, <2>1 DEF TypeOK
    <3>2. Fits(responses[d], Append(queue[d], Head(calls[d])), cache[d])
      BY <1>2, <2>1, <2>2, <2>4, FitsMore
    <3> QED
      BY <2>1, <2>4, <3>1, <3>2
  <2> QED
    BY <2>3, <2>4
<1>5. ASSUME NEW d \in Device, BreakStream(d) \/ RejectBatch(d) \/ Kill(d)
      PROVE  Fits(responses'[e], queue'[e], cache'[e])
  <2>1. UNCHANGED cache /\ responses'[d] = <<>>
        /\ (e # d => responses'[e] = responses[e] /\ queue'[e] = queue[e])
    BY <1>0, <1>5 DEF BreakStream, RejectBatch, Kill, TypeOK
  <2> QED
    BY <1>2, <2>1, FitsWithout
<1>6. ASSUME NEW d \in Device,
             \/ \E ws \in Program : Call(d, ws)
             \/ \E ws \in Program \cup {<<>>} : Complete(d, ws)
      PROVE  UNCHANGED <<responses, queue, cache>>
  BY <1>6 DEF Call, Complete
<1> QED
  BY <1>1, <1>2, <1>3, <1>4, <1>5, <1>6, CommitFits, RefuseFits, AcknowledgeFits,
     SnapshotFits DEF Next, Background, clientVars

-----------------------------------------------------------------------------
(***************************************************************************)
(* A document of the store is shown as it is or held back, and what has a  *)
(* pending write is marked.                                                *)
(***************************************************************************)
Shows(d, k) ==
  LET docs == sessions[d].view.docs
  IN  /\ \/ Held(d, k)
         \/ InQuery(View(d, k)) /\ k \in DOMAIN docs
              /\ docs[k].data = View(d, k).data
         \/ ~InQuery(View(d, k)) /\ k \notin DOMAIN docs
      /\ k \in DOMAIN docs /\ View(d, k).state = "local" =>
           k \in sessions[d].view.mutated

(***************************************************************************)
(* A document of the view that is cached as the result of a commit is      *)
(* marked too, unless it came with its first listener, before the server   *)
(* had the query.                                                          *)
(***************************************************************************)
Marks(d, k) ==
  LET s == sessions[d]
  IN  k \in DOMAIN s.view.docs /\ cache[d][k].state = "committed" =>
        \/ k \in s.view.mutated
        \/ s.view.sync # "synced" /\ cache[d][k].version <= s.asked

(***************************************************************************)
(* Whether a query matches a document is not a matter of its times: the    *)
(* queries of the app filter chats by their users and sort by fields that  *)
(* need only be there.  Under such queries, in orderly runs, the marks     *)
(* say which documents are not the server's.                               *)
(***************************************************************************)
MatchesFields ==
  \A data, other : SameFields(data, other) => (Matches(data) <=> Matches(other))

MayMark == MatchesFields /\ Orderly

(***************************************************************************)
(* What the listeners' view owes to the local store.                       *)
(***************************************************************************)
StoreIsShown ==
  \A d \in Device : Listening(sessions[d]) =>
    \A k \in Key : Shows(d, k) /\ (MayMark => Marks(d, k))

(***************************************************************************)
(* A stream on which the query is current has brought all that the server  *)
(* had when it got the query.                                              *)
(***************************************************************************)
CurrentIsSeen ==
  \A d \in Device : sessions[d].stream = "current" =>
    Listening(sessions[d]) /\ seen[d] >= sessions[d].asked

-----------------------------------------------------------------------------
(***************************************************************************)
(* A result of a commit is ahead of the watch stream after a step as well. *)
(***************************************************************************)
LEMMA AheadAfter ==
  ASSUME InductiveInvariant', NEW d \in Device, NEW k \in Key,
         cache'[d][k].state = "committed"
  PROVE  AheadOfWatch(d, k)'
<1>1. seen'[d] \in DOMAIN backend'
  BY DEF InductiveInvariant, TypeOK, Latest
<1>2. backend'[seen'[d]][k].state = "synced"
  BY <1>1 DEF InductiveInvariant, TypeOK, IsServerDocument
<1> QED
  BY <1>2 DEF InductiveInvariant, CacheFaithful

(***************************************************************************)
(* What a device shows has a pending write on top or is the cached         *)
(* document.                                                               *)
(***************************************************************************)
LEMMA ViewIsLocal ==
  ASSUME TypeOK, NEW d \in Device, NEW k
  PROVE  View(d, k).state = "local" \/ View(d, k) = cache[d][k]
<1>1. Len(queue[d]) \in Nat
  BY AnswersMatchQueue
<1> QED
  BY <1>1, ViewIsLocalOrCached DEF View

(***************************************************************************)
(* So it is after a step.                                                  *)
(***************************************************************************)
LEMMA ViewIsLocalAfter ==
  ASSUME TypeOK', NEW d \in Device, NEW k
  PROVE  View(d, k)'.state = "local" \/ View(d, k)' = cache'[d][k]
<1>1. queue'[d] \in Seq(Batch)
  BY DEF TypeOK
<1>2. Len(queue'[d]) \in Nat
  BY <1>1
<1>3. \A doc, q : Len(q) \in Nat =>
        GetDocument(doc, q, k).state = "local" \/ GetDocument(doc, q, k) = doc
  BY ViewIsLocalOrCached
<1> QED
  BY <1>2, <1>3 DEF View

(***************************************************************************)
(* A document of which neither the store nor the view changes.             *)
(***************************************************************************)
SameAt(k, view, old) ==
  /\ k \in DOMAIN view.docs <=> k \in DOMAIN old.docs
  /\ k \in DOMAIN view.docs => view.docs[k] = old.docs[k]
  /\ k \in view.mutated <=> k \in old.mutated

(***************************************************************************)
(* It is shown as before.                                                  *)
(***************************************************************************)
LEMMA StaysShown ==
  ASSUME InductiveInvariant, [Next]_clientVars, NEW d \in Device, NEW k \in Key,
         Shows(d, k), SameAt(k, sessions'[d].view, sessions[d].view),
         View(d, k)' = View(d, k), cache'[d][k] = cache[d][k]
  PROVE  Shows(d, k)'
<1>1. AheadOfWatch(d, k) => AheadOfWatch(d, k)'
  BY StaysAhead
<1>2. Held(d, k) => Held(d, k)'
  BY <1>1 DEF Held, SameAt
<1> QED
  BY <1>2 DEF Shows, SameAt, InQuery, Exists

(***************************************************************************)
(* A document that the view has just taken from the store.                 *)
(***************************************************************************)
LEMMA TakenIsShown ==
  ASSUME InductiveInvariant', NEW d \in Device, NEW k \in Key,
         NEW old, MarksPending(old), NEW docs, k \in DOMAIN docs,
         docs[k] = View(d, k)', NEW current,
         sessions'[d].view =
           ApplyChanges(old, docs, ComputeDocumentChanges(old, docs), current)
  PROVE  /\ Shows(d, k)'
         /\ k \in DOMAIN sessions'[d].view.docs => InQuery(docs[k])
         /\ k \in old.mutated /\ docs[k].state = "committed"
              /\ k \in DOMAIN sessions'[d].view.docs =>
                k \in sessions'[d].view.mutated
<1> DEFINE new == ApplyChanges(old, docs, ComputeDocumentChanges(old, docs), current)
<1>1. /\ \/ InQuery(docs[k]) /\ k \in DOMAIN new.docs
              /\ new.docs[k].data = docs[k].data
         \/ ~InQuery(docs[k]) /\ k \notin DOMAIN new.docs
         \/ k \in new.mutated /\ docs[k].state = "committed"
      /\ k \in DOMAIN new.docs /\ docs[k].state = "local" => k \in new.mutated
      /\ k \in old.mutated /\ docs[k].state = "committed" /\ k \in DOMAIN new.docs =>
           k \in new.mutated
      /\ k \in DOMAIN new.docs => InQuery(docs[k])
  BY EmittedKey
<1>2. sessions'[d].view = new
  OBVIOUS
<1> HIDE DEF new
<1>3. docs[k].state = "committed" => AheadOfWatch(d, k)'
  <2>1. TypeOK'
    BY DEF InductiveInvariant
  <2>2. View(d, k)'.state = "local" \/ View(d, k)' = cache'[d][k]
    BY <2>1, ViewIsLocalAfter
  <2> QED
    BY <2>2, AheadAfter
<1>4. k \in new.mutated /\ docs[k].state = "committed" => Held(d, k)'
  BY <1>2, <1>3 DEF Held
<1>5. Shows(d, k)'
  BY <1>1, <1>2, <1>4 DEF Shows, InQuery, Exists
<1> QED
  BY <1>1, <1>2, <1>5

(***************************************************************************)
(* A snapshot is about the documents it brings.                            *)
(***************************************************************************)
LEMMA OthersStaySame ==
  ASSUME NEW d, NEW k, NEW old, NEW docs, k \notin DOMAIN docs, NEW current,
         NEW new, new = ApplyChanges(old, docs, ComputeDocumentChanges(old, docs), current)
  PROVE  SameAt(k, new, old)
BY EmittedOther DEF SameAt

(***************************************************************************)
(* The result of a commit stays marked.                                    *)
(***************************************************************************)
LEMMA StaysMarked ==
  ASSUME NEW d, NEW k, Marks(d, k), SameAt(k, sessions'[d].view, sessions[d].view),
         cache'[d][k] = cache[d][k],
         sessions'[d].view.sync \in {sessions[d].view.sync, "local"},
         sessions'[d].asked = sessions[d].asked
  PROVE  Marks(d, k)'
BY DEF Marks, SameAt

-----------------------------------------------------------------------------
(***************************************************************************)
(* A device and session that a step is not about.                          *)
(***************************************************************************)
LEMMA SameSessionShows ==
  ASSUME InductiveInvariant, ServerGrows, [Next]_clientVars, StoreIsShown,
         NEW e \in Device, sessions'[e] = sessions[e],
         cache'[e] = cache[e], queue'[e] = queue[e], Listening(sessions'[e]),
         NEW k \in Key
  PROVE  Shows(e, k)' /\ (MayMark' => Marks(e, k)')
<1>1. /\ Listening(sessions[e])
      /\ SameAt(k, sessions'[e].view, sessions[e].view)
      /\ cache'[e][k] = cache[e][k]
  BY DEF Listening, SameAt
<1>2. Shows(e, k) /\ (MayMark => Marks(e, k))
  BY <1>1 DEF StoreIsShown
<1>3. View(e, k)' = View(e, k)
  BY <1>1, SameView
<1>4. Shows(e, k)'
  BY <1>1, <1>2, <1>3, StaysShown
<1>5. MayMark' => MayMark
  BY WasOrderly DEF MayMark
<1>6. Marks(e, k) => Marks(e, k)'
  BY <1>1, StaysMarked
<1> QED
  BY <1>2, <1>4, <1>5, <1>6

(***************************************************************************)
(* A session that was told nothing of documents.                           *)
(***************************************************************************)
LEMMA QuietShows ==
  ASSUME InductiveInvariant, ServerGrows, UNCHANGED clientVars, StoreIsShown,
         NEW d \in Device, QuietSession(sessions'[d], sessions[d]),
         sessions[d].asked \in Nat, Listening(sessions'[d]), NEW k \in Key
  PROVE  Shows(d, k)' /\ (MayMark' => Marks(d, k)')
<1>1. /\ Listening(sessions[d])
      /\ SameAt(k, sessions'[d].view, sessions[d].view)
      /\ sessions'[d].view.sync \in {sessions[d].view.sync, "local"}
      /\ sessions'[d].asked \in {sessions[d].asked, Latest}
      /\ cache'[d][k] = cache[d][k] /\ queue'[d] = queue[d]
  BY DEF QuietSession, MayBeUnsynced, SameDocuments, SameAt, clientVars
<1>2. Shows(d, k) /\ (MayMark => Marks(d, k))
  BY <1>1 DEF StoreIsShown
<1>3. View(d, k)' = View(d, k)
  BY <1>1, SameView
<1>4. Shows(d, k)'
  BY <1>1, <1>2, <1>3, StaysShown
<1>5. MayMark' => MayMark
  BY WasOrderly DEF MayMark
<1>6. cache[d][k].state = "committed" =>
        cache[d][k].version \in Nat /\ cache[d][k].version <= Latest
  BY ResultIsOld
<1>7. Latest \in Nat
  BY DEF InductiveInvariant, TypeOK, Latest
<1>8. Marks(d, k) => Marks(d, k)'
  BY <1>1, <1>6, <1>7 DEF Marks, SameAt
<1> QED
  BY <1>2, <1>4, <1>5, <1>8

(***************************************************************************)
(* The first listener is shown all of the store.                           *)
(***************************************************************************)
LEMMA FirstShows ==
  ASSUME InductiveInvariant, UNCHANGED clientVars, NEW d \in Device,
         sessions'[d].asked = Latest,
         sessions'[d].view =
           ApplyChanges(NewView, LocalDocuments(d),
             ComputeDocumentChanges(NewView, LocalDocuments(d)), FALSE),
         NEW k \in Key
  PROVE  Shows(d, k)' /\ Marks(d, k)'
<1>1. PICK current \in BOOLEAN : current = FALSE
  OBVIOUS
<1>2. PICK docs : docs = LocalDocuments(d)
  OBVIOUS
<1>3. PICK old : old = NewView
  OBVIOUS
<1>4. sessions'[d].view = ApplyChanges(old, docs, ComputeDocumentChanges(old, docs), current)
  BY <1>1, <1>2, <1>3
<1>5. k \in DOMAIN docs /\ docs[k] = View(d, k)
  BY <1>2 DEF LocalDocuments
<1>6. cache'[d][k] = cache[d][k] /\ queue'[d] = queue[d] /\ View(d, k)' = View(d, k)
  BY SameView DEF clientVars
<1>7. InductiveInvariant'
  BY NextInvariant
<1>8. MarksPending(old)
  BY <1>3, NewViewFields DEF MarksPending
<1>9. Shows(d, k)'
  BY <1>4, <1>5, <1>6, <1>7, <1>8, TakenIsShown
<1>10. sessions'[d].view.sync # "synced"
  <2>1. PICK changes : changes = ComputeDocumentChanges(old, docs)
    OBVIOUS
  <2>2. ApplyChanges(old, docs, changes, current).sync = IF current THEN "synced" ELSE "local"
    BY ViewIsShaped
  <2>3. sessions'[d].view = ApplyChanges(old, docs, changes, current)
    BY <1>4, <2>1
  <2> QED
    BY <1>1, <2>2, <2>3
<1>11. cache[d][k].state = "committed" => cache[d][k].version <= Latest
  BY ResultIsOld
<1>12. Marks(d, k)'
  BY <1>6, <1>10, <1>11 DEF Marks
<1> QED
  BY <1>9, <1>12

(***************************************************************************)
(* A step that changes the local store at one document.                    *)
(***************************************************************************)
LEMMA StoreSync ==
  ASSUME GoodSessions, NEW d \in Device, NEW key \in Key,
         LocalStoreChanges(d, key), Listening(sessions'[d])
  PROVE  \E docs, current :
           /\ DOMAIN docs = {key} /\ docs[key] = View(d, key)'
           /\ sessions'[d].view =
                ApplyChanges(sessions[d].view, docs,
                             ComputeDocumentChanges(sessions[d].view, docs), current)
           /\ MarksPending(sessions[d].view)
           /\ Listening(sessions[d])
           /\ sessions'[d].view.sync \in {sessions[d].view.sync, "local"}
           /\ sessions'[d].asked = sessions[d].asked
<1> DEFINE s == sessions[d]
<1>1. /\ SameConnection(sessions'[d], s)
      /\ DOMAIN sessions'[d].listeners = DOMAIN s.listeners
      /\ Listening(s) =>
           \E docs :
             /\ docs = NewLocalDocuments(d, {key})
             /\ sessions'[d].view =
                  ApplyChanges(s.view, docs, ComputeDocumentChanges(s.view, docs),
                               s.view.current)
  BY StoreIsGood
<1>2. Listening(s) /\ sessions'[d].asked = s.asked
  BY <1>1 DEF Listening, SameConnection
<1>3. PICK docs :
        /\ docs = NewLocalDocuments(d, {key})
        /\ sessions'[d].view =
             ApplyChanges(s.view, docs, ComputeDocumentChanges(s.view, docs),
                          s.view.current)
  BY <1>1, <1>2
<1>4. DOMAIN docs = {key} /\ docs[key] = View(d, key)'
  BY <1>3 DEF NewLocalDocuments
<1>5. AddsUp(s)
  BY DEF GoodSessions, Good, Told
<1>6. PICK current : current = s.view.current
  OBVIOUS
<1>7. PICK changes : changes = ComputeDocumentChanges(s.view, docs)
  OBVIOUS
<1>8. ApplyChanges(s.view, docs, changes, current).sync
        = IF current THEN "synced" ELSE "local"
  BY ViewIsShaped
<1>9. sessions'[d].view.sync \in {s.view.sync, "local"}
  BY <1>3, <1>5, <1>6, <1>7, <1>8 DEF AddsUp
<1> QED
  BY <1>2, <1>3, <1>4, <1>5, <1>9 DEF AddsUp

(***************************************************************************)
(* The other documents are shown as before.                                *)
(***************************************************************************)
LEMMA StoreShowsOther ==
  ASSUME InductiveInvariant, ServerGrows, GoodSessions, StoreIsShown,
         [Next]_clientVars, NEW d \in Device, NEW key \in Key,
         LocalStoreChanges(d, key), Listening(sessions'[d]),
         NEW k \in Key, k # key, View(d, k)' = View(d, k),
         cache'[d][k] = cache[d][k]
  PROVE  Shows(d, k)' /\ (MayMark' => Marks(d, k)')
<1>1. PICK docs, current :
        /\ DOMAIN docs = {key}
        /\ sessions'[d].view =
             ApplyChanges(sessions[d].view, docs,
                          ComputeDocumentChanges(sessions[d].view, docs), current)
        /\ Listening(sessions[d])
        /\ sessions'[d].view.sync \in {sessions[d].view.sync, "local"}
        /\ sessions'[d].asked = sessions[d].asked
  BY StoreSync
<1>2. SameAt(k, sessions'[d].view, sessions[d].view)
  BY <1>1, OthersStaySame
<1>3. Shows(d, k) /\ (MayMark => Marks(d, k))
  BY <1>1 DEF StoreIsShown
<1>4. Shows(d, k)'
  BY <1>2, <1>3, StaysShown
<1>5. MayMark' => MayMark
  BY WasOrderly DEF MayMark
<1>6. Marks(d, k) => Marks(d, k)'
  BY <1>1, <1>2, StaysMarked
<1> QED
  BY <1>3, <1>4, <1>5, <1>6

(***************************************************************************)
(* The document that changed is shown as the store has it now, and its     *)
(* mark stays if it is the result of a commit, or is put if it has a       *)
(* pending write.                                                          *)
(***************************************************************************)
LEMMA StoreShowsKey ==
  ASSUME InductiveInvariant', GoodSessions, NEW d \in Device, NEW key \in Key,
         LocalStoreChanges(d, key), Listening(sessions'[d])
  PROVE  LET new == sessions'[d].view
             old == sessions[d].view
         IN  /\ Shows(d, key)'
             /\ Listening(sessions[d])
             /\ new.sync \in {old.sync, "local"}
             /\ sessions'[d].asked = sessions[d].asked
             /\ key \in old.mutated => key \in DOMAIN old.docs
             /\ key \in DOMAIN new.docs =>
                  /\ InQuery(View(d, key)')
                  /\ View(d, key)'.state = "local" => key \in new.mutated
                  /\ key \in old.mutated /\ View(d, key)'.state = "committed" =>
                       key \in new.mutated
<1>1. PICK docs, current :
        /\ DOMAIN docs = {key} /\ docs[key] = View(d, key)'
        /\ sessions'[d].view =
             ApplyChanges(sessions[d].view, docs,
                          ComputeDocumentChanges(sessions[d].view, docs), current)
        /\ MarksPending(sessions[d].view)
        /\ Listening(sessions[d])
        /\ sessions'[d].view.sync \in {sessions[d].view.sync, "local"}
        /\ sessions'[d].asked = sessions[d].asked
  BY StoreSync
<1>2. PICK old : old = sessions[d].view
  OBVIOUS
<1>3. /\ MarksPending(old) /\ key \in DOMAIN docs
      /\ sessions'[d].view =
           ApplyChanges(old, docs, ComputeDocumentChanges(old, docs), current)
  BY <1>1, <1>2
<1>4. /\ Shows(d, key)'
      /\ key \in DOMAIN sessions'[d].view.docs => InQuery(docs[key])
      /\ key \in old.mutated /\ docs[key].state = "committed"
           /\ key \in DOMAIN sessions'[d].view.docs =>
             key \in sessions'[d].view.mutated
  BY <1>1, <1>3, TakenIsShown
<1>5. key \in old.mutated => key \in DOMAIN old.docs
  BY <1>3 DEF MarksPending
<1>6. key \in DOMAIN sessions'[d].view.docs /\ View(d, key)'.state = "local" =>
        key \in sessions'[d].view.mutated
  BY <1>4 DEF Shows
<1> QED
  BY <1>1, <1>2, <1>4, <1>5, <1>6

-----------------------------------------------------------------------------
(***************************************************************************)
(* A write is stored: if it does not apply, the document is what it was.   *)
(***************************************************************************)
LEMMA WriteShows ==
  ASSUME InductiveInvariant, ServerGrows, GoodSessions, StoreIsShown,
         NEW d \in Device, StoreWrite(d), [Next]_clientVars,
         Listening(sessions'[d]), NEW k \in Key
  PROVE  Shows(d, k)' /\ (MayMark' => Marks(d, k)')
<1> DEFINE key == Head(calls[d]).write.key
           write == Head(calls[d]).write
           n == Head(calls[d]).n
<1>1. TypeOK /\ InductiveInvariant'
  BY NextInvariant DEF InductiveInvariant
<1>2. key \in Key /\ LocalStoreChanges(d, key) /\ WriteLocally(d)
  BY <1>1, WritesAreOfKeys DEF StoreWrite, WriteLocally
<1>3. cache'[d][k] = cache[d][k]
  BY <1>2 DEF WriteLocally
<1>4. View(d, k)' = IF key = k THEN ApplyToLocalView(write, View(d, k), n) ELSE View(d, k)
  BY <1>1, <1>2, StoredView DEF ApplyToLocalDocument
<1> HIDE DEF key, write, n
<1>5. CASE k # key
  <2>1. View(d, k)' = View(d, k)
    BY <1>4, <1>5
  <2> QED
    BY <1>2, <1>3, <1>5, <2>1, StoreShowsOther
<1>6. CASE k = key
  <2>1. View(d, k)'.state = "local" \/ View(d, k)' = View(d, k)
    BY <1>4, <1>6 DEF ApplyToLocalView
  <2>2. LET new == sessions'[d].view
            old == sessions[d].view
        IN  /\ Shows(d, k)'
            /\ Listening(sessions[d])
            /\ new.sync \in {old.sync, "local"}
            /\ sessions'[d].asked = sessions[d].asked
            /\ k \in old.mutated => k \in DOMAIN old.docs
            /\ k \in DOMAIN new.docs =>
                 /\ InQuery(View(d, k)')
                 /\ View(d, k)'.state = "local" => k \in new.mutated
                 /\ k \in old.mutated /\ View(d, k)'.state = "committed" =>
                      k \in new.mutated
    BY <1>1, <1>2, <1>6, StoreShowsKey
  <2>3. Shows(d, k) /\ (MayMark => Marks(d, k))
    BY <2>2 DEF StoreIsShown
  <2>4. MayMark' => MayMark
    BY WasOrderly DEF MayMark
  <2>5. TypeOK'
    BY <1>1 DEF InductiveInvariant
  <2>6. View(d, k)'.state = "local" \/ View(d, k)' = cache'[d][k]
    BY <2>5, ViewIsLocalAfter
  <2>7. Marks(d, k) => Marks(d, k)'
    <3> SUFFICES ASSUME Marks(d, k), k \in DOMAIN sessions'[d].view.docs,
                        cache'[d][k].state = "committed"
                 PROVE  \/ k \in sessions'[d].view.mutated
                        \/ /\ sessions'[d].view.sync # "synced"
                           /\ cache'[d][k].version <= sessions'[d].asked
      BY DEF Marks
    <3>1. CASE View(d, k)'.state = "local"
      BY <2>2, <3>1
    <3>2. CASE View(d, k)'.state # "local"
      <4>1. View(d, k)' = View(d, k) /\ View(d, k)'.state = "committed"
        BY <2>1, <2>6, <3>2
      <4>2. InQuery(View(d, k))
        BY <2>2, <4>1
      <4>3. k \in DOMAIN sessions[d].view.docs
        BY <2>2, <2>3, <4>2 DEF Shows, Held
      <4>4. \/ k \in sessions[d].view.mutated
            \/ sessions[d].view.sync # "synced" /\ cache[d][k].version <= sessions[d].asked
        BY <1>3, <4>3 DEF Marks
      <4> QED
        BY <1>3, <2>2, <4>1, <4>4
    <3> QED
      BY <3>1, <3>2
  <2> QED
    BY <2>2, <2>3, <2>4, <2>7
<1> QED
  BY <1>5, <1>6

(***************************************************************************)
(* What is shown of the document of the first batch, if not a pending      *)
(* write, is the cached document, to which the batch does not apply.       *)
(***************************************************************************)
LEMMA NotPending ==
  ASSUME TypeOK, NEW d \in Device, queue[d] # <<>>,
         NEW k, k = Head(queue[d]).write.key, View(d, k).state # "local"
  PROVE  /\ View(d, k) = cache[d][k]
         /\ ~IsValidFor(Head(queue[d]).write, cache[d][k])
<1>1. queue[d] \in Seq(Batch)
  BY DEF TypeOK
<1>2. Tail(queue[d]) \in Seq(Batch) /\ Head(queue[d]) \in Batch
  BY <1>1
<1>3. Len(Tail(queue[d])) \in Nat
  BY <1>2
<1>4. View(d, k) = cache[d][k]
  BY ViewIsLocal
<1>5. PICK doc : doc = ApplyToLocalDocument(Head(queue[d]), k, cache[d][k])
  OBVIOUS
<1>6. View(d, k) = GetDocument(doc, Tail(queue[d]), k)
  BY <1>1, <1>5, ViewOfTail DEF View
<1>7. doc.state # "local"
  BY <1>3, <1>6, ViewIsLocalOrCached
<1>8. ~IsValidFor(Head(queue[d]).write, cache[d][k])
  BY <1>5, <1>7 DEF ApplyToLocalDocument, ApplyToLocalView
<1> QED
  BY <1>4, <1>8

(***************************************************************************)
(* If a query does not look at times, a document that its write has taken  *)
(* out of the query does not come back with the acknowledgement.           *)
(***************************************************************************)
LEMMA StaysOut ==
  ASSUME TypeOK, AbsentIsEmpty, MatchesFields, NEW d \in Device, NEW k \in Key,
         AcknowledgeBatch(d), cache'[d][k] # cache[d][k], InQuery(View(d, k)')
  PROVE  InQuery(View(d, k))
<1>1. SameButTimes(View(d, k), View(d, k)')
  BY AcknowledgeShowsSame
<1>2. PICK doc, other : doc = View(d, k) /\ other = View(d, k)'
  OBVIOUS
<1>3. SameButTimes(doc, other) /\ InQuery(other)
  BY <1>1, <1>2
<1>4. InQuery(doc)
  BY <1>3 DEF SameButTimes, InQuery, MatchesFields
<1> QED
  BY <1>2, <1>4

(***************************************************************************)
(* In an orderly run the result of a commit goes to the cache.             *)
(***************************************************************************)
LEMMA ResultIsTaken ==
  ASSUME InductiveInvariant, AnswersFit, Orderly, NEW d \in Device,
         AcknowledgeBatch(d), NEW k \in Key, k = Head(queue[d]).write.key,
         cache'[d][k].state = "committed"
  PROVE  cache'[d][k] # cache[d][k]
<1> DEFINE answer == Head(responses[d])
           write == Head(queue[d]).write
<1>1. TypeOK
  BY DEF InductiveInvariant
<1>2. /\ responses[d] \in Seq(Answer) /\ responses[d] # <<>>
      /\ responses[d][1] = answer /\ 1 \in DOMAIN responses[d]
      /\ answer.version \in Nat /\ answer.ok
  <2>1. responses[d] \in Seq(Answer) /\ responses[d] # <<>> /\ answer.ok
    BY <1>1 DEF TypeOK, AcknowledgeBatch
  <2>2. answer \in Answer /\ responses[d][1] = answer /\ 1 \in DOMAIN responses[d]
    BY <2>1, TailFacts
  <2> QED
    BY <2>1, <2>2 DEF Answer
<1>3. cache'[d][k] = ApplyBatchResult(write, cache[d][k], answer.version)
  BY <1>1 DEF AcknowledgeBatch, TypeOK
<1>4. Fits(responses[d], queue[d], cache[d])
  BY DEF AnswersFit
<1>5. cache[d][k].state = "committed" => cache[d][k].version < answer.version
  BY <1>2, <1>4 DEF Fits
<1>6. cache'[d][k] = cache[d][k] =>
        cache'[d][k] = ApplyToRemoteDocument(write, cache[d][k], answer.version)
  BY <1>3, <1>5 DEF ApplyBatchResult
<1>7. ApplyToRemoteDocument(write, cache[d][k], answer.version).version = answer.version
  BY <1>2, ApplyToRemoteDocumentType
<1>8. cache[d][k].version \in Nat
  BY <1>1 DEF TypeOK, IsDocument
<1> HIDE DEF answer, write
<1> QED
  BY <1>2, <1>5, <1>6, <1>7, <1>8

(***************************************************************************)
(* An acknowledgement: the result is marked, since the write was.          *)
(***************************************************************************)
LEMMA AcknowledgeShows ==
  ASSUME InductiveInvariant, ServerGrows, AnswersFit, AbsentIsEmpty, GoodSessions,
         StoreIsShown, NEW d \in Device, HandleSuccessfulWrite(d),
         [Next]_clientVars, Listening(sessions'[d]), NEW k \in Key
  PROVE  Shows(d, k)' /\ (MayMark' => Marks(d, k)')
<1> DEFINE key == Head(queue[d]).write.key
<1>1. TypeOK /\ InductiveInvariant'
  BY NextInvariant DEF InductiveInvariant
<1>2. AcknowledgeBatch(d) /\ LocalStoreChanges(d, key)
  BY DEF HandleSuccessfulWrite
<1>3. queue[d] # <<>> /\ key \in Key
  BY <1>1, <1>2, WritesAreOfKeys, AnsweredIsQueued DEF AcknowledgeBatch
<1>4. CASE k # key
  <2>1. View(d, k)' = View(d, k) /\ cache'[d][k] = cache[d][k]
    BY <1>1, <1>2, <1>4, ViewOfOther, CacheOfOther
  <2> QED
    BY <1>2, <1>3, <1>4, <2>1, StoreShowsOther
<1>5. CASE k = key
  <2>1. k = Head(queue[d]).write.key
    BY <1>5
  <2> HIDE DEF key
  <2>2. LET new == sessions'[d].view
            old == sessions[d].view
        IN  /\ Shows(d, k)'
            /\ Listening(sessions[d])
            /\ new.sync \in {old.sync, "local"}
            /\ sessions'[d].asked = sessions[d].asked
            /\ k \in old.mutated => k \in DOMAIN old.docs
            /\ k \in DOMAIN new.docs =>
                 /\ InQuery(View(d, k)')
                 /\ View(d, k)'.state = "local" => k \in new.mutated
                 /\ k \in old.mutated /\ View(d, k)'.state = "committed" =>
                      k \in new.mutated
    BY <1>1, <1>2, <1>5, StoreShowsKey
  <2>3. Shows(d, k)
    BY <2>2 DEF StoreIsShown
  <2>4. MayMark' => MayMark
    BY WasOrderly DEF MayMark
  <2>5. TypeOK'
    BY <1>1 DEF InductiveInvariant
  <2>6. View(d, k)'.state = "local" \/ View(d, k)' = cache'[d][k]
    BY <2>5, ViewIsLocalAfter
  <2>7. ASSUME MayMark, k \in DOMAIN sessions'[d].view.docs,
               cache'[d][k].state = "committed", View(d, k)'.state # "local",
               k \notin sessions[d].view.mutated
        PROVE  FALSE
    <3>1. InQuery(View(d, k)')
      BY <2>2, <2>7
    <3>2. cache'[d][k] # cache[d][k]
      BY <1>2, <2>1, <2>7, ResultIsTaken DEF MayMark
    <3>3. InQuery(View(d, k))
      BY <1>1, <1>2, <2>7, <3>1, <3>2, StaysOut DEF MayMark
    <3>4. View(d, k).state # "local"
      BY <2>3, <2>7, <3>3 DEF Shows, Held
    <3>5. View(d, k) = cache[d][k] /\ ~IsValidFor(Head(queue[d]).write, cache[d][k])
      BY <1>1, <1>3, <2>1, <3>4, NotPending
    <3> QED
      BY <3>3, <3>5 DEF InQuery, IsValidFor
  <2>8. MayMark => Marks(d, k)'
    <3> SUFFICES ASSUME MayMark, k \in DOMAIN sessions'[d].view.docs,
                        cache'[d][k].state = "committed"
                 PROVE  k \in sessions'[d].view.mutated
      BY DEF Marks
    <3>1. CASE View(d, k)'.state = "local"
      BY <2>2, <3>1
    <3>2. CASE View(d, k)'.state # "local"
      BY <2>2, <2>6, <2>7, <3>2
    <3> QED
      BY <3>1, <3>2
  <2> QED
    BY <2>2, <2>4, <2>8
<1> QED
  BY <1>4, <1>5

(***************************************************************************)
(* A refused write: in an orderly run its document has no result.          *)
(***************************************************************************)
LEMMA RejectShows ==
  ASSUME InductiveInvariant, ServerGrows, AnswersFit, GoodSessions,
         StoreIsShown, NEW d \in Device, HandleRejectedWrite(d),
         [Next]_clientVars, Listening(sessions'[d]), NEW k \in Key
  PROVE  Shows(d, k)' /\ (MayMark' => Marks(d, k)')
<1> DEFINE key == Head(queue[d]).write.key
<1>1. TypeOK /\ InductiveInvariant'
  BY NextInvariant DEF InductiveInvariant
<1>2. RejectBatch(d) /\ LocalStoreChanges(d, key)
  BY DEF HandleRejectedWrite
<1>3. queue[d] # <<>> /\ key \in Key
  BY <1>1, <1>2, WritesAreOfKeys, AnsweredIsQueued DEF RejectBatch
<1>4. cache'[d][k] = cache[d][k]
  BY <1>2 DEF RejectBatch
<1>5. CASE k # key
  <2>1. View(d, k)' = View(d, k)
    BY <1>1, <1>2, <1>5, ViewOfOther
  <2> QED
    BY <1>2, <1>3, <1>4, <1>5, <2>1, StoreShowsOther
<1>6. CASE k = key
  <2>1. Shows(d, k)'
    BY <1>1, <1>2, <1>6, StoreShowsKey
  <2>2. MayMark' => Orderly
    BY WasOrderly DEF MayMark
  <2>3. Orderly => cache[d][k].state # "committed"
    <3> SUFFICES ASSUME Orderly PROVE cache[d][k].state # "committed"
      OBVIOUS
    <3>1. Fits(responses[d], queue[d], cache[d])
      BY DEF AnswersFit
    <3>2. /\ 1 \in DOMAIN responses[d] /\ ~responses[d][1].ok
          /\ queue[d][1] = Head(queue[d])
      BY <1>1, <1>2, <1>3 DEF TypeOK, RejectBatch
    <3> QED
      BY <1>6, <3>1, <3>2 DEF Fits
  <2>4. Orderly => Marks(d, k)'
    BY <1>4, <2>3 DEF Marks
  <2> QED
    BY <2>1, <2>2, <2>4
<1> QED
  BY <1>5, <1>6

(***************************************************************************)
(* A snapshot replaces the documents that changed by the server's, which   *)
(* carry no mark.  When it puts the view in sync it brings all that the    *)
(* server had as it got the query: no result of a commit before that is    *)
(* left in the cache.                                                      *)
(***************************************************************************)
LEMMA SnapshotShows ==
  ASSUME InductiveInvariant, ServerGrows, GoodSessions, StoreIsShown, CurrentIsSeen,
         NEW d \in Device, NEW v \in 1 .. Latest, WatchSnapshot(d, v),
         [Next]_clientVars, NEW k \in Key
  PROVE  Shows(d, k)' /\ (MayMark' => Marks(d, k)')
<1>1. TypeOK /\ InductiveInvariant' /\ Listening(sessions[d]) /\ ApplyRemoteEvent(d, v)
  BY NextInvariant DEF InductiveInvariant, WatchSnapshot
<1>2. PICK current \in {sessions[d].stream = "current", v >= sessions[d].asked} :
        /\ sessions'[d].asked = sessions[d].asked
        /\ \E docs :
             /\ docs = NewLocalDocuments(d, {i \in Key : cache'[d][i] # cache[d][i]})
             /\ sessions'[d].view =
                  ApplyChanges(sessions[d].view, docs,
                               ComputeDocumentChanges(sessions[d].view, docs), current)
  BY SnapshotIsGood
<1>3. PICK docs :
        /\ docs = NewLocalDocuments(d, {i \in Key : cache'[d][i] # cache[d][i]})
        /\ sessions'[d].view =
             ApplyChanges(sessions[d].view, docs,
                          ComputeDocumentChanges(sessions[d].view, docs), current)
  BY <1>2
<1>4. MarksPending(sessions[d].view) /\ sessions[d].asked \in Nat
  BY DEF GoodSessions, Good, Told, AddsUp, OfQuery
<1>5. Shows(d, k) /\ (MayMark => Marks(d, k))
  BY <1>1 DEF StoreIsShown
<1>6. MayMark' => MayMark
  BY WasOrderly DEF MayMark
<1>7. PICK old : old = sessions[d].view
  OBVIOUS
<1>8. sessions'[d].view =
        ApplyChanges(old, docs, ComputeDocumentChanges(old, docs), current)
  BY <1>3, <1>7
<1>9. CASE cache'[d][k] # cache[d][k]
  <2>1. k \in DOMAIN docs /\ docs[k] = View(d, k)'
    BY <1>3, <1>9 DEF NewLocalDocuments
  <2>2. Shows(d, k)'
    BY <1>1, <1>4, <1>7, <1>8, <2>1, TakenIsShown
  <2>3. v \in DOMAIN backend
    BY <1>1 DEF TypeOK, Latest
  <2>4. cache'[d][k].state # "committed"
    BY <1>1, <1>9, <2>3 DEF ApplyRemoteEvent, TypeOK, IsServerDocument
  <2> QED
    BY <2>2, <2>4 DEF Marks
<1>10. CASE cache'[d][k] = cache[d][k]
  <2>1. k \notin DOMAIN docs
    BY <1>3, <1>10 DEF NewLocalDocuments
  <2>2. SameAt(k, sessions'[d].view, sessions[d].view)
    BY <1>7, <1>8, <2>1, OthersStaySame
  <2>3. queue'[d] = queue[d]
    BY <1>1 DEF ApplyRemoteEvent
  <2>4. View(d, k)' = View(d, k)
    BY <1>10, <2>3, SameView
  <2>5. Shows(d, k)'
    BY <1>5, <1>10, <2>2, <2>4, StaysShown
  <2>6. seen'[d] = v /\ seen[d] \in Nat
    BY <1>1 DEF ApplyRemoteEvent, TypeOK
  <2>7. ASSUME cache[d][k].state = "committed", cache[d][k].version <= sessions[d].asked
        PROVE  ~current
    <3>1. AheadOfWatch(d, k)
      BY <2>7, CommittedIsAhead
    <3>2. AheadOfWatch(d, k)'
      BY <1>1, <1>10, <2>7, AheadAfter
    <3>3. cache[d][k].version \in Nat
      BY <1>1 DEF TypeOK, IsDocument
    <3>4. cache[d][k].version > seen[d] /\ cache[d][k].version > v
      BY <1>10, <2>6, <3>1, <3>2, <3>3 DEF AheadOfWatch
    <3>5. ~(sessions[d].stream = "current")
      BY <1>4, <2>6, <2>7, <3>3, <3>4 DEF CurrentIsSeen
    <3>6. ~(v >= sessions[d].asked)
      BY <1>4, <2>7, <3>3, <3>4
    <3> QED
      BY <1>2, <3>5, <3>6
  <2>8. sessions'[d].view.sync = IF current THEN "synced" ELSE "local"
    <3>1. PICK changes : changes = ComputeDocumentChanges(old, docs)
      OBVIOUS
    <3>2. ApplyChanges(old, docs, changes, current).sync
            = IF current THEN "synced" ELSE "local"
      BY ViewIsShaped
    <3> QED
      BY <1>8, <3>1, <3>2
  <2>9. Marks(d, k) => Marks(d, k)'
    BY <1>2, <1>10, <2>2, <2>7, <2>8 DEF Marks, SameAt
  <2> QED
    BY <1>5, <1>6, <2>5, <2>9
<1> QED
  BY <1>9, <1>10

(***************************************************************************)
(* So does CURRENT without documents.                                      *)
(***************************************************************************)
LEMMA MarkCurrentShows ==
  ASSUME InductiveInvariant, ServerGrows, GoodSessions, StoreIsShown,
         NEW d \in Device, MarkCurrent(d), [Next]_clientVars, NEW k \in Key
  PROVE  Shows(d, k)' /\ (MayMark' => Marks(d, k)')
<1>1. /\ Listening(sessions[d]) /\ seen[d] >= sessions[d].asked
      /\ cache'[d][k] = cache[d][k] /\ queue'[d] = queue[d]
      /\ seen[d] \in Nat /\ sessions[d].asked \in Nat
  BY DEF MarkCurrent, clientVars, InductiveInvariant, TypeOK, GoodSessions, Good, OfQuery
<1>2. PICK docs, current : docs = <<>> /\ current = TRUE
  OBVIOUS
<1>3. PICK old : old = sessions[d].view
  OBVIOUS
<1>4. sessions'[d].view = ApplyChanges(old, docs, ComputeDocumentChanges(old, docs), current)
  BY <1>2, <1>3, MarkCurrentIsGood
<1>5. k \notin DOMAIN docs
  BY <1>2, EmptySequence
<1>6. SameAt(k, sessions'[d].view, sessions[d].view)
  BY <1>3, <1>4, <1>5, OthersStaySame
<1>7. View(d, k)' = View(d, k)
  BY <1>1, SameView
<1>8. Shows(d, k) /\ (MayMark => Marks(d, k))
  BY <1>1 DEF StoreIsShown
<1>9. Shows(d, k)'
  BY <1>1, <1>6, <1>7, <1>8, StaysShown
<1>10. MayMark' => MayMark
  BY WasOrderly DEF MayMark
<1>11. cache[d][k].state = "committed" => ~(cache[d][k].version <= sessions[d].asked)
  <2> SUFFICES ASSUME cache[d][k].state = "committed"
               PROVE  ~(cache[d][k].version <= sessions[d].asked)
    OBVIOUS
  <2>1. AheadOfWatch(d, k)
    BY CommittedIsAhead
  <2>2. cache[d][k].version \in Nat /\ cache[d][k].version > seen[d]
    BY <1>1, <2>1 DEF AheadOfWatch, InductiveInvariant, TypeOK, IsDocument
  <2> QED
    BY <1>1, <2>2
<1>12. Marks(d, k) => Marks(d, k)'
  BY <1>1, <1>6, <1>11 DEF Marks, SameAt
<1> QED
  BY <1>8, <1>9, <1>10, <1>12

-----------------------------------------------------------------------------
(***************************************************************************)
(* The steps that tell a session nothing of documents.                     *)
(***************************************************************************)
QuietStep(d) ==
  \/ \E l \in Listener : Listening(sessions[d]) /\ AddQueryListener(d, l)
  \/ \E l \in Listener : RemoveQueryListener(d, l)
  \/ OnWatchStreamOpen(d)
  \/ OnWatchStreamClose(d)
  \/ IdleTimerFires(d)
  \/ OnlineStateTimerFires(d)
  \/ OnWatchStreamChange(d)
  \/ HandleRejectedListen(d)

(***************************************************************************)
(* They leave the client alone, and the documents of the view.             *)
(***************************************************************************)
LEMMA QuietStepsAreQuiet ==
  ASSUME TypeOK, GoodSessions, NEW d \in Device, QuietStep(d)
  PROVE  QuietSession(sessions'[d], sessions[d]) /\ UNCHANGED clientVars
<1>1. CASE \E l \in Listener : Listening(sessions[d]) /\ AddQueryListener(d, l)
  BY <1>1, AddQueryListenerIsGood DEF AddQueryListener
<1>2. CASE \E l \in Listener : RemoveQueryListener(d, l)
  BY <1>2, RemoveQueryListenerIsGood DEF RemoveQueryListener
<1>3. CASE OnWatchStreamOpen(d)
  BY <1>3, OpenIsGood DEF OnWatchStreamOpen
<1>4. CASE OnWatchStreamClose(d)
  BY <1>4, CloseIsGood DEF OnWatchStreamClose
<1>5. CASE IdleTimerFires(d)
  BY <1>5, IdleIsGood DEF IdleTimerFires
<1>6. CASE OnlineStateTimerFires(d)
  BY <1>6, TimerIsGood DEF OnlineStateTimerFires
<1>7. CASE OnWatchStreamChange(d)
  BY <1>7, ChangeIsGood DEF OnWatchStreamChange
<1>8. CASE HandleRejectedListen(d)
  BY <1>8, DeniedIsGood DEF HandleRejectedListen
<1> QED
  BY <1>1, <1>2, <1>3, <1>4, <1>5, <1>6, <1>7, <1>8 DEF QuietStep

FirstListen(d) ==
  /\ ~Listening(sessions[d])
  /\ \E l \in Listener : AddQueryListener(d, l)

(***************************************************************************)
(* The first listener gets a view of the whole local store.                *)
(***************************************************************************)
LEMMA FirstListenFields ==
  ASSUME TypeOK, GoodSessions, NEW d \in Device, FirstListen(d)
  PROVE  /\ sessions'[d].asked = Latest
         /\ sessions'[d].stream \in {"starting", sessions[d].stream}
         /\ sessions'[d].view =
              ApplyChanges(NewView, LocalDocuments(d),
                ComputeDocumentChanges(NewView, LocalDocuments(d)), FALSE)
         /\ UNCHANGED clientVars
BY AddQueryListenerIsGood DEF FirstListen, AddQueryListener

(***************************************************************************)
(* What may happen to a device.                                            *)
(***************************************************************************)
LEMMA StepsOfDevice ==
  ASSUME [ListenersNext]_allVars
  PROVE  \/ UNCHANGED allVars
         \/ \E d \in Device :
              \/ ClientStep(d)
              \/ StoreWrite(d)
              \/ HandleSuccessfulWrite(d)
              \/ HandleRejectedWrite(d)
              \/ RestartApp(d)
              \/ QuietStep(d)
              \/ FirstListen(d)
              \/ MarkCurrent(d)
              \/ \E v \in 1 .. Latest : WatchSnapshot(d, v)
BY DEF ListenersNext, QuietStep, FirstListen

(***************************************************************************)
(* A step is about the documents of one device.                            *)
(***************************************************************************)
LEMMA OneDevice ==
  ASSUME TypeOK, GoodSessions, NEW d \in Device, NEW e \in Device, e # d,
         \/ ClientStep(d)
         \/ StoreWrite(d)
         \/ HandleSuccessfulWrite(d)
         \/ HandleRejectedWrite(d)
         \/ RestartApp(d)
         \/ QuietStep(d)
         \/ FirstListen(d)
         \/ MarkCurrent(d)
         \/ \E v \in 1 .. Latest : WatchSnapshot(d, v)
  PROVE  /\ sessions'[e] = sessions[e]
         /\ cache'[e] = cache[e] /\ queue'[e] = queue[e] /\ seen'[e] = seen[e]
<1> DEFINE Same == /\ sessions'[e] = sessions[e]
                   /\ cache'[e] = cache[e] /\ queue'[e] = queue[e]
                   /\ seen'[e] = seen[e]
<1>1. ASSUME ClientStep(d)
      PROVE  Same
  BY <1>1 DEF ClientStep, listenerVars, Call, Complete, Commit, Refuse, BreakStream
<1>2. ASSUME StoreWrite(d)
      PROVE  Same
  BY <1>2 DEF StoreWrite, LocalStoreChanges, WriteLocally, GoodSessions, TypeOK
<1>3. ASSUME HandleSuccessfulWrite(d)
      PROVE  Same
  BY <1>3 DEF HandleSuccessfulWrite, LocalStoreChanges, AcknowledgeBatch, GoodSessions,
              TypeOK
<1>4. ASSUME HandleRejectedWrite(d)
      PROVE  Same
  BY <1>4 DEF HandleRejectedWrite, LocalStoreChanges, RejectBatch, GoodSessions, TypeOK
<1>5. ASSUME RestartApp(d)
      PROVE  Same
  BY <1>5 DEF RestartApp, Kill, GoodSessions, TypeOK
<1>6. ASSUME QuietStep(d) \/ FirstListen(d) \/ MarkCurrent(d)
      PROVE  Same
  <2>1. OnlySession(d)
    BY <1>6, StepsAreGood DEF QuietStep, FirstListen
  <2>2. UNCHANGED clientVars
    BY <1>6, QuietStepsAreQuiet, FirstListenFields DEF MarkCurrent
  <2> QED
    BY <2>1, <2>2 DEF OnlySession, clientVars
<1>7. ASSUME NEW v \in 1 .. Latest, WatchSnapshot(d, v)
      PROVE  Same
  <2>1. OnlySession(d)
    BY <1>7, SnapshotIsGood
  <2>2. cache'[e] = cache[e] /\ queue'[e] = queue[e] /\ seen'[e] = seen[e]
    BY <1>7 DEF WatchSnapshot, ApplyRemoteEvent, TypeOK
  <2> QED
    BY <2>1, <2>2 DEF OnlySession
<1> QED
  BY <1>1, <1>2, <1>3, <1>4, <1>5, <1>6, <1>7

-----------------------------------------------------------------------------
(***************************************************************************)
(* The stream never says CURRENT too early.                                *)
(***************************************************************************)
LEMMA StaysCurrent ==
  ASSUME NEW e \in Device, CurrentIsSeen,
         sessions'[e].stream = "current" => sessions[e].stream = "current",
         sessions'[e].asked = sessions[e].asked,
         DOMAIN sessions'[e].listeners = DOMAIN sessions[e].listeners,
         seen'[e] = seen[e], sessions'[e].stream = "current"
  PROVE  Listening(sessions'[e]) /\ seen'[e] >= sessions'[e].asked
BY DEF CurrentIsSeen, Listening

(***************************************************************************)
(* A change of the local store is not about the connection.                *)
(***************************************************************************)
LEMMA StoreIsConnected ==
  ASSUME TypeOK, GoodSessions, NEW d \in Device,
         StoreWrite(d) \/ HandleSuccessfulWrite(d) \/ HandleRejectedWrite(d)
  PROVE  /\ sessions'[d].stream = sessions[d].stream
         /\ sessions'[d].asked = sessions[d].asked
         /\ DOMAIN sessions'[d].listeners = DOMAIN sessions[d].listeners
         /\ seen' = seen
<1>1. CASE StoreWrite(d)
  <2>1. Head(calls[d]).write.key \in Key
    BY <1>1, WritesAreOfKeys DEF StoreWrite, WriteLocally
  <2> QED
    BY <1>1, <2>1, StoreIsGood DEF StoreWrite, WriteLocally, SameConnection
<1>2. CASE HandleSuccessfulWrite(d)
  <2>1. Head(queue[d]).write.key \in Key
    BY <1>2, WritesAreOfKeys, AnsweredIsQueued DEF HandleSuccessfulWrite, AcknowledgeBatch
  <2> QED
    BY <1>2, <2>1, StoreIsGood DEF HandleSuccessfulWrite, AcknowledgeBatch, SameConnection
<1>3. CASE HandleRejectedWrite(d)
  <2>1. Head(queue[d]).write.key \in Key
    BY <1>3, WritesAreOfKeys, AnsweredIsQueued DEF HandleRejectedWrite, RejectBatch
  <2> QED
    BY <1>3, <2>1, StoreIsGood DEF HandleRejectedWrite, RejectBatch, SameConnection
<1> QED
  BY <1>1, <1>2, <1>3

(***************************************************************************)
(* CURRENT comes with, or after, what the server had when it got the       *)
(* query; a new query makes it void.                                       *)
(***************************************************************************)
LEMMA CurrentStaysSeen ==
  ASSUME TypeOK, GoodSessions, CurrentIsSeen, [ListenersNext]_allVars
  PROVE  CurrentIsSeen'
<1> SUFFICES ASSUME NEW e \in Device, sessions'[e].stream = "current"
             PROVE  Listening(sessions'[e]) /\ seen'[e] >= sessions'[e].asked
  BY DEF CurrentIsSeen
<1> DEFINE Goal == Listening(sessions'[e]) /\ seen'[e] >= sessions'[e].asked
<1>1. ASSUME sessions'[e] = sessions[e], seen'[e] = seen[e]
      PROVE  Goal
  BY <1>1, StaysCurrent
<1>2. ASSUME UNCHANGED allVars
      PROVE  Goal
  BY <1>1, <1>2 DEF allVars, clientVars, listenerVars
<1>3. ASSUME ClientStep(e)
      PROVE  Goal
  <2>1. sessions'[e] = sessions[e] /\ seen'[e] = seen[e]
    BY <1>3 DEF ClientStep, listenerVars, Call, Complete, Commit, Refuse, BreakStream
  <2> QED
    BY <1>1, <2>1
<1>4. ASSUME StoreWrite(e) \/ HandleSuccessfulWrite(e) \/ HandleRejectedWrite(e)
      PROVE  Goal
  BY <1>4, StoreIsConnected, StaysCurrent
<1>5. ASSUME RestartApp(e)
      PROVE  Goal
  <2>1. sessions'[e].stream = "stopped"
    BY <1>5, RestartIsGood DEF NewSession
  <2> QED
    BY <2>1
<1>6. ASSUME QuietStep(e)
      PROVE  Goal
  <2>1. QuietSession(sessions'[e], sessions[e]) /\ seen'[e] = seen[e]
    BY <1>6, QuietStepsAreQuiet DEF clientVars
  <2> QED
    BY <2>1 DEF QuietSession, CurrentIsSeen
<1>7. ASSUME FirstListen(e)
      PROVE  Goal
  <2>1. sessions'[e].stream \in {"starting", sessions[e].stream}
    BY <1>7, FirstListenFields
  <2> QED
    BY <1>7, <2>1 DEF FirstListen, CurrentIsSeen
<1>8. ASSUME MarkCurrent(e)
      PROVE  Goal
  <2>1. /\ sessions'[e].asked = sessions[e].asked
        /\ DOMAIN sessions'[e].listeners = DOMAIN sessions[e].listeners
    BY <1>8, MarkCurrentIsGood
  <2> QED
    BY <1>8, <2>1 DEF MarkCurrent, clientVars, Listening
<1>9. ASSUME NEW v \in 1 .. Latest, WatchSnapshot(e, v)
      PROVE  Goal
  <2>1. PICK current \in {sessions[e].stream = "current", v >= sessions[e].asked} :
          sessions'[e].stream = IF current THEN "current" ELSE sessions[e].stream
    BY <1>9, SnapshotIsGood
  <2>2. /\ DOMAIN sessions'[e].listeners = DOMAIN sessions[e].listeners
        /\ sessions'[e].asked = sessions[e].asked
    BY <1>9, SnapshotIsGood
  <2>3. /\ seen'[e] = v /\ v > seen[e] /\ seen[e] \in Nat
        /\ Listening(sessions[e])
    BY <1>9 DEF WatchSnapshot, ApplyRemoteEvent, TypeOK
  <2>4. sessions[e].asked \in Nat
    BY DEF GoodSessions, Good, OfQuery
  <2>5. sessions[e].stream = "current" \/ v >= sessions[e].asked
    BY <2>1
  <2> QED
    BY <2>2, <2>3, <2>4, <2>5 DEF CurrentIsSeen, Listening
<1>10. ASSUME NEW d \in Device, d # e,
              \/ ClientStep(d)
              \/ StoreWrite(d)
              \/ HandleSuccessfulWrite(d)
              \/ HandleRejectedWrite(d)
              \/ RestartApp(d)
              \/ QuietStep(d)
              \/ FirstListen(d)
              \/ MarkCurrent(d)
              \/ \E v \in 1 .. Latest : WatchSnapshot(d, v)
       PROVE  Goal
  BY <1>1, <1>10, OneDevice
<1> HIDE DEF Goal
<1>11. Goal
  BY <1>2, <1>3, <1>4, <1>5, <1>6, <1>7, <1>8, <1>9, <1>10, StepsOfDevice
<1> QED
  BY <1>11 DEF Goal

-----------------------------------------------------------------------------
(***************************************************************************)
(* The store is shown after every step.                                    *)
(***************************************************************************)
LEMMA StoreStaysShown ==
  ASSUME InductiveInvariant, ServerGrows, AnswersFit, AbsentIsEmpty, GoodSessions,
         CurrentIsSeen, StoreIsShown, [ListenersNext]_allVars
  PROVE  StoreIsShown'
<1> SUFFICES ASSUME NEW e \in Device, Listening(sessions'[e]), NEW k \in Key
             PROVE  Shows(e, k)' /\ (MayMark' => Marks(e, k)')
  BY DEF StoreIsShown
<1> DEFINE Goal == Shows(e, k)' /\ (MayMark' => Marks(e, k)')
<1> USE DEF Goal
<1>1. TypeOK /\ [Next]_clientVars
  BY NextIsClientStep DEF InductiveInvariant
<1>2. ASSUME sessions'[e] = sessions[e], cache'[e] = cache[e], queue'[e] = queue[e]
      PROVE  Goal
  BY <1>1, <1>2, SameSessionShows
<1>3. ASSUME UNCHANGED allVars
      PROVE  Goal
  <2>1. sessions'[e] = sessions[e] /\ cache'[e] = cache[e] /\ queue'[e] = queue[e]
    BY <1>3 DEF allVars, clientVars, listenerVars
  <2> QED
    BY <1>2, <2>1
<1>4. ASSUME ClientStep(e)
      PROVE  Goal
  <2>1. sessions'[e] = sessions[e] /\ cache'[e] = cache[e] /\ queue'[e] = queue[e]
    BY <1>4 DEF ClientStep, listenerVars, Call, Complete, Commit, Refuse, BreakStream
  <2> QED
    BY <1>2, <2>1
<1>5. ASSUME StoreWrite(e)
      PROVE  Goal
  BY <1>1, <1>5, WriteShows
<1>6. ASSUME HandleSuccessfulWrite(e)
      PROVE  Goal
  BY <1>1, <1>6, AcknowledgeShows
<1>7. ASSUME HandleRejectedWrite(e)
      PROVE  Goal
  BY <1>1, <1>7, RejectShows
<1>8. ASSUME RestartApp(e)
      PROVE  Goal
  BY <1>8, RestartIsGood, NewSessionShaped
<1>9. ASSUME QuietStep(e)
      PROVE  Goal
  <2>1. QuietSession(sessions'[e], sessions[e]) /\ UNCHANGED clientVars
    BY <1>1, <1>9, QuietStepsAreQuiet
  <2>2. sessions[e].asked \in Nat
    BY DEF GoodSessions, Good, OfQuery
  <2> QED
    BY <2>1, <2>2, QuietShows
<1>10. ASSUME FirstListen(e)
       PROVE  Goal
  BY <1>1, <1>10, FirstListenFields, FirstShows
<1>11. ASSUME MarkCurrent(e)
       PROVE  Goal
  BY <1>1, <1>11, MarkCurrentShows
<1>12. ASSUME NEW v \in 1 .. Latest, WatchSnapshot(e, v)
       PROVE  Goal
  BY <1>1, <1>12, SnapshotShows
<1>13. ASSUME NEW d \in Device, d # e,
              \/ ClientStep(d)
              \/ StoreWrite(d)
              \/ HandleSuccessfulWrite(d)
              \/ HandleRejectedWrite(d)
              \/ RestartApp(d)
              \/ QuietStep(d)
              \/ FirstListen(d)
              \/ MarkCurrent(d)
              \/ \E v \in 1 .. Latest : WatchSnapshot(d, v)
       PROVE  Goal
  <2>1. sessions'[e] = sessions[e] /\ cache'[e] = cache[e] /\ queue'[e] = queue[e]
    BY <1>1, <1>13, OneDevice
  <2> QED
    BY <1>2, <2>1
<1> HIDE DEF Goal
<1>14. Goal
  BY <1>3, <1>4, <1>5, <1>6, <1>7, <1>8, <1>9, <1>10, <1>11, <1>12, <1>13, StepsOfDevice
<1> QED
  BY <1>14 DEF Goal

-----------------------------------------------------------------------------
(***************************************************************************)
(* The inductive invariant of the listeners.                               *)
(***************************************************************************)
ShownInvariant ==
  /\ SessionInvariant
  /\ ServerGrows
  /\ AnswersFit
  /\ AbsentIsEmpty
  /\ CurrentIsSeen
  /\ StoreIsShown

(***************************************************************************)
(* At the start there are no answers and no listeners.                     *)
(***************************************************************************)
LEMMA FirstShown == ListenersInit => ServerGrows /\ AnswersFit /\ CurrentIsSeen /\ StoreIsShown
<1> SUFFICES ASSUME ListenersInit
             PROVE  ServerGrows /\ AnswersFit /\ CurrentIsSeen /\ StoreIsShown
  OBVIOUS
<1>1. /\ backend = <<InitialDocuments>> /\ log = <<>>
      /\ \A d \in Device : responses[d] = <<>> /\ sessions[d] = NewSession
  BY DEF ListenersInit, Init
<1>2. ServerGrows
  <2>1. Latest = 1 /\ Len(log) = 0 /\ \A v \in DOMAIN backend : backend[v] = InitialDocuments
    BY <1>1 DEF Latest
  <2>2. \A k \in Key : InitialDocuments[k].version >= 1 => Exists(InitialDocuments[k])
    BY InitialAssumption DEF Exists
  <2> QED
    BY <2>1, <2>2 DEF ServerGrows
<1>3. AnswersFit
  BY <1>1, FitsWithout DEF AnswersFit
<1>4. CurrentIsSeen
  BY <1>1 DEF CurrentIsSeen, NewSession
<1>5. StoreIsShown
  BY <1>1, NewSessionShaped DEF StoreIsShown
<1> QED
  BY <1>2, <1>3, <1>4, <1>5

(***************************************************************************)
(* What the store has is shown, and what is shown has been told, in every  *)
(* behaviour.                                                              *)
(***************************************************************************)
THEOREM StoreIsAlwaysShown == ListenersSpec => []ShownInvariant
<1>1. ListenersInit => ServerGrows /\ AnswersFit /\ AbsentIsEmpty /\ CurrentIsSeen /\ StoreIsShown
  BY FirstShown, AbsentIsFirstEmpty DEF ListenersInit
<1>2. /\ SessionInvariant
      /\ ServerGrows /\ AnswersFit /\ AbsentIsEmpty /\ CurrentIsSeen /\ StoreIsShown
      /\ [ListenersNext]_allVars
      => (ServerGrows /\ AnswersFit /\ AbsentIsEmpty /\ CurrentIsSeen /\ StoreIsShown)'
  <2> SUFFICES ASSUME SessionInvariant, ServerGrows, AnswersFit, AbsentIsEmpty,
                      CurrentIsSeen, StoreIsShown, [ListenersNext]_allVars
               PROVE  /\ ServerGrows' /\ AnswersFit' /\ AbsentIsEmpty'
                      /\ CurrentIsSeen' /\ StoreIsShown'
    OBVIOUS
  <2>1. InductiveInvariant /\ TypeOK /\ GoodSessions
    BY DEF SessionInvariant, InductiveInvariant
  <2>2. [Next]_clientVars
    BY NextIsClientStep
  <2>3. ServerGrows'
    BY <2>1, <2>2, ServerGrowsOn
  <2>4. AnswersFit'
    BY <2>1, <2>2, AnswersGoOnFitting
  <2>5. AbsentIsEmpty'
    BY <2>1, <2>2, AbsentStaysEmpty
  <2>6. CurrentIsSeen'
    BY <2>1, CurrentStaysSeen
  <2>7. StoreIsShown'
    BY <2>1, StoreStaysShown
  <2> QED
    BY <2>3, <2>4, <2>5, <2>6, <2>7
<1> QED
  BY <1>1, <1>2, SessionsAreGood, PTL DEF ListenersSpec, ShownInvariant

(***************************************************************************)
(* The invariant that the runs check.                                      *)
(***************************************************************************)
THEOREM ListenersAreTold == ListenersSpec => []ListenersInvariant
<1>1. ShownInvariant => ListenersInvariant
  <2> SUFFICES ASSUME ShownInvariant PROVE ListenersInvariant
    OBVIOUS
  <2>1. ListenersTypeOK /\ ChangesAddUp
    BY GoodAddsUp DEF ShownInvariant
  <2>2. ViewShowsStore
    BY DEF ShownInvariant, StoreIsShown, Shows, ViewShowsStore
  <2> QED
    BY <2>1, <2>2 DEF ListenersInvariant
<1> QED
  BY <1>1, StoreIsAlwaysShown, PTL

(***************************************************************************)
(* A query that does not look at times, in sync and without a pending      *)
(* write of a document, shows the server's.                                *)
(***************************************************************************)
THEOREM SyncedIsServers ==
  ASSUME MatchesFields
  PROVE  ListenersSpec => []SyncedDocumentsAreServers
<1>1. ShownInvariant => SyncedDocumentsAreServers
  <2> SUFFICES ASSUME ShownInvariant, faults.refuse = 0, EveryCommitChanged,
                      NEW d \in Device, InSync(d),
                      NEW k \in DOMAIN sessions[d].view.docs \ sessions[d].view.mutated
               PROVE  sessions[d].view.docs[k].data = backend[seen[d]][k].data
    BY DEF SyncedDocumentsAreServers
  <2>1. Listening(sessions[d]) /\ sessions[d].view.sync = "synced"
    BY DEF InSync
  <2>2. InductiveInvariant /\ TypeOK
    BY DEF ShownInvariant, SessionInvariant, InductiveInvariant
  <2>3. k \in Key
    BY DEF ShownInvariant, SessionInvariant, GoodSessions, Good, OfQuery
  <2>4. Shows(d, k) /\ Marks(d, k)
    BY <2>1, <2>3 DEF ShownInvariant, StoreIsShown, MayMark, Orderly
  <2>5. cache[d][k].state # "committed"
    BY <2>1, <2>4 DEF Marks
  <2>6. View(d, k).state # "local" /\ sessions[d].view.docs[k].data = View(d, k).data
    BY <2>4 DEF Shows, Held
  <2>7. View(d, k) = cache[d][k]
    BY <2>2, <2>6, ViewIsLocal
  <2>8. cache[d][k].state = "synced"
    BY <2>2, <2>3, <2>5, <2>6, <2>7 DEF TypeOK, IsDocument
  <2>9. cache[d][k] = backend[seen[d]][k]
    BY <2>2, <2>3, <2>8 DEF InductiveInvariant, CacheFaithful, AheadOfWatch, HasPendingWrites
  <2> QED
    BY <2>6, <2>7, <2>9
<1> QED
  BY <1>1, StoreIsAlwaysShown, PTL
==============================================================================
