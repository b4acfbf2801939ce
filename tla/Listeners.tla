------------------------------ MODULE Listeners ------------------------------
(***************************************************************************)
(* What the listeners of a query are told: the View of the SyncEngine,     *)
(* which turns changed documents into snapshots, the EventManager and its  *)
(* QueryListeners, which decide what becomes an event for the app, and the *)
(* OnlineStateTracker, which decides when to stop waiting for the server.  *)
(* They are driven by FirestoreClient, which this module composes with the *)
(* watch stream's connection.                                              *)
(*                                                                         *)
(* sessions[d] is the memory of the SDK on device d.  All listeners there  *)
(* listen to one query without a limit, so a view exists exactly when      *)
(* there is a listener.                                                    *)
(***************************************************************************)
EXTENDS FirestoreClient

CONSTANTS
  Listener,        \* calls of addSnapshotListener
  WithMetadata,    \* those with includeMetadataChanges
  WaitsForSync,    \* those of getDocuments: wait_for_sync_when_online
  Matches(_),      \* Query::Matches, of the data of a document
  MaxListens,      \* bound: calls of AddQueryListener on each device
  MaxUpsets        \* bounds: see Upset

Upset == {"fail", "remove", "deny"}

ASSUME ListenerAssumption ==
  /\ WithMetadata \subseteq Listener
  /\ WaitsForSync \subseteq Listener
  /\ MaxListens \in [Device -> Nat]
  /\ MaxUpsets \in [Upset -> Nat]

VARIABLES
  sessions,
  listens,    \* how often each device has listened
  upsets      \* failed streams, removed listeners and denied queries so far

listenerVars == <<sessions, listens, upsets>>

allVars == <<clientVars, listenerVars>>

UpsetHappens(kind) ==
  /\ upsets[kind] < MaxUpsets[kind]
  /\ upsets' = [upsets EXCEPT ![kind] = @ + 1]

(***************************************************************************)
(* docs: the documents of the view as it last took them from the local     *)
(* store; mutated: those shown with hasPendingWrites; current: the server  *)
(* has said that the query's documents are all there; sync: the sync state *)
(* of the last snapshot.                                                   *)
(***************************************************************************)
NewView == [docs |-> <<>>, mutated |-> {}, current |-> FALSE, sync |-> "none"]

(***************************************************************************)
(* last: the last snapshot of the view; stream: the watch stream, where    *)
(* "starting" includes backoff and authentication and "current" that the   *)
(* server has said CURRENT on it; asked: the server's version when it got  *)
(* the query; failed: watch_stream_failures_ > 0.                          *)
(***************************************************************************)
NewSession ==
  [view |-> NewView,
   last |-> [docs |-> <<>>, mutated |-> {}, fromCache |-> TRUE],
   listeners |-> <<>>,
   stream |-> "stopped",
   asked |-> 0,
   online |-> [state |-> "unknown", failed |-> FALSE, timer |-> FALSE]]

Listening(s) == DOMAIN s.listeners # {}

-----------------------------------------------------------------------------
(***************************************************************************)
(* QueryListener.  A listener remembers whether it has raised its first    *)
(* event, and what its events add up to: shown is made of nothing but the  *)
(* document changes, the rest is the metadata of the last event.           *)
(***************************************************************************)
NewListener == [raised |-> FALSE, shown |-> <<>>, mutated |-> {},
                fromCache |-> TRUE]

OfType(changes, types) == {k \in DOMAIN changes : changes[k] \in types}

Replay(shown, changes, docs) ==
  [k \in (DOMAIN shown \ OfType(changes, {"removed"}))
         \cup OfType(changes, {"added"}) |->
     IF k \in DOMAIN changes THEN docs[k].data ELSE shown[k]]

OnEvent(listener, changes, snapshot) ==
  [raised |-> TRUE,
   shown |-> Replay(listener.shown, changes, snapshot.docs),
   mutated |-> snapshot.mutated,
   fromCache |-> snapshot.fromCache]

ShouldRaiseInitialEvent(l, snapshot, state) ==
  \/ ~snapshot.fromCache
  \/ /\ l \in WaitsForSync => state = "offline"
     /\ DOMAIN snapshot.docs # {} \/ state = "offline"

(* Mutant: the first event has the changes of its snapshot. *)
RaiseWithChanges(listener, snapshot) ==
  OnEvent(listener, snapshot.changes, snapshot)

RaiseInitialEvent(listener, snapshot) ==
  OnEvent(listener, [k \in DOMAIN snapshot.docs |-> "added"], snapshot)

ShouldRaiseEvent(l, changes, snapshot, previous) ==
  \/ DOMAIN changes # {}
  \/ /\ l \in WithMetadata
     /\ \/ snapshot.syncChanged
        \/ (previous.mutated = {}) # (snapshot.mutated = {})

ChangesFor(l, changes) ==
  IF l \in WithMetadata
  THEN changes
  ELSE Restrict(changes, DOMAIN changes \ OfType(changes, {"metadata"}))

OnViewSnapshot(l, listener, snapshot, previous, state) ==
  LET changes == ChangesFor(l, snapshot.changes)
  IN  CASE ~listener.raised /\ ShouldRaiseInitialEvent(l, snapshot, state) ->
             RaiseInitialEvent(listener, snapshot)
        [] listener.raised /\ ShouldRaiseEvent(l, changes, snapshot, previous) ->
             OnEvent(listener, changes, snapshot)
        [] OTHER -> listener

OnOnlineStateChanged(l, listener, snapshot, state) ==
  IF ~listener.raised /\ ShouldRaiseInitialEvent(l, snapshot, state)
  THEN RaiseInitialEvent(listener, snapshot)
  ELSE listener

-----------------------------------------------------------------------------
(***************************************************************************)
(* View.  What happens to the document of the view at k when the local     *)
(* store says that it now is doc.                                          *)
(***************************************************************************)
InQuery(doc) == Exists(doc) /\ Matches(doc.data)

HasPendingMutations(view, k, doc) ==
  \/ doc.state = "local"
  \/ k \in view.mutated /\ doc.state = "committed"

(* Mutants: no acknowledgement is held back, or the snapshot after it too. *)
NeverWaits(newDoc, oldDoc) == FALSE

WaitsTooLong(newDoc, oldDoc) ==
  oldDoc.state = "local" /\ newDoc.state # "local"

ShouldWaitForSyncedDocument(newDoc, oldDoc) ==
  oldDoc.state = "local" /\ newDoc.state = "committed"

ChangeOf(view, k, doc) ==
  CASE k \notin DOMAIN view.docs ->
         IF InQuery(doc) THEN "added" ELSE "none"
    [] k \in DOMAIN view.docs /\ ~InQuery(doc) -> "removed"
    [] k \in DOMAIN view.docs /\ InQuery(doc) /\ view.docs[k].data # doc.data ->
         IF ShouldWaitForSyncedDocument(doc, view.docs[k])
         THEN "none" ELSE "modified"
    [] OTHER ->
         IF (k \in view.mutated) # HasPendingMutations(view, k, doc)
         THEN "metadata" ELSE "none"

ComputeDocumentChanges(view, docs) ==
  LET type == [k \in DOMAIN docs |-> ChangeOf(view, k, docs[k])]
  IN  Restrict(type, {k \in DOMAIN docs : type[k] # "none"})

(* Mutant: a document that leaves the query stays marked as pending. *)
ApplyKeepsMutated(view, docs, changes, current) ==
  [docs |-> [k \in (DOMAIN view.docs \ OfType(changes, {"removed"}))
                   \cup OfType(changes, {"added"}) |->
               IF k \in DOMAIN changes THEN docs[k] ELSE view.docs[k]],
   mutated |-> (view.mutated \ DOMAIN changes) \cup
               {k \in DOMAIN changes : docs[k].state = "local"},
   current |-> current,
   sync |-> IF current THEN "synced" ELSE "local"]

ApplyChanges(view, docs, changes, current) ==
  [docs |-> [k \in (DOMAIN view.docs \ OfType(changes, {"removed"}))
                   \cup OfType(changes, {"added"}) |->
               IF k \in DOMAIN changes THEN docs[k] ELSE view.docs[k]],
   mutated |-> (view.mutated \ DOMAIN changes) \cup
               {k \in DOMAIN changes \ OfType(changes, {"removed"}) :
                  docs[k].state = "local"},
   current |-> current,
   sync |-> IF current THEN "synced" ELSE "local"]

OnViewSnapshots(s, snapshot) ==
  [s EXCEPT
     !.listeners = [l \in DOMAIN @ |->
                      OnViewSnapshot(l, @[l], snapshot, s.last, s.online.state)],
     !.last = [docs |-> snapshot.docs, mutated |-> snapshot.mutated,
               fromCache |-> snapshot.fromCache]]

EmitNewSnapshots(s, docs, current) ==
  LET changes == ComputeDocumentChanges(s.view, docs)
      view    == ApplyChanges(s.view, docs, changes, current)
      t       == [s EXCEPT !.view = view]
  IN  CASE ~Listening(s) -> s
        [] Listening(s) /\ DOMAIN changes = {} /\ view.sync = s.view.sync -> t
        [] OTHER ->
             OnViewSnapshots(t, [docs |-> view.docs,
                                 mutated |-> view.mutated,
                                 fromCache |-> view.sync = "local",
                                 changes |-> changes,
                                 syncChanged |-> view.sync # s.view.sync])

-----------------------------------------------------------------------------
(***************************************************************************)
(* OnlineStateTracker, and what the SyncEngine and the EventManager do     *)
(* when the online state changes.                                          *)
(***************************************************************************)
HandleOnlineStateChange(s, state) ==
  LET t == IF s.view.current /\ state = "offline"
           THEN EmitNewSnapshots(s, <<>>, FALSE)
           ELSE s
  IN  [t EXCEPT
         !.online.state = state,
         !.listeners = [l \in DOMAIN @ |->
                          OnOnlineStateChanged(l, @[l], t.last, state)]]

SetAndBroadcast(s, state) ==
  IF state = s.online.state THEN s ELSE HandleOnlineStateChange(s, state)

UpdateState(s, state) ==
  SetAndBroadcast([s EXCEPT !.online.timer = FALSE, !.online.failed = FALSE],
                  state)

(* Mutant: nothing ends the wait for the first answer. *)
HandleWatchStreamStartUntimed(s) ==
  IF s.online.failed THEN s ELSE SetAndBroadcast(s, "unknown")

HandleWatchStreamStart(s) ==
  IF s.online.failed
  THEN s
  ELSE [SetAndBroadcast(s, "unknown") EXCEPT !.online.timer = TRUE]

(* Mutant: a failure leaves the timer running. *)
HandleWatchStreamFailureKeepsTimer(s) ==
  IF s.online.state = "online"
  THEN SetAndBroadcast(s, "unknown")
  ELSE SetAndBroadcast([s EXCEPT !.online.failed = TRUE], "offline")

HandleWatchStreamFailure(s) ==
  IF s.online.state = "online"
  THEN SetAndBroadcast(s, "unknown")
  ELSE SetAndBroadcast([s EXCEPT !.online.failed = TRUE,
                                 !.online.timer = FALSE], "offline")

StartWatchStream(s) ==
  HandleWatchStreamStart([s EXCEPT !.stream = "starting"])

-----------------------------------------------------------------------------
(***************************************************************************)
(* Listening.  The first listener makes a view of the local store's        *)
(* documents and starts the watch stream if need be; a later one is given  *)
(* the last snapshot of the view.                                          *)
(***************************************************************************)
LocalDocuments(d) == [k \in Key |-> View(d, k)]

NewLocalDocuments(d, keys) == [k \in keys |-> View(d, k)']

LastSnapshot(s) ==
  [docs |-> s.last.docs, mutated |-> s.last.mutated,
   fromCache |-> s.last.fromCache, changes |-> <<>>, syncChanged |-> FALSE]

Asked(s) == [s EXCEPT !.asked = Latest]

Added(s, l) ==
  [s EXCEPT !.listeners = [i \in DOMAIN @ \cup {l} |->
                             IF i = l THEN NewListener ELSE @[i]]]

ListenFirst(d, l) ==
  LET s == [Added(sessions[d], l) EXCEPT !.view = NewView]
      t == EmitNewSnapshots(s, LocalDocuments(d), FALSE)
  IN  IF t.stream = "stopped" THEN StartWatchStream(t) ELSE t

ListenAgain(d, l) ==
  LET s == Added(sessions[d], l)
  IN  [s EXCEPT !.listeners[l] =
         OnViewSnapshot(l, @, LastSnapshot(s), s.last, s.online.state)]

AddQueryListener(d, l) ==
  /\ listens[d] < MaxListens[d]
  /\ listens' = [listens EXCEPT ![d] = @ + 1]
  /\ l \notin DOMAIN sessions[d].listeners
  /\ sessions' = [sessions EXCEPT
                    ![d] = IF Listening(@) THEN ListenAgain(d, l)
                           ELSE Asked(ListenFirst(d, l))]
  /\ UNCHANGED <<clientVars, upsets>>

(***************************************************************************)
(* The view goes with its last listener.  Nobody waits for an unanswered   *)
(* stream any more, so the online state is unknown again.                  *)
(***************************************************************************)
WithoutView(s) ==
  [s EXCEPT !.listeners = <<>>, !.view = NewView, !.last = NewSession.last]

StopListening(s) ==
  IF s.stream \in {"open", "current"}
  THEN [WithoutView(s) EXCEPT !.stream = "open"]
  ELSE UpdateState(WithoutView(s), "unknown")

Removed(s, l) ==
  [s EXCEPT !.listeners = Restrict(@, DOMAIN @ \ {l})]

RemoveQueryListener(d, l) ==
  /\ l \in DOMAIN sessions[d].listeners
  /\ UpsetHappens("remove")
  /\ sessions' = [sessions EXCEPT
                    ![d] = IF DOMAIN @.listeners = {l}
                           THEN StopListening(@) ELSE Removed(@, l)]
  /\ UNCHANGED <<clientVars, listens>>

-----------------------------------------------------------------------------
(***************************************************************************)
(* The watch stream.  Any message on it shows that the device is online.   *)
(***************************************************************************)
IsOpen(s) == s.stream \in {"open", "current"}

OnWatchStreamOpen(d) ==
  /\ sessions[d].stream = "starting"
  /\ sessions' = [sessions EXCEPT ![d] = Asked([@ EXCEPT !.stream = "open"])]
  /\ UNCHANGED <<clientVars, listens, upsets>>

OnWatchStreamClose(d) ==
  /\ sessions[d].stream # "stopped"
  /\ UpsetHappens("fail")
  /\ sessions' = [sessions EXCEPT
                    ![d] = IF Listening(@)
                           THEN StartWatchStream(HandleWatchStreamFailure(@))
                           ELSE UpdateState([@ EXCEPT !.stream = "stopped"],
                                            "unknown")]
  /\ UNCHANGED <<clientVars, listens>>

IdleTimerFires(d) ==
  /\ IsOpen(sessions[d])
  /\ ~Listening(sessions[d])
  /\ sessions' = [sessions EXCEPT
                    ![d] = UpdateState([@ EXCEPT !.stream = "stopped"],
                                       "unknown")]
  /\ UNCHANGED <<clientVars, listens, upsets>>

OnlineStateTimerFires(d) ==
  /\ sessions[d].online.timer
  /\ sessions' = [sessions EXCEPT
                    ![d] = SetAndBroadcast([@ EXCEPT !.online.timer = FALSE],
                                           "offline")]
  /\ UNCHANGED <<clientVars, listens, upsets>>

(***************************************************************************)
(* The server answers the listen request, and later says that the query is *)
(* current, as of a version not before it got the query, or denied.        *)
(***************************************************************************)
OnWatchStreamChange(d) ==
  /\ IsOpen(sessions[d])
  /\ Listening(sessions[d])
  /\ sessions[d].online.state # "online"
  /\ sessions' = [sessions EXCEPT ![d] = UpdateState(@, "online")]
  /\ UNCHANGED <<clientVars, listens, upsets>>

OnAnswer(s, docs, current) ==
  [EmitNewSnapshots(UpdateState(s, "online"), docs, current)
     EXCEPT !.stream = IF current THEN "current" ELSE @]

MarkCurrent(d) ==
  /\ sessions[d].stream = "open"
  /\ Listening(sessions[d])
  /\ seen[d] >= sessions[d].asked
  /\ sessions' = [sessions EXCEPT ![d] = OnAnswer(@, <<>>, TRUE)]
  /\ UNCHANGED <<clientVars, listens, upsets>>

HandleRejectedListen(d) ==
  /\ IsOpen(sessions[d])
  /\ Listening(sessions[d])
  /\ UpsetHappens("deny")
  /\ sessions' = [sessions EXCEPT
                    ![d] = [WithoutView(UpdateState(@, "online"))
                              EXCEPT !.stream = "open"]]
  /\ UNCHANGED <<clientVars, listens>>

(***************************************************************************)
(* A snapshot of the watch stream changes the cache, and the view is told  *)
(* of the documents that changed.                                          *)
(***************************************************************************)
WatchSnapshot(d, v) ==
  /\ IsOpen(sessions[d])
  /\ Listening(sessions[d])
  /\ ApplyRemoteEvent(d, v)
  /\ \E current \in {sessions[d].stream = "current", v >= sessions[d].asked} :
       sessions' =
         [sessions EXCEPT
            ![d] = OnAnswer(@, NewLocalDocuments(d, {k \in Key :
                                  cache'[d][k] # cache[d][k]}), current)]
  /\ UNCHANGED <<listens, upsets>>

(***************************************************************************)
(* The write path of FirestoreClient, with the snapshots that follow its   *)
(* changes to the local store.                                             *)
(***************************************************************************)
LocalStoreChanges(d, k) ==
  /\ sessions' = [sessions EXCEPT
                    ![d] = EmitNewSnapshots(@, NewLocalDocuments(d, {k}),
                                            @.view.current)]
  /\ UNCHANGED <<listens, upsets>>

StoreWrite(d) ==
  /\ WriteLocally(d)
  /\ LocalStoreChanges(d, Head(calls[d]).write.key)

HandleSuccessfulWrite(d) ==
  /\ AcknowledgeBatch(d)
  /\ LocalStoreChanges(d, Head(queue[d]).write.key)

HandleRejectedWrite(d) ==
  /\ RejectBatch(d)
  /\ LocalStoreChanges(d, Head(queue[d]).write.key)

RestartApp(d) ==
  /\ Kill(d)
  /\ sessions' = [sessions EXCEPT ![d] = NewSession]
  /\ UNCHANGED <<listens, upsets>>

ClientStep(d) ==
  /\ \/ \E ws \in Program : Call(d, ws)
     \/ Complete(d, <<>>)
     \/ Commit(d)
     \/ Refuse(d)
     \/ BreakStream(d)
  /\ UNCHANGED listenerVars

ListenersInit ==
  /\ Init
  /\ sessions = [d \in Device |-> NewSession]
  /\ listens = [d \in Device |-> 0]
  /\ upsets = [u \in Upset |-> 0]

ListenersNext ==
  \E d \in Device :
    \/ ClientStep(d)
    \/ StoreWrite(d)
    \/ HandleSuccessfulWrite(d)
    \/ HandleRejectedWrite(d)
    \/ RestartApp(d)
    \/ \E l \in Listener : AddQueryListener(d, l) \/ RemoveQueryListener(d, l)
    \/ OnWatchStreamOpen(d)
    \/ OnWatchStreamClose(d)
    \/ IdleTimerFires(d)
    \/ OnlineStateTimerFires(d)
    \/ OnWatchStreamChange(d)
    \/ MarkCurrent(d)
    \/ HandleRejectedListen(d)
    \/ \E v \in 1 .. Latest : WatchSnapshot(d, v)

ListenersSpec == ListenersInit /\ [][ListenersNext]_allVars

(***************************************************************************)
(* Timers fire, and a server that answers on a stream goes on to say what  *)
(* the query's documents are; but streams may hang before the first        *)
(* answer, or fail, for ever.                                              *)
(***************************************************************************)
IsOnline(d) ==
  /\ IsOpen(sessions[d])
  /\ Listening(sessions[d])
  /\ sessions[d].online.state = "online"

TimerSpec ==
  /\ ListenersSpec
  /\ \A d \in Device :
       /\ WF_sessions(OnlineStateTimerFires(d))
       /\ WF_sessions(IsOnline(d) /\ MarkCurrent(d))
       /\ WF_clientVars(IsOnline(d) /\ ApplyRemoteEvent(d, Latest))

-----------------------------------------------------------------------------
ListenersTypeOK ==
  /\ listens \in [Device -> Nat]
  /\ upsets \in [Upset -> Nat]
  /\ \A d \in Device :
       LET s == sessions[d]
       IN  /\ DOMAIN s.listeners \subseteq Listener
           /\ s.stream \in {"stopped", "starting", "open", "current"}
           /\ s.online.state \in {"unknown", "online", "offline"}
           /\ s.view.sync \in {"none", "local", "synced"}
           /\ DOMAIN s.view.docs \subseteq Key
           /\ s.view.mutated \subseteq DOMAIN s.view.docs

(***************************************************************************)
(* What OnlineStateTracker asserts: the timer runs only while the state is *)
(* unknown, no attempt has failed and an attempt is under way, so it is    *)
(* never started twice; and only an offline device has failed attempts.    *)
(***************************************************************************)
TimerWaitsForServer ==
  \A d \in Device :
    LET s == sessions[d]
    IN  /\ s.online.timer =>
             /\ s.online.state = "unknown"
             /\ ~s.online.failed
             /\ s.stream # "stopped"
        /\ s.online.failed => s.online.state = "offline"

(***************************************************************************)
(* Whenever a listener came, whatever it was not told of: the changes in   *)
(* its events add up to the documents of the view, and one that asked for  *)
(* metadata knows which documents are pending and whether the view is in   *)
(* sync.                                                                   *)
(***************************************************************************)
DataOf(docs) == [k \in DOMAIN docs |-> docs[k].data]

ChangesAddUp ==
  \A d \in Device :
    LET s == sessions[d]
    IN  \A l \in DOMAIN s.listeners :
          s.listeners[l].raised =>
            /\ s.listeners[l].shown = DataOf(s.view.docs)
            /\ l \in WithMetadata =>
                 /\ s.listeners[l].mutated = s.view.mutated
                 /\ s.listeners[l].fromCache = (s.view.sync # "synced")

(***************************************************************************)
(* A view differs from the local store only in documents it keeps showing  *)
(* as pending, because the watch stream has yet to bring their commit.     *)
(***************************************************************************)
Held(d, k) ==
  /\ k \in sessions[d].view.mutated
  /\ AheadOfWatch(d, k)

ViewShowsStore ==
  \A d \in Device : Listening(sessions[d]) =>
    LET docs == sessions[d].view.docs
    IN  \A k \in Key :
          \/ Held(d, k)
          \/ InQuery(View(d, k)) /\ k \in DOMAIN docs
               /\ docs[k].data = View(d, k).data
          \/ ~InQuery(View(d, k)) /\ k \notin DOMAIN docs

(***************************************************************************)
(* From the listener down to the local store: what the app has been told   *)
(* is the view, and the view is the store but for what it holds back.      *)
(***************************************************************************)
ListenersInvariant ==
  /\ ListenersTypeOK
  /\ ChangesAddUp
  /\ ViewShowsStore

(***************************************************************************)
(* A document shown as in sync and without pending writes is what the      *)
(* server had at the last snapshot.  Not so after a refused write: if an   *)
(* earlier one of the same document is acknowledged and held back, the     *)
(* change of the refused one makes the view forget that it waits.  Nor     *)
(* after a commit that changed nothing: its acknowledgement has an old     *)
(* version and is dropped, so that a document which the write had taken    *)
(* out of the query comes back as an earlier commit left it, unmarked.     *)
(***************************************************************************)
InSync(d) == Listening(sessions[d]) /\ sessions[d].view.sync = "synced"

EveryCommitChanged == Latest = Len(log) + 1

SyncedDocumentsAreServers ==
  faults.refuse = 0 /\ EveryCommitChanged => \A d \in Device : InSync(d) =>
    LET view == sessions[d].view
    IN  \A k \in DOMAIN view.docs \ view.mutated :
          view.docs[k].data = backend[seen[d]][k].data

(***************************************************************************)
(* Every listener is told something in the end, although the server may    *)
(* never answer.  Not so after a listener was removed: if it was the last  *)
(* while the stream was starting, nothing starts the timer for the next.   *)
(***************************************************************************)
Waiting(d, l) ==
  l \in DOMAIN sessions[d].listeners /\ ~sessions[d].listeners[l].raised

EventuallyRaised ==
  \A d \in Device, l \in Listener :
    []<>(upsets.remove = 0 => ~Waiting(d, l))
==============================================================================
