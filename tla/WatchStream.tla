----------------------------- MODULE WatchStream -----------------------------
(***************************************************************************)
(* How a query of the app follows the server: the watch stream with its    *)
(* requests and answers, WatchChangeAggregator, the bookkeeping of a       *)
(* target in LocalStore, the View of the query, and the resolution of      *)
(* documents in limbo by SyncEngine.  The query is one with a filter, such *)
(* as the list of chats: a document can be in it, out of it, or not exist. *)
(*                                                                         *)
(* Target QueryTarget is the query; the others are the ids SyncEngine      *)
(* gives to lookups of single documents, each used once.  Versions stand   *)
(* for snapshot versions, read times and resume tokens alike; 0 is none.   *)
(* The server is external: it answers a request with everything that       *)
(* brings its targets to its present version, and then with a snapshot.    *)
(***************************************************************************)
EXTENDS Integers, SequencesExt

CONSTANTS
  Key,                  \* documents of the collection
  MaxVersion,           \* bound: versions of the server
  MaxLimboTargets,      \* bound: lookups of documents in limbo
  MaxConcurrentLimbo,   \* max_concurrent_limbo_resolutions_
  MaxFaults             \* bounds: how often each kind of event happens

Fault == {"break", "kill", "offline", "listen", "stop", "remove", "filter",
          "reset", "deny"}

None == "none"

ASSUME BoundAssumption ==
  /\ MaxVersion \in Nat \ {0} /\ MaxLimboTargets \in Nat
  /\ MaxConcurrentLimbo \in Nat \ {0}
  /\ MaxFaults \in [Fault -> Nat]
  /\ IsFiniteSet(Key) /\ None \notin Key

QueryTarget == 0

LimboTarget == 1 .. MaxLimboTargets

Target == {QueryTarget} \cup LimboTarget

Kind == {"in", "out", None}

Missing == [version |-> 0, kind |-> None]

VARIABLES
  backend,  \* the server's documents at each version
  watched,  \* the version each target of the stream has been brought to
  wire,     \* messages of the server on the watch stream
  remote,   \* RemoteStore with its aggregator, and limbo resolution
  view,     \* the View of the query
  target,   \* the TargetData of the query in memory
  disk,     \* the caches of LocalStore
  at,       \* version the query was last brought to (history)
  faults

vars == <<backend, watched, wire, remote, view, target, disk, at, faults>>

Latest == Len(backend)

NewState ==
  [pending |-> 0, current |-> FALSE, dirty |-> FALSE, token |-> 0,
   changes |-> [k \in Key |-> None]]

NoUpdate == [version |-> 0 - 1, kind |-> None]

NewAggregator ==
  [states |-> [t \in Target |-> NewState],
   updates |-> [k \in Key |-> NoUpdate],
   mismatch |-> FALSE]

NewRemote ==
  [open |-> FALSE, requests |-> <<>>, aggregator |-> NewAggregator,
   token |-> [t \in Target |-> 0], keyOf |-> [t \in LimboTarget |-> None],
   received |-> {}, byKey |-> [k \in Key |-> 0], enqueued |-> <<>>,
   nextId |-> 1]

NewView ==
  [listening |-> FALSE, docs |-> {}, limbo |-> {}, current |-> FALSE,
   synced |-> FALSE]

NewTargetData == [token |-> 0, limboFree |-> 0]

Happens(kind) ==
  /\ faults[kind] < MaxFaults[kind]
  /\ faults' = [faults EXCEPT ![kind] = @ + 1]

-----------------------------------------------------------------------------
(***************************************************************************)
(* RemoteStore and SyncEngine: which targets are listened to, and which    *)
(* documents the server is known to have put into each.                    *)
(***************************************************************************)
Listened(r, t) ==
  IF t = QueryTarget THEN view.listening ELSE r.keyOf[t] # None

RemoteKeys(r, t) ==
  IF t = QueryTarget THEN disk.keys
  ELSE IF t \in r.received THEN {r.keyOf[t]} ELSE {}

WatchRequest(r, t) ==
  [type |-> "watch", target |-> t,
   key |-> IF t = QueryTarget THEN None ELSE r.keyOf[t], token |-> r.token[t]]

SendWatchRequest(r, t) ==
  IF r.open
  THEN [r EXCEPT !.aggregator.states[t].pending = @ + 1,
                 !.requests = Append(@, WatchRequest(r, t))]
  ELSE r

(* Mutant: the answers to requests of earlier listens are not awaited. *)
SendUnwatchUncounted(r, t) ==
  IF r.open
  THEN [r EXCEPT !.requests = Append(@, [type |-> "unwatch", target |-> t])]
  ELSE r

SendUnwatchRequest(r, t) ==
  IF r.open
  THEN [r EXCEPT !.aggregator.states[t].pending = @ + 1,
                 !.requests = Append(@, [type |-> "unwatch", target |-> t])]
  ELSE r

(***************************************************************************)
(* Lookups of documents in limbo: at most MaxConcurrentLimbo at a time,    *)
(* the rest wait in a queue.                                               *)
(***************************************************************************)
ActiveLimbo(r) == {k \in Key : r.byKey[k] # 0}

StartLimbo(r) ==
  LET key == Head(r.enqueued)
      t   == r.nextId
  IN  SendWatchRequest(
        [r EXCEPT !.enqueued = Tail(@),
                  !.nextId = @ + 1,
                  !.keyOf[t] = key,
                  !.token[t] = 0,
                  !.byKey[key] = IF @ = 0 THEN t ELSE @], t)

PumpEnqueuedLimboResolutions(r) ==
  LET pump[n \in 0 .. Len(r.enqueued)] ==
        LET p == IF n = 0 THEN r ELSE pump[n - 1]
        IN  IF n > 0 /\ p.enqueued # <<>> /\ p.nextId <= MaxLimboTargets
               /\ Cardinality(ActiveLimbo(p)) < MaxConcurrentLimbo
            THEN StartLimbo(p)
            ELSE p
  IN  pump[Len(r.enqueued)]

TrackLimboChange(r, key) ==
  IF r.byKey[key] = 0
  THEN PumpEnqueuedLimboResolutions([r EXCEPT !.enqueued = Append(@, key)])
  ELSE r

ForgetLimboTarget(r, t) ==
  [r EXCEPT !.keyOf[t] = None, !.received = @ \ {t}]

RemoveLimboTarget(r, key) ==
  LET t == r.byKey[key]
  IN  IF t = 0 THEN r
      ELSE PumpEnqueuedLimboResolutions(
             ForgetLimboTarget(
               SendUnwatchRequest([r EXCEPT !.byKey[key] = 0], t), t))

(***************************************************************************)
(* View::UpdateLimboDocuments and SyncEngine::UpdateTrackedLimboDocuments. *)
(***************************************************************************)
UpdateTrackedLimboDocuments(r, old, new) ==
  LET removed == SetToSeq(old \ new)
      added   == SetToSeq(new \ old)
      track[n \in 0 .. Len(removed) + Len(added)] ==
        IF n = 0 THEN r
        ELSE IF n <= Len(removed)
        THEN RemoveLimboTarget(track[n - 1], removed[n])
        ELSE TrackLimboChange(track[n - 1], added[n - Len(removed)])
  IN  track[Len(removed) + Len(added)]

-----------------------------------------------------------------------------
(***************************************************************************)
(* WatchChangeAggregator: messages are collected until a snapshot; those   *)
(* for a target with an unanswered request are not for its present listen. *)
(***************************************************************************)
IsActiveTarget(r, t) ==
  Listened(r, t) /\ r.aggregator.states[t].pending = 0

AddDocumentToTarget(state, key, known) ==
  [state EXCEPT !.dirty = TRUE,
                !.changes[key] = IF known THEN "modified" ELSE "added"]

RemoveDocumentFromTarget(state, key, known) ==
  [state EXCEPT !.dirty = TRUE,
                !.changes[key] = IF known THEN "removed" ELSE None]

Tells(m, r, t) == t \in m.updated \cup m.removed /\ IsActiveTarget(r, t)

HandleDocumentChange(r, m) ==
  LET After(t, state) ==
        IF t \in m.updated
        THEN AddDocumentToTarget(state, m.key, m.key \in RemoteKeys(r, t))
        ELSE RemoveDocumentFromTarget(state, m.key, m.key \in RemoteKeys(r, t))
  IN  [r EXCEPT
         !.aggregator.states =
           [t \in Target |-> IF Tells(m, r, t) THEN After(t, @[t]) ELSE @[t]],
         !.aggregator.updates[m.key] =
           IF m.doc # NoUpdate /\ \E t \in Target : Tells(m, r, t)
           THEN m.doc ELSE @]

(* Mutant: the documents the target had are kept. *)
ResetTargetKeepsKeys(r, t) ==
  [r EXCEPT !.aggregator.states[t] = NewState]

ResetTarget(r, t) ==
  [r EXCEPT !.aggregator.states[t] =
     [NewState EXCEPT !.dirty = TRUE,
                      !.changes = [k \in Key |-> IF k \in RemoteKeys(r, t)
                                                THEN "removed" ELSE None]]]

(* Mutant: what was collected for an earlier listen is kept. *)
TargetAddedKeepsChanges(r, t) ==
  [r EXCEPT !.aggregator.states[t].pending = @ - 1]

TargetAdded(r, t) ==
  LET state == [r.aggregator.states[t] EXCEPT !.pending = @ - 1]
  IN  [r EXCEPT !.aggregator.states[t] =
         IF state.pending = 0
         THEN [state EXCEPT !.dirty = FALSE,
                            !.changes = NewState.changes]
         ELSE state]

TargetRemoved(r, t) ==
  LET state == [r.aggregator.states[t] EXCEPT !.pending = @ - 1]
  IN  [r EXCEPT !.aggregator.states[t] =
         IF state.pending = 0 THEN NewState ELSE state]

TargetCurrent(r, t) ==
  IF IsActiveTarget(r, t)
  THEN [r EXCEPT !.aggregator.states[t] =
          [@ EXCEPT !.current = TRUE, !.dirty = TRUE]]
  ELSE r

TargetReset(r, t) == IF IsActiveTarget(r, t) THEN ResetTarget(r, t) ELSE r

DocumentCount(r) ==
  LET changes == r.aggregator.states[QueryTarget].changes
  IN  Cardinality(disk.keys)
        + Cardinality({k \in Key : changes[k] = "added"})
        - Cardinality({k \in Key : changes[k] = "removed"})

(* Mutant: the lookup is taken to have had the document. *)
DocumentIsGoneUnasked(r, t) ==
  [r EXCEPT
     !.aggregator.states[t] = RemoveDocumentFromTarget(@, r.keyOf[t], TRUE),
     !.aggregator.updates[r.keyOf[t]] = Missing]

(***************************************************************************)
(* A count that is not the one of the query resets it; a count of 0 for a  *)
(* lookup makes up the document as one that is not there.                  *)
(***************************************************************************)
DocumentIsGone(r, t) ==
  HandleDocumentChange(r, [type |-> "doc", key |-> r.keyOf[t], updated |-> {},
                           removed |-> {t}, doc |-> Missing])

HandleExistenceFilter(r, m) ==
  LET t == m.target
  IN  IF ~IsActiveTarget(r, t) THEN r
      ELSE IF t \in LimboTarget
      THEN IF m.count = 0 THEN DocumentIsGone(r, t) ELSE r
      ELSE IF DocumentCount(r) # m.count
      THEN [ResetTarget(r, t) EXCEPT !.aggregator.mismatch = TRUE]
      ELSE r

HandleWatchChange(r, m) ==
  CASE m.type = "added"   -> TargetAdded(r, m.target)
    [] m.type = "removed" -> TargetRemoved(r, m.target)
    [] m.type = "current" -> TargetCurrent(r, m.target)
    [] m.type = "reset"   -> TargetReset(r, m.target)
    [] m.type = "filter"  -> HandleExistenceFilter(r, m)
    [] m.type = "doc"     -> HandleDocumentChange(r, m)

(***************************************************************************)
(* A lookup that has become current without a document finds that the      *)
(* document does not exist.                                                *)
(***************************************************************************)
FindsNothing(r, t) ==
  /\ t \in LimboTarget
  /\ r.keyOf[t] # None
  /\ IsActiveTarget(r, t)
  /\ r.aggregator.states[t].current
  /\ r.aggregator.updates[r.keyOf[t]] = NoUpdate
  /\ r.keyOf[t] \notin RemoteKeys(r, t)

SynthesizeDeletes(r, v) ==
  [r EXCEPT
     !.aggregator.states =
       [t \in Target |-> IF FindsNothing(r, t)
                         THEN RemoveDocumentFromTarget(@[t], r.keyOf[t], FALSE)
                         ELSE @[t]],
     !.aggregator.updates =
       [k \in Key |->
          IF \E t \in LimboTarget : r.keyOf[t] = k /\ FindsNothing(r, t)
          THEN [version |-> v, kind |-> None]
          ELSE @[k]]]

(***************************************************************************)
(* RaiseWatchSnapshot: the active targets get the new resume token; a      *)
(* target whose count did not match is listened to anew without one.       *)
(***************************************************************************)
Changed(r, t) == IsActiveTarget(r, t) /\ r.aggregator.states[t].dirty

WithResumeTokens(r, v) ==
  [r EXCEPT !.aggregator.states =
     [t \in Target |-> IF IsActiveTarget(r, t)
                       THEN [@[t] EXCEPT !.token = v, !.dirty = TRUE]
                       ELSE @[t]]]

CreateRemoteEvent(r, v) == SynthesizeDeletes(WithResumeTokens(r, v), v)

ReceivedAfter(r, t) ==
  LET changes == Range(r.aggregator.states[t].changes)
  IN  IF Changed(r, t)
      THEN "added" \in changes \/ (t \in r.received /\ "removed" \notin changes)
      ELSE t \in r.received

(* Mutant: changes that a snapshot has raised stay with the target. *)
FlushedKeepsChanges(state) == [state EXCEPT !.dirty = FALSE]

Flushed(state) == [state EXCEPT !.dirty = FALSE, !.changes = NewState.changes]

AfterRemoteEvent(r) ==
  LET states == r.aggregator.states
  IN  [r EXCEPT
         !.token = [t \in Target |->
                      IF Changed(r, t) THEN states[t].token ELSE @[t]],
         !.received = {t \in LimboTarget : ReceivedAfter(r, t)},
         !.aggregator = [NewAggregator EXCEPT
                           !.states = [t \in Target |->
                                         IF Changed(r, t)
                                         THEN Flushed(states[t])
                                         ELSE states[t]]]]

ReestablishListen(r, mismatch) ==
  IF mismatch /\ view.listening
  THEN SendWatchRequest(
         SendUnwatchRequest([r EXCEPT !.token[QueryTarget] = 0], QueryTarget),
         QueryTarget)
  ELSE r

-----------------------------------------------------------------------------
(***************************************************************************)
(* LocalStore::ApplyRemoteEvent on the documents, and the view of them.    *)
(***************************************************************************)
Accepted(updates, k) ==
  /\ updates[k] # NoUpdate
  /\ updates[k] = Missing \/ updates[k].version > disk.cache[k].version

Cached(doc, read) ==
  [version |-> doc.version, kind |-> doc.kind, read |-> read]

CacheAfter(updates, v) ==
  [k \in Key |-> IF Accepted(updates, k) THEN Cached(updates[k], v)
                 ELSE disk.cache[k]]

DocsAfter(updates) ==
  {k \in Key : IF Accepted(updates, k) THEN updates[k].kind = "in"
               ELSE k \in view.docs}

KeysAfter(changes) ==
  (disk.keys \ {k \in Key : changes[k] = "removed"})
    \cup {k \in Key : changes[k] = "added"}

(* Mutant: documents in limbo do not keep a view from being in sync. *)
ViewAfterIgnoringLimbo(docs, keys, current) ==
  [view EXCEPT !.docs = docs, !.current = current, !.limbo = {},
               !.synced = current]

ViewAfter(docs, keys, current) ==
  LET limbo == IF current THEN docs \ keys ELSE view.limbo
  IN  [view EXCEPT !.docs = docs, !.current = current, !.limbo = limbo,
                   !.synced = current /\ limbo = {}]

(***************************************************************************)
(* A view that has not changed raises no snapshot.  One that is in sync    *)
(* marks the version from which later queries can go on.                   *)
(***************************************************************************)
Raised(updates, after) ==
  \/ \E k \in view.docs \cup after.docs : Accepted(updates, k)
  \/ after.synced # view.synced

LimboFreeAfter(updates, after, token) ==
  IF Raised(updates, after) /\ after.synced THEN token ELSE target.limboFree

(***************************************************************************)
(* A remote event with changes of the query at version v, or with none.    *)
(* The target data goes to disk when documents came or went with it, and   *)
(* otherwise when it has not for some time.                                *)
(***************************************************************************)
NoChanges == NewState.changes

ApplyRemoteEvent(r, updates, touched, state, v) ==
  LET changes == IF touched THEN state.changes ELSE NoChanges
      keys    == KeysAfter(changes)
      token   == IF touched THEN state.token ELSE target.token
      after   == IF view.listening
                 THEN ViewAfter(DocsAfter(updates), keys,
                                IF touched THEN state.current
                                ELSE view.current)
                 ELSE view
  IN  /\ view' = after
      /\ remote' = UpdateTrackedLimboDocuments(r, view.limbo, after.limbo)
      /\ target' = IF view.listening
                   THEN [token |-> token,
                         limboFree |-> LimboFreeAfter(updates, after, token)]
                   ELSE target
      /\ \E persist \in BOOLEAN :
           /\ changes # NoChanges \/ (touched /\ target.token = 0) => persist
           /\ ~touched => ~persist
           /\ disk' = [cache |-> CacheAfter(updates, v),
                       keys |-> keys,
                       seen |-> IF v = 0 THEN disk.seen ELSE v,
                       token |-> IF persist THEN token ELSE disk.token,
                       limboFree |-> IF persist THEN target.limboFree
                                     ELSE disk.limboFree]
      /\ at' = IF touched THEN v ELSE at

(***************************************************************************)
(* A target stops being listened to: LocalStore keeps its data.            *)
(***************************************************************************)
ReleaseTarget(r) ==
  /\ remote' = UpdateTrackedLimboDocuments(r, view.limbo, {})
  /\ view' = NewView
  /\ target' = NewTargetData
  /\ disk' = [disk EXCEPT !.token = target.token,
                          !.limboFree = target.limboFree]
  /\ UNCHANGED at

-----------------------------------------------------------------------------
(***************************************************************************)
(* The app listens to the query: documents come from the cache first, only *)
(* those that were in the target or have been read since it was in sync.   *)
(***************************************************************************)
FullScan == {k \in Key : disk.cache[k].kind = "in"}

(* Mutant: documents read since then are not looked for. *)
ExecuteQueryOldKeys ==
  IF disk.limboFree = 0 THEN FullScan ELSE FullScan \cap disk.keys

ExecuteQuery ==
  IF disk.limboFree = 0
  THEN FullScan
  ELSE {k \in FullScan : k \in disk.keys
                         \/ disk.cache[k].read > disk.limboFree}

Listen ==
  /\ ~view.listening
  /\ Happens("listen")
  /\ view' = [NewView EXCEPT !.listening = TRUE, !.docs = ExecuteQuery]
  /\ target' = [token |-> disk.token, limboFree |-> disk.limboFree]
  /\ remote' = SendWatchRequest([remote EXCEPT !.token[QueryTarget] = disk.token],
                                QueryTarget)
  /\ at' = 0
  /\ UNCHANGED <<backend, watched, wire, disk>>

StopListening ==
  /\ view.listening
  /\ Happens("stop")
  /\ ReleaseTarget(SendUnwatchRequest(remote, QueryTarget))
  /\ UNCHANGED <<backend, watched, wire>>

(***************************************************************************)
(* The stream opens when there is something to listen to, and asks for all *)
(* of it; it is closed when idle, and when the connection breaks.          *)
(***************************************************************************)
ListenedTargets == {t \in Target : Listened(remote, t)}

RecordPendingTargetRequest(state) == [state EXCEPT !.pending = @ + 1]

(* Mutant: a stream that opens does not ask for what is listened to. *)
OnWatchStreamOpenSilently ==
  /\ ~remote.open
  /\ ListenedTargets # {}
  /\ remote' = [remote EXCEPT !.open = TRUE]
  /\ UNCHANGED <<backend, watched, wire, view, target, disk, at, faults>>

OnWatchStreamOpen ==
  /\ ~remote.open
  /\ ListenedTargets # {}
  /\ \E order \in SetToSeqs(ListenedTargets) :
       remote' = [remote EXCEPT
                    !.open = TRUE,
                    !.requests = [i \in DOMAIN order |->
                                    WatchRequest(remote, order[i])],
                    !.aggregator.states =
                      [t \in Target |->
                         IF t \in ListenedTargets
                         THEN RecordPendingTargetRequest(@[t]) ELSE @[t]]]
  /\ UNCHANGED <<backend, watched, wire, view, target, disk, at, faults>>

Closed(r) ==
  [r EXCEPT !.open = FALSE, !.requests = <<>>, !.aggregator = NewAggregator]

OnWatchStreamClose ==
  /\ remote.open
  /\ \/ ListenedTargets = {} /\ UNCHANGED faults
     \/ Happens("break")
  /\ remote' = Closed(remote)
  /\ wire' = <<>>
  /\ watched' = <<>>
  /\ UNCHANGED <<backend, view, target, disk, at>>

(***************************************************************************)
(* The connection does not come back for a while: the views fall out of    *)
(* sync.                                                                   *)
(***************************************************************************)
HandleOnlineStateChange ==
  /\ ~remote.open
  /\ view.current
  /\ Happens("offline")
  /\ view' = [view EXCEPT !.current = FALSE, !.synced = FALSE]
  /\ UNCHANGED <<backend, watched, wire, remote, target, disk, at>>

(***************************************************************************)
(* The app ends; only what is on disk remains.                             *)
(***************************************************************************)
Kill ==
  /\ Happens("kill")
  /\ remote' = NewRemote
  /\ view' = NewView
  /\ target' = NewTargetData
  /\ wire' = <<>>
  /\ watched' = <<>>
  /\ UNCHANGED <<backend, disk, at>>

(***************************************************************************)
(* A message of the stream.                                                *)
(***************************************************************************)
HandleChange(m) ==
  /\ m.type \notin {"snapshot", "error"}
  /\ remote' = HandleWatchChange(remote, m)
  /\ UNCHANGED <<view, target, disk, at>>

RaiseWatchSnapshot(m) ==
  LET event   == CreateRemoteEvent(remote, m.version)
      touched == Changed(event, QueryTarget)
      state   == event.aggregator.states[QueryTarget]
  IN  /\ m.type = "snapshot"
      /\ m.version >= disk.seen
      /\ ApplyRemoteEvent(ReestablishListen(AfterRemoteEvent(event),
                                            event.aggregator.mismatch),
                          event.aggregator.updates, touched, state, m.version)

IgnoreSnapshot(m) ==
  /\ m.type = "snapshot"
  /\ m.version < disk.seen
  /\ remote' = WithResumeTokens(remote, m.version)
  /\ UNCHANGED <<view, target, disk, at>>

(***************************************************************************)
(* The server ends a target with an error.  The document of a lookup is    *)
(* taken out of the cache; the query is given up.                          *)
(***************************************************************************)
HandleRejectedListen(t) ==
  LET r   == [remote EXCEPT !.aggregator.states[t] = NewState]
      key == remote.keyOf[t]
  IN  IF t = QueryTarget
      THEN ReleaseTarget(r)
      ELSE ApplyRemoteEvent(
             PumpEnqueuedLimboResolutions(
               ForgetLimboTarget([r EXCEPT !.byKey[key] = 0], t)),
             [k \in Key |-> IF k = key THEN Missing ELSE NoUpdate],
             FALSE, NewState, 0)

ProcessTargetError(m) ==
  /\ m.type = "error"
  /\ IF Listened(remote, m.target)
     THEN HandleRejectedListen(m.target)
     ELSE UNCHANGED <<remote, view, target, disk, at>>

OnWatchStreamChange ==
  /\ wire # <<>>
  /\ wire' = Tail(wire)
  /\ \/ HandleChange(Head(wire))
     \/ RaiseWatchSnapshot(Head(wire))
     \/ IgnoreSnapshot(Head(wire))
     \/ ProcessTargetError(Head(wire))
  /\ UNCHANGED <<backend, watched, faults>>

-----------------------------------------------------------------------------
(***************************************************************************)
(* The server.  A document changes; it may come into the query or leave.   *)
(***************************************************************************)
ServerWrite(k, kind) ==
  /\ Latest < MaxVersion
  /\ kind # None \/ backend[Latest][k].kind # None
  /\ backend' = Append(backend, [backend[Latest] EXCEPT
                                   ![k] = [version |-> Latest + 1,
                                           kind |-> kind]])
  /\ UNCHANGED <<watched, wire, remote, view, target, disk, at, faults>>

(***************************************************************************)
(* What the server tells of document k to the targets of w, a part of      *)
(* watched: documents that left the query come with their new contents,    *)
(* or just as removed.                                                     *)
(***************************************************************************)
InTarget(t, doc) ==
  IF t = QueryTarget THEN doc.kind = "in" ELSE doc.kind # None

Before(k, v) == IF v = 0 THEN Missing ELSE backend[v][k]

News(k, w) ==
  {t \in DOMAIN w : /\ w[t].key \in {k, None}
                    /\ backend[Latest][k].version > w[t].version}

Updated(k, w) == {t \in News(k, w) : InTarget(t, backend[Latest][k])}

Removed(k, w) ==
  {t \in News(k, w) \ Updated(k, w) : InTarget(t, Before(k, w[t].version))}

DocumentMessage(k, w, silent) ==
  [type |-> "doc", key |-> k, updated |-> Updated(k, w),
   removed |-> Removed(k, w),
   doc |-> IF silent /\ Updated(k, w) = {} /\ backend[Latest][k].kind # None
           THEN NoUpdate ELSE backend[Latest][k]]

Messages(keys, w, silent) ==
  LET order == SetToSeq(keys)
  IN  [i \in DOMAIN order |-> DocumentMessage(order[i], w, silent)]

DocumentMessages(w, silent) ==
  Messages({k \in Key : Updated(k, w) \cup Removed(k, w) # {}}, w, silent)

UpdateMessages(w) == Messages({k \in Key : Updated(k, w) # {}}, w, FALSE)

Snapshot == <<[type |-> "snapshot", version |-> Latest]>>

UpToDate(w) == [t \in DOMAIN w |-> [w[t] EXCEPT !.version = Latest]]

(***************************************************************************)
(* The targets of the stream are brought to the present version.           *)
(***************************************************************************)
Push ==
  /\ \E t \in DOMAIN watched : watched[t].version < Latest
  /\ \E silent \in BOOLEAN :
       /\ IF silent THEN Happens("remove") ELSE UNCHANGED faults
       /\ wire' = wire \o DocumentMessages(watched, silent) \o Snapshot
  /\ watched' = UpToDate(watched)
  /\ UNCHANGED <<backend, remote, view, target, disk, at>>

(***************************************************************************)
(* A target is added.  When it resumes, the server may not know any more   *)
(* which documents have left it: then it says how many there are, or       *)
(* starts again.  A document the user may not read is refused.             *)
(***************************************************************************)
TargetMessage(type, t) == <<[type |-> type, target |-> t]>>

Only(t, key, version) == [s \in {t} |-> [key |-> key, version |-> version]]

Watching(w, m) ==
  [t \in DOMAIN w \cup {m.target} |->
     [key |-> IF t \in DOMAIN w THEN w[t].key ELSE m.key, version |-> Latest]]

CountFilter(m) ==
  <<[type |-> "filter", target |-> m.target,
     count |-> Cardinality({k \in Key :
                              /\ m.key \in {k, None}
                              /\ InTarget(m.target, backend[Latest][k])})]>>

InitialDocuments(m, token) ==
  DocumentMessages(Only(m.target, m.key, token), FALSE)

AddTarget(m) ==
  \/ /\ UNCHANGED faults
     /\ wire' = wire \o DocumentMessages(watched, FALSE)
                  \o TargetMessage("added", m.target)
                  \o InitialDocuments(m, m.token)
                  \o TargetMessage("current", m.target) \o Snapshot
  \/ /\ m.token > 0
     /\ Happens("filter")
     /\ wire' = wire \o DocumentMessages(watched, FALSE)
                  \o TargetMessage("added", m.target)
                  \o UpdateMessages(Only(m.target, m.key, m.token))
                  \o CountFilter(m)
                  \o TargetMessage("current", m.target) \o Snapshot
  \/ /\ m.token > 0
     /\ Happens("reset")
     /\ wire' = wire \o DocumentMessages(watched, FALSE)
                  \o TargetMessage("added", m.target)
                  \o TargetMessage("reset", m.target)
                  \o InitialDocuments(m, 0)
                  \o TargetMessage("current", m.target) \o Snapshot

RefuseTarget(m) ==
  /\ m.target # QueryTarget => backend[Latest][m.key].kind # "in"
  /\ Happens("deny")
  /\ wire' = wire \o TargetMessage("error", m.target)
  /\ UNCHANGED watched

Serve ==
  LET m == Head(remote.requests)
  IN  /\ remote.requests # <<>>
      /\ remote' = [remote EXCEPT !.requests = Tail(@)]
      /\ \/ /\ m.type = "watch"
            /\ AddTarget(m)
            /\ watched' = Watching(watched, m)
         \/ m.type = "watch" /\ RefuseTarget(m)
         \/ /\ m.type = "unwatch"
            /\ wire' = wire \o TargetMessage("removed", m.target)
            /\ watched' = Restrict(watched, DOMAIN watched \ {m.target})
            /\ UNCHANGED faults
      /\ UNCHANGED <<backend, view, target, disk, at>>

Init ==
  /\ backend = <<[k \in Key |-> [version |-> 1, kind |-> "in"]]>>
  /\ watched = <<>>
  /\ wire = <<>>
  /\ remote = NewRemote
  /\ view = NewView
  /\ target = NewTargetData
  /\ disk = [cache |-> [k \in Key |-> Cached(Missing, 0)], keys |-> {},
             seen |-> 0, token |-> 0, limboFree |-> 0]
  /\ at = 0
  /\ faults = [f \in Fault |-> 0]

Next ==
  \/ Listen
  \/ StopListening
  \/ OnWatchStreamOpen
  \/ OnWatchStreamClose
  \/ HandleOnlineStateChange
  \/ Kill
  \/ OnWatchStreamChange
  \/ \E k \in Key, kind \in Kind : ServerWrite(k, kind)
  \/ Push
  \/ Serve

Spec == Init /\ [][Next]_vars

(***************************************************************************)
(* Streams are opened again with backoff for as long as they are needed,   *)
(* messages that have arrived are handled, and the server answers; faults  *)
(* are bounded.  OnWatchStreamChange, and a closed stream with its last    *)
(* message, take the first of wire.                                        *)
(***************************************************************************)
Fairness ==
  /\ WF_vars(OnWatchStreamOpen)
  /\ WF_wire(wire # <<>> /\ wire' = Tail(wire))
  /\ WF_vars(Serve)
  /\ WF_vars(Push)

FairSpec == Spec /\ Fairness

-----------------------------------------------------------------------------
ServerDocument == [version : 0 .. MaxVersion, kind : Kind]

DocumentUpdate == ServerDocument \cup {NoUpdate}

Change == {None, "added", "modified", "removed"}

TargetState ==
  [pending : Int, current : BOOLEAN, dirty : BOOLEAN, token : 0 .. MaxVersion,
   changes : [Key -> Change]]

WatchAggregator ==
  [states : [Target -> TargetState], updates : [Key -> DocumentUpdate],
   mismatch : BOOLEAN]

Request ==
  [type : {"watch"}, target : Target, key : Key \cup {None},
   token : 0 .. MaxVersion]
    \cup [type : {"unwatch"}, target : Target]

RemoteState ==
  [open : BOOLEAN, requests : Seq(Request), aggregator : WatchAggregator,
   token : [Target -> 0 .. MaxVersion],
   keyOf : [LimboTarget -> Key \cup {None}], received : SUBSET LimboTarget,
   byKey : [Key -> 0 .. MaxLimboTargets], enqueued : Seq(Key),
   nextId : 1 .. MaxLimboTargets + 1]

Message ==
  [type : {"added", "removed", "current", "reset", "error"}, target : Target]
    \cup [type : {"filter"}, target : Target, count : Nat]
    \cup [type : {"doc"}, key : Key, updated : SUBSET Target,
          removed : SUBSET Target, doc : DocumentUpdate]
    \cup [type : {"snapshot"}, version : 0 .. MaxVersion]

(***************************************************************************)
(* Types.  outstanding_responses_ is never negative unless a listen was    *)
(* denied: then the count is forgotten with the target, and answers to     *)
(* earlier requests for the same target are still on their way.            *)
(***************************************************************************)
TypeOK ==
  /\ backend \in Seq([Key -> ServerDocument]) /\ Latest \in 1 .. MaxVersion
  /\ DOMAIN watched \subseteq Target
  /\ \A t \in DOMAIN watched :
       watched[t] \in [key : Key \cup {None}, version : 0 .. MaxVersion]
  /\ wire \in Seq(Message)
  /\ remote \in RemoteState
  /\ view \in [listening : BOOLEAN, docs : SUBSET Key, limbo : SUBSET Key,
               current : BOOLEAN, synced : BOOLEAN]
  /\ target \in [token : 0 .. MaxVersion, limboFree : 0 .. MaxVersion]
  /\ disk \in [cache : [Key -> [version : 0 .. MaxVersion, kind : Kind,
                                read : 0 .. MaxVersion]],
               keys : SUBSET Key, seen : 0 .. MaxVersion,
               token : 0 .. MaxVersion, limboFree : 0 .. MaxVersion]
  /\ at \in 0 .. MaxVersion
  /\ faults \in [Fault -> Nat]
  /\ faults["deny"] = 0 =>
       \A t \in Target : remote.aggregator.states[t].pending \in Nat

(***************************************************************************)
(* A view that is said not to be from the cache agrees with the server:    *)
(* each document is in it or not, with its contents, as it was at one      *)
(* moment between the version the query was last brought to and the newest *)
(* one the client has seen (lookups of single documents may be ahead).  No *)
(* document of an earlier listen is left in the view or lost from it.      *)
(***************************************************************************)
AsOf(k, v) ==
  /\ k \in view.docs <=> backend[v][k].kind = "in"
  /\ k \in view.docs => disk.cache[k].version = backend[v][k].version

SyncedIsServer ==
  view.listening /\ view.synced =>
    \A k \in Key : \E v \in at .. disk.seen : AsOf(k, v)

(***************************************************************************)
(* The assertions of View::ApplyTargetChange and of SyncEngine::           *)
(* ApplyRemoteEvent cannot fail: when a snapshot is raised, a change says  *)
(* modified or removed only for a document that is known in the target.    *)
(***************************************************************************)
Fits(changes, keys) ==
  \A k \in Key : changes[k] # None => (changes[k] = "added" <=> k \notin keys)

ChangesFit ==
  \A t \in Target : IsActiveTarget(remote, t) =>
    Fits(remote.aggregator.states[t].changes, RemoteKeys(remote, t))

(***************************************************************************)
(* The shortcut of IndexFreeQueryEngine, which looks only at the keys and  *)
(* read times of the last snapshot in sync, leaves out no cached document  *)
(* that the server has in the query, with these contents, at the version   *)
(* the next listen resumes at or later: nothing would bring it back.  This *)
(* is so unless a count did not match: then LocalStore has emptied keys.   *)
(***************************************************************************)
QueryMissesNothing ==
  disk.token > 0 /\ faults["filter"] = 0 =>
    \A k \in FullScan \ ExecuteQuery : \A v \in disk.token .. Latest :
      backend[v][k].version # disk.cache[k].version

(***************************************************************************)
(* While the app listens, the view comes in sync with the server.          *)
(***************************************************************************)
EventuallySynced ==
  <>[](view.listening => view.synced /\ at = Latest)
==============================================================================
