--------------------------- MODULE FirestoreClient ---------------------------
(***************************************************************************)
(* The path of a write through the Firestore SDK, and of the server's      *)
(* state back to the device: the worker queue of FirestoreClient, the      *)
(* mutation queue and the document cache of LocalStore (both on disk), the *)
(* write pipeline and the streams of RemoteStore, and the completion       *)
(* handlers SyncEngine sends to the main queue.  The server is external:   *)
(* it commits the writes of a stream one at a time, in the order sent.     *)
(*                                                                         *)
(* The pipeline is the first MaxPendingWrites batches of the mutation      *)
(* queue (FillWritePipeline keeps it so).  responses[d] is what the server *)
(* said of the first batches of it on the stream now open, not yet         *)
(* received; when the stream breaks they are lost and the pipeline is sent *)
(* again, because the handshake carries no stream token.                   *)
(***************************************************************************)
EXTENDS Documents, SequencesExt

CONSTANTS
  Device,            \* running copies of the app, each with a user signed in
  Key,               \* paths of documents
  Write,             \* the writes the app may make
  Program,           \* the sequences of writes one user action makes
  InitialDocuments,  \* the server's documents at version 1
  MaxCalls,          \* bound: writes a device makes
  MaxPendingWrites,  \* kMaxPendingWrites
  MaxFaults          \* bounds: broken streams, killed apps, refused writes

Fault == {"break", "kill", "refuse"}

ASSUME WriteAssumption ==
  \A w \in Write :
    /\ w.key \in Key
    /\ w.kind \in Kinds
    /\ \A f \in DOMAIN w.transforms : w.transforms[f].op \in TransformOps

ASSUME ProgramAssumption == Program \subseteq Seq(Write)

ASSUME InitialAssumption ==
  /\ DOMAIN InitialDocuments = Key
  /\ \A k \in Key :
       LET doc == InitialDocuments[k]
       IN  /\ doc.state = "synced"
           /\ \/ doc.type = "none" /\ doc.version = 0 /\ doc.data = <<>>
              \/ doc.type = "document" /\ doc.version = 1

ASSUME BoundAssumption ==
  /\ MaxCalls \in [Device -> Nat]
  /\ MaxPendingWrites \in Nat \ {0}
  /\ MaxFaults \in [Fault -> Nat]

VARIABLES
  backend,    \* the server's documents at each version so far
  log,        \* the writes the server committed, with repetitions
  made,       \* how many writes each device has made
  calls,      \* writes waiting on the worker queue, in memory
  queue,      \* the mutation queue, on disk
  responses,  \* what the server answered on the write stream
  cache,      \* the remote document cache, on disk
  seen,       \* version of the last watch snapshot applied
  main,       \* completion handlers waiting on the main queue
  faults      \* how many faults there have been

clientVars == <<backend, log, made, calls, queue, responses, cache, seen, main,
                faults>>

Latest == Len(backend)

(***************************************************************************)
(* A call of setData or updateData: the nth write of its device.  live     *)
(* tells whether its completion handler is still in memory.                *)
(***************************************************************************)
Batch == [n : Nat, write : Write, live : BOOLEAN]

Answer == [ok : BOOLEAN, version : Nat]

Handler == [n : Nat, write : Write, ok : BOOLEAN]

Batches(ws, n) ==
  [i \in 1 .. Len(ws) |-> [n |-> n + i, write |-> ws[i], live |-> TRUE]]

FaultHappens(kind) ==
  /\ faults[kind] < MaxFaults[kind]
  /\ faults' = [faults EXCEPT ![kind] = @ + 1]

(***************************************************************************)
(* The main thread makes the writes ws: FirestoreClient::WriteMutations    *)
(* puts each of them on the worker queue and returns.                      *)
(***************************************************************************)
Enqueue(d, ws) ==
  /\ made[d] + Len(ws) <= MaxCalls[d]
  /\ made' = [made EXCEPT ![d] = @ + Len(ws)]
  /\ calls' = [calls EXCEPT ![d] = @ \o Batches(ws, made[d])]

Call(d, ws) ==
  /\ Enqueue(d, ws)
  /\ UNCHANGED <<backend, log, queue, responses, cache, seen, main, faults>>

(***************************************************************************)
(* The worker queue runs the next write: WriteLocally stores the batch.    *)
(***************************************************************************)
WriteLocally(d) ==
  /\ calls[d] # <<>>
  /\ queue' = [queue EXCEPT ![d] = Append(@, Head(calls[d]))]
  /\ calls' = [calls EXCEPT ![d] = Tail(@)]
  /\ UNCHANGED <<backend, log, made, responses, cache, seen, main, faults>>

(***************************************************************************)
(* The server takes the next batch of the pipeline.  An error closes the   *)
(* stream, so nothing after it is taken before the client has seen it.     *)
(***************************************************************************)
Accepted(version) == [ok |-> TRUE, version |-> version]

Error == [ok |-> FALSE, version |-> 0]

StreamOpen(d) == \A i \in DOMAIN responses[d] : responses[d][i].ok

(* Mutant: the last batch of the queue is taken to be sent already. *)
CanSendOffByOne(d) ==
  /\ StreamOpen(d)
  /\ Len(responses[d]) < MaxPendingWrites
  /\ Len(responses[d]) + 1 < Len(queue[d])

CanSend(d) ==
  /\ StreamOpen(d)
  /\ Len(responses[d]) < MaxPendingWrites
  /\ Len(responses[d]) < Len(queue[d])

(* Mutant: the pipeline is filled from the wrong end. *)
NextSentNewest(d) == queue[d][Len(queue[d]) - Len(responses[d])]

NextSent(d) == queue[d][Len(responses[d]) + 1]

Commit(d) ==
  LET batch   == NextSent(d)
      current == backend[Latest][batch.write.key]
      doc     == ServerApply(batch.write, current, Latest + 1)
  IN  /\ CanSend(d)
      /\ IsValidFor(batch.write, current)
      /\ backend' = IF doc = current
                    THEN backend
                    ELSE Append(backend, [backend[Latest] EXCEPT
                                            ![batch.write.key] = doc])
      /\ log' = Append(log, <<d, batch.n>>)
      /\ responses' = [responses EXCEPT
                         ![d] = Append(@, Accepted(doc.version))]
      /\ UNCHANGED <<made, calls, queue, cache, seen, main, faults>>

Refuse(d) ==
  /\ CanSend(d)
  /\ \/ /\ ~IsValidFor(NextSent(d).write,
                       backend[Latest][NextSent(d).write.key])
        /\ UNCHANGED faults
     \/ FaultHappens("refuse")
  /\ responses' = [responses EXCEPT ![d] = Append(@, Error)]
  /\ UNCHANGED <<backend, log, made, calls, queue, cache, seen, main>>

(***************************************************************************)
(* The completion handler of a batch goes to the main queue.  Batches      *)
(* restored from disk have none.                                           *)
(***************************************************************************)
(* Mutant: the handler is not told of the error. *)
NotifyUserOfSuccess(d, batch, ok) ==
  main' = IF batch.live
          THEN [main EXCEPT ![d] =
                  Append(@, [n |-> batch.n, write |-> batch.write,
                             ok |-> TRUE])]
          ELSE main

NotifyUser(d, batch, ok) ==
  main' = IF batch.live
          THEN [main EXCEPT ![d] =
                  Append(@, [n |-> batch.n, write |-> batch.write, ok |-> ok])]
          ELSE main

(***************************************************************************)
(* The client receives a commit: the result is applied to the cached       *)
(* document unless the watch stream already brought that version.          *)
(***************************************************************************)
(* Mutant: the version of the cached document is not looked at. *)
ApplyBatchResultAlways(write, doc, version) ==
  ApplyToRemoteDocument(write, doc, version)

ApplyBatchResult(write, doc, version) ==
  IF doc.version < version
  THEN ApplyToRemoteDocument(write, doc, version)
  ELSE doc

AcknowledgeBatch(d) ==
  LET batch == Head(queue[d])
      key   == batch.write.key
  IN  /\ responses[d] # <<>>
      /\ Head(responses[d]).ok
      /\ NotifyUser(d, batch, TRUE)
      /\ cache' = [cache EXCEPT ![d][key] =
                     ApplyBatchResult(batch.write, @,
                                      Head(responses[d]).version)]
      /\ queue' = [queue EXCEPT ![d] = Tail(@)]
      /\ responses' = [responses EXCEPT ![d] = Tail(@)]
      /\ UNCHANGED <<backend, log, made, calls, seen, faults>>

(***************************************************************************)
(* The client receives a permanent error: the batch is dropped and the     *)
(* stream is opened again for the rest.                                    *)
(***************************************************************************)
RejectBatch(d) ==
  /\ responses[d] # <<>>
  /\ ~Head(responses[d]).ok
  /\ NotifyUser(d, Head(queue[d]), FALSE)
  /\ queue' = [queue EXCEPT ![d] = Tail(@)]
  /\ responses' = [responses EXCEPT ![d] = <<>>]
  /\ UNCHANGED <<backend, log, made, calls, cache, seen, faults>>

(***************************************************************************)
(* The stream fails with a transient error before the answers arrive.      *)
(***************************************************************************)
(* Mutant: a batch that was not answered goes to the end of the queue. *)
BreakStreamRequeues(d) ==
  /\ responses[d] # <<>>
  /\ FaultHappens("break")
  /\ responses' = [responses EXCEPT ![d] = <<>>]
  /\ queue' = [queue EXCEPT ![d] = Append(Tail(@), Head(@))]
  /\ UNCHANGED <<backend, log, made, calls, cache, seen, main>>

BreakStream(d) ==
  /\ responses[d] # <<>>
  /\ FaultHappens("break")
  /\ responses' = [responses EXCEPT ![d] = <<>>]
  /\ UNCHANGED <<backend, log, made, calls, queue, cache, seen, main>>

(***************************************************************************)
(* A watch snapshot brings the documents as they were at version v.        *)
(***************************************************************************)
(* Mutants: the version is not looked at; a committed document is kept. *)
AcceptsEveryUpdate(doc, update) == TRUE

AcceptsNewerUpdate(doc, update) == update.version > doc.version

AcceptsWatchUpdate(doc, update) ==
  \/ update.version > doc.version
  \/ update.version = doc.version /\ HasPendingWrites(doc)

ApplyRemoteEvent(d, v) ==
  /\ v \in seen[d] + 1 .. Latest
  /\ cache' = [cache EXCEPT ![d] =
                 [k \in Key |-> IF AcceptsWatchUpdate(@[k], backend[v][k])
                                THEN backend[v][k]
                                ELSE @[k]]]
  /\ seen' = [seen EXCEPT ![d] = v]
  /\ UNCHANGED <<backend, log, made, calls, queue, responses, main, faults>>

(***************************************************************************)
(* The main queue runs a completion handler, which makes the writes ws.    *)
(***************************************************************************)
Complete(d, ws) ==
  /\ main[d] # <<>>
  /\ main' = [main EXCEPT ![d] = Tail(@)]
  /\ Enqueue(d, ws)
  /\ UNCHANGED <<backend, log, queue, responses, cache, seen, faults>>

(***************************************************************************)
(* iOS or the user ends the app, and it is started again: what was in      *)
(* memory is gone, what was on disk is sent on the next stream.            *)
(***************************************************************************)
(* Mutant: the mutation queue is in memory. *)
KillLosesQueue(d) ==
  /\ FaultHappens("kill")
  /\ calls' = [calls EXCEPT ![d] = <<>>]
  /\ queue' = [queue EXCEPT ![d] = <<>>]
  /\ responses' = [responses EXCEPT ![d] = <<>>]
  /\ main' = [main EXCEPT ![d] = <<>>]
  /\ UNCHANGED <<backend, log, made, cache, seen>>

Kill(d) ==
  /\ FaultHappens("kill")
  /\ calls' = [calls EXCEPT ![d] = <<>>]
  /\ queue' = [queue EXCEPT ![d] =
                 [i \in DOMAIN @ |-> [@[i] EXCEPT !.live = FALSE]]]
  /\ responses' = [responses EXCEPT ![d] = <<>>]
  /\ main' = [main EXCEPT ![d] = <<>>]
  /\ UNCHANGED <<backend, log, made, cache, seen>>

Init ==
  /\ backend = <<InitialDocuments>>
  /\ log = <<>>
  /\ made = [d \in Device |-> 0]
  /\ calls = [d \in Device |-> <<>>]
  /\ queue = [d \in Device |-> <<>>]
  /\ responses = [d \in Device |-> <<>>]
  /\ cache = [d \in Device |-> InitialDocuments]
  /\ seen = [d \in Device |-> 1]
  /\ main = [d \in Device |-> <<>>]
  /\ faults = [f \in Fault |-> 0]

(***************************************************************************)
(* The steps the SDK and the server take on their own.                     *)
(***************************************************************************)
Background(d) ==
  \/ WriteLocally(d)
  \/ Commit(d)
  \/ Refuse(d)
  \/ AcknowledgeBatch(d)
  \/ RejectBatch(d)
  \/ BreakStream(d)
  \/ \E v \in 1 .. Latest : ApplyRemoteEvent(d, v)

Next ==
  \E d \in Device :
    \/ \E ws \in Program : Call(d, ws)
    \/ \E ws \in Program \cup {<<>>} : Complete(d, ws)
    \/ Background(d)
    \/ Kill(d)

Spec == Init /\ [][Next]_clientVars

(***************************************************************************)
(* The queues are served and the network comes back: the worker and main   *)
(* queues run what is put on them, and the streams reconnect with backoff  *)
(* for as long as there is something to send or to watch.                  *)
(***************************************************************************)
BackgroundFairness(d) ==
  /\ WF_clientVars(WriteLocally(d))
  /\ WF_clientVars(Commit(d) \/ Refuse(d))
  /\ WF_clientVars(AcknowledgeBatch(d) \/ RejectBatch(d))
  /\ WF_clientVars(ApplyRemoteEvent(d, Latest))

Fairness ==
  \A d \in Device :
    /\ BackgroundFairness(d)
    /\ WF_clientVars(\E ws \in Program \cup {<<>>} : Complete(d, ws))

FairSpec == Spec /\ Fairness

(***************************************************************************)
(* What the user is shown of a document: the cached copy with the batches  *)
(* of the mutation queue on top.                                           *)
(***************************************************************************)
ApplyToLocalDocument(batch, key, doc) ==
  IF batch.write.key = key
  THEN ApplyToLocalView(batch.write, doc, batch.n)
  ELSE doc

GetDocument(doc, batches, key) ==
  LET view[n \in 0 .. Len(batches)] ==
        IF n = 0 THEN doc
        ELSE ApplyToLocalDocument(batches[n], key, view[n - 1])
  IN  view[Len(batches)]

View(d, k) == GetDocument(cache[d][k], queue[d], k)

-----------------------------------------------------------------------------
(***************************************************************************)
(* The shape of the state.  The server has a synced copy of each document  *)
(* at each version, not newer than that version.  The data of documents is *)
(* whatever the writes put there.                                          *)
(***************************************************************************)
IsServerDocument(doc, version) ==
  /\ IsDocument(doc)
  /\ doc.type # "unknown"
  /\ doc.version <= version
  /\ doc.type = "document" => doc.version >= 1
  /\ doc.state = "synced"

TypeOK ==
  /\ backend \in Seq(Range(backend))
  /\ Latest >= 1
  /\ \A v \in DOMAIN backend :
       /\ DOMAIN backend[v] = Key
       /\ \A k \in Key : IsServerDocument(backend[v][k], v)
  /\ log \in Seq(Device \X Nat)
  /\ made \in [Device -> Nat]
  /\ calls \in [Device -> Seq(Batch)]
  /\ queue \in [Device -> Seq(Batch)]
  /\ responses \in [Device -> Seq(Answer)]
  /\ \A d \in Device : Len(responses[d]) <= Len(queue[d])
  /\ DOMAIN cache = Device
  /\ \A d \in Device :
       /\ DOMAIN cache[d] = Key
       /\ \A k \in Key : IsDocument(cache[d][k])
  /\ seen \in [Device -> Nat]
  /\ \A d \in Device : seen[d] \in 1 .. Latest
  /\ main \in [Device -> Seq(Handler)]
  /\ faults \in [Fault -> Nat]

(***************************************************************************)
(* Whatever the order in which acknowledgements and snapshots arrive, a    *)
(* cached document is exactly the server's at the last snapshot, or it is  *)
(* marked as changed by a commit that the watch stream has yet to bring,   *)
(* so that this later snapshot will replace it.                            *)
(***************************************************************************)
AheadOfWatch(d, k) ==
  LET doc == cache[d][k]
  IN  /\ HasPendingWrites(doc)
      /\ doc.version \in seen[d] + 1 .. Latest
      /\ backend[doc.version][k].version = doc.version

CacheFaithful ==
  \A d \in Device, k \in Key :
    \/ cache[d][k] = backend[seen[d]][k]
    \/ AheadOfWatch(d, k)

(***************************************************************************)
(* What makes CacheFaithful inductive.  A document keeps the version of    *)
(* its last change, so two versions of the server that agree on it have    *)
(* the same document; and each answer on its way says a version at which   *)
(* the server did change the document, for a write that is in the log.     *)
(***************************************************************************)
BackendCoherent ==
  \A v, w \in DOMAIN backend : \A k \in Key :
    v <= w /\ backend[w][k].version <= v => backend[w][k] = backend[v][k]

AnswersTrue ==
  \A d \in Device : \A i \in DOMAIN responses[d] :
    LET version == responses[d][i].version
        batch   == queue[d][i]
    IN  responses[d][i].ok =>
          /\ version \in 1 .. Latest
          /\ backend[version][batch.write.key].version = version
          /\ <<d, batch.n>> \in Range(log)

(***************************************************************************)
(* A device that has nothing left to send and has seen the last snapshot   *)
(* shows the server's documents.                                           *)
(***************************************************************************)
QuietAgrees ==
  \A d \in Device :
    queue[d] = <<>> /\ seen[d] = Latest =>
      \A k \in Key : View(d, k) = backend[Latest][k]

(***************************************************************************)
(* A success handler that waits on the main queue belongs to a write the   *)
(* server has committed, even after broken streams and refused repeats.    *)
(***************************************************************************)
SuccessIsCommitted ==
  \A d \in Device : \A i \in DOMAIN main[d] :
    main[d][i].ok => <<d, main[d][i].n>> \in Range(log)

(***************************************************************************)
(* The inductive invariant of the proofs.                                  *)
(***************************************************************************)
InductiveInvariant ==
  /\ TypeOK
  /\ BackendCoherent
  /\ AnswersTrue
  /\ CacheFaithful
  /\ SuccessIsCommitted

(***************************************************************************)
(* The server first commits the writes of one device in the order they     *)
(* were made, however often the pipeline is sent again.                    *)
(***************************************************************************)
FirstCommit(j) == \A i \in 1 .. j - 1 : log[i] # log[j]

CommitsInOrder ==
  \A j \in DOMAIN log :
    FirstCommit(j) =>
      \A i \in 1 .. j - 1 : log[i][1] = log[j][1] => log[i][2] < log[j][2]

(***************************************************************************)
(* The SDK keeps the promise of WriteLog: what is stored is the mutation   *)
(* queue, and a refusal under way is the answer that closed the stream.    *)
(***************************************************************************)
Outbox == [d \in Device |-> [i \in DOMAIN queue[d] |-> queue[d][i].n]]

Refused ==
  [d \in Device |-> IF StreamOpen(d) THEN 0
                    ELSE queue[d][Len(responses[d])].n]

Writes == INSTANCE WriteLog WITH
  Number <- UNION {1 .. MaxCalls[d] : d \in Device},
  outbox <- Outbox,
  log <- log,
  refused <- Refused

ImplementsWriteLog == Writes!Spec

(***************************************************************************)
(* What the implementation rests on: the writes of a device, those waiting *)
(* on the worker queue after those of the mutation queue, have ascending   *)
(* numbers that only writes already stored have in the log, and an error   *)
(* is the last answer of its stream.                                       *)
(***************************************************************************)
NumberedOn(d) ==
  /\ made[d] <= MaxCalls[d]
  /\ Len(calls[d]) <= made[d]
  /\ \A i \in DOMAIN calls[d] : calls[d][i].n = made[d] - Len(calls[d]) + i
  /\ \A i \in DOMAIN queue[d] :
       /\ queue[d][i].n >= 1
       /\ queue[d][i].n + Len(calls[d]) <= made[d]
       /\ \A j \in 1 .. i - 1 : queue[d][j].n < queue[d][i].n
  /\ \A i \in DOMAIN log :
       log[i][1] = d => log[i][2] + Len(calls[d]) <= made[d]

Numbered == \A d \in Device : NumberedOn(d)

ErrorIsLast ==
  \A d \in Device : \A i \in DOMAIN responses[d] :
    ~responses[d][i].ok => i = Len(responses[d])

QueueInvariant ==
  /\ InductiveInvariant
  /\ Numbered
  /\ ErrorIsLast

(***************************************************************************)
(* No step takes the cached copy of a document back to an older version,   *)
(* although acknowledgements and snapshots come on different streams.      *)
(***************************************************************************)
CacheNeverRegresses ==
  [][\A d \in Device, k \in Key :
       cache'[d][k].version >= cache[d][k].version]_clientVars

(***************************************************************************)
(* A stored write leaves the device only when the server has committed it  *)
(* or has refused it: neither a broken stream nor a restart loses it.      *)
(***************************************************************************)
Queued(d) == {queue[d][i].n : i \in DOMAIN queue[d]}

Answered(d, n) ==
  \/ <<d, n>> \in Range(log)
  \/ /\ responses[d] # <<>>
     /\ ~Head(responses[d]).ok
     /\ Head(queue[d]).n = n

StoredUntilAnswered ==
  [][\A d \in Device : \A n \in Queued(d) \ Queued(d)' : Answered(d, n)]_clientVars

(***************************************************************************)
(* An acknowledgement that comes before the watch snapshot changes nothing *)
(* on the screen but the estimated times: the result of the write stays    *)
(* visible when its batch leaves the queue.                                *)
(***************************************************************************)
Timed == {f \in UNION {DOMAIN w.transforms : w \in Write} :
            \E w \in Write : f \in DOMAIN w.transforms
                            /\ w.transforms[f].op = "stamp"}

Untimed(data) == Restrict(data, DOMAIN data \ Timed)

NoFlickerOnAcknowledge ==
  [][\A d \in Device, k \in Key :
       AcknowledgeBatch(d) /\ cache'[d][k] # cache[d][k] =>
         Untimed(View(d, k).data) = Untimed(View(d, k)'.data)]_clientVars

(***************************************************************************)
(* Every stored write is answered in the end, and once the app makes no    *)
(* more writes every device comes to show the server's documents.          *)
(***************************************************************************)
EventuallyAnswered ==
  \A d \in Device : \A n \in 1 .. MaxCalls[d] :
    n \in Queued(d) ~> n \notin Queued(d)

EventuallyAgree ==
  <>[](\A d \in Device, k \in Key : View(d, k) = backend[Latest][k])
==============================================================================
