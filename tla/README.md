# TLA+ models of the messaging app

The repository is an iOS messaging app written in Swift on top of Firebase. The
app keeps no state of its own beyond what a screen shows: everything a user does
becomes a write of a Firestore document, and everything a screen shows is a
Firestore listener. What can go wrong therefore lies in two places: in the
Firestore SDK (vendored under `messaging-app/Pods/FirebaseFirestore`, C++), which
queues writes on disk, sends them, follows queries, and merges what it sent with
what the server sends back; and in the app's model classes, whose sequences of
writes are not atomic, whose completion handlers live in memory, and whose
listeners register further listeners.

Both are modelled here. Paths below are relative to `src/messaging-app/`;
`core/src` stands for `Pods/FirebaseFirestore/Firestore/core/src`. The other pods
(BoringSSL, gRPC, abseil, leveldb, ...) are libraries under the SDK: transport,
cryptography, storage, containers. They are the bulk of the repository's lines,
keep nothing of the app's state, and are not modelled; what the SDK needs of them
(a stream delivers messages in order or breaks, a transaction is atomic) is
built into the models.

## Inventory

| Component | State | Operations | Hard behaviour | What makes it correct |
|---|---|---|---|---|
| Documents and mutations (`core/src/model`) | none: pure functions | set, merge, update, arrayUnion, arrayRemove, serverTimestamp; applied on the server, to the cache, to the local view | a committed write applied to an outdated copy | the three applications agree once the copies do |
| Local store (`core/src/local`) | mutation queues by user, document cache, target data, on disk | WriteLocally, AcknowledgeBatch, RejectBatch, ApplyRemoteEvent, HandleUserChange, AllocateTarget, ReleaseTarget, ExecuteQuery | acknowledgements and snapshots in any order, restarts, resume tokens | the cache never goes back and converges; stored writes are not lost; no document is left out of a query |
| Remote store and streams (`core/src/remote`) | write pipeline, stream states, listen targets, online state | FillWritePipeline, results, errors, reconnects, listens, tokens | lost answers and repeated writes, refused writes in the middle, full pipeline, tokens of another user | writes are first committed in order, as their owner; each is answered in the end |
| Sync engine, client, queues (`core/src/core`, `core/src/util`) | callbacks by batch and user, views, limbo lookups, worker queue, main queue | WriteMutations, HandleSuccessfulWrite, HandleRejectedWrite, ApplyRemoteEvent, HandleRejectedListen, HandleCredentialChange | handlers that are lost with the process, users who change | success is reported only for what was committed |
| Query views and listeners (`core/src/core/view.cc` ...) | last snapshot of each query and listener | initial, metadata-only and offline events | from-cache snapshots, writes held back, late listeners | events add up to the view, the view to the store |
| Watch change aggregation (`core/src/remote/remote_event.cc`) | target states | target changes, existence filters | resets, answers to earlier listens | what is called in sync is the server's |
| Chat creation (`CreateChatModel`) | the new reference | newChat: two writes | not atomic, plain set sent again | creator is a member with a document |
| Membership (`AddUserManager`, `MemberViewModel`, `GroupMembersModel`) | lists behind tables | addNewUser (two writes), removeFromChat, updateUserColour, updateUserName, loadUsers, loadMembers, search | concurrent changes of one array, two documents to keep together, listeners that pile up | nobody is dropped, nobody half added but by a crash; the lists end up with what there is |
| Messages (`MessagesManager`, `DBMethods`) | messages, colours, names | sendMessage and its completion handler, loadMessages | order by server time with repeated writes, handler lost, listeners that pile up | order as sent; last-active covers the newest message |
| Chat list (`ChatManager`) | chats of the user | loadChats, signUserOut | force-unwrapped fields | listed chats have what is shown |
| Chat settings, colour picker | chat id | updateChatColour | merge | other fields stay |
| Registration and login (`RegisterViewController`, `LoginViewController`, FirebaseAuth as they use it) | text fields, current user | createUser then profile write, signIn | notification, completion and tokens in any order; profile write lost | writes are stored and sent as whose they are |
| App shell, appearance | none | life-cycle stubs, layout | none | not modelled |

Components call one another as follows. A gesture on the main thread runs a model
method; each `setData`/`updateData` in it puts one operation on the SDK's worker
queue and returns. The worker stores the batch, fills the write pipeline and
recomputes the views of listeners. Results of the write stream and snapshots of
the watch stream are handled on the worker queue too; completion handlers and
listener events go to the main queue, where they may make further writes and
register further listeners. FirebaseAuth has a queue of its own and tells the
main queue of a new user; from there it goes to the worker.

## Modules

```
Documents <- FirestoreClient <- Chat          (the app's writes over the client)
                             <- Listeners     (views and events over the client)
WriteLog  <= FirestoreClient, Session         (abstract specification)
WatchStream, Session, Screens                 (stand for themselves)
```

* `Documents`: documents, writes, and what a write makes of a document on the
  server (`ServerApply`), in the cache (`ApplyToRemoteDocument`) and in the local
  view (`ApplyToLocalView`).
* `FirestoreClient`: the write path of any number of devices over one server. One
  action for each step of the code: `Call`/`Enqueue` (a call on the main thread),
  `WriteLocally`, `AcknowledgeBatch`, `RejectBatch`, `BreakStream`,
  `ApplyRemoteEvent`, `Complete` (a completion handler runs), `Kill`; and
  `Commit`/`Refuse` for the server, which is external.
* `WriteLog`: what the SDK promises of writes, without pipelines, streams or
  caches: stored writes are committed at least once, first in the order of storing,
  or refused, and forgotten only then.
* `Chat`: the app's writes about one chat composed with `FirestoreClient`: the
  gestures, the screens they need to be open, the completion handler of
  `sendMessage`, and restarts.
* `WatchStream`: how one query follows the server. Requests and answers of the
  watch stream, `WatchChangeAggregator`, target data and resume tokens of
  `LocalStore`, the query engine, the `View`, lookups of documents in limbo, existence
  filters and their mismatches.
* `Listeners`: `View`, `EventManager`, `QueryListener` and `OnlineStateTracker` over
  `FirestoreClient`: what a listener is told, and when.
* `Session`: registration, login, sign-out; the user's way from FirebaseAuth to the
  worker queue; mutation queues and callbacks by user; tokens of the write stream.
* `Screens`: the arrays behind the app's tables and the listeners that fill them.
* `FirestoreClientProofs`, `ChatProofs`, `WriteLogProofs`, `SessionOwnership`,
  `SessionProofs`, `ScreensProofs`, `ListenersProofs`, `WatchStreamProofs`:
  theorems.
* `MCFirestoreClient`, `MCChat`, `MCWatchStream`, `MCListeners`, `MCSession`,
  `MCScreens`: constants and constraints for the model checker.

### How the state corresponds to the code

| Module | Variable | Code |
|---|---|---|
| `FirestoreClient` | `backend`, `log` | the server's documents at each version; `log` is a history of the commits |
| | `calls[d]` | operations on the worker queue (`AsyncQueue`) that no thread has run yet |
| | `queue[d]` | `LevelDbMutationQueue`; `live` says whether `mutation_callbacks_` still has the handler |
| | `responses[d]` | what the server has answered on the open write stream and the client has not processed; the write pipeline is the first `MaxPendingWrites` batches of `queue[d]` |
| | `cache[d]`, `seen[d]` | `LevelDbRemoteDocumentCache`, the last snapshot version |
| | `main[d]` | completion handlers on the main queue |
| | `View(d, k)` | `LocalDocumentsView::GetDocument`: what a listener shows |
| | `made`, `faults` | counters of the bounds |
| `Chat` | `screen[d]`, `shown` | which of the app's screens is open; history of what was on screen when a message was sent |
| `WatchStream` | `watched`, `wire` | the server's side of the watch stream, and messages on their way |
| | `remote` | `RemoteStore` (stream, `listen_targets_`), `WatchChangeAggregator` (`target_states_`, pending updates, `pending_target_resets_`), `SyncEngine`'s limbo maps and queue |
| | `view`, `target`, `disk` | `View`, `LocalStore::target_data_by_target_`; `TargetCache` and document cache on disk |
| | `at` | history: the version the query was last brought to |
| `Listeners` | `sessions[d].view`, `.last` | `View` and its last snapshot |
| | `.listeners` | `EventManager`'s `QueryListener`s; `shown` is what their document changes add up to |
| | `.stream`, `.online` | the watch stream, `OnlineStateTracker` |
| `Session` | `auth`, `attempts`, `main` | FIRAuth's user, sign-ins under way, blocks on the main queue |
| | `provider`, `requests` | `FirebaseCredentialsProvider` (user, `token_counter`), `GetToken` calls under way |
| | `worker`, `user` | the worker queue; `SyncEngine::current_user_` |
| | `queues`, `handlers` | mutation queues by user; `mutation_callbacks_` |
| | `pipeline`, `stream`, `answered` | write pipeline, write stream with `close_count_`, answered prefix |
| `Screens` | `view`, `settled`, `tasks`, `listeners`, `main` | the worker queue as the screens see it, and the main queue |
| | `chatMembers`, `userOptions`, `messages`, `bubbles`, `possibleUsers` ... | the arrays of `GroupMembersModel`, `MessagesManager`, `AddUserManager` and the rows of the tables |

### Abstractions

* `FirestoreClient`, `Chat`, `Listeners`. A batch has one write (the app never uses
  `WriteBatch`), and a write stands for the set or patch mutation and the transform
  mutation the SDK makes of it. Arrays are sets; texts and colours are two values
  each. Versions are the server's commit numbers; a write that changes nothing
  keeps the version of the document (`model/mutation.h:58-63`). Documents are never
  deleted: the app never deletes one. A device watches every document of the model;
  a snapshot brings all as they were at one version, and may skip versions. How
  snapshots come about is the subject of `WatchStream`.
* An answer that has been received is processed before the stream is reported as
  closed; answers not received when a stream closes are lost. A write that was
  sent and reached the server after the client saw the stream close is not
  modelled.
* `Refuse` stands for permanent errors (security rules, a failed precondition).
  The rules are not in the repository, so the chat runs allow no refused write;
  an update of a missing document is refused by its precondition.
* `Chat`: one chat. Its identifier is new, so that it is created once. Adding users
  who are members already is left out of the creation run (see Findings).
* `WatchStream`: one query over a few documents; a document is in the query, out of
  it, or missing. Versions stand for snapshot versions, read times and resume tokens
  alike. The server answers a listen at once or refuses it; it may send removals
  without contents, count instead of listing what left, for the query and for lookups, or reset the target.
  `LocalStore` writes target data to disk at times of its own choice where the code
  looks at the clock. There are no local writes, which `FirestoreClient` and
  `Listeners` have.
* `Listeners`: one query without limit on each device, no limbo documents and no
  existence filters (`WatchStream` has them). Events reach the main queue in order, so
  the events are what a listener is told. A stream has failed or not, since
  `kMaxWatchStreamFailures` is 1. The server says CURRENT only at a version not older
  than when it got the query. `l2` listens like `getDocuments`, which waits for the
  server and hears of metadata; `l1` like the screens.
* `Session`: writes are numbers, all documents are watched, refused writes are left to
  `FirestoreClient`. Closing the write stream discards answers on their way; the
  handshake is one step. Signing in always succeeds for an account there is.
* `Screens`: the screens of one chat are all open; the listeners of the chat's colour
  and title and of the screen of one member are left out. Members and bubbles have
  the same default colour.

## Runs

All runs allow the system to stop (`CHECK_DEADLOCK FALSE`): users owe no gesture
and the bounds run out.

| Run | Instance | Properties | Question |
|---|---|---|---|
| `client_races` | 2 devices, 2 documents, 2+1 writes of 5 kinds; a break and a refusal, or a restart | `QueueInvariant`, `CacheFaithful`, `QuietAgrees`, `CacheNeverRegresses`, `NoFlickerOnAcknowledge`, `EventuallyAnswered`, `EventuallyAgree` | Does the cache stay faithful and monotone when acknowledgements and snapshots race, and converge? Is the user spared the old value? |
| `client_pipeline` | 1 device, 4 writes, pipeline of 2, 2 breaks, 1 restart, 1 refusal | `SuccessIsCommitted`, `CommitsInOrder`, `StoredUntilAnswered`, `ImplementsWriteLog` | Are writes stored until answered, first committed in order, reported truly? |
| `chat_membership` | 2 devices, 3 users who can all be added, 2+1 writes, 1 restart | `ChatInvariant`, `ScreensCanShow`, `LeaveByRemoval`, `FieldsLeaveByAdding` | Do concurrent changes of members drop anybody or lose fields, other than by adding a member again? Can open screens show what they unwrap? |
| `chat_creation` | 2 devices, 3 users, 4+2 writes | `MembersHaveDocuments` | The chat used before the server knows it: does every member get a document? |
| `chat_messages` | 2 devices, 2 users, one sends two messages or both send one; 1 break | `CausalOrder`, `OwnOrder`, `LastActiveCovers`, `MessagesDelivered`, `ActivityNoted` | Do answers sort after what they answer, messages in the order sent, though repeats get new times? Is the chat active since the newest message, and do messages arrive? |
| `watch_stream` | 1 query, 2 documents, 3 versions, 3 lookups, one at a time; four scenarios | `TypeOK`, `SyncedIsServer`, `ChangesFit`, `QueryMissesNothing`, `EventuallySynced` | Is what is called in sync what the server has, over listens, breaks, restarts, limbo, mismatches? What does a resumed lookup make of a count of 0? |
| `listeners` | 2 listeners, 2 writing devices, 2 or 3 writes; three scenarios | `ListenersInvariant`, `SyncedDocumentsAreServers`, `TimerWaitsForServer`, `EventuallyRaised` | Do events add up to the view and the view to the store? Does each listener get its first event, also offline? |
| `session` | 2 users, 1 message, 2 sign-ins, pipeline of 1 | `SessionTypeOK`, `CommittedAsOwner`, `ViewsFollowUser`, `HandlersKept`, `OwnQueue`, `EveryAccountIsListed`, `ImplementsWriteLog`, `EventuallySent` | Is every write stored and committed as its user's, whatever overtakes what? Are writes of earlier sessions sent? |
| `screens` | 3 users, 2 colours, a full or empty cache, 2 changes, 1 refusal, 3 gestures | `ScreensInvariant`, `EventuallyCurrent` | Do piled up listeners leave the right rows? |
| `last_active_lost`, `created_again`, `mismatch_token` | as `chat_messages` with a restart; as `chat_creation` with a break; one mismatch and a restart | one each | expected violations, see Findings |

Several properties are conjunctions: `QueueInvariant` (stored and sent writes in
order, commits before the rest), `ChatInvariant` (types, and a user of the chat was
added), `ListenersInvariant` (types, a listener's changes add up to the view, the
view to the local store), `ScreensInvariant` (types, the lists of members and of
messages are current once the queues are empty).

The bounds are the smallest in which the hazards happen: two writers of one
document, a write whose first commit is answered and one whose first commit is
not, a snapshot between the two commits, a pipeline shorter than the queue, a
repeat after another device has written, a listen whose request is unanswered when
the query is given up and taken again, a token overtaken by a change of user, two
piled up listeners. More writes of the same kinds repeat these patterns; for the
safety properties of the write path the proofs remove the bounds.

The larger runs have a `CONSTRAINT` that leaves out combinations of troubles
(`OneBadEnd`, `OneEach`, `OneTrouble`, `OneScenario`, `OneBusy`). The counters in
them count gestures and faults only; they never go back, and no fairness asks for
these steps. A behaviour that leaves the constraint never comes back, and one that stays in
is not cut short, so within the constraint are all behaviours of each scenario by
itself, with its liveness. Troubles of two scenarios together are not
covered; the README names below where that matters.

Fairness. `BackgroundFairness` (`FirestoreClient`) asks that the worker queue runs what
was put on it, that the server answers what it was sent, that received answers are
handled and that the newest snapshot is delivered: the code's queues are threads
that are always served, and streams reconnect with backoff for as long as the
pipeline is not empty or there are listeners (`core/src/remote/stream.cc:151-181`,
`remote_store.cc:388-397`). Faults are bounded, which says that the network comes
back for good. `WatchStream` asks the same of the watch stream; that its messages are handled is
stated as the step that takes the first of `wire`, as `OnWatchStreamChange` does; a closed
stream may take the last one, too, but then none is left to handle. `TimerSpec`
(`Listeners`) asks less: streams may fail and hang for ever; only timers fire, and a
server that has started to answer goes on. `LiveSpec` (`Session`) has tokens fetched
and streams connect as long as they are needed; `ServedSpec` (`Screens`) serves the two
queues. No fairness is asked of users, of sign-ins, or of `Kill`.

### Mutants

Each property of a passing run has a mutant: a definition with a plausible bug
(`Mutant:` in the comment above it) with which the property fails in that run.

## Findings

* `last_active_lost`. `DBMethods.swift:14` promises that the chat's last-active
  time is updated "when something happens in the chat". The only call is made by
  the completion handler of `sendMessage`, which lives in memory. A message that
  was stored when the app is killed is sent by the next start, without handler;
  the chat keeps its old place in everybody's list.
* `created_again`. `createBaseChatDocument` is meant to "create a new document".
  It is a set without precondition; when the acknowledgement is lost the SDK sends
  it again, and it replaces the chat that others have joined in between, users
  array included. The SDK's write stream does not resume
  (`core/src/remote/write_stream.cc:70-74`), so writes are delivered at least once.
* `mismatch_token`. When the number of documents the server counts differs, the
  client empties the target's keys and listens again without a resume token; but the
  same remote event writes the new token to disk beside the empty keys
  (`core/src/local/local_store.cc:289`). An app killed before the new listen is answered
  resumes from there and shows an empty query with `isFromCache` false.

Disagreements and surprises seen in the code, for which there is no run because
nothing in the repository promises otherwise, or because it would take another
scenario; the properties are stated around them:

* `AddUserViewController` offers every account, members of the chat included, and
  `addNewUser` sets the member document without merge (`AddUserManager.swift:60`). The
  creator's document has other fields, since `CreateChatModel` writes it: added again,
  he loses `nickName` and `timeAdded`, without any fault. A property that no document ever
  loses a field would be false; `FieldsLeaveByAdding` says that this is the only way to lose
  one, and that `name` and `colour`, which the member screens unwrap, stay.
* The two writes of `addNewUser` (`AddUserManager.swift:50`, `:60`) are independent. An app
  killed between them leaves a user in the chat without his details; `GroupMembersModel`
  lists documents, so nobody sees him there or can remove him. `MembersHaveDocuments` is
  checked without kills (`chat_creation`); with a kill only the other direction holds, that
  no document comes without its addition (`MemberWasAdded`).
* The profile of a new account is written by the completion handler of `createUser`
  (`RegisterViewController.swift:57`). If the app dies before, the account can sign in but
  has no profile, and `loadUsers` never finds it. `EveryAccountIsListed` is stated without
  kills.
* A repeated `arrayUnion` brings back a user removed in between; adding a user who is
  a member already resets his name and colour (`AddUserManager.swift:60`); a repeated
  message may move behind the answers to it.
* The acknowledgement of a write that changed nothing has the version of the write
  before it: its result is dropped while its batch leaves the queue, and the older
  contents show until the snapshot (`local_store.cc:213`). `NoFlickerOnAcknowledge`
  speaks of acknowledgements that change the cache. With three writes the older
  contents may even show as in sync: another device removes the user from a chat, a
  write of his own is acknowledged and cached on top of what he knew, and his removal
  of himself, which changes nothing any more, has that write's version. The chat he
  left comes back into his list, not marked as pending, until the snapshot.
  `SyncedDocumentsAreServers`
  excludes runs with a commit that changed nothing; the attempt to prove it for all
  runs brought this to light.
* A write refused after an earlier one of the same document was acknowledged lets the
  view forget the earlier one (`view.cc:158`): `SyncedDocumentsAreServers` excludes runs
  with a refused write, too.
* A query given up while the stream is starting clears the online state timer, which
  the next query does not start (`remote_store.cc:168`): it may wait for ever for its
  first event. `EventuallyRaised` excludes runs with a query given up.
* A document that leaves limbo while its lookup waits for a place is looked up
  nevertheless, and the lookup never ends (`sync_engine.cc:555`).
* When the server denies a target, `ProcessTargetError` forgets the target's state and
  with it `outstanding_responses_` (`remote_store.cc:343`, `remote_event.cc:364`). If the query has been given
  up and listened to again meanwhile, the answers to the later requests are
  still on their way: the count becomes negative, and documents of one listen may be
  taken for another's. This needs a denial and several listens of one
  stream, which no scenario of `OneTrouble` has together; `TypeOK` and
  `AnswersAreAwaited` say so in their hypotheses.
* The profile of a new account is misnamed if the text field changes before the
  handler runs, which reads it again (`RegisterViewController.swift:57`).
  `EveryAccountIsListed` excludes such a hurry.
* A handler that runs after its sender signed out stores the chat's last-active time
  for the next user; with overlapping sign-ins a message may be stored in another
  user's queue. `OwnQueue` excludes both.
* `MessagesManager.swift:127` empties the array before it looks at the error and does
  not reload the table when no message is left: rows and array part.
  `BubblesAreCurrent` is about the array.
* The completion of `loadUsers` overrides the search (`AddUserManager.swift:40`).

## Proofs

`FirestoreClientProofs` proves, for any devices, keys, writes, initial documents
and bounds that meet the assumptions of `FirestoreClient`:

* `Invariance`: `Spec => []InductiveInvariant`. The invariant is the conjunction of
  `TypeOK`, `BackendCoherent`, `AnswersTrue`, `CacheFaithful` and
  `SuccessIsCommitted`.
* `TypeCorrect`, `CacheIsFaithful`, `SuccessMeansCommitted`: its parts.
* `CacheMovesForward` and `StoredWritesAreAnswered`: the action properties
  `CacheNeverRegresses` and `StoredUntilAnswered`.

`CacheFaithful` is not inductive alone. An acknowledgement puts a document with the
answered version into the cache, so the invariant must say that this is a version
at which the server did change that document (`AnswersTrue`); a snapshot leaves a
cached document alone when its version is not newer, so the invariant must say
that two server states that agree on a document's version agree on the document
(`BackendCoherent`). `AnswersTrue` also says that the answered write is in the
log, which is what `SuccessIsCommitted` needs. Each action has a step; the data of
documents never matters, which is why the proofs hold for all writes.

`WriteLogProofs` proves of the abstract log that first commits come in the order of
storing (`CommitsAreOrdered`), for numbers that are positive integers. The inductive
invariant says that the outbox is increasing and that what is committed of it is a
prefix: a write is below all that are stored after it, so a first commit is above
everything committed before.

`FirestoreClientProofs` also proves that the client implements the log
(`ClientImplementsWriteLog`, the same `ImplementsWriteLog` that the runs check). The
mapping keeps the numbers of stored writes, the log without its data, and the refusal
that waits among the responses. `QueueIsOrdered` supplies what it needs: stored and
sent writes increase, only a prefix of the pipeline has been answered, nothing behind
the first write without commit is committed, and a refusal is the last thing on the
stream. A step of the client is a step of the log or a stutter: `WriteLocally` stores,
`Commit` delivers, `AcknowledgeBatch` and `RejectBatch` answer, a broken stream
or a restart forgets a refusal, the rest does not move the log.
`ClientCommitsInOrder` then takes `CommitsInOrder` from `CommitsAreOrdered`, instantiated under the mapping.

`ChatProofs` proves, when the constants are those of the chat (`ChatConstants`):

* `ChatImplementsClient`: `ChatSpec => Spec`, so that the theorems above hold of
  the app; `ChatCacheIsFaithful` and `ChatWritesAreAnswered` state the two that
  matter most. Each gesture is a `Call` of a sequence of `Program`, the handler of
  a message a `Complete`; the inductive invariant supplies the types this needs.
* `UsersLeaveByRemoval`: in a chat that is already made (`"newChat" \notin
  Gesture`) `ChatSpec => LeaveByRemoval`. The extra invariant `NoReplacement` says
  that no write on its way to the server is a plain set of the chat document;
  `UsersKept` shows, for each write that is left, what its commit makes of the
  users array. With `newChat` the property is false, as `created_again` shows.


`SessionOwnership` and `SessionProofs` prove of `Session`, for any accounts and bounds,
that writes are committed as their owner's (`WritesAreCommittedAsOwner`), that the views
follow the user (`ViewsFollowTheUser`) and that completion handlers are kept
(`HandlersAreKept`). Commits have the right owner because the token of a stream that is
open is the token of the worker's user. For that to be inductive, `OwnershipInvariant`
follows a change of user and a token along the queues they cross: the last change on
its way, on the main queue or behind it on the worker queue, brings FIRAuth's user
(`AuthIsComing`); a token with the close count of the stream belongs to a start that
is under way (`TokensBelongToStarts`), and it is the token of the worker's user unless
a change of user will be run before it (`TokensAreTheUsers`). A token read before a
change and dispatched after it is thrown away by `token_counter`; one that the change
overtakes on the worker queue is thrown away because restarting the stream has raised
`close_count_`. An answer removes the first batch of the pipeline and of the queue; that
these are the same is `PipelineIsQueued`, which needs the queues and the tasks before
them to be in order (`QueuesAreOrdered`, `TasksAreNewer`), so that filling the pipeline
after its last batch goes on where it left off. `SessionOwnership` has one lemma per
action for `OwnershipInvariant`, `SessionProofs` those for the order of the queues, the
views and the handlers. The model checker has confirmed `SessionInvariant`, their
conjunction, on the instance of `session`.

Three more theorems are about a user who does not tap again while a sign-in is under way,
or about the app while it is not killed; both are hypotheses of the property itself
(`faults`), not of the theorem:

* `EachInHisOwnQueue`: profiles and messages are stored in the mutation queue of the user
  who made them. `UnhurriedInvariant` says that there is at most one sign-in
  (`OneSignIn`), and that the user the worker will have when it reaches a task is the
  user of that task's write.
* `AccountsAreListed`: `ProfilesAreComing` says of every account where its profile is:
  still to be written by the completion of the registration on the main queue, a task
  of the worker, in a mutation queue, or in the log.
* `SessionImplementsWriteLog` and from it `WritesAreCommittedInOrder`: the mutation queues
  of all users are the outboxes of a `WriteLog`. Writes are numbered when they are
  made, so the mapping needs the numbers to be those of the bounds:
  `WritesAreCounted` counts what messages, their handlers and sign-ins have made
  and may still make. `QueuesFollow` and `LogInvariant` give the order:
  tasks behind the queue are newer, queues are apart, and nothing behind the
  first write of a queue without commit is committed.

`SessionTypesAreKept` (`SessionTypeOK`) and `ResumesFindStarting` have an invariant of their
own. The typing says that answers come from an open stream only and that the pipeline
is the front of the worker's queue, and neither survives a step alone: if the worker got a
second token for the same start, the stream would be started again under the answers of
the first. `StartHasOneToken` counts the tokens of a start (asked for, on the main
queue, or a task of the worker) and allows one, none once the stream has gone on. So
`ResumesFindStarting`: a token that comes with the close count of the stream finds it
starting, which is the `HARD_ASSERT` of `Stream::ResumeStartWithCredentials`.
`PipelineIsFull` says that a pipeline that is short of its bound holds all of the queue.
Both were invariants of a run of `MCSession` before they were proved.

`ScreensProofs` proves that the tables are right when nothing is left to handle
(`TablesAreCurrent`), for any persons, colours and bounds, with listeners that pile up and
queries that are refused. The invariant, `TablesFollow`, looks at the events on their way:
for each handler that still listens, the last of its events carries the documents of
the view, or there is none left and its array follows from them. `DocumentsStay`
(members do not lose their documents) is what lets `chatMembers` be merged rather than
replaced. For the proof, listeners are picked by index sets (`Of`, `Told`) and
`Place`, `At` put an index set in order, where a filter of a sequence would be a
recursive operator; `Over` merges two functions. The model checker has confirmed
`TablesFollow` on the instance of `screens`.

`ChatProofs` goes on with seven theorems about the app's writes. Each is stated with the
faults and gestures under which the code keeps its promise; the runs and hazards
show what happens without. All look at the *line* of a device: its
mutation queue, then the tasks of its worker queue, in the order in which
the server will get them (`At`, `LineLen`). A gesture appends to the line, storing a
write moves it within the line, an answer takes the first away, and a kill takes
what is not stored.

| Theorem | Hypotheses | Invariant |
|---|---|---|
| `MembersWereAdded` | nothing refused | `AddingFirst`: a write of a member's document stands in the line behind one that adds him, unless the server has already added him |
| `FieldsGoByAdding` | no `newChat` (its plain set, sent again, replaces a chat that others have changed; see `created_again`); a message there is from the beginning has no fields but `fromEmail` and `time`, those `sendMessage` gives. Anybody may be added, and member documents may have any fields | `Overwriting`: a write that replaces a document as a whole is of a message, with all the fields messages have, or it is `MemberDetails` |
| `QuietMembersHaveDocuments` | nothing refused, no kill (it comes between the two writes of the gesture) | `DocumentsAwaited`: someone in the users array has a document, on the server or in a line; behind a write that adds him there is one with his document |
| `MessagesAreInOrder` | nothing refused (a repeat that is refused keeps its old time) | `SendingInOrder`: acknowledged messages are later than those before them, and one that the server has stays in the line as long as an older one |
| `MessagesAreCausal` | nothing refused, no kill | `CausalInvariant`: until a stream breaks, a message is stored once, and what was on screen when it was sent is on the server or before it in the line |
| `LastActivityCovers` | nothing refused, no kill (it loses the handler; see `last_active_lost`) | `ActivityAwaited`: for a message not covered by `chatLastActive`, the message is still in the line, its handler on the main queue, or the update in the line |
| `ScreensAlwaysShow` | nothing refused (a refused base document vanishes under its screen); a chat there is from the beginning has `name`, `colour` and `users`, a member document `name` and `colour`; kills and new chats are allowed | `ScreensHeld`: each write of the line brings all the fields its screen needs, or there is a cached document or such a write before it |

`FirestoreClientProofs` has the two facts about what the user sees, `View`, a fold over the
queue. `QuietDevicesAgree` (`QuietAgrees`): with nothing to send, the view is the cache,
and the cache is the server's at the snapshot unless an acknowledgement has put a
newer version there, which the snapshot has passed when all has been seen.
`NothingFlickers` (`NoFlickerOnAcknowledge`): before and after the acknowledgement the
documents are the same but for times (`SameButTimes`), and stay so under each further batch
of the queue. That is an induction along the queue; the library's induction theorem takes
an operator and cannot be instantiated, so the proof takes a least counterexample
(`WFMin` of `WellFoundedInduction` with `NatLessThanWellFounded`).

`ListenersProofs` proves what listeners are told, for any devices, documents, queries,
listeners and bounds. Each function of `View`, `QueryListener` and `OnlineStateTracker`
has a lemma on what it does to the parts of a session, so that the steps need not
open the records they are made of.

* `ListenersImplementClient`: `ListenersSpec => Spec`; with it the client's invariant.
* `SessionsAreGood` and from it `TimersWait` (`TimerWaitsForServer`): a session keeps its
  shape, its connection is as `OnlineStateTracker` asserts (`Connected`), and what
  its listeners were told adds up (`Told`). For the last, `ReplayedIsView` shows that
  the changes of a snapshot, with or without those of metadata, take what a listener
  has from the old view to the new one, and `SnapshotTells` that a snapshot which
  raises no event changed nothing the listener wants to know.
* `ListenersAreTold`: `ListenersInvariant`, whose other half is that the view shows the
  local store. `Shows` adds what makes it inductive: a document of the view with a
  pending write is marked. A result of a commit is held back only while it is ahead
  of the watch stream, which is the client's `CacheFaithful`.
* `SyncedIsServers`: `SyncedDocumentsAreServers`, if matching a document is not a matter of
  its times (`MatchesFields`: the app filters chats by their users and sorts by fields
  that need only be there). The invariant, `Marks`, says that a document of the view
  that is cached as the result of a commit is marked, unless it came with its first
  listener, before the server got the query. It rests on four others. `CurrentIsSeen`: a
  stream says CURRENT only when the device has seen all that the server had as it
  got the query. `AnswersFit`: the answers on the write stream have versions after
  those of the results in the cache, and a refused update is of a document that the
  device has no result of. `ServerGrows`: the server has no more versions than commits,
  and never deletes. `NothingFlickers`: an acknowledgement brings no document into a query
  that its write had taken out. `AnswersFit` is false when a commit changes nothing: so
  the hypothesis of the property was found, and the instance of `listeners` got a
  scenario with three writes.

`WatchStreamProofs` first proves what the aggregator may rely on, for any documents,
bounds, versions and numbers of lookups, with every kind of trouble:

* `AnswersAreCounted`: `outstanding_responses_` of a target is what is under way for it,
  requests the server has not taken and answers not yet handled. This is why a target
  whose count is zero hears only of its present listen. It holds until the
  server denies a listen.
* `ChangesAlwaysFit` (`ChangesFit`): what has been collected for a target fits the
  documents it is known to have, the assertions of `View` and `SyncEngine`.
* `WatchTypesAreKept` (`TypeOK`).

The invariant is `WatchInv`. `ChangesFit` speaks of active targets only and is not
inductive: what was collected stays while a target is not active, and is there
when it becomes active again. `Fit` says it of the query always and of a lookup from
its id's first use on; an id that is not used yet has collected nothing. `Balance` is
the difference that requests and answers leave unchanged.

Most of the proof is about three recursive functions of the model, which start lookups
and send requests in one step: `UpdateTrackedLimboDocuments`, `RemoveLimboTarget` and
`PumpEnqueuedLimboResolutions`. `Follows(r, p)` says what they may do to the
remote store `r` (requests are sent and counted; messages, changes and the query's token stay),
`Lookups(r)` is the set of all states that follow `r` and fit, and `KeepLookups` says
that the set is closed under the start and the end of a lookup. `StepsExist` and `UpTo` carry it
along the recursion, so no step of the code is left out. `Together` puts
the parts of the invariant together again, and each action has a lemma that names the
`r` its new state follows. The model checker confirmed `AnswersAreAwaited` and `Fit`
before they were proved.

The second half of `WatchStreamProofs` is about what the server has and the client shows.
`Undisturbed` says that the server has denied no listen and sent no count of documents so
far. Then:

* `TruthIsKept`: the invariant, `Truth`.
* `SyncedAgrees`: `SyncedIsServer`, that a view not said to be from the cache is the
  server's, whatever breaks, is reset, resumed, looked up or killed.
* `ShortcutMissesNothing`: `QueryMissesNothing`, that the query engine may look only at the
  keys and read times of the last snapshot in sync.

Why the hypothesis: after a count that does not match, a kill of the app leaves
emptied keys beside a new resume token and `SyncedIsServer` is false (the run
`mismatch_token`); a denial forgets `outstanding_responses_`, so what holds after it does
not follow from the counts. `QueryMissesNothing` excludes the count itself. Breaks,
resets, removals without contents, time offline, kills and giving up the query are all
within the theorems. The runs also have one denial (`Limbo`) and two counts (`Filter`, `Counts`).

`Truth` has two parts. `ClientTrue` is about the disk and the view: a cached document is
as the server had it at a version the client has seen (`CacheTrue`); the keys of
the query are the server's at its resume token (`KeysAt`); what the shortcut leaves out the
server never has again with those contents (`Leaves`, `DocsTrue`); in a current view, limbo
is what is not in the target. It gives both properties (`AsServer`, `NothingMissed`), but
is not inductive: a snapshot applies what the aggregator holds. `StreamTrue` is about that.
For a target that is listened to on an open stream, either its last request has not been
taken yet (`Waiting`), or there is no request left and the client follows
the server (`Settled`): beginning with what it holds, or with what it knows
if the answer to its request is still on the wire, each message tells of each document
what the target has of it at some version (`Tracks`), every snapshot on the wire is at a
version that has been told in full, and the last is what `watched` remembers. `Brings` says
that a run of messages takes a target from one version to another; `DocumentsBring` proves
it of what the server sends. `WireTrue` orders the messages: snapshots and the
contents of each document get no older, and a snapshot is no older than a document before
it. `KeysMatch` ties a target to the document it
is for, since ids of lookups are given out one after the other.

Each action has a lemma (`TrueServe`, `TruePush`, `TrueHandleChange`,
`TrueRaiseSnapshot`, ...). The model checker confirmed `Undisturbed => Truth` on
two instances, of 261 835 and 4.2 million states, before the proof.

Assumptions: the named `ASSUME`s, which the model checker evaluates on each
instance, and the hypotheses written in the theorems. Not proved, and only model-checked: liveness and fairness, which are out of the prover's
reach; and `SyncedIsServer` and `QueryMissesNothing` of `WatchStream` once the server has
denied a listen or sent a count of the documents.

## Not modelled

* The pods under the SDK, and FirebaseAuth beyond what the app and the credentials
  provider use of it (see the introduction).
* LRU collection (runs five minutes after the start and deletes what nothing refers
  to), transactions, bundles of writes, limit queries, `WaitForPendingWrites`,
  `DisableNetwork`, in-memory persistence: the app does not use them.
* The wire format and backoff times: a stream connects, delivers in order, breaks.
* Layout, keyboard handling, colours of the interface, life-cycle stubs.

## Plan

1. The composition of `WatchStream` with the write path, so that snapshots are not
   only consistent (as `FirestoreClient` takes them) but assembled from messages while
   writes are pending.
2. Killing the app together with a broken stream under liveness, which the
   constraints of `client_races` and `session` separate.
3. Theorems: `SyncedIsServer` of `WatchStream` after a count of the documents, when the
   app is not killed before the answer to the new listen (with a kill it is false,
   as `mismatch_token` shows), and after a denial, where `AnswersAreAwaited` fails.
