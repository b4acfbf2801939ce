------------------------------- MODULE Session -------------------------------
(***************************************************************************)
(* Signing up, in and out, while the writes of those who were signed in    *)
(* before are still on the device.                                         *)
(*                                                                         *)
(* Three queues run side by side.  FIRAuth keeps the current user on a     *)
(* queue of its own and tells the main queue of a change; the credentials  *)
(* provider of Firestore hears of it there and puts a task on the worker   *)
(* queue, where SyncEngine swaps the mutation queue and RemoteStore its    *)
(* streams.  The token of a stream takes the same way, so that it can be   *)
(* overtaken by a change of user: token_counter and close_count_ are there *)
(* to throw such a token away.                                             *)
(*                                                                         *)
(* Writes are what the app writes here: the profile of a new account,      *)
(* messages, and the chatLastActive of the handler of a message.  Their    *)
(* data, and writes the server refuses, are the matter of FirestoreClient. *)
(***************************************************************************)
EXTENDS SequencesExt, FiniteSets, Naturals

CONSTANTS
  Account,           \* email addresses
  NoUser,            \* nobody is signed in, the user with no uid
  InitialAccounts,   \* the accounts there are, with their profiles
  MaxPendingWrites,  \* kMaxPendingWrites
  MaxMessages,       \* bound: messages sent
  MaxSignIns,        \* bound: taps on the buttons for logging in and registering
  MaxFaults          \* bounds: see Fault

(* Hurry: to type and tap while a sign-in is under way. *)
Fault == {"break", "kill", "hurry"}

ASSUME NoUserAssumption == NoUser \notin Account

ASSUME InitialAssumption == InitialAccounts \subseteq Account

ASSUME BoundAssumption ==
  /\ MaxPendingWrites \in Nat \ {0}
  /\ MaxMessages \in Nat /\ MaxSignIns \in Nat
  /\ MaxFaults \in [Fault -> Nat]

VARIABLES
  accounts,  \* the accounts of the authentication service
  auth,      \* FIRAuth's current user, kept in the keychain
  screen,    \* the start screens or the list of chats
  field,     \* the text in the field for the email address
  attempts,  \* sign-ins and registrations under way
  provider,  \* the user and token_counter of the credentials provider
  requests,  \* calls of GetToken under way
  main,      \* blocks on the main queue
  worker,    \* tasks on the worker queue
  user,      \* current_user_ of SyncEngine, whose mutation queue is in use
  queues,    \* the mutation queues, on disk
  handlers,  \* mutation_callbacks_
  shown,     \* the pending writes the views of the listeners contain
  pipeline,  \* the write pipeline
  stream,    \* the write stream: its state, whose token it has, close_count_
  answered,  \* how many writes of the pipeline the server has answered
  log,       \* commits: whose queue, which write, with whose token
  made,      \* how many writes, messages and sign-ins there have been
  faults     \* how many faults there have been

appVars == <<screen, field, attempts>>
authVars == <<accounts, auth>>
clientVars == <<user, queues, handlers, shown>>
streamVars == <<pipeline, stream, answered, requests>>

sessionVars == <<accounts, auth, screen, field, attempts, provider, requests,
                 main, worker, user, queues, handlers, shown, pipeline, stream,
                 answered, log, made, faults>>

Owner == Account \cup {NoUser}

FaultHappens(kind) ==
  /\ faults[kind] < MaxFaults[kind]
  /\ faults' = [faults EXCEPT ![kind] = @ + 1]

-----------------------------------------------------------------------------
(***************************************************************************)
(* Streams.  st is a record with the pipeline, the stream, the number of   *)
(* answers and the requests for a token.                                   *)
(***************************************************************************)
IsStarted(s) == s.state \in {"starting", "connecting", "open", "backoff"}

Request(closes) ==
  [counter |-> provider.counter, closes |-> closes, who |-> NoUser,
   read |-> FALSE]

Start(st) ==
  IF st.stream.state = "error"
  THEN [st EXCEPT !.stream.state = "backoff"]
  ELSE [st EXCEPT !.stream.state = "starting",
                  !.requests = @ \cup {Request(st.stream.closes)}]

Close(st, state) ==
  [st EXCEPT !.stream.state = state, !.stream.as = NoUser,
             !.stream.closes = @ + 1, !.answered = 0]

Stop(st) == IF IsStarted(st.stream) THEN Close(st, "initial") ELSE st

(* A queue is in the order of its batch ids: those up to last come first.  *)
NextAfter(q, last) ==
  SubSeq(q, Cardinality({i \in DOMAIN q : q[i].n <= last}) + 1, Len(q))

FillWritePipeline(st, q) ==
  LET last == IF st.pipeline = <<>> THEN 0 ELSE Last(st.pipeline).n
      more == st.pipeline \o NextAfter(q, last)
      room == IF Len(more) < MaxPendingWrites THEN Len(more)
              ELSE MaxPendingWrites
      full == [st EXCEPT !.pipeline = SubSeq(more, 1, room)]
  IN  IF full.pipeline # <<>> /\ ~IsStarted(full.stream)
      THEN Start(full) ELSE full

(* Mutant: the new user's mutation queue is not looked at. *)
RestartStreamsUnfilled(st, q) == [Stop(st) EXCEPT !.pipeline = <<>>]

(* Mutant: what was in the pipeline is sent again. *)
RestartStreamsKeepingPipeline(st, q) == FillWritePipeline(Stop(st), q)

(* Mutant: a write stream that is open goes on. *)
RestartStreamsLazily(st, q) ==
  FillWritePipeline([st EXCEPT !.pipeline = <<>>, !.answered = 0], q)

RestartStreams(st, q) ==
  FillWritePipeline([Stop(st) EXCEPT !.pipeline = <<>>], q)

Streams == [pipeline |-> pipeline, stream |-> stream, answered |-> answered,
            requests |-> requests]

Become(st) ==
  /\ pipeline' = st.pipeline
  /\ stream' = st.stream
  /\ answered' = st.answered
  /\ requests' = st.requests

Views(keys, q) ==
  {b \in shown : b.key \notin keys} \cup {b \in Range(q) : b.key \in keys}

KeysOf(q) == {b.key : b \in Range(q)}

-----------------------------------------------------------------------------
(***************************************************************************)
(* The worker queue.                                                       *)
(***************************************************************************)
WriteMutations(w) ==
  LET b == [n |-> w.n, by |-> w.by, kind |-> w.kind, key |-> w.key,
            owner |-> user, live |-> TRUE]
      q == Append(queues[user], b)
  IN  /\ queues' = [queues EXCEPT ![user] = q]
      /\ handlers' = [handlers EXCEPT ![user] = @ \cup {b.n}]
      /\ shown' = Views({b.key}, q)
      /\ Become(FillWritePipeline(Streams, q))
      /\ UNCHANGED user

(* Mutant: only documents with writes of the new user are looked at. *)
ChangedKeysOfNewQueue(u) == KeysOf(queues[u])

ChangedKeys(u) == KeysOf(queues[user]) \cup KeysOf(queues[u])

(* Mutant: what the old user has not sent is thrown away. *)
HandleCredentialChangeDropping(u) ==
  /\ user' = u
  /\ queues' = [queues EXCEPT ![user] = IF u = user THEN @ ELSE <<>>]
  /\ shown' = IF u = user THEN shown ELSE Views(ChangedKeys(u), queues'[u])
  /\ Become(RestartStreams(Streams, queues'[u]))
  /\ UNCHANGED handlers

(* Mutant: the handlers of the old user are not kept for his return. *)
HandleCredentialChangeForgetting(u) ==
  /\ user' = u
  /\ handlers' = [handlers EXCEPT ![user] = IF u = user THEN @ ELSE {}]
  /\ shown' = IF u = user THEN shown ELSE Views(ChangedKeys(u), queues[u])
  /\ Become(RestartStreams(Streams, queues[u]))
  /\ UNCHANGED queues

HandleCredentialChange(u) ==
  /\ user' = u
  /\ shown' = IF u = user THEN shown ELSE Views(ChangedKeys(u), queues[u])
  /\ Become(RestartStreams(Streams, queues[u]))
  /\ UNCHANGED <<queues, handlers>>

ResumeStartWithCredentials(task) ==
  /\ stream' = IF task.closes = stream.closes
               THEN [stream EXCEPT !.state = "connecting", !.as = task.who]
               ELSE stream
  /\ UNCHANGED <<clientVars, pipeline, answered, requests>>

RunTask ==
  /\ worker # <<>>
  /\ worker' = Tail(worker)
  /\ LET task == Head(worker)
     IN  CASE task.kind = "write"  -> WriteMutations(task.write)
           [] task.kind = "user"   -> HandleCredentialChange(task.user)
           [] task.kind = "resume" -> ResumeStartWithCredentials(task)
  /\ UNCHANGED <<authVars, appVars, provider, main, log, made, faults>>

OnWriteStreamHandshakeComplete ==
  /\ stream.state = "connecting"
  /\ stream' = [stream EXCEPT !.state = "open"]
  /\ UNCHANGED <<authVars, appVars, provider, requests, main, worker,
                 clientVars, pipeline, answered, log, made, faults>>

(* The server takes the next write of the stream: external. *)
Commit ==
  /\ stream.state = "open"
  /\ answered < Len(pipeline)
  /\ LET b == pipeline[answered + 1]
     IN  log' = Append(log, [owner |-> b.owner, n |-> b.n, by |-> b.by,
                             kind |-> b.kind, key |-> b.key, as |-> stream.as])
  /\ answered' = answered + 1
  /\ UNCHANGED <<authVars, appVars, provider, requests, main, worker,
                 clientVars, pipeline, stream, made, faults>>

(* What is answered is the first batch of the pipeline and of the queue.   *)
NotifyUser(n) == handlers' = [handlers EXCEPT ![user] = @ \ {n}]

OnWriteStreamMutationResult ==
  /\ answered > 0
  /\ LET b  == Head(pipeline)
         q  == Tail(queues[user])
         st == [Streams EXCEPT !.pipeline = Tail(@), !.answered = @ - 1]
     IN  /\ NotifyUser(b.n)
         /\ main' = IF b.n \in handlers[user]
                    THEN Append(main, [kind |-> "handler", batch |-> b])
                    ELSE main
         /\ queues' = [queues EXCEPT ![user] = q]
         /\ shown' = Views({b.key}, q)
         /\ Become(FillWritePipeline(st, q))
  /\ UNCHANGED <<authVars, appVars, provider, worker, user, log, made, faults>>

OnWriteStreamClose ==
  /\ stream.state \in {"connecting", "open"}
  /\ LET closed == Close(Streams, "error")
     IN  Become(IF pipeline # <<>> THEN Start(closed) ELSE closed)
  /\ FaultHappens("break")
  /\ UNCHANGED <<authVars, appVars, provider, main, worker, clientVars, log,
                 made>>

BackoffElapses ==
  /\ stream.state = "backoff"
  /\ Become(Start([Streams EXCEPT !.stream.state = "initial"]))
  /\ UNCHANGED <<authVars, appVars, provider, main, worker, clientVars, log,
                 made, faults>>

IdleTimerFires ==
  /\ stream.state = "open"
  /\ pipeline = <<>>
  /\ Become(Close(Streams, "initial"))
  /\ UNCHANGED <<authVars, appVars, provider, main, worker, clientVars, log,
                 made, faults>>

-----------------------------------------------------------------------------
(***************************************************************************)
(* FIRAuth's queue.  A change of user is told to the main queue, and after *)
(* it the completion handler is run there.  A token is the one of the user *)
(* at the time it is asked for; fetching a new one takes a while.          *)
(***************************************************************************)
Changed(u) == [kind |-> "changed", user |-> u]

(* Mutant: the completion handler is run before anyone knows of the user. *)
UpdateCurrentUserLate(u, completion) ==
  /\ auth' = u
  /\ main' = main \o completion \o <<Changed(u)>>

UpdateCurrentUser(u, completion) ==
  /\ auth' = u
  /\ main' = main \o <<Changed(u)>> \o completion

CreateAccount(a) ==
  /\ a \in attempts
  /\ a.how = "createUser" /\ ~a.made
  /\ IF a.email \in accounts
     THEN /\ attempts' = attempts \ {a}
          /\ UNCHANGED accounts
     ELSE /\ attempts' = (attempts \ {a}) \cup {[a EXCEPT !.made = TRUE]}
          /\ accounts' = accounts \cup {a.email}
  /\ UNCHANGED <<auth, screen, field, provider, requests, main, worker,
                 clientVars, pipeline, stream, answered, log, made, faults>>

CompleteSignIn(a) ==
  /\ a \in attempts
  /\ a.made \/ a.how = "signIn"
  /\ attempts' = attempts \ {a}
  /\ IF a.email \in accounts
     THEN UpdateCurrentUser(a.email, <<[kind |-> "signedIn", attempt |-> a]>>)
     ELSE UNCHANGED <<auth, main>>
  /\ UNCHANGED <<accounts, screen, field, provider, requests, worker,
                 clientVars, pipeline, stream, answered, log, made, faults>>

ReadToken(r) ==
  /\ r \in requests
  /\ ~r.read
  /\ requests' = (requests \ {r}) \cup {[r EXCEPT !.who = auth, !.read = TRUE]}
  /\ UNCHANGED <<authVars, appVars, provider, main, worker, clientVars,
                 pipeline, stream, answered, log, made, faults>>

DispatchToken(r) ==
  /\ r \in requests
  /\ r.read
  /\ requests' = requests \ {r}
  /\ main' = Append(main, [kind |-> "token", request |-> r])
  /\ UNCHANGED <<authVars, appVars, provider, worker, clientVars, pipeline,
                 stream, answered, log, made, faults>>

-----------------------------------------------------------------------------
(***************************************************************************)
(* The main queue: what the credentials provider hears, and the completion *)
(* handlers of the app.                                                    *)
(***************************************************************************)
Enqueue(task) == worker' = Append(worker, task)

(* A call of setData or addDocument: a task for the worker queue. *)
Write(kind, key, by) ==
  /\ made' = [made EXCEPT !.writes = @ + 1]
  /\ Enqueue([kind |-> "write",
              write |-> [n |-> made.writes + 1, by |-> by, kind |-> kind,
                         key |-> key]])

HearChange(u) ==
  /\ provider' = [user |-> u, counter |-> provider.counter + 1]
  /\ Enqueue([kind |-> "user", user |-> u])
  /\ UNCHANGED <<requests, screen, made>>

HearToken(r) ==
  /\ IF r.counter # provider.counter
     THEN /\ requests' = requests \cup {Request(r.closes)}
          /\ UNCHANGED worker
     ELSE /\ Enqueue([kind |-> "resume", who |-> r.who, closes |-> r.closes])
          /\ UNCHANGED requests
  /\ UNCHANGED <<provider, screen, made>>

(* Mutant: the profile is left to the next start of the app. *)
SignedInWithoutProfile(a) ==
  /\ screen' = "contacts"
  /\ UNCHANGED <<provider, requests, worker, made>>

SignedIn(a) ==
  /\ IF a.how = "createUser"
     THEN Write("profile", <<"users", field>>, a.email)
     ELSE UNCHANGED <<worker, made>>
  /\ screen' = "contacts"
  /\ UNCHANGED <<provider, requests>>

RunHandler(b) ==
  /\ IF b.kind = "message"
     THEN Write("active", <<"chats">>, b.by)
     ELSE UNCHANGED <<worker, made>>
  /\ UNCHANGED <<provider, requests, screen>>

RunMain ==
  /\ main # <<>>
  /\ main' = Tail(main)
  /\ LET block == Head(main)
     IN  CASE block.kind = "changed"  -> HearChange(block.user)
           [] block.kind = "token"    -> HearToken(block.request)
           [] block.kind = "signedIn" -> SignedIn(block.attempt)
           [] block.kind = "handler"  -> RunHandler(block.batch)
  /\ UNCHANGED <<authVars, field, attempts, clientVars, pipeline, stream,
                 answered, log, faults>>

-----------------------------------------------------------------------------
(***************************************************************************)
(* The user.                                                               *)
(***************************************************************************)
UnderWay ==
  \/ attempts # {}
  \/ \E i \in DOMAIN main : main[i].kind = "signedIn"

TouchesStartScreen ==
  /\ screen = "start"
  /\ IF UnderWay THEN FaultHappens("hurry") ELSE UNCHANGED faults

Type(u) ==
  /\ TouchesStartScreen
  /\ field # u
  /\ made.signIns < MaxSignIns \/ UnderWay
  /\ field' = u
  /\ UNCHANGED <<authVars, screen, attempts, provider, requests, main, worker,
                 clientVars, pipeline, stream, answered, log, made>>

PressButton(how) ==
  /\ TouchesStartScreen
  /\ field # NoUser
  /\ made.signIns < MaxSignIns
  /\ attempts' = attempts \cup {[how |-> how, email |-> field, made |-> FALSE]}
  /\ made' = [made EXCEPT !.signIns = @ + 1]
  /\ UNCHANGED <<authVars, screen, field, provider, requests, main, worker,
                 clientVars, pipeline, stream, answered, log>>

SendMessage ==
  /\ screen = "contacts"
  /\ auth # NoUser
  /\ made.messages < MaxMessages
  /\ made' = [made EXCEPT !.writes = @ + 1, !.messages = @ + 1]
  /\ Enqueue([kind |-> "write",
              write |-> [n |-> made.writes + 1, by |-> auth,
                         kind |-> "message",
                         key |-> <<"messages", made.messages + 1>>]])
  /\ UNCHANGED <<authVars, appVars, provider, requests, main, clientVars,
                 pipeline, stream, answered, log, faults>>

SignUserOut ==
  /\ screen = "contacts"
  /\ IF auth # NoUser THEN UpdateCurrentUser(NoUser, <<>>)
     ELSE UNCHANGED <<auth, main>>
  /\ screen' = "start"
  /\ UNCHANGED <<accounts, field, attempts, provider, requests, worker,
                 clientVars, pipeline, stream, answered, log, made, faults>>

(***************************************************************************)
(* The app dies and is started.  FIRAuth reads the user from the keychain  *)
(* on its own queue; the credentials provider may ask before or after, and *)
(* is told in both cases.                                                  *)
(***************************************************************************)
Fresh(u) ==
  FillWritePipeline(
    [pipeline |-> <<>>, answered |-> 0, requests |-> {},
     stream |-> [state |-> "initial", as |-> NoUser, closes |-> 0]],
    queues[u])

Kill ==
  /\ FaultHappens("kill")
  /\ screen' = "start"
  /\ field' = NoUser
  /\ attempts' = {}
  /\ main' = IF auth = NoUser THEN <<>> ELSE <<Changed(auth)>>
  /\ worker' = <<>>
  /\ handlers' = [u \in Owner |-> {}]
  /\ \E u \in {auth, NoUser} :
       /\ user' = u
       /\ provider' = [provider EXCEPT !.user = u]
       /\ queues' = [v \in Owner |->
                       [i \in DOMAIN queues[v] |->
                          [queues[v][i] EXCEPT !.live = FALSE]]]
       /\ shown' = Range(queues'[u])
       /\ Become([Fresh(u) EXCEPT
                    !.pipeline = [i \in DOMAIN @ |-> queues'[u][i]]])
  /\ UNCHANGED <<accounts, auth, log, made>>

-----------------------------------------------------------------------------
Init ==
  /\ accounts = InitialAccounts
  /\ auth = NoUser
  /\ screen = "start"
  /\ field = NoUser
  /\ attempts = {}
  /\ provider = [user |-> NoUser, counter |-> 0]
  /\ requests = {}
  /\ main = <<>>
  /\ worker = <<>>
  /\ user = NoUser
  /\ queues = [u \in Owner |-> <<>>]
  /\ handlers = [u \in Owner |-> {}]
  /\ shown = {}
  /\ pipeline = <<>>
  /\ stream = [state |-> "initial", as |-> NoUser, closes |-> 0]
  /\ answered = 0
  /\ log = <<>>
  /\ made = [writes |-> 0, messages |-> 0, signIns |-> 0]
  /\ faults = [f \in Fault |-> 0]

User ==
  \/ \E u \in Account : Type(u)
  \/ \E how \in {"createUser", "signIn"} : PressButton(how)
  \/ SendMessage
  \/ SignUserOut

Authentication ==
  \/ \E a \in attempts : CreateAccount(a) \/ CompleteSignIn(a)
  \/ \E r \in requests : ReadToken(r) \/ DispatchToken(r)

Background ==
  \/ RunTask
  \/ RunMain
  \/ OnWriteStreamHandshakeComplete
  \/ Commit
  \/ OnWriteStreamMutationResult
  \/ BackoffElapses

Next ==
  \/ User \/ Authentication \/ Background
  \/ OnWriteStreamClose \/ IdleTimerFires \/ Kill

SessionSpec == Init /\ [][Next]_sessionVars

(***************************************************************************)
(* The queues are served, tokens are fetched, streams connect after their  *)
(* backoff and the server answers.                                         *)
(***************************************************************************)
Fairness ==
  /\ WF_sessionVars(Background)
  /\ WF_sessionVars(RunTask) /\ WF_sessionVars(RunMain)
  /\ WF_sessionVars(Authentication)
  /\ WF_sessionVars(Commit) /\ WF_sessionVars(OnWriteStreamMutationResult)

LiveSpec == SessionSpec /\ Fairness

-----------------------------------------------------------------------------
(***************************************************************************)
(* The types that are not plain from Init; and the pipeline holds the      *)
(* first batches of the queue of the user the worker knows, as many as are *)
(* allowed, and a stream has been started when there are any.              *)
(***************************************************************************)
SessionTypeOK ==
  /\ auth \in Owner /\ user \in Owner /\ provider.user \in Owner
  /\ accounts \subseteq Account
  /\ stream.state \in
       {"initial", "starting", "connecting", "open", "error", "backoff"}
  /\ answered \in 0 .. Len(pipeline)
  /\ answered > 0 => stream.state = "open"
  /\ IsPrefix(pipeline, queues[user])
  /\ Len(pipeline) < MaxPendingWrites => pipeline = queues[user]
  /\ pipeline # <<>> => IsStarted(stream)

(***************************************************************************)
(* Whatever the order in which a change of user, the token of a stream and *)
(* broken streams come through the three queues: a write is committed with *)
(* the token of the user in whose queue it was stored ("mutations are      *)
(* per-user", remote_store.cc).                                            *)
(***************************************************************************)
CommittedAsOwner == \A i \in DOMAIN log : log[i].as = log[i].owner

(***************************************************************************)
(* The views show the pending writes of the user the worker knows and of   *)
(* nobody else: they follow a change of user, in both directions.          *)
(***************************************************************************)
ViewsFollowUser == shown = Range(queues[user])

(***************************************************************************)
(* A pending write keeps its completion handler while its user is signed   *)
(* out, as long as the app runs; the handler goes with the write.          *)
(***************************************************************************)
HandlersKept ==
  \A u \in Owner : handlers[u] = {b.n : b \in {c \in Range(queues[u]) : c.live}}

(***************************************************************************)
(* What a user writes is stored in his own queue, and so is the profile of *)
(* a new account: the main queue hears of the new user before the handler  *)
(* that writes it.  Not so for those who tap again while a sign-in is      *)
(* under way, and for the chatLastActive of a handler that runs after its  *)
(* user has signed out: see the README.                                    *)
(***************************************************************************)
OwnQueue ==
  faults["hurry"] = 0 =>
    \A u \in Owner : \A b \in Range(queues[u]) : b.kind # "active" => b.by = u

(***************************************************************************)
(* One who has registered can be found by others when everything has been  *)
(* sent, though he may have signed out at once: his profile is in the      *)
(* collection that AddUserManager.loadUsers reads.  Not so if the app was  *)
(* killed before the handler that writes the profile, which reads the text *)
(* field once more, or if another address was typed there in a hurry.      *)
(***************************************************************************)
Profiles ==
  InitialAccounts \cup
    {log[i].key[2] : i \in {j \in DOMAIN log : log[j].kind = "profile"}}

Settled ==
  /\ attempts = {}
  /\ main = <<>>
  /\ worker = <<>>
  /\ \A u \in Owner : queues[u] = <<>>

EveryAccountIsListed ==
  Settled /\ faults["kill"] = 0 /\ faults["hurry"] = 0 =>
    accounts \subseteq Profiles

(***************************************************************************)
(* The writes of each user are a log of their own, kept and delivered in   *)
(* order whoever is signed in meanwhile (module WriteLog).                 *)
(***************************************************************************)
Stored == [u \in Owner |-> [i \in DOMAIN queues[u] |-> queues[u][i].n]]

Commits == [i \in DOMAIN log |-> <<log[i].owner, log[i].n>>]

Writes == INSTANCE WriteLog WITH
  Device <- Owner,
  Number <- 1 .. 2 * MaxMessages + MaxSignIns,
  outbox <- Stored,
  log <- Commits,
  refused <- [u \in Owner |-> 0]

ImplementsWriteLog == Writes!Spec

(***************************************************************************)
(* While a user stays signed in, his writes come to be answered, those of  *)
(* an earlier session included.                                            *)
(***************************************************************************)
EventuallySent == \A u \in Account : []<>(user # u \/ queues[u] = <<>>)
-----------------------------------------------------------------------------
(***************************************************************************)
(* Why commits have the right owner, whatever the constants.  A change of  *)
(* user that is in flight is a block on the main queue or, behind it, a    *)
(* task on the worker queue; the last of them brings the user FIRAuth has. *)
(***************************************************************************)
DocumentKey ==
  ({"users"} \X Owner) \cup ({"messages"} \X Nat) \cup {<<"chats">>}

WriteRecord ==
  [n : Nat, by : Owner, kind : {"profile", "message", "active"},
   key : DocumentKey]

Batch ==
  [n : Nat, by : Owner, kind : {"profile", "message", "active"},
   key : DocumentKey, owner : Owner, live : BOOLEAN]

BatchOf(u) == {b \in Batch : b.owner = u}

CommitRecord ==
  [n : Nat, by : Owner, kind : {"profile", "message", "active"},
   key : DocumentKey, owner : Owner, as : Owner]

Token == [counter : Nat, closes : Nat, who : Owner, read : BOOLEAN]

Attempt == [how : {"createUser", "signIn"}, email : Owner, made : BOOLEAN]

Task ==
  [kind : {"write"}, write : WriteRecord]
    \cup [kind : {"user"}, user : Owner]
    \cup [kind : {"resume"}, who : Owner, closes : Nat]

Block ==
  [kind : {"changed"}, user : Owner]
    \cup [kind : {"token"}, request : Token]
    \cup [kind : {"signedIn"}, attempt : Attempt]
    \cup [kind : {"handler"}, batch : Batch]

OwnedTypes ==
  /\ auth \in Owner /\ user \in Owner /\ field \in Owner
  /\ provider \in [user : Owner, counter : Nat]
  /\ attempts \subseteq Attempt
  /\ requests \subseteq Token
  /\ main \in Seq(Block)
  /\ worker \in Seq(Task)
  /\ DOMAIN queues = Owner
  /\ \A u \in Owner : queues[u] \in Seq(BatchOf(u))
  /\ pipeline \in Seq(BatchOf(user))
  /\ stream \in [state : {"initial", "starting", "connecting", "open",
                          "error", "backoff"},
                 as : Owner, closes : Nat]
  /\ answered \in Nat
  /\ log \in Seq(CommitRecord)
  /\ made \in [writes : Nat, messages : Nat, signIns : Nat]

IsChange(block) == block.kind = "changed"

IsUserTask(task) == task.kind = "user"

ChangeOnMain == \E i \in DOMAIN main : IsChange(main[i])

ChangeOnWorker == \E i \in DOMAIN worker : IsUserTask(worker[i])

(***************************************************************************)
(* The last change in flight brings auth to the worker.                    *)
(***************************************************************************)
AuthIsComing ==
  /\ \A i \in DOMAIN main :
       IsChange(main[i]) /\ (\A j \in DOMAIN main : j > i => ~IsChange(main[j]))
         => main[i].user = auth
  /\ ~ChangeOnMain =>
       \A i \in DOMAIN worker :
         IsUserTask(worker[i])
           /\ (\A j \in DOMAIN worker : j > i => ~IsUserTask(worker[j]))
           => worker[i].user = auth
  /\ ~ChangeOnMain /\ ~ChangeOnWorker => user = auth

(***************************************************************************)
(* A token with the close count of the stream belongs to the start that is *)
(* under way, so that closing the stream makes it void; and unless a       *)
(* change of user will be there first, it is the token of the user the     *)
(* worker knows.                                                           *)
(***************************************************************************)
BelongsToStart(closes, s) ==
  /\ closes <= s.closes
  /\ closes = s.closes =>
       s.state \in {"starting", "connecting", "open"}

TokensBelongToStarts ==
  /\ \A r \in requests : BelongsToStart(r.closes, stream)
  /\ \A i \in DOMAIN main :
       main[i].kind = "token" => BelongsToStart(main[i].request.closes, stream)
  /\ \A i \in DOMAIN worker :
       worker[i].kind = "resume" => BelongsToStart(worker[i].closes, stream)

TokensAreTheUsers ==
  /\ \A r \in requests :
       r.read /\ r.closes = stream.closes =>
         r.who = user \/ ChangeOnWorker \/ ChangeOnMain
  /\ \A i \in DOMAIN main :
       main[i].kind = "token" /\ main[i].request.closes = stream.closes =>
         \/ main[i].request.who = user
         \/ ChangeOnWorker
         \/ \E j \in 1 .. i - 1 : IsChange(main[j])
  /\ \A i \in DOMAIN worker :
       worker[i].kind = "resume" /\ worker[i].closes = stream.closes =>
         \/ worker[i].who = user
         \/ \E j \in 1 .. i - 1 : IsUserTask(worker[j])

StreamIsTheUsers ==
  stream.state \in {"connecting", "open"} => stream.as = user

OwnershipInvariant ==
  /\ OwnedTypes
  /\ AuthIsComing
  /\ TokensBelongToStarts
  /\ TokensAreTheUsers
  /\ StreamIsTheUsers
  /\ CommittedAsOwner

(***************************************************************************)
(* The queues are in the order of their numbers, writes that wait for the  *)
(* worker are newer still, and the pipeline holds the first batches of the *)
(* queue of the user the worker knows.                                     *)
(***************************************************************************)
QueuesAreOrdered ==
  \A u \in Owner :
    /\ \A i \in DOMAIN queues[u] : queues[u][i].n \in 1 .. made.writes
    /\ \A i, j \in DOMAIN queues[u] : i < j => queues[u][i].n < queues[u][j].n

TasksAreNewer ==
  \A i \in DOMAIN worker : worker[i].kind = "write" =>
    /\ worker[i].write.n \in 1 .. made.writes
    /\ \A u \in Owner : \A j \in DOMAIN queues[u] :
         queues[u][j].n < worker[i].write.n
    /\ \A j \in 1 .. i - 1 :
         worker[j].kind = "write" => worker[j].write.n < worker[i].write.n

IsQueued(p, q) ==
  /\ Len(p) <= Len(q) /\ Len(p) <= MaxPendingWrites
  /\ \A i \in DOMAIN p : p[i] = q[i]

PipelineIsQueued ==
  /\ IsQueued(pipeline, queues[user])
  /\ answered <= Len(pipeline)
  /\ answered > 0 => IsStarted(stream)

SessionInvariant ==
  OwnershipInvariant /\ QueuesAreOrdered /\ TasksAreNewer /\ PipelineIsQueued

(***************************************************************************)
(* A start has one token, asked for, on its way or used up: a second one   *)
(* with its close count would take an open stream back to connecting.      *)
(***************************************************************************)
RequestsOfStart == {r \in requests : r.closes = stream.closes}

BlocksOfStart ==
  {i \in DOMAIN main :
     main[i].kind = "token" /\ main[i].request.closes = stream.closes}

TasksOfStart ==
  {i \in DOMAIN worker :
     worker[i].kind = "resume" /\ worker[i].closes = stream.closes}

StartHasOneToken ==
  /\ \A r, s \in RequestsOfStart : r = s
  /\ \A i, j \in BlocksOfStart : i = j
  /\ \A i, j \in TasksOfStart : i = j
  /\ RequestsOfStart = {} \/ BlocksOfStart = {}
  /\ RequestsOfStart = {} \/ TasksOfStart = {}
  /\ BlocksOfStart = {} \/ TasksOfStart = {}
  /\ stream.state # "starting" =>
       RequestsOfStart = {} /\ BlocksOfStart = {} /\ TasksOfStart = {}

(***************************************************************************)
(* The pipeline holds as much of the queue as it may, on a stream that has *)
(* been started, and answers come from an open stream only.                *)
(***************************************************************************)
PipelineIsFull ==
  /\ Len(pipeline) < MaxPendingWrites => Len(pipeline) = Len(queues[user])
  /\ pipeline # <<>> => IsStarted(stream)
  /\ answered > 0 => stream.state = "open"

==============================================================================
