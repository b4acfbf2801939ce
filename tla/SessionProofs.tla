---------------------------- MODULE SessionProofs ----------------------------
(***************************************************************************)
(* What holds of Session for any accounts and bounds.                      *)
(*                                                                         *)
(*   - Every write is committed with the token of its owner:               *)
(*     SessionOwnership shows that steps keep OwnershipInvariant, an       *)
(*     answer as long as the pipeline holds what is first in the queue;    *)
(*     that it does rests on the order of the queues, and is shown here.   *)
(*   - The views show the writes of the user; handlers go with them.       *)
(*   - Who does not hurry writes into his own queue.                       *)
(*   - Every account comes to be listed.                                   *)
(*   - The writes of each user are a WriteLog of their own.                *)
(*   - A start of the stream has one token, and the pipeline holds as much *)
(*     of the queue as it may: the type invariant.                         *)
(***************************************************************************)
EXTENDS SessionOwnership

-----------------------------------------------------------------------------
(***************************************************************************)
(* The pipeline is filled with the first batches of the queue: the batches *)
(* up to the last of the pipeline are those that are in it.                *)
(***************************************************************************)
LEMMA CardinalityUpTo ==
  ASSUME NEW k \in Nat
  PROVE  Cardinality(1 .. k) = k
<1>1. k \in Int /\ 1 \in Int
  OBVIOUS
<1>2. Cardinality(1 .. k) = IF 1 > k THEN 0 ELSE k - 1 + 1
  BY <1>1, FS_Interval
<1> QED
  BY <1>2

LEMMA FillQueues ==
  ASSUME NEW S, NEW st \in StreamsWith(S), NEW q \in Seq(S),
         \A i \in DOMAIN q : q[i].n \in Nat \ {0},
         \A i, j \in DOMAIN q : i < j => q[i].n < q[j].n,
         IsQueued(st.pipeline, q)
  PROVE  LET rt == FillWritePipeline(st, q)
         IN  /\ IsQueued(rt.pipeline, q)
             /\ Len(st.pipeline) <= Len(rt.pipeline)
             /\ rt.answered = st.answered
             /\ IsStarted(st.stream) => rt.stream = st.stream
             /\ IsStarted(st.stream) => IsStarted(rt.stream)
             /\ Len(rt.pipeline) < MaxPendingWrites =>
                  Len(rt.pipeline) = Len(q)
             /\ rt.pipeline # <<>> => IsStarted(rt.stream)
<1> DEFINE p == st.pipeline
           k == Len(p)
           last == IF p = <<>> THEN 0 ELSE Last(p).n
           rest == NextAfter(q, last)
           more == p \o rest
           room == IF Len(more) < MaxPendingWrites THEN Len(more)
                   ELSE MaxPendingWrites
           full == [st EXCEPT !.pipeline = SubSeq(more, 1, room)]
<1>1. FillWritePipeline(st, q) =
        IF full.pipeline # <<>> /\ ~IsStarted(full.stream)
        THEN Start(full) ELSE full
  BY DEF FillWritePipeline
<1>2. /\ p \in Seq(S) /\ k \in Nat /\ Len(q) \in Nat
      /\ DOMAIN p = 1 .. k /\ DOMAIN q = 1 .. Len(q)
      /\ k <= Len(q) /\ k <= MaxPendingWrites
      /\ \A i \in 1 .. k : p[i] = q[i]
      /\ p = <<>> <=> k = 0
      /\ k = Len(st.pipeline)
  <2>1. p \in Seq(S)
    BY DEF StreamsWith
  <2> QED
    BY <2>1, EmptySeq DEF IsQueued
<1> HIDE DEF p, k
<1>3. {i \in DOMAIN q : q[i].n <= last} = 1 .. k
  <2>1. CASE k = 0
    <3>1. last = 0 /\ 1 .. k = {}
      BY <2>1, <1>2
    <3> QED
      BY <3>1
  <2>2. CASE k > 0
    <3>1. k \in DOMAIN q /\ last = q[k].n
      BY <2>2, <1>2 DEF Last
    <3>2. ASSUME NEW i \in DOMAIN q PROVE q[i].n <= last <=> i <= k
      <4>1. i \in Nat /\ q[i].n \in Nat /\ q[k].n \in Nat
        BY <3>1, <1>2
      <4>2. i < k => q[i].n < q[k].n
        BY <3>1
      <4>3. k < i => q[k].n < q[i].n
        BY <3>1
      <4>4. i < k \/ i = k \/ k < i
        BY <4>1, <1>2
      <4> QED
        BY <3>1, <4>1, <4>2, <4>3, <4>4, <1>2
    <3> QED
      BY <3>2, <1>2
  <2> QED
    BY <2>1, <2>2, <1>2
<1>4. rest = SubSeq(q, k + 1, Len(q))
  <2>1. Cardinality(1 .. k) = k
    <3>1. k \in Nat
      BY <1>2
    <3> QED
      BY <3>1, CardinalityUpTo
  <2> QED
    BY <2>1, <1>3 DEF NextAfter
<1> HIDE DEF rest, last
<1>5. /\ rest \in Seq(S)
      /\ Len(rest) = Len(q) - k
      /\ \A i \in 1 .. Len(q) - k : rest[i] = q[k + i]
  <2>1. /\ SubSeq(q, k + 1, Len(q)) \in Seq(S)
        /\ Len(SubSeq(q, k + 1, Len(q))) =
             IF k + 1 <= Len(q) THEN Len(q) - (k + 1) + 1 ELSE 0
        /\ \A i \in 1 .. Len(q) - (k + 1) + 1 :
             SubSeq(q, k + 1, Len(q))[i] = q[(k + 1) + i - 1]
    <3> DEFINE m == k + 1
    <3>1. m \in Int /\ Len(q) \in Int /\ \A i \in m .. Len(q) : q[i] \in S
      BY <1>2
    <3> HIDE DEF m
    <3>2. /\ SubSeq(q, m, Len(q)) \in Seq(S)
          /\ Len(SubSeq(q, m, Len(q))) = IF m <= Len(q) THEN Len(q) - m + 1 ELSE 0
          /\ \A i \in 1 .. Len(q) - m + 1 : SubSeq(q, m, Len(q))[i] = q[m + i - 1]
      BY <3>1, SubSeqProperties
    <3> QED
      BY <3>2 DEF m
  <2>2. Len(rest) = Len(q) - k
    <3>1. k \in Nat /\ Len(q) \in Nat /\ k <= Len(q)
      BY <1>2
    <3>2. (IF k + 1 <= Len(q) THEN Len(q) - (k + 1) + 1 ELSE 0) = Len(q) - k
      BY <3>1
    <3> QED
      BY <2>1, <3>2, <1>4
  <2>3. ASSUME NEW i \in 1 .. Len(q) - k PROVE rest[i] = q[k + i]
    <3>1. i \in 1 .. Len(q) - (k + 1) + 1 /\ (k + 1) + i - 1 = k + i
      BY <1>2
    <3> QED
      BY <3>1, <2>1, <1>4
  <2> QED
    BY <2>1, <2>2, <2>3, <1>4
<1> HIDE DEF more, room, full
<1>6. /\ more \in Seq(S)
      /\ Len(more) = Len(q)
      /\ \A i \in 1 .. Len(q) : more[i] = q[i]
  <2>1. /\ more \in Seq(S)
        /\ Len(more) = k + Len(rest)
        /\ \A i \in 1 .. k + Len(rest) :
             more[i] = IF i <= k THEN p[i] ELSE rest[i - k]
    <3>1. p \in Seq(S) /\ rest \in Seq(S)
      BY <1>2, <1>5, Zenon
    <3>a. Len(p) = k
      BY Zenon DEF k
    <3> HIDE DEF p
    <3>2. /\ p \o rest \in Seq(S)
          /\ Len(p \o rest) = Len(p) + Len(rest)
          /\ \A i \in 1 .. Len(p) + Len(rest) :
               (p \o rest)[i] = IF i <= Len(p) THEN p[i] ELSE rest[i - Len(p)]
      BY <3>1, ConcatProperties
    <3> QED
      BY <3>a, <3>2, Zenon DEF more
  <2>2. ASSUME NEW i \in 1 .. Len(q), i > k PROVE rest[i - k] = q[i]
    <3>1. i - k \in 1 .. Len(q) - k /\ k + (i - k) = i
      BY <2>2, <1>2
    <3> QED
      BY <3>1, <1>5
  <2>3. k + Len(rest) = Len(q)
    <3>1. k \in Nat /\ Len(q) \in Nat /\ Len(rest) = Len(q) - k
      BY <1>2, <1>5, Zenon
    <3> QED
      BY <3>1
  <2>4. ASSUME NEW i \in 1 .. Len(q) PROVE more[i] = q[i]
    <3>1. more[i] = IF i <= k THEN p[i] ELSE rest[i - k]
      BY <2>1, <2>3
    <3>2. i <= k => i \in 1 .. k
      BY <1>2
    <3>3. i \in Nat /\ k \in Nat
      BY <1>2
    <3>4. CASE i <= k
      BY <3>1, <3>2, <3>4, <1>2
    <3>5. CASE i > k
      BY <3>1, <3>3, <3>5, <2>2
    <3> QED
      BY <3>3, <3>4, <3>5
  <2> QED
    BY <2>1, <2>3, <2>4
<1>7. room \in Nat /\ room <= Len(q) /\ room <= MaxPendingWrites /\ k <= room
  BY <1>2, <1>6, BoundAssumption DEF room
<1>8. /\ SubSeq(more, 1, room) \in Seq(S)
      /\ Len(SubSeq(more, 1, room)) = room
      /\ \A i \in 1 .. room : SubSeq(more, 1, room)[i] = q[i]
  <2>1. /\ SubSeq(more, 1, room) \in Seq(S)
        /\ Len(SubSeq(more, 1, room)) = IF 1 <= room THEN room - 1 + 1 ELSE 0
        /\ \A i \in 1 .. room - 1 + 1 :
             SubSeq(more, 1, room)[i] = more[1 + i - 1]
    BY <1>2, <1>6, <1>7, SubSeqProperties
  <2> QED
    BY <2>1, <1>2, <1>6, <1>7
<1>9. /\ full.pipeline = SubSeq(more, 1, room)
      /\ full.answered = st.answered /\ full.stream = st.stream
      /\ full \in StreamsWith(S)
  BY <1>8 DEF StreamsWith, full
<1>10. /\ IsQueued(full.pipeline, q) /\ k <= Len(full.pipeline)
       /\ Len(full.pipeline) < MaxPendingWrites => Len(full.pipeline) = Len(q)
  <2>1. Len(full.pipeline) = room
    BY <1>8, <1>9
  <2>2. IsQueued(full.pipeline, q)
    BY <1>7, <1>8, <1>9 DEF IsQueued
  <2>3. room < MaxPendingWrites => room = Len(q)
    <3>1. Len(more) = Len(q)
      BY <1>6
    <3>2. ~(MaxPendingWrites < MaxPendingWrites)
      BY BoundAssumption
    <3> QED
      BY <3>1, <3>2, Zenon DEF room
  <2> QED
    BY <1>7, <2>1, <2>2, <2>3
<1>11. ~IsStarted(full.stream) =>
         /\ Start(full).pipeline = full.pipeline
         /\ Start(full).answered = full.answered
         /\ IsStarted(Start(full).stream)
  BY <1>9 DEF Start, StreamsWith, StreamType, IsStarted
<1>12. IsStarted(full.stream) <=> IsStarted(st.stream)
  BY <1>9
<1> QED
  BY <1>1, <1>2, <1>9, <1>10, <1>11, <1>12

-----------------------------------------------------------------------------
(***************************************************************************)
(* What steps do to the order of the queues and of the worker's tasks.     *)
(***************************************************************************)
LEMMA WorkerTypes ==
  ASSUME OwnedTypes
  PROVE  /\ worker \in Seq(Task) /\ Len(worker) \in Nat
         /\ DOMAIN worker = 1 .. Len(worker)
         /\ \A u \in Owner : /\ queues[u] \in Seq(BatchOf(u))
                             /\ Len(queues[u]) \in Nat
                             /\ DOMAIN queues[u] = 1 .. Len(queues[u])
         /\ made.writes \in Nat
<1>1. /\ worker \in Seq(Task)
      /\ \A u \in Owner : queues[u] \in Seq(BatchOf(u))
      /\ made \in [writes : Nat, messages : Nat, signIns : Nat]
  BY DEF OwnedTypes
<1> QED
  BY <1>1

LEMMA OtherTask ==
  ASSUME OwnedTypes, QueuesAreOrdered, TasksAreNewer, NEW task \in Task,
         worker' = Append(worker, task), task.kind # "write", queues' = queues,
         made'.writes = made.writes
  PROVE  QueuesAreOrdered' /\ TasksAreNewer'
<1>1. /\ Len(worker) \in Nat
      /\ DOMAIN worker = 1 .. Len(worker)
      /\ DOMAIN worker' = 1 .. Len(worker) + 1
      /\ worker'[Len(worker) + 1] = task
      /\ \A i \in 1 .. Len(worker) : worker'[i] = worker[i]
  BY WorkerTypes, Appending
<1>2. QueuesAreOrdered'
  BY DEF QueuesAreOrdered
<1>3. ASSUME NEW i \in DOMAIN worker', worker'[i].kind = "write"
      PROVE  /\ i \in DOMAIN worker /\ worker'[i] = worker[i]
             /\ \A j \in 1 .. i - 1 : worker'[j] = worker[j]
  BY <1>1, <1>3
<1>4. TasksAreNewer'
  BY <1>3 DEF TasksAreNewer
<1> QED
  BY <1>2, <1>4

LEMMA WriteTask ==
  ASSUME OwnedTypes, QueuesAreOrdered, TasksAreNewer, NEW kind, NEW key, NEW by,
         worker' = Append(worker,
                     [kind |-> "write",
                      write |-> [n |-> made.writes + 1, by |-> by,
                                 kind |-> kind, key |-> key]]),
         made'.writes = made.writes + 1, queues' = queues
  PROVE  QueuesAreOrdered' /\ TasksAreNewer'
<1> DEFINE n == made.writes + 1
           task == [kind |-> "write",
                    write |-> [n |-> n, by |-> by, kind |-> kind, key |-> key]]
<1>1. worker' = Append(worker, task) /\ made'.writes = n
  OBVIOUS
<1>2. task.write.n = n /\ n \in Nat /\ made.writes \in Nat /\ n > made.writes
  BY WorkerTypes
<1>3. /\ Len(worker) \in Nat
      /\ DOMAIN worker = 1 .. Len(worker)
      /\ DOMAIN worker' = 1 .. Len(worker) + 1
      /\ worker'[Len(worker) + 1] = task
      /\ \A i \in 1 .. Len(worker) : worker'[i] = worker[i]
  <2>1. worker \in Seq(Task \cup {task})
    BY WorkerTypes
  <2> HIDE DEF task
  <2> QED
    BY <1>1, <2>1, Appending
<1> HIDE DEF task
<1>4. \A u \in Owner : \A j \in DOMAIN queues[u] :
        queues[u][j].n \in 1 .. made.writes
  BY DEF QueuesAreOrdered
<1>5. \A i \in DOMAIN worker : worker[i].kind = "write" =>
        worker[i].write.n \in 1 .. made.writes
  BY DEF TasksAreNewer
<1> HIDE DEF n
<1>6. QueuesAreOrdered'
  <2>1. \A u \in Owner : \A j \in DOMAIN queues[u] :
          queues[u][j].n \in 1 .. made'.writes
    BY <1>1, <1>2, <1>4
  <2> QED
    BY <2>1 DEF QueuesAreOrdered
<1>7. ASSUME NEW i \in DOMAIN worker', worker'[i].kind = "write"
      PROVE  /\ worker'[i].write.n \in 1 .. made'.writes
             /\ \A u \in Owner : \A j \in DOMAIN queues[u] :
                  queues[u][j].n < worker'[i].write.n
             /\ \A j \in 1 .. i - 1 : worker'[j].kind = "write" =>
                  worker'[j].write.n < worker'[i].write.n
  <2>1. CASE i \in DOMAIN worker
    <3>1. worker'[i] = worker[i] /\ \A j \in 1 .. i - 1 : worker'[j] = worker[j]
      BY <2>1, <1>3
    <3>2. worker[i].write.n \in 1 .. made'.writes
      BY <2>1, <3>1, <1>1, <1>2, <1>5, <1>7
    <3> QED
      BY <2>1, <3>1, <3>2, <1>7 DEF TasksAreNewer
  <2>2. CASE i = Len(worker) + 1
    <3>1. worker'[i].write.n = n
      BY <2>2, <1>2, <1>3
    <3>2. \A j \in 1 .. i - 1 : j \in DOMAIN worker /\ worker'[j] = worker[j]
      BY <2>2, <1>3
    <3>3. n \in 1 .. made'.writes
      BY <1>1, <1>2
    <3>4. \A m \in 1 .. made.writes : m < n
      BY <1>2
    <3> QED
      BY <3>1, <3>2, <3>3, <3>4, <1>4, <1>5
  <2> QED
    BY <2>1, <2>2, <1>3
<1>8. TasksAreNewer'
  BY <1>7 DEF TasksAreNewer
<1> QED
  BY <1>6, <1>8

LEMMA SameQueues ==
  ASSUME QueuesAreOrdered, TasksAreNewer, queues' = queues, worker' = worker,
         made'.writes = made.writes
  PROVE  QueuesAreOrdered' /\ TasksAreNewer'
BY DEF QueuesAreOrdered, TasksAreNewer

LEMMA SamePipeline ==
  ASSUME PipelineIsQueued, queues' = queues, user' = user, pipeline' = pipeline,
         answered' = answered, IsStarted(stream) => IsStarted(stream')
  PROVE  PipelineIsQueued'
BY DEF PipelineIsQueued, IsQueued

LEMMA NothingAnswered ==
  ASSUME OwnedTypes, PipelineIsQueued, queues' = queues, user' = user,
         pipeline' = pipeline, answered' = 0
  PROVE  PipelineIsQueued'
<1>1. Len(pipeline) \in Nat
  BY DEF OwnedTypes
<1> QED
  BY <1>1 DEF PipelineIsQueued, IsQueued

LEMMA SameClient ==
  ASSUME SessionInvariant, queues' = queues, worker' = worker, user' = user,
         made'.writes = made.writes, pipeline' = pipeline, answered' = answered,
         IsStarted(stream) => IsStarted(stream'), OwnershipInvariant'
  PROVE  SessionInvariant'
BY SameQueues, SamePipeline DEF SessionInvariant

LEMMA TaskServed ==
  ASSUME OwnedTypes, QueuesAreOrdered, TasksAreNewer, worker # <<>>,
         worker' = Tail(worker), queues' = queues, made' = made
  PROVE  QueuesAreOrdered' /\ TasksAreNewer'
<1>1. /\ Len(worker) \in Nat \ {0}
      /\ DOMAIN worker = 1 .. Len(worker)
      /\ DOMAIN worker' = 1 .. Len(worker) - 1
      /\ \A i \in 1 .. Len(worker) - 1 : worker'[i] = worker[i + 1]
  BY WorkerTypes, Removing
<1>2. QueuesAreOrdered'
  BY DEF QueuesAreOrdered
<1>3. ASSUME NEW i \in DOMAIN worker', worker'[i].kind = "write"
      PROVE  /\ worker'[i].write.n \in 1 .. made'.writes
             /\ \A u \in Owner : \A j \in DOMAIN queues[u] :
                  queues[u][j].n < worker'[i].write.n
             /\ \A j \in 1 .. i - 1 : worker'[j].kind = "write" =>
                  worker'[j].write.n < worker'[i].write.n
  <2>1. PICK k \in DOMAIN worker : k = i + 1 /\ worker'[i] = worker[k]
    BY <1>1
  <2>2. /\ worker[k].write.n \in 1 .. made.writes
        /\ \A u \in Owner : \A j \in DOMAIN queues[u] :
             queues[u][j].n < worker[k].write.n
        /\ \A j \in 1 .. k - 1 :
             worker[j].kind = "write" => worker[j].write.n < worker[k].write.n
    BY <1>3, <2>1 DEF TasksAreNewer
  <2>3. ASSUME NEW j \in 1 .. i - 1
        PROVE  j + 1 \in 1 .. k - 1 /\ worker'[j] = worker[j + 1]
    BY <1>1, <2>1
  <2> QED
    BY <2>1, <2>2, <2>3
<1>4. TasksAreNewer'
  BY <1>3 DEF TasksAreNewer
<1> QED
  BY <1>2, <1>4

LEMMA Ordered ==
  ASSUME OwnedTypes, QueuesAreOrdered, NEW u \in Owner
  PROVE  /\ queues[u] \in Seq(BatchOf(u))
         /\ \A i \in DOMAIN queues[u] : queues[u][i].n \in Nat \ {0}
         /\ \A i, j \in DOMAIN queues[u] :
              i < j => queues[u][i].n < queues[u][j].n
<1>1. made.writes \in Nat
  BY WorkerTypes
<1> QED
  BY <1>1, WorkerTypes DEF QueuesAreOrdered

-----------------------------------------------------------------------------
(***************************************************************************)
(* Blocks of the main queue.                                               *)
(***************************************************************************)
LEMMA WriteKeepsQueues ==
  ASSUME OwnedTypes, QueuesAreOrdered, TasksAreNewer, NEW kind, NEW key, NEW by,
         Write(kind, key, by), queues' = queues
  PROVE  QueuesAreOrdered' /\ TasksAreNewer'
<1>1. /\ worker' = Append(worker,
                     [kind |-> "write",
                      write |-> [n |-> made.writes + 1, by |-> by,
                                 kind |-> kind, key |-> key]])
      /\ made'.writes = made.writes + 1
  BY DEF Write, Enqueue, OwnedTypes
<1> QED
  BY <1>1, WriteTask

LEMMA RunMainKeepsQueues ==
  ASSUME SessionInvariant, RunMain
  PROVE  SessionInvariant'
<1>0. /\ OwnershipInvariant /\ OwnedTypes /\ QueuesAreOrdered
      /\ TasksAreNewer /\ PipelineIsQueued
  BY DEF SessionInvariant, OwnershipInvariant
<1>1. Head(main) \in Block
  BY <1>0, MainHead
<1>2. /\ queues' = queues /\ user' = user /\ pipeline' = pipeline
      /\ answered' = answered /\ stream' = stream
  BY DEF RunMain, clientVars
<1>3. PipelineIsQueued'
  BY <1>0, <1>2, SamePipeline
<1>4. QueuesAreOrdered' /\ TasksAreNewer'
  <2>1. CASE Head(main).kind = "changed"
    <3> DEFINE task == [kind |-> "user", user |-> Head(main).user]
    <3>1. /\ worker' = Append(worker, task)
          /\ made' = made
      BY <2>1 DEF RunMain, HearChange, Enqueue
    <3>2. task \in Task /\ task.kind # "write"
      BY <1>1, <2>1 DEF Block, Task
    <3> HIDE DEF task
    <3> QED
      BY <1>0, <1>2, <3>1, <3>2, OtherTask
  <2>2. CASE Head(main).kind = "token"
    <3> DEFINE r == Head(main).request
               task == [kind |-> "resume", who |-> r.who, closes |-> r.closes]
    <3>1. /\ worker' = worker \/ worker' = Append(worker, task)
          /\ made' = made
      BY <2>2 DEF RunMain, HearToken, Enqueue
    <3>2. r \in Token
      BY <1>1, <2>2 DEF Block
    <3> HIDE DEF r
    <3>3. task \in Task /\ task.kind # "write"
      BY <3>2 DEF Token, Task
    <3> HIDE DEF task
    <3> QED
      BY <1>0, <1>2, <3>1, <3>3, OtherTask, SameQueues
  <2>3. CASE Head(main).kind = "signedIn"
    <3> DEFINE a == Head(main).attempt
    <3>1. SignedIn(a)
      BY <2>3 DEF RunMain
    <3> HIDE DEF a
    <3>2. CASE Write("profile", <<"users", field>>, a.email)
      BY <1>0, <1>2, <3>2, WriteKeepsQueues
    <3>3. CASE worker' = worker /\ made' = made
      BY <1>0, <1>2, <3>3, SameQueues
    <3> QED
      BY <3>1, <3>2, <3>3 DEF SignedIn
  <2>4. CASE Head(main).kind = "handler"
    <3> DEFINE b == Head(main).batch
    <3>1. RunHandler(b)
      BY <2>4 DEF RunMain
    <3> HIDE DEF b
    <3>2. CASE Write("active", <<"chats">>, b.by)
      BY <1>0, <1>2, <3>2, WriteKeepsQueues
    <3>3. CASE worker' = worker /\ made' = made
      BY <1>0, <1>2, <3>3, SameQueues
    <3> QED
      BY <3>1, <3>2, <3>3 DEF RunHandler
  <2> QED
    BY <1>1, <2>1, <2>2, <2>3, <2>4 DEF Block
<1> QED
  BY <1>0, <1>3, <1>4, RunMainKeeps DEF SessionInvariant

LEMMA SendMessageKeepsQueues ==
  ASSUME SessionInvariant, SendMessage
  PROVE  SessionInvariant'
<1>0. /\ OwnershipInvariant /\ OwnedTypes /\ QueuesAreOrdered
      /\ TasksAreNewer /\ PipelineIsQueued
  BY DEF SessionInvariant, OwnershipInvariant
<1>1. /\ queues' = queues /\ user' = user /\ pipeline' = pipeline
      /\ answered' = answered /\ stream' = stream
  BY DEF SendMessage, clientVars
<1>2. worker' = Append(worker,
                  [kind |-> "write",
                   write |-> [n |-> made.writes + 1, by |-> auth,
                              kind |-> "message",
                              key |-> <<"messages", made.messages + 1>>]])
  BY DEF SendMessage, Enqueue
<1>3. made'.writes = made.writes + 1
  BY <1>0 DEF SendMessage, OwnedTypes
<1>4. QueuesAreOrdered' /\ TasksAreNewer'
  BY <1>0, <1>1, <1>2, <1>3, WriteTask
<1> QED
  BY <1>0, <1>1, <1>4, SamePipeline, SendMessageKeeps DEF SessionInvariant

-----------------------------------------------------------------------------
(***************************************************************************)
(* Tasks of the worker queue.                                              *)
(***************************************************************************)
LEMMA FilledIsQueued ==
  ASSUME OwnedTypes, NEW u \in Owner, NEW st \in StreamsWith(BatchOf(u)),
         NEW q \in Seq(BatchOf(u)),
         \A i \in DOMAIN q : q[i].n \in Nat \ {0},
         \A i, j \in DOMAIN q : i < j => q[i].n < q[j].n,
         IsQueued(st.pipeline, q), st.answered <= Len(st.pipeline),
         st.answered > 0 => IsStarted(st.stream),
         Become(FillWritePipeline(st, q)), user' = u, queues'[u] = q
  PROVE  PipelineIsQueued'
<1> DEFINE rt == FillWritePipeline(st, q)
<1>1. /\ IsQueued(rt.pipeline, q)
      /\ Len(st.pipeline) <= Len(rt.pipeline)
      /\ rt.answered = st.answered
      /\ IsStarted(st.stream) => IsStarted(rt.stream)
  BY FillQueues
<1>2. /\ pipeline' = rt.pipeline /\ stream' = rt.stream
      /\ answered' = rt.answered
  BY DEF Become
<1>3. /\ Len(rt.pipeline) \in Nat /\ Len(st.pipeline) \in Nat
      /\ st.answered \in Nat
  <2>1. st.pipeline \in Seq(BatchOf(u)) /\ st.answered \in Nat
    BY DEF StreamsWith
  <2>2. rt \in StreamsWith(BatchOf(u))
    BY FillFills
  <2> HIDE DEF rt
  <2>3. rt.pipeline \in Seq(BatchOf(u))
    BY <2>2 DEF StreamsWith
  <2> QED
    BY <2>1, <2>3
<1> HIDE DEF rt
<1>4. answered' <= Len(pipeline')
  BY <1>1, <1>2, <1>3
<1>5. IsQueued(pipeline', queues'[user'])
  BY <1>1, <1>2
<1>6. answered' > 0 => IsStarted(stream')
  BY <1>1, <1>2
<1> QED
  BY <1>4, <1>5, <1>6 DEF PipelineIsQueued, IsQueued

LEMMA RunWriteKeepsQueues ==
  ASSUME SessionInvariant, RunTask, Head(worker).kind = "write"
  PROVE  QueuesAreOrdered' /\ TasksAreNewer' /\ PipelineIsQueued'
<1>0. /\ OwnedTypes /\ QueuesAreOrdered /\ TasksAreNewer /\ PipelineIsQueued
      /\ user \in Owner
  BY DEF SessionInvariant, OwnershipInvariant, OwnedTypes
<1>1. /\ Head(worker) \in Task
      /\ worker # <<>> /\ worker' = Tail(worker)
      /\ 1 \in DOMAIN worker /\ Head(worker) = worker[1]
  BY <1>0, WorkerHead
<1>2. /\ Len(worker) \in Nat \ {0}
      /\ DOMAIN worker = 1 .. Len(worker)
      /\ DOMAIN worker' = 1 .. Len(worker) - 1
      /\ \A i \in 1 .. Len(worker) - 1 : worker'[i] = worker[i + 1]
  BY <1>0, <1>1, WorkerTypes, Removing
<1> DEFINE w == Head(worker).write
           b == [n |-> w.n, by |-> w.by, kind |-> w.kind, key |-> w.key,
                 owner |-> user, live |-> TRUE]
           q == Append(queues[user], b)
<1>3. WriteMutations(w) /\ w \in WriteRecord /\ made' = made
  BY <1>1 DEF RunTask, Task
<1>4. b \in BatchOf(user) /\ b.n = worker[1].write.n
  BY <1>0, <1>1, <1>3 DEF OwnedTypes, WriteRecord, Batch, BatchOf
<1>5. /\ queues' = [queues EXCEPT ![user] = q]
      /\ Become(FillWritePipeline(Streams, q))
      /\ user' = user
  BY <1>3 DEF WriteMutations
<1> HIDE DEF b, w
<1>6. /\ q \in Seq(BatchOf(user))
      /\ Len(queues[user]) \in Nat
      /\ DOMAIN queues[user] = 1 .. Len(queues[user])
      /\ DOMAIN q = 1 .. Len(queues[user]) + 1
      /\ q[Len(queues[user]) + 1] = b
      /\ \A i \in 1 .. Len(queues[user]) : q[i] = queues[user][i]
  BY <1>0, <1>4, WorkerTypes, Appending
<1> HIDE DEF q
<1>7. /\ b.n \in 1 .. made.writes
      /\ \A u \in Owner : \A j \in DOMAIN queues[u] : queues[u][j].n < b.n
      /\ \A i \in 2 .. Len(worker) :
           worker[i].kind = "write" => b.n < worker[i].write.n
  <2>1. worker[1].kind = "write"
    BY <1>1
  <2>2. \A i \in 2 .. Len(worker) : i \in DOMAIN worker /\ 1 \in 1 .. i - 1
    BY <1>2
  <2> QED
    BY <2>1, <2>2, <1>0, <1>1, <1>4 DEF TasksAreNewer
<1>8. DOMAIN queues = Owner
  BY <1>0 DEF OwnedTypes
<1>9. /\ queues'[user] = q
      /\ \A u \in Owner : u # user => queues'[u] = queues[u]
  BY <1>0, <1>5, <1>8
<1>10. /\ \A i \in DOMAIN q : q[i].n \in 1 .. made.writes
       /\ \A i, j \in DOMAIN q : i < j => q[i].n < q[j].n
  <2>1. \A i \in DOMAIN queues[user] : queues[user][i].n \in 1 .. made.writes
    BY <1>0 DEF QueuesAreOrdered
  <2>2. \A i, j \in DOMAIN queues[user] :
          i < j => queues[user][i].n < queues[user][j].n
    BY <1>0 DEF QueuesAreOrdered
  <2>3. \A i, j \in DOMAIN q : i < j => i \in DOMAIN queues[user]
    BY <1>6
  <2>4. \A j \in DOMAIN q : j \in DOMAIN queues[user] \/ q[j] = b
    BY <1>6
  <2>5. \A i \in DOMAIN queues[user] : q[i] = queues[user][i]
    BY <1>6
  <2> QED
    BY <2>1, <2>2, <2>3, <2>4, <2>5, <1>0, <1>7
<1>11. QueuesAreOrdered'
  BY <1>0, <1>3, <1>9, <1>10 DEF QueuesAreOrdered
<1>12. TasksAreNewer'
  <2>1. ASSUME NEW i \in DOMAIN worker', worker'[i].kind = "write"
        PROVE  /\ worker'[i].write.n \in 1 .. made.writes
               /\ \A u \in Owner : \A j \in DOMAIN queues'[u] :
                    queues'[u][j].n < worker'[i].write.n
               /\ \A j \in 1 .. i - 1 : worker'[j].kind = "write" =>
                    worker'[j].write.n < worker'[i].write.n
    <3>1. PICK k \in 2 .. Len(worker) : k = i + 1 /\ worker'[i] = worker[k]
      BY <1>2
    <3>2. k \in DOMAIN worker
      BY <1>2
    <3>3. /\ worker[k].write.n \in 1 .. made.writes
          /\ \A u \in Owner : \A j \in DOMAIN queues[u] :
               queues[u][j].n < worker[k].write.n
          /\ \A j \in 1 .. k - 1 :
               worker[j].kind = "write" => worker[j].write.n < worker[k].write.n
      BY <1>0, <2>1, <3>1, <3>2 DEF TasksAreNewer
    <3>4. ASSUME NEW j \in 1 .. i - 1
          PROVE  j + 1 \in 1 .. k - 1 /\ worker'[j] = worker[j + 1]
      BY <1>2, <3>1
    <3>5. b.n < worker[k].write.n
      BY <1>7, <2>1, <3>1
    <3>6. \A j \in DOMAIN q : \/ j \in DOMAIN queues[user] /\ q[j] = queues[user][j]
                              \/ q[j] = b
      BY <1>6
    <3>7. \A u \in Owner : \A j \in DOMAIN queues'[u] :
            queues'[u][j].n < worker[k].write.n
      BY <1>0, <1>9, <3>3, <3>5, <3>6
    <3> QED
      BY <3>1, <3>3, <3>4, <3>7
  <2> QED
    BY <2>1, <1>3 DEF TasksAreNewer
<1>13. PipelineIsQueued'
  <2>1. /\ Streams \in StreamsWith(BatchOf(user))
        /\ Streams.stream = stream
        /\ Streams.pipeline = pipeline /\ Streams.answered = answered
    BY <1>0, StreamsType
  <2>2. pipeline \in Seq(BatchOf(user))
    BY <1>0 DEF OwnedTypes
  <2>3. IsQueued(pipeline, q)
    <3>1. Len(pipeline) \in Nat /\ DOMAIN pipeline = 1 .. Len(pipeline)
      BY <2>2
    <3>2. /\ Len(pipeline) <= Len(queues[user])
          /\ Len(pipeline) <= MaxPendingWrites
          /\ \A i \in DOMAIN pipeline : pipeline[i] = queues[user][i]
      BY <1>0 DEF PipelineIsQueued, IsQueued
    <3>3. Len(q) = Len(queues[user]) + 1
      BY <1>6
    <3>4. \A i \in DOMAIN pipeline : pipeline[i] = q[i]
      BY <3>1, <3>2, <1>6
    <3> QED
      BY <3>1, <3>2, <3>3, <3>4, <1>6 DEF IsQueued
  <2>4. \A i \in DOMAIN q : q[i].n \in Nat \ {0}
    BY <1>10, <1>0, WorkerTypes
  <2>5. /\ answered <= Len(pipeline)
        /\ answered > 0 => IsStarted(stream)
    BY <1>0 DEF PipelineIsQueued
  <2> QED
    BY <1>0, <1>5, <1>6, <1>9, <1>10, <2>1, <2>3, <2>4, <2>5, FilledIsQueued
<1> QED
  BY <1>11, <1>12, <1>13

LEMMA StopAnswered ==
  ASSUME OwnedTypes, PipelineIsQueued
  PROVE  [Stop(Streams) EXCEPT !.pipeline = <<>>].answered = 0
<1>1. /\ Streams \in StreamsWith(BatchOf(user))
      /\ Streams.stream = stream /\ Streams.answered = answered
      /\ answered \in Nat
  BY StreamsType DEF OwnedTypes
<1>2. CASE IsStarted(stream)
  <2> DEFINE cl == Close(Streams, "initial")
  <2>1. cl \in StreamsWith(BatchOf(user)) /\ cl.answered = 0
    BY <1>1, CloseType
  <2>2. Stop(Streams) = cl
    BY <1>1, <1>2 DEF Stop
  <2> HIDE DEF cl
  <2> QED
    BY <2>1, <2>2 DEF StreamsWith
<1>3. CASE ~IsStarted(stream)
  <2>1. Stop(Streams) = Streams
    BY <1>1, <1>3 DEF Stop
  <2>2. answered = 0
    BY <1>1, <1>3 DEF PipelineIsQueued
  <2> QED
    BY <1>1, <2>1, <2>2 DEF StreamsWith
<1> QED
  BY <1>2, <1>3

LEMMA RunUserKeepsQueues ==
  ASSUME SessionInvariant, RunTask, Head(worker).kind = "user"
  PROVE  QueuesAreOrdered' /\ TasksAreNewer' /\ PipelineIsQueued'
<1>0. /\ OwnedTypes /\ QueuesAreOrdered /\ TasksAreNewer /\ PipelineIsQueued
  BY DEF SessionInvariant, OwnershipInvariant
<1>1. /\ Head(worker) \in Task
      /\ worker # <<>> /\ worker' = Tail(worker)
  BY <1>0, WorkerHead
<1> DEFINE u == Head(worker).user
           cl == [Stop(Streams) EXCEPT !.pipeline = <<>>]
<1>2. /\ HandleCredentialChange(u) /\ u \in Owner
      /\ made' = made
  BY <1>1 DEF RunTask, Task
<1> HIDE DEF u
<1>3. /\ user' = u /\ queues' = queues
      /\ Become(FillWritePipeline(cl, queues[u]))
  BY <1>2 DEF HandleCredentialChange, RestartStreams
<1>4. cl \in StreamsWith(BatchOf(u)) /\ cl.pipeline = <<>> /\ cl.answered = 0
  BY <1>0, StopType, StopAnswered
<1> HIDE DEF cl
<1>5. QueuesAreOrdered' /\ TasksAreNewer'
  BY <1>0, <1>1, <1>2, <1>3, TaskServed
<1>6. /\ queues[u] \in Seq(BatchOf(u))
      /\ \A i \in DOMAIN queues[u] : queues[u][i].n \in Nat \ {0}
      /\ \A i, j \in DOMAIN queues[u] :
           i < j => queues[u][i].n < queues[u][j].n
  BY <1>0, <1>2, Ordered
<1>7. IsQueued(<<>>, queues[u])
  BY <1>6, BoundAssumption DEF IsQueued
<1>8. PipelineIsQueued'
  <2>1. /\ IsQueued(cl.pipeline, queues[u])
        /\ cl.answered <= Len(cl.pipeline)
        /\ ~(cl.answered > 0)
    BY <1>4, <1>7
  <2> QED
    BY <2>1, <1>0, <1>2, <1>3, <1>4, <1>6, FilledIsQueued
<1> QED
  BY <1>5, <1>8

LEMMA RunResumeKeepsQueues ==
  ASSUME SessionInvariant, RunTask, Head(worker).kind = "resume"
  PROVE  QueuesAreOrdered' /\ TasksAreNewer' /\ PipelineIsQueued'
<1>0. /\ OwnedTypes /\ QueuesAreOrdered /\ TasksAreNewer /\ PipelineIsQueued
  BY DEF SessionInvariant, OwnershipInvariant
<1>1. worker # <<>> /\ worker' = Tail(worker)
  BY <1>0, WorkerHead
<1>2. ResumeStartWithCredentials(Head(worker)) /\ made' = made
  BY DEF RunTask
<1>3. /\ queues' = queues /\ user' = user /\ pipeline' = pipeline
      /\ answered' = answered
  BY <1>2 DEF ResumeStartWithCredentials, clientVars
<1>4. IsStarted(stream) => IsStarted(stream')
  <2>1. stream \in StreamType
    BY <1>0 DEF OwnedTypes, StreamType
  <2> QED
    BY <2>1, <1>2 DEF ResumeStartWithCredentials, StreamType, IsStarted
<1> QED
  BY <1>0, <1>1, <1>2, <1>3, <1>4, TaskServed, SamePipeline

LEMMA RunTaskKeepsQueues ==
  ASSUME SessionInvariant, RunTask
  PROVE  SessionInvariant'
<1>0. OwnershipInvariant /\ OwnedTypes
  BY DEF SessionInvariant, OwnershipInvariant
<1>1. Head(worker).kind \in {"write", "user", "resume"}
  BY <1>0, WorkerHead DEF Task
<1>2. QueuesAreOrdered' /\ TasksAreNewer' /\ PipelineIsQueued'
  BY <1>1, RunWriteKeepsQueues, RunUserKeepsQueues, RunResumeKeepsQueues
<1> QED
  BY <1>0, <1>2, RunTaskKeeps DEF SessionInvariant

-----------------------------------------------------------------------------
(***************************************************************************)
(* The stream: commits, answers, closing and starting again.               *)
(***************************************************************************)
LEMMA CommitKeepsQueues ==
  ASSUME SessionInvariant, Commit
  PROVE  SessionInvariant'
<1>0. /\ OwnershipInvariant /\ OwnedTypes /\ QueuesAreOrdered
      /\ TasksAreNewer /\ PipelineIsQueued
  BY DEF SessionInvariant, OwnershipInvariant
<1>1. /\ queues' = queues /\ user' = user /\ pipeline' = pipeline
      /\ worker' = worker /\ made' = made /\ stream' = stream
      /\ answered' = answered + 1
      /\ answered < Len(pipeline) /\ stream.state = "open"
  BY DEF Commit, clientVars
<1>2. answered \in Nat /\ Len(pipeline) \in Nat
  BY <1>0 DEF OwnedTypes
<1>3. PipelineIsQueued'
  <2>1. answered' <= Len(pipeline')
    BY <1>1, <1>2
  <2>2. IsStarted(stream')
    BY <1>1 DEF IsStarted
  <2>3. IsQueued(pipeline', queues'[user'])
    BY <1>0, <1>1 DEF PipelineIsQueued
  <2> QED
    BY <2>1, <2>2, <2>3 DEF PipelineIsQueued, IsQueued
<1>4. QueuesAreOrdered' /\ TasksAreNewer'
  BY <1>0, <1>1, SameQueues
<1> QED
  BY <1>0, <1>3, <1>4, CommitKeeps DEF SessionInvariant

LEMMA AnswerKeepsQueues ==
  ASSUME SessionInvariant, OnWriteStreamMutationResult
  PROVE  SessionInvariant'
<1>0. /\ OwnershipInvariant /\ OwnedTypes /\ QueuesAreOrdered
      /\ TasksAreNewer /\ PipelineIsQueued /\ user \in Owner
  BY DEF SessionInvariant, OwnershipInvariant, OwnedTypes
<1> DEFINE q == Tail(queues[user])
           st == [Streams EXCEPT !.pipeline = Tail(@), !.answered = @ - 1]
<1>1. /\ pipeline # <<>> /\ queues[user] # <<>>
      /\ q \in Seq(BatchOf(user))
      /\ st \in StreamsWith(BatchOf(user))
      /\ st.stream = stream
      /\ st.pipeline = Tail(pipeline) /\ st.answered = answered - 1
  BY <1>0, AnswerTypes
<1>2. /\ queues' = [queues EXCEPT ![user] = q]
      /\ Become(FillWritePipeline(st, q))
      /\ user' = user /\ worker' = worker /\ made' = made
      /\ answered > 0
  BY DEF OnWriteStreamMutationResult
<1> HIDE DEF st
<1>3. /\ Len(queues[user]) \in Nat \ {0}
      /\ DOMAIN queues[user] = 1 .. Len(queues[user])
      /\ DOMAIN q = 1 .. Len(queues[user]) - 1
      /\ Len(q) = Len(queues[user]) - 1
      /\ \A i \in 1 .. Len(queues[user]) - 1 : q[i] = queues[user][i + 1]
  <2>1. queues[user] \in Seq(BatchOf(user))
    BY <1>0, WorkerTypes
  <2> QED
    BY <2>1, <1>1, Removing
<1>4. /\ Len(pipeline) \in Nat \ {0}
      /\ DOMAIN pipeline = 1 .. Len(pipeline)
      /\ DOMAIN Tail(pipeline) = 1 .. Len(pipeline) - 1
      /\ Len(Tail(pipeline)) = Len(pipeline) - 1
      /\ \A i \in 1 .. Len(pipeline) - 1 : Tail(pipeline)[i] = pipeline[i + 1]
  <2>1. pipeline \in Seq(BatchOf(user))
    BY <1>0 DEF OwnedTypes
  <2> QED
    BY <2>1, <1>1, Removing
<1> HIDE DEF q
<1>5. /\ queues'[user] = q
      /\ \A u \in Owner : u # user => queues'[u] = queues[u]
  BY <1>0, <1>2 DEF OwnedTypes
<1>6. ASSUME NEW i \in DOMAIN q
      PROVE  i + 1 \in DOMAIN queues[user] /\ q[i] = queues[user][i + 1]
  BY <1>3
<1>7. \A i, j \in DOMAIN q : i < j => i + 1 < j + 1
  BY <1>3
<1>8. /\ \A i \in DOMAIN q : q[i].n \in 1 .. made.writes
      /\ \A i, j \in DOMAIN q : i < j => q[i].n < q[j].n
  BY <1>0, <1>6, <1>7 DEF QueuesAreOrdered
<1>9. QueuesAreOrdered'
  BY <1>0, <1>2, <1>5, <1>8 DEF QueuesAreOrdered
<1>10. TasksAreNewer'
  <2>1. ASSUME NEW i \in DOMAIN worker, worker[i].kind = "write",
               NEW u \in Owner, NEW j \in DOMAIN queues'[u]
        PROVE  queues'[u][j].n < worker[i].write.n
    BY <2>1, <1>0, <1>5, <1>6 DEF TasksAreNewer
  <2> QED
    BY <2>1, <1>0, <1>2 DEF TasksAreNewer
<1>11. IsQueued(Tail(pipeline), q)
  <2>1. /\ Len(pipeline) <= Len(queues[user])
        /\ Len(pipeline) <= MaxPendingWrites
        /\ \A i \in DOMAIN pipeline : pipeline[i] = queues[user][i]
    BY <1>0 DEF PipelineIsQueued, IsQueued
  <2>2. ASSUME NEW i \in DOMAIN Tail(pipeline) PROVE Tail(pipeline)[i] = q[i]
    <3>1. /\ i \in 1 .. Len(pipeline) - 1 /\ i + 1 \in DOMAIN pipeline
          /\ i \in 1 .. Len(queues[user]) - 1
      BY <1>3, <1>4, <2>1
    <3> QED
      BY <3>1, <2>1, <1>3, <1>4
  <2>3. /\ Len(Tail(pipeline)) <= Len(q)
        /\ Len(Tail(pipeline)) <= MaxPendingWrites
    BY <2>1, <1>3, <1>4, BoundAssumption
  <2> QED
    BY <2>2, <2>3 DEF IsQueued
<1>12. PipelineIsQueued'
  <2>1. \A i \in DOMAIN q : q[i].n \in Nat \ {0}
    BY <1>8, <1>0, WorkerTypes
  <2>2. /\ answered \in Nat /\ answered <= Len(pipeline)
        /\ IsStarted(stream)
    BY <1>0, <1>2 DEF PipelineIsQueued, OwnedTypes
  <2>3. st.answered <= Len(st.pipeline) /\ IsStarted(st.stream)
    BY <2>2, <1>1, <1>4
  <2>4. IsQueued(st.pipeline, q)
    BY <1>1, <1>11
  <2>5. q \in Seq(BatchOf(user)) /\ st \in StreamsWith(BatchOf(user))
    BY <1>1
  <2> QED
    BY <1>0, <1>2, <1>5, <1>8, <2>1, <2>3, <2>4, <2>5, FilledIsQueued
<1>13. OwnershipInvariant'
  BY <1>0, AnswerKeeps
<1> QED
  BY <1>9, <1>10, <1>12, <1>13 DEF SessionInvariant

LEMMA CloseKeepsQueues ==
  ASSUME SessionInvariant, OnWriteStreamClose
  PROVE  SessionInvariant'
<1>0. /\ OwnershipInvariant /\ OwnedTypes /\ QueuesAreOrdered
      /\ TasksAreNewer /\ PipelineIsQueued
  BY DEF SessionInvariant, OwnershipInvariant
<1> DEFINE cl == Close(Streams, "error")
           rt == IF pipeline # <<>> THEN Start(cl) ELSE cl
<1>1. /\ queues' = queues /\ user' = user /\ worker' = worker /\ made' = made
      /\ Become(rt)
  BY DEF OnWriteStreamClose, clientVars
<1>2. /\ cl \in StreamsWith(BatchOf(user))
      /\ cl.pipeline = pipeline /\ cl.answered = 0
  BY <1>0, StreamsType, CloseType
<1> HIDE DEF cl
<1>3. rt.pipeline = pipeline /\ rt.answered = 0
  BY <1>2 DEF Start, StreamsWith
<1> HIDE DEF rt
<1>4. pipeline' = pipeline /\ answered' = 0
  BY <1>1, <1>3 DEF Become
<1>5. PipelineIsQueued'
  BY <1>0, <1>1, <1>4, NothingAnswered
<1> QED
  BY <1>0, <1>1, <1>5, SameQueues, CloseKeeps DEF SessionInvariant

LEMMA IdleKeepsQueues ==
  ASSUME SessionInvariant, IdleTimerFires
  PROVE  SessionInvariant'
<1>0. /\ OwnershipInvariant /\ OwnedTypes /\ QueuesAreOrdered
      /\ TasksAreNewer /\ PipelineIsQueued
  BY DEF SessionInvariant, OwnershipInvariant
<1> DEFINE cl == Close(Streams, "initial")
<1>1. /\ queues' = queues /\ user' = user /\ worker' = worker /\ made' = made
      /\ Become(cl)
  BY DEF IdleTimerFires, clientVars
<1>2. cl.pipeline = pipeline /\ cl.answered = 0
  BY <1>0, StreamsType, CloseType
<1> HIDE DEF cl
<1>3. pipeline' = pipeline /\ answered' = 0
  BY <1>1, <1>2 DEF Become
<1>4. PipelineIsQueued'
  BY <1>0, <1>1, <1>3, NothingAnswered
<1> QED
  BY <1>0, <1>1, <1>4, SameQueues, IdleKeeps DEF SessionInvariant

LEMMA BackoffKeepsQueues ==
  ASSUME SessionInvariant, BackoffElapses
  PROVE  SessionInvariant'
<1>0. OwnershipInvariant /\ OwnedTypes
  BY DEF SessionInvariant, OwnershipInvariant
<1> DEFINE cl == [Streams EXCEPT !.stream.state = "initial"]
<1>1. /\ queues' = queues /\ user' = user /\ worker' = worker /\ made' = made
      /\ Become(Start(cl))
  BY DEF BackoffElapses, clientVars
<1>2. /\ cl \in StreamsWith(BatchOf(user))
      /\ cl.pipeline = pipeline /\ cl.answered = answered
      /\ cl.stream.state = "initial"
  BY <1>0, StreamsType DEF StreamsWith, StreamType
<1> HIDE DEF cl
<1>3. Start(cl) = [cl EXCEPT !.stream.state = "starting",
                             !.requests = @ \cup {Request(cl.stream.closes)}]
  BY <1>2 DEF Start
<1>4. /\ Start(cl).pipeline = pipeline /\ Start(cl).answered = answered
      /\ Start(cl).stream.state = "starting"
  BY <1>2, <1>3 DEF StreamsWith, StreamType
<1>5. /\ pipeline' = pipeline /\ answered' = answered
      /\ IsStarted(stream')
  BY <1>1, <1>4 DEF Become, IsStarted
<1> QED
  BY <1>0, <1>1, <1>5, SameClient, BackoffKeeps

LEMMA KillKeepsQueues ==
  ASSUME SessionInvariant, Kill
  PROVE  SessionInvariant'
<1>0. /\ OwnershipInvariant /\ OwnedTypes /\ QueuesAreOrdered
  BY DEF SessionInvariant, OwnershipInvariant
<1>1. /\ made' = made /\ worker' = <<>>
      /\ queues' = [v \in Owner |->
                      [i \in DOMAIN queues[v] |->
                         [queues[v][i] EXCEPT !.live = FALSE]]]
  BY DEF Kill
<1>2. PICK u \in {auth, NoUser} :
        /\ user' = u
        /\ Become([Fresh(u) EXCEPT
                     !.pipeline = [i \in DOMAIN @ |-> queues'[u][i]]])
  BY DEF Kill
<1>3. u \in Owner
  BY <1>0 DEF OwnedTypes, Owner
<1>4. ASSUME NEW v \in Owner
      PROVE  /\ DOMAIN queues'[v] = DOMAIN queues[v]
             /\ Len(queues'[v]) = Len(queues[v])
             /\ \A i \in DOMAIN queues[v] : queues'[v][i].n = queues[v][i].n
  <2>1. queues[v] \in Seq(BatchOf(v)) /\ Len(queues[v]) \in Nat
    BY <1>0, WorkerTypes
  <2>2. queues'[v] = [i \in 1 .. Len(queues[v]) |->
                        [queues[v][i] EXCEPT !.live = FALSE]]
    BY <2>1, <1>1
  <2>3. \A i \in 1 .. Len(queues[v]) : queues[v][i] \in BatchOf(v)
    BY <2>1
  <2>4. \A i \in 1 .. Len(queues[v]) :
          [queues[v][i] EXCEPT !.live = FALSE].n = queues[v][i].n
    BY <2>3 DEF BatchOf, Batch
  <2> QED
    BY <2>1, <2>2, <2>4
<1>5. QueuesAreOrdered'
  BY <1>0, <1>1, <1>4 DEF QueuesAreOrdered
<1>6. TasksAreNewer'
  <2>1. DOMAIN worker' = {}
    BY <1>1
  <2> QED
    BY <2>1 DEF TasksAreNewer
<1> DEFINE st == [pipeline |-> <<>>, answered |-> 0, requests |-> {},
                  stream |-> [state |-> "initial", as |-> NoUser, closes |-> 0]]
           q == queues[u]
           rt == Fresh(u)
<1>7. /\ st \in StreamsWith(BatchOf(u))
      /\ st.pipeline = <<>> /\ st.answered = 0
  BY DEF StreamsWith, StreamType, Owner
<1>8. rt = FillWritePipeline(st, q)
  BY DEF Fresh
<1> HIDE DEF st
<1>9. rt \in StreamsWith(BatchOf(u))
  BY <1>0, <1>3, FreshType
<1>10. /\ IsQueued(rt.pipeline, q)
       /\ rt.answered = 0
  <2>1. /\ q \in Seq(BatchOf(u))
        /\ \A i \in DOMAIN q : q[i].n \in Nat \ {0}
        /\ \A i, j \in DOMAIN q : i < j => q[i].n < q[j].n
    BY <1>0, <1>3, Ordered
  <2> HIDE DEF q, rt
  <2>2. IsQueued(st.pipeline, q)
    BY <2>1, <1>7, BoundAssumption DEF IsQueued
  <2> QED
    BY <2>1, <2>2, <1>7, <1>8, FillQueues
<1> HIDE DEF rt
<1>11. /\ pipeline' = [i \in DOMAIN rt.pipeline |-> queues'[u][i]]
       /\ answered' = 0
  <2>1. Become([rt EXCEPT !.pipeline = [i \in DOMAIN @ |-> queues'[u][i]]])
    BY <1>2 DEF rt
  <2> QED
    BY <2>1, <1>9, <1>10 DEF Become, StreamsWith
<1>12. PipelineIsQueued'
  <2>1. rt.pipeline \in Seq(BatchOf(u))
    BY <1>9 DEF StreamsWith
  <2>2. Len(rt.pipeline) \in Nat /\ DOMAIN rt.pipeline = 1 .. Len(rt.pipeline)
    BY <2>1
  <2>3. Len(rt.pipeline) <= Len(queues[u]) /\ Len(rt.pipeline) <= MaxPendingWrites
    BY <1>10 DEF IsQueued
  <2>4. /\ DOMAIN pipeline' = 1 .. Len(rt.pipeline)
        /\ Len(pipeline') = Len(rt.pipeline)
        /\ \A i \in 1 .. Len(rt.pipeline) : pipeline'[i] = queues'[u][i]
    BY <1>11, <2>2
  <2>5. IsQueued(pipeline', queues'[u])
    BY <2>3, <2>4, <1>3, <1>4 DEF IsQueued
  <2>6. answered' <= Len(pipeline') /\ ~(answered' > 0)
    BY <1>11, <2>2, <2>4
  <2> QED
    BY <2>5, <2>6, <1>2 DEF PipelineIsQueued, IsQueued
<1> QED
  BY <1>0, <1>5, <1>6, <1>12, KillKeeps DEF SessionInvariant

-----------------------------------------------------------------------------
(***************************************************************************)
(* All steps together.                                                     *)
(***************************************************************************)
LEMMA InitOrdered ==
  ASSUME Init
  PROVE  SessionInvariant
<1>1. OwnedTypes
  <2>1. /\ auth \in Owner /\ user \in Owner /\ field \in Owner
        /\ provider \in [user : Owner, counter : Nat]
        /\ stream \in StreamType
    BY DEF Init, Owner, StreamType
  <2>2. /\ main \in Seq(Block) /\ worker \in Seq(Task)
        /\ log \in Seq(CommitRecord) /\ pipeline \in Seq(BatchOf(user))
    BY DEF Init
  <2>3. DOMAIN queues = Owner /\ \A u \in Owner : queues[u] \in Seq(BatchOf(u))
    BY DEF Init
  <2>4. /\ attempts \subseteq Attempt /\ requests \subseteq Token
        /\ answered \in Nat
        /\ made \in [writes : Nat, messages : Nat, signIns : Nat]
    BY DEF Init
  <2> QED
    BY <2>1, <2>2, <2>3, <2>4 DEF OwnedTypes, StreamType
<1>2. /\ DOMAIN main = {} /\ DOMAIN worker = {} /\ DOMAIN log = {}
      /\ DOMAIN pipeline = {} /\ requests = {} /\ user = auth
      /\ stream.state = "initial"
      /\ \A u \in Owner : DOMAIN queues[u] = {}
  BY DEF Init
<1>3. AuthIsComing /\ TokensBelongToStarts /\ TokensAreTheUsers
  BY <1>2 DEF AuthIsComing, TokensBelongToStarts, TokensAreTheUsers
<1>4. StreamIsTheUsers /\ CommittedAsOwner
  BY <1>2 DEF StreamIsTheUsers, CommittedAsOwner
<1>5. QueuesAreOrdered /\ TasksAreNewer
  BY <1>2 DEF QueuesAreOrdered, TasksAreNewer
<1>6. PipelineIsQueued
  <2>1. /\ pipeline = <<>> /\ queues[user] = <<>> /\ answered = 0
    BY DEF Init, Owner
  <2> QED
    BY <2>1, BoundAssumption DEF PipelineIsQueued, IsQueued
<1> QED
  BY <1>1, <1>3, <1>4, <1>5, <1>6 DEF SessionInvariant, OwnershipInvariant

LEMMA UserKeeps ==
  ASSUME SessionInvariant, User
  PROVE  SessionInvariant'
<1>0. OwnershipInvariant /\ OwnedTypes
  BY DEF SessionInvariant, OwnershipInvariant
<1>1. ASSUME NEW u \in Account, Type(u) PROVE SessionInvariant'
  BY <1>0, <1>1, TypeKeeps, SameClient DEF Type, clientVars
<1>2. ASSUME NEW how \in {"createUser", "signIn"}, PressButton(how)
      PROVE  SessionInvariant'
  <2>1. made'.writes = made.writes
    BY <1>0, <1>2 DEF PressButton, OwnedTypes
  <2> QED
    BY <2>1, <1>0, <1>2, PressButtonKeeps, SameClient DEF PressButton, clientVars
<1>3. CASE SendMessage
  BY <1>3, SendMessageKeepsQueues
<1>4. CASE SignUserOut
  BY <1>0, <1>4, SignUserOutKeeps, SameClient DEF SignUserOut, clientVars
<1> QED
  BY <1>1, <1>2, <1>3, <1>4 DEF User

LEMMA AuthenticationKeeps ==
  ASSUME SessionInvariant, Authentication
  PROVE  SessionInvariant'
<1>0. OwnershipInvariant
  BY DEF SessionInvariant
<1>1. ASSUME NEW a \in attempts, CreateAccount(a) PROVE SessionInvariant'
  BY <1>0, <1>1, CreateAccountKeeps, SameClient DEF CreateAccount, clientVars
<1>2. ASSUME NEW a \in attempts, CompleteSignIn(a) PROVE SessionInvariant'
  BY <1>0, <1>2, CompleteSignInKeeps, SameClient DEF CompleteSignIn, clientVars
<1>3. ASSUME NEW r \in requests, ReadToken(r) PROVE SessionInvariant'
  BY <1>0, <1>3, ReadTokenKeeps, SameClient, Zenon DEF ReadToken, clientVars
<1>4. ASSUME NEW r \in requests, DispatchToken(r) PROVE SessionInvariant'
  BY <1>0, <1>4, DispatchTokenKeeps, SameClient DEF DispatchToken, clientVars
<1> QED
  BY <1>1, <1>2, <1>3, <1>4, Zenon DEF Authentication

LEMMA HandshakeKeepsQueues ==
  ASSUME SessionInvariant, OnWriteStreamHandshakeComplete
  PROVE  SessionInvariant'
<1>0. OwnershipInvariant /\ stream \in StreamType
  BY DEF SessionInvariant, OwnershipInvariant, OwnedTypes, StreamType
<1>1. IsStarted(stream')
  BY <1>0 DEF OnWriteStreamHandshakeComplete, IsStarted, StreamType
<1> QED
  BY <1>0, <1>1, HandshakeKeeps, SameClient
  DEF OnWriteStreamHandshakeComplete, clientVars

LEMMA NextKeeps ==
  ASSUME SessionInvariant, Next
  PROVE  SessionInvariant'
<1>1. CASE Background
  BY <1>1, RunTaskKeepsQueues, RunMainKeepsQueues, HandshakeKeepsQueues,
     CommitKeepsQueues, AnswerKeepsQueues, BackoffKeepsQueues DEF Background
<1> QED
  BY <1>1, UserKeeps, AuthenticationKeeps, CloseKeepsQueues, IdleKeepsQueues,
     KillKeepsQueues DEF Next

LEMMA StutterKeeps ==
  ASSUME SessionInvariant, UNCHANGED sessionVars
  PROVE  SessionInvariant'
<1>1. OwnershipInvariant'
  BY Quiet DEF SessionInvariant, OwnershipInvariant, OwnedTypes, sessionVars
<1> QED
  BY <1>1, SameClient DEF sessionVars

(***************************************************************************)
(* SessionInvariant holds whatever the accounts and the bounds.            *)
(***************************************************************************)
THEOREM SessionIsInvariant == SessionSpec => []SessionInvariant
<1>1. Init => SessionInvariant
  BY InitOrdered
<1>2. SessionInvariant /\ [Next]_sessionVars => SessionInvariant'
  BY NextKeeps, StutterKeeps
<1> QED
  BY <1>1, <1>2, PTL DEF SessionSpec

(***************************************************************************)
(* A write is never committed with the token of anybody but the user in    *)
(* whose mutation queue it was stored, however changes of user, tokens and *)
(* broken streams cross on the three queues.                               *)
(***************************************************************************)
THEOREM WritesAreCommittedAsOwner == SessionSpec => []CommittedAsOwner
<1>1. SessionInvariant => CommittedAsOwner
  BY DEF SessionInvariant, OwnershipInvariant
<1> QED
  BY <1>1, SessionIsInvariant, PTL

(***************************************************************************)
(* The write pipeline never holds more than kMaxPendingWrites, and what is *)
(* in it is what is first in the mutation queue of the worker's user.      *)
(***************************************************************************)
THEOREM PipelineIsOfTheQueue == SessionSpec => []PipelineIsQueued
<1>1. SessionInvariant => PipelineIsQueued
  BY DEF SessionInvariant
<1> QED
  BY <1>1, SessionIsInvariant, PTL

-----------------------------------------------------------------------------
(***************************************************************************)
(* What the views show and which handlers are kept.                        *)
(***************************************************************************)
ClientInvariant ==
  DOMAIN handlers = Owner /\ ViewsFollowUser /\ HandlersKept

LEMMA ClientRests ==
  ASSUME ClientInvariant, UNCHANGED clientVars
  PROVE  ClientInvariant'
BY DEF ClientInvariant, ViewsFollowUser, HandlersKept, clientVars

LEMMA RangeOfAppend ==
  ASSUME NEW S, NEW q \in Seq(S), NEW b \in S
  PROVE  Range(Append(q, b)) = Range(q) \cup {b}
<1> DEFINE r == Append(q, b)
<1>1. /\ Len(q) \in Nat
      /\ DOMAIN q = 1 .. Len(q)
      /\ DOMAIN r = 1 .. Len(q) + 1
      /\ r[Len(q) + 1] = b
      /\ \A i \in 1 .. Len(q) : r[i] = q[i]
  BY Appending
<1> HIDE DEF r
<1>2. Len(q) + 1 \in DOMAIN r /\ \A i \in DOMAIN q : i \in DOMAIN r /\ r[i] = q[i]
  BY <1>1
<1>3. \A i \in DOMAIN r : i = Len(q) + 1 \/ (i \in DOMAIN q /\ r[i] = q[i])
  BY <1>1
<1>4. Range(r) = Range(q) \cup {b}
  BY <1>1, <1>2, <1>3 DEF Range
<1> QED
  BY <1>4 DEF r

LEMMA RangeOfTail ==
  ASSUME NEW S, NEW q \in Seq(S), q # <<>>
  PROVE  Range(q) = {Head(q)} \cup Range(Tail(q))
<1> DEFINE r == Tail(q)
           h == Head(q)
<1>1. /\ Len(q) \in Nat \ {0}
      /\ DOMAIN q = 1 .. Len(q)
      /\ DOMAIN r = 1 .. Len(q) - 1
      /\ h = q[1]
      /\ \A i \in 1 .. Len(q) - 1 : r[i] = q[i + 1]
  BY Removing
<1> HIDE DEF r, h
<1>2. 1 \in DOMAIN q /\ \A i \in DOMAIN r : i + 1 \in DOMAIN q /\ r[i] = q[i + 1]
  BY <1>1
<1>3. \A i \in DOMAIN q : i = 1 \/ (i - 1 \in DOMAIN r /\ r[i - 1] = q[i])
  BY <1>1
<1>4. Range(q) = {h} \cup Range(r)
  BY <1>1, <1>2, <1>3 DEF Range
<1> QED
  BY <1>4 DEF r, h

LEMMA RunWriteShows ==
  ASSUME SessionInvariant, ClientInvariant, RunTask,
         Head(worker).kind = "write"
  PROVE  ClientInvariant'
<1>0. /\ OwnedTypes /\ user \in Owner /\ DOMAIN queues = Owner
      /\ DOMAIN handlers = Owner /\ ViewsFollowUser /\ HandlersKept
  BY DEF ClientInvariant, SessionInvariant, OwnershipInvariant, OwnedTypes
<1> DEFINE w == Head(worker).write
           b == [n |-> w.n, by |-> w.by, kind |-> w.kind, key |-> w.key,
                 owner |-> user, live |-> TRUE]
           q == Append(queues[user], b)
<1>1. WriteMutations(w) /\ w \in WriteRecord
  BY <1>0, WorkerHead DEF RunTask, Task
<1>2. b \in BatchOf(user) /\ b.live
  BY <1>0, <1>1 DEF OwnedTypes, WriteRecord, Batch, BatchOf
<1>3. /\ queues' = [queues EXCEPT ![user] = q]
      /\ handlers' = [handlers EXCEPT ![user] = @ \cup {b.n}]
      /\ shown' = Views({b.key}, q)
      /\ user' = user
  BY <1>1 DEF WriteMutations
<1> HIDE DEF w, b
<1>4. Range(q) = Range(queues[user]) \cup {b}
  <2>1. queues[user] \in Seq(BatchOf(user))
    BY <1>0 DEF OwnedTypes
  <2> QED
    BY <2>1, <1>2, RangeOfAppend
<1> HIDE DEF q
<1>5. /\ queues'[user] = q
      /\ \A u \in Owner : u # user => queues'[u] = queues[u]
  BY <1>0, <1>3
<1>6. ViewsFollowUser'
  <2>1. Views({b.key}, q) = Range(q)
    BY <1>0, <1>4 DEF Views, ViewsFollowUser
  <2> QED
    BY <2>1, <1>3, <1>5 DEF ViewsFollowUser
<1>7. HandlersKept'
  <2>1. ASSUME NEW u \in Owner
        PROVE  handlers'[u] = {c.n : c \in {d \in Range(queues'[u]) : d.live}}
    <3>1. /\ u = user => handlers'[u] = handlers[u] \cup {b.n}
          /\ u # user => handlers'[u] = handlers[u]
      BY <1>0, <1>3
    <3>2. handlers[u] = {c.n : c \in {d \in Range(queues[u]) : d.live}}
      BY <1>0 DEF HandlersKept
    <3>3. CASE u = user
      BY <3>1, <3>2, <3>3, <1>2, <1>4, <1>5
    <3>4. CASE u # user
      BY <3>1, <3>2, <3>4, <1>5
    <3> QED
      BY <3>3, <3>4
  <2> QED
    BY <2>1 DEF HandlersKept
<1>8. DOMAIN handlers' = Owner
  BY <1>0, <1>3
<1> QED
  BY <1>6, <1>7, <1>8 DEF ClientInvariant

LEMMA RunUserShows ==
  ASSUME SessionInvariant, ClientInvariant, RunTask,
         Head(worker).kind = "user"
  PROVE  ClientInvariant'
<1>0. DOMAIN handlers = Owner /\ ViewsFollowUser /\ HandlersKept
  BY DEF ClientInvariant
<1> DEFINE u == Head(worker).user
<1>1. HandleCredentialChange(u)
  BY DEF RunTask
<1> HIDE DEF u
<1>2. /\ user' = u /\ queues' = queues /\ handlers' = handlers
      /\ shown' = IF u = user THEN shown ELSE Views(ChangedKeys(u), queues[u])
  BY <1>1 DEF HandleCredentialChange
<1>3. Views(ChangedKeys(u), queues[u]) = Range(queues[u])
  BY <1>0 DEF Views, ChangedKeys, KeysOf, ViewsFollowUser
<1>4. ViewsFollowUser'
  BY <1>0, <1>2, <1>3 DEF ViewsFollowUser
<1>5. HandlersKept' /\ DOMAIN handlers' = Owner
  BY <1>0, <1>2 DEF HandlersKept
<1> QED
  BY <1>4, <1>5 DEF ClientInvariant

LEMMA AnswerShows ==
  ASSUME SessionInvariant, ClientInvariant,
         OnWriteStreamMutationResult
  PROVE  ClientInvariant'
<1>0. /\ OwnedTypes /\ QueuesAreOrdered /\ PipelineIsQueued
      /\ user \in Owner /\ DOMAIN queues = Owner
      /\ DOMAIN handlers = Owner /\ ViewsFollowUser /\ HandlersKept
  BY DEF ClientInvariant, SessionInvariant, OwnershipInvariant, OwnedTypes
<1> DEFINE b == Head(pipeline)
           Q == queues[user]
           q == Tail(Q)
<1>1. /\ pipeline # <<>> /\ Q # <<>>
      /\ pipeline \in Seq(BatchOf(user)) /\ Q \in Seq(BatchOf(user))
  BY <1>0, AnswerTypes DEF OwnedTypes
<1>2. /\ queues' = [queues EXCEPT ![user] = q]
      /\ handlers' = [handlers EXCEPT ![user] = @ \ {b.n}]
      /\ shown' = Views({b.key}, q)
      /\ user' = user
  BY DEF OnWriteStreamMutationResult, NotifyUser
<1>3. b = Head(Q)
  <2>1. 1 \in DOMAIN pipeline /\ b = pipeline[1]
    BY <1>1, Removing
  <2>2. Head(Q) = Q[1]
    BY <1>1, Removing
  <2> QED
    BY <2>1, <2>2, <1>0 DEF PipelineIsQueued, IsQueued
<1>4. Range(Q) = {b} \cup Range(q)
  BY <1>1, <1>3, RangeOfTail
<1>5. \A c \in Range(q) : c.n # b.n
  <2>1. /\ Len(Q) \in Nat \ {0} /\ DOMAIN Q = 1 .. Len(Q)
        /\ DOMAIN q = 1 .. Len(Q) - 1
        /\ Head(Q) = Q[1]
        /\ \A i \in 1 .. Len(Q) - 1 : q[i] = Q[i + 1]
    BY <1>1, Removing
  <2> HIDE DEF q
  <2>2. \A i \in DOMAIN q :
          i + 1 \in DOMAIN Q /\ 1 \in DOMAIN Q /\ 1 < i + 1 /\ q[i] = Q[i + 1]
    BY <2>1
  <2>3. /\ \A i \in DOMAIN Q : Q[i].n \in Nat
        /\ \A i, j \in DOMAIN Q : i < j => Q[i].n < Q[j].n
    BY <1>0, Ordered
  <2> HIDE DEF Q
  <2>4. ASSUME NEW i \in DOMAIN q PROVE q[i].n # b.n
    <3>1. Q[1].n \in Nat /\ Q[i + 1].n \in Nat /\ Q[1].n < Q[i + 1].n
      BY <2>2, <2>3
    <3>2. b.n = Q[1].n /\ q[i].n = Q[i + 1].n
      BY <2>1, <2>2, <1>3
    <3> HIDE DEF b
    <3> QED
      BY <3>1, <3>2
  <2> QED
    BY <2>4 DEF Range
<1> HIDE DEF b, q
<1>6. /\ queues'[user] = q
      /\ \A u \in Owner : u # user => queues'[u] = queues[u]
  BY <1>0, <1>2
<1>7. ViewsFollowUser'
  <2>1. Views({b.key}, q) = Range(q)
    BY <1>0, <1>4 DEF Views, ViewsFollowUser
  <2> QED
    BY <2>1, <1>2, <1>6 DEF ViewsFollowUser
<1>8. HandlersKept'
  <2>1. ASSUME NEW u \in Owner
        PROVE  handlers'[u] = {c.n : c \in {d \in Range(queues'[u]) : d.live}}
    <3>1. /\ u = user => handlers'[u] = handlers[u] \ {b.n}
          /\ u # user => handlers'[u] = handlers[u]
      BY <1>0, <1>2
    <3>2. handlers[u] = {c.n : c \in {d \in Range(queues[u]) : d.live}}
      BY <1>0 DEF HandlersKept
    <3>3. CASE u = user
      <4>1. {c.n : c \in {d \in Range(Q) : d.live}} \ {b.n} =
              {c.n : c \in {d \in Range(q) : d.live}}
        <5> HIDE DEF Q
        <5> QED
          BY <1>4, <1>5
      <4> QED
        BY <4>1, <3>1, <3>2, <3>3, <1>6
    <3>4. CASE u # user
      BY <3>1, <3>2, <3>4, <1>6
    <3> QED
      BY <3>3, <3>4
  <2> QED
    BY <2>1 DEF HandlersKept
<1>9. DOMAIN handlers' = Owner
  BY <1>0, <1>2
<1> QED
  BY <1>7, <1>8, <1>9 DEF ClientInvariant

LEMMA KillShows ==
  ASSUME SessionInvariant, Kill
  PROVE  ClientInvariant'
<1>0. OwnedTypes
  BY DEF SessionInvariant, OwnershipInvariant
<1>1. /\ handlers' = [u \in Owner |-> {}]
      /\ queues' = [v \in Owner |->
                      [i \in DOMAIN queues[v] |->
                         [queues[v][i] EXCEPT !.live = FALSE]]]
      /\ \E u \in {auth, NoUser} : user' = u /\ shown' = Range(queues'[u])
  BY DEF Kill
<1>2. ViewsFollowUser'
  BY <1>1 DEF ViewsFollowUser
<1>3. HandlersKept'
  <2>1. ASSUME NEW u \in Owner, NEW c \in Range(queues'[u]) PROVE ~c.live
    <3>1. queues[u] \in Seq(BatchOf(u)) /\ DOMAIN queues[u] = 1 .. Len(queues[u])
      BY <1>0, WorkerTypes
    <3>2. PICK i \in 1 .. Len(queues[u]) :
            c = [queues[u][i] EXCEPT !.live = FALSE]
      BY <3>1, <1>1 DEF Range
    <3>3. queues[u][i] \in Batch
      BY <3>1 DEF BatchOf
    <3> QED
      BY <3>2, <3>3 DEF Batch
  <2> QED
    BY <2>1, <1>1 DEF HandlersKept
<1> QED
  BY <1>1, <1>2, <1>3 DEF ClientInvariant

LEMMA NextShows ==
  ASSUME SessionInvariant, ClientInvariant, Next
  PROVE  ClientInvariant'
<1>0. OwnedTypes
  BY DEF SessionInvariant, OwnershipInvariant
<1>1. CASE User
  BY <1>1, ClientRests DEF User, Type, PressButton, SendMessage, SignUserOut
<1>2. CASE Authentication
  BY <1>2, ClientRests, Zenon
  DEF Authentication, CreateAccount, CompleteSignIn, ReadToken, DispatchToken
<1>3. CASE RunTask
  <2>1. Head(worker).kind \in {"write", "user", "resume"}
    BY <1>0, <1>3, WorkerHead DEF Task
  <2>2. Head(worker).kind = "resume" => UNCHANGED clientVars
    BY <1>3 DEF RunTask, ResumeStartWithCredentials
  <2> QED
    BY <2>1, <2>2, <1>3, RunWriteShows, RunUserShows, ClientRests
<1>4. CASE OnWriteStreamMutationResult
  BY <1>4, AnswerShows
<1>5. CASE RunMain \/ OnWriteStreamHandshakeComplete \/ Commit \/ BackoffElapses
  BY <1>5, ClientRests
  DEF RunMain, OnWriteStreamHandshakeComplete, Commit, BackoffElapses
<1>6. CASE OnWriteStreamClose \/ IdleTimerFires
  BY <1>6, ClientRests DEF OnWriteStreamClose, IdleTimerFires
<1>7. CASE Kill
  BY <1>7, KillShows
<1> QED
  BY <1>1, <1>2, <1>3, <1>4, <1>5, <1>6, <1>7 DEF Next, Background

LEMMA InitShows ==
  ASSUME Init
  PROVE  ClientInvariant
<1>1. user \in Owner /\ \A u \in Owner : queues[u] = <<>> /\ handlers[u] = {}
  BY DEF Init, Owner
<1>2. \A u \in Owner : Range(queues[u]) = {}
  BY <1>1 DEF Range
<1> QED
  BY <1>1, <1>2 DEF Init, ClientInvariant, ViewsFollowUser, HandlersKept

(***************************************************************************)
(* Both invariants hold together: an answer is for the first batch of the  *)
(* queue, and no other batch has its number.                               *)
(***************************************************************************)
THEOREM ClientIsInvariant == SessionSpec => [](SessionInvariant /\ ClientInvariant)
<1> DEFINE Both == SessionInvariant /\ ClientInvariant
<1>1. Init => Both
  BY InitOrdered, InitShows
<1>2. Both /\ [Next]_sessionVars => Both'
  <2>1. Both /\ Next => Both'
    BY NextKeeps, NextShows
  <2>2. Both /\ UNCHANGED sessionVars => Both'
    BY StutterKeeps, ClientRests DEF sessionVars, clientVars
  <2> QED
    BY <2>1, <2>2
<1> QED
  BY <1>1, <1>2, PTL DEF SessionSpec

(***************************************************************************)
(* The views of the listeners show the pending writes of the user the      *)
(* worker knows, through every change of user and every restart.           *)
(***************************************************************************)
THEOREM ViewsFollowTheUser == SessionSpec => []ViewsFollowUser
<1>1. ClientInvariant => ViewsFollowUser
  BY DEF ClientInvariant
<1> QED
  BY <1>1, ClientIsInvariant, PTL

(***************************************************************************)
(* While the app runs, a pending write has its completion handler, and     *)
(* there are no handlers without a write, whoever is signed in.            *)
(***************************************************************************)
THEOREM HandlersAreKept == SessionSpec => []HandlersKept
<1>1. ClientInvariant => HandlersKept
  BY DEF ClientInvariant
<1> QED
  BY <1>1, ClientIsInvariant, PTL


-----------------------------------------------------------------------------
(***************************************************************************)
(* Who does not tap again while a sign-in is under way has one at a time,  *)
(* and no change of user is on its way while he sees the list of chats; so *)
(* what he writes reaches the worker behind the change that makes him its  *)
(* user.                                                                   *)
(***************************************************************************)
IsSignIn(block) == block.kind = "signedIn"

OneSignIn ==
  /\ \A a, b \in attempts : a = b
  /\ \A i, j \in DOMAIN main : IsSignIn(main[i]) /\ IsSignIn(main[j]) => i = j
  /\ attempts # {} => \A i \in DOMAIN main : ~IsSignIn(main[i])
  /\ UnderWay => screen = "start"
  /\ screen = "contacts" => ~ChangeOnMain
  /\ \A a \in attempts : a.email = field
  /\ \A i \in DOMAIN main : IsSignIn(main[i]) =>
       /\ main[i].attempt.email = auth /\ auth = field
       /\ \A j \in DOMAIN main : j > i => ~IsChange(main[j])

(* The worker's user when it gets to the kth task. *)
UserAt(k, u) ==
  /\ \A j \in 1 .. k - 1 :
       IsUserTask(worker[j]) /\ (\A i \in j + 1 .. k - 1 : ~IsUserTask(worker[i]))
         => worker[j].user = u
  /\ (\A j \in 1 .. k - 1 : ~IsUserTask(worker[j])) => user = u

IsOwnTask(k) ==
  worker[k].kind = "write" /\ worker[k].write.kind # "active"
    => UserAt(k, worker[k].write.by)

TasksAreOwn == \A k \in DOMAIN worker : IsOwnTask(k)

BatchesAreOwn ==
  \A u \in Owner : \A i \in DOMAIN queues[u] :
    queues[u][i].kind # "active" => queues[u][i].by = u

UnhurriedInvariant ==
  /\ faults \in [Fault -> Nat]
  /\ faults["hurry"] = 0 => OneSignIn /\ TasksAreOwn /\ BatchesAreOwn

LEMMA MainTypes ==
  ASSUME OwnedTypes
  PROVE  /\ main \in Seq(Block) /\ Len(main) \in Nat
         /\ DOMAIN main = 1 .. Len(main)
<1>1. main \in Seq(Block)
  BY DEF OwnedTypes
<1> QED
  BY <1>1

LEMMA SignInKinds ==
  ASSUME NEW x
  PROVE  /\ IsSignIn(x) <=> x.kind = "signedIn"
         /\ IsChange(x) <=> x.kind = "changed"
BY DEF IsSignIn, IsChange

LEMMA BlockAppended ==
  ASSUME OwnedTypes, OneSignIn, NEW x \in Block, main' = Append(main, x),
         x.kind \in {"token", "handler"},
         attempts' = attempts, screen' = screen, field' = field, auth' = auth
  PROVE  OneSignIn'
<1>1. /\ DOMAIN main = 1 .. Len(main) /\ Len(main) \in Nat
      /\ DOMAIN main' = 1 .. Len(main) + 1
      /\ main'[Len(main) + 1] = x
      /\ \A i \in 1 .. Len(main) : main'[i] = main[i]
  BY MainTypes, Appending
<1>2. \A i \in DOMAIN main' : IsSignIn(main'[i]) \/ IsChange(main'[i]) =>
        i \in DOMAIN main /\ main'[i] = main[i]
  BY <1>1, SignInKinds
<1>3. (UnderWay' => UnderWay) /\ (ChangeOnMain' => ChangeOnMain)
  BY <1>2, SignInKinds DEF UnderWay, ChangeOnMain
<1> QED
  BY <1>2, <1>3 DEF OneSignIn, IsSignIn, IsChange

LEMMA BlockServed ==
  ASSUME OwnedTypes, OneSignIn, main # <<>>, main' = Tail(main),
         attempts' = attempts, field' = field, auth' = auth,
         \/ screen' = screen
         \/ IsSignIn(Head(main))
  PROVE  OneSignIn'
<1>1. /\ DOMAIN main = 1 .. Len(main) /\ Len(main) \in Nat
      /\ DOMAIN main' = 1 .. Len(main) - 1
      /\ Head(main) = main[1] /\ 1 \in DOMAIN main
      /\ \A i \in 1 .. Len(main) - 1 : main'[i] = main[i + 1]
  BY MainTypes, Removing
<1>2. \A i \in DOMAIN main' : i \in Nat /\ i + 1 \in DOMAIN main /\ main'[i] = main[i + 1]
  BY <1>1
<1>3. (UnderWay' => UnderWay) /\ (ChangeOnMain' => ChangeOnMain)
  BY <1>2, SignInKinds DEF UnderWay, ChangeOnMain
<1>4. ASSUME NEW i \in DOMAIN main', IsSignIn(main'[i])
      PROVE  /\ main'[i].attempt.email = auth' /\ auth' = field'
             /\ \A j \in DOMAIN main' : j > i => ~IsChange(main'[j])
  <2>1. IsSignIn(main[i + 1]) /\ i + 1 \in DOMAIN main
    BY <1>2, <1>4
  <2>2. /\ main[i + 1].attempt.email = auth /\ auth = field
        /\ \A j \in DOMAIN main : j > i + 1 => ~IsChange(main[j])
    BY <2>1 DEF OneSignIn
  <2>3. ASSUME NEW j \in DOMAIN main', j > i PROVE ~IsChange(main'[j])
    <3>1. j + 1 \in DOMAIN main /\ j + 1 > i + 1 /\ main'[j] = main[j + 1]
      BY <1>2, <2>3
    <3> QED
      BY <3>1, <2>2
  <2> QED
    BY <2>2, <2>3, <1>2
<1>5. ASSUME IsSignIn(Head(main)) PROVE ~UnderWay' /\ ~ChangeOnMain'
  <2>1. \A i \in DOMAIN main : i # 1 => ~IsSignIn(main[i])
    BY <1>1, <1>5 DEF OneSignIn
  <2>2. attempts = {}
    BY <1>1, <1>5 DEF OneSignIn
  <2>3. \A j \in DOMAIN main : j > 1 => ~IsChange(main[j])
    BY <1>1, <1>5 DEF OneSignIn
  <2>4. \A i \in DOMAIN main' : i + 1 # 1 /\ i + 1 > 1
    BY <1>2
  <2> QED
    BY <2>1, <2>2, <2>3, <2>4, <1>2, SignInKinds DEF UnderWay, ChangeOnMain
<1>6. \A i, j \in DOMAIN main' : IsSignIn(main'[i]) /\ IsSignIn(main'[j]) => i = j
  <2> SUFFICES ASSUME NEW i \in DOMAIN main', NEW j \in DOMAIN main',
                      IsSignIn(main'[i]), IsSignIn(main'[j])
               PROVE  i = j
    OBVIOUS
  <2>1. i + 1 = j + 1
    BY <1>2 DEF OneSignIn
  <2> QED
    BY <2>1, <1>2
<1>7. (UnderWay' => screen' = "start") /\ (screen' = "contacts" => ~ChangeOnMain')
  BY <1>3, <1>5 DEF OneSignIn
<1>8. attempts' # {} => \A i \in DOMAIN main' : ~IsSignIn(main'[i])
  BY <1>2 DEF OneSignIn
<1> QED
  BY <1>4, <1>6, <1>7, <1>8 DEF OneSignIn, IsSignIn, IsChange

LEMMA SameApp ==
  ASSUME OneSignIn, main' = main, attempts' = attempts, screen' = screen,
         field' = field, auth' = auth
  PROVE  OneSignIn'
BY DEF OneSignIn, UnderWay, ChangeOnMain, IsSignIn, IsChange

-----------------------------------------------------------------------------
(***************************************************************************)
(* Tasks.                                                                  *)
(***************************************************************************)
LEMMA PrefixUser ==
  ASSUME NEW k \in Nat, NEW u, user' = user, UserAt(k, u),
         \A j \in 1 .. k - 1 : worker'[j] = worker[j]
  PROVE  UserAt(k, u)'
<1>1. ASSUME NEW j \in 1 .. k - 1, IsUserTask(worker'[j]),
             \A i \in j + 1 .. k - 1 : ~IsUserTask(worker'[i])
      PROVE  worker'[j].user = u
  <2>1. \A i \in j + 1 .. k - 1 : i \in 1 .. k - 1
    OBVIOUS
  <2> QED
    BY <2>1, <1>1 DEF UserAt
<1>2. (\A j \in 1 .. k - 1 : ~IsUserTask(worker'[j])) => user' = u
  BY DEF UserAt
<1> QED
  BY <1>1, <1>2 DEF UserAt, IsUserTask

LEMMA TaskAppended ==
  ASSUME OwnedTypes, TasksAreOwn, NEW t \in Task, worker' = Append(worker, t),
         user' = user,
         t.kind = "write" /\ t.write.kind # "active" =>
           UserAt(Len(worker) + 1, t.write.by)
  PROVE  TasksAreOwn'
<1>1. /\ DOMAIN worker = 1 .. Len(worker) /\ Len(worker) \in Nat
      /\ DOMAIN worker' = 1 .. Len(worker) + 1
      /\ worker'[Len(worker) + 1] = t
      /\ \A i \in 1 .. Len(worker) : worker'[i] = worker[i]
  BY WorkerTypes, Appending
<1>2. ASSUME NEW k \in DOMAIN worker', worker'[k].kind = "write",
             worker'[k].write.kind # "active"
      PROVE  UserAt(k, worker[k].write.by)'
  <2>1. k \in Nat /\ \A j \in 1 .. k - 1 : worker'[j] = worker[j]
    BY <1>1
  <2>2. UserAt(k, worker'[k].write.by)
    <3>1. CASE k = Len(worker) + 1
      BY <3>1, <1>1, <1>2
    <3>2. CASE k \in 1 .. Len(worker)
      <4>1. worker'[k] = worker[k] /\ k \in DOMAIN worker
        BY <3>2, <1>1
      <4> QED
        BY <4>1, <1>2 DEF TasksAreOwn, IsOwnTask
    <3> QED
      BY <3>1, <3>2, <1>1
  <2> QED
    BY <2>1, <2>2, PrefixUser
<1> QED
  BY <1>2 DEF TasksAreOwn, IsOwnTask

LEMMA AuthAtEnd ==
  ASSUME OwnedTypes, AuthIsComing, ~ChangeOnMain
  PROVE  UserAt(Len(worker) + 1, auth)
<1>1. DOMAIN worker = 1 .. Len(worker) /\ Len(worker) \in Nat
  BY WorkerTypes
<1>2. ASSUME NEW j \in 1 .. Len(worker), IsUserTask(worker[j]),
             \A i \in j + 1 .. Len(worker) : ~IsUserTask(worker[i])
      PROVE  worker[j].user = auth
  <2>1. \A i \in DOMAIN worker : i > j => i \in j + 1 .. Len(worker)
    BY <1>1
  <2> QED
    BY <2>1, <1>1, <1>2 DEF AuthIsComing
<1>3. (\A j \in 1 .. Len(worker) : ~IsUserTask(worker[j])) => user = auth
  BY <1>1 DEF AuthIsComing, ChangeOnWorker
<1> QED
  BY <1>1, <1>2, <1>3 DEF UserAt

LEMMA TaskTaken ==
  ASSUME OwnedTypes, TasksAreOwn, worker # <<>>, worker' = Tail(worker),
         user' = IF IsUserTask(Head(worker)) THEN Head(worker).user ELSE user
  PROVE  TasksAreOwn'
<1>1. /\ DOMAIN worker = 1 .. Len(worker) /\ Len(worker) \in Nat
      /\ DOMAIN worker' = 1 .. Len(worker) - 1
      /\ Head(worker) = worker[1]
      /\ \A i \in 1 .. Len(worker) - 1 : worker'[i] = worker[i + 1]
  BY WorkerTypes, Removing
<1>2. ASSUME NEW k \in DOMAIN worker', NEW u, UserAt(k + 1, u)
      PROVE  UserAt(k, u)'
  <2>0. k \in Nat /\ k >= 1 /\ k <= Len(worker) - 1 /\ k + 1 - 1 = k
    BY <1>1
  <2>a. \A j \in 1 .. k - 1 : worker'[j] = worker[j + 1] /\ j + 1 \in 1 .. k
    BY <1>1, <2>0
  <2>b. \A j \in 2 .. k : worker[j] = worker'[j - 1] /\ j - 1 \in 1 .. k - 1
    <3>1. \A j \in 2 .. k : j - 1 \in 1 .. k - 1 /\ (j - 1) + 1 = j
      BY <2>0
    <3> QED
      BY <3>1, <2>a
  <2>c. /\ \A j \in 1 .. k :
             IsUserTask(worker[j]) /\ (\A i \in j + 1 .. k : ~IsUserTask(worker[i]))
               => worker[j].user = u
        /\ (\A j \in 1 .. k : ~IsUserTask(worker[j])) => user = u
    BY <1>2, <2>0 DEF UserAt
  <2>1. ASSUME NEW j \in 1 .. k - 1, IsUserTask(worker'[j]),
               \A i \in j + 1 .. k - 1 : ~IsUserTask(worker'[i])
        PROVE  worker'[j].user = u
    <3>1. ASSUME NEW i \in (j + 1) + 1 .. k PROVE ~IsUserTask(worker[i])
      <4>1. i \in 2 .. k /\ i - 1 \in j + 1 .. k - 1
        BY <2>0
      <4> QED
        BY <4>1, <2>b, <2>1
    <3>2. j + 1 \in 1 .. k /\ worker'[j] = worker[j + 1]
      BY <2>a
    <3> QED
      BY <3>1, <3>2, <2>1, <2>c
  <2>2. ASSUME \A j \in 1 .. k - 1 : ~IsUserTask(worker'[j])
        PROVE  user' = u
    <3>1. \A j \in 2 .. k : ~IsUserTask(worker[j])
      BY <2>2, <2>b
    <3>2. CASE IsUserTask(worker[1])
      <4>1. 1 \in 1 .. k /\ \A i \in 1 + 1 .. k : i \in 2 .. k
        BY <2>0
      <4> QED
        BY <4>1, <3>1, <3>2, <2>c, <1>1
    <3>3. CASE ~IsUserTask(worker[1])
      <4>1. \A j \in 1 .. k : j = 1 \/ j \in 2 .. k
        BY <2>0
      <4>2. \A j \in 1 .. k : ~IsUserTask(worker[j])
        BY <4>1, <3>1, <3>3
      <4> QED
        BY <4>2, <3>3, <2>c, <1>1
    <3> QED
      BY <3>2, <3>3
  <2> QED
    BY <2>1, <2>2 DEF UserAt, IsUserTask
<1>3. ASSUME NEW k \in DOMAIN worker', worker'[k].kind = "write",
             worker'[k].write.kind # "active"
      PROVE  UserAt(k, worker[k].write.by)'
  <2>1. worker'[k] = worker[k + 1] /\ k + 1 \in DOMAIN worker
    BY <1>1
  <2>2. UserAt(k + 1, worker'[k].write.by)
    BY <2>1, <1>3 DEF TasksAreOwn, IsOwnTask
  <2> QED
    BY <2>2, <1>2
<1> QED
  BY <1>3 DEF TasksAreOwn, IsOwnTask

-----------------------------------------------------------------------------
(***************************************************************************)
(* Each step, when there has been no hurry.                                *)
(***************************************************************************)
IsUnhurried == OneSignIn /\ TasksAreOwn /\ BatchesAreOwn

LEMMA TypeIsUnhurried ==
  ASSUME OneSignIn, NEW u, Type(u), ~UnderWay
  PROVE  OneSignIn'
<1>1. /\ main' = main /\ attempts' = attempts /\ screen' = screen
      /\ field' = u /\ auth' = auth
  BY DEF Type, authVars
<1>2. attempts = {} /\ \A i \in DOMAIN main : ~IsSignIn(main[i])
  BY DEF UnderWay, IsSignIn
<1> QED
  BY <1>1, <1>2 DEF OneSignIn, UnderWay, ChangeOnMain, IsSignIn, IsChange

LEMMA PressIsUnhurried ==
  ASSUME OneSignIn, NEW how, PressButton(how), ~UnderWay
  PROVE  OneSignIn'
<1>1. /\ main' = main /\ screen' = screen /\ screen = "start"
      /\ field' = field /\ auth' = auth
      /\ attempts' = attempts \cup {[how |-> how, email |-> field, made |-> FALSE]}
  BY DEF PressButton, authVars, TouchesStartScreen
<1>2. attempts = {} /\ \A i \in DOMAIN main : ~IsSignIn(main[i])
  BY DEF UnderWay, IsSignIn
<1>3. attempts' = {[how |-> how, email |-> field, made |-> FALSE]}
  BY <1>1, <1>2
<1>4. \A i \in DOMAIN main' : ~IsSignIn(main'[i])
  BY <1>1, <1>2
<1>5. screen' = "start" /\ screen' # "contacts"
  BY <1>1
<1>6. \A a, b \in attempts' : a = b
  BY <1>3
<1>7. \A a \in attempts' : a.email = field'
  BY <1>1, <1>3
<1> QED
  BY <1>4, <1>5, <1>6, <1>7 DEF OneSignIn

LEMMA UserIsTold ==
  ASSUME OwnedTypes, NEW u \in Owner, NEW completion, UpdateCurrentUser(u, completion),
         completion = <<>> \/ \E a \in Attempt :
           completion = <<[kind |-> "signedIn", attempt |-> a]>>
  PROVE  /\ auth' = u
         /\ DOMAIN main' \subseteq Nat
         /\ \A i \in DOMAIN main' :
              \/ i \in DOMAIN main /\ main'[i] = main[i]
              \/ i = Len(main) + 1 /\ main'[i] = Changed(u)
              \/ /\ i = Len(main) + 2 /\ completion # <<>>
                 /\ main'[i] = completion[1]
         /\ \A i \in DOMAIN main : i \in DOMAIN main' /\ main'[i] = main[i]
         /\ completion # <<>> =>
              Len(main) + 2 \in DOMAIN main' /\ main'[Len(main) + 2] = completion[1]
<1>1. main \in Seq(Block) /\ auth' = u
  BY MainTypes DEF UpdateCurrentUser
<1>b. Changed(u) \in Block
  BY DEF Changed, Block
<1> DEFINE told == Append(main, Changed(u))
<1>2. /\ told \in Seq(Block)
      /\ Len(main) \in Nat
      /\ DOMAIN main = 1 .. Len(main)
      /\ DOMAIN told = 1 .. Len(main) + 1
      /\ told[Len(main) + 1] = Changed(u)
      /\ \A i \in 1 .. Len(main) : told[i] = main[i]
  BY <1>1, <1>b, Appending
<1>3. main' = told \o completion
  BY <1>1 DEF UpdateCurrentUser
<1>4. CASE completion = <<>>
  <2>1. main' = told
    BY <1>4, <1>2, <1>3
  <2> HIDE DEF told
  <2> QED
    BY <2>1, <1>1, <1>2, <1>4
<1>5. CASE \E a \in Attempt : completion = <<[kind |-> "signedIn", attempt |-> a]>>
  <2>1. PICK a \in Attempt : completion = <<[kind |-> "signedIn", attempt |-> a]>>
    BY <1>5
  <2> DEFINE block == [kind |-> "signedIn", attempt |-> a]
  <2>2. block \in Block
    BY DEF Block
  <2>3. completion = <<block>> /\ completion # <<>> /\ completion[1] = block
    BY <2>1
  <2> HIDE DEF block
  <2>4. main' = Append(told, block)
    BY <2>2, <2>3, <1>2, <1>3
  <2>5. Len(told) = Len(main) + 1
    BY <1>2
  <2> HIDE DEF told
  <2>6. /\ DOMAIN main' = 1 .. Len(main) + 2
        /\ main'[Len(main) + 2] = block
        /\ \A i \in 1 .. Len(main) + 1 : main'[i] = told[i]
    BY <1>2, <2>2, <2>4, <2>5, Appending
  <2> QED
    BY <2>3, <2>6, <1>1, <1>2
<1> QED
  BY <1>4, <1>5

LEMMA SignOutIsUnhurried ==
  ASSUME OwnedTypes, OneSignIn, SignUserOut
  PROVE  OneSignIn'
<1>1. /\ screen = "contacts" /\ screen' = "start" /\ attempts' = attempts
      /\ field' = field
  BY DEF SignUserOut
<1>2. attempts = {} /\ \A i \in DOMAIN main : ~IsSignIn(main[i])
  BY <1>1 DEF OneSignIn, UnderWay, IsSignIn
<1>3. \A i \in DOMAIN main' : ~IsSignIn(main'[i])
  <2>1. CASE UpdateCurrentUser(NoUser, <<>>)
    <3>1. \A i \in DOMAIN main' : \/ i \in DOMAIN main /\ main'[i] = main[i]
                                  \/ main'[i] = Changed(NoUser)
      BY <2>1, UserIsTold DEF Owner
    <3> QED
      BY <3>1, <1>2 DEF IsSignIn, Changed
  <2>2. CASE main' = main
    BY <2>2, <1>2
  <2> QED
    BY <2>1, <2>2 DEF SignUserOut
<1>4. screen' # "contacts"
  BY <1>1
<1> QED
  BY <1>1, <1>2, <1>3, <1>4 DEF OneSignIn

LEMMA CreationIsUnhurried ==
  ASSUME OwnedTypes, OneSignIn, NEW a \in attempts, CreateAccount(a)
  PROVE  OneSignIn'
<1>1. /\ main' = main /\ screen' = screen /\ field' = field /\ auth' = auth
      /\ \/ attempts' = attempts \ {a}
         \/ attempts' = (attempts \ {a}) \cup {[a EXCEPT !.made = TRUE]}
  BY DEF CreateAccount
<1>2. attempts = {a} /\ a.email = field
  BY DEF OneSignIn
<1>3. [a EXCEPT !.made = TRUE].email = a.email
  BY DEF OwnedTypes, Attempt
<1>4. /\ \A x, y \in attempts' : x = y
      /\ \A x \in attempts' : x.email = field
  BY <1>1, <1>2, <1>3
<1>5. \A i \in DOMAIN main' : ~IsSignIn(main'[i])
  BY <1>1 DEF OneSignIn
<1>6. screen' = "start" /\ screen' # "contacts"
  BY <1>1 DEF OneSignIn, UnderWay
<1> QED
  BY <1>1, <1>4, <1>5, <1>6 DEF OneSignIn

LEMMA CompletionIsUnhurried ==
  ASSUME OwnedTypes, OneSignIn, NEW a \in attempts, CompleteSignIn(a)
  PROVE  OneSignIn'
<1>1. /\ screen' = screen /\ field' = field /\ attempts' = attempts \ {a}
  BY DEF CompleteSignIn
<1>2. attempts = {a} /\ a.email = field /\ a \in Attempt /\ a.email \in Owner
  BY DEF OneSignIn, OwnedTypes, Attempt
<1>3. \A i \in DOMAIN main : ~IsSignIn(main[i])
  BY DEF OneSignIn
<1>4. screen' = "start" /\ screen' # "contacts" /\ attempts' = {}
  BY <1>1, <1>2 DEF OneSignIn, UnderWay
<1> DEFINE block == [kind |-> "signedIn", attempt |-> a]
<1>5. CASE UpdateCurrentUser(a.email, <<block>>)
  <2>1. <<block>>[1] = block
    OBVIOUS
  <2>2. /\ auth' = a.email
        /\ DOMAIN main' \subseteq Nat
        /\ \A i \in DOMAIN main' :
             \/ i \in DOMAIN main /\ main'[i] = main[i]
             \/ i = Len(main) + 1 /\ main'[i] = Changed(a.email)
             \/ i = Len(main) + 2 /\ main'[i] = block
    BY <2>1, <1>2, <1>5, UserIsTold
  <2>3. /\ ~IsSignIn(Changed(a.email))
        /\ block.attempt = a /\ ~IsChange(block)
    BY DEF IsSignIn, Changed, IsChange
  <2>4. Len(main) \in Nat /\ DOMAIN main = 1 .. Len(main)
    BY MainTypes
  <2> HIDE DEF block
  <2>5. \A i \in DOMAIN main' : IsSignIn(main'[i]) =>
          i = Len(main) + 2 /\ main'[i] = block
    BY <2>2, <2>3, <1>3
  <2>6. \A i \in DOMAIN main' : ~(i > Len(main) + 2)
    BY <2>2, <2>4
  <2> QED
    BY <2>2, <2>3, <2>4, <2>5, <2>6, <1>1, <1>2, <1>4 DEF OneSignIn
<1>6. CASE main' = main
  <2>1. \A i \in DOMAIN main' : ~IsSignIn(main'[i])
    BY <1>3, <1>6
  <2> QED
    BY <2>1, <1>1, <1>4 DEF OneSignIn
<1> QED
  BY <1>5, <1>6 DEF CompleteSignIn


LEMMA MainIsUnhurried ==
  ASSUME SessionInvariant, IsUnhurried, RunMain
  PROVE  OneSignIn' /\ TasksAreOwn'
<1>0. OwnedTypes /\ AuthIsComing /\ OneSignIn /\ TasksAreOwn
  BY DEF SessionInvariant, OwnershipInvariant, IsUnhurried
<1>1. /\ Head(main) \in Block /\ main # <<>> /\ main' = Tail(main)
      /\ 1 \in DOMAIN main /\ Head(main) = main[1]
      /\ auth' = auth /\ user' = user
  BY <1>0, MainHead
<1>2. field' = field /\ attempts' = attempts
  BY DEF RunMain
<1>3. OwnedTypes'
  BY RunMainKeepsQueues DEF SessionInvariant, OwnershipInvariant
<1>4. OneSignIn'
  <2>1. screen' = screen \/ IsSignIn(Head(main))
    BY <1>1 DEF RunMain, HearChange, HearToken, RunHandler, IsSignIn, Block
  <2> QED
    BY <2>1, <1>0, <1>1, <1>2, BlockServed
<1>5. ASSUME worker' = worker PROVE TasksAreOwn'
  BY <1>0, <1>1, <1>5 DEF TasksAreOwn, IsOwnTask, UserAt, IsUserTask
<1>6. ASSUME NEW t \in Task, worker' = Append(worker, t), t.kind # "write"
      PROVE  TasksAreOwn'
  BY <1>0, <1>1, <1>6, TaskAppended
<1>7. CASE Head(main).kind = "changed"
  <2>1. worker' = Append(worker, [kind |-> "user", user |-> Head(main).user])
    BY <1>7 DEF RunMain, HearChange, Enqueue
  <2>2. [kind |-> "user", user |-> Head(main).user] \in Task
    BY <1>1, <1>7 DEF Block, Task
  <2> QED
    BY <2>1, <2>2, <1>4, <1>6
<1>8. CASE Head(main).kind = "token"
  <2> DEFINE r == Head(main).request
             t == [kind |-> "resume", who |-> r.who, closes |-> r.closes]
  <2>1. worker' = worker \/ worker' = Append(worker, t)
    BY <1>8 DEF RunMain, HearToken, Enqueue
  <2>2. r \in Token
    BY <1>1, <1>8 DEF Block
  <2>3. t \in Task /\ t.kind # "write"
    BY <2>2 DEF Token, Task
  <2> HIDE DEF t
  <2> QED
    BY <2>1, <2>3, <1>4, <1>5, <1>6
<1>9. CASE Head(main).kind = "signedIn"
  <2> DEFINE a == Head(main).attempt
             t == [kind |-> "write",
                   write |-> [n |-> made.writes + 1, by |-> a.email,
                              kind |-> "profile", key |-> <<"users", field>>]]
  <2>1. worker' = worker \/ worker' = Append(worker, t)
    BY <1>9 DEF RunMain, SignedIn, Write, Enqueue
  <2>2. IsSignIn(main[1]) /\ main[1] = Head(main)
    BY <1>1, <1>9 DEF IsSignIn
  <2>3. a.email = auth /\ auth = field /\ ~ChangeOnMain
    <3>1. /\ main[1].attempt.email = auth /\ auth = field
          /\ \A j \in DOMAIN main : j > 1 => ~IsChange(main[j])
      BY <2>2, <1>0, <1>1 DEF OneSignIn
    <3>2. ~IsChange(main[1]) /\ DOMAIN main = 1 .. Len(main)
      BY <2>2, <1>0, MainTypes DEF IsSignIn, IsChange
    <3> QED
      BY <3>1, <3>2, <2>2 DEF ChangeOnMain
  <2>4. UserAt(Len(worker) + 1, a.email)
    BY <2>3, <1>0, AuthAtEnd
  <2>5. t \in Task
    BY <2>3, <1>0 DEF Task, WriteRecord, OwnedTypes, DocumentKey
  <2>6. t.write.by = a.email
    OBVIOUS
  <2> HIDE DEF t, a
  <2>7. worker' = Append(worker, t) => TasksAreOwn'
    BY <2>4, <2>5, <2>6, <1>0, <1>1, TaskAppended
  <2> QED
    BY <2>1, <2>7, <1>4, <1>5
<1>10. CASE Head(main).kind = "handler"
  <2> DEFINE by == Head(main).batch.by
             t == [kind |-> "write",
                   write |-> [n |-> made.writes + 1, by |-> by,
                              kind |-> "active", key |-> <<"chats">>]]
  <2>1. worker' = worker \/ worker' = Append(worker, t)
    BY <1>10 DEF RunMain, RunHandler, Write, Enqueue
  <2>2. by \in Owner
    BY <1>1, <1>10 DEF Block, Batch
  <2>3. t \in Task
    BY <2>2, <1>0 DEF Task, WriteRecord, OwnedTypes, DocumentKey
  <2>4. t.write.kind = "active"
    OBVIOUS
  <2> HIDE DEF t, by
  <2>5. worker' = Append(worker, t) => TasksAreOwn'
    BY <2>3, <2>4, <1>0, <1>1, TaskAppended
  <2> QED
    BY <2>1, <2>5, <1>4, <1>5
<1> QED
  BY <1>1, <1>7, <1>8, <1>9, <1>10 DEF Block

LEMMA MessageIsUnhurried ==
  ASSUME SessionInvariant, IsUnhurried, SendMessage
  PROVE  OneSignIn' /\ TasksAreOwn'
<1>0. OwnedTypes /\ AuthIsComing /\ OneSignIn /\ TasksAreOwn
  BY DEF SessionInvariant, OwnershipInvariant, IsUnhurried
<1>1. /\ main' = main /\ attempts' = attempts /\ screen' = screen
      /\ field' = field /\ auth' = auth /\ user' = user
      /\ screen = "contacts"
  BY DEF SendMessage, appVars, authVars, clientVars
<1> DEFINE t == [kind |-> "write",
                 write |-> [n |-> made.writes + 1, by |-> auth,
                            kind |-> "message",
                            key |-> <<"messages", made.messages + 1>>]]
<1>2. worker' = Append(worker, t)
  BY DEF SendMessage, Enqueue
<1>3. t \in Task
  <2>1. made.writes + 1 \in Nat /\ made.messages + 1 \in Nat /\ auth \in Owner
    BY <1>0, MadeGrows DEF OwnedTypes
  <2> QED
    BY <2>1 DEF Task, WriteRecord, DocumentKey
<1>4. UserAt(Len(worker) + 1, auth)
  BY <1>0, <1>1, AuthAtEnd DEF OneSignIn
<1>5. t.write.by = auth
  OBVIOUS
<1> HIDE DEF t
<1>6. TasksAreOwn'
  BY <1>0, <1>1, <1>2, <1>3, <1>4, <1>5, TaskAppended
<1> QED
  BY <1>0, <1>1, <1>6, SameApp

LEMMA TaskIsUnhurried ==
  ASSUME SessionInvariant, IsUnhurried, RunTask
  PROVE  TasksAreOwn' /\ BatchesAreOwn'
<1>0. OwnedTypes /\ TasksAreOwn /\ BatchesAreOwn /\ DOMAIN queues = Owner
  BY DEF SessionInvariant, OwnershipInvariant, IsUnhurried, OwnedTypes
<1>1. /\ Head(worker) \in Task /\ worker # <<>> /\ worker' = Tail(worker)
      /\ 1 \in DOMAIN worker /\ Head(worker) = worker[1]
  BY <1>0, WorkerHead
<1>2. user' = IF IsUserTask(Head(worker)) THEN Head(worker).user ELSE user
  BY <1>1 DEF RunTask, Task, IsUserTask, WriteMutations, HandleCredentialChange,
              ResumeStartWithCredentials, clientVars
<1>3. TasksAreOwn'
  BY <1>0, <1>1, <1>2, TaskTaken
<1>4. CASE Head(worker).kind # "write"
  <2>1. queues' = queues
    BY <1>1, <1>4 DEF RunTask, Task, HandleCredentialChange,
                      ResumeStartWithCredentials, clientVars
  <2> QED
    BY <2>1, <1>0, <1>3 DEF BatchesAreOwn
<1>5. CASE Head(worker).kind = "write"
  <2> DEFINE w == Head(worker).write
             b == [n |-> w.n, by |-> w.by, kind |-> w.kind, key |-> w.key,
                   owner |-> user, live |-> TRUE]
             Q == queues[user]
             q == Append(Q, b)
  <2>1. queues' = [queues EXCEPT ![user] = q]
    BY <1>5 DEF RunTask, WriteMutations
  <2>2. user \in Owner /\ w \in WriteRecord
    BY <1>0, <1>1, <1>5 DEF OwnedTypes, Task
  <2>3. b \in BatchOf(user) /\ b.kind = w.kind /\ b.by = w.by
    BY <2>2 DEF WriteRecord, Batch, BatchOf
  <2>4. w.kind # "active" => w.by = user
    <3>1. w.kind # "active" => UserAt(1, w.by)
      BY <1>0, <1>1, <1>5 DEF TasksAreOwn, IsOwnTask
    <3> QED
      BY <3>1 DEF UserAt
  <2>5. /\ DOMAIN Q = 1 .. Len(Q)
        /\ DOMAIN q = 1 .. Len(Q) + 1
        /\ q[Len(Q) + 1] = b
        /\ \A i \in 1 .. Len(Q) : q[i] = Q[i]
    <3> HIDE DEF b
    <3> QED
      BY <2>2, <2>3, <1>0, WorkerTypes, Appending
  <2> HIDE DEF q, b
  <2>6. ASSUME NEW u \in Owner, NEW i \in DOMAIN queues'[u],
               queues'[u][i].kind # "active"
        PROVE  queues'[u][i].by = u
    <3>1. CASE u # user
      BY <3>1, <2>1, <2>6, <1>0 DEF BatchesAreOwn
    <3>2. CASE u = user
      <4>1. queues'[u] = q
        BY <3>2, <2>1, <2>2, <1>0
      <4>2. CASE i = Len(Q) + 1
        BY <4>1, <4>2, <3>2, <2>3, <2>4, <2>5, <2>6
      <4>3. CASE i \in 1 .. Len(Q)
        BY <4>1, <4>3, <3>2, <2>2, <2>5, <2>6, <1>0 DEF BatchesAreOwn
      <4> QED
        BY <4>1, <4>2, <4>3, <2>5
    <3> QED
      BY <3>1, <3>2
  <2> QED
    BY <2>6, <1>3 DEF BatchesAreOwn
<1> QED
  BY <1>4, <1>5

LEMMA AnswerIsUnhurried ==
  ASSUME SessionInvariant, IsUnhurried, OnWriteStreamMutationResult
  PROVE  OneSignIn' /\ BatchesAreOwn'
<1>0. /\ OwnedTypes /\ OneSignIn /\ BatchesAreOwn /\ PipelineIsQueued
      /\ DOMAIN queues = Owner /\ user \in Owner
  BY DEF SessionInvariant, OwnershipInvariant, IsUnhurried, OwnedTypes
<1> DEFINE Q == queues[user]
           b == Head(pipeline)
           block == [kind |-> "handler", batch |-> b]
<1>1. /\ queues' = [queues EXCEPT ![user] = Tail(Q)]
      /\ main' = main \/ main' = Append(main, block)
      /\ attempts' = attempts /\ screen' = screen /\ field' = field
      /\ auth' = auth
  BY DEF OnWriteStreamMutationResult, appVars, authVars
<1>2. pipeline # <<>> /\ Q # <<>> /\ b \in Batch
  <2>1. /\ pipeline \in Seq(BatchOf(user)) /\ Q \in Seq(BatchOf(user))
        /\ answered \in Nat /\ answered > 0
        /\ answered <= Len(pipeline) /\ Len(pipeline) <= Len(Q)
    BY <1>0 DEF OwnedTypes, PipelineIsQueued, IsQueued,
                OnWriteStreamMutationResult
  <2>2. Len(pipeline) \in Nat /\ Len(Q) \in Nat
    BY <2>1
  <2>3. Len(pipeline) # 0 /\ Len(Q) # 0
    BY <2>1, <2>2
  <2>4. pipeline # <<>> /\ Q # <<>>
    <3> HIDE DEF Q
    <3> QED
      BY <2>1, <2>3, EmptySeq
  <2>5. b \in BatchOf(user)
    BY <2>1, <2>4, Removing
  <2> QED
    BY <2>4, <2>5 DEF BatchOf
<1>3. block \in Block /\ block.kind = "handler"
  BY <1>2 DEF Block
<1>4. OneSignIn'
  <2> HIDE DEF block, Q
  <2> QED
    BY <1>0, <1>1, <1>3, SameApp, BlockAppended
<1>5. /\ DOMAIN Q = 1 .. Len(Q) /\ Len(Q) \in Nat
      /\ DOMAIN Tail(Q) = 1 .. Len(Q) - 1
      /\ \A i \in 1 .. Len(Q) - 1 : Tail(Q)[i] = Q[i + 1]
  BY <1>0, <1>2, WorkerTypes, Removing
<1>6. ASSUME NEW u \in Owner, NEW i \in DOMAIN queues'[u],
             queues'[u][i].kind # "active"
      PROVE  queues'[u][i].by = u
  <2>1. CASE u # user
    BY <2>1, <1>0, <1>1, <1>6 DEF BatchesAreOwn
  <2>2. CASE u = user
    <3>1. queues'[u] = Tail(Q)
      BY <2>2, <1>0, <1>1
    <3>2. i + 1 \in DOMAIN queues[u] /\ queues'[u][i] = queues[u][i + 1]
      BY <3>1, <2>2, <1>5
    <3> QED
      BY <3>2, <1>0, <1>6 DEF BatchesAreOwn
  <2> QED
    BY <2>1, <2>2
<1> QED
  BY <1>4, <1>6 DEF BatchesAreOwn

LEMMA KillIsUnhurried ==
  ASSUME SessionInvariant, IsUnhurried, Kill
  PROVE  IsUnhurried'
<1>0. OwnedTypes /\ BatchesAreOwn
  BY DEF SessionInvariant, OwnershipInvariant, IsUnhurried
<1>1. /\ screen' = "start" /\ attempts' = {} /\ worker' = <<>>
      /\ main' = IF auth = NoUser THEN <<>> ELSE <<Changed(auth)>>
      /\ queues' = [v \in Owner |->
                      [i \in DOMAIN queues[v] |->
                         [queues[v][i] EXCEPT !.live = FALSE]]]
  BY DEF Kill
<1>2. \A i \in DOMAIN main' : ~IsSignIn(main'[i])
  BY <1>1 DEF IsSignIn, Changed
<1>3. OneSignIn'
  <2>1. screen' # "contacts"
    BY <1>1
  <2> QED
    BY <2>1, <1>1, <1>2 DEF OneSignIn
<1>4. TasksAreOwn'
  BY <1>1 DEF TasksAreOwn
<1>5. ASSUME NEW u \in Owner, NEW i \in DOMAIN queues'[u],
             queues'[u][i].kind # "active"
      PROVE  queues'[u][i].by = u
  <2>1. i \in DOMAIN queues[u] /\ queues'[u][i] = [queues[u][i] EXCEPT !.live = FALSE]
    BY <1>1
  <2>2. queues[u][i] \in Batch
    <3>1. queues[u] \in Seq(BatchOf(u)) /\ DOMAIN queues[u] = 1 .. Len(queues[u])
      BY <1>0, WorkerTypes
    <3>2. queues[u][i] \in BatchOf(u)
      BY <3>1, <2>1
    <3> QED
      BY <3>2 DEF BatchOf
  <2>3. queues'[u][i].kind = queues[u][i].kind /\ queues'[u][i].by = queues[u][i].by
    BY <2>1, <2>2 DEF Batch
  <2> QED
    BY <2>1, <2>3, <1>0, <1>5 DEF BatchesAreOwn
<1>6. BatchesAreOwn'
  BY <1>5 DEF BatchesAreOwn
<1> QED
  BY <1>3, <1>4, <1>6 DEF IsUnhurried

LEMMA RestIsUnhurried ==
  ASSUME IsUnhurried, main' = main, attempts' = attempts, screen' = screen,
         field' = field, auth' = auth, worker' = worker, user' = user,
         queues' = queues
  PROVE  IsUnhurried'
<1>1. OneSignIn'
  BY SameApp DEF IsUnhurried
<1>2. TasksAreOwn' /\ BatchesAreOwn'
  BY DEF IsUnhurried, TasksAreOwn, IsOwnTask, UserAt, IsUserTask, BatchesAreOwn
<1> QED
  BY <1>1, <1>2 DEF IsUnhurried

LEMMA FaultsGrow ==
  ASSUME faults \in [Fault -> Nat], NEW f \in Fault, FaultHappens(f)
  PROVE  /\ faults' \in [Fault -> Nat]
         /\ faults'[f] = faults[f] + 1
         /\ \A g \in Fault : g # f => faults'[g] = faults[g]
BY DEF FaultHappens

LEMMA StepIsUnhurried ==
  ASSUME SessionInvariant, UnhurriedInvariant, Next
  PROVE  UnhurriedInvariant'
<1>0. OwnedTypes /\ faults \in [Fault -> Nat]
  BY DEF SessionInvariant, OwnershipInvariant, UnhurriedInvariant
<1>f. {"break", "kill", "hurry"} = Fault
  BY DEF Fault
<1>g. \A f \in {"break", "kill"} : FaultHappens(f) =>
        faults' \in [Fault -> Nat] /\ faults'["hurry"] = faults["hurry"]
  <2> SUFFICES ASSUME NEW f \in {"break", "kill"}, FaultHappens(f)
               PROVE  /\ faults' \in [Fault -> Nat]
                      /\ faults'["hurry"] = faults["hurry"]
    OBVIOUS
  <2>1. f \in Fault /\ "hurry" \in Fault /\ "hurry" # f
    BY <1>f
  <2> QED
    BY <2>1, <1>0, FaultsGrow
<1>q. ASSUME faults'["hurry"] = faults["hurry"], faults' \in [Fault -> Nat],
             IsUnhurried => IsUnhurried'
      PROVE  UnhurriedInvariant'
  <2>1. faults'["hurry"] = 0 => OneSignIn /\ TasksAreOwn /\ BatchesAreOwn
    BY <1>q DEF UnhurriedInvariant
  <2> QED
    BY <2>1, <1>q DEF UnhurriedInvariant, IsUnhurried
<1>1. ASSUME TouchesStartScreen, ~UnderWay /\ IsUnhurried => IsUnhurried'
      PROVE  UnhurriedInvariant'
  <2>1. CASE UnderWay
    <3>1. faults' \in [Fault -> Nat] /\ faults'["hurry"] = faults["hurry"] + 1
      BY <2>1, <1>0, <1>1, <1>f, FaultsGrow DEF TouchesStartScreen
    <3>2. faults["hurry"] \in Nat
      BY <1>0, <1>f
    <3>3. faults'["hurry"] # 0
      BY <3>1, <3>2
    <3> QED
      BY <3>1, <3>3 DEF UnhurriedInvariant
  <2>2. CASE ~UnderWay
    <3>1. faults' = faults
      BY <2>2, <1>1 DEF TouchesStartScreen
    <3> QED
      BY <3>1, <2>2, <1>0, <1>1, <1>q
  <2> QED
    BY <2>1, <2>2
<1>2. ASSUME NEW u \in Account, Type(u) PROVE UnhurriedInvariant'
  <2>1. TouchesStartScreen /\ worker' = worker /\ user' = user /\ queues' = queues
    BY <1>2 DEF Type, clientVars
  <2>2. IsUnhurried => TasksAreOwn' /\ BatchesAreOwn'
    BY <2>1 DEF IsUnhurried, TasksAreOwn, IsOwnTask, UserAt, IsUserTask,
                BatchesAreOwn
  <2>3. ~UnderWay /\ IsUnhurried => IsUnhurried'
    BY <2>2, <1>2, TypeIsUnhurried DEF IsUnhurried
  <2> QED
    BY <2>1, <2>3, <1>1
<1>3. ASSUME NEW how \in {"createUser", "signIn"}, PressButton(how)
      PROVE  UnhurriedInvariant'
  <2>1. TouchesStartScreen /\ worker' = worker /\ user' = user /\ queues' = queues
    BY <1>3 DEF PressButton, clientVars
  <2>2. IsUnhurried => TasksAreOwn' /\ BatchesAreOwn'
    BY <2>1 DEF IsUnhurried, TasksAreOwn, IsOwnTask, UserAt, IsUserTask,
                BatchesAreOwn
  <2>3. ~UnderWay /\ IsUnhurried => IsUnhurried'
    BY <2>2, <1>3, PressIsUnhurried DEF IsUnhurried
  <2> QED
    BY <2>1, <2>3, <1>1
<1>4. ASSUME worker' = worker, user' = user, queues' = queues, faults' = faults,
             OneSignIn => OneSignIn'
      PROVE  UnhurriedInvariant'
  <2>1. IsUnhurried => TasksAreOwn' /\ BatchesAreOwn'
    BY <1>4 DEF IsUnhurried, TasksAreOwn, IsOwnTask, UserAt, IsUserTask,
                BatchesAreOwn
  <2>2. IsUnhurried => IsUnhurried'
    BY <2>1, <1>4 DEF IsUnhurried
  <2> QED
    BY <2>2, <1>0, <1>4, <1>q
<1>5. CASE SendMessage
  <2>1. faults' = faults /\ queues' = queues
    BY <1>5 DEF SendMessage, clientVars
  <2>2. IsUnhurried => IsUnhurried'
    BY <2>1, <1>5, MessageIsUnhurried DEF IsUnhurried, BatchesAreOwn
  <2> QED
    BY <2>1, <2>2, <1>0, <1>q
<1>6. CASE SignUserOut
  BY <1>0, <1>4, <1>6, SignOutIsUnhurried DEF SignUserOut, clientVars
<1>7. ASSUME NEW a \in attempts, CreateAccount(a) \/ CompleteSignIn(a)
      PROVE  UnhurriedInvariant'
  <2>1. worker' = worker /\ user' = user /\ queues' = queues /\ faults' = faults
    BY <1>7 DEF CreateAccount, CompleteSignIn, clientVars
  <2>2. OneSignIn => OneSignIn'
    BY <1>0, <1>7, CreationIsUnhurried, CompletionIsUnhurried
  <2> QED
    BY <2>1, <2>2, <1>4
<1>8. ASSUME NEW r \in requests, ReadToken(r) \/ DispatchToken(r)
      PROVE  UnhurriedInvariant'
  <2>1. /\ worker' = worker /\ user' = user /\ queues' = queues /\ faults' = faults
        /\ attempts' = attempts /\ screen' = screen /\ field' = field
        /\ auth' = auth
        /\ \/ main' = main
           \/ main' = Append(main, [kind |-> "token", request |-> r])
    BY <1>8 DEF ReadToken, DispatchToken, clientVars, appVars, authVars
  <2>2. [kind |-> "token", request |-> r] \in Block
    BY <1>0 DEF OwnedTypes, Block
  <2>3. OneSignIn => OneSignIn'
    BY <2>1, <2>2, <1>0, SameApp, BlockAppended
  <2> QED
    BY <2>1, <2>3, <1>4
<1>9. CASE RunTask
  <2>1. /\ main' = main /\ attempts' = attempts /\ screen' = screen
        /\ field' = field /\ auth' = auth /\ faults' = faults
    BY <1>9 DEF RunTask, authVars, appVars
  <2>2. IsUnhurried => IsUnhurried'
    BY <2>1, <1>9, TaskIsUnhurried, SameApp DEF IsUnhurried
  <2> QED
    BY <2>1, <2>2, <1>0, <1>q
<1>10. CASE RunMain
  <2>1. faults' = faults /\ queues' = queues
    BY <1>10 DEF RunMain, clientVars
  <2>2. IsUnhurried => IsUnhurried'
    BY <2>1, <1>10, MainIsUnhurried DEF IsUnhurried, BatchesAreOwn
  <2> QED
    BY <2>1, <2>2, <1>0, <1>q
<1>11. CASE OnWriteStreamMutationResult
  <2>1. faults' = faults /\ worker' = worker /\ user' = user
    BY <1>11 DEF OnWriteStreamMutationResult
  <2>2. IsUnhurried => IsUnhurried'
    BY <2>1, <1>11, AnswerIsUnhurried
    DEF IsUnhurried, TasksAreOwn, IsOwnTask, UserAt, IsUserTask
  <2> QED
    BY <2>1, <2>2, <1>0, <1>q
<1>12. CASE \/ OnWriteStreamHandshakeComplete \/ Commit \/ BackoffElapses
            \/ OnWriteStreamClose \/ IdleTimerFires
  <2>1. /\ main' = main /\ attempts' = attempts /\ screen' = screen
        /\ field' = field /\ auth' = auth /\ worker' = worker /\ user' = user
        /\ queues' = queues
        /\ faults' = faults \/ FaultHappens("break")
    BY <1>12
    DEF OnWriteStreamHandshakeComplete, Commit, BackoffElapses,
        OnWriteStreamClose, IdleTimerFires, authVars, appVars, clientVars
  <2>2. faults' \in [Fault -> Nat] /\ faults'["hurry"] = faults["hurry"]
    BY <2>1, <1>0, <1>g
  <2>3. IsUnhurried => IsUnhurried'
    BY <2>1, RestIsUnhurried
  <2> QED
    BY <2>2, <2>3, <1>q
<1>13. CASE Kill
  <2>1. faults' \in [Fault -> Nat] /\ faults'["hurry"] = faults["hurry"]
    BY <1>13, <1>g DEF Kill
  <2> QED
    BY <2>1, <1>13, <1>q, KillIsUnhurried
<1>14. User => UnhurriedInvariant'
  BY <1>2, <1>3, <1>5, <1>6 DEF User
<1>15. Authentication => UnhurriedInvariant'
  BY <1>7, <1>8 DEF Authentication
<1>16. Background => UnhurriedInvariant'
  BY <1>9, <1>10, <1>11, <1>12 DEF Background
<1> QED
  BY <1>12, <1>13, <1>14, <1>15, <1>16 DEF Next

(***************************************************************************)
(* Until somebody taps in a hurry, one sign-in is under way at a time and  *)
(* the tasks of the worker are for the users it will know.                 *)
(***************************************************************************)
THEOREM UnhurriedIsInvariant ==
  SessionSpec => [](SessionInvariant /\ UnhurriedInvariant)
<1> DEFINE Both == SessionInvariant /\ UnhurriedInvariant
<1>1. Init => Both
  <2>1. ASSUME Init PROVE UnhurriedInvariant
    <3>1. /\ faults = [f \in Fault |-> 0] /\ attempts = {} /\ main = <<>>
          /\ worker = <<>> /\ queues = [u \in Owner |-> <<>>]
          /\ screen = "start"
      BY <2>1 DEF Init
    <3>2. faults \in [Fault -> Nat]
      BY <3>1
    <3>3. OneSignIn
      BY <3>1 DEF OneSignIn
    <3>4. TasksAreOwn /\ BatchesAreOwn
      BY <3>1 DEF TasksAreOwn, BatchesAreOwn
    <3> QED
      BY <3>2, <3>3, <3>4 DEF UnhurriedInvariant
  <2> QED
    BY <2>1, InitOrdered
<1>2. Both /\ [Next]_sessionVars => Both'
  <2>1. Both /\ Next => Both'
    BY NextKeeps, StepIsUnhurried
  <2>2. Both /\ UNCHANGED sessionVars => Both'
    <3> SUFFICES ASSUME Both, UNCHANGED sessionVars PROVE Both'
      OBVIOUS
    <3>1. /\ main' = main /\ attempts' = attempts /\ screen' = screen
          /\ field' = field /\ auth' = auth /\ worker' = worker /\ user' = user
          /\ queues' = queues /\ faults' = faults
      BY DEF sessionVars
    <3>2. IsUnhurried => IsUnhurried'
      BY <3>1, RestIsUnhurried
    <3> QED
      BY <3>1, <3>2, StutterKeeps DEF UnhurriedInvariant, IsUnhurried
  <2> QED
    BY <2>1, <2>2
<1> QED
  BY <1>1, <1>2, PTL DEF SessionSpec

(***************************************************************************)
(* What a user writes is stored in his own queue, and so is the profile of *)
(* a new account, however sign-ins, sign-outs and the worker's tasks cross *)
(* (OwnQueue says for whom).                                               *)
(***************************************************************************)
THEOREM EachInHisOwnQueue == SessionSpec => []OwnQueue
<1>1. SessionInvariant /\ UnhurriedInvariant => OwnQueue
  <2> SUFFICES ASSUME UnhurriedInvariant, faults["hurry"] = 0,
                      NEW u \in Owner, NEW b \in Range(queues[u]),
                      b.kind # "active"
               PROVE  b.by = u
    BY DEF OwnQueue
  <2>1. PICK i \in DOMAIN queues[u] : b = queues[u][i]
    BY DEF Range
  <2> QED
    BY <2>1 DEF UnhurriedInvariant, BatchesAreOwn
<1> QED
  BY <1>1, UnhurriedIsInvariant, PTL

-----------------------------------------------------------------------------
(***************************************************************************)
(* What the server has answered of the queue in use is in the log.         *)
(***************************************************************************)
IsCommitted(b) ==
  \E i \in DOMAIN log : /\ log[i].owner = b.owner /\ log[i].n = b.n
                        /\ log[i].kind = b.kind /\ log[i].key = b.key

AnswersAreCommits == \A i \in 1 .. answered : IsCommitted(queues[user][i])

LEMMA SameAnswers ==
  ASSUME OwnedTypes, AnswersAreCommits, answered' = answered \/ answered' = 0,
         log' = log, user' = user, queues' = queues
  PROVE  AnswersAreCommits'
<1>1. answered \in Nat
  BY DEF OwnedTypes
<1>2. 1 .. answered' \subseteq 1 .. answered
  BY <1>1
<1> QED
  BY <1>2 DEF AnswersAreCommits, IsCommitted

LEMMA NoAnswers ==
  ASSUME answered' = 0
  PROVE  AnswersAreCommits'
<1>1. 1 .. answered' = {}
  OBVIOUS
<1> QED
  BY <1>1 DEF AnswersAreCommits

LEMMA AnsweredAreQueued ==
  ASSUME SessionInvariant
  PROVE  /\ OwnedTypes /\ QueuesAreOrdered /\ user \in Owner
         /\ DOMAIN queues = Owner
         /\ queues[user] \in Seq(BatchOf(user)) /\ Len(queues[user]) \in Nat
         /\ DOMAIN queues[user] = 1 .. Len(queues[user])
         /\ pipeline \in Seq(BatchOf(user)) /\ Len(pipeline) \in Nat
         /\ DOMAIN pipeline = 1 .. Len(pipeline)
         /\ answered \in Nat
         /\ answered <= Len(pipeline) /\ Len(pipeline) <= Len(queues[user])
         /\ \A i \in 1 .. Len(pipeline) : pipeline[i] = queues[user][i]
         /\ log \in Seq(CommitRecord) /\ DOMAIN log = 1 .. Len(log)
         /\ Len(log) \in Nat
<1>1. /\ OwnedTypes /\ QueuesAreOrdered /\ PipelineIsQueued /\ user \in Owner
      /\ DOMAIN queues = Owner
  BY DEF SessionInvariant, OwnershipInvariant, OwnedTypes
<1>2. /\ pipeline \in Seq(BatchOf(user)) /\ answered \in Nat
      /\ log \in Seq(CommitRecord)
  BY <1>1 DEF OwnedTypes
<1>3. Len(pipeline) \in Nat /\ DOMAIN pipeline = 1 .. Len(pipeline)
  BY <1>2
<1>4. Len(log) \in Nat /\ DOMAIN log = 1 .. Len(log)
  BY <1>2
<1> QED
  BY <1>1, <1>2, <1>3, <1>4, WorkerTypes DEF PipelineIsQueued, IsQueued

LEMMA WriteAnswers ==
  ASSUME SessionInvariant, RunTask, Head(worker).kind = "write"
  PROVE  /\ Head(worker).write \in WriteRecord
         /\ LET w == Head(worker).write
                b == [n |-> w.n, by |-> w.by, kind |-> w.kind, key |-> w.key,
                      owner |-> user, live |-> TRUE]
            IN  /\ b \in BatchOf(user)
                /\ queues' = [queues EXCEPT ![user] = Append(queues[user], b)]
         /\ answered' = answered /\ user' = user /\ log' = log
<1>0. /\ OwnedTypes /\ PipelineIsQueued /\ TasksAreNewer
      /\ QueuesAreOrdered /\ user \in Owner
  BY DEF SessionInvariant, OwnershipInvariant, OwnedTypes
<1>1. /\ Head(worker) \in Task
      /\ 1 \in DOMAIN worker /\ Head(worker) = worker[1] /\ log' = log
  BY <1>0, WorkerHead
<1> DEFINE w == Head(worker).write
           b == [n |-> w.n, by |-> w.by, kind |-> w.kind, key |-> w.key,
                 owner |-> user, live |-> TRUE]
           q == Append(queues[user], b)
<1>2. w \in WriteRecord
  BY <1>1 DEF Task
<1>3. b \in BatchOf(user) /\ b.n = w.n
  BY <1>0, <1>2 DEF WriteRecord, Batch, BatchOf
<1>4. /\ queues' = [queues EXCEPT ![user] = q]
      /\ Become(FillWritePipeline(Streams, q))
      /\ user' = user
  BY DEF RunTask, WriteMutations
<1> HIDE DEF b
<1>5. /\ queues[user] \in Seq(BatchOf(user))
      /\ q \in Seq(BatchOf(user))
      /\ Len(queues[user]) \in Nat
      /\ DOMAIN queues[user] = 1 .. Len(queues[user])
      /\ DOMAIN q = 1 .. Len(queues[user]) + 1
      /\ q[Len(queues[user]) + 1] = b
      /\ \A i \in 1 .. Len(queues[user]) : q[i] = queues[user][i]
  BY <1>0, <1>3, WorkerTypes, Appending
<1>6. /\ \A i \in DOMAIN queues[user] : queues[user][i].n \in Nat \ {0}
      /\ \A i, j \in DOMAIN queues[user] :
           i < j => queues[user][i].n < queues[user][j].n
  BY <1>0, Ordered
<1>7. b.n \in Nat \ {0} /\ \A j \in DOMAIN queues[user] : queues[user][j].n < b.n
  <2>1. w.n \in 1 .. made.writes
        /\ \A j \in DOMAIN queues[user] : queues[user][j].n < w.n
    BY <1>0, <1>1 DEF TasksAreNewer
  <2>2. made.writes \in Nat
    BY <1>0, WorkerTypes
  <2> QED
    BY <2>1, <2>2, <1>3
<1> HIDE DEF q
<1>8. /\ \A i \in DOMAIN q : q[i].n \in Nat \ {0}
      /\ \A i, j \in DOMAIN q : i < j => q[i].n < q[j].n
  <2>1. \A i \in DOMAIN queues[user] : q[i] = queues[user][i]
    BY <1>5
  <2>2. \A i, j \in DOMAIN q : i < j => i \in DOMAIN queues[user]
    BY <1>5
  <2>3. \A j \in DOMAIN q : j \in DOMAIN queues[user] \/ q[j] = b
    BY <1>5
  <2> QED
    BY <2>1, <2>2, <2>3, <1>6, <1>7
<1>9. Streams \in StreamsWith(BatchOf(user)) /\ Streams.answered = answered
      /\ Streams.pipeline = pipeline
  BY <1>0, StreamsType
<1>10. IsQueued(pipeline, q)
  <2>1. Len(q) = Len(queues[user]) + 1
    BY <1>5
  <2>2. pipeline \in Seq(BatchOf(user))
    BY <1>0 DEF OwnedTypes
  <2>3. Len(pipeline) \in Nat /\ DOMAIN pipeline = 1 .. Len(pipeline)
    BY <2>2
  <2> QED
    BY <2>1, <2>3, <1>0, <1>5 DEF PipelineIsQueued, IsQueued
<1>11. FillWritePipeline(Streams, q).answered = answered
  BY <1>5, <1>8, <1>9, <1>10, FillQueues
<1>12. answered' = answered
  BY <1>4, <1>11 DEF Become
<1>13. queues' = [queues EXCEPT ![user] = Append(queues[user], b)]
  BY <1>4 DEF q
<1> QED
  BY <1>1, <1>2, <1>3, <1>4, <1>12, <1>13 DEF b

LEMMA AnswerAnswers ==
  ASSUME SessionInvariant, OnWriteStreamMutationResult
  PROVE  /\ queues[user] # <<>> /\ pipeline # <<>>
         /\ Head(pipeline) = queues[user][1]
         /\ queues' = [queues EXCEPT ![user] = Tail(queues[user])]
         /\ answered > 0 /\ answered' = answered - 1
         /\ user' = user /\ log' = log
<1>0. /\ OwnedTypes /\ QueuesAreOrdered /\ PipelineIsQueued /\ user \in Owner
  BY DEF SessionInvariant, OwnershipInvariant, OwnedTypes
<1> DEFINE q == Tail(queues[user])
           st == [Streams EXCEPT !.pipeline = Tail(@), !.answered = @ - 1]
<1>1. /\ pipeline # <<>> /\ queues[user] # <<>>
      /\ q \in Seq(BatchOf(user))
      /\ st \in StreamsWith(BatchOf(user))
      /\ st.pipeline = Tail(pipeline) /\ st.answered = answered - 1
  BY <1>0, AnswerTypes
<1>2. /\ queues' = [queues EXCEPT ![user] = q]
      /\ Become(FillWritePipeline(st, q))
      /\ user' = user /\ log' = log
      /\ answered > 0
  BY DEF OnWriteStreamMutationResult
<1> HIDE DEF st
<1> DEFINE Q == queues[user]
<1>3. /\ Q \in Seq(BatchOf(user)) /\ Len(Q) \in Nat
      /\ DOMAIN Q = 1 .. Len(Q)
      /\ Len(pipeline) \in Nat
      /\ DOMAIN pipeline = 1 .. Len(pipeline)
      /\ Len(pipeline) <= Len(Q)
      /\ \A i \in 1 .. Len(pipeline) : pipeline[i] = Q[i]
      /\ pipeline \in Seq(BatchOf(user))
  BY AnsweredAreQueued
<1>4. /\ DOMAIN q = 1 .. Len(Q) - 1 /\ Len(q) = Len(Q) - 1
      /\ \A i \in 1 .. Len(Q) - 1 : q[i] = Q[i + 1]
      /\ DOMAIN Tail(pipeline) = 1 .. Len(pipeline) - 1
      /\ Len(Tail(pipeline)) = Len(pipeline) - 1
      /\ \A i \in 1 .. Len(pipeline) - 1 : Tail(pipeline)[i] = pipeline[i + 1]
      /\ Head(pipeline) = pipeline[1] /\ Len(pipeline) # 0
  BY <1>1, <1>3, Removing
<1>5. /\ \A i \in DOMAIN Q : Q[i].n \in Nat \ {0}
      /\ \A i, j \in DOMAIN Q : i < j => Q[i].n < Q[j].n
  BY <1>0, Ordered
<1> HIDE DEF q, Q
<1>6. /\ \A i \in DOMAIN q : q[i].n \in Nat \ {0}
      /\ \A i, j \in DOMAIN q : i < j => q[i].n < q[j].n
  <2>1. \A i \in DOMAIN q : i + 1 \in DOMAIN Q /\ q[i] = Q[i + 1] /\ i \in Nat
    BY <1>3, <1>4
  <2>2. \A i, j \in DOMAIN q : i < j => i + 1 < j + 1
    BY <2>1
  <2> QED
    BY <2>1, <2>2, <1>5
<1>7. IsQueued(Tail(pipeline), q)
  <2>1. Len(pipeline) <= MaxPendingWrites
    BY <1>0 DEF PipelineIsQueued, IsQueued
  <2>2. \A i \in 1 .. Len(pipeline) - 1 : Tail(pipeline)[i] = q[i]
    <3>1. \A i \in 1 .. Len(pipeline) - 1 :
            i + 1 \in 1 .. Len(pipeline) /\ i \in 1 .. Len(Q) - 1
      BY <1>3
    <3> QED
      BY <3>1, <1>3, <1>4
  <2> QED
    BY <2>1, <2>2, <1>3, <1>4, BoundAssumption DEF IsQueued
<1>8. FillWritePipeline(st, q).answered = st.answered
  BY <1>1, <1>6, <1>7, FillQueues
<1>9. answered' = answered - 1
  BY <1>1, <1>2, <1>8 DEF Become
<1>10. Head(pipeline) = queues[user][1]
  BY <1>3, <1>4 DEF Q
<1> QED
  BY <1>1, <1>2, <1>9, <1>10 DEF q

LEMMA RestAnswers ==
  ASSUME SessionInvariant,
         \/ RunTask /\ Head(worker).kind \in {"user", "resume"}
         \/ OnWriteStreamClose \/ IdleTimerFires \/ BackoffElapses
  PROVE  /\ log' = log /\ queues' = queues
         /\ answered' = 0 \/ (answered' = answered /\ user' = user)
<1>0. OwnedTypes /\ PipelineIsQueued /\ QueuesAreOrdered
  BY DEF SessionInvariant, OwnershipInvariant
<1>1. /\ Streams \in StreamsWith(BatchOf(user)) /\ Streams.answered = answered
      /\ Streams.pipeline = pipeline
  BY <1>0, StreamsType
<1>2. CASE RunTask /\ Head(worker).kind = "user"
  <2> DEFINE u == Head(worker).user
             cl == [Stop(Streams) EXCEPT !.pipeline = <<>>]
             Q == queues[u]
  <2>1. /\ Become(FillWritePipeline(cl, Q))
        /\ queues' = queues /\ log' = log
    BY <1>2 DEF RunTask, HandleCredentialChange, RestartStreams
  <2>2. u \in Owner
    BY <1>0, <1>2, WorkerHead DEF Task
  <2>3. cl \in StreamsWith(BatchOf(u)) /\ cl.pipeline = <<>>
    BY <1>0, StopType
  <2>4. cl.answered = 0
    BY <1>0, StopAnswered
  <2> HIDE DEF cl, u
  <2>5. /\ Q \in Seq(BatchOf(u))
        /\ \A i \in DOMAIN Q : Q[i].n \in Nat \ {0}
        /\ \A i, j \in DOMAIN Q : i < j => Q[i].n < Q[j].n
    BY <2>2, <1>0, Ordered
  <2> HIDE DEF Q
  <2>6. IsQueued(cl.pipeline, Q)
    BY <2>3, <2>5, BoundAssumption DEF IsQueued
  <2>7. FillWritePipeline(cl, Q).answered = 0
    BY <2>3, <2>4, <2>5, <2>6, FillQueues
  <2>8. answered' = 0
    BY <2>1, <2>7 DEF Become
  <2> QED
    BY <2>1, <2>8
<1>3. CASE RunTask /\ Head(worker).kind = "resume"
  BY <1>3 DEF RunTask, ResumeStartWithCredentials, clientVars
<1>4. CASE OnWriteStreamClose
  <2> DEFINE cl == Close(Streams, "error")
             rt == IF pipeline # <<>> THEN Start(cl) ELSE cl
  <2>1. queues' = queues /\ log' = log /\ Become(rt)
    BY <1>4 DEF OnWriteStreamClose, clientVars
  <2>2. cl \in StreamsWith(BatchOf(user)) /\ cl.answered = 0
    BY <1>0, <1>1, CloseType
  <2> HIDE DEF cl
  <2>3. rt.answered = 0
    BY <2>2 DEF Start, StreamsWith
  <2> HIDE DEF rt
  <2> QED
    BY <2>1, <2>3 DEF Become
<1>5. CASE IdleTimerFires
  <2>1. Close(Streams, "initial").answered = 0
    BY <1>0, <1>1, CloseType
  <2> QED
    BY <2>1, <1>5 DEF IdleTimerFires, clientVars, Become
<1>6. CASE BackoffElapses
  <2> DEFINE cl == [Streams EXCEPT !.stream.state = "initial"]
  <2>1. queues' = queues /\ log' = log /\ user' = user /\ Become(Start(cl))
    BY <1>6 DEF BackoffElapses, clientVars
  <2>2. Start(cl).answered = answered
    BY <1>1 DEF Start, StreamsWith
  <2> HIDE DEF cl
  <2> QED
    BY <2>1, <2>2 DEF Become
<1> QED
  BY <1>2, <1>3, <1>4, <1>5, <1>6

LEMMA KillAnswers ==
  ASSUME SessionInvariant, Kill
  PROVE  answered' = 0
<1>0. OwnedTypes /\ QueuesAreOrdered
  BY DEF SessionInvariant, OwnershipInvariant
<1>1. PICK u \in {auth, NoUser} :
        Become([Fresh(u) EXCEPT
                  !.pipeline = [i \in DOMAIN @ |-> queues'[u][i]]])
  BY DEF Kill
<1>2. u \in Owner
  BY <1>0 DEF OwnedTypes, Owner
<1> DEFINE st == [pipeline |-> <<>>, answered |-> 0, requests |-> {},
                  stream |-> [state |-> "initial", as |-> NoUser, closes |-> 0]]
           q == queues[u]
           rt == Fresh(u)
<1>3. /\ st \in StreamsWith(BatchOf(u))
      /\ st.pipeline = <<>> /\ st.answered = 0
  BY DEF StreamsWith, StreamType, Owner
<1>4. rt = FillWritePipeline(st, q)
  BY DEF Fresh
<1> HIDE DEF st
<1>5. rt \in StreamsWith(BatchOf(u))
  BY <1>0, <1>2, FreshType
<1>6. /\ q \in Seq(BatchOf(u))
      /\ \A i \in DOMAIN q : q[i].n \in Nat \ {0}
      /\ \A i, j \in DOMAIN q : i < j => q[i].n < q[j].n
  BY <1>0, <1>2, Ordered
<1> HIDE DEF q
<1>7. IsQueued(st.pipeline, q)
  BY <1>3, <1>6, BoundAssumption DEF IsQueued
<1>8. rt.answered = 0
  <2> HIDE DEF rt
  <2> QED
    BY <1>3, <1>4, <1>6, <1>7, FillQueues
<1>9. Become([rt EXCEPT !.pipeline = [i \in DOMAIN @ |-> queues'[u][i]]])
  BY <1>1
<1> HIDE DEF rt
<1> QED
  BY <1>5, <1>8, <1>9 DEF Become, StreamsWith

LEMMA AnswersStay ==
  ASSUME SessionInvariant, AnswersAreCommits, Next
  PROVE  AnswersAreCommits'
<1> DEFINE Q == queues[user]
<1>0. /\ OwnedTypes /\ user \in Owner /\ DOMAIN queues = Owner
      /\ DOMAIN Q = 1 .. Len(Q) /\ Len(Q) \in Nat
      /\ answered \in Nat /\ answered <= Len(pipeline) /\ Len(pipeline) <= Len(Q)
      /\ Len(pipeline) \in Nat
      /\ \A i \in 1 .. Len(pipeline) : pipeline[i] = Q[i]
      /\ Q \in Seq(BatchOf(user)) /\ pipeline \in Seq(BatchOf(user))
      /\ log \in Seq(CommitRecord) /\ DOMAIN log = 1 .. Len(log)
  BY AnsweredAreQueued
<1>c. \A b : log' = log /\ IsCommitted(b) => IsCommitted(b)'
  BY DEF IsCommitted
<1>1. CASE User \/ Authentication \/ RunMain \/ OnWriteStreamHandshakeComplete
  <2>1. answered' = answered /\ log' = log /\ user' = user /\ queues' = queues
    <3>1. CASE User
      BY <3>1 DEF User, Type, PressButton, SendMessage, SignUserOut, clientVars
    <3>2. CASE Authentication
      BY <3>2, Zenon
      DEF Authentication, CreateAccount, CompleteSignIn, ReadToken,
          DispatchToken, clientVars
    <3>3. CASE RunMain \/ OnWriteStreamHandshakeComplete
      BY <3>3 DEF RunMain, OnWriteStreamHandshakeComplete, clientVars
    <3> QED
      BY <3>1, <3>2, <3>3, <1>1
  <2> QED
    BY <2>1, <1>0, SameAnswers
<1>2. CASE RunTask /\ Head(worker).kind = "write"
  <2>1. PICK b \in BatchOf(user) :
          queues' = [queues EXCEPT ![user] = Append(Q, b)]
    BY <1>2, WriteAnswers
  <2>2. answered' = answered /\ user' = user /\ log' = log
    BY <1>2, WriteAnswers
  <2>3. \A i \in 1 .. Len(Q) : Append(Q, b)[i] = Q[i]
    BY <1>0, Appending
  <2>4. queues'[user'] = Append(Q, b)
    BY <2>1, <2>2, <1>0
  <2>5. \A i \in 1 .. answered : i \in 1 .. Len(Q)
    BY <1>0
  <2>6. ASSUME NEW i \in 1 .. answered' PROVE IsCommitted(queues[user][i])'
    <3>1. i \in 1 .. answered /\ queues'[user'][i] = Q[i]
      BY <2>2, <2>3, <2>4, <2>5
    <3> QED
      BY <3>1, <2>2 DEF AnswersAreCommits, IsCommitted
  <2> QED
    BY <2>6 DEF AnswersAreCommits
<1>3. CASE OnWriteStreamMutationResult
  <2>1. /\ Q # <<>> /\ queues' = [queues EXCEPT ![user] = Tail(Q)]
        /\ answered' = answered - 1 /\ user' = user /\ log' = log
    BY <1>3, AnswerAnswers
  <2>2. \A i \in 1 .. Len(Q) - 1 : Tail(Q)[i] = Q[i + 1]
    BY <2>1, <1>0, Removing
  <2>3. queues'[user'] = Tail(Q)
    BY <2>1, <1>0
  <2>4. ASSUME NEW i \in 1 .. answered' PROVE IsCommitted(queues[user][i])'
    <3>1. i + 1 \in 1 .. answered /\ i \in 1 .. Len(Q) - 1
      BY <2>1, <1>0
    <3>2. queues'[user'][i] = Q[i + 1]
      BY <3>1, <2>2, <2>3
    <3> QED
      BY <3>1, <3>2, <2>1 DEF AnswersAreCommits, IsCommitted
  <2> QED
    BY <2>4 DEF AnswersAreCommits
<1>4. CASE Commit
  <2> DEFINE p == pipeline[answered + 1]
             c == [owner |-> p.owner, n |-> p.n, by |-> p.by,
                   kind |-> p.kind, key |-> p.key, as |-> stream.as]
  <2>1. /\ answered < Len(pipeline) /\ log' = Append(log, c)
        /\ answered' = answered + 1 /\ queues' = queues /\ user' = user
    BY <1>4 DEF Commit, clientVars
  <2>2. answered + 1 \in 1 .. Len(pipeline)
    BY <2>1, <1>0
  <2>3. p \in Batch /\ p = Q[answered + 1]
    BY <2>2, <1>0 DEF BatchOf
  <2>4. c \in CommitRecord
    <3>1. stream.as \in Owner
      BY <1>0 DEF OwnedTypes, StreamType
    <3> QED
      BY <3>1, <2>3 DEF Batch, CommitRecord
  <2>5. c.owner = p.owner /\ c.n = p.n /\ c.kind = p.kind /\ c.key = p.key
    OBVIOUS
  <2> HIDE DEF c
  <2>6. /\ DOMAIN log' = 1 .. Len(log) + 1 /\ Len(log) \in Nat
        /\ log'[Len(log) + 1] = c
        /\ \A i \in 1 .. Len(log) : log'[i] = log[i]
    BY <2>1, <2>4, <1>0, Appending
  <2> HIDE DEF p
  <2>7. \A b : IsCommitted(b) => IsCommitted(b)'
    BY <2>6, <1>0 DEF IsCommitted
  <2>8. ASSUME NEW i \in 1 .. answered' PROVE IsCommitted(queues[user][i])'
    <3>1. CASE i = answered + 1
      BY <3>1, <2>1, <2>3, <2>5, <2>6 DEF IsCommitted
    <3>2. CASE i \in 1 .. answered
      <4>1. IsCommitted(Q[i])
        BY <3>2 DEF AnswersAreCommits
      <4> QED
        BY <4>1, <2>1, <2>7 DEF IsCommitted
    <3> QED
      BY <3>1, <3>2, <2>1, <1>0
  <2> QED
    BY <2>8 DEF AnswersAreCommits
<1>5. CASE \/ RunTask /\ Head(worker).kind \in {"user", "resume"}
           \/ OnWriteStreamClose \/ IdleTimerFires \/ BackoffElapses
  <2>1. /\ log' = log /\ queues' = queues
        /\ answered' = 0 \/ (answered' = answered /\ user' = user)
    BY <1>5, RestAnswers
  <2> QED
    BY <2>1, <1>0, NoAnswers, SameAnswers
<1>6. CASE Kill
  BY <1>6, KillAnswers, NoAnswers
<1>7. RunTask => Head(worker).kind \in {"write", "user", "resume"}
  BY <1>0, WorkerHead DEF Task
<1> QED
  BY <1>1, <1>2, <1>3, <1>4, <1>5, <1>6, <1>7 DEF Next, Background

-----------------------------------------------------------------------------
(***************************************************************************)
(* Where the profile of an account is until it is in the log, as long as   *)
(* the app is not killed and nobody types in a hurry.                      *)
(***************************************************************************)
IsProfile(w, a) == w.kind = "profile" /\ w.key = <<"users", a>>

Registering(at, a) == at.how = "createUser" /\ at.made /\ at.email = a

IsAttempted(a) == \E at \in attempts : Registering(at, a)

IsOnMain(a) ==
  \E i \in DOMAIN main : IsSignIn(main[i]) /\ Registering(main[i].attempt, a)

IsTask(a) ==
  \E i \in DOMAIN worker :
    worker[i].kind = "write" /\ IsProfile(worker[i].write, a)

IsStored(a) ==
  \E u \in Owner : \E i \in DOMAIN queues[u] : IsProfile(queues[u][i], a)

IsSent(a) == \E i \in DOMAIN log : IsProfile(log[i], a)

ProfileIsComing(a) ==
  IsAttempted(a) \/ IsOnMain(a) \/ IsTask(a) \/ IsStored(a) \/ IsSent(a)

AccountsAreMade ==
  /\ accounts \subseteq Account
  /\ \A at \in attempts :
       at.email \in Account /\ (at.made => at.email \in accounts)

ProfilesAreComing ==
  faults["kill"] = 0 /\ faults["hurry"] = 0 =>
    \A a \in accounts \ InitialAccounts : ProfileIsComing(a)

ProfileInvariant == AnswersAreCommits /\ AccountsAreMade /\ ProfilesAreComing

LEMMA AccountsStay ==
  ASSUME OwnedTypes, AccountsAreMade, Next
  PROVE  AccountsAreMade'
<1>1. CASE accounts' = accounts /\ attempts' \subseteq attempts
  BY <1>1 DEF AccountsAreMade
<1>2. ASSUME NEW how \in {"createUser", "signIn"}, PressButton(how)
      PROVE  AccountsAreMade'
  <2> DEFINE at == [how |-> how, email |-> field, made |-> FALSE]
  <2>1. /\ accounts' = accounts /\ attempts' = attempts \cup {at}
        /\ field # NoUser
    BY <1>2 DEF PressButton, authVars
  <2>2. field \in Account
    BY <2>1 DEF OwnedTypes, Owner
  <2>3. at.email = field /\ ~at.made
    OBVIOUS
  <2> HIDE DEF at
  <2> QED
    BY <2>1, <2>2, <2>3 DEF AccountsAreMade
<1>3. ASSUME NEW a \in attempts, CreateAccount(a) PROVE AccountsAreMade'
  <2> DEFINE at == [a EXCEPT !.made = TRUE]
  <2>1. CASE accounts' = accounts /\ attempts' = attempts \ {a}
    BY <2>1 DEF AccountsAreMade
  <2>2. CASE /\ attempts' = (attempts \ {a}) \cup {at}
             /\ accounts' = accounts \cup {a.email}
    <3>1. at.email = a.email /\ a.email \in Account
      BY DEF OwnedTypes, Attempt, AccountsAreMade
    <3> HIDE DEF at
    <3> QED
      BY <2>2, <3>1 DEF AccountsAreMade
  <2> QED
    BY <2>1, <2>2, <1>3 DEF CreateAccount
<1>4. ASSUME NEW u, Type(u) PROVE AccountsAreMade'
  BY <1>1, <1>4 DEF Type, authVars
<1>5. CASE SendMessage \/ SignUserOut
  BY <1>1, <1>5 DEF SendMessage, SignUserOut, authVars, appVars
<1>6. ASSUME NEW a \in attempts, CompleteSignIn(a) PROVE AccountsAreMade'
  BY <1>1, <1>6 DEF CompleteSignIn
<1>7. ASSUME NEW r \in requests, ReadToken(r) \/ DispatchToken(r)
      PROVE  AccountsAreMade'
  BY <1>1, <1>7 DEF ReadToken, DispatchToken, authVars, appVars
<1>8. CASE RunTask \/ RunMain \/ OnWriteStreamHandshakeComplete \/ Commit
  BY <1>1, <1>8
  DEF RunTask, RunMain, OnWriteStreamHandshakeComplete, Commit, authVars, appVars
<1>9. CASE \/ OnWriteStreamMutationResult \/ BackoffElapses
           \/ OnWriteStreamClose \/ IdleTimerFires \/ Kill
  BY <1>1, <1>9
  DEF OnWriteStreamMutationResult, BackoffElapses, OnWriteStreamClose,
      IdleTimerFires, Kill, authVars, appVars
<1>10. User => AccountsAreMade'
  BY <1>2, <1>4, <1>5 DEF User
<1>11. Authentication => AccountsAreMade'
  BY <1>3, <1>6, <1>7 DEF Authentication
<1>12. Background => AccountsAreMade'
  BY <1>8, <1>9 DEF Background
<1> QED
  BY <1>9, <1>10, <1>11, <1>12 DEF Next

LEMMA AttemptStays ==
  ASSUME NEW a, IsAttempted(a), attempts \subseteq attempts'
  PROVE  IsAttempted(a)'
BY DEF IsAttempted, Registering

LEMMA StartIsKept ==
  ASSUME NEW S, NEW s \in Seq(S), NEW t,
         t = s \/ \E x \in S : t = Append(s, x)
  PROVE  \A i \in DOMAIN s : i \in DOMAIN t /\ t[i] = s[i]
<1>1. CASE t = s
  BY <1>1
<1>2. CASE \E x \in S : t = Append(s, x)
  <2>1. PICK x \in S : t = Append(s, x)
    BY <1>2
  <2> DEFINE r == Append(s, x)
  <2>2. /\ DOMAIN s = 1 .. Len(s) /\ Len(s) \in Nat
        /\ DOMAIN r = 1 .. Len(s) + 1
        /\ \A i \in 1 .. Len(s) : r[i] = s[i]
    BY Appending
  <2>3. t = r
    BY <2>1
  <2> HIDE DEF r
  <2> QED
    BY <2>2, <2>3
<1> QED
  BY <1>1, <1>2

MainIsKept == \A i \in DOMAIN main : i \in DOMAIN main' /\ main'[i] = main[i]

WorkerIsKept ==
  \A i \in DOMAIN worker : i \in DOMAIN worker' /\ worker'[i] = worker[i]

LEMMA MainIsLonger ==
  ASSUME OwnedTypes, main' = main \/ \E x \in Block : main' = Append(main, x)
  PROVE  MainIsKept
BY MainTypes, StartIsKept DEF MainIsKept

LEMMA WorkerIsLonger ==
  ASSUME OwnedTypes,
         worker' = worker \/ \E t \in Task : worker' = Append(worker, t)
  PROVE  WorkerIsKept
BY WorkerTypes, StartIsKept DEF WorkerIsKept

LEMMA BlockStays ==
  ASSUME NEW a, IsOnMain(a), MainIsKept
  PROVE  IsOnMain(a)'
BY DEF IsOnMain, Registering, IsSignIn, MainIsKept

LEMMA TaskStays ==
  ASSUME NEW a, IsTask(a), WorkerIsKept
  PROVE  IsTask(a)'
BY DEF IsTask, IsProfile, WorkerIsKept

LEMMA StoredStays ==
  ASSUME NEW a, IsStored(a), queues' = queues
  PROVE  IsStored(a)'
BY DEF IsStored, IsProfile

LEMMA SentStays ==
  ASSUME NEW a, IsSent(a), log' = log
  PROVE  IsSent(a)'
BY DEF IsSent, IsProfile

LEMMA ComingStays ==
  ASSUME NEW a, ProfileIsComing(a), attempts \subseteq attempts',
         MainIsKept, WorkerIsKept, queues' = queues, log' = log
  PROVE  ProfileIsComing(a)'
<1>1. CASE IsAttempted(a)
  BY <1>1, AttemptStays DEF ProfileIsComing
<1>2. CASE IsOnMain(a)
  BY <1>2, BlockStays DEF ProfileIsComing
<1>3. CASE IsTask(a)
  BY <1>3, TaskStays DEF ProfileIsComing
<1>4. CASE IsStored(a)
  BY <1>4, StoredStays DEF ProfileIsComing
<1>5. CASE IsSent(a)
  BY <1>5, SentStays DEF ProfileIsComing
<1> QED
  BY <1>1, <1>2, <1>3, <1>4, <1>5 DEF ProfileIsComing

LEMMA AccountIsComing ==
  ASSUME OwnedTypes, NEW a \in Account, ProfileIsComing(a) \/ a \notin accounts,
         NEW at \in attempts, CreateAccount(at), a \in accounts'
  PROVE  ProfileIsComing(a)'
<1> DEFINE x == [at EXCEPT !.made = TRUE]
<1>1. /\ main' = main /\ worker' = worker /\ queues' = queues /\ log' = log
      /\ at.how = "createUser" /\ ~at.made
      /\ \/ attempts' = attempts \ {at} /\ accounts' = accounts
         \/ /\ attempts' = (attempts \ {at}) \cup {x}
            /\ accounts' = accounts \cup {at.email}
  BY DEF CreateAccount, clientVars
<1>2. x.how = at.how /\ x.made /\ x.email = at.email
  BY DEF OwnedTypes, Attempt
<1> HIDE DEF x
<1>3. CASE a = at.email /\ a \notin accounts
  BY <1>1, <1>2, <1>3 DEF ProfileIsComing, IsAttempted, Registering
<1>4. CASE ProfileIsComing(a)
  <2>1. IsAttempted(a) => IsAttempted(a)'
    BY <1>1 DEF IsAttempted, Registering
  <2>2. MainIsKept /\ WorkerIsKept
    BY <1>1 DEF MainIsKept, WorkerIsKept
  <2> QED
    BY <2>1, <2>2, <1>1, <1>4, BlockStays, TaskStays, StoredStays, SentStays
    DEF ProfileIsComing
<1> QED
  BY <1>1, <1>3, <1>4

LEMMA SignedInIsComing ==
  ASSUME OwnedTypes, AccountsAreMade, NEW a, ProfileIsComing(a),
         NEW at \in attempts, CompleteSignIn(at)
  PROVE  ProfileIsComing(a)'
<1> DEFINE block == [kind |-> "signedIn", attempt |-> at]
<1>1. /\ worker' = worker /\ queues' = queues /\ log' = log
      /\ attempts' = attempts \ {at}
  BY DEF CompleteSignIn, clientVars
<1>2. WorkerIsKept
  BY <1>1 DEF WorkerIsKept
<1>3. CASE UpdateCurrentUser(at.email, <<block>>)
  <2>1. at \in Attempt /\ at.email \in Owner
    BY DEF OwnedTypes, Attempt
  <2>2. <<block>> # <<>> /\ <<block>>[1] = block
    OBVIOUS
  <2>3. /\ MainIsKept
        /\ Len(main) + 2 \in DOMAIN main' /\ main'[Len(main) + 2] = block
    BY <2>1, <2>2, <1>3, UserIsTold DEF MainIsKept
  <2>4. IsSignIn(block) /\ block.attempt = at
    BY DEF IsSignIn
  <2> HIDE DEF block
  <2>5. IsAttempted(a) => IsAttempted(a)' \/ IsOnMain(a)'
    BY <2>3, <2>4, <1>1 DEF IsAttempted, IsOnMain, Registering, IsSignIn
  <2> QED
    BY <2>3, <2>5, <1>1, <1>2, BlockStays, TaskStays, StoredStays, SentStays
    DEF ProfileIsComing
<1>4. CASE ~(at.email \in accounts) /\ main' = main
  <2>1. ~at.made
    BY <1>4 DEF AccountsAreMade
  <2>2. IsAttempted(a) => IsAttempted(a)'
    BY <2>1, <1>1 DEF IsAttempted, Registering
  <2>3. MainIsKept
    BY <1>4 DEF MainIsKept
  <2> QED
    BY <2>2, <2>3, <1>1, <1>2, BlockStays, TaskStays, StoredStays, SentStays
    DEF ProfileIsComing
<1> QED
  BY <1>3, <1>4 DEF CompleteSignIn

IsHandler(block) == block.kind = "handler"

IsMessage(w) == w.kind = "message"

(* What a block writes, if anything, is the profile or a chatLastActive.   *)
MakesWrite(t) ==
  /\ t.kind = "write" /\ t.write.n = made.writes + 1 /\ ~IsMessage(t.write)
  /\ made' = [made EXCEPT !.writes = @ + 1]
  /\ \/ IsSignIn(Head(main))
     \/ IsHandler(Head(main)) /\ IsMessage(Head(main).batch)

LEMMA BlocksEnqueue ==
  ASSUME OwnedTypes, RunMain
  PROVE  \/ worker' = worker /\ made' = made
         \/ \E t \in Task : /\ worker' = Append(worker, t)
                            /\ (t.kind # "write" /\ made' = made) \/ MakesWrite(t)
<1>1. Head(main) \in Block
  BY MainHead
<1>2. CASE Head(main).kind = "changed"
  <2> DEFINE t == [kind |-> "user", user |-> Head(main).user]
  <2>1. worker' = Append(worker, t) /\ made' = made
    BY <1>2 DEF RunMain, HearChange, Enqueue
  <2>2. t \in Task /\ t.kind # "write"
    BY <1>1, <1>2 DEF Block, Task
  <2> HIDE DEF t
  <2> QED
    BY <2>1, <2>2
<1>3. CASE Head(main).kind = "token"
  <2> DEFINE r == Head(main).request
             t == [kind |-> "resume", who |-> r.who, closes |-> r.closes]
  <2>1. made' = made /\ (worker' = worker \/ worker' = Append(worker, t))
    BY <1>3 DEF RunMain, HearToken, Enqueue
  <2>2. r \in Token
    BY <1>1, <1>3 DEF Block
  <2>3. t \in Task /\ t.kind # "write"
    BY <2>2 DEF Token, Task
  <2> HIDE DEF t
  <2> QED
    BY <2>1, <2>3
<1>4. CASE Head(main).kind = "signedIn"
  <2> DEFINE t == [kind |-> "write",
                   write |-> [n |-> made.writes + 1,
                              by |-> Head(main).attempt.email,
                              kind |-> "profile", key |-> <<"users", field>>]]
  <2>1. \/ worker' = worker /\ made' = made
        \/ /\ worker' = Append(worker, t)
           /\ made' = [made EXCEPT !.writes = @ + 1]
    BY <1>4 DEF RunMain, SignedIn, Write, Enqueue
  <2>2. t \in Task
    <3>1. Head(main).attempt \in Attempt
      BY <1>1, <1>4 DEF Block
    <3>2. made.writes + 1 \in Nat /\ field \in Owner
      BY MadeGrows DEF OwnedTypes
    <3> QED
      BY <3>1, <3>2 DEF Attempt, Task, WriteRecord, DocumentKey
  <2>3. /\ t.kind = "write" /\ t.write.n = made.writes + 1
        /\ ~IsMessage(t.write) /\ IsSignIn(Head(main))
    BY <1>4 DEF IsMessage, IsSignIn
  <2> HIDE DEF t
  <2> QED
    BY <2>1, <2>2, <2>3 DEF MakesWrite
<1>5. CASE Head(main).kind = "handler"
  <2> DEFINE t == [kind |-> "write",
                   write |-> [n |-> made.writes + 1,
                              by |-> Head(main).batch.by,
                              kind |-> "active", key |-> <<"chats">>]]
  <2>1. \/ worker' = worker /\ made' = made
        \/ /\ worker' = Append(worker, t) /\ IsMessage(Head(main).batch)
           /\ made' = [made EXCEPT !.writes = @ + 1]
    BY <1>5 DEF RunMain, RunHandler, Write, Enqueue, IsMessage
  <2>2. t \in Task
    <3>1. Head(main).batch \in Batch
      BY <1>1, <1>5 DEF Block
    <3>2. made.writes + 1 \in Nat
      BY MadeGrows
    <3> QED
      BY <3>1, <3>2 DEF Batch, Task, WriteRecord, DocumentKey
  <2>3. /\ t.kind = "write" /\ t.write.n = made.writes + 1
        /\ ~IsMessage(t.write) /\ IsHandler(Head(main))
    BY <1>5 DEF IsMessage, IsHandler
  <2> HIDE DEF t
  <2> QED
    BY <2>1, <2>2, <2>3 DEF MakesWrite
<1> QED
  BY <1>1, <1>2, <1>3, <1>4, <1>5 DEF Block

LEMMA BlockIsComing ==
  ASSUME SessionInvariant, OneSignIn, NEW a, ProfileIsComing(a), RunMain
  PROVE  ProfileIsComing(a)'
<1>0. OwnedTypes
  BY DEF SessionInvariant, OwnershipInvariant
<1>1. /\ Head(main) \in Block /\ main # <<>> /\ main' = Tail(main)
      /\ queues' = queues /\ log' = log /\ attempts' = attempts
  BY <1>0, MainHead DEF RunMain, clientVars
<1>2. /\ DOMAIN main = 1 .. Len(main) /\ Len(main) \in Nat \ {0}
      /\ DOMAIN main' = 1 .. Len(main) - 1
      /\ Head(main) = main[1]
      /\ \A i \in 1 .. Len(main) - 1 : main'[i] = main[i + 1]
  BY <1>0, <1>1, MainTypes, Removing
<1>3. worker' = worker \/ \E t \in Task : worker' = Append(worker, t)
  BY <1>0, BlocksEnqueue
<1>4. WorkerIsKept
  BY <1>0, <1>3, WorkerIsLonger
<1>5. ASSUME IsOnMain(a) PROVE IsOnMain(a)' \/ IsTask(a)'
  <2>1. PICK i \in DOMAIN main : IsSignIn(main[i]) /\ Registering(main[i].attempt, a)
    BY <1>5 DEF IsOnMain
  <2>2. CASE i = 1
    <3> DEFINE t == [kind |-> "write",
                     write |-> [n |-> made.writes + 1,
                                by |-> main[1].attempt.email,
                                kind |-> "profile", key |-> <<"users", field>>]]
    <3>1. /\ Head(main).kind = "signedIn"
          /\ main[1].attempt.how = "createUser" /\ main[1].attempt.email = a
      BY <2>1, <2>2, <1>2 DEF IsSignIn, Registering
    <3>2. a = field
      BY <2>1, <2>2, <3>1 DEF OneSignIn
    <3>3. worker' = Append(worker, t)
      BY <3>1, <1>2 DEF RunMain, SignedIn, Write, Enqueue
    <3>4. t.kind = "write" /\ IsProfile(t.write, a)
      BY <3>2 DEF IsProfile
    <3> HIDE DEF t
    <3>5. t \in Task
      <4>1. main[1].attempt \in Attempt
        BY <1>1, <1>2, <3>1 DEF Block
      <4>2. made.writes + 1 \in Nat /\ field \in Owner /\ a \in Owner
        BY <4>1, <3>1, <1>0, MadeGrows DEF Attempt, OwnedTypes
      <4> QED
        BY <4>2, <3>1 DEF t, Task, WriteRecord, DocumentKey
    <3>6. DOMAIN worker' = 1 .. Len(worker) + 1 /\ worker'[Len(worker) + 1] = t
          /\ Len(worker) \in Nat
      BY <3>3, <3>5, <1>0, WorkerTypes, Appending
    <3> QED
      BY <3>4, <3>6 DEF IsTask, IsProfile
  <2>3. CASE i # 1
    <3>1. PICK j \in 1 .. Len(main) - 1 : i = j + 1
      <4>1. i - 1 \in 1 .. Len(main) - 1 /\ i = (i - 1) + 1
        BY <2>3, <1>2
      <4> QED
        BY <4>1
    <3> QED
      BY <3>1, <2>1, <1>2 DEF IsOnMain, IsSignIn, Registering
  <2> QED
    BY <2>2, <2>3
<1>6. IsAttempted(a) => IsAttempted(a)'
  BY <1>1 DEF IsAttempted, Registering
<1> QED
  BY <1>1, <1>4, <1>5, <1>6, TaskStays, StoredStays, SentStays
  DEF ProfileIsComing

LEMMA TaskIsComing ==
  ASSUME SessionInvariant, NEW a, ProfileIsComing(a), RunTask
  PROVE  ProfileIsComing(a)'
<1>0. OwnedTypes /\ user \in Owner /\ DOMAIN queues = Owner
  BY DEF SessionInvariant, OwnershipInvariant, OwnedTypes
<1>1. /\ Head(worker) \in Task /\ worker # <<>> /\ worker' = Tail(worker)
      /\ 1 \in DOMAIN worker /\ Head(worker) = worker[1]
      /\ main' = main /\ log' = log /\ attempts' = attempts
  BY <1>0, WorkerHead DEF RunTask, appVars
<1>2. /\ DOMAIN worker = 1 .. Len(worker) /\ Len(worker) \in Nat \ {0}
      /\ DOMAIN worker' = 1 .. Len(worker) - 1
      /\ \A i \in 1 .. Len(worker) - 1 : worker'[i] = worker[i + 1]
  BY <1>0, <1>1, WorkerTypes, Removing
<1>3. MainIsKept /\ (IsAttempted(a) => IsAttempted(a)')
  BY <1>1 DEF MainIsKept, IsAttempted, Registering
<1>4. ASSUME IsTask(a), ~(Head(worker).kind = "write" /\ IsProfile(Head(worker).write, a))
      PROVE  IsTask(a)'
  <2>1. PICK i \in DOMAIN worker :
          worker[i].kind = "write" /\ IsProfile(worker[i].write, a)
    BY <1>4 DEF IsTask
  <2>2. i # 1
    BY <2>1, <1>1, <1>4
  <2>3. PICK j \in 1 .. Len(worker) - 1 : i = j + 1
    <3>1. i - 1 \in 1 .. Len(worker) - 1 /\ i = (i - 1) + 1
      BY <2>2, <1>2
    <3> QED
      BY <3>1
  <2> QED
    BY <2>1, <2>3, <1>2 DEF IsTask, IsProfile
<1>5. CASE Head(worker).kind # "write"
  <2>1. queues' = queues
    BY <1>1, <1>5 DEF RunTask, Task, HandleCredentialChange,
                      ResumeStartWithCredentials, clientVars
  <2> QED
    BY <2>1, <1>1, <1>3, <1>4, <1>5, BlockStays, StoredStays, SentStays
    DEF ProfileIsComing
<1>6. CASE Head(worker).kind = "write"
  <2> DEFINE w == Head(worker).write
             b == [n |-> w.n, by |-> w.by, kind |-> w.kind, key |-> w.key,
                   owner |-> user, live |-> TRUE]
             Q == queues[user]
             q == Append(Q, b)
  <2>1. b \in BatchOf(user) /\ queues' = [queues EXCEPT ![user] = q]
    BY <1>6, WriteAnswers
  <2>2. IsProfile(w, a) => IsProfile(b, a)
    BY DEF IsProfile
  <2> HIDE DEF b
  <2>3. Q \in Seq(BatchOf(user))
    BY <1>0, WorkerTypes
  <2>4. /\ DOMAIN Q = 1 .. Len(Q) /\ Len(Q) \in Nat
        /\ DOMAIN q = 1 .. Len(Q) + 1
        /\ q[Len(Q) + 1] = b
        /\ \A i \in 1 .. Len(Q) : q[i] = Q[i]
    BY <2>1, <2>3, Appending
  <2> HIDE DEF q, Q, w
  <2>5. /\ queues'[user] = q /\ queues[user] = Q
        /\ \A u \in Owner : u # user => queues'[u] = queues[u]
    BY <2>1, <1>0 DEF Q
  <2>6. IsProfile(w, a) => IsStored(a)'
    BY <2>2, <2>4, <2>5, <1>0 DEF IsStored, IsProfile
  <2>7. ASSUME IsStored(a) PROVE IsStored(a)'
    <3>1. PICK u \in Owner : \E i \in DOMAIN queues[u] : IsProfile(queues[u][i], a)
      BY <2>7 DEF IsStored
    <3>2. \A i \in DOMAIN queues[u] :
            i \in DOMAIN queues'[u] /\ queues'[u][i] = queues[u][i]
      BY <2>4, <2>5
    <3> QED
      BY <3>1, <3>2 DEF IsStored, IsProfile
  <2>8. IsTask(a) => IsTask(a)' \/ IsStored(a)'
    BY <2>6, <1>4 DEF w
  <2> QED
    BY <2>7, <2>8, <1>1, <1>3, BlockStays, SentStays DEF ProfileIsComing
<1> QED
  BY <1>5, <1>6

LEMMA AnswerIsComing ==
  ASSUME SessionInvariant, AnswersAreCommits, NEW a, ProfileIsComing(a),
         OnWriteStreamMutationResult
  PROVE  ProfileIsComing(a)'
<1> DEFINE Q == queues[user]
<1>0. /\ OwnedTypes /\ user \in Owner /\ DOMAIN queues = Owner
      /\ Q \in Seq(BatchOf(user)) /\ DOMAIN Q = 1 .. Len(Q) /\ Len(Q) \in Nat
      /\ answered \in Nat /\ pipeline \in Seq(BatchOf(user))
  BY AnsweredAreQueued
<1>1. /\ Q # <<>> /\ pipeline # <<>> /\ Head(pipeline) = Q[1]
      /\ queues' = [queues EXCEPT ![user] = Tail(Q)]
      /\ answered > 0 /\ log' = log
  BY AnswerAnswers
<1>2. /\ attempts' = attempts /\ worker' = worker
      /\ \/ main' = main
         \/ main' = Append(main, [kind |-> "handler", batch |-> Head(pipeline)])
  BY DEF OnWriteStreamMutationResult, appVars
<1>3. WorkerIsKept /\ (IsAttempted(a) => IsAttempted(a)')
  BY <1>2 DEF WorkerIsKept, IsAttempted, Registering
<1>4. MainIsKept
  <2>1. Head(pipeline) \in BatchOf(user)
    BY <1>0, <1>1, Removing
  <2>2. [kind |-> "handler", batch |-> Head(pipeline)] \in Block
    BY <2>1 DEF BatchOf, Block
  <2> QED
    BY <2>2, <1>0, <1>2, MainIsLonger
<1>5. /\ DOMAIN Tail(Q) = 1 .. Len(Q) - 1
      /\ \A i \in 1 .. Len(Q) - 1 : Tail(Q)[i] = Q[i + 1]
  BY <1>0, <1>1, Removing
<1>6. IsCommitted(Q[1])
  BY <1>0, <1>1 DEF AnswersAreCommits
<1> DEFINE q == Tail(Q)
<1>7. queues'[user] = q /\ \A u \in Owner : u # user => queues'[u] = queues[u]
  BY <1>0, <1>1
<1> HIDE DEF q
<1>8. ASSUME IsStored(a) PROVE IsStored(a)' \/ IsSent(a)'
  <2>a. PICK u \in Owner : \E i \in DOMAIN queues[u] : IsProfile(queues[u][i], a)
    BY <1>8 DEF IsStored
  <2>1. PICK i \in DOMAIN queues[u] : IsProfile(queues[u][i], a)
    BY <2>a
  <2>2. CASE u # user
    BY <2>1, <2>2, <1>7 DEF IsStored, IsProfile
  <2>3. CASE u = user /\ i = 1
    BY <2>1, <2>3, <1>1, <1>6 DEF IsSent, IsCommitted, IsProfile
  <2>4. CASE u = user /\ i # 1
    <3>1. PICK j \in 1 .. Len(Q) - 1 : i = j + 1
      <4>1. i - 1 \in 1 .. Len(Q) - 1 /\ i = (i - 1) + 1
        BY <2>1, <2>4, <1>0
      <4> QED
        BY <4>1
    <3>2. j \in DOMAIN queues'[user] /\ queues'[user][j] = queues[user][i]
      BY <3>1, <1>5, <1>7 DEF q
    <3> QED
      BY <3>2, <2>1, <2>4 DEF IsStored, IsProfile
  <2> QED
    BY <2>2, <2>3, <2>4
<1> HIDE DEF Q
<1> QED
  BY <1>1, <1>3, <1>4, <1>8, BlockStays, TaskStays, SentStays
  DEF ProfileIsComing

LEMMA CommitIsComing ==
  ASSUME SessionInvariant, NEW a, ProfileIsComing(a), Commit
  PROVE  ProfileIsComing(a)'
<1> DEFINE p == pipeline[answered + 1]
           c == [owner |-> p.owner, n |-> p.n, by |-> p.by,
                 kind |-> p.kind, key |-> p.key, as |-> stream.as]
<1>1. /\ log' = Append(log, c) /\ main' = main /\ worker' = worker
      /\ queues' = queues /\ attempts' = attempts
  BY DEF Commit, clientVars, appVars
<1>2. \A i \in DOMAIN log : i \in DOMAIN log' /\ log'[i] = log[i]
  <2>1. log' \in Seq(CommitRecord)
    BY CommitKeepsQueues DEF SessionInvariant, OwnershipInvariant, OwnedTypes
  <2>2. log \in Seq(CommitRecord) /\ Len(log) \in Nat /\ DOMAIN log = 1 .. Len(log)
    BY AnsweredAreQueued
  <2> HIDE DEF c
  <2> QED
    BY <1>1, <2>2
<1>3. IsSent(a) => IsSent(a)'
  BY <1>2 DEF IsSent, IsProfile
<1>4. MainIsKept /\ WorkerIsKept
  BY <1>1 DEF MainIsKept, WorkerIsKept
<1>5. IsAttempted(a) => IsAttempted(a)'
  BY <1>1 DEF IsAttempted, Registering
<1> QED
  BY <1>1, <1>3, <1>4, <1>5, BlockStays, TaskStays, StoredStays DEF ProfileIsComing

LEMMA ProfileStays ==
  ASSUME SessionInvariant, UnhurriedInvariant, AnswersAreCommits, AccountsAreMade,
         Next, faults["kill"] = 0 => faults'["kill"] = 0,
         faults["hurry"] = 0, NEW a \in Account,
         ProfileIsComing(a) \/ a \notin accounts, a \in accounts', ~Kill
  PROVE  ProfileIsComing(a)'
<1>0. OwnedTypes /\ OneSignIn
  BY DEF SessionInvariant, OwnershipInvariant, UnhurriedInvariant
<1>1. ASSUME NEW at \in attempts, CreateAccount(at)
      PROVE  ProfileIsComing(a)'
  BY <1>0, <1>1, AccountIsComing
<1>2. ASSUME accounts' = accounts PROVE ProfileIsComing(a)
  BY <1>2
<1>3. ASSUME accounts' = accounts, attempts \subseteq attempts',
             main' = main, worker' = worker, queues' = queues, log' = log
      PROVE  ProfileIsComing(a)'
  BY <1>2, <1>3, ComingStays DEF MainIsKept, WorkerIsKept
<1>4. ASSUME NEW u, Type(u) PROVE ProfileIsComing(a)'
  BY <1>3, <1>4 DEF Type, authVars, clientVars
<1>5. ASSUME NEW how, PressButton(how) PROVE ProfileIsComing(a)'
  BY <1>3, <1>5 DEF PressButton, authVars, clientVars
<1>6. CASE SendMessage
  <2> DEFINE t == [kind |-> "write",
                   write |-> [n |-> made.writes + 1, by |-> auth,
                              kind |-> "message",
                              key |-> <<"messages", made.messages + 1>>]]
  <2>1. /\ accounts' = accounts /\ attempts' = attempts /\ main' = main
        /\ queues' = queues /\ log' = log /\ worker' = Append(worker, t)
    BY <1>6 DEF SendMessage, authVars, appVars, clientVars, Enqueue
  <2>2. t \in Task
    <3>1. made.writes + 1 \in Nat /\ made.messages + 1 \in Nat /\ auth \in Owner
      BY <1>0, MadeGrows DEF OwnedTypes
    <3> QED
      BY <3>1 DEF Task, WriteRecord, DocumentKey
  <2> HIDE DEF t
  <2>3. WorkerIsKept
    BY <2>1, <2>2, <1>0, WorkerIsLonger
  <2> QED
    BY <2>1, <2>3, <1>2, ComingStays DEF MainIsKept
<1>7. CASE SignUserOut
  <2>1. /\ accounts' = accounts /\ attempts' = attempts /\ worker' = worker
        /\ queues' = queues /\ log' = log
    BY <1>7 DEF SignUserOut, clientVars
  <2>2. MainIsKept
    <3>1. NoUser \in Owner
      BY DEF Owner
    <3>2. CASE UpdateCurrentUser(NoUser, <<>>)
      BY <3>1, <3>2, <1>0, UserIsTold DEF MainIsKept
    <3>3. CASE main' = main
      BY <3>3 DEF MainIsKept
    <3> QED
      BY <3>2, <3>3, <1>7 DEF SignUserOut
  <2> QED
    BY <2>1, <2>2, <1>2, ComingStays DEF WorkerIsKept
<1>8. ASSUME NEW at \in attempts, CompleteSignIn(at) PROVE ProfileIsComing(a)'
  BY <1>0, <1>2, <1>8, SignedInIsComing DEF CompleteSignIn
<1>9. ASSUME NEW r \in requests, ReadToken(r) \/ DispatchToken(r)
      PROVE  ProfileIsComing(a)'
  <2>1. /\ accounts' = accounts /\ attempts' = attempts /\ worker' = worker
        /\ queues' = queues /\ log' = log
        /\ \/ main' = main
           \/ main' = Append(main, [kind |-> "token", request |-> r])
    BY <1>9 DEF ReadToken, DispatchToken, authVars, appVars, clientVars
  <2>2. [kind |-> "token", request |-> r] \in Block
    BY <1>0 DEF OwnedTypes, Block
  <2>3. MainIsKept
    BY <2>1, <2>2, <1>0, MainIsLonger
  <2> QED
    BY <2>1, <2>3, <1>2, ComingStays DEF WorkerIsKept
<1>10. CASE RunTask
  BY <1>2, <1>10, TaskIsComing DEF RunTask, authVars
<1>11. CASE RunMain
  BY <1>0, <1>2, <1>11, BlockIsComing DEF RunMain, authVars
<1>12. CASE Commit
  BY <1>2, <1>12, CommitIsComing DEF Commit, authVars
<1>13. CASE OnWriteStreamMutationResult
  BY <1>2, <1>13, AnswerIsComing DEF OnWriteStreamMutationResult, authVars
<1>14. CASE \/ OnWriteStreamHandshakeComplete \/ BackoffElapses
            \/ OnWriteStreamClose \/ IdleTimerFires
  BY <1>3, <1>14
  DEF OnWriteStreamHandshakeComplete, BackoffElapses, OnWriteStreamClose,
      IdleTimerFires, authVars, appVars, clientVars
<1>15. User => ProfileIsComing(a)'
  BY <1>4, <1>5, <1>6, <1>7 DEF User
<1>16. Authentication => ProfileIsComing(a)'
  BY <1>1, <1>8, <1>9 DEF Authentication
<1>17. Background => ProfileIsComing(a)'
  BY <1>10, <1>11, <1>12, <1>13, <1>14 DEF Background
<1> QED
  BY <1>14, <1>15, <1>16, <1>17 DEF Next

LEMMA FaultsOnlyGrow ==
  ASSUME faults \in [Fault -> Nat], Next
  PROVE  /\ faults' \in [Fault -> Nat]
         /\ faults'["hurry"] = 0 => faults["hurry"] = 0
         /\ faults'["kill"] = 0 => faults["kill"] = 0 /\ ~Kill
<1>f. {"break", "kill", "hurry"} = Fault
  BY DEF Fault
<1>1. faults' = faults \/ \E f \in Fault : FaultHappens(f)
  <2>1. CASE User
    BY <2>1, <1>f DEF User, Type, PressButton, TouchesStartScreen, SendMessage,
                      SignUserOut
  <2>2. CASE Authentication
    BY <2>2, Zenon
    DEF Authentication, CreateAccount, CompleteSignIn, ReadToken, DispatchToken
  <2>3. CASE Background
    BY <2>3 DEF Background, RunTask, RunMain, OnWriteStreamHandshakeComplete,
                Commit, OnWriteStreamMutationResult, BackoffElapses
  <2>4. CASE OnWriteStreamClose \/ IdleTimerFires \/ Kill
    BY <2>4, <1>f DEF OnWriteStreamClose, IdleTimerFires, Kill
  <2> QED
    BY <2>1, <2>2, <2>3, <2>4 DEF Next
<1>2. ASSUME NEW f \in Fault, FaultHappens(f)
      PROVE  /\ faults' \in [Fault -> Nat]
             /\ \A g \in Fault : faults'[g] = 0 => faults[g] = 0 /\ g # f
  <2>1. faults[f] \in Nat
    BY <1>2
  <2>2. faults[f] + 1 # 0
    BY <2>1
  <2> QED
    BY <2>2, <1>2, FaultsGrow
<1>3. Kill => FaultHappens("kill")
  BY DEF Kill
<1>4. {"kill", "hurry"} \subseteq Fault
  BY <1>f
<1>5. Kill => faults'["kill"] # 0
  BY <1>2, <1>3, <1>4
<1> QED
  BY <1>1, <1>2, <1>4, <1>5

LEMMA ProfilesStay ==
  ASSUME SessionInvariant, UnhurriedInvariant, ProfileInvariant, Next
  PROVE  ProfileInvariant'
<1>0. OwnedTypes /\ faults \in [Fault -> Nat] /\ AnswersAreCommits /\ AccountsAreMade
  BY DEF SessionInvariant, OwnershipInvariant, UnhurriedInvariant, ProfileInvariant
<1>1. AnswersAreCommits' /\ AccountsAreMade'
  BY <1>0, AnswersStay, AccountsStay
<1>2. ASSUME faults'["kill"] = 0, faults'["hurry"] = 0,
             NEW a \in accounts' \ InitialAccounts
      PROVE  ProfileIsComing(a)'
  <2>1. faults["kill"] = 0 /\ faults["hurry"] = 0 /\ ~Kill
    BY <1>0, <1>2, FaultsOnlyGrow
  <2>2. a \in Account
    BY <1>1 DEF AccountsAreMade
  <2>3. ProfileIsComing(a) \/ a \notin accounts
    BY <2>1 DEF ProfileInvariant, ProfilesAreComing
  <2> QED
    BY <2>1, <2>2, <2>3, <1>0, <1>2, ProfileStays
<1> QED
  BY <1>1, <1>2 DEF ProfileInvariant, ProfilesAreComing

LEMMA SameProfiles ==
  ASSUME SessionInvariant, ProfileInvariant, UNCHANGED sessionVars
  PROVE  ProfileInvariant'
<1>0. OwnedTypes
  BY DEF SessionInvariant, OwnershipInvariant
<1>1. /\ accounts' = accounts /\ attempts' = attempts /\ main' = main
      /\ worker' = worker /\ queues' = queues /\ log' = log /\ faults' = faults
      /\ answered' = answered /\ user' = user
  BY DEF sessionVars
<1>2. AnswersAreCommits'
  BY <1>0, <1>1, SameAnswers DEF ProfileInvariant
<1>3. AccountsAreMade'
  BY <1>1 DEF ProfileInvariant, AccountsAreMade
<1>4. \A a : ProfileIsComing(a) => ProfileIsComing(a)'
  BY <1>1, ComingStays DEF MainIsKept, WorkerIsKept
<1> QED
  BY <1>1, <1>2, <1>3, <1>4 DEF ProfileInvariant, ProfilesAreComing

(***************************************************************************)
(* What has been answered has been committed, and the profile of a new     *)
(* account is always somewhere on its way to the server.                   *)
(***************************************************************************)
THEOREM ProfileIsInvariant ==
  SessionSpec => [](SessionInvariant /\ UnhurriedInvariant /\ ProfileInvariant)
<1> DEFINE Inv == SessionInvariant /\ UnhurriedInvariant
<1>1. Init => ProfileInvariant
  <2> SUFFICES ASSUME Init PROVE ProfileInvariant
    OBVIOUS
  <2>1. accounts = InitialAccounts /\ attempts = {} /\ answered = 0
    BY DEF Init
  <2>2. AnswersAreCommits
    BY <2>1 DEF AnswersAreCommits
  <2>3. AccountsAreMade
    BY <2>1, InitialAssumption DEF AccountsAreMade
  <2> QED
    BY <2>1, <2>2, <2>3 DEF ProfileInvariant, ProfilesAreComing
<1>2. Inv /\ ProfileInvariant /\ [Next]_sessionVars => ProfileInvariant'
  <2>1. Inv /\ ProfileInvariant /\ Next => ProfileInvariant'
    BY ProfilesStay
  <2>2. Inv /\ ProfileInvariant /\ UNCHANGED sessionVars => ProfileInvariant'
    BY SameProfiles
  <2> QED
    BY <2>1, <2>2
<1> QED
  BY <1>1, <1>2, UnhurriedIsInvariant, PTL DEF SessionSpec

(***************************************************************************)
(* When everything has been sent, the profile of everyone who registered   *)
(* is in the collection the others search, whoever is signed in and        *)
(* whatever broke on the way (EveryAccountIsListed says for whom).         *)
(***************************************************************************)
THEOREM AccountsAreListed == SessionSpec => []EveryAccountIsListed
<1>1. ProfileInvariant => EveryAccountIsListed
  <2> SUFFICES ASSUME ProfileInvariant, Settled, faults["kill"] = 0,
                      faults["hurry"] = 0, NEW a \in accounts,
                      a \notin InitialAccounts
               PROVE  a \in Profiles
    BY DEF EveryAccountIsListed, Profiles
  <2>1. ProfileIsComing(a)
    BY DEF ProfileInvariant, ProfilesAreComing
  <2>2. /\ attempts = {} /\ DOMAIN main = {} /\ DOMAIN worker = {}
        /\ \A u \in Owner : DOMAIN queues[u] = {}
    BY DEF Settled
  <2>3. PICK i \in DOMAIN log : IsProfile(log[i], a)
    BY <2>1, <2>2
    DEF ProfileIsComing, IsAttempted, IsOnMain, IsTask, IsStored, IsSent
  <2>4. log[i].kind = "profile" /\ log[i].key[2] = a
    BY <2>3 DEF IsProfile
  <2> QED
    BY <2>4 DEF Profiles
<1> QED
  BY <1>1, ProfileIsInvariant, PTL

-----------------------------------------------------------------------------
(***************************************************************************)
(* The numbers of the writes: those that wait for the worker are newer     *)
(* than any it has seen, and the number of a batch whose handler waits for *)
(* the main queue is in no other place.                                    *)
(***************************************************************************)
IsPast(n) ==
  /\ n \in 1 .. made.writes
  /\ \A j \in DOMAIN worker :
       worker[j].kind = "write" => n < worker[j].write.n

LogIsPast == \A i \in DOMAIN log : IsPast(log[i].n)

HandlersAreSingle ==
  /\ \A i \in DOMAIN main : IsHandler(main[i]) =>
       /\ IsPast(main[i].batch.n)
       /\ \A u \in Owner : \A j \in DOMAIN queues[u] :
            queues[u][j].n # main[i].batch.n
  /\ \A i, j \in DOMAIN main :
       IsHandler(main[i]) /\ IsHandler(main[j]) /\ i # j
         => main[i].batch.n # main[j].batch.n

QueuesAreApart ==
  \A u, v \in Owner : u # v =>
    \A i \in DOMAIN queues[u], j \in DOMAIN queues[v] :
      queues[u][i].n # queues[v][j].n

NumbersInvariant == LogIsPast /\ HandlersAreSingle /\ QueuesAreApart

(* A task is an old one or comes with the next number; messages are sent   *)
(* by the user.                                                            *)
TasksFollow ==
  /\ made'.writes \in {made.writes, made.writes + 1}
  /\ \A i \in DOMAIN worker' : worker'[i].kind = "write" =>
       \/ \E j \in DOMAIN worker : worker'[i] = worker[j]
       \/ /\ worker'[i].write.n = made.writes + 1
          /\ IsMessage(worker'[i].write) => SendMessage

LEMMA OldTasksFollow ==
  ASSUME OwnedTypes, made'.writes \in {made.writes, made.writes + 1},
         \/ worker' = worker
         \/ worker' = <<>>
         \/ worker # <<>> /\ worker' = Tail(worker)
         \/ \E t \in Task :
              /\ worker' = Append(worker, t)
              /\ t.kind = "write" => /\ t.write.n = made.writes + 1
                                     /\ IsMessage(t.write) => SendMessage
  PROVE  TasksFollow
<1>0. /\ worker \in Seq(Task) /\ Len(worker) \in Nat
      /\ DOMAIN worker = 1 .. Len(worker)
  BY WorkerTypes
<1>1. CASE worker' = worker \/ worker' = <<>>
  BY <1>1 DEF TasksFollow
<1>2. CASE worker # <<>> /\ worker' = Tail(worker)
  <2>1. /\ DOMAIN worker' = 1 .. Len(worker) - 1
        /\ \A i \in 1 .. Len(worker) - 1 : worker'[i] = worker[i + 1]
    BY <1>0, <1>2, Removing, Zenon
  <2>2. \A i \in 1 .. Len(worker) - 1 : i + 1 \in DOMAIN worker
    BY <1>0
  <2>3. \A i \in DOMAIN worker' : \E j \in DOMAIN worker : worker'[i] = worker[j]
    BY <2>1, <2>2, Zenon
  <2> QED
    BY <2>3 DEF TasksFollow
<1>3. ASSUME NEW t \in Task, worker' = Append(worker, t),
             t.kind = "write" => /\ t.write.n = made.writes + 1
                                 /\ IsMessage(t.write) => SendMessage
      PROVE  TasksFollow
  <2> DEFINE r == Append(worker, t)
  <2>1. /\ DOMAIN r = 1 .. Len(worker) + 1
        /\ r[Len(worker) + 1] = t
        /\ \A i \in 1 .. Len(worker) : r[i] = worker[i]
    BY <1>0, Appending
  <2>2. worker' = r
    BY <1>3
  <2> HIDE DEF r
  <2>3. \A i \in DOMAIN r : i \in DOMAIN worker \/ i = Len(worker) + 1
    BY <1>0, <2>1
  <2>4. \A i \in DOMAIN worker' :
          (i \in DOMAIN worker /\ worker'[i] = worker[i]) \/ worker'[i] = t
    <3>1. \A i \in DOMAIN r : (i \in DOMAIN worker /\ r[i] = worker[i]) \/ r[i] = t
      BY <2>1, <2>3, <1>0
    <3> QED
      BY <2>2, <3>1, Zenon
  <2> QED
    BY <2>4, <1>3 DEF TasksFollow
<1> QED
  BY <1>1, <1>2, <1>3

LEMMA NextTasksFollow ==
  ASSUME OwnedTypes, Next
  PROVE  TasksFollow
<1>0. made \in [writes : Nat, messages : Nat, signIns : Nat]
  BY DEF OwnedTypes
<1>1. CASE User
  <2>1. ASSUME NEW u, Type(u) PROVE TasksFollow
    BY <2>1, OldTasksFollow DEF Type
  <2>2. ASSUME NEW how, PressButton(how) PROVE TasksFollow
    <3>1. worker' = worker /\ made' = [made EXCEPT !.signIns = @ + 1]
      BY <2>2 DEF PressButton
    <3> QED
      BY <3>1, <1>0, OldTasksFollow
  <2>3. CASE SendMessage
    <3> DEFINE t == [kind |-> "write",
                     write |-> [n |-> made.writes + 1, by |-> auth,
                                kind |-> "message",
                                key |-> <<"messages", made.messages + 1>>]]
    <3>1. /\ worker' = Append(worker, t)
          /\ made' = [made EXCEPT !.writes = @ + 1, !.messages = @ + 1]
      BY <2>3 DEF SendMessage, Enqueue
    <3>2. t \in Task
      <4>1. made.writes + 1 \in Nat /\ made.messages + 1 \in Nat /\ auth \in Owner
        BY MadeGrows DEF OwnedTypes
      <4> QED
        BY <4>1 DEF Task, WriteRecord, DocumentKey
    <3>3. t.write.n = made.writes + 1
      OBVIOUS
    <3> HIDE DEF t
    <3>4. made'.writes = made.writes + 1
      BY <3>1, <1>0
    <3> QED
      BY <3>1, <3>2, <3>3, <3>4, <2>3, OldTasksFollow
  <2>4. CASE SignUserOut
    BY <2>4, OldTasksFollow DEF SignUserOut
  <2> QED
    BY <2>1, <2>2, <2>3, <2>4, <1>1 DEF User
<1>2. CASE Authentication
  <2>1. worker' = worker /\ made' = made
    BY <1>2, Zenon
    DEF Authentication, CreateAccount, CompleteSignIn, ReadToken, DispatchToken
  <2> QED
    BY <2>1, OldTasksFollow
<1>3. CASE RunMain
  <2>1. CASE worker' = worker /\ made' = made
    BY <2>1, OldTasksFollow
  <2>2. ASSUME NEW t \in Task, worker' = Append(worker, t),
               (t.kind # "write" /\ made' = made) \/ MakesWrite(t)
        PROVE  TasksFollow
    <3>1. made'.writes \in {made.writes, made.writes + 1}
      BY <2>2, <1>0 DEF MakesWrite
    <3>2. t.kind = "write" =>
            t.write.n = made.writes + 1 /\ ~IsMessage(t.write)
      BY <2>2 DEF MakesWrite
    <3> QED
      BY <2>2, <3>1, <3>2, OldTasksFollow
  <2> QED
    BY <2>1, <2>2, <1>3, BlocksEnqueue
<1>4. CASE RunTask
  BY <1>4, OldTasksFollow DEF RunTask
<1>5. CASE \/ OnWriteStreamHandshakeComplete \/ Commit
           \/ OnWriteStreamMutationResult \/ BackoffElapses
           \/ OnWriteStreamClose \/ IdleTimerFires \/ Kill
  <2>1. (worker' = worker \/ worker' = <<>>) /\ made' = made
    BY <1>5 DEF OnWriteStreamHandshakeComplete, Commit, BackoffElapses,
                OnWriteStreamMutationResult, OnWriteStreamClose,
                IdleTimerFires, Kill
  <2> QED
    BY <2>1, OldTasksFollow
<1> QED
  BY <1>1, <1>2, <1>3, <1>4, <1>5 DEF Next, Background

LEMMA PastStays ==
  ASSUME OwnedTypes, TasksFollow, NEW n, IsPast(n)
  PROVE  IsPast(n)'
<1>0. made.writes \in Nat
  BY WorkerTypes
<1>1. n \in 1 .. made'.writes /\ n < made.writes + 1
  BY <1>0 DEF TasksFollow, IsPast
<1>2. \A i \in DOMAIN worker' : worker'[i].kind = "write" => n < worker'[i].write.n
  BY <1>1 DEF TasksFollow, IsPast
<1> QED
  BY <1>1, <1>2 DEF IsPast

LEMMA QueuedIsPast ==
  ASSUME QueuesAreOrdered, TasksAreNewer, NEW u \in Owner, NEW i \in DOMAIN queues[u]
  PROVE  IsPast(queues[u][i].n)
BY DEF QueuesAreOrdered, TasksAreNewer, IsPast

LEMMA LogStaysPast ==
  ASSUME SessionInvariant, LogIsPast, Next
  PROVE  LogIsPast'
<1>0. OwnedTypes /\ QueuesAreOrdered /\ TasksAreNewer
  BY DEF SessionInvariant, OwnershipInvariant
<1>1. \A n : IsPast(n) => IsPast(n)'
  BY <1>0, NextTasksFollow, PastStays
<1>2. CASE log' = log
  BY <1>1, <1>2 DEF LogIsPast
<1>3. CASE Commit
  <2> DEFINE p == pipeline[answered + 1]
             c == [owner |-> p.owner, n |-> p.n, by |-> p.by,
                   kind |-> p.kind, key |-> p.key, as |-> stream.as]
  <2>1. log' = Append(log, c) /\ answered < Len(pipeline)
    BY <1>3 DEF Commit
  <2>2. c.n = p.n
    OBVIOUS
  <2>3. IsPast(p.n)
    <3>1. /\ answered \in Nat /\ Len(pipeline) \in Nat
          /\ user \in Owner /\ DOMAIN queues[user] = 1 .. Len(queues[user])
          /\ Len(queues[user]) \in Nat /\ Len(pipeline) <= Len(queues[user])
          /\ \A i \in 1 .. Len(pipeline) : pipeline[i] = queues[user][i]
      BY AnsweredAreQueued
    <3>2. answered + 1 \in 1 .. Len(pipeline) /\ answered + 1 \in DOMAIN queues[user]
      BY <3>1, <2>1
    <3> QED
      BY <3>1, <3>2, <1>0, QueuedIsPast
  <2> HIDE DEF c
  <2>4. log' \in Seq(CommitRecord) /\ log \in Seq(CommitRecord)
    BY <1>3, CommitKeepsQueues
    DEF SessionInvariant, OwnershipInvariant, OwnedTypes
  <2>5. \A i \in DOMAIN log' :
          (i \in DOMAIN log /\ log'[i] = log[i]) \/ log'[i] = c
    <3>1. Len(log) \in Nat /\ DOMAIN log = 1 .. Len(log)
      BY <2>4
    <3> QED
      BY <3>1, <2>1, <2>4
  <2> QED
    BY <1>1, <2>2, <2>3, <2>5 DEF LogIsPast
<1>4. Next => log' = log \/ Commit
  <2>1. User => log' = log
    BY DEF User, Type, PressButton, SendMessage, SignUserOut
  <2>2. Authentication => log' = log
    BY Zenon
    DEF Authentication, CreateAccount, CompleteSignIn, ReadToken, DispatchToken
  <2>3. Background => log' = log \/ Commit
    BY DEF Background, RunTask, RunMain, OnWriteStreamHandshakeComplete,
           OnWriteStreamMutationResult, BackoffElapses
  <2>4. OnWriteStreamClose \/ IdleTimerFires \/ Kill => log' = log
    BY DEF OnWriteStreamClose, IdleTimerFires, Kill
  <2> QED
    BY <2>1, <2>2, <2>3, <2>4 DEF Next
<1> QED
  BY <1>2, <1>3, <1>4

(* Where the batches of the queues and the handlers come from. *)
OldBatch(u, b) ==
  \E j \in DOMAIN queues[u] : b.n = queues[u][j].n /\ b.kind = queues[u][j].kind

TakenBatch(u, b) ==
  /\ u = user /\ 1 \in DOMAIN worker /\ worker[1].kind = "write"
  /\ b.n = worker[1].write.n /\ b.kind = worker[1].write.kind

QueuesFollow ==
  \A u \in Owner : \A i \in DOMAIN queues'[u] :
    OldBatch(u, queues'[u][i]) \/ TakenBatch(u, queues'[u][i])

HandlersFollow(s) ==
  /\ s \in {0, 1}
  /\ \A i \in DOMAIN main' : IsHandler(main'[i]) =>
       i \in Nat /\ i + s \in DOMAIN main /\ main'[i] = main[i + s]

LEMMA NextQueuesFollow ==
  ASSUME SessionInvariant, Next
  PROVE  QueuesFollow
<1>0. OwnedTypes /\ user \in Owner /\ DOMAIN queues = Owner
  BY DEF SessionInvariant, OwnershipInvariant, OwnedTypes
<1>1. ASSUME queues' = queues PROVE QueuesFollow
  BY <1>1 DEF QueuesFollow, OldBatch
<1>2. CASE User \/ Authentication
  <2>1. User => queues' = queues
    BY DEF User, Type, PressButton, SendMessage, SignUserOut, clientVars
  <2>2. Authentication => queues' = queues
    BY Zenon
    DEF Authentication, CreateAccount, CompleteSignIn, ReadToken, DispatchToken,
        clientVars
  <2> QED
    BY <2>1, <2>2, <1>1, <1>2
<1>3. CASE \/ RunMain \/ OnWriteStreamHandshakeComplete \/ Commit \/ BackoffElapses
           \/ OnWriteStreamClose \/ IdleTimerFires
  BY <1>1, <1>3
  DEF RunMain, OnWriteStreamHandshakeComplete, Commit, BackoffElapses,
      OnWriteStreamClose, IdleTimerFires, clientVars
<1>4. CASE RunTask
  <2>1. /\ Head(worker) \in Task /\ 1 \in DOMAIN worker /\ Head(worker) = worker[1]
    BY <1>0, <1>4, WorkerHead
  <2>2. CASE worker[1].kind # "write"
    BY <2>1, <2>2, <1>1, <1>4
    DEF RunTask, Task, HandleCredentialChange, ResumeStartWithCredentials, clientVars
  <2>3. CASE worker[1].kind = "write"
    <3> DEFINE w == Head(worker).write
               b == [n |-> w.n, by |-> w.by, kind |-> w.kind, key |-> w.key,
                     owner |-> user, live |-> TRUE]
               q == Append(queues[user], b)
    <3>1. b \in BatchOf(user) /\ queues' = [queues EXCEPT ![user] = q]
      BY <2>1, <2>3, <1>4, WriteAnswers
    <3>2. TakenBatch(user, b)
      BY <2>1, <2>3 DEF TakenBatch
    <3> HIDE DEF b
    <3>3. queues[user] \in Seq(BatchOf(user))
      BY <1>0, WorkerTypes
    <3>4. /\ DOMAIN queues[user] = 1 .. Len(queues[user])
          /\ Len(queues[user]) \in Nat
          /\ DOMAIN q = 1 .. Len(queues[user]) + 1
          /\ q[Len(queues[user]) + 1] = b
          /\ \A i \in 1 .. Len(queues[user]) : q[i] = queues[user][i]
      BY <3>1, <3>3, Appending
    <3> HIDE DEF q
    <3>5. /\ queues'[user] = q
          /\ \A u \in Owner : u # user => queues'[u] = queues[u]
      BY <3>1, <1>0
    <3>6. \A i \in DOMAIN q : i \in DOMAIN queues[user] \/ i = Len(queues[user]) + 1
      BY <3>4
    <3>7. \A i \in DOMAIN q : OldBatch(user, q[i]) \/ TakenBatch(user, q[i])
      BY <3>2, <3>4, <3>6 DEF OldBatch
    <3> QED
      BY <3>5, <3>7 DEF QueuesFollow, OldBatch
  <2> QED
    BY <2>2, <2>3
<1>5. CASE OnWriteStreamMutationResult
  <2> DEFINE Q == queues[user]
             q == Tail(Q)
  <2>1. Q # <<>> /\ queues' = [queues EXCEPT ![user] = q]
    BY <1>5, AnswerAnswers
  <2>2. Q \in Seq(BatchOf(user))
    BY <1>0, WorkerTypes
  <2>3. /\ DOMAIN Q = 1 .. Len(Q) /\ Len(Q) \in Nat
        /\ DOMAIN q = 1 .. Len(Q) - 1
        /\ \A i \in 1 .. Len(Q) - 1 : q[i] = Q[i + 1]
    BY <2>1, <2>2, Removing
  <2>4. /\ queues'[user] = q /\ \A u \in Owner : u # user => queues'[u] = queues[u]
    BY <2>1, <1>0
  <2> HIDE DEF q
  <2>5. \A i \in DOMAIN q : i + 1 \in DOMAIN Q /\ q[i] = Q[i + 1]
    BY <2>3
  <2> QED
    BY <2>4, <2>5 DEF QueuesFollow, OldBatch
<1>6. CASE Kill
  <2>1. queues' = [v \in Owner |->
                     [i \in DOMAIN queues[v] |->
                        [queues[v][i] EXCEPT !.live = FALSE]]]
    BY <1>6 DEF Kill
  <2>2. ASSUME NEW u \in Owner, NEW i \in DOMAIN queues'[u]
        PROVE  OldBatch(u, queues'[u][i])
    <3>1. i \in DOMAIN queues[u] /\ queues'[u][i] = [queues[u][i] EXCEPT !.live = FALSE]
      BY <2>1, <2>2
    <3>2. queues[u] \in Seq(BatchOf(u)) /\ DOMAIN queues[u] = 1 .. Len(queues[u])
      BY <1>0, WorkerTypes
    <3>3. queues[u][i] \in BatchOf(u)
      BY <3>1, <3>2
    <3>4. /\ queues'[u][i].n = queues[u][i].n
          /\ queues'[u][i].kind = queues[u][i].kind
      BY <3>1, <3>3 DEF BatchOf, Batch
    <3> QED
      BY <3>1, <3>4 DEF OldBatch
  <2> QED
    BY <2>2 DEF QueuesFollow
<1> QED
  BY <1>2, <1>3, <1>4, <1>5, <1>6 DEF Next, Background

LEMMA BlockAdded ==
  ASSUME OwnedTypes, NEW x, main' = main \/ main' = Append(main, x)
  PROVE  /\ DOMAIN main' \subseteq Nat
         /\ \A i \in DOMAIN main' :
              \/ i \in DOMAIN main /\ main'[i] = main[i]
              \/ i = Len(main) + 1 /\ main'[i] = x
<1>0. main \in Seq(Block) /\ Len(main) \in Nat /\ DOMAIN main = 1 .. Len(main)
  BY MainTypes
<1>1. CASE main' = main
  BY <1>0, <1>1
<1>2. CASE main' = Append(main, x)
  <2> DEFINE r == Append(main, x)
  <2>1. main \in Seq(Block \cup {x})
    BY <1>0
  <2>2. /\ DOMAIN r = 1 .. Len(main) + 1
        /\ r[Len(main) + 1] = x
        /\ \A i \in 1 .. Len(main) : r[i] = main[i]
    <3>1. x \in Block \cup {x}
      OBVIOUS
    <3> HIDE DEF r
    <3> QED
      BY <2>1, <3>1, Appending DEF r
  <2>3. main' = r
    BY <1>2
  <2> HIDE DEF r
  <2>4. \A i \in DOMAIN r : i \in Nat /\ (i \in DOMAIN main \/ i = Len(main) + 1)
    BY <1>0, <2>2
  <2>5. /\ DOMAIN r \subseteq Nat
        /\ \A i \in DOMAIN r :
             \/ i \in DOMAIN main /\ r[i] = main[i]
             \/ i = Len(main) + 1 /\ r[i] = x
    BY <2>2, <2>4, <1>0
  <2> QED
    BY <2>3, <2>5, Zenon
<1> QED
  BY <1>1, <1>2

LEMMA SameHandlersFollow ==
  ASSUME DOMAIN main' \subseteq Nat,
         \A i \in DOMAIN main' : IsHandler(main'[i]) =>
           i \in DOMAIN main /\ main'[i] = main[i]
  PROVE  HandlersFollow(0)
<1>1. \A i \in DOMAIN main' : i \in Nat /\ i + 0 = i
  OBVIOUS
<1> QED
  BY <1>1 DEF HandlersFollow

LEMMA LongerHandlersFollow ==
  ASSUME OwnedTypes,
         main' = main \/ \E x \in Block : main' = Append(main, x) /\ ~IsHandler(x)
  PROVE  HandlersFollow(0)
<1>0. main \in Seq(Block) /\ Len(main) \in Nat /\ DOMAIN main = 1 .. Len(main)
  BY MainTypes
<1>1. CASE main' = main
  BY <1>0, <1>1, SameHandlersFollow
<1>2. ASSUME NEW x \in Block, main' = Append(main, x), ~IsHandler(x)
      PROVE  HandlersFollow(0)
  <2>1. /\ DOMAIN main' \subseteq Nat
        /\ \A i \in DOMAIN main' :
             \/ i \in DOMAIN main /\ main'[i] = main[i]
             \/ i = Len(main) + 1 /\ main'[i] = x
    BY <1>2, BlockAdded
  <2> QED
    BY <2>1, <1>2, SameHandlersFollow
<1> QED
  BY <1>1, <1>2

LEMMA ToldHandlersFollow ==
  ASSUME OwnedTypes, NEW u \in Owner, NEW completion, UpdateCurrentUser(u, completion),
         completion = <<>> \/ \E a \in Attempt :
           completion = <<[kind |-> "signedIn", attempt |-> a]>>
  PROVE  HandlersFollow(0)
<1>1. /\ DOMAIN main' \subseteq Nat
      /\ \A i \in DOMAIN main' :
           \/ i \in DOMAIN main /\ main'[i] = main[i]
           \/ main'[i] = Changed(u)
           \/ completion # <<>> /\ main'[i] = completion[1]
  BY UserIsTold
<1>2. ~IsHandler(Changed(u))
  BY DEF IsHandler, Changed
<1>3. completion # <<>> => ~IsHandler(completion[1])
  BY DEF IsHandler
<1>4. \A i \in DOMAIN main' : i \in Nat /\ i + 0 = i
  BY <1>1
<1> QED
  BY <1>1, <1>2, <1>3, <1>4 DEF HandlersFollow

LEMMA ServedHandlersFollow ==
  ASSUME OwnedTypes, RunMain
  PROVE  HandlersFollow(1)
<1>1. /\ main \in Seq(Block) /\ main # <<>> /\ main' = Tail(main)
  BY MainHead
<1>2. /\ DOMAIN main = 1 .. Len(main) /\ Len(main) \in Nat
      /\ DOMAIN main' = 1 .. Len(main) - 1
      /\ \A i \in 1 .. Len(main) - 1 : main'[i] = main[i + 1]
  BY <1>1, Removing
<1>3. \A i \in DOMAIN main' : i \in Nat /\ i + 1 \in DOMAIN main /\ main'[i] = main[i + 1]
  BY <1>2
<1> QED
  BY <1>3 DEF HandlersFollow

LEMMA NextHandlersFollow ==
  ASSUME SessionInvariant, Next
  PROVE  \/ OnWriteStreamMutationResult
         \/ \E s : HandlersFollow(s)
<1>0. OwnedTypes
  BY DEF SessionInvariant, OwnershipInvariant
<1>1. ASSUME main' = main PROVE \E s : HandlersFollow(s)
  BY <1>0, <1>1, LongerHandlersFollow
<1>2. CASE User
  <2>1. CASE SignUserOut
    <3>1. NoUser \in Owner
      BY DEF Owner
    <3>2. UpdateCurrentUser(NoUser, <<>>) => HandlersFollow(0)
      BY <3>1, <1>0, ToldHandlersFollow
    <3> QED
      BY <3>2, <2>1, <1>1 DEF SignUserOut
  <2>2. CASE ~SignUserOut
    <3>1. main' = main
      BY <2>2, <1>2 DEF User, Type, PressButton, SendMessage
    <3> QED
      BY <3>1, <1>1
  <2> QED
    BY <2>1, <2>2
<1>3. ASSUME NEW a \in attempts, CreateAccount(a) PROVE \E s : HandlersFollow(s)
  BY <1>1, <1>3 DEF CreateAccount
<1>4. ASSUME NEW a \in attempts, CompleteSignIn(a) PROVE \E s : HandlersFollow(s)
  <2>1. a \in Attempt /\ a.email \in Owner
    BY <1>0 DEF OwnedTypes, Attempt
  <2>2. UpdateCurrentUser(a.email, <<[kind |-> "signedIn", attempt |-> a]>>)
          => HandlersFollow(0)
    BY <2>1, <1>0, ToldHandlersFollow
  <2> QED
    BY <2>2, <1>1, <1>4 DEF CompleteSignIn
<1>5. ASSUME NEW r \in requests, ReadToken(r) \/ DispatchToken(r)
      PROVE  \E s : HandlersFollow(s)
  <2> DEFINE x == [kind |-> "token", request |-> r]
  <2>1. main' = main \/ main' = Append(main, x)
    BY <1>5 DEF ReadToken, DispatchToken
  <2>2. x \in Block /\ ~IsHandler(x)
    BY <1>0 DEF OwnedTypes, Block, IsHandler
  <2> HIDE DEF x
  <2> QED
    BY <2>1, <2>2, <1>0, LongerHandlersFollow
<1>6. CASE RunMain
  BY <1>0, <1>6, ServedHandlersFollow
<1>7. CASE \/ RunTask \/ OnWriteStreamHandshakeComplete \/ Commit \/ BackoffElapses
           \/ OnWriteStreamClose \/ IdleTimerFires
  BY <1>1, <1>7
  DEF RunTask, OnWriteStreamHandshakeComplete, Commit, BackoffElapses,
      OnWriteStreamClose, IdleTimerFires
<1>8. CASE Kill
  <2>1. main' = <<>> \/ main' = <<Changed(auth)>>
    BY <1>8 DEF Kill
  <2>2. \A i \in DOMAIN main' : ~IsHandler(main'[i])
    BY <2>1 DEF IsHandler, Changed
  <2>3. HandlersFollow(0)
    BY <2>2 DEF HandlersFollow
  <2> QED
    BY <2>3
<1>9. Authentication => \E s : HandlersFollow(s)
  BY <1>3, <1>4, <1>5 DEF Authentication
<1> QED
  BY <1>2, <1>6, <1>7, <1>8, <1>9 DEF Next, Background

LEMMA HandlerIsSingle ==
  ASSUME SessionInvariant, NumbersInvariant, Next,
         NEW n, IsPast(n),
         \A u \in Owner : \A j \in DOMAIN queues[u] : queues[u][j].n # n
  PROVE  \A u \in Owner : \A j \in DOMAIN queues'[u] : queues'[u][j].n # n
<1>0. QueuesFollow
  BY NextQueuesFollow
<1>1. SUFFICES ASSUME NEW u \in Owner, NEW j \in DOMAIN queues'[u]
               PROVE  queues'[u][j].n # n
  OBVIOUS
<1>2. CASE OldBatch(u, queues'[u][j])
  BY <1>2 DEF OldBatch
<1>3. CASE TakenBatch(u, queues'[u][j])
  <2>1. n < queues'[u][j].n /\ n \in 1 .. made.writes
    BY <1>3 DEF TakenBatch, IsPast
  <2> QED
    BY <2>1
<1> QED
  BY <1>0, <1>2, <1>3 DEF QueuesFollow

LEMMA HandlersStaySingle ==
  ASSUME SessionInvariant, NumbersInvariant, Next, NEW s, HandlersFollow(s)
  PROVE  HandlersAreSingle'
<1>0. OwnedTypes /\ HandlersAreSingle
  BY DEF SessionInvariant, OwnershipInvariant, NumbersInvariant
<1>1. \A n : IsPast(n) => IsPast(n)'
  BY <1>0, NextTasksFollow, PastStays
<1>2. ASSUME NEW i \in DOMAIN main', IsHandler(main'[i])
      PROVE  /\ i \in Nat /\ i + s \in DOMAIN main
             /\ main'[i] = main[i + s] /\ IsHandler(main[i + s])
  BY <1>2 DEF HandlersFollow
<1>3. ASSUME NEW i \in DOMAIN main', IsHandler(main'[i]),
             NEW n, n = main'[i].batch.n
      PROVE  /\ IsPast(n)'
             /\ \A u \in Owner : \A j \in DOMAIN queues'[u] : queues'[u][j].n # n
  <2>1. /\ IsPast(n)
        /\ \A u \in Owner : \A j \in DOMAIN queues[u] : queues[u][j].n # n
    BY <1>2, <1>3, <1>0 DEF HandlersAreSingle
  <2>2. \A u \in Owner : \A j \in DOMAIN queues'[u] : queues'[u][j].n # n
    BY <2>1, HandlerIsSingle
  <2> QED
    BY <1>1, <2>1, <2>2
<1>4. ASSUME NEW i \in DOMAIN main', NEW j \in DOMAIN main', i # j,
             IsHandler(main'[i]), IsHandler(main'[j])
      PROVE  main'[i].batch.n # main'[j].batch.n
  <2>1. s \in {0, 1}
    BY DEF HandlersFollow
  <2>2. i + s # j + s
    BY <1>2, <1>4, <2>1
  <2> QED
    BY <2>2, <1>2, <1>4, <1>0 DEF HandlersAreSingle
<1> QED
  BY <1>3, <1>4 DEF HandlersAreSingle, IsHandler, IsPast

(***************************************************************************)
(* The answer takes the first batch off its queue: it is in no other place *)
(* when its handler comes to the main queue.                               *)
(***************************************************************************)
LEMMA AnsweredIsSingle ==
  ASSUME SessionInvariant, NumbersInvariant, OnWriteStreamMutationResult
  PROVE  LET b == queues[user][1]
         IN  /\ IsPast(b.n)
             /\ \A u \in Owner : \A j \in DOMAIN queues'[u] : queues'[u][j].n # b.n
             /\ \A i \in DOMAIN main :
                  IsHandler(main[i]) => main[i].batch.n # b.n
             /\ main' = main \/ main' = Append(main, [kind |-> "handler", batch |-> b])
<1>0. /\ OwnedTypes /\ QueuesAreOrdered /\ TasksAreNewer /\ user \in Owner
      /\ HandlersAreSingle /\ QueuesAreApart /\ DOMAIN queues = Owner
  BY DEF SessionInvariant, OwnershipInvariant, OwnedTypes, NumbersInvariant
<1> DEFINE Q == queues[user]
           q == Tail(Q)
<1>1. /\ Q # <<>> /\ queues' = [queues EXCEPT ![user] = q]
      /\ Head(pipeline) = Q[1]
  BY AnswerAnswers
<1>2. Q \in Seq(BatchOf(user))
  BY <1>0, WorkerTypes
<1>3. /\ DOMAIN Q = 1 .. Len(Q) /\ Len(Q) \in Nat /\ Len(Q) # 0
      /\ DOMAIN q = 1 .. Len(Q) - 1
      /\ \A i \in 1 .. Len(Q) - 1 : q[i] = Q[i + 1]
  BY <1>1, <1>2, Removing
<1>4. 1 \in DOMAIN Q
  BY <1>3
<1>5. IsPast(Q[1].n)
  BY <1>0, <1>4, QueuedIsPast
<1>6. \A i \in DOMAIN main : IsHandler(main[i]) => main[i].batch.n # Q[1].n
  BY <1>0, <1>4 DEF HandlersAreSingle
<1>7. main' = main \/ main' = Append(main, [kind |-> "handler", batch |-> Q[1]])
  BY <1>1 DEF OnWriteStreamMutationResult
<1>8. /\ queues'[user] = q
      /\ \A u \in Owner : u # user => queues'[u] = queues[u]
  BY <1>0, <1>1
<1>9. ASSUME NEW u \in Owner, NEW j \in DOMAIN queues'[u]
      PROVE  queues'[u][j].n # Q[1].n
  <2>1. CASE u # user
    BY <2>1, <1>0, <1>4, <1>8, <1>9 DEF QueuesAreApart
  <2>2. CASE u = user
    <3>1. j \in 1 .. Len(Q) - 1 /\ queues'[u][j] = Q[j + 1]
      BY <2>2, <1>3, <1>8, <1>9
    <3>2. j + 1 \in DOMAIN Q /\ 1 < j + 1
      BY <3>1, <1>3
    <3>3. /\ Q[1].n < Q[j + 1].n
          /\ Q[1].n \in 1 .. made.writes /\ Q[j + 1].n \in 1 .. made.writes
      BY <3>2, <1>0, <1>4 DEF QueuesAreOrdered
    <3> QED
      BY <3>1, <3>3
  <2> QED
    BY <2>1, <2>2
<1> HIDE DEF q
<1> QED
  BY <1>5, <1>6, <1>7, <1>9 DEF Q

LEMMA AnswerKeepsHandlersSingle ==
  ASSUME SessionInvariant, NumbersInvariant, OnWriteStreamMutationResult
  PROVE  HandlersAreSingle'
<1>0. Next /\ OwnedTypes /\ HandlersAreSingle
  BY DEF Next, Background, SessionInvariant, OwnershipInvariant, NumbersInvariant
<1> DEFINE b == queues[user][1]
           x == [kind |-> "handler", batch |-> b]
           r == Append(main, x)
<1>1. /\ IsPast(b.n)
      /\ \A u \in Owner : \A j \in DOMAIN queues'[u] : queues'[u][j].n # b.n
      /\ \A i \in DOMAIN main : IsHandler(main[i]) => main[i].batch.n # b.n
      /\ main' = main \/ main' = r
  BY AnsweredIsSingle
<1> HIDE DEF b
<1>2. x.batch = b /\ x.kind = "handler"
  OBVIOUS
<1> HIDE DEF x
<1>3. \A i \in DOMAIN main' :
        \/ i \in DOMAIN main /\ main'[i] = main[i]
        \/ i = Len(main) + 1 /\ main'[i] = x
  BY <1>0, <1>1, BlockAdded
<1>4. \A n : IsPast(n) => IsPast(n)'
  BY <1>0, NextTasksFollow, PastStays
<1>5. ASSUME NEW i \in DOMAIN main', IsHandler(main'[i]),
             NEW n, n = main'[i].batch.n
      PROVE  /\ IsPast(n)'
             /\ \A u \in Owner : \A j \in DOMAIN queues'[u] : queues'[u][j].n # n
  <2>1. CASE i \in DOMAIN main /\ main'[i] = main[i]
    <3>1. /\ IsPast(n)
          /\ \A u \in Owner : \A j \in DOMAIN queues[u] : queues[u][j].n # n
      BY <2>1, <1>5, <1>0 DEF HandlersAreSingle
    <3>2. \A u \in Owner : \A j \in DOMAIN queues'[u] : queues'[u][j].n # n
      BY <3>1, <1>0, HandlerIsSingle
    <3> QED
      BY <3>1, <3>2, <1>4
  <2>2. CASE main'[i] = x
    <3>1. n = b.n
      BY <2>2, <1>2, <1>5
    <3> QED
      BY <3>1, <1>1, <1>4
  <2> QED
    BY <2>1, <2>2, <1>3, <1>5
<1>6. ASSUME NEW i \in DOMAIN main', NEW j \in DOMAIN main', i # j,
             IsHandler(main'[i]), IsHandler(main'[j])
      PROVE  main'[i].batch.n # main'[j].batch.n
  <2>1. CASE i \in DOMAIN main /\ main'[i] = main[i] /\ j \in DOMAIN main /\ main'[j] = main[j]
    BY <2>1, <1>0, <1>6 DEF HandlersAreSingle
  <2>2. CASE i \in DOMAIN main /\ main'[i] = main[i] /\ main'[j] = x
    BY <2>2, <1>1, <1>2, <1>6
  <2>3. CASE main'[i] = x /\ j \in DOMAIN main /\ main'[j] = main[j]
    BY <2>3, <1>1, <1>2, <1>6
  <2> QED
    BY <2>1, <2>2, <2>3, <1>3, <1>6
<1> QED
  BY <1>5, <1>6 DEF HandlersAreSingle, IsHandler, IsPast

LEMMA QueuesStayApart ==
  ASSUME SessionInvariant, NumbersInvariant, Next
  PROVE  QueuesAreApart'
<1>0. /\ QueuesFollow /\ TasksAreNewer /\ QueuesAreApart /\ QueuesAreOrdered
  BY NextQueuesFollow DEF SessionInvariant, NumbersInvariant
<1>1. SUFFICES ASSUME NEW u \in Owner, NEW v \in Owner, u # v,
                      NEW i \in DOMAIN queues'[u], NEW j \in DOMAIN queues'[v]
               PROVE  queues'[u][i].n # queues'[v][j].n
  BY DEF QueuesAreApart
<1>2. CASE OldBatch(u, queues'[u][i]) /\ OldBatch(v, queues'[v][j])
  BY <1>0, <1>1, <1>2 DEF QueuesAreApart, OldBatch
<1>3. ASSUME NEW a \in Owner, NEW b, NEW c, OldBatch(a, b), TakenBatch(user, c)
      PROVE  b.n # c.n
  <2>1. PICK k \in DOMAIN queues[a] : b.n = queues[a][k].n
    BY <1>3 DEF OldBatch
  <2>2. queues[a][k].n < worker[1].write.n /\ c.n = worker[1].write.n
    BY <1>0, <1>3 DEF TakenBatch, TasksAreNewer
  <2>3. b.n \in 1 .. made.writes /\ c.n \in 1 .. made.writes
    BY <2>1, <1>0, <1>3 DEF QueuesAreOrdered, TasksAreNewer, TakenBatch
  <2> QED
    BY <2>1, <2>2, <2>3
<1>4. \A a \in Owner : \A b : TakenBatch(a, b) => a = user
  BY DEF TakenBatch
<1> QED
  BY <1>0, <1>1, <1>2, <1>3, <1>4 DEF QueuesFollow

LEMMA NumbersStay ==
  ASSUME SessionInvariant, NumbersInvariant, Next
  PROVE  NumbersInvariant'
<1>1. LogIsPast'
  BY LogStaysPast DEF NumbersInvariant
<1>2. HandlersAreSingle'
  BY NextHandlersFollow, HandlersStaySingle, AnswerKeepsHandlersSingle
<1>3. QueuesAreApart'
  BY QueuesStayApart
<1> QED
  BY <1>1, <1>2, <1>3 DEF NumbersInvariant

-----------------------------------------------------------------------------
(***************************************************************************)
(* There are never more writes than the bounds allow for: two for each     *)
(* message and one for each sign-in.  The second write of a message is     *)
(* that of its handler, so it is owed until the handler has run.           *)
(***************************************************************************)
Owes(n) ==
  \/ \E i \in DOMAIN worker :
       worker[i].kind = "write" /\ IsMessage(worker[i].write) /\ worker[i].write.n = n
  \/ \E u \in Owner : \E i \in DOMAIN queues[u] :
       IsMessage(queues[u][i]) /\ queues[u][i].n = n
  \/ \E i \in DOMAIN main :
       IsHandler(main[i]) /\ IsMessage(main[i].batch) /\ main[i].batch.n = n

Owed == {n \in 1 .. made.writes : Owes(n)}

SignIns == {i \in DOMAIN main : IsSignIn(main[i])}

WritesAreCounted ==
  /\ IsFiniteSet(attempts)
  /\ made.messages <= MaxMessages /\ made.signIns <= MaxSignIns
  /\ made.writes + Cardinality(Owed) + Cardinality(SignIns) + Cardinality(attempts)
       <= 2 * made.messages + made.signIns

LEMMA NextOwes ==
  ASSUME SessionInvariant, Next, NEW n, Owes(n)'
  PROVE  Owes(n) \/ (SendMessage /\ n = made.writes + 1)
<1>0. OwnedTypes /\ DOMAIN queues' = Owner
  BY NextKeeps DEF SessionInvariant, OwnershipInvariant, OwnedTypes
<1>1. ASSUME NEW i \in DOMAIN worker', worker'[i].kind = "write",
             IsMessage(worker'[i].write), worker'[i].write.n = n
      PROVE  Owes(n) \/ (SendMessage /\ n = made.writes + 1)
  <2>1. TasksFollow
    BY <1>0, NextTasksFollow
  <2> QED
    BY <2>1, <1>1 DEF TasksFollow, Owes
<1>2. ASSUME NEW u \in Owner, NEW i \in DOMAIN queues'[u],
             IsMessage(queues'[u][i]), queues'[u][i].n = n
      PROVE  Owes(n)
  <2>1. OldBatch(u, queues'[u][i]) \/ TakenBatch(u, queues'[u][i])
    BY <1>2, NextQueuesFollow DEF QueuesFollow
  <2>2. CASE OldBatch(u, queues'[u][i])
    <3>1. PICK j \in DOMAIN queues[u] :
            /\ queues'[u][i].n = queues[u][j].n
            /\ queues'[u][i].kind = queues[u][j].kind
      BY <2>2 DEF OldBatch
    <3>2. IsMessage(queues[u][j]) /\ queues[u][j].n = n
      BY <3>1, <1>2 DEF IsMessage
    <3> QED
      BY <3>2 DEF Owes
  <2>3. CASE TakenBatch(u, queues'[u][i])
    <3>1. /\ 1 \in DOMAIN worker /\ worker[1].kind = "write"
          /\ IsMessage(worker[1].write) /\ worker[1].write.n = n
      BY <2>3, <1>2 DEF TakenBatch, IsMessage
    <3> QED
      BY <3>1 DEF Owes
  <2> QED
    BY <2>1, <2>2, <2>3
<1>3. ASSUME NEW i \in DOMAIN main', IsHandler(main'[i]),
             IsMessage(main'[i].batch), main'[i].batch.n = n
      PROVE  Owes(n)
  <2>1. ASSUME NEW s, HandlersFollow(s) PROVE Owes(n)
    <3>1. i + s \in DOMAIN main /\ main'[i] = main[i + s]
      BY <1>3, <2>1 DEF HandlersFollow
    <3> QED
      BY <3>1, <1>3 DEF Owes
  <2>2. CASE OnWriteStreamMutationResult
    <3> DEFINE b == queues[user][1]
               x == [kind |-> "handler", batch |-> b]
    <3>1. user \in Owner /\ 1 \in DOMAIN queues[user]
      <4>1. queues[user] # <<>> /\ user \in Owner
        BY <2>2, AnswerAnswers, AnsweredAreQueued
      <4>2. queues[user] \in Seq(BatchOf(user))
        BY AnsweredAreQueued
      <4> QED
        BY <4>1, <4>2, Removing
    <3>2. main' = main \/ main' = Append(main, x)
      <4>1. Head(pipeline) = b
        BY <2>2, AnswerAnswers
      <4> QED
        BY <4>1, <2>2 DEF OnWriteStreamMutationResult
    <3>3. x.batch = b
      OBVIOUS
    <3> HIDE DEF x
    <3>4. (i \in DOMAIN main /\ main'[i] = main[i]) \/ main'[i] = x
      BY <3>2, <1>0, <1>3, BlockAdded
    <3>5. CASE i \in DOMAIN main /\ main'[i] = main[i]
      BY <3>5, <1>3 DEF Owes
    <3>6. CASE main'[i] = x
      <4>1. IsMessage(b) /\ b.n = n
        BY <3>3, <3>6, <1>3
      <4> QED
        BY <4>1, <3>1 DEF Owes
    <3> QED
      BY <3>4, <3>5, <3>6
  <2> QED
    BY <2>1, <2>2, NextHandlersFollow
<1> QED
  BY <1>1, <1>2, <1>3 DEF Owes, IsHandler, IsMessage

LEMMA NoMessageSent ==
  ASSUME OwnedTypes, made'.messages = made.messages
  PROVE  ~SendMessage
<1>1. made \in [writes : Nat, messages : Nat, signIns : Nat]
  BY DEF OwnedTypes
<1>2. SendMessage => made' = [made EXCEPT !.writes = @ + 1, !.messages = @ + 1]
  BY DEF SendMessage
<1>3. SendMessage => made'.messages = made.messages + 1
  BY <1>1, <1>2
<1>4. made.messages # made.messages + 1
  BY <1>1
<1> QED
  BY <1>3, <1>4

LEMMA BlockIsNoMessage ==
  ASSUME OwnedTypes, RunMain
  PROVE  ~SendMessage
<1>1. made \in [writes : Nat, messages : Nat, signIns : Nat]
  BY DEF OwnedTypes
<1>2. made' = made \/ made' = [made EXCEPT !.writes = @ + 1]
  BY BlocksEnqueue DEF MakesWrite
<1>3. made'.messages = made.messages
  BY <1>1, <1>2
<1> QED
  BY <1>3, NoMessageSent

LEMMA HandlerPays ==
  ASSUME SessionInvariant, NumbersInvariant, RunMain,
         IsHandler(Head(main)), IsMessage(Head(main).batch),
         NEW n, n = Head(main).batch.n
  PROVE  n \in Owed /\ ~Owes(n)'
<1>0. OwnedTypes /\ HandlersAreSingle /\ Next
  BY DEF SessionInvariant, OwnershipInvariant, NumbersInvariant, Next, Background
<1>1. /\ 1 \in DOMAIN main /\ Head(main) = main[1]
      /\ main \in Seq(Block) /\ main # <<>> /\ main' = Tail(main)
  BY <1>0, MainHead
<1>2. /\ IsPast(n)
      /\ \A u \in Owner : \A j \in DOMAIN queues[u] : queues[u][j].n # n
  BY <1>0, <1>1 DEF HandlersAreSingle
<1>3. n \in Owed
  BY <1>1, <1>2 DEF Owed, Owes, IsPast
<1>4. ASSUME NEW i \in DOMAIN worker', worker'[i].kind = "write",
             IsMessage(worker'[i].write)
      PROVE  worker'[i].write.n # n
  <2>1. TasksFollow
    BY <1>0, NextTasksFollow
  <2>2. ~SendMessage
    BY <1>0, BlockIsNoMessage
  <2> QED
    BY <2>1, <2>2, <1>2, <1>4 DEF TasksFollow, IsPast
<1>5. ASSUME NEW u \in Owner, NEW i \in DOMAIN queues'[u]
      PROVE  queues'[u][i].n # n
  BY <1>2, <1>5 DEF RunMain, clientVars
<1>6. ASSUME NEW i \in DOMAIN main', IsHandler(main'[i])
      PROVE  main'[i].batch.n # n
  <2>1. /\ DOMAIN main = 1 .. Len(main) /\ Len(main) \in Nat
        /\ DOMAIN main' = 1 .. Len(main) - 1
        /\ \A j \in 1 .. Len(main) - 1 : main'[j] = main[j + 1]
    BY <1>1, Removing
  <2>2. i + 1 \in DOMAIN main /\ main'[i] = main[i + 1] /\ i + 1 # 1
    BY <2>1, <1>6
  <2> QED
    BY <2>2, <1>0, <1>1, <1>6 DEF HandlersAreSingle
<1>7. ~Owes(n)'
  BY <1>4, <1>5, <1>6 DEF Owes, IsHandler, IsMessage
<1> QED
  BY <1>3, <1>7

-----------------------------------------------------------------------------
(***************************************************************************)
(* Completion handlers of sign-ins on the main queue.                      *)
(***************************************************************************)
LEMMA FiniteSignIns ==
  ASSUME OwnedTypes
  PROVE  IsFiniteSet(SignIns) /\ Cardinality(SignIns) \in Nat
<1>1. SignIns \in SUBSET (1 .. Len(main)) /\ Len(main) \in Nat
  BY MainTypes DEF SignIns
<1>2. IsFiniteSet(1 .. Len(main))
  BY <1>1, FS_Interval
<1> QED
  BY <1>1, <1>2, FS_Subset, FS_CardinalityType

LEMMA FewerSignIns ==
  ASSUME OwnedTypes, SignIns' \subseteq SignIns
  PROVE  Cardinality(SignIns)' <= Cardinality(SignIns)
<1>1. IsFiniteSet(SignIns)
  BY FiniteSignIns
<1>2. Cardinality(SignIns') <= Cardinality(SignIns)
  BY <1>1, FS_Subset
<1> QED
  BY <1>2

LEMMA SameSignIns ==
  ASSUME OwnedTypes,
         \/ main' = main
         \/ \E x : main' = Append(main, x) /\ ~IsSignIn(x)
  PROVE  Cardinality(SignIns)' <= Cardinality(SignIns)
<1>1. CASE main' = main
  BY <1>1, FiniteSignIns DEF SignIns
<1>2. ASSUME NEW x, main' = Append(main, x), ~IsSignIn(x)
      PROVE  SignIns' \subseteq SignIns
  <2>1. \A i \in DOMAIN main' :
          \/ i \in DOMAIN main /\ main'[i] = main[i]
          \/ i = Len(main) + 1 /\ main'[i] = x
    BY <1>2, BlockAdded
  <2> QED
    BY <2>1, <1>2 DEF SignIns, IsSignIn
<1> QED
  BY <1>1, <1>2, FewerSignIns

LEMMA AddedToSet ==
  ASSUME NEW S, IsFiniteSet(S), NEW x
  PROVE  /\ IsFiniteSet(S \cup {x}) /\ Cardinality(S) \in Nat
         /\ Cardinality(S \cup {x}) \in Nat
         /\ Cardinality(S \cup {x}) <= Cardinality(S) + 1
<1>1. Cardinality(S) \in Nat
  BY FS_CardinalityType
<1>2. /\ IsFiniteSet(S \cup {x})
      /\ Cardinality(S \cup {x}) =
           IF x \in S THEN Cardinality(S) ELSE Cardinality(S) + 1
  BY FS_AddElement
<1> QED
  BY <1>1, <1>2

LEMMA ToldSignIns ==
  ASSUME OwnedTypes, NEW u \in Owner, NEW completion, UpdateCurrentUser(u, completion),
         completion = <<>> \/ \E a \in Attempt :
           completion = <<[kind |-> "signedIn", attempt |-> a]>>
  PROVE  /\ completion = <<>> => Cardinality(SignIns)' <= Cardinality(SignIns)
         /\ Cardinality(SignIns)' <= Cardinality(SignIns) + 1
<1>1. \A i \in DOMAIN main' :
        \/ i \in DOMAIN main /\ main'[i] = main[i]
        \/ i = Len(main) + 1 /\ main'[i] = Changed(u)
        \/ i = Len(main) + 2 /\ completion # <<>> /\ main'[i] = completion[1]
  BY UserIsTold
<1>2. ~IsSignIn(Changed(u))
  BY DEF IsSignIn, Changed
<1>3. IsFiniteSet(SignIns) /\ Cardinality(SignIns) \in Nat
  BY FiniteSignIns
<1>4. ASSUME completion = <<>> PROVE Cardinality(SignIns)' <= Cardinality(SignIns)
  <2>1. SignIns' \subseteq SignIns
    BY <1>1, <1>2, <1>4 DEF SignIns, IsSignIn
  <2> QED
    BY <2>1, FewerSignIns
<1>5. Cardinality(SignIns)' <= Cardinality(SignIns) + 1
  <2> DEFINE more == SignIns \cup {Len(main) + 2}
  <2>1. IsFiniteSet(more) /\ Cardinality(more) <= Cardinality(SignIns) + 1
    BY <1>3, AddedToSet
  <2>2. SignIns' \subseteq more
    BY <1>1, <1>2 DEF SignIns, IsSignIn
  <2> HIDE DEF more
  <2>3. Cardinality(SignIns') <= Cardinality(more) /\ IsFiniteSet(SignIns')
    BY <2>1, <2>2, FS_Subset
  <2>4. Cardinality(SignIns') \in Nat /\ Cardinality(more) \in Nat
    BY <2>1, <2>3, FS_CardinalityType
  <2> QED
    BY <2>1, <2>3, <2>4, <1>3
<1> QED
  BY <1>4, <1>5

LEMMA ServedSignIns ==
  ASSUME OwnedTypes, RunMain
  PROVE  /\ Cardinality(SignIns)' <= Cardinality(SignIns)
         /\ IsSignIn(Head(main)) =>
              Cardinality(SignIns)' <= Cardinality(SignIns) - 1
<1>1. /\ main \in Seq(Block) /\ main # <<>> /\ main' = Tail(main)
      /\ 1 \in DOMAIN main /\ Head(main) = main[1]
  BY MainHead
<1>2. /\ DOMAIN main = 1 .. Len(main) /\ Len(main) \in Nat
      /\ DOMAIN main' = 1 .. Len(main) - 1
      /\ \A i \in 1 .. Len(main) - 1 : main'[i] = main[i + 1]
  BY <1>1, Removing
<1> DEFINE rest == SignIns \ {1}
           f == [i \in SignIns' |-> i + 1]
<1>3. IsFiniteSet(SignIns) /\ Cardinality(SignIns) \in Nat
  BY FiniteSignIns
<1>4. /\ IsFiniteSet(rest)
      /\ Cardinality(rest) = IF 1 \in SignIns THEN Cardinality(SignIns) - 1
                             ELSE Cardinality(SignIns)
  BY <1>3, FS_RemoveElement
<1>5. \A i \in DOMAIN main' :
        i + 1 \in DOMAIN main /\ i \in Nat /\ i + 1 # 1 /\ main'[i] = main[i + 1]
  BY <1>2
<1>6. \A i \in SignIns' : i + 1 \in rest /\ i \in Nat
  BY <1>5 DEF SignIns, IsSignIn
<1> HIDE DEF rest
<1>7. f \in Injection(SignIns', rest)
  BY <1>6 DEF Injection, IsInjective
<1> HIDE DEF f
<1>8. Cardinality(SignIns') <= Cardinality(rest)
  BY <1>4, <1>7, FS_Injection
<1>9. IsSignIn(Head(main)) => 1 \in SignIns
  BY <1>1 DEF SignIns
<1>10. Cardinality(SignIns') \in Nat
  BY <1>4, <1>7, FS_Injection, FS_CardinalityType
<1> QED
  BY <1>3, <1>4, <1>8, <1>9, <1>10

-----------------------------------------------------------------------------
LEMMA FiniteOwed ==
  ASSUME OwnedTypes
  PROVE  /\ IsFiniteSet(Owed) /\ Cardinality(Owed) \in Nat
         /\ made \in [writes : Nat, messages : Nat, signIns : Nat]
<1>1. Owed \in SUBSET (1 .. made.writes) /\ made.writes \in Nat
  BY DEF Owed, OwnedTypes
<1>2. IsFiniteSet(1 .. made.writes)
  BY <1>1, FS_Interval
<1>3. IsFiniteSet(Owed) /\ Cardinality(Owed) \in Nat
  BY <1>1, <1>2, FS_Subset, FS_CardinalityType
<1> QED
  BY <1>3 DEF OwnedTypes

LEMMA OwedOnly ==
  ASSUME OwnedTypes, NEW S, IsFiniteSet(S), Owed' \subseteq S
  PROVE  Cardinality(Owed)' \in Nat /\ Cardinality(Owed)' <= Cardinality(S)
<1>1. IsFiniteSet(Owed') /\ Cardinality(Owed') <= Cardinality(S)
  BY FS_Subset
<1> QED
  BY <1>1, FS_CardinalityType

(* What is owed: no more than before, except for a new message.            *)
LEMMA NextOwed ==
  ASSUME SessionInvariant, NumbersInvariant, Next
  PROVE  /\ Cardinality(Owed)' \in Nat
         /\ ~SendMessage => Cardinality(Owed)' <= Cardinality(Owed)
         /\ Cardinality(Owed)' <= Cardinality(Owed) + 1
         /\ RunMain /\ IsHandler(Head(main)) /\ IsMessage(Head(main).batch)
              => Cardinality(Owed)' <= Cardinality(Owed) - 1
<1>0. /\ OwnedTypes /\ IsFiniteSet(Owed) /\ Cardinality(Owed) \in Nat
  BY FiniteOwed DEF SessionInvariant, OwnershipInvariant
<1>1. \A n : Owes(n)' => Owes(n) \/ (SendMessage /\ n = made.writes + 1)
  BY NextOwes
<1>2. \A n : Owes(n) => n \in 1 .. made.writes
  <2>1. ASSUME NEW i \in DOMAIN worker, worker[i].kind = "write"
        PROVE  worker[i].write.n \in 1 .. made.writes
    BY <2>1 DEF SessionInvariant, TasksAreNewer
  <2>2. ASSUME NEW u \in Owner, NEW i \in DOMAIN queues[u]
        PROVE  queues[u][i].n \in 1 .. made.writes
    BY <2>2 DEF SessionInvariant, QueuesAreOrdered
  <2>3. ASSUME NEW i \in DOMAIN main, IsHandler(main[i])
        PROVE  main[i].batch.n \in 1 .. made.writes
    BY <2>3 DEF NumbersInvariant, HandlersAreSingle, IsPast
  <2> QED
    BY <2>1, <2>2, <2>3 DEF Owes
<1>3. \A n \in Owed' : n \in Owed \/ (SendMessage /\ n = made.writes + 1)
  BY <1>1, <1>2 DEF Owed
<1>4. ASSUME ~SendMessage PROVE Cardinality(Owed)' <= Cardinality(Owed)
  BY <1>0, <1>3, <1>4, OwedOnly
<1>5. /\ Cardinality(Owed)' \in Nat
      /\ Cardinality(Owed)' <= Cardinality(Owed) + 1
  <2> DEFINE more == Owed \cup {made.writes + 1}
  <2>1. IsFiniteSet(more) /\ Cardinality(more) <= Cardinality(Owed) + 1
        /\ Cardinality(more) \in Nat
    BY <1>0, AddedToSet
  <2>2. Owed' \subseteq more
    BY <1>3
  <2> HIDE DEF more
  <2>3. Cardinality(Owed)' \in Nat /\ Cardinality(Owed)' <= Cardinality(more)
    BY <2>1, <2>2, <1>0, OwedOnly
  <2> QED
    BY <2>1, <2>3, <1>0
<1>6. ASSUME RunMain, IsHandler(Head(main)), IsMessage(Head(main).batch)
      PROVE  Cardinality(Owed)' <= Cardinality(Owed) - 1
  <2>1. PICK n : n = Head(main).batch.n
    OBVIOUS
  <2>2. n \in Owed /\ ~Owes(n)'
    BY <1>6, <2>1, HandlerPays
  <2>3. ~SendMessage
    BY <1>0, <1>6, BlockIsNoMessage
  <2> DEFINE less == Owed \ {n}
  <2>4. IsFiniteSet(less) /\ Cardinality(less) = Cardinality(Owed) - 1
    BY <1>0, <2>2, FS_RemoveElement
  <2>5. Owed' \subseteq less
    BY <1>3, <2>2, <2>3 DEF Owed
  <2> HIDE DEF less
  <2> QED
    BY <2>4, <2>5, <1>0, OwedOnly
<1> QED
  BY <1>4, <1>5, <1>6

(* What a step does to the numbers, and why the bound is kept.             *)

LEMMA Counting ==
  ASSUME SessionInvariant, NumbersInvariant, WritesAreCounted, Next,
         NEW w \in {0, 1}, NEW m \in {0, 1}, NEW s \in {0, 1},
         NEW o \in {-1, 0, 1}, NEW c \in {-1, 0, 1}, NEW a \in {-1, 0, 1},
         made'.writes = made.writes + w,
         made'.messages = made.messages + m, made'.messages <= MaxMessages,
         made'.signIns = made.signIns + s, made'.signIns <= MaxSignIns,
         Cardinality(Owed)' <= Cardinality(Owed) + o,
         Cardinality(SignIns)' <= Cardinality(SignIns) + c,
         IsFiniteSet(attempts'), Cardinality(attempts') <= Cardinality(attempts) + a,
         w + o + c + a <= 2 * m + s
  PROVE  WritesAreCounted'
<1>0. OwnedTypes /\ OwnedTypes'
  BY NextKeeps DEF SessionInvariant, OwnershipInvariant
<1>1. /\ Cardinality(Owed) \in Nat /\ Cardinality(SignIns) \in Nat
      /\ made \in [writes : Nat, messages : Nat, signIns : Nat]
  BY <1>0, FiniteOwed, FiniteSignIns
<1>2. /\ Cardinality(attempts) \in Nat /\ Cardinality(attempts') \in Nat
      /\ Cardinality(Owed)' \in Nat
  BY NextOwed, FS_CardinalityType DEF WritesAreCounted
<1>3. Cardinality(SignIns)' \in Nat
  <2>1. SignIns' \in SUBSET (1 .. Len(main')) /\ Len(main') \in Nat
    <3>1. main' \in Seq(Block)
      BY <1>0 DEF OwnedTypes
    <3>2. DOMAIN main' = 1 .. Len(main') /\ Len(main') \in Nat
      BY <3>1
    <3> QED
      BY <3>2 DEF SignIns
  <2>2. IsFiniteSet(1 .. Len(main'))
    BY <2>1, FS_Interval
  <2>3. IsFiniteSet(SignIns')
    BY <2>1, <2>2, FS_Subset
  <2> QED
    BY <2>3, FS_CardinalityType
<1>4. made.writes + Cardinality(Owed) + Cardinality(SignIns) + Cardinality(attempts)
        <= 2 * made.messages + made.signIns
  BY DEF WritesAreCounted
<1>5. made.writes \in Nat /\ made.messages \in Nat /\ made.signIns \in Nat
  BY <1>1
<1>6. made'.writes + Cardinality(Owed)' + Cardinality(SignIns)' + Cardinality(attempts')
        <= 2 * made'.messages + made'.signIns
  BY <1>1, <1>2, <1>3, <1>4, <1>5
<1> QED
  BY <1>6 DEF WritesAreCounted

LEMMA UserCounted ==
  ASSUME SessionInvariant, NumbersInvariant, WritesAreCounted, User
  PROVE  WritesAreCounted'
<1>0. /\ Next /\ OwnedTypes /\ NoUser \in Owner
      /\ made \in [writes : Nat, messages : Nat, signIns : Nat]
      /\ IsFiniteSet(attempts) /\ Cardinality(attempts) \in Nat
      /\ made.messages <= MaxMessages /\ made.signIns <= MaxSignIns
      /\ Cardinality(Owed) \in Nat /\ Cardinality(SignIns) \in Nat
  BY FiniteOwed, FiniteSignIns, FS_CardinalityType
  DEF Next, SessionInvariant, OwnershipInvariant, WritesAreCounted, Owner
<1>1. CASE SendMessage
  <2>1. /\ made'.writes = made.writes + 1 /\ made'.messages = made.messages + 1
        /\ made'.signIns = made.signIns + 0
        /\ made.messages < MaxMessages
        /\ main' = main /\ attempts' = attempts
    BY <1>0, <1>1 DEF SendMessage, appVars
  <2>2. made'.messages <= MaxMessages
    BY <2>1, <1>0, BoundAssumption
  <2>3. Cardinality(SignIns)' <= Cardinality(SignIns) + 0
    BY <2>1, <1>0, SameSignIns
  <2>4. Cardinality(Owed)' <= Cardinality(Owed) + 1
    BY <1>0, NextOwed
  <2> QED
    BY <2>1, <2>2, <2>3, <2>4, <1>0, Counting
<1>2. ASSUME NEW how, PressButton(how) PROVE WritesAreCounted'
  <2> DEFINE x == [how |-> how, email |-> field, made |-> FALSE]
  <2>1. /\ made'.writes = made.writes + 0 /\ made'.messages = made.messages + 0
        /\ made'.signIns = made.signIns + 1
        /\ made.signIns < MaxSignIns
        /\ main' = main /\ attempts' = attempts \cup {x}
    BY <1>0, <1>2 DEF PressButton
  <2>2. made'.signIns <= MaxSignIns
    BY <2>1, <1>0, BoundAssumption
  <2>3. Cardinality(SignIns)' <= Cardinality(SignIns) + 0
    BY <2>1, <1>0, SameSignIns
  <2>4. ~SendMessage
    <3>1. made'.messages = made.messages
      BY <2>1, <1>0
    <3> QED
      BY <3>1, <1>0, NoMessageSent
  <2>5. Cardinality(Owed)' <= Cardinality(Owed) + 0
    BY <2>4, <1>0, NextOwed
  <2> HIDE DEF x
  <2>6. IsFiniteSet(attempts') /\ Cardinality(attempts') <= Cardinality(attempts) + 1
    BY <2>1, <1>0, AddedToSet
  <2> QED
    BY <2>1, <2>2, <2>3, <2>5, <2>6, <1>0, Counting
<1>3. ASSUME made' = made, attempts' = attempts,
             Cardinality(SignIns)' <= Cardinality(SignIns)
      PROVE  WritesAreCounted'
  <2>1. ~SendMessage
    BY <1>3, <1>0, NoMessageSent
  <2>2. Cardinality(Owed)' <= Cardinality(Owed) + 0
    BY <2>1, <1>0, NextOwed
  <2>3. /\ made'.writes = made.writes + 0 /\ made'.messages = made.messages + 0
        /\ made'.signIns = made.signIns + 0
        /\ Cardinality(SignIns)' <= Cardinality(SignIns) + 0
        /\ IsFiniteSet(attempts') /\ Cardinality(attempts') <= Cardinality(attempts) + 0
    BY <1>3, <1>0
  <2> QED
    BY <2>2, <2>3, <1>0, <1>3, Counting
<1>4. CASE SignUserOut
  <2>1. UpdateCurrentUser(NoUser, <<>>) =>
          Cardinality(SignIns)' <= Cardinality(SignIns)
    BY <1>0, ToldSignIns
  <2>2. main' = main => Cardinality(SignIns)' <= Cardinality(SignIns)
    BY <1>0, SameSignIns
  <2> QED
    BY <2>1, <2>2, <1>3, <1>4 DEF SignUserOut
<1>5. ASSUME NEW u, Type(u) PROVE WritesAreCounted'
  <2>1. main' = main /\ made' = made /\ attempts' = attempts
    BY <1>5 DEF Type
  <2> QED
    BY <2>1, <1>0, <1>3, SameSignIns
<1> QED
  BY <1>1, <1>2, <1>4, <1>5 DEF User

LEMMA AuthenticationCounted ==
  ASSUME SessionInvariant, NumbersInvariant, WritesAreCounted, Authentication
  PROVE  WritesAreCounted'
<1>0. /\ Next /\ OwnedTypes
      /\ made \in [writes : Nat, messages : Nat, signIns : Nat]
      /\ IsFiniteSet(attempts) /\ Cardinality(attempts) \in Nat
      /\ made.messages <= MaxMessages /\ made.signIns <= MaxSignIns
      /\ Cardinality(Owed) \in Nat /\ Cardinality(SignIns) \in Nat
  BY FiniteOwed, FiniteSignIns, FS_CardinalityType
  DEF Next, SessionInvariant, OwnershipInvariant, WritesAreCounted
<1>1. made' = made
  BY Zenon
  DEF Authentication, CreateAccount, CompleteSignIn, ReadToken, DispatchToken
<1>2. /\ made'.writes = made.writes + 0 /\ made'.messages = made.messages + 0
      /\ made'.signIns = made.signIns + 0
      /\ made'.messages <= MaxMessages /\ made'.signIns <= MaxSignIns
  BY <1>0, <1>1
<1>3. Cardinality(Owed)' <= Cardinality(Owed) + 0
  <2>1. ~SendMessage
    BY <1>0, <1>1, NoMessageSent
  <2> QED
    BY <2>1, <1>0, NextOwed
<1>4. ASSUME IsFiniteSet(attempts'), Cardinality(attempts') <= Cardinality(attempts),
             Cardinality(SignIns)' <= Cardinality(SignIns)
      PROVE  WritesAreCounted'
  <2>1. /\ Cardinality(SignIns)' <= Cardinality(SignIns) + 0
        /\ Cardinality(attempts') <= Cardinality(attempts) + 0
    BY <1>4, <1>0
  <2> QED
    BY <2>1, <1>0, <1>2, <1>3, <1>4, Counting
<1>5. ASSUME NEW a \in attempts, CreateAccount(a) PROVE WritesAreCounted'
  <2> DEFINE less == attempts \ {a}
             b == [a EXCEPT !.made = TRUE]
  <2>1. main' = main /\ (attempts' = less \/ attempts' = less \cup {b})
    BY <1>5 DEF CreateAccount
  <2>2. IsFiniteSet(less) /\ Cardinality(less) = Cardinality(attempts) - 1
    BY <1>0, FS_RemoveElement
  <2> HIDE DEF less, b
  <2>3. IsFiniteSet(less \cup {b}) /\ Cardinality(less \cup {b}) <= Cardinality(less) + 1
    BY <2>2, AddedToSet
  <2>4. Cardinality(less \cup {b}) \in Nat
    BY <2>2, AddedToSet
  <2>5. IsFiniteSet(attempts') /\ Cardinality(attempts') <= Cardinality(attempts)
    <3>1. attempts' = less => Cardinality(attempts') = Cardinality(attempts) - 1
      BY <2>2
    <3>2. attempts' = less \cup {b} => Cardinality(attempts') <= Cardinality(less) + 1
      BY <2>3
    <3>3. IsFiniteSet(attempts')
      BY <2>1, <2>2, <2>3
    <3>4. Cardinality(attempts') \in Nat
      BY <3>3, FS_CardinalityType
    <3> QED
      BY <2>1, <2>2, <3>1, <3>2, <3>3, <3>4, <1>0
  <2>6. Cardinality(SignIns)' <= Cardinality(SignIns)
    BY <2>1, <1>0, SameSignIns
  <2> QED
    BY <2>5, <2>6, <1>4
<1>6. ASSUME NEW a \in attempts, CompleteSignIn(a) PROVE WritesAreCounted'
  <2> DEFINE less == attempts \ {a}
  <2>1. attempts' = less
    BY <1>6 DEF CompleteSignIn
  <2>2. IsFiniteSet(less) /\ Cardinality(less) = Cardinality(attempts) - 1
    BY <1>0, FS_RemoveElement
  <2> HIDE DEF less
  <2>3. Cardinality(SignIns)' <= Cardinality(SignIns) + 1
    <3>1. a \in Attempt /\ a.email \in Owner
      BY <1>0 DEF OwnedTypes, Attempt
    <3>2. UpdateCurrentUser(a.email, <<[kind |-> "signedIn", attempt |-> a]>>)
            => Cardinality(SignIns)' <= Cardinality(SignIns) + 1
      BY <3>1, <1>0, ToldSignIns
    <3>3. main' = main => Cardinality(SignIns)' = Cardinality(SignIns)
      BY DEF SignIns
    <3> QED
      BY <3>2, <3>3, <1>0, <1>6 DEF CompleteSignIn
  <2>4. Cardinality(attempts') <= Cardinality(attempts) + -1
    BY <2>1, <2>2, <1>0
  <2> QED
    BY <2>1, <2>2, <2>3, <2>4, <1>0, <1>2, <1>3, Counting
<1>7. ASSUME NEW r \in requests, ReadToken(r) \/ DispatchToken(r)
      PROVE  WritesAreCounted'
  <2> DEFINE x == [kind |-> "token", request |-> r]
  <2>1. attempts' = attempts /\ (main' = main \/ main' = Append(main, x))
    BY <1>7 DEF ReadToken, DispatchToken, appVars
  <2>2. ~IsSignIn(x)
    BY DEF IsSignIn
  <2> HIDE DEF x
  <2>3. Cardinality(SignIns)' <= Cardinality(SignIns)
    BY <2>1, <2>2, <1>0, SameSignIns
  <2> QED
    BY <2>1, <2>3, <1>0, <1>4
<1> QED
  BY <1>5, <1>6, <1>7 DEF Authentication

LEMMA MainCounted ==
  ASSUME SessionInvariant, NumbersInvariant, WritesAreCounted, RunMain
  PROVE  WritesAreCounted'
<1>0. /\ Next /\ OwnedTypes
      /\ made \in [writes : Nat, messages : Nat, signIns : Nat]
      /\ IsFiniteSet(attempts) /\ Cardinality(attempts) \in Nat
      /\ made.messages <= MaxMessages /\ made.signIns <= MaxSignIns
      /\ Cardinality(Owed) \in Nat /\ Cardinality(SignIns) \in Nat
  BY FiniteOwed, FiniteSignIns, FS_CardinalityType
  DEF Next, Background, SessionInvariant, OwnershipInvariant, WritesAreCounted
<1>1. ~SendMessage
  BY <1>0, BlockIsNoMessage
<1>2. attempts' = attempts
  BY DEF RunMain
<1>3. /\ Cardinality(Owed)' <= Cardinality(Owed) + 0
      /\ Cardinality(SignIns)' <= Cardinality(SignIns) + 0
      /\ IsFiniteSet(attempts')
      /\ Cardinality(attempts') <= Cardinality(attempts) + 0
  BY <1>0, <1>1, <1>2, NextOwed, ServedSignIns
<1>4. CASE made' = made
  <2>1. /\ made'.writes = made.writes + 0 /\ made'.messages = made.messages + 0
        /\ made'.signIns = made.signIns + 0
        /\ made'.messages <= MaxMessages /\ made'.signIns <= MaxSignIns
    BY <1>0, <1>4
  <2> QED
    BY <2>1, <1>0, <1>3, Counting
<1>5. ASSUME NEW t \in Task, MakesWrite(t) PROVE WritesAreCounted'
  <2>1. /\ made'.writes = made.writes + 1 /\ made'.messages = made.messages + 0
        /\ made'.signIns = made.signIns + 0
        /\ made'.messages <= MaxMessages /\ made'.signIns <= MaxSignIns
    BY <1>0, <1>5 DEF MakesWrite
  <2>2. CASE IsSignIn(Head(main))
    <3>1. Cardinality(SignIns)' <= Cardinality(SignIns) + -1
      BY <2>2, <1>0, ServedSignIns
    <3> QED
      BY <3>1, <2>1, <1>0, <1>3, Counting
  <2>3. CASE IsHandler(Head(main)) /\ IsMessage(Head(main).batch)
    <3>1. Cardinality(Owed)' <= Cardinality(Owed) + -1
      BY <2>3, <1>0, NextOwed
    <3> QED
      BY <3>1, <2>1, <1>0, <1>3, Counting
  <2> QED
    BY <2>2, <2>3, <1>5 DEF MakesWrite
<1> QED
  BY <1>4, <1>5, <1>0, BlocksEnqueue

LEMMA RestCounted ==
  ASSUME SessionInvariant, NumbersInvariant, WritesAreCounted,
         \/ Background /\ ~RunMain
         \/ OnWriteStreamClose \/ IdleTimerFires \/ Kill
  PROVE  WritesAreCounted'
<1>0. /\ Next /\ OwnedTypes
      /\ made \in [writes : Nat, messages : Nat, signIns : Nat]
      /\ IsFiniteSet(attempts) /\ Cardinality(attempts) \in Nat
      /\ made.messages <= MaxMessages /\ made.signIns <= MaxSignIns
      /\ Cardinality(Owed) \in Nat /\ Cardinality(SignIns) \in Nat
  BY FiniteOwed, FiniteSignIns, FS_CardinalityType
  DEF Next, SessionInvariant, OwnershipInvariant, WritesAreCounted
<1>1. ASSUME made' = made, attempts' = attempts \/ attempts' = {},
             Cardinality(SignIns)' <= Cardinality(SignIns)
      PROVE  WritesAreCounted'
  <2>1. /\ made'.writes = made.writes + 0 /\ made'.messages = made.messages + 0
        /\ made'.signIns = made.signIns + 0
        /\ made'.messages <= MaxMessages /\ made'.signIns <= MaxSignIns
        /\ Cardinality(SignIns)' <= Cardinality(SignIns) + 0
    BY <1>0, <1>1
  <2>2. Cardinality(Owed)' <= Cardinality(Owed) + 0
    <3>1. ~SendMessage
      BY <1>0, <1>1, NoMessageSent
    <3> QED
      BY <3>1, <1>0, NextOwed
  <2>3. IsFiniteSet(attempts') /\ Cardinality(attempts') <= Cardinality(attempts) + 0
    <3>1. IsFiniteSet({}) /\ Cardinality({}) = 0
      BY FS_EmptySet
    <3> QED
      BY <3>1, <1>0, <1>1
  <2> QED
    BY <2>1, <2>2, <2>3, <1>0, Counting
<1>2. CASE \/ RunTask \/ OnWriteStreamHandshakeComplete \/ Commit
           \/ BackoffElapses \/ OnWriteStreamClose \/ IdleTimerFires
  <2>1. made' = made /\ attempts' = attempts /\ main' = main
    BY <1>2
    DEF RunTask, OnWriteStreamHandshakeComplete, Commit, BackoffElapses,
        OnWriteStreamClose, IdleTimerFires, appVars
  <2> QED
    BY <2>1, <1>0, <1>1, SameSignIns
<1>3. CASE OnWriteStreamMutationResult
  <2> DEFINE x == [kind |-> "handler", batch |-> Head(pipeline)]
  <2>1. /\ made' = made /\ attempts' = attempts
        /\ main' = main \/ main' = Append(main, x)
    BY <1>3 DEF OnWriteStreamMutationResult, appVars
  <2>2. ~IsSignIn(x)
    BY DEF IsSignIn
  <2> HIDE DEF x
  <2> QED
    BY <2>1, <2>2, <1>0, <1>1, SameSignIns
<1>4. CASE Kill
  <2>1. made' = made /\ attempts' = {}
    BY <1>4 DEF Kill
  <2>2. main' = <<>> \/ main' = <<Changed(auth)>>
    BY <1>4 DEF Kill
  <2>3. SignIns' \subseteq SignIns
    BY <2>2 DEF SignIns, IsSignIn, Changed
  <2> QED
    BY <2>1, <2>3, <1>0, <1>1, FewerSignIns
<1> QED
  BY <1>2, <1>3, <1>4 DEF Background

LEMMA NextCounted ==
  ASSUME SessionInvariant, NumbersInvariant, WritesAreCounted, Next
  PROVE  WritesAreCounted'
<1>1. Background => RunMain \/ (Background /\ ~RunMain)
  OBVIOUS
<1> QED
  BY <1>1, UserCounted, AuthenticationCounted, MainCounted, RestCounted DEF Next

LEMMA InitCounted ==
  ASSUME Init
  PROVE  NumbersInvariant /\ WritesAreCounted /\ AnswersAreCommits
<1>1. /\ main = <<>> /\ worker = <<>> /\ log = <<>> /\ attempts = {}
      /\ queues = [u \in Owner |-> <<>>] /\ answered = 0
      /\ made = [writes |-> 0, messages |-> 0, signIns |-> 0]
  BY DEF Init
<1>2. DOMAIN main = {} /\ DOMAIN log = {} /\ \A u \in Owner : DOMAIN queues[u] = {}
  BY <1>1
<1>3. NumbersInvariant
  BY <1>2 DEF NumbersInvariant, LogIsPast, HandlersAreSingle, QueuesAreApart
<1>4. AnswersAreCommits
  <2>1. 1 .. answered = {}
    BY <1>1
  <2> QED
    BY <2>1 DEF AnswersAreCommits
<1>5. Owed = {} /\ SignIns = {}
  <2>1. 1 .. made.writes = {}
    BY <1>1
  <2> QED
    BY <2>1, <1>2 DEF Owed, SignIns
<1>6. IsFiniteSet({}) /\ Cardinality({}) = 0
  BY FS_EmptySet
<1>7. made.messages = 0 /\ made.signIns = 0 /\ made.writes = 0
  BY <1>1
<1>8. WritesAreCounted
  BY <1>1, <1>5, <1>6, <1>7, BoundAssumption DEF WritesAreCounted
<1> QED
  BY <1>3, <1>4, <1>8

(***************************************************************************)
(* Numbers are given once, what is waiting is newer than what the server   *)
(* has, and there are no more of them than the bounds allow for.           *)
(***************************************************************************)
LogInvariant ==
  SessionInvariant /\ NumbersInvariant /\ WritesAreCounted /\ AnswersAreCommits

LEMMA LogInvariantRests ==
  ASSUME LogInvariant, UNCHANGED sessionVars
  PROVE  LogInvariant'
<1>1. SessionInvariant'
  BY StutterKeeps DEF LogInvariant
<1>2. WritesAreCounted' /\ AnswersAreCommits'
  BY DEF LogInvariant, sessionVars, WritesAreCounted, Owed, Owes, SignIns,
         AnswersAreCommits, IsCommitted
<1>3. NumbersInvariant'
  BY DEF LogInvariant, sessionVars, NumbersInvariant, LogIsPast, IsPast,
         HandlersAreSingle, QueuesAreApart
<1> QED
  BY <1>1, <1>2, <1>3 DEF LogInvariant

LEMMA WritesAreNumbered == SessionSpec => []LogInvariant
<1>1. Init => LogInvariant
  BY InitCounted, InitOrdered DEF LogInvariant
<1>2. LogInvariant /\ Next => LogInvariant'
  BY NextKeeps, NumbersStay, NextCounted, AnswersStay DEF LogInvariant
<1> QED
  BY <1>1, <1>2, LogInvariantRests, PTL DEF SessionSpec

-----------------------------------------------------------------------------
(***************************************************************************)
(* Every step is a step of WriteLog, or leaves it alone.                   *)
(***************************************************************************)
Numbers(q) == [i \in DOMAIN q |-> q[i].n]

LEMMA NumbersOf ==
  ASSUME NEW u \in Owner, NEW q \in Seq(BatchOf(u))
  PROVE  /\ Numbers(q) \in Seq(Nat) /\ Len(Numbers(q)) = Len(q)
         /\ DOMAIN Numbers(q) = 1 .. Len(q) /\ DOMAIN q = 1 .. Len(q)
         /\ Len(q) \in Nat
         /\ \A i \in 1 .. Len(q) : Numbers(q)[i] = q[i].n /\ q[i].n \in Nat
<1>1. DOMAIN q = 1 .. Len(q) /\ Len(q) \in Nat /\ \A i \in 1 .. Len(q) : q[i] \in Batch
  BY DEF BatchOf
<1>2. \A i \in 1 .. Len(q) : q[i].n \in Nat
  BY <1>1 DEF Batch
<1>3. Numbers(q) \in [1 .. Len(q) -> Nat]
  BY <1>1, <1>2 DEF Numbers
<1>4. Numbers(q) \in Seq(Nat) /\ Len(Numbers(q)) = Len(q)
  <2> DEFINE s == Numbers(q)
  <2> HIDE DEF s
  <2>1. s \in [1 .. Len(q) -> Nat]
    BY <1>3 DEF s
  <2>2. s \in Seq(Nat)
    BY <2>1, <1>1
  <2>3. Len(s) = Len(q)
    BY <2>1, <2>2, <1>1
  <2> QED
    BY <2>2, <2>3 DEF s
<1> QED
  BY <1>1, <1>2, <1>3, <1>4 DEF Numbers

LEMMA NumbersAppended ==
  ASSUME NEW u \in Owner, NEW q \in Seq(BatchOf(u)), NEW b \in BatchOf(u)
  PROVE  Numbers(Append(q, b)) = Append(Numbers(q), b.n)
<1> DEFINE r == Append(q, b)
           s == Append(Numbers(q), b.n)
<1>1. /\ r \in Seq(BatchOf(u)) /\ DOMAIN r = 1 .. Len(q) + 1
      /\ Len(q) \in Nat
      /\ r[Len(q) + 1] = b /\ \A i \in 1 .. Len(q) : r[i] = q[i]
  BY Appending
<1>2. b.n \in Nat
  BY DEF BatchOf, Batch
<1>3. /\ Numbers(q) \in Seq(Nat) /\ Len(Numbers(q)) = Len(q)
      /\ \A i \in 1 .. Len(q) : Numbers(q)[i] = q[i].n
  BY NumbersOf
<1>4. /\ s \in Seq(Nat) /\ DOMAIN s = 1 .. Len(q) + 1
      /\ s[Len(q) + 1] = b.n /\ \A i \in 1 .. Len(q) : s[i] = Numbers(q)[i]
  BY <1>2, <1>3, Appending
<1> HIDE DEF r, s
<1>5. \A i \in 1 .. Len(q) + 1 : s[i] = r[i].n
  <2>1. \A i \in 1 .. Len(q) + 1 : i \in 1 .. Len(q) \/ i = Len(q) + 1
    BY <1>1
  <2> QED
    BY <2>1, <1>1, <1>3, <1>4
<1>6. s = [i \in 1 .. Len(q) + 1 |-> r[i].n]
  <2>1. s = [i \in 1 .. Len(q) + 1 |-> s[i]]
    BY <1>4
  <2> QED
    BY <2>1, <1>5
<1>7. Numbers(r) = s
  BY <1>1, <1>6 DEF Numbers
<1> QED
  BY <1>7 DEF r, s

LEMMA NumbersRemoved ==
  ASSUME NEW u \in Owner, NEW q \in Seq(BatchOf(u)), q # <<>>
  PROVE  /\ Numbers(Tail(q)) = Tail(Numbers(q)) /\ Numbers(q) # <<>>
         /\ Head(Numbers(q)) = q[1].n
<1> DEFINE r == Tail(q)
           s == Tail(Numbers(q))
<1>1. /\ Len(q) \in Nat \ {0} /\ DOMAIN r = 1 .. Len(q) - 1
      /\ \A i \in 1 .. Len(q) - 1 : r[i] = q[i + 1]
  BY Removing
<1>2. /\ Numbers(q) \in Seq(Nat) /\ Len(Numbers(q)) = Len(q)
      /\ \A i \in 1 .. Len(q) : Numbers(q)[i] = q[i].n
  BY NumbersOf
<1>3. Numbers(q) # <<>>
  BY <1>1, <1>2
<1>4. /\ s \in Seq(Nat) /\ DOMAIN s = 1 .. Len(q) - 1
      /\ Head(Numbers(q)) = Numbers(q)[1]
      /\ \A i \in 1 .. Len(q) - 1 : s[i] = Numbers(q)[i + 1]
  BY <1>2, <1>3, Removing
<1>5. 1 \in 1 .. Len(q) /\ \A i \in 1 .. Len(q) - 1 : i + 1 \in 1 .. Len(q)
  BY <1>1
<1> HIDE DEF r, s
<1>6. \A i \in 1 .. Len(q) - 1 : s[i] = r[i].n
  BY <1>1, <1>2, <1>4, <1>5
<1>7. s = [i \in 1 .. Len(q) - 1 |-> r[i].n]
  <2>1. s = [i \in 1 .. Len(q) - 1 |-> s[i]]
    BY <1>4
  <2> QED
    BY <2>1, <1>6
<1>8. Numbers(r) = s
  BY <1>1, <1>7 DEF Numbers
<1> QED
  BY <1>2, <1>3, <1>4, <1>5, <1>8 DEF r, s

LEMMA StoredIs ==
  /\ Stored = [u \in Owner |-> Numbers(queues[u])]
  /\ Stored' = [u \in Owner |-> Numbers(queues'[u])]
BY DEF Stored, Numbers

LEMMA StoredChanges ==
  ASSUME OwnedTypes, NEW u \in Owner, NEW q, queues' = [queues EXCEPT ![u] = q]
  PROVE  Stored' = [Stored EXCEPT ![u] = Numbers(q)]
<1>1. queues'[u] = q /\ \A v \in Owner : v # u => queues'[v] = queues[v]
  BY DEF OwnedTypes
<1>2. Stored' = [v \in Owner |-> IF v = u THEN Numbers(q) ELSE Stored[v]]
  BY <1>1, StoredIs
<1> QED
  BY <1>2, StoredIs

LEMMA CommittedIs ==
  ASSUME NEW u, NEW n
  PROVE  Writes!Committed(u, n) <=> \E i \in DOMAIN log : log[i].owner = u /\ log[i].n = n
BY DEF Writes!Committed, Writes!Range, Commits

LEMMA StoreImplements ==
  ASSUME LogInvariant, RunTask, Head(worker).kind = "write"
  PROVE  Writes!Next
<1>0. /\ OwnedTypes /\ user \in Owner /\ TasksAreNewer /\ LogIsPast /\ WritesAreCounted
      /\ SessionInvariant
      /\ Head(worker) = worker[1] /\ 1 \in DOMAIN worker
      /\ queues[user] \in Seq(BatchOf(user))
  BY WorkerHead, WorkerTypes
  DEF LogInvariant, SessionInvariant, OwnershipInvariant, OwnedTypes, NumbersInvariant
<1> DEFINE n == worker[1].write.n
<1>1. PICK b \in BatchOf(user) :
        b.n = n /\ queues' = [queues EXCEPT ![user] = Append(queues[user], b)]
  BY <1>0, WriteAnswers
<1>2. log' = log
  BY <1>0, WriteAnswers
<1>3. /\ n \in 1 .. made.writes
      /\ \A j \in DOMAIN queues[user] : queues[user][j].n < n
  BY <1>0 DEF TasksAreNewer
<1>4. \A i \in DOMAIN log : log[i].n < n
  BY <1>0 DEF LogIsPast, IsPast
<1> HIDE DEF n
<1>5. n \in 1 .. 2 * MaxMessages + MaxSignIns
  <2>1. /\ Cardinality(Owed) \in Nat /\ Cardinality(SignIns) \in Nat
        /\ Cardinality(attempts) \in Nat
        /\ made \in [writes : Nat, messages : Nat, signIns : Nat]
    BY <1>0, FiniteOwed, FiniteSignIns, FS_CardinalityType DEF WritesAreCounted
  <2>2. made.writes <= 2 * made.messages + made.signIns
    BY <2>1, <1>0 DEF WritesAreCounted
  <2>3. made.writes <= 2 * MaxMessages + MaxSignIns
    BY <2>1, <2>2, <1>0, BoundAssumption DEF WritesAreCounted
  <2> QED
    BY <2>1, <2>3, <1>3, BoundAssumption
<1>6. Stored' = [Stored EXCEPT ![user] = Append(Stored[user], n)]
  <2>1. Stored' = [Stored EXCEPT ![user] = Numbers(Append(queues[user], b))]
    BY <1>0, <1>1, StoredChanges
  <2>2. Numbers(Append(queues[user], b)) = Append(Numbers(queues[user]), n)
    BY <1>0, <1>1, NumbersAppended
  <2>3. Stored[user] = Numbers(queues[user])
    BY <1>0, StoredIs
  <2> QED
    BY <2>1, <2>2, <2>3
<1>7. \A m \in Writes!Range(Stored[user]) : m < n
  BY <1>0, <1>3, StoredIs, NumbersOf DEF Writes!Range
<1>8. \A m : Writes!Committed(user, m) => m < n
  BY <1>4, CommittedIs
<1>9. Writes!Store(user, n)
  BY <1>2, <1>6, <1>7, <1>8 DEF Writes!Store, Commits
<1> QED
  BY <1>0, <1>5, <1>9 DEF Writes!Next

LEMMA CommitImplements ==
  ASSUME LogInvariant, Commit
  PROVE  Writes!Next
<1>0. /\ SessionInvariant /\ OwnedTypes /\ AnswersAreCommits /\ user \in Owner
      /\ queues[user] \in Seq(BatchOf(user)) /\ Len(queues[user]) \in Nat
      /\ DOMAIN queues[user] = 1 .. Len(queues[user])
      /\ answered \in Nat /\ Len(pipeline) \in Nat
      /\ Len(pipeline) <= Len(queues[user])
      /\ \A i \in 1 .. Len(pipeline) : pipeline[i] = queues[user][i]
      /\ log \in Seq(CommitRecord)
  BY AnsweredAreQueued DEF LogInvariant
<1> DEFINE k == answered + 1
           p == pipeline[k]
           c == [owner |-> p.owner, n |-> p.n, by |-> p.by,
                 kind |-> p.kind, key |-> p.key, as |-> stream.as]
<1>1. /\ answered < Len(pipeline) /\ log' = Append(log, c) /\ queues' = queues
  BY DEF Commit, clientVars
<1>2. k \in 1 .. Len(queues[user]) /\ p = queues[user][k] /\ p \in BatchOf(user)
  BY <1>0, <1>1
<1>3. p.owner = user /\ p.n = Stored[user][k]
  BY <1>0, <1>2, StoredIs, NumbersOf DEF BatchOf
<1>4. c \in CommitRecord
  <2>1. stream.as \in Owner
    BY <1>0 DEF OwnedTypes, StreamType
  <2> QED
    BY <2>1, <1>2 DEF BatchOf, Batch, CommitRecord
<1>5. c.owner = p.owner /\ c.n = p.n
  OBVIOUS
<1> HIDE DEF c, p
<1>6. Commits' = Append(Commits, <<user, Stored[user][k]>>)
  <2>1. /\ log' \in Seq(CommitRecord) /\ Len(log) \in Nat
        /\ DOMAIN log = 1 .. Len(log)
        /\ DOMAIN log' = 1 .. Len(log) + 1 /\ log'[Len(log) + 1] = c
        /\ \A i \in 1 .. Len(log) : log'[i] = log[i]
    BY <1>0, <1>1, <1>4, Appending
  <2> DEFINE x == <<user, Stored[user][k]>>
             S == Owner \X Nat
             s == Append(Commits, x)
  <2>2. x \in S /\ Commits \in Seq(S) /\ Len(Commits) = Len(log)
    <3>1. Stored[user][k] \in Nat
      BY <1>0, <1>2, StoredIs, NumbersOf
    <3>2. \A i \in 1 .. Len(log) : log[i].owner \in Owner /\ log[i].n \in Nat
      <4>1. \A i \in 1 .. Len(log) : log[i] \in CommitRecord
        BY <1>0, <2>1
      <4> QED
        BY <4>1 DEF CommitRecord
    <3>3. Commits \in [1 .. Len(log) -> S]
      BY <2>1, <3>2 DEF Commits
    <3> DEFINE C == Commits
    <3> HIDE DEF C
    <3>4. C \in [1 .. Len(log) -> S]
      BY <3>3 DEF C
    <3>5. C \in Seq(S) /\ Len(C) = Len(log)
      BY <3>4, <2>1
    <3> QED
      BY <3>1, <3>5, <1>0 DEF C
  <2> HIDE DEF S
  <2>3. /\ DOMAIN s = 1 .. Len(log) + 1 /\ s[Len(log) + 1] = x
        /\ s \in Seq(S)
        /\ \A i \in 1 .. Len(log) : s[i] = Commits[i]
    <3> HIDE DEF x
    <3> QED
      BY <2>2, Appending
  <2>4. \A i \in 1 .. Len(log) : Commits[i] = <<log[i].owner, log[i].n>>
    BY <2>1 DEF Commits
  <2>5. x = <<c.owner, c.n>>
    BY <1>3, <1>5
  <2> HIDE DEF s, x
  <2>6. \A i \in 1 .. Len(log) + 1 : s[i] = <<log'[i].owner, log'[i].n>>
    <3>1. \A i \in 1 .. Len(log) + 1 : i \in 1 .. Len(log) \/ i = Len(log) + 1
      BY <2>1
    <3> QED
      BY <3>1, <2>1, <2>3, <2>4, <2>5
  <2>7. s = [i \in 1 .. Len(log) + 1 |-> <<log'[i].owner, log'[i].n>>]
    <3>1. s = [i \in 1 .. Len(log) + 1 |-> s[i]]
      BY <2>3
    <3> QED
      BY <3>1, <2>6
  <2>8. Commits' = s
    BY <2>1, <2>7 DEF Commits
  <2> QED
    BY <2>8 DEF s, x
<1>7. \A j \in 1 .. k - 1 : Writes!Committed(user, Stored[user][j])
  <2> SUFFICES ASSUME NEW j \in 1 .. k - 1
               PROVE  Writes!Committed(user, Stored[user][j])
    OBVIOUS
  <2>1. j \in 1 .. answered /\ j \in 1 .. Len(queues[user])
    BY <1>0, <1>1
  <2>2. IsCommitted(queues[user][j]) /\ queues[user][j].owner = user
    BY <2>1, <1>0 DEF AnswersAreCommits, BatchOf
  <2>3. Stored[user][j] = queues[user][j].n
    BY <2>1, <1>0, StoredIs, NumbersOf
  <2> QED
    BY <2>2, <2>3, CommittedIs DEF IsCommitted
<1>8. k \in DOMAIN Stored[user]
  BY <1>0, <1>2, StoredIs, NumbersOf
<1>9. Stored' = Stored
  BY <1>1 DEF Stored
<1> HIDE DEF k
<1>10. Writes!Deliver(user, k)
  BY <1>0, <1>6, <1>7, <1>9 DEF Writes!Deliver, Writes!Reaches
<1>11. user \in Owner
  BY <1>0
<1> QED
  BY <1>8, <1>10, <1>11, Zenon DEF Writes!Next

LEMMA AnswerImplements ==
  ASSUME LogInvariant, OnWriteStreamMutationResult
  PROVE  Writes!Next
<1>0. /\ SessionInvariant /\ OwnedTypes /\ AnswersAreCommits /\ user \in Owner
      /\ queues[user] \in Seq(BatchOf(user)) /\ answered \in Nat
      /\ QueuesAreOrdered
  BY AnsweredAreQueued DEF LogInvariant, SessionInvariant
<1>1. /\ queues[user] # <<>> /\ answered > 0 /\ log' = log
      /\ queues' = [queues EXCEPT ![user] = Tail(queues[user])]
  BY <1>0, AnswerAnswers
<1>2. 1 \in 1 .. answered /\ 1 \in DOMAIN queues[user]
  BY <1>0, <1>1, Removing
<1>3. /\ Stored[user] # <<>> /\ Head(Stored[user]) = queues[user][1].n
      /\ Stored' = [Stored EXCEPT ![user] = Tail(Stored[user])]
  <2>1. /\ Numbers(Tail(queues[user])) = Tail(Numbers(queues[user]))
        /\ Numbers(queues[user]) # <<>>
        /\ Head(Numbers(queues[user])) = queues[user][1].n
    BY <1>0, <1>1, NumbersRemoved
  <2>2. Stored' = [Stored EXCEPT ![user] = Numbers(Tail(queues[user]))]
    BY <1>0, <1>1, StoredChanges
  <2>3. Stored[user] = Numbers(queues[user])
    BY <1>0, StoredIs
  <2> QED
    BY <2>1, <2>2, <2>3
<1>4. Writes!Committed(user, queues[user][1].n)
  <2>1. IsCommitted(queues[user][1])
    BY <1>0, <1>2 DEF AnswersAreCommits
  <2>2. queues[user][1].owner = user
    BY <1>0, <1>2 DEF BatchOf
  <2> QED
    BY <2>1, <2>2, CommittedIs DEF IsCommitted
<1>5. queues[user][1].n # 0
  BY <1>0, <1>2 DEF QueuesAreOrdered
<1>6. Writes!Answer(user)
  BY <1>0, <1>1, <1>3, <1>4, <1>5 DEF Writes!Answer, Commits
<1> QED
  BY <1>0, <1>6 DEF Writes!Next

LEMMA LogRests ==
  ASSUME queues' = queues, log' = log
  PROVE  UNCHANGED Writes!writeLogVars
BY DEF Writes!writeLogVars, Stored, Commits

LEMMA KillRests ==
  ASSUME LogInvariant, Kill
  PROVE  UNCHANGED Writes!writeLogVars
<1>0. \A u \in Owner : queues[u] \in Seq(BatchOf(u))
  BY DEF LogInvariant, SessionInvariant, OwnershipInvariant, OwnedTypes
<1>1. /\ log' = log
      /\ queues' = [v \in Owner |->
                     [i \in DOMAIN queues[v] |->
                        [queues[v][i] EXCEPT !.live = FALSE]]]
  BY DEF Kill
<1>2. ASSUME NEW u \in Owner PROVE Numbers(queues'[u]) = Numbers(queues[u])
  <2>1. \A i \in DOMAIN queues[u] : queues[u][i] \in Batch
    <3>1. queues[u] \in Seq(BatchOf(u))
      BY <1>0, <1>2
    <3>2. \A i \in DOMAIN queues[u] : queues[u][i] \in BatchOf(u)
      BY <3>1
    <3> QED
      BY <3>2 DEF BatchOf
  <2>2. /\ DOMAIN queues'[u] = DOMAIN queues[u]
        /\ \A i \in DOMAIN queues[u] : queues'[u][i].n = queues[u][i].n
    BY <1>1, <1>2, <2>1 DEF Batch
  <2> QED
    BY <2>2 DEF Numbers
<1>3. Stored' = Stored
  BY <1>2, StoredIs
<1> QED
  BY <1>1, <1>3 DEF Writes!writeLogVars, Commits

LEMMA NextImplements ==
  ASSUME LogInvariant, [Next]_sessionVars
  PROVE  [Writes!Next]_Writes!writeLogVars
<1>0. SessionInvariant /\ OwnedTypes
  BY DEF LogInvariant, SessionInvariant, OwnershipInvariant
<1>1. CASE UNCHANGED sessionVars
  BY <1>1, LogRests DEF sessionVars
<1>2. CASE User
  BY <1>2, LogRests DEF User, Type, PressButton, SendMessage, SignUserOut, clientVars
<1>3. CASE Authentication
  <2>1. queues' = queues /\ log' = log
    BY <1>3, Zenon
    DEF Authentication, CreateAccount, CompleteSignIn, ReadToken,
        DispatchToken, clientVars
  <2> QED
    BY <2>1, LogRests
<1>4. CASE RunMain \/ OnWriteStreamHandshakeComplete
  BY <1>4, LogRests DEF RunMain, OnWriteStreamHandshakeComplete, clientVars
<1>5. CASE \/ RunTask /\ Head(worker).kind \in {"user", "resume"}
           \/ OnWriteStreamClose \/ IdleTimerFires \/ BackoffElapses
  BY <1>5, <1>0, RestAnswers, LogRests
<1>6. CASE RunTask
  BY <1>0, <1>5, <1>6, WorkerHead, StoreImplements DEF Task
<1>7. CASE Commit \/ OnWriteStreamMutationResult
  BY <1>7, CommitImplements, AnswerImplements
<1>8. CASE Kill
  BY <1>8, KillRests
<1> QED
  BY <1>1, <1>2, <1>3, <1>4, <1>5, <1>6, <1>7, <1>8 DEF Next, Background

LEMMA InitImplements ==
  ASSUME Init
  PROVE  Writes!Init
<1>1. log = <<>> /\ queues = [u \in Owner |-> <<>>]
  BY DEF Init
<1>2. DOMAIN log = {} /\ \A u \in Owner : DOMAIN queues[u] = {}
  BY <1>1
<1>3. Commits = <<>>
  BY <1>2 DEF Commits
<1>4. Stored = [u \in Owner |-> <<>>]
  BY <1>2 DEF Stored
<1> QED
  BY <1>3, <1>4 DEF Writes!Init

(***************************************************************************)
(* Whoever signs in and out, the writes of each user are a log of their    *)
(* own: each step of the client, its streams and the server is a step of   *)
(* WriteLog with one outbox for each user, or leaves it alone.             *)
(***************************************************************************)
THEOREM SessionImplementsWriteLog == SessionSpec => ImplementsWriteLog
<1>1. LogInvariant /\ [Next]_sessionVars => [Writes!Next]_Writes!writeLogVars
  BY NextImplements
<1> QED
  BY <1>1, InitImplements, WritesAreNumbered, PTL
  DEF SessionSpec, ImplementsWriteLog, Writes!Spec

(***************************************************************************)
(* Hence the server takes the writes of a user for the first time in the   *)
(* order in which he made them, over all his sessions, although others     *)
(* were signed in between and some writes were committed again.            *)
(***************************************************************************)
InOrderMade ==
  \A j \in DOMAIN log :
    (\A i \in 1 .. j - 1 : <<log[i].owner, log[i].n>> # <<log[j].owner, log[j].n>>) =>
      \A i \in 1 .. j - 1 : log[i].owner = log[j].owner => log[i].n < log[j].n

Proved == INSTANCE WriteLogProofs WITH
  Device <- Owner,
  Number <- 1 .. 2 * MaxMessages + MaxSignIns,
  outbox <- Stored,
  log <- Commits,
  refused <- [u \in Owner |-> 0]

THEOREM WritesAreCommittedInOrder == SessionSpec => []InOrderMade
<1>1. 1 .. 2 * MaxMessages + MaxSignIns \subseteq Nat \ {0}
  OBVIOUS
<1>2. Proved!Spec => []Proved!FirstCommitsInOrder
  BY <1>1, Proved!CommitsAreOrdered
<1>3. Writes!Init => Proved!Init
  BY DEF Writes!Init, Proved!Init
<1>4. Writes!Next => Proved!Next
  BY DEF Writes!Next, Proved!Next, Writes!Store, Proved!Store, Writes!Deliver,
         Proved!Deliver, Writes!Refuse, Proved!Refuse, Writes!Forget,
         Proved!Forget, Writes!Answer, Proved!Answer, Writes!Reaches,
         Proved!Reaches, Writes!Committed, Proved!Committed, Writes!Range,
         Proved!Range
<1>5. UNCHANGED Writes!writeLogVars => UNCHANGED Proved!writeLogVars
  BY DEF Writes!writeLogVars, Proved!writeLogVars
<1>6. Writes!Spec => Proved!Spec
  BY <1>3, <1>4, <1>5, PTL DEF Writes!Spec, Proved!Spec
<1>7. Proved!FirstCommitsInOrder /\ LogInvariant => InOrderMade
  <2> SUFFICES ASSUME Proved!FirstCommitsInOrder, LogInvariant,
                      NEW j \in DOMAIN log,
                      \A i \in 1 .. j - 1 :
                        <<log[i].owner, log[i].n>> # <<log[j].owner, log[j].n>>,
                      NEW i \in 1 .. j - 1, log[i].owner = log[j].owner
               PROVE  log[i].n < log[j].n
    BY DEF InOrderMade
  <2>1. /\ DOMAIN log = 1 .. Len(log) /\ Len(log) \in Nat
        /\ \A k \in DOMAIN log : Commits[k] = <<log[k].owner, log[k].n>>
        /\ DOMAIN Commits = DOMAIN log
    BY AnsweredAreQueued DEF LogInvariant, Commits
  <2>2. \A k \in 1 .. j - 1 : k \in DOMAIN log
    BY <2>1
  <2>3. Proved!FirstCommit(j)
    BY <2>1, <2>2 DEF Proved!FirstCommit
  <2>4. Commits[i][1] = Commits[j][1] /\ Commits[i][2] = log[i].n /\ Commits[j][2] = log[j].n
    BY <2>1, <2>2
  <2> QED
    BY <2>1, <2>2, <2>3, <2>4 DEF Proved!FirstCommitsInOrder
<1> QED
  BY <1>2, <1>6, <1>7, SessionImplementsWriteLog, WritesAreNumbered, PTL
  DEF ImplementsWriteLog

-----------------------------------------------------------------------------
(***************************************************************************)
(* A start has one token: what is under way keeps to its place, but for    *)
(* the token that is read, handed on or used up.                           *)
(***************************************************************************)
BlocksFollow(s) ==
  \A i \in DOMAIN main' :
    main'[i].kind = "token" => i + s \in DOMAIN main /\ main'[i] = main[i + s]

TasksMove(t) ==
  \A i \in DOMAIN worker' :
    worker'[i].kind = "resume" =>
      i + t \in DOMAIN worker /\ worker'[i] = worker[i + t]

LEMMA QueueTypes ==
  ASSUME OwnedTypes
  PROVE  /\ main \in Seq(Block) /\ Len(main) \in Nat /\ DOMAIN main = 1 .. Len(main)
         /\ worker \in Seq(Task) /\ Len(worker) \in Nat
         /\ DOMAIN worker = 1 .. Len(worker)
<1>1. main \in Seq(Block) /\ worker \in Seq(Task)
  BY DEF OwnedTypes
<1> QED
  BY <1>1

LEMMA SameFollow ==
  ASSUME OwnedTypes
  PROVE  /\ main' = main => BlocksFollow(0)
         /\ worker' = worker => TasksMove(0)
<1>1. \A i \in DOMAIN main : i + 0 = i
  BY QueueTypes
<1>2. \A i \in DOMAIN worker : i + 0 = i
  BY QueueTypes
<1> QED
  BY <1>1, <1>2 DEF BlocksFollow, TasksMove

LEMMA LongerFollow ==
  ASSUME OwnedTypes
  PROVE  /\ \A b :
              main' = Append(main, b) /\ b.kind # "token" => BlocksFollow(0)
         /\ \A task :
              worker' = Append(worker, task) /\ task.kind # "resume" =>
                TasksMove(0)
<1>1. ASSUME NEW b, main' = Append(main, b), b.kind # "token"
      PROVE  BlocksFollow(0)
  <2>1. /\ Len(main) \in Nat
        /\ DOMAIN main = 1 .. Len(main)
        /\ DOMAIN main' = 1 .. Len(main) + 1
        /\ main'[Len(main) + 1] = b
        /\ \A i \in 1 .. Len(main) : main'[i] = main[i]
    <3>1. main \in Seq(Block \cup {b})
      BY QueueTypes
    <3> QED
      BY <1>1, <3>1, Appending
  <2>2. \A i \in DOMAIN main' : i + 0 = i /\ (i \in DOMAIN main \/ main'[i] = b)
    BY <2>1
  <2> QED
    BY <2>1, <2>2, <1>1 DEF BlocksFollow
<1>2. ASSUME NEW task, worker' = Append(worker, task), task.kind # "resume"
      PROVE  TasksMove(0)
  <2>1. /\ Len(worker) \in Nat
        /\ DOMAIN worker = 1 .. Len(worker)
        /\ DOMAIN worker' = 1 .. Len(worker) + 1
        /\ worker'[Len(worker) + 1] = task
        /\ \A i \in 1 .. Len(worker) : worker'[i] = worker[i]
    <3>1. worker \in Seq(Task \cup {task})
      BY QueueTypes
    <3> QED
      BY <1>2, <3>1, Appending
  <2>2. \A i \in DOMAIN worker' :
          i + 0 = i /\ (i \in DOMAIN worker \/ worker'[i] = task)
    BY <2>1
  <2> QED
    BY <2>1, <2>2, <1>2 DEF TasksMove
<1> QED
  BY <1>1, <1>2

LEMMA ShorterFollow ==
  ASSUME OwnedTypes
  PROVE  /\ main # <<>> /\ main' = Tail(main) => BlocksFollow(1)
         /\ worker # <<>> /\ worker' = Tail(worker) => TasksMove(1)
<1>1. ASSUME main # <<>>, main' = Tail(main) PROVE BlocksFollow(1)
  <2>1. /\ Len(main) \in Nat \ {0}
        /\ DOMAIN main = 1 .. Len(main)
        /\ DOMAIN main' = 1 .. Len(main) - 1
        /\ \A i \in 1 .. Len(main) - 1 : main'[i] = main[i + 1]
    BY <1>1, QueueTypes, Removing
  <2> QED
    BY <2>1 DEF BlocksFollow
<1>2. ASSUME worker # <<>>, worker' = Tail(worker) PROVE TasksMove(1)
  <2>1. /\ Len(worker) \in Nat \ {0}
        /\ DOMAIN worker = 1 .. Len(worker)
        /\ DOMAIN worker' = 1 .. Len(worker) - 1
        /\ \A i \in 1 .. Len(worker) - 1 : worker'[i] = worker[i + 1]
    BY <1>2, QueueTypes, Removing
  <2> QED
    BY <2>1 DEF TasksMove
<1> QED
  BY <1>1, <1>2

(***************************************************************************)
(* A step that asks for no token and starts no stream.                     *)
(***************************************************************************)
LEMMA StartGoesOn ==
  ASSUME OwnedTypes, OwnedTypes', StartHasOneToken, NEW s \in Nat, NEW t \in Nat,
         BlocksFollow(s), TasksMove(t), requests' \subseteq requests,
         stream'.closes = stream.closes,
         stream.state = "starting" =>
           \/ stream'.state = "starting"
           \/ RequestsOfStart' = {} /\ BlocksOfStart' = {} /\ TasksOfStart' = {}
  PROVE  StartHasOneToken'
<1>1. \A r \in RequestsOfStart' : r \in RequestsOfStart
  BY DEF RequestsOfStart
<1>2. \A i \in BlocksOfStart' : i \in Nat /\ i + s \in BlocksOfStart
  <2>1. DOMAIN main' \subseteq Nat
    <3>1. main' \in Seq(Block)
      BY DEF OwnedTypes
    <3> QED
      BY <3>1
  <2> QED
    BY <2>1 DEF BlocksOfStart, BlocksFollow
<1>3. \A i \in TasksOfStart' : i \in Nat /\ i + t \in TasksOfStart
  <2>1. DOMAIN worker' \subseteq Nat
    <3>1. worker' \in Seq(Task)
      BY DEF OwnedTypes
    <3> QED
      BY <3>1
  <2> QED
    BY <2>1 DEF TasksOfStart, TasksMove
<1>4. \A i, j \in BlocksOfStart' : i = j
  <2> SUFFICES ASSUME NEW i \in BlocksOfStart', NEW j \in BlocksOfStart'
               PROVE  i = j
    OBVIOUS
  <2>1. i + s = j + s
    BY <1>2 DEF StartHasOneToken
  <2> QED
    BY <2>1, <1>2
<1>5. \A i, j \in TasksOfStart' : i = j
  <2> SUFFICES ASSUME NEW i \in TasksOfStart', NEW j \in TasksOfStart'
               PROVE  i = j
    OBVIOUS
  <2>1. i + t = j + t
    BY <1>3 DEF StartHasOneToken
  <2> QED
    BY <2>1, <1>3
<1>6. /\ RequestsOfStart = {} => RequestsOfStart' = {}
      /\ BlocksOfStart = {} => BlocksOfStart' = {}
      /\ TasksOfStart = {} => TasksOfStart' = {}
  BY <1>1, <1>2, <1>3
<1>7. \A q, r \in RequestsOfStart' : q = r
  BY <1>1 DEF StartHasOneToken
<1>8. StartHasOneToken
  OBVIOUS
<1>9. /\ RequestsOfStart' = {} \/ BlocksOfStart' = {}
      /\ RequestsOfStart' = {} \/ TasksOfStart' = {}
      /\ BlocksOfStart' = {} \/ TasksOfStart' = {}
  BY <1>6, <1>8, Zenon DEF StartHasOneToken
<1>10. stream'.state # "starting" =>
         RequestsOfStart' = {} /\ BlocksOfStart' = {} /\ TasksOfStart' = {}
  BY <1>6, <1>8, Zenon DEF StartHasOneToken
<1> QED
  BY <1>4, <1>5, <1>7, <1>9, <1>10 DEF StartHasOneToken

(***************************************************************************)
(* A stream that is closed, or was not started, and starts perhaps.        *)
(***************************************************************************)
LEMMA StartIsNew ==
  ASSUME OwnershipInvariant, OwnedTypes', NEW s \in Nat, NEW t \in Nat,
         BlocksFollow(s), TasksMove(t), NEW cl, NEW rt,
         \/ cl.stream.closes = stream.closes + 1
         \/ /\ stream.state \notin {"starting", "connecting", "open"}
            /\ cl.stream.closes = stream.closes,
         cl.stream.state \in {"initial", "error"},
         cl.requests = requests,
         MayStart(cl, rt), stream' = rt.stream, requests' = rt.requests
  PROVE  StartHasOneToken'
<1>0. OwnedTypes /\ TokensBelongToStarts
  BY DEF OwnershipInvariant
<1>1. \A c \in Nat : BelongsToStart(c, stream) => c # stream'.closes
  BY CloseMoves
<1>2. BlocksOfStart' = {}
  <2> SUFFICES ASSUME NEW i \in BlocksOfStart' PROVE FALSE
    OBVIOUS
  <2>1. /\ i + s \in DOMAIN main /\ main[i + s].kind = "token"
        /\ main[i + s].request.closes = stream'.closes
    BY DEF BlocksOfStart, BlocksFollow
  <2>2. main[i + s] \in Block
    BY <1>0, <2>1, QueueTypes
  <2>3. main[i + s].request.closes \in Nat
    BY <2>1, <2>2 DEF Block, Token
  <2> QED
    BY <1>0, <1>1, <2>1, <2>3 DEF TokensBelongToStarts
<1>3. TasksOfStart' = {}
  <2> SUFFICES ASSUME NEW i \in TasksOfStart' PROVE FALSE
    OBVIOUS
  <2>1. /\ i + t \in DOMAIN worker /\ worker[i + t].kind = "resume"
        /\ worker[i + t].closes = stream'.closes
    BY DEF TasksOfStart, TasksMove
  <2>2. worker[i + t] \in Task
    BY <1>0, <2>1, QueueTypes
  <2>3. worker[i + t].closes \in Nat
    BY <2>1, <2>2 DEF Task
  <2> QED
    BY <1>0, <1>1, <2>1, <2>3 DEF TokensBelongToStarts
<1>4. \A r \in requests : r.closes # stream'.closes
  <2>1. \A r \in requests : r.closes \in Nat
    BY <1>0 DEF OwnedTypes, Token
  <2> QED
    BY <1>0, <1>1, <2>1 DEF TokensBelongToStarts
<1>5. ~IsStarted(cl.stream)
  BY DEF IsStarted
<1>6. CASE requests' = requests
  <2>1. RequestsOfStart' = {}
    BY <1>4, <1>6 DEF RequestsOfStart
  <2> QED
    BY <1>2, <1>3, <2>1 DEF StartHasOneToken
<1>7. CASE stream'.state = "starting" /\ \E r : requests' = requests \cup {r}
  <2>1. PICK r : requests' = requests \cup {r}
    BY <1>7
  <2>2. \A q \in RequestsOfStart' : q = r
    BY <1>4, <2>1 DEF RequestsOfStart
  <2> QED
    BY <1>2, <1>3, <1>7, <2>2 DEF StartHasOneToken
<1> QED
  BY <1>6, <1>7 DEF MayStart

(***************************************************************************)
(* The stream, its token and the pipeline, of a client that rests.         *)
(***************************************************************************)
LEMMA SameFull ==
  ASSUME PipelineIsFull, queues' = queues, user' = user, pipeline' = pipeline,
         answered' = answered, stream' = stream
  PROVE  PipelineIsFull'
BY DEF PipelineIsFull

FlowInvariant == StartHasOneToken /\ PipelineIsFull

LEMMA FlowRests ==
  ASSUME OwnedTypes, OwnedTypes', FlowInvariant, queues' = queues, user' = user,
         pipeline' = pipeline, answered' = answered, stream' = stream,
         requests' \subseteq requests, NEW s \in Nat, NEW t \in Nat,
         BlocksFollow(s), TasksMove(t)
  PROVE  FlowInvariant'
<1>1. StartHasOneToken'
  BY StartGoesOn DEF FlowInvariant
<1> QED
  BY <1>1, SameFull DEF FlowInvariant

-----------------------------------------------------------------------------
(***************************************************************************)
(* The user, and the queue of FIRAuth.                                     *)
(***************************************************************************)
LEMMA ToldFollow ==
  ASSUME OwnershipInvariant, NEW u \in Owner, NEW completion,
         completion = <<>> \/ \E a \in Attempt :
           completion = <<[kind |-> "signedIn", attempt |-> a]>>,
         UpdateCurrentUser(u, completion), worker' = worker, user' = user,
         stream' = stream, requests' = requests, log' = log
  PROVE  BlocksFollow(0)
<1>1. \A i \in DOMAIN main' :
        main'[i].kind = "token" => i \in DOMAIN main /\ main'[i] = main[i]
  BY UpdateCurrentUserKeeps
<1>2. \A i \in DOMAIN main : i + 0 = i
  BY QueueTypes DEF OwnershipInvariant
<1> QED
  BY <1>1, <1>2 DEF BlocksFollow

LEMMA UserFlows ==
  ASSUME SessionInvariant, SessionInvariant', FlowInvariant, User
  PROVE  FlowInvariant'
<1>0. /\ OwnershipInvariant /\ OwnedTypes /\ OwnedTypes'
  BY DEF SessionInvariant, OwnershipInvariant
<1>1. ASSUME NEW u \in Account, Type(u) PROVE FlowInvariant'
  BY <1>0, <1>1, SameFollow, FlowRests DEF Type, clientVars
<1>2. ASSUME NEW how \in {"createUser", "signIn"}, PressButton(how)
      PROVE  FlowInvariant'
  BY <1>0, <1>2, SameFollow, FlowRests DEF PressButton, clientVars
<1>3. CASE SendMessage
  <2> DEFINE task == [kind |-> "write",
                      write |-> [n |-> made.writes + 1, by |-> auth,
                                 kind |-> "message",
                                 key |-> <<"messages", made.messages + 1>>]]
  <2>1. worker' = Append(worker, task) /\ task.kind # "resume"
    BY <1>3 DEF SendMessage, Enqueue
  <2> HIDE DEF task
  <2>2. TasksMove(0)
    BY <1>0, <2>1, LongerFollow
  <2>3. BlocksFollow(0)
    BY <1>0, <1>3, SameFollow DEF SendMessage
  <2> QED
    BY <1>0, <1>3, <2>2, <2>3, FlowRests DEF SendMessage, clientVars
<1>4. CASE SignUserOut
  <2>1. /\ worker' = worker /\ user' = user /\ stream' = stream
        /\ requests' = requests /\ log' = log /\ queues' = queues
        /\ pipeline' = pipeline /\ answered' = answered
    BY <1>4 DEF SignUserOut, clientVars
  <2>2. BlocksFollow(0)
    <3>1. CASE UpdateCurrentUser(NoUser, <<>>)
      BY <1>0, <2>1, <3>1, ToldFollow DEF Owner
    <3>2. CASE main' = main
      BY <1>0, <3>2, SameFollow
    <3> QED
      BY <1>4, <3>1, <3>2 DEF SignUserOut
  <2>3. TasksMove(0)
    BY <1>0, <2>1, SameFollow
  <2> QED
    BY <1>0, <2>1, <2>2, <2>3, FlowRests
<1> QED
  BY <1>1, <1>2, <1>3, <1>4 DEF User

LEMMA ReadTokenFlows ==
  ASSUME SessionInvariant, FlowInvariant, NEW r \in requests, ReadToken(r)
  PROVE  FlowInvariant'
<1>0. OwnedTypes
  BY DEF SessionInvariant, OwnershipInvariant
<1> DEFINE read == [r EXCEPT !.who = auth, !.read = TRUE]
<1>1. read.closes = r.closes
  BY <1>0 DEF OwnedTypes, Token
<1>2. requests' = (requests \ {r}) \cup {read}
  BY DEF ReadToken
<1> HIDE DEF read
<1>3. /\ main' = main /\ worker' = worker /\ stream' = stream
      /\ user' = user /\ queues' = queues /\ pipeline' = pipeline
      /\ answered' = answered
  BY DEF ReadToken, clientVars
<1>4. BlocksOfStart' = BlocksOfStart /\ TasksOfStart' = TasksOfStart
  BY <1>3 DEF BlocksOfStart, TasksOfStart
<1>5. RequestsOfStart = {} => RequestsOfStart' = {}
  BY <1>1, <1>2, <1>3 DEF RequestsOfStart
<1>6. \A p, q \in RequestsOfStart' : p = q
  BY <1>1, <1>2, <1>3 DEF RequestsOfStart, StartHasOneToken, FlowInvariant
<1>7. StartHasOneToken'
  BY <1>3, <1>4, <1>5, <1>6 DEF StartHasOneToken, FlowInvariant
<1> QED
  BY <1>3, <1>7, SameFull DEF FlowInvariant

LEMMA DispatchTokenFlows ==
  ASSUME SessionInvariant, SessionInvariant', FlowInvariant, NEW r \in requests,
         DispatchToken(r)
  PROVE  FlowInvariant'
<1>0. OwnedTypes /\ OwnedTypes'
  BY DEF SessionInvariant, OwnershipInvariant
<1> DEFINE block == [kind |-> "token", request |-> r]
<1>1. block \in Block /\ block.kind = "token" /\ block.request = r
  BY <1>0 DEF OwnedTypes, Block
<1>2. main' = Append(main, block) /\ requests' = requests \ {r}
  BY DEF DispatchToken
<1> HIDE DEF block
<1>3. /\ worker' = worker /\ stream' = stream
      /\ user' = user /\ queues' = queues /\ pipeline' = pipeline
      /\ answered' = answered
  BY DEF DispatchToken, clientVars
<1>4. /\ Len(main) \in Nat
      /\ DOMAIN main = 1 .. Len(main)
      /\ DOMAIN main' = 1 .. Len(main) + 1
      /\ main'[Len(main) + 1] = block
      /\ \A i \in 1 .. Len(main) : main'[i] = main[i]
  BY <1>0, <1>1, <1>2, QueueTypes, Appending
<1>5. TasksOfStart' = TasksOfStart
  BY <1>3 DEF TasksOfStart
<1>6. \A i \in DOMAIN main' : i \in DOMAIN main \/ i = Len(main) + 1
  BY <1>4
<1>7. CASE r.closes = stream.closes
  <2>1. /\ r \in RequestsOfStart
        /\ \A q \in RequestsOfStart : q = r
        /\ BlocksOfStart = {} /\ TasksOfStart = {}
    BY <1>7 DEF RequestsOfStart, StartHasOneToken, FlowInvariant
  <2>2. RequestsOfStart' = {}
    BY <1>2, <1>3, <2>1 DEF RequestsOfStart
  <2>3. \A i \in BlocksOfStart' : i = Len(main) + 1
    BY <1>3, <1>4, <1>6, <2>1 DEF BlocksOfStart
  <2>4. stream'.state = "starting"
    BY <1>3, <2>1 DEF StartHasOneToken, FlowInvariant
  <2> QED
    BY <1>3, <1>5, <2>1, <2>2, <2>3, <2>4, SameFull
    DEF StartHasOneToken, FlowInvariant
<1>8. CASE r.closes # stream.closes
  <2>1. \A i \in BlocksOfStart' : i \in BlocksOfStart
    BY <1>1, <1>3, <1>4, <1>6, <1>8 DEF BlocksOfStart
  <2>2. \A q \in RequestsOfStart' : q \in RequestsOfStart
    BY <1>2, <1>3 DEF RequestsOfStart
  <2> QED
    BY <1>3, <1>5, <2>1, <2>2, SameFull DEF StartHasOneToken, FlowInvariant
<1> QED
  BY <1>7, <1>8

LEMMA AuthenticationFlows ==
  ASSUME SessionInvariant, SessionInvariant', FlowInvariant, Authentication
  PROVE  FlowInvariant'
<1>0. /\ OwnershipInvariant /\ OwnedTypes /\ OwnedTypes'
  BY DEF SessionInvariant, OwnershipInvariant
<1>1. ASSUME NEW a \in attempts, CreateAccount(a) PROVE FlowInvariant'
  BY <1>0, <1>1, SameFollow, FlowRests DEF CreateAccount, clientVars
<1>2. ASSUME NEW a \in attempts, CompleteSignIn(a) PROVE FlowInvariant'
  <2>1. /\ worker' = worker /\ user' = user /\ stream' = stream
        /\ requests' = requests /\ log' = log /\ queues' = queues
        /\ pipeline' = pipeline /\ answered' = answered
    BY <1>2 DEF CompleteSignIn, clientVars
  <2>2. a \in Attempt /\ a.email \in Owner
    BY <1>0 DEF OwnedTypes, Attempt
  <2>3. BlocksFollow(0)
    <3>1. CASE UpdateCurrentUser(a.email, <<[kind |-> "signedIn", attempt |-> a]>>)
      BY <1>0, <2>1, <2>2, <3>1, ToldFollow
    <3>2. CASE main' = main
      BY <1>0, <3>2, SameFollow
    <3> QED
      BY <1>2, <3>1, <3>2 DEF CompleteSignIn
  <2>4. TasksMove(0)
    BY <1>0, <2>1, SameFollow
  <2> QED
    BY <1>0, <2>1, <2>3, <2>4, FlowRests
<1>3. ASSUME NEW r \in requests, ReadToken(r) PROVE FlowInvariant'
  BY <1>3, ReadTokenFlows
<1>4. ASSUME NEW r \in requests, DispatchToken(r) PROVE FlowInvariant'
  BY <1>4, DispatchTokenFlows
<1> QED
  BY <1>1, <1>2, <1>3, <1>4, Zenon DEF Authentication

-----------------------------------------------------------------------------
(***************************************************************************)
(* The main queue.                                                         *)
(***************************************************************************)
LEMMA HearTokenFlows ==
  ASSUME SessionInvariant, SessionInvariant', FlowInvariant, RunMain,
         Head(main).kind = "token"
  PROVE  FlowInvariant'
<1>0. OwnedTypes /\ OwnedTypes'
  BY DEF SessionInvariant, OwnershipInvariant
<1>1. /\ Head(main) \in Block /\ main # <<>> /\ main' = Tail(main)
      /\ 1 \in DOMAIN main /\ Head(main) = main[1] /\ stream' = stream
  BY <1>0, MainHead
<1>2. /\ user' = user /\ queues' = queues /\ pipeline' = pipeline
      /\ answered' = answered
  BY DEF RunMain, clientVars
<1> DEFINE r == main[1].request
<1>3. HearToken(r) /\ r \in Token
  BY <1>1 DEF RunMain, Block
<1>4. BlocksFollow(1)
  BY <1>0, <1>1, ShorterFollow
<1>5. PipelineIsFull'
  BY <1>1, <1>2, SameFull DEF FlowInvariant
<1>6. CASE r.closes = stream.closes
  <2>1. 1 \in BlocksOfStart
    BY <1>1, <1>6 DEF BlocksOfStart
  <2>2. /\ \A i \in BlocksOfStart : i = 1
        /\ RequestsOfStart = {} /\ TasksOfStart = {}
        /\ stream.state = "starting"
    BY <2>1 DEF StartHasOneToken, FlowInvariant
  <2>3. BlocksOfStart' = {}
    <3> SUFFICES ASSUME NEW i \in BlocksOfStart' PROVE FALSE
      OBVIOUS
    <3>1. i \in DOMAIN main' /\ i + 1 \in BlocksOfStart
      BY <1>1, <1>4 DEF BlocksOfStart, BlocksFollow
    <3>2. i \in Nat \ {0}
      <4>1. main' \in Seq(Block)
        BY <1>0 DEF OwnedTypes
      <4> QED
        BY <3>1, <4>1
    <3> QED
      BY <2>2, <3>1, <3>2
  <2>4. CASE requests' = requests \cup {Request(r.closes)} /\ worker' = worker
    <3>1. \A q \in RequestsOfStart' : q = Request(r.closes)
      BY <1>1, <2>2, <2>4 DEF RequestsOfStart
    <3>2. TasksOfStart' = {}
      BY <1>1, <2>2, <2>4 DEF TasksOfStart
    <3> QED
      BY <1>1, <1>5, <2>2, <2>3, <3>1, <3>2 DEF StartHasOneToken, FlowInvariant
  <2>5. CASE /\ Enqueue([kind |-> "resume", who |-> r.who, closes |-> r.closes])
             /\ requests' = requests
    <3> DEFINE task == [kind |-> "resume", who |-> r.who, closes |-> r.closes]
    <3>1. worker' = Append(worker, task) /\ task \in Task
      BY <1>3, <2>5 DEF Enqueue, Token, Task
    <3> HIDE DEF task
    <3>2. /\ Len(worker) \in Nat
          /\ DOMAIN worker = 1 .. Len(worker)
          /\ DOMAIN worker' = 1 .. Len(worker) + 1
          /\ \A i \in 1 .. Len(worker) : worker'[i] = worker[i]
      BY <1>0, <3>1, QueueTypes, Appending
    <3>3. \A i \in DOMAIN worker' : i \in DOMAIN worker \/ i = Len(worker) + 1
      BY <3>2
    <3>4. \A i \in TasksOfStart' : i = Len(worker) + 1
      BY <1>1, <2>2, <3>2, <3>3 DEF TasksOfStart
    <3>5. RequestsOfStart' = {}
      BY <1>1, <2>2, <2>5 DEF RequestsOfStart
    <3> QED
      BY <1>1, <1>5, <2>2, <2>3, <3>4, <3>5 DEF StartHasOneToken, FlowInvariant
  <2> QED
    BY <1>3, <2>4, <2>5 DEF HearToken
<1>7. CASE r.closes # stream.closes
  <2>1. \A i \in BlocksOfStart' : i \in Nat /\ i + 1 \in BlocksOfStart
    <3>1. DOMAIN main' \subseteq Nat
      <4>1. main' \in Seq(Block)
        BY <1>0 DEF OwnedTypes
      <4> QED
        BY <4>1
    <3> QED
      BY <1>1, <1>4, <3>1 DEF BlocksOfStart, BlocksFollow
  <2>2. RequestsOfStart' = RequestsOfStart
    <3>1. CASE requests' = requests
      BY <1>1, <3>1 DEF RequestsOfStart
    <3>2. CASE requests' = requests \cup {Request(r.closes)}
      BY <1>1, <1>7, <3>2 DEF RequestsOfStart, Request
    <3> QED
      BY <1>3, <3>1, <3>2 DEF HearToken
  <2>3. TasksOfStart' = TasksOfStart
    <3>1. CASE worker' = worker
      BY <1>1, <3>1 DEF TasksOfStart
    <3>2. CASE Enqueue([kind |-> "resume", who |-> r.who, closes |-> r.closes])
      <4> DEFINE task == [kind |-> "resume", who |-> r.who, closes |-> r.closes]
      <4>1. /\ worker' = Append(worker, task) /\ task \in Task
            /\ task.closes = r.closes
        BY <1>3, <3>2 DEF Enqueue, Token, Task
      <4> HIDE DEF task
      <4>2. /\ Len(worker) \in Nat
            /\ DOMAIN worker = 1 .. Len(worker)
            /\ DOMAIN worker' = 1 .. Len(worker) + 1
            /\ worker'[Len(worker) + 1] = task
            /\ \A i \in 1 .. Len(worker) : worker'[i] = worker[i]
        BY <1>0, <4>1, QueueTypes, Appending
      <4>3. \A i \in DOMAIN worker' : i \in DOMAIN worker \/ i = Len(worker) + 1
        BY <4>2
      <4>4. \A i \in DOMAIN worker : i \in DOMAIN worker'
        BY <4>2
      <4> QED
        BY <1>1, <1>7, <4>1, <4>2, <4>3, <4>4 DEF TasksOfStart
    <3> QED
      BY <1>3, <3>1, <3>2 DEF HearToken
  <2>4. \A i, j \in BlocksOfStart' : i = j
    <3> SUFFICES ASSUME NEW i \in BlocksOfStart', NEW j \in BlocksOfStart'
                 PROVE  i = j
      OBVIOUS
    <3>1. i + 1 = j + 1
      BY <2>1 DEF StartHasOneToken, FlowInvariant
    <3> QED
      BY <2>1, <3>1
  <2>5. BlocksOfStart = {} => BlocksOfStart' = {}
    BY <2>1
  <2>6. StartHasOneToken'
    BY <1>1, <2>2, <2>3, <2>4, <2>5 DEF StartHasOneToken, FlowInvariant
  <2> QED
    BY <1>5, <2>6 DEF FlowInvariant
<1> QED
  BY <1>6, <1>7

LEMMA WriteFollows ==
  ASSUME OwnedTypes, NEW kind, NEW key, NEW by, Write(kind, key, by)
  PROVE  TasksMove(0)
<1> DEFINE task == [kind |-> "write",
                    write |-> [n |-> made.writes + 1, by |-> by, kind |-> kind,
                               key |-> key]]
<1>1. worker' = Append(worker, task) /\ task.kind # "resume"
  BY DEF Write, Enqueue
<1> HIDE DEF task
<1> QED
  BY <1>1, LongerFollow

LEMMA RunMainFlows ==
  ASSUME SessionInvariant, SessionInvariant', FlowInvariant, RunMain
  PROVE  FlowInvariant'
<1>0. OwnedTypes /\ OwnedTypes'
  BY DEF SessionInvariant, OwnershipInvariant
<1>1. /\ Head(main) \in Block /\ main # <<>> /\ main' = Tail(main)
      /\ stream' = stream
  BY <1>0, MainHead
<1>2. /\ user' = user /\ queues' = queues /\ pipeline' = pipeline
      /\ answered' = answered
  BY DEF RunMain, clientVars
<1>3. BlocksFollow(1)
  BY <1>0, <1>1, ShorterFollow
<1>4. ASSUME Head(main).kind \in {"changed", "signedIn", "handler"}
      PROVE  requests' = requests /\ TasksMove(0)
  <2>1. TasksMove(0)
    <3>1. CASE Head(main).kind = "changed"
      <4> DEFINE task == [kind |-> "user", user |-> Head(main).user]
      <4>1. worker' = Append(worker, task) /\ task.kind # "resume"
        BY <3>1 DEF RunMain, HearChange, Enqueue
      <4> HIDE DEF task
      <4> QED
        BY <1>0, <4>1, LongerFollow
    <3>2. CASE Head(main).kind = "signedIn"
      BY <1>0, <3>2, SameFollow, WriteFollows DEF RunMain, SignedIn
    <3>3. CASE Head(main).kind = "handler"
      BY <1>0, <3>3, SameFollow, WriteFollows DEF RunMain, RunHandler
    <3> QED
      BY <1>4, <3>1, <3>2, <3>3
  <2>2. requests' = requests
    BY <1>4 DEF RunMain, HearChange, SignedIn, RunHandler
  <2> QED
    BY <2>1, <2>2
<1>5. Head(main).kind \in {"changed", "token", "signedIn", "handler"}
  BY <1>1 DEF Block
<1> QED
  BY <1>0, <1>1, <1>2, <1>3, <1>4, <1>5, HearTokenFlows, FlowRests

-----------------------------------------------------------------------------
(***************************************************************************)
(* Tasks of the worker queue.                                              *)
(***************************************************************************)
LEMMA FilledFlows ==
  ASSUME OwnedTypes, NEW u \in Owner, NEW st \in StreamsWith(BatchOf(u)),
         NEW q \in Seq(BatchOf(u)),
         \A i \in DOMAIN q : q[i].n \in Nat \ {0},
         \A i, j \in DOMAIN q : i < j => q[i].n < q[j].n,
         IsQueued(st.pipeline, q),
         st.answered > 0 => st.stream.state = "open",
         Become(FillWritePipeline(st, q)), user' = u, queues'[u] = q
  PROVE  PipelineIsFull'
<1> DEFINE rt == FillWritePipeline(st, q)
<1>1. /\ rt.answered = st.answered
      /\ IsStarted(st.stream) => rt.stream = st.stream
      /\ Len(rt.pipeline) < MaxPendingWrites => Len(rt.pipeline) = Len(q)
      /\ rt.pipeline # <<>> => IsStarted(rt.stream)
  BY FillQueues
<1>2. /\ pipeline' = rt.pipeline /\ stream' = rt.stream
      /\ answered' = rt.answered
  BY DEF Become
<1> HIDE DEF rt
<1>3. answered' > 0 => stream'.state = "open"
  BY <1>1, <1>2 DEF IsStarted
<1>4. Len(pipeline') < MaxPendingWrites => Len(pipeline') = Len(queues'[user'])
  BY <1>1, <1>2
<1>5. pipeline' # <<>> => IsStarted(stream')
  BY <1>1, <1>2
<1> QED
  BY <1>3, <1>4, <1>5 DEF PipelineIsFull

(***************************************************************************)
(* The stream when it is filled: it goes on if it was started.             *)
(***************************************************************************)
LEMMA FilledStart ==
  ASSUME OwnershipInvariant, OwnedTypes', StartHasOneToken,
         NEW s \in Nat, NEW t \in Nat, BlocksFollow(s), TasksMove(t),
         NEW st \in StreamsWith(BatchOf(user)), st.stream = stream,
         st.requests = requests, NEW q \in Seq(BatchOf(user)),
         Become(FillWritePipeline(st, q))
  PROVE  StartHasOneToken'
<1>0. OwnedTypes /\ stream \in StreamType
  BY StreamsType DEF OwnershipInvariant
<1> DEFINE rt == FillWritePipeline(st, q)
<1>1. MayStart(st, rt)
  BY <1>0, FillFills
<1>2. stream' = rt.stream /\ requests' = rt.requests
  BY DEF Become
<1> HIDE DEF rt
<1>3. CASE IsStarted(stream)
  <2>1. /\ stream'.closes = stream.closes /\ stream'.state = stream.state
        /\ requests' = requests
    BY <1>1, <1>2, <1>3 DEF MayStart
  <2> QED
    BY <1>0, <2>1, StartGoesOn
<1>4. CASE ~IsStarted(stream)
  <2>1. /\ stream.state \notin {"starting", "connecting", "open"}
        /\ st.stream.state \in {"initial", "error"}
    BY <1>0, <1>4 DEF IsStarted, StreamType
  <2>2. st.stream.closes = stream.closes
    OBVIOUS
  <2> QED
    BY <1>1, <1>2, <2>1, <2>2, StartIsNew
<1> QED
  BY <1>3, <1>4

LEMMA RunWriteFlows ==
  ASSUME SessionInvariant, SessionInvariant', FlowInvariant, RunTask,
         Head(worker).kind = "write"
  PROVE  FlowInvariant'
<1>0. /\ OwnershipInvariant /\ OwnedTypes /\ OwnedTypes' /\ QueuesAreOrdered'
      /\ PipelineIsQueued /\ user \in Owner
  BY DEF SessionInvariant, OwnershipInvariant, OwnedTypes
<1>1. worker # <<>> /\ worker' = Tail(worker) /\ main' = main
  BY DEF RunTask
<1> DEFINE w == Head(worker).write
           b == [n |-> w.n, by |-> w.by, kind |-> w.kind, key |-> w.key,
                 owner |-> user, live |-> TRUE]
           q == Append(queues[user], b)
<1>2. /\ queues' = [queues EXCEPT ![user] = q]
      /\ Become(FillWritePipeline(Streams, q))
      /\ user' = user
  BY DEF RunTask, WriteMutations
<1> HIDE DEF b
<1>3. queues'[user] = q
  BY <1>0, <1>2 DEF OwnedTypes
<1>4. /\ q \in Seq(BatchOf(user))
      /\ \A i \in DOMAIN q : q[i].n \in Nat \ {0}
      /\ \A i, j \in DOMAIN q : i < j => q[i].n < q[j].n
  <2>1. /\ queues'[user] \in Seq(BatchOf(user))
        /\ \A i \in DOMAIN queues'[user] : queues'[user][i].n \in 1 .. made'.writes
        /\ \A i, j \in DOMAIN queues'[user] :
             i < j => queues'[user][i].n < queues'[user][j].n
    BY <1>0 DEF OwnedTypes, QueuesAreOrdered
  <2>2. \A n \in 1 .. made'.writes : n \in Nat \ {0}
    OBVIOUS
  <2> QED
    BY <1>3, <2>1, <2>2
<1>5. /\ Len(queues[user]) \in Nat
      /\ DOMAIN queues[user] = 1 .. Len(queues[user])
      /\ Len(q) = Len(queues[user]) + 1
      /\ \A i \in 1 .. Len(queues[user]) : q[i] = queues[user][i]
  <2>1. queues[user] \in Seq(BatchOf(user) \cup {b})
    <3>1. queues[user] \in Seq(BatchOf(user))
      BY <1>0, WorkerTypes
    <3> QED
      BY <3>1
  <2>2. /\ DOMAIN q = 1 .. Len(queues[user]) + 1
        /\ \A i \in 1 .. Len(queues[user]) : q[i] = queues[user][i]
    BY <2>1, Appending
  <2> QED
    BY <2>1, <2>2, AppendProperties
<1> HIDE DEF q
<1>6. /\ Streams \in StreamsWith(BatchOf(user))
      /\ Streams.stream = stream /\ Streams.requests = requests
      /\ Streams.pipeline = pipeline /\ Streams.answered = answered
  BY <1>0, StreamsType
<1>7. IsQueued(pipeline, q)
  <2>1. Len(pipeline) \in Nat /\ DOMAIN pipeline = 1 .. Len(pipeline)
    <3>1. pipeline \in Seq(BatchOf(user))
      BY <1>0 DEF OwnedTypes
    <3> QED
      BY <3>1
  <2>2. IsQueued(pipeline, queues[user])
    BY <1>0 DEF PipelineIsQueued
  <2>3. Len(pipeline) <= Len(queues[user]) /\ Len(pipeline) <= MaxPendingWrites
    BY <2>2 DEF IsQueued
  <2>4. Len(pipeline) <= Len(q)
    BY <1>5, <2>1, <2>3
  <2>5. \A i \in DOMAIN pipeline : i \in 1 .. Len(queues[user])
    BY <1>5, <2>1, <2>3
  <2>6. \A i \in DOMAIN pipeline : pipeline[i] = q[i]
    BY <1>5, <2>2, <2>5 DEF IsQueued
  <2> QED
    BY <2>3, <2>4, <2>6 DEF IsQueued
<1>8. answered > 0 => stream.state = "open"
  BY DEF FlowInvariant, PipelineIsFull
<1>9. PipelineIsFull'
  BY <1>0, <1>2, <1>3, <1>4, <1>6, <1>7, <1>8, FilledFlows
<1>10. BlocksFollow(0) /\ TasksMove(1)
  BY <1>0, <1>1, SameFollow, ShorterFollow
<1>11. StartHasOneToken'
  BY <1>0, <1>2, <1>4, <1>6, <1>10, FilledStart DEF FlowInvariant
<1> QED
  BY <1>9, <1>11 DEF FlowInvariant

LEMMA RunUserFlows ==
  ASSUME SessionInvariant, SessionInvariant', FlowInvariant, RunTask,
         Head(worker).kind = "user"
  PROVE  FlowInvariant'
<1>0. /\ OwnershipInvariant /\ OwnedTypes /\ OwnedTypes' /\ QueuesAreOrdered
      /\ TasksAreNewer /\ PipelineIsQueued /\ stream \in StreamType
  BY StreamsType DEF SessionInvariant, OwnershipInvariant
<1>1. /\ Head(worker) \in Task
      /\ worker # <<>> /\ worker' = Tail(worker) /\ main' = main
  BY <1>0, WorkerHead
<1> DEFINE u == Head(worker).user
           cl == [Stop(Streams) EXCEPT !.pipeline = <<>>]
           rt == FillWritePipeline(cl, queues[u])
<1>2. HandleCredentialChange(u) /\ u \in Owner
  BY <1>1 DEF RunTask, Task
<1> HIDE DEF u
<1>3. /\ user' = u /\ queues' = queues /\ Become(rt)
  BY <1>2 DEF HandleCredentialChange, RestartStreams
<1>4. /\ cl \in StreamsWith(BatchOf(u)) /\ cl.pipeline = <<>> /\ cl.answered = 0
      /\ \/ cl.stream.closes = stream.closes + 1
         \/ ~IsStarted(stream) /\ cl.stream.closes = stream.closes
      /\ cl.stream.state \in {"initial", "error"}
      /\ cl.requests = requests
  BY <1>0, StopType, StopAnswered
<1> HIDE DEF cl
<1>5. /\ queues[u] \in Seq(BatchOf(u))
      /\ \A i \in DOMAIN queues[u] : queues[u][i].n \in Nat \ {0}
      /\ \A i, j \in DOMAIN queues[u] :
           i < j => queues[u][i].n < queues[u][j].n
  BY <1>0, <1>2, Ordered
<1>6. IsQueued(<<>>, queues[u])
  BY <1>5, BoundAssumption DEF IsQueued
<1>7. PipelineIsFull'
  <2>1. IsQueued(cl.pipeline, queues[u]) /\ ~(cl.answered > 0)
    BY <1>4, <1>6
  <2> QED
    BY <2>1, <1>0, <1>2, <1>3, <1>4, <1>5, FilledFlows
<1>8. MayStart(cl, rt)
  BY <1>0, <1>4, <1>5, FillFills
<1>9. stream' = rt.stream /\ requests' = rt.requests
  BY <1>3 DEF Become
<1> HIDE DEF rt
<1>10. BlocksFollow(0) /\ TasksMove(1)
  BY <1>0, <1>1, SameFollow, ShorterFollow
<1>11. \/ cl.stream.closes = stream.closes + 1
       \/ /\ stream.state \notin {"starting", "connecting", "open"}
          /\ cl.stream.closes = stream.closes
  BY <1>4 DEF IsStarted
<1>12. StartHasOneToken'
  BY <1>0, <1>4, <1>8, <1>9, <1>10, <1>11, StartIsNew
<1> QED
  BY <1>7, <1>12 DEF FlowInvariant

LEMMA RunResumeFlows ==
  ASSUME SessionInvariant, SessionInvariant', FlowInvariant, RunTask,
         Head(worker).kind = "resume"
  PROVE  FlowInvariant'
<1>0. OwnedTypes /\ OwnedTypes' /\ stream \in StreamType
  BY StreamsType DEF SessionInvariant, OwnershipInvariant
<1>1. /\ worker # <<>> /\ worker' = Tail(worker) /\ main' = main
      /\ 1 \in DOMAIN worker /\ Head(worker) = worker[1]
  BY <1>0, WorkerHead
<1>2. ResumeStartWithCredentials(worker[1])
  BY <1>1 DEF RunTask
<1>3. /\ queues' = queues /\ user' = user /\ pipeline' = pipeline
      /\ answered' = answered /\ requests' = requests
  BY <1>2 DEF ResumeStartWithCredentials, clientVars
<1>4. BlocksFollow(0) /\ TasksMove(1)
  BY <1>0, <1>1, SameFollow, ShorterFollow
<1>5. CASE worker[1].closes = stream.closes
  <2>1. 1 \in TasksOfStart
    BY <1>1, <1>5 DEF TasksOfStart
  <2>2. /\ \A i \in TasksOfStart : i = 1
        /\ RequestsOfStart = {} /\ BlocksOfStart = {}
        /\ stream.state = "starting"
    BY <2>1 DEF StartHasOneToken, FlowInvariant
  <2>3. stream'.closes = stream.closes /\ stream'.state = "connecting"
    BY <1>0, <1>2, <1>5 DEF ResumeStartWithCredentials, StreamType
  <2>4. TasksOfStart' = {}
    <3> SUFFICES ASSUME NEW i \in TasksOfStart' PROVE FALSE
      OBVIOUS
    <3>1. i \in DOMAIN worker' /\ i + 1 \in TasksOfStart
      BY <1>4, <2>3 DEF TasksOfStart, TasksMove
    <3>2. i \in Nat \ {0}
      <4>1. worker' \in Seq(Task)
        BY <1>0 DEF OwnedTypes
      <4> QED
        BY <3>1, <4>1
    <3> QED
      BY <2>2, <3>1, <3>2
  <2>5. RequestsOfStart' = {} /\ BlocksOfStart' = {}
    BY <1>1, <1>3, <2>2, <2>3 DEF RequestsOfStart, BlocksOfStart
  <2>6. PipelineIsFull'
    BY <1>3, <2>2, <2>3 DEF FlowInvariant, PipelineIsFull, IsStarted
  <2> QED
    BY <2>4, <2>5, <2>6 DEF FlowInvariant, StartHasOneToken
<1>6. CASE worker[1].closes # stream.closes
  <2>1. stream' = stream
    BY <1>2, <1>6 DEF ResumeStartWithCredentials
  <2> QED
    BY <1>0, <1>3, <1>4, <2>1, FlowRests
<1> QED
  BY <1>5, <1>6

LEMMA RunTaskFlows ==
  ASSUME SessionInvariant, SessionInvariant', FlowInvariant, RunTask
  PROVE  FlowInvariant'
<1>1. Head(worker).kind \in {"write", "user", "resume"}
  BY WorkerHead DEF Task, SessionInvariant, OwnershipInvariant
<1> QED
  BY <1>1, RunWriteFlows, RunUserFlows, RunResumeFlows

-----------------------------------------------------------------------------
(***************************************************************************)
(* The stream: commits, answers, closing and starting again.               *)
(***************************************************************************)
LEMMA OpenFlows ==
  ASSUME SessionInvariant, SessionInvariant', FlowInvariant,
         Commit \/ OnWriteStreamHandshakeComplete
  PROVE  FlowInvariant'
<1>0. OwnedTypes /\ OwnedTypes' /\ stream \in StreamType
  BY StreamsType DEF SessionInvariant, OwnershipInvariant
<1>1. /\ queues' = queues /\ user' = user /\ pipeline' = pipeline
      /\ requests' = requests /\ main' = main /\ worker' = worker
  BY DEF Commit, OnWriteStreamHandshakeComplete, clientVars
<1>2. BlocksFollow(0) /\ TasksMove(0)
  BY <1>0, <1>1, SameFollow
<1>3. /\ stream'.closes = stream.closes /\ stream.state # "starting"
      /\ stream'.state = "open"
  BY <1>0 DEF Commit, OnWriteStreamHandshakeComplete, StreamType
<1>4. StartHasOneToken'
  BY <1>0, <1>1, <1>2, <1>3, StartGoesOn DEF FlowInvariant
<1>5. PipelineIsFull'
  BY <1>1, <1>3 DEF PipelineIsFull, FlowInvariant, IsStarted
<1> QED
  BY <1>4, <1>5 DEF FlowInvariant

LEMMA AnswerFlows ==
  ASSUME SessionInvariant, SessionInvariant', FlowInvariant,
         OnWriteStreamMutationResult
  PROVE  FlowInvariant'
<1>0. /\ OwnershipInvariant /\ OwnedTypes /\ OwnedTypes' /\ QueuesAreOrdered'
      /\ PipelineIsQueued /\ user \in Owner
  BY DEF SessionInvariant, OwnershipInvariant, OwnedTypes
<1> DEFINE q == Tail(queues[user])
           st == [Streams EXCEPT !.pipeline = Tail(@), !.answered = @ - 1]
<1>1. /\ pipeline # <<>> /\ queues[user] # <<>>
      /\ q \in Seq(BatchOf(user))
      /\ st \in StreamsWith(BatchOf(user))
      /\ st.stream = stream /\ st.requests = requests
      /\ st.pipeline = Tail(pipeline) /\ st.answered = answered - 1
  BY <1>0, AnswerTypes
<1>2. /\ queues' = [queues EXCEPT ![user] = q]
      /\ Become(FillWritePipeline(st, q))
      /\ user' = user /\ worker' = worker
      /\ answered > 0
  BY DEF OnWriteStreamMutationResult
<1> HIDE DEF st
<1>3. queues'[user] = q
  BY <1>0, <1>2 DEF OwnedTypes
<1>4. /\ \A i \in DOMAIN q : q[i].n \in Nat \ {0}
      /\ \A i, j \in DOMAIN q : i < j => q[i].n < q[j].n
  <2>1. /\ \A i \in DOMAIN queues'[user] : queues'[user][i].n \in 1 .. made'.writes
        /\ \A i, j \in DOMAIN queues'[user] :
             i < j => queues'[user][i].n < queues'[user][j].n
    BY <1>0 DEF QueuesAreOrdered
  <2>2. \A n \in 1 .. made'.writes : n \in Nat \ {0}
    OBVIOUS
  <2> QED
    BY <1>3, <2>1, <2>2
<1>5. IsQueued(Tail(pipeline), q)
  <2>1. /\ Len(queues[user]) \in Nat \ {0}
        /\ DOMAIN queues[user] = 1 .. Len(queues[user])
        /\ Len(q) = Len(queues[user]) - 1
        /\ \A i \in 1 .. Len(queues[user]) - 1 : q[i] = queues[user][i + 1]
    <3>1. queues[user] \in Seq(BatchOf(user))
      BY <1>0, WorkerTypes
    <3> QED
      BY <3>1, <1>1, Removing
  <2>2. /\ Len(pipeline) \in Nat \ {0}
        /\ DOMAIN pipeline = 1 .. Len(pipeline)
        /\ DOMAIN Tail(pipeline) = 1 .. Len(pipeline) - 1
        /\ Len(Tail(pipeline)) = Len(pipeline) - 1
        /\ \A i \in 1 .. Len(pipeline) - 1 : Tail(pipeline)[i] = pipeline[i + 1]
    <3>1. pipeline \in Seq(BatchOf(user))
      BY <1>0 DEF OwnedTypes
    <3> QED
      BY <3>1, <1>1, Removing
  <2> HIDE DEF q
  <2>3. /\ Len(pipeline) <= Len(queues[user])
        /\ Len(pipeline) <= MaxPendingWrites
        /\ \A i \in DOMAIN pipeline : pipeline[i] = queues[user][i]
    BY <1>0 DEF PipelineIsQueued, IsQueued
  <2>4. ASSUME NEW i \in DOMAIN Tail(pipeline) PROVE Tail(pipeline)[i] = q[i]
    <3>1. /\ i \in 1 .. Len(pipeline) - 1 /\ i + 1 \in DOMAIN pipeline
          /\ i \in 1 .. Len(queues[user]) - 1
      BY <2>1, <2>2, <2>3
    <3> QED
      BY <3>1, <2>1, <2>2, <2>3
  <2>5. /\ Len(Tail(pipeline)) <= Len(q)
        /\ Len(Tail(pipeline)) <= MaxPendingWrites
    BY <2>1, <2>2, <2>3, BoundAssumption
  <2> QED
    BY <2>4, <2>5 DEF IsQueued
<1> HIDE DEF q
<1>6. stream.state = "open" /\ st.stream.state = "open"
  BY <1>1, <1>2 DEF FlowInvariant, PipelineIsFull
<1>7. PipelineIsFull'
  <2>1. IsQueued(st.pipeline, q)
    BY <1>1, <1>5
  <2> QED
    BY <1>0, <1>1, <1>2, <1>3, <1>4, <1>6, <2>1, FilledFlows
<1>8. BlocksFollow(0) /\ TasksMove(0)
  <2>1. CASE main' = main
    BY <1>0, <1>2, <2>1, SameFollow
  <2>2. CASE main' = Append(main, [kind |-> "handler", batch |-> Head(pipeline)])
    <3> DEFINE block == [kind |-> "handler", batch |-> Head(pipeline)]
    <3>1. main' = Append(main, block) /\ block.kind # "token"
      BY <2>2
    <3> HIDE DEF block
    <3> QED
      BY <1>0, <1>2, <3>1, SameFollow, LongerFollow
  <2> QED
    BY <2>1, <2>2 DEF OnWriteStreamMutationResult
<1>9. StartHasOneToken'
  BY <1>0, <1>1, <1>2, <1>8, FilledStart DEF FlowInvariant
<1> QED
  BY <1>7, <1>9 DEF FlowInvariant

LEMMA ClosedFlows ==
  ASSUME SessionInvariant, SessionInvariant', FlowInvariant,
         OnWriteStreamClose \/ IdleTimerFires
  PROVE  FlowInvariant'
<1>0. /\ OwnershipInvariant /\ OwnedTypes /\ OwnedTypes'
  BY DEF SessionInvariant, OwnershipInvariant
<1>1. /\ queues' = queues /\ user' = user /\ main' = main /\ worker' = worker
  BY DEF OnWriteStreamClose, IdleTimerFires, clientVars
<1>2. BlocksFollow(0) /\ TasksMove(0)
  BY <1>0, <1>1, SameFollow
<1>3. Streams \in StreamsWith(BatchOf(user)) /\ Streams.stream = stream
      /\ Streams.requests = requests /\ Streams.pipeline = pipeline
  BY <1>0, StreamsType
<1>4. CASE OnWriteStreamClose
  <2> DEFINE cl == Close(Streams, "error")
             rt == IF pipeline # <<>> THEN Start(cl) ELSE cl
  <2>1. Become(rt)
    BY <1>4 DEF OnWriteStreamClose
  <2>2. /\ cl \in StreamsWith(BatchOf(user))
        /\ cl.stream.closes = stream.closes + 1
        /\ cl.stream.state = "error"
        /\ cl.requests = requests
        /\ cl.pipeline = pipeline /\ cl.answered = 0
    BY <1>0, <1>3, CloseType
  <2> HIDE DEF cl
  <2>3. ~IsStarted(cl.stream)
    BY <2>2 DEF IsStarted
  <2>4. MayStart(cl, rt)
    <3>1. MayStart(cl, Start(cl))
      BY <1>0, <2>2, <2>3, StartStarts
    <3>2. MayStart(cl, cl)
      BY DEF MayStart
    <3> QED
      BY <3>1, <3>2
  <2>5. /\ rt.pipeline = pipeline /\ rt.answered = 0
        /\ pipeline # <<>> => IsStarted(rt.stream)
    BY <2>2 DEF Start, StreamsWith, StreamType, IsStarted
  <2> HIDE DEF rt
  <2>6. /\ pipeline' = pipeline /\ answered' = 0
        /\ stream' = rt.stream /\ requests' = rt.requests
    BY <2>1, <2>5 DEF Become
  <2>7. StartHasOneToken'
    BY <1>0, <1>2, <2>2, <2>4, <2>6, StartIsNew
  <2>8. Len(pipeline) < MaxPendingWrites => Len(pipeline) = Len(queues[user])
    BY DEF FlowInvariant, PipelineIsFull
  <2> QED
    BY <1>1, <2>5, <2>6, <2>7, <2>8 DEF FlowInvariant, PipelineIsFull
<1>5. CASE IdleTimerFires
  <2> DEFINE cl == Close(Streams, "initial")
  <2>1. Become(cl) /\ pipeline = <<>>
    BY <1>5 DEF IdleTimerFires
  <2>2. /\ cl \in StreamsWith(BatchOf(user))
        /\ cl.stream.closes = stream.closes + 1
        /\ cl.stream.state = "initial"
        /\ cl.requests = requests
        /\ cl.pipeline = pipeline /\ cl.answered = 0
    BY <1>0, <1>3, CloseType
  <2> HIDE DEF cl
  <2>3. MayStart(cl, cl)
    BY DEF MayStart
  <2>4. /\ pipeline' = pipeline /\ answered' = 0
        /\ stream' = cl.stream /\ requests' = cl.requests
    BY <2>1, <2>2 DEF Become
  <2>5. StartHasOneToken'
    BY <1>0, <1>2, <2>2, <2>3, <2>4, StartIsNew
  <2> QED
    BY <1>1, <2>1, <2>4, <2>5 DEF FlowInvariant, PipelineIsFull
<1> QED
  BY <1>4, <1>5

LEMMA BackoffFlows ==
  ASSUME SessionInvariant, SessionInvariant', FlowInvariant, BackoffElapses
  PROVE  FlowInvariant'
<1>0. /\ OwnershipInvariant /\ OwnedTypes /\ OwnedTypes'
  BY DEF SessionInvariant, OwnershipInvariant
<1> DEFINE cl == [Streams EXCEPT !.stream.state = "initial"]
           rt == Start(cl)
<1>1. /\ queues' = queues /\ user' = user /\ main' = main /\ worker' = worker
      /\ stream.state = "backoff" /\ Become(rt)
  BY DEF BackoffElapses, clientVars
<1>2. BlocksFollow(0) /\ TasksMove(0)
  BY <1>0, <1>1, SameFollow
<1>3. /\ cl \in StreamsWith(BatchOf(user))
      /\ cl.pipeline = pipeline /\ cl.answered = answered
      /\ cl.stream.state = "initial"
      /\ cl.stream.closes = stream.closes
      /\ cl.requests = requests
  BY <1>0, StreamsType DEF StreamsWith, StreamType
<1> HIDE DEF cl
<1>4. ~IsStarted(cl.stream)
  BY <1>3 DEF IsStarted
<1>5. /\ MayStart(cl, rt)
      /\ rt.pipeline = pipeline /\ rt.stream.state = "starting"
  BY <1>0, <1>3, <1>4, StartStarts
<1>6. rt.answered = answered
  BY <1>3 DEF Start, StreamsWith
<1> HIDE DEF rt
<1>7. /\ pipeline' = pipeline /\ answered' = answered
      /\ stream' = rt.stream /\ requests' = rt.requests
  BY <1>1, <1>5, <1>6 DEF Become
<1>8. StartHasOneToken'
  <2>1. stream.state \notin {"starting", "connecting", "open"}
    BY <1>1
  <2> QED
    BY <1>0, <1>2, <1>3, <1>5, <1>7, <2>1, StartIsNew
<1>9. ~(answered > 0)
  BY <1>1 DEF FlowInvariant, PipelineIsFull
<1>10. PipelineIsFull'
  BY <1>1, <1>5, <1>7, <1>9 DEF FlowInvariant, PipelineIsFull, IsStarted
<1> QED
  BY <1>8, <1>10 DEF FlowInvariant

LEMMA KillFlows ==
  ASSUME SessionInvariant, SessionInvariant', Kill
  PROVE  FlowInvariant'
<1>0. /\ OwnedTypes /\ QueuesAreOrdered /\ TasksAreNewer
  BY DEF SessionInvariant, OwnershipInvariant
<1>1. /\ worker' = <<>>
      /\ main' = IF auth = NoUser THEN <<>> ELSE <<Changed(auth)>>
      /\ queues' = [v \in Owner |->
                      [i \in DOMAIN queues[v] |->
                         [queues[v][i] EXCEPT !.live = FALSE]]]
  BY DEF Kill
<1>2. PICK u \in {auth, NoUser} :
        /\ user' = u
        /\ Become([Fresh(u) EXCEPT
                     !.pipeline = [i \in DOMAIN @ |-> queues'[u][i]]])
  BY DEF Kill
<1>3. u \in Owner
  BY <1>0 DEF OwnedTypes, Owner
<1>4. Len(queues'[u]) = Len(queues[u])
  <2>1. queues[u] \in Seq(BatchOf(u)) /\ Len(queues[u]) \in Nat
    BY <1>0, <1>3, WorkerTypes
  <2>2. queues'[u] = [i \in 1 .. Len(queues[u]) |->
                        [queues[u][i] EXCEPT !.live = FALSE]]
    BY <2>1, <1>1, <1>3
  <2> QED
    BY <2>1, <2>2
<1> DEFINE st == [pipeline |-> <<>>, answered |-> 0, requests |-> {},
                  stream |-> [state |-> "initial", as |-> NoUser, closes |-> 0]]
           q == queues[u]
           rt == Fresh(u)
<1>5. /\ st \in StreamsWith(BatchOf(u))
      /\ st.pipeline = <<>> /\ st.answered = 0 /\ st.requests = {}
      /\ st.stream.state = "initial"
  BY DEF StreamsWith, StreamType, Owner
<1>6. rt = FillWritePipeline(st, q)
  BY DEF Fresh
<1> HIDE DEF st
<1>7. /\ q \in Seq(BatchOf(u))
      /\ \A i \in DOMAIN q : q[i].n \in Nat \ {0}
      /\ \A i, j \in DOMAIN q : i < j => q[i].n < q[j].n
  BY <1>0, <1>3, Ordered
<1>8. /\ rt.answered = 0
      /\ Len(rt.pipeline) < MaxPendingWrites => Len(rt.pipeline) = Len(q)
      /\ rt.pipeline # <<>> => IsStarted(rt.stream)
  <2> HIDE DEF q, rt
  <2>1. IsQueued(st.pipeline, q)
    BY <1>5, <1>7, BoundAssumption DEF IsQueued
  <2> QED
    BY <2>1, <1>5, <1>6, <1>7, FillQueues
<1>9. rt \in StreamsWith(BatchOf(u)) /\ MayStart(st, rt)
  BY <1>0, <1>5, <1>6, <1>7, FillFills
<1> HIDE DEF rt
<1>10. /\ pipeline' = [i \in DOMAIN rt.pipeline |-> queues'[u][i]]
       /\ answered' = 0 /\ stream' = rt.stream /\ requests' = rt.requests
  <2>1. Become([rt EXCEPT !.pipeline = [i \in DOMAIN @ |-> queues'[u][i]]])
    BY <1>2 DEF rt
  <2> QED
    BY <2>1, <1>8, <1>9 DEF Become, StreamsWith
<1>11. /\ Len(pipeline') = Len(rt.pipeline)
       /\ pipeline' # <<>> => rt.pipeline # <<>>
  <2>1. rt.pipeline \in Seq(BatchOf(u))
    BY <1>9 DEF StreamsWith
  <2>2. Len(rt.pipeline) \in Nat /\ DOMAIN rt.pipeline = 1 .. Len(rt.pipeline)
    BY <2>1
  <2>3. pipeline' = [i \in 1 .. Len(rt.pipeline) |-> queues'[u][i]]
    BY <1>10, <2>2
  <2>4. Len(pipeline') = Len(rt.pipeline)
    BY <2>2, <2>3
  <2>5. pipeline' \in Seq(BatchOf(u))
    BY <1>2 DEF SessionInvariant, OwnershipInvariant, OwnedTypes
  <2> QED
    BY <2>4, <2>5, EmptySeq
<1>12. PipelineIsFull'
  BY <1>2, <1>4, <1>8, <1>10, <1>11 DEF PipelineIsFull
<1>13. BlocksOfStart' = {} /\ TasksOfStart' = {}
  <2>1. TasksOfStart' = {}
    BY <1>1 DEF TasksOfStart
  <2>2. CASE auth = NoUser
    <3>1. DOMAIN main' = {}
      BY <1>1, <2>2
    <3> QED
      BY <2>1, <3>1 DEF BlocksOfStart
  <2>3. CASE auth # NoUser
    <3>1. main' = <<Changed(auth)>>
      BY <1>1, <2>3
    <3>2. Changed(auth).kind # "token"
      BY DEF Changed
    <3>3. \A i \in DOMAIN main' : main'[i] = Changed(auth)
      BY <3>1
    <3> QED
      BY <2>1, <3>2, <3>3 DEF BlocksOfStart
  <2> QED
    BY <2>1, <2>2, <2>3
<1>14. StartHasOneToken'
  <2>1. CASE requests' = {}
    <3>1. RequestsOfStart' = {}
      BY <2>1 DEF RequestsOfStart
    <3> QED
      BY <1>13, <3>1 DEF StartHasOneToken
  <2>2. CASE stream'.state = "starting" /\ \E r : requests' = {r}
    <3>1. \A p, r \in RequestsOfStart' : p = r
      BY <2>2 DEF RequestsOfStart
    <3> QED
      BY <1>13, <2>2, <3>1 DEF StartHasOneToken
  <2> QED
    BY <1>5, <1>9, <1>10, <2>1, <2>2 DEF MayStart
<1> QED
  BY <1>12, <1>14 DEF FlowInvariant

-----------------------------------------------------------------------------
LEMMA InitFlows ==
  ASSUME Init
  PROVE  FlowInvariant
<1>1. /\ main = <<>> /\ worker = <<>> /\ requests = {} /\ pipeline = <<>>
      /\ queues[user] = <<>> /\ answered = 0
  BY DEF Init, Owner
<1>2. RequestsOfStart = {} /\ BlocksOfStart = {} /\ TasksOfStart = {}
  BY <1>1 DEF RequestsOfStart, BlocksOfStart, TasksOfStart
<1> QED
  BY <1>1, <1>2 DEF FlowInvariant, StartHasOneToken, PipelineIsFull

LEMMA NextFlows ==
  ASSUME SessionInvariant, SessionInvariant', FlowInvariant, Next
  PROVE  FlowInvariant'
<1>1. CASE Background
  BY <1>1, RunTaskFlows, RunMainFlows, OpenFlows, AnswerFlows, BackoffFlows
  DEF Background
<1> QED
  BY <1>1, UserFlows, AuthenticationFlows, ClosedFlows, KillFlows DEF Next

LEMMA StutterFlows ==
  ASSUME FlowInvariant, UNCHANGED sessionVars
  PROVE  FlowInvariant'
BY DEF FlowInvariant, StartHasOneToken, RequestsOfStart, BlocksOfStart,
       TasksOfStart, PipelineIsFull, sessionVars

(***************************************************************************)
(* The token of a start is never used twice: an open stream, which may     *)
(* have answers on their way, is not taken back to connecting.  The        *)
(* pipeline holds the first batches of the queue of the user the worker    *)
(* knows, and as many as there may be.                                     *)
(***************************************************************************)
THEOREM FlowIsInvariant == SessionSpec => [](SessionInvariant /\ FlowInvariant)
<1> DEFINE Both == SessionInvariant /\ FlowInvariant
<1>1. Init => Both
  BY InitOrdered, InitFlows
<1>2. Both /\ [Next]_sessionVars => Both'
  <2>1. Both /\ Next => Both'
    BY NextKeeps, NextFlows
  <2>2. Both /\ UNCHANGED sessionVars => Both'
    BY StutterKeeps, StutterFlows
  <2> QED
    BY <2>1, <2>2
<1> QED
  BY <1>1, <1>2, PTL DEF SessionSpec

LEMMA PipelineIsPrefix ==
  ASSUME OwnedTypes, PipelineIsQueued, PipelineIsFull
  PROVE  /\ IsPrefix(pipeline, queues[user])
         /\ Len(pipeline) < MaxPendingWrites => pipeline = queues[user]
<1>1. /\ pipeline \in Seq(BatchOf(user)) /\ queues[user] \in Seq(BatchOf(user))
  BY DEF OwnedTypes
<1> DEFINE p == pipeline
           q == queues[user]
           k == Len(p)
<1>2. /\ k \in Nat /\ Len(q) \in Nat
      /\ DOMAIN p = 1 .. k /\ DOMAIN q = 1 .. Len(q)
  BY <1>1
<1>3. k <= Len(q) /\ \A i \in 1 .. k : p[i] = q[i]
  BY <1>2 DEF PipelineIsQueued, IsQueued
<1>4. /\ SubSeq(p, 1, k) = [i \in 1 .. k |-> p[i]]
      /\ SubSeq(q, 1, k) = [i \in 1 .. k |-> q[i]]
  <2>1. /\ \A i \in 1 .. k : p[i] \in BatchOf(user)
        /\ \A i \in 1 .. k : q[i] \in BatchOf(user)
        /\ 1 \in Int /\ k \in Int
    BY <1>1, <1>2, <1>3
  <2> HIDE DEF p, q, k
  <2>2. ASSUME NEW s, \A i \in 1 .. k : s[i] \in BatchOf(user)
        PROVE  SubSeq(s, 1, k) = [i \in 1 .. k |-> s[i]]
    <3>1. /\ SubSeq(s, 1, k) \in Seq(BatchOf(user))
          /\ Len(SubSeq(s, 1, k)) = IF 1 <= k THEN k - 1 + 1 ELSE 0
          /\ \A i \in 1 .. k - 1 + 1 : SubSeq(s, 1, k)[i] = s[1 + i - 1]
      BY <2>1, <2>2, SubSeqProperties
    <3>2. Len(SubSeq(s, 1, k)) = k
      BY <1>2, <3>1
    <3>3. \A i \in 1 .. k : SubSeq(s, 1, k)[i] = s[i]
      BY <1>2, <3>1
    <3> QED
      BY <3>1, <3>2, <3>3
  <2> QED
    BY <2>1, <2>2
<1>5. [i \in 1 .. k |-> p[i]] = [i \in 1 .. k |-> q[i]]
  BY <1>3
<1>6. IsPrefix(p, q)
  BY <1>3, <1>4, <1>5 DEF IsPrefix
<1>7. ASSUME k = Len(q) PROVE p = q
  BY <1>1, <1>2, <1>3, <1>7
<1> QED
  BY <1>6, <1>7 DEF PipelineIsFull

(***************************************************************************)
(* The type invariant: among others, answers come from an open stream and  *)
(* never more of them than there are writes in the pipeline, and the       *)
(* pipeline is the beginning of the queue of the user.                     *)
(***************************************************************************)
THEOREM SessionTypesAreKept == SessionSpec => []SessionTypeOK
<1> DEFINE All == SessionInvariant /\ FlowInvariant /\ AccountsAreMade
<1>1. Init => AccountsAreMade
  BY InitialAssumption DEF Init, AccountsAreMade
<1>2. SessionInvariant /\ AccountsAreMade /\ [Next]_sessionVars => AccountsAreMade'
  <2>1. SessionInvariant /\ AccountsAreMade /\ Next => AccountsAreMade'
    BY AccountsStay DEF SessionInvariant, OwnershipInvariant
  <2>2. AccountsAreMade /\ UNCHANGED sessionVars => AccountsAreMade'
    BY DEF AccountsAreMade, sessionVars
  <2> QED
    BY <2>1, <2>2
<1>3. All => SessionTypeOK
  <2> SUFFICES ASSUME All PROVE SessionTypeOK
    OBVIOUS
  <2>1. /\ OwnedTypes /\ PipelineIsQueued /\ PipelineIsFull /\ AccountsAreMade
    BY DEF SessionInvariant, OwnershipInvariant, FlowInvariant
  <2>2. /\ auth \in Owner /\ user \in Owner /\ provider.user \in Owner
        /\ stream.state \in
             {"initial", "starting", "connecting", "open", "error", "backoff"}
    BY <2>1 DEF OwnedTypes
  <2>3. answered \in 0 .. Len(pipeline)
    <3>1. answered \in Nat /\ pipeline \in Seq(BatchOf(user))
      BY <2>1 DEF OwnedTypes
    <3> QED
      BY <2>1, <3>1 DEF PipelineIsQueued
  <2> QED
    BY <2>1, <2>2, <2>3, PipelineIsPrefix
    DEF SessionTypeOK, PipelineIsFull, AccountsAreMade
<1> QED
  BY <1>1, <1>2, <1>3, FlowIsInvariant, PTL DEF SessionSpec

(***************************************************************************)
(* The HARD_ASSERT of Stream::ResumeStartWithCredentials ("State should    *)
(* still be 'Starting'") never fails: the token that reaches the worker    *)
(* with the close count of the stream finds the start it was asked for.    *)
(***************************************************************************)
ResumesWhileStarting ==
  \A i \in DOMAIN worker :
    worker[i].kind = "resume" /\ worker[i].closes = stream.closes =>
      stream.state = "starting"

THEOREM ResumesFindStarting == SessionSpec => []ResumesWhileStarting
<1>1. FlowInvariant => ResumesWhileStarting
  BY DEF FlowInvariant, StartHasOneToken, TasksOfStart, ResumesWhileStarting
<1> QED
  BY <1>1, FlowIsInvariant, PTL

==============================================================================
