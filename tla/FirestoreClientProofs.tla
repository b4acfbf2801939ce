------------------------ MODULE FirestoreClientProofs ------------------------
(***************************************************************************)
(* Proofs about the path of writes and snapshots, for every set of         *)
(* devices, documents, writes and bounds.                                  *)
(***************************************************************************)
EXTENDS FirestoreClient, SequenceTheorems, WellFoundedInduction, TLAPS

(***************************************************************************)
(* Appending to a sequence whose elements are not typed.                   *)
(***************************************************************************)
LEMMA AppendToAny ==
  ASSUME NEW s, s \in Seq(Range(s)), NEW e
  PROVE  /\ Append(s, e) \in Seq(Range(Append(s, e)))
         /\ Len(Append(s, e)) = Len(s) + 1
         /\ DOMAIN Append(s, e) = 1 .. Len(s) + 1
         /\ \A i \in 1 .. Len(s) : Append(s, e)[i] = s[i]
         /\ Append(s, e)[Len(s) + 1] = e
         /\ Range(Append(s, e)) = Range(s) \cup {e}
<1> DEFINE T == Range(s) \cup {e}
<1>1. s \in Seq(T)
  BY SMT DEF Range
<1>2. Append(s, e) \in Seq(T)
  BY <1>1, SMT
<1>3. /\ Len(Append(s, e)) = Len(s) + 1
      /\ DOMAIN Append(s, e) = 1 .. Len(s) + 1
      /\ \A i \in 1 .. Len(s) : Append(s, e)[i] = s[i]
      /\ Append(s, e)[Len(s) + 1] = e
  BY <1>1, SMT
<1>4. Range(Append(s, e)) = T
  BY <1>1, <1>3, SMT DEF Range
<1> QED
  BY <1>2, <1>3, <1>4

(***************************************************************************)
(* Appending adds one element to the range of a sequence.                  *)
(***************************************************************************)
LEMMA RangeOfAppend ==
  ASSUME NEW S, NEW s \in Seq(S), NEW e \in S
  PROVE  /\ Append(s, e) \in Seq(S)
         /\ Range(Append(s, e)) = Range(s) \cup {e}
<1>1. /\ Append(s, e) \in Seq(S)
      /\ DOMAIN s = 1 .. Len(s) /\ Len(s) \in Nat
      /\ DOMAIN Append(s, e) = 1 .. Len(s) + 1
      /\ \A i \in 1 .. Len(s) : Append(s, e)[i] = s[i]
      /\ Append(s, e)[Len(s) + 1] = e
  OBVIOUS
<1> QED
  BY <1>1 DEF Range

(***************************************************************************)
(* The empty sequence: no write, and no fields of a document.              *)
(***************************************************************************)
LEMMA EmptySequence ==
  /\ \A S : <<>> \in Seq(S)
  /\ Len(<<>>) = 0
  /\ DOMAIN <<>> = {}
OBVIOUS

(***************************************************************************)
(* What the writes make of a document.                                     *)
(***************************************************************************)
LEMMA ServerApplyType ==
  ASSUME NEW write, NEW v \in Nat, NEW doc, IsServerDocument(doc, v)
  PROVE  LET new == ServerApply(write, doc, v + 1)
         IN  /\ IsServerDocument(new, v + 1)
             /\ new.type = "document"
             /\ new = doc \/ new.version = v + 1
  BY SMT DEF ServerApply, IsServerDocument, IsDocument, Exists

(***************************************************************************)
(* The client's result of a commit is marked as changed until a snapshot   *)
(* comes.                                                                  *)
(***************************************************************************)
LEMMA ApplyToRemoteDocumentType ==
  ASSUME NEW write, NEW doc, NEW v \in Nat
  PROVE  LET new == ApplyToRemoteDocument(write, doc, v)
         IN  /\ IsDocument(new)
             /\ new.version = v
             /\ HasPendingWrites(new)
  BY SMT DEF ApplyToRemoteDocument, Unknown, IsDocument, HasPendingWrites

(***************************************************************************)
(* A later version of the server never has an older document.              *)
(***************************************************************************)
LEMMA BackendMonotone ==
  ASSUME TypeOK, BackendCoherent,
         NEW v \in DOMAIN backend, NEW w \in DOMAIN backend, v <= w,
         NEW k \in Key
  PROVE  backend[v][k].version <= backend[w][k].version
<1>1. backend[v][k].version \in Nat /\ backend[w][k].version \in Nat
  BY DEF TypeOK, IsServerDocument, IsDocument
<1>2. backend[v][k].version <= v /\ v \in Nat /\ w \in Nat
  BY DEF TypeOK, IsServerDocument, Latest
<1>3. CASE backend[w][k].version <= v
  <2>1. backend[w][k] = backend[v][k]
    BY <1>3 DEF BackendCoherent
  <2> QED
    BY <1>1, <2>1
<1> QED
  BY <1>1, <1>2, <1>3

(***************************************************************************)
(* The invariant holds when no write was made yet.                         *)
(***************************************************************************)
LEMMA InitInvariant == Init => InductiveInvariant
<1> SUFFICES ASSUME Init PROVE InductiveInvariant
  OBVIOUS
<1>1. TypeOK
  <2>1. /\ backend \in Seq(Range(backend))
        /\ Latest = 1
        /\ DOMAIN backend = {1}
        /\ backend[1] = InitialDocuments
    BY DEF Init, Latest, Range
  <2>2. \A k \in Key : IsServerDocument(InitialDocuments[k], 1)
    BY InitialAssumption DEF IsServerDocument, IsDocument
  <2> QED
    BY <2>1, <2>2, InitialAssumption
       DEF Init, TypeOK, IsServerDocument
<1>2. BackendCoherent
  BY DEF Init, BackendCoherent
<1>3. AnswersTrue
  BY DEF Init, AnswersTrue
<1>4. CacheFaithful
  BY DEF Init, CacheFaithful
<1>5. SuccessIsCommitted
  BY DEF Init, SuccessIsCommitted
<1> QED
  BY <1>1, <1>2, <1>3, <1>4, <1>5 DEF InductiveInvariant

(***************************************************************************)
(* Preservation, one lemma per action of the specification.                *)
(***************************************************************************)
LEMMA FaultType ==
  ASSUME TypeOK, NEW kind \in Fault, FaultHappens(kind)
  PROVE  faults' \in [Fault -> Nat]
BY DEF TypeOK, FaultHappens

(***************************************************************************)
(* There are never more answers on their way than batches in the queue.    *)
(***************************************************************************)
LEMMA AnswersMatchQueue ==
  ASSUME TypeOK, NEW d \in Device
  PROVE  /\ Len(queue[d]) \in Nat
         /\ Len(responses[d]) \in 0 .. Len(queue[d])
         /\ DOMAIN responses[d] = 1 .. Len(responses[d])
         /\ DOMAIN queue[d] = 1 .. Len(queue[d])
<1>1. /\ queue[d] \in Seq(Batch)
      /\ responses[d] \in Seq(Answer)
      /\ Len(responses[d]) <= Len(queue[d])
  BY DEF TypeOK
<1> QED
  BY <1>1

(***************************************************************************)
(* Answers that still belong to the same writes stay true, also when they  *)
(* and the batches move up in their queues.                                *)
(***************************************************************************)
LEMMA AnswersMoved ==
  ASSUME AnswersTrue, UNCHANGED <<backend, log>>,
         \A d \in Device : \A i \in DOMAIN responses'[d] :
           responses'[d][i].ok =>
             \E j \in DOMAIN responses[d] :
               /\ responses'[d][i] = responses[d][j]
               /\ queue'[d][i].n = queue[d][j].n
               /\ queue'[d][i].write = queue[d][j].write
  PROVE  AnswersTrue'
<1> SUFFICES ASSUME NEW d \in Device, NEW i \in DOMAIN responses'[d],
                    responses'[d][i].ok
             PROVE  /\ responses'[d][i].version \in 1 .. Latest'
                    /\ backend'[responses'[d][i].version]
                          [queue'[d][i].write.key].version
                         = responses'[d][i].version
                    /\ <<d, queue'[d][i].n>> \in Range(log')
  BY DEF AnswersTrue
<1>1. PICK j \in DOMAIN responses[d] :
        /\ responses'[d][i] = responses[d][j]
        /\ queue'[d][i].n = queue[d][j].n
        /\ queue'[d][i].write = queue[d][j].write
  OBVIOUS
<1>2. /\ responses[d][j].version \in 1 .. Latest
      /\ backend[responses[d][j].version][queue[d][j].write.key].version
           = responses[d][j].version
      /\ <<d, queue[d][j].n>> \in Range(log)
  BY <1>1 DEF AnswersTrue
<1> QED
  BY <1>1, <1>2 DEF Latest

(***************************************************************************)
(* Answers stay true when the queue and the answers stay as they are.      *)
(***************************************************************************)
LEMMA AnswersKept ==
  ASSUME AnswersTrue, UNCHANGED <<backend, log>>,
         \A d \in Device : \A i \in DOMAIN responses'[d] :
           responses'[d][i].ok =>
             /\ i \in DOMAIN responses[d]
             /\ responses'[d][i] = responses[d][i]
             /\ queue'[d][i].n = queue[d][i].n
             /\ queue'[d][i].write = queue[d][i].write
  PROVE  AnswersTrue'
BY AnswersMoved

(***************************************************************************)
(* A part of the invariant is kept by a step that leaves its variables     *)
(* alone.                                                                  *)
(***************************************************************************)
LEMMA PartsKept ==
  /\ BackendCoherent /\ UNCHANGED backend => BackendCoherent'
  /\ AnswersTrue /\ UNCHANGED <<backend, log, responses, queue>> => AnswersTrue'
  /\ CacheFaithful /\ UNCHANGED <<backend, cache, seen>> => CacheFaithful'
  /\ SuccessIsCommitted /\ UNCHANGED <<log, main>> => SuccessIsCommitted'
  /\ TypeOK /\ UNCHANGED clientVars => TypeOK'
PROOF
<1>1. BackendCoherent /\ UNCHANGED backend => BackendCoherent'
  BY DEF BackendCoherent
<1>2. AnswersTrue /\ UNCHANGED <<backend, log, responses, queue>> => AnswersTrue'
  BY AnswersKept
<1>3. CacheFaithful /\ UNCHANGED <<backend, cache, seen>> => CacheFaithful'
  BY DEF CacheFaithful, AheadOfWatch, Latest
<1>4. SuccessIsCommitted /\ UNCHANGED <<log, main>> => SuccessIsCommitted'
  BY DEF SuccessIsCommitted
<1>5. TypeOK /\ UNCHANGED clientVars => TypeOK'
  BY DEF TypeOK, clientVars, Latest
<1> QED
  BY <1>1, <1>2, <1>3, <1>4, <1>5

(***************************************************************************)
(* A call makes batches of its writes, at the end of the worker queue.     *)
(***************************************************************************)
LEMMA BatchesType ==
  ASSUME NEW ws \in Seq(Write), NEW n \in Nat
  PROVE  Batches(ws, n) \in Seq(Batch)
<1>1. Len(ws) \in Nat
  OBVIOUS
<1>2. \A i \in 1 .. Len(ws) :
        [n |-> n + i, write |-> ws[i], live |-> TRUE] \in Batch
  BY <1>1 DEF Batch
<1> QED
  BY <1>1, <1>2 DEF Batches

(***************************************************************************)
(* A call keeps the shape of the worker queues and of the counters.        *)
(***************************************************************************)
LEMMA EnqueueType ==
  ASSUME TypeOK, NEW d \in Device, NEW ws \in Seq(Write), Enqueue(d, ws)
  PROVE  made' \in [Device -> Nat] /\ calls' \in [Device -> Seq(Batch)]
<1>1. Batches(ws, made[d]) \in Seq(Batch)
  BY BatchesType DEF TypeOK
<1>2. calls[d] \o Batches(ws, made[d]) \in Seq(Batch) /\ Len(ws) \in Nat
  BY <1>1 DEF TypeOK
<1> QED
  BY <1>2 DEF TypeOK, Enqueue

(***************************************************************************)
(* A call of the main thread preserves the invariant.                      *)
(***************************************************************************)
LEMMA CallInvariant ==
  ASSUME InductiveInvariant, NEW d \in Device, NEW ws \in Program, Call(d, ws)
  PROVE  InductiveInvariant'
<1>1. ws \in Seq(Write)
  BY ProgramAssumption
<1>2. TypeOK'
  BY <1>1, EnqueueType DEF InductiveInvariant, TypeOK, Call, Latest
<1>3. BackendCoherent' /\ AnswersTrue' /\ CacheFaithful' /\ SuccessIsCommitted'
  BY PartsKept DEF InductiveInvariant, Call
<1> QED
  BY <1>2, <1>3 DEF InductiveInvariant

(***************************************************************************)
(* Storing a batch preserves the invariant: answers are for older batches. *)
(***************************************************************************)
LEMMA WriteLocallyInvariant ==
  ASSUME InductiveInvariant, NEW d \in Device, WriteLocally(d)
  PROVE  InductiveInvariant'
<1> USE DEF InductiveInvariant
<1>1. /\ calls[d] \in Seq(Batch) /\ calls[d] # <<>>
      /\ queue[d] \in Seq(Batch)
  BY DEF TypeOK, WriteLocally
<1>2. /\ Head(calls[d]) \in Batch
      /\ Tail(calls[d]) \in Seq(Batch)
      /\ Append(queue[d], Head(calls[d])) \in Seq(Batch)
      /\ Len(queue[d]) \in Nat
      /\ Len(Append(queue[d], Head(calls[d]))) = Len(queue[d]) + 1
      /\ \A i \in 1 .. Len(queue[d]) :
           Append(queue[d], Head(calls[d]))[i] = queue[d][i]
  BY <1>1
<1>3. /\ queue' \in [Device -> Seq(Batch)]
      /\ calls' \in [Device -> Seq(Batch)]
      /\ \A e \in Device : /\ Len(queue'[e]) >= Len(queue[e])
                           /\ \A i \in 1 .. Len(queue[e]) :
                                queue'[e][i] = queue[e][i]
  <2>1. /\ queue' = [queue EXCEPT ![d] = Append(queue[d], Head(calls[d]))]
        /\ calls' = [calls EXCEPT ![d] = Tail(calls[d])]
        /\ queue \in [Device -> Seq(Batch)] /\ calls \in [Device -> Seq(Batch)]
    BY DEF TypeOK, WriteLocally
  <2>2. \A e \in Device :
          queue'[e] = IF e = d THEN Append(queue[d], Head(calls[d])) ELSE queue[e]
    BY <2>1
  <2>3. /\ queue' \in [Device -> Seq(Batch)]
        /\ calls' \in [Device -> Seq(Batch)]
    BY <1>2, <2>1
  <2>4. /\ Len(queue'[d]) >= Len(queue[d])
        /\ \A i \in 1 .. Len(queue[d]) : queue'[d][i] = queue[d][i]
    <3>1. queue'[d] = Append(queue[d], Head(calls[d]))
      BY <2>2
    <3> QED
      BY <1>2, <3>1
  <2>5. ASSUME NEW e \in Device, e # d
        PROVE  /\ Len(queue'[e]) >= Len(queue[e])
               /\ \A i \in 1 .. Len(queue[e]) : queue'[e][i] = queue[e][i]
    <3>1. queue[e] \in Seq(Batch) /\ queue'[e] = queue[e]
      BY <2>1, <2>2, <2>5
    <3> QED
      BY <3>1
  <2> QED
    BY <2>3, <2>4, <2>5
<1>4. \A e \in Device : /\ Len(responses[e]) <= Len(queue'[e])
                       /\ DOMAIN responses[e] \subseteq 1 .. Len(queue[e])
  BY <1>3, AnswersMatchQueue
<1>5. TypeOK'
  BY <1>3, <1>4 DEF TypeOK, WriteLocally, Latest
<1>6. AnswersTrue'
  BY <1>3, <1>4, AnswersKept DEF WriteLocally
<1>7. BackendCoherent' /\ CacheFaithful' /\ SuccessIsCommitted'
  BY PartsKept DEF WriteLocally
<1> QED
  BY <1>5, <1>6, <1>7

(***************************************************************************)
(* A refused write preserves the invariant.                                *)
(***************************************************************************)
LEMMA RefuseInvariant ==
  ASSUME InductiveInvariant, NEW d \in Device, Refuse(d)
  PROVE  InductiveInvariant'
<1> USE DEF InductiveInvariant
<1>1. /\ responses[d] \in Seq(Answer)
      /\ Error \in Answer
      /\ Len(responses[d]) < Len(queue[d])
      /\ Len(queue[d]) \in Nat
  BY DEF TypeOK, Refuse, CanSend, Error, Answer
<1>2. /\ Append(responses[d], Error) \in Seq(Answer)
      /\ Len(Append(responses[d], Error)) = Len(responses[d]) + 1
      /\ \A i \in 1 .. Len(responses[d]) :
           Append(responses[d], Error)[i] = responses[d][i]
      /\ Append(responses[d], Error)[Len(responses[d]) + 1] = Error
  BY <1>1
<1>3. faults' \in [Fault -> Nat]
  BY FaultType DEF TypeOK, Refuse, Fault
<1>4. TypeOK'
  <2>1. /\ responses' \in [Device -> Seq(Answer)]
        /\ \A e \in Device : Len(responses'[e]) <= Len(queue[e])
    BY <1>1, <1>2, AnswersMatchQueue DEF TypeOK, Refuse
  <2> QED
    BY <1>3, <2>1 DEF TypeOK, Refuse, Latest
<1>5. AnswersTrue'
  <2>1. ASSUME NEW e \in Device, NEW i \in DOMAIN responses'[e],
               responses'[e][i].ok
        PROVE  i \in DOMAIN responses[e] /\ responses'[e][i] = responses[e][i]
    <3>1. CASE e = d
      BY <1>1, <1>2, <2>1, <3>1 DEF TypeOK, Refuse, Error
    <3>2. CASE e # d
      BY <2>1, <3>2 DEF TypeOK, Refuse
    <3> QED
      BY <3>1, <3>2
  <2> QED
    BY <2>1, AnswersKept DEF Refuse
<1>6. BackendCoherent' /\ CacheFaithful' /\ SuccessIsCommitted'
  BY PartsKept DEF Refuse
<1> QED
  BY <1>4, <1>5, <1>6

(***************************************************************************)
(* A broken stream preserves the invariant: it only loses answers.         *)
(***************************************************************************)
LEMMA BreakStreamInvariant ==
  ASSUME InductiveInvariant, NEW d \in Device, BreakStream(d)
  PROVE  InductiveInvariant'
<1> USE DEF InductiveInvariant
<1>1. faults' \in [Fault -> Nat]
  BY FaultType DEF BreakStream, Fault
<1>2. TypeOK'
  <2>1. /\ responses' \in [Device -> Seq(Answer)]
        /\ \A e \in Device : Len(responses'[e]) <= Len(queue[e])
    BY EmptySequence, AnswersMatchQueue DEF TypeOK, BreakStream
  <2> QED
    BY <1>1, <2>1 DEF TypeOK, BreakStream, Latest
<1>3. AnswersTrue'
  BY EmptySequence, AnswersKept DEF TypeOK, BreakStream
<1>4. BackendCoherent' /\ CacheFaithful' /\ SuccessIsCommitted'
  BY PartsKept DEF BreakStream
<1> QED
  BY <1>2, <1>3, <1>4

(***************************************************************************)
(* Running a completion handler preserves the invariant.                   *)
(***************************************************************************)
LEMMA CompleteInvariant ==
  ASSUME InductiveInvariant, NEW d \in Device,
         NEW ws \in Program \cup {<<>>}, Complete(d, ws)
  PROVE  InductiveInvariant'
<1> USE DEF InductiveInvariant
<1>1. ws \in Seq(Write)
  BY ProgramAssumption, EmptySequence
<1>2. made' \in [Device -> Nat] /\ calls' \in [Device -> Seq(Batch)]
  BY <1>1, EnqueueType DEF Complete
<1>3. main[d] \in Seq(Handler) /\ main[d] # <<>>
  BY DEF TypeOK, Complete
<1>4. /\ Tail(main[d]) \in Seq(Handler)
      /\ \A i \in DOMAIN Tail(main[d]) :
           i + 1 \in DOMAIN main[d] /\ Tail(main[d])[i] = main[d][i + 1]
  BY <1>3
<1>5. TypeOK'
  BY <1>2, <1>4 DEF TypeOK, Complete, Latest
<1>6. SuccessIsCommitted'
  BY <1>4 DEF TypeOK, Complete, SuccessIsCommitted
<1>7. BackendCoherent' /\ AnswersTrue' /\ CacheFaithful'
  BY PartsKept DEF Complete
<1> QED
  BY <1>5, <1>6, <1>7

(***************************************************************************)
(* A restart preserves the invariant: batches only lose their handlers.    *)
(***************************************************************************)
LEMMA KillInvariant ==
  ASSUME InductiveInvariant, NEW d \in Device, Kill(d)
  PROVE  InductiveInvariant'
<1> USE DEF InductiveInvariant
<1> DEFINE Stored == [i \in DOMAIN queue[d] |-> [queue[d][i] EXCEPT !.live = FALSE]]
<1>1. Stored \in Seq(Batch) /\ Len(Stored) = Len(queue[d])
  <2>1. queue[d] \in Seq(Batch)
    BY DEF TypeOK
  <2>2. Len(queue[d]) \in Nat /\ DOMAIN queue[d] = 1 .. Len(queue[d])
    BY <2>1
  <2>3. ASSUME NEW i \in 1 .. Len(queue[d])
        PROVE  [queue[d][i] EXCEPT !.live = FALSE] \in Batch
    <3>1. queue[d][i] \in Batch
      BY <2>1
    <3> QED
      BY <3>1 DEF Batch
  <2> QED
    BY <2>2, <2>3
<1> HIDE DEF Stored
<1>2. /\ queue' = [queue EXCEPT ![d] = Stored]
      /\ calls' = [calls EXCEPT ![d] = <<>>]
      /\ responses' = [responses EXCEPT ![d] = <<>>]
      /\ main' = [main EXCEPT ![d] = <<>>]
      /\ UNCHANGED <<backend, log, made, cache, seen>>
      /\ faults' \in [Fault -> Nat]
  BY FaultType DEF Kill, Fault, Stored
<1>3. TypeOK'
  BY <1>1, <1>2, EmptySequence DEF TypeOK, Latest
<1>4. AnswersTrue'
  <2>1. \A e \in Device : \A i \in DOMAIN responses'[e] :
          e # d /\ responses'[e] = responses[e] /\ queue'[e] = queue[e]
    BY <1>2, EmptySequence DEF TypeOK
  <2> QED
    BY <1>2, <2>1, AnswersKept
<1>5. SuccessIsCommitted'
  BY <1>2, EmptySequence DEF TypeOK, SuccessIsCommitted
<1>6. BackendCoherent' /\ CacheFaithful'
  BY <1>2, PartsKept
<1> QED
  BY <1>3, <1>4, <1>5, <1>6

(***************************************************************************)
(* The two receiving actions drop the first batch and the first answer, or *)
(* all answers.                                                            *)
(***************************************************************************)
LEMMA TailFacts ==
  ASSUME NEW S, NEW s \in Seq(S), s # <<>>
  PROVE  /\ Head(s) \in S /\ Head(s) = s[1]
         /\ Tail(s) \in Seq(S)
         /\ Len(s) \in Nat /\ Len(s) >= 1
         /\ Len(Tail(s)) = Len(s) - 1
         /\ DOMAIN Tail(s) = 1 .. Len(s) - 1
         /\ \A i \in DOMAIN Tail(s) : i + 1 \in DOMAIN s /\ Tail(s)[i] = s[i + 1]
OBVIOUS

(***************************************************************************)
(* A handler that is put on the main queue got the answer of its own batch.*)
(***************************************************************************)
LEMMA NotifyUserInvariant ==
  ASSUME TypeOK, SuccessIsCommitted, NEW d \in Device, NEW batch \in Batch,
         NEW ok \in BOOLEAN, NotifyUser(d, batch, ok),
         ok => <<d, batch.n>> \in Range(log), UNCHANGED log
  PROVE  main' \in [Device -> Seq(Handler)] /\ SuccessIsCommitted'
<1> DEFINE new == [n |-> batch.n, write |-> batch.write, ok |-> ok]
<1>1. CASE ~batch.live
  BY <1>1 DEF NotifyUser, TypeOK, SuccessIsCommitted
<1>2. CASE batch.live
  <2>1. new \in Handler /\ new.n = batch.n /\ new.ok = ok
    BY DEF Batch, Handler
  <2>2. main[d] \in Seq(Handler) /\ main' = [main EXCEPT ![d] = Append(main[d], new)]
    BY <1>2 DEF NotifyUser, TypeOK
  <2> HIDE DEF new
  <2>3. /\ Append(main[d], new) \in Seq(Handler)
        /\ \A i \in DOMAIN Append(main[d], new) :
             \/ i \in DOMAIN main[d] /\ Append(main[d], new)[i] = main[d][i]
             \/ Append(main[d], new)[i] = new
    BY <2>1, <2>2
  <2>4. main' \in [Device -> Seq(Handler)]
    BY <2>2, <2>3 DEF TypeOK
  <2>5. ASSUME NEW e \in Device, NEW i \in DOMAIN main'[e], main'[e][i].ok
        PROVE  <<e, main'[e][i].n>> \in Range(log)
    <3>1. CASE e = d
      BY <2>1, <2>2, <2>3, <2>5, <3>1 DEF TypeOK, SuccessIsCommitted
    <3>2. CASE e # d
      BY <2>2, <2>5, <3>2 DEF TypeOK, SuccessIsCommitted
    <3> QED
      BY <3>1, <3>2
  <2> QED
    BY <2>4, <2>5 DEF SuccessIsCommitted
<1> QED
  BY <1>1, <1>2

(***************************************************************************)
(* Dropping a refused batch preserves the invariant.                       *)
(***************************************************************************)
LEMMA RejectBatchInvariant ==
  ASSUME InductiveInvariant, NEW d \in Device, RejectBatch(d)
  PROVE  InductiveInvariant'
<1> USE DEF InductiveInvariant
<1>1. queue[d] \in Seq(Batch) /\ queue[d] # <<>>
  BY AnswersMatchQueue, EmptySequence DEF TypeOK, RejectBatch
<1>2. Head(queue[d]) \in Batch /\ Tail(queue[d]) \in Seq(Batch)
  BY <1>1, TailFacts
<1>3. main' \in [Device -> Seq(Handler)] /\ SuccessIsCommitted'
  BY <1>2, NotifyUserInvariant DEF RejectBatch
<1>4. TypeOK'
  <2>1. /\ queue' \in [Device -> Seq(Batch)]
        /\ responses' \in [Device -> Seq(Answer)]
    BY <1>2, EmptySequence DEF TypeOK, RejectBatch
  <2>2. \A e \in Device : Len(responses'[e]) <= Len(queue'[e])
    BY <1>2, EmptySequence, AnswersMatchQueue DEF TypeOK, RejectBatch
  <2> QED
    BY <1>3, <2>1, <2>2 DEF TypeOK, RejectBatch, Latest
<1>5. AnswersTrue'
  <2>1. \A e \in Device : \A i \in DOMAIN responses'[e] :
          e # d /\ responses'[e] = responses[e] /\ queue'[e] = queue[e]
    BY EmptySequence DEF TypeOK, RejectBatch
  <2> QED
    BY <2>1, AnswersKept DEF RejectBatch
<1>6. BackendCoherent' /\ CacheFaithful'
  BY PartsKept DEF RejectBatch
<1> QED
  BY <1>3, <1>4, <1>5, <1>6

(***************************************************************************)
(* The result of a commit is applied only when the snapshots have not      *)
(* reached its version: a copy that is older than the commit is older than *)
(* the last snapshot can have left it.                                     *)
(***************************************************************************)
LEMMA AppliedIsAhead ==
  ASSUME InductiveInvariant, NEW d \in Device, NEW k \in Key,
         NEW v \in 1 .. Latest, backend[v][k].version = v,
         cache[d][k].version < v
  PROVE  seen[d] < v
<1> USE DEF InductiveInvariant
<1>1. /\ seen[d] \in 1 .. Latest /\ Latest \in Nat
      /\ DOMAIN backend = 1 .. Latest
      /\ cache[d][k].version \in Nat
  BY DEF TypeOK, Latest, IsDocument
<1>2. CASE cache[d][k] = backend[seen[d]][k]
  <2>1. SUFFICES ASSUME v <= seen[d] PROVE FALSE
    BY <1>1
  <2>2. backend[v][k].version <= backend[seen[d]][k].version
    BY <1>1, <2>1, BackendMonotone
  <2> QED
    BY <1>1, <1>2, <2>2
<1>3. CASE AheadOfWatch(d, k)
  BY <1>1, <1>3 DEF AheadOfWatch
<1> QED
  BY <1>2, <1>3 DEF CacheFaithful

(***************************************************************************)
(* An acknowledgement preserves the invariant: its result is ahead of      *)
(* watch.                                                                  *)
(***************************************************************************)
LEMMA AcknowledgeBatchInvariant ==
  ASSUME InductiveInvariant, NEW d \in Device, AcknowledgeBatch(d)
  PROVE  InductiveInvariant'
<1> USE DEF InductiveInvariant
<1> DEFINE batch == Head(queue[d])
           key   == batch.write.key
           v     == Head(responses[d]).version
           old   == cache[d][key]
           new   == ApplyBatchResult(batch.write, old, v)
<1>1. /\ queue[d] \in Seq(Batch) /\ queue[d] # <<>>
      /\ responses[d] \in Seq(Answer) /\ responses[d] # <<>>
  BY AnswersMatchQueue, EmptySequence DEF TypeOK, AcknowledgeBatch
<1>2. /\ batch \in Batch /\ batch = queue[d][1]
      /\ Head(responses[d]) = responses[d][1]
      /\ 1 \in DOMAIN responses[d]
      /\ key \in Key
  <2>1. /\ batch \in Batch /\ batch = queue[d][1]
        /\ Head(responses[d]) = responses[d][1]
        /\ Len(responses[d]) >= 1
    BY <1>1, TailFacts
  <2>2. batch.write \in Write
    BY <2>1 DEF Batch
  <2> QED
    BY <2>1, <2>2, WriteAssumption, AnswersMatchQueue
<1>3. /\ v \in 1 .. Latest
      /\ backend[v][key].version = v
      /\ <<d, batch.n>> \in Range(log)
  <2>1. 1 \in DOMAIN responses[d] /\ responses[d][1].ok
    BY <1>2 DEF AcknowledgeBatch
  <2>2. /\ responses[d][1].version \in 1 .. Latest
        /\ backend[responses[d][1].version][queue[d][1].write.key].version
             = responses[d][1].version
        /\ <<d, queue[d][1].n>> \in Range(log)
    BY <2>1 DEF AnswersTrue
  <2> QED
    BY <1>2, <2>2
<1>4. main' \in [Device -> Seq(Handler)] /\ SuccessIsCommitted'
  BY <1>2, <1>3, NotifyUserInvariant DEF AcknowledgeBatch
<1>5. /\ v \in Nat /\ IsDocument(old) /\ IsDocument(new)
      /\ \/ new = old
         \/ old.version < v /\ new.version = v /\ HasPendingWrites(new)
  <2>1. v \in Nat
    <3>1. Latest \in Nat /\ v \in 1 .. Latest
      BY <1>3 DEF TypeOK, Latest
    <3> HIDE DEF v
    <3> QED
      BY <3>1
  <2>2. IsDocument(old)
    <3>1. \A k \in Key : IsDocument(cache[d][k])
      BY DEF TypeOK
    <3> QED
      BY <1>2, <3>1
  <2> HIDE DEF v, old, batch
  <2>3. CASE old.version < v
    BY <2>1, <2>2, <2>3, ApplyToRemoteDocumentType DEF ApplyBatchResult
  <2>4. CASE ~(old.version < v)
    BY <2>1, <2>2, <2>4 DEF ApplyBatchResult
  <2> QED
    BY <2>3, <2>4, <2>1, <2>2
<1>6. cache' = [cache EXCEPT ![d] = [cache[d] EXCEPT ![key] = new]]
  BY DEF AcknowledgeBatch
<1> HIDE DEF batch, key, v, old, new
<1>7. /\ DOMAIN cache' = Device
      /\ \A e \in Device : DOMAIN cache'[e] = Key
      /\ \A e \in Device, k \in Key :
           cache'[e][k] = IF e = d /\ k = key THEN new ELSE cache[e][k]
  BY <1>2, <1>6 DEF TypeOK
<1>8. /\ queue' = [queue EXCEPT ![d] = Tail(queue[d])]
      /\ responses' = [responses EXCEPT ![d] = Tail(responses[d])]
      /\ UNCHANGED <<backend, log, made, calls, seen, faults>>
  BY DEF AcknowledgeBatch
<1>9. TypeOK'
  <2>1. /\ queue' \in [Device -> Seq(Batch)]
        /\ responses' \in [Device -> Seq(Answer)]
    BY <1>1, <1>8, TailFacts DEF TypeOK
  <2>2. Len(Tail(responses[d])) <= Len(Tail(queue[d]))
    BY <1>1, TailFacts, AnswersMatchQueue
  <2>3. \A e \in Device : Len(responses'[e]) <= Len(queue'[e])
    BY <1>8, <2>2, AnswersMatchQueue DEF TypeOK
  <2>4. \A e \in Device, k \in Key : IsDocument(cache'[e][k])
    BY <1>5, <1>7 DEF TypeOK
  <2> QED
    BY <1>4, <1>7, <1>8, <2>1, <2>3, <2>4 DEF TypeOK, Latest
<1>10. AnswersTrue'
  <2>1. ASSUME NEW e \in Device, NEW i \in DOMAIN responses'[e]
        PROVE  \E j \in DOMAIN responses[e] :
                 responses'[e][i] = responses[e][j] /\ queue'[e][i] = queue[e][j]
    <3>1. CASE e = d
      <4>1. i \in DOMAIN Tail(responses[d])
        BY <1>8, <2>1, <3>1 DEF TypeOK
      <4>2. i \in DOMAIN Tail(queue[d])
        BY <1>1, <4>1, TailFacts, AnswersMatchQueue
      <4>3. /\ i + 1 \in DOMAIN responses[d]
            /\ Tail(responses[d])[i] = responses[d][i + 1]
            /\ Tail(queue[d])[i] = queue[d][i + 1]
        BY <1>1, <4>1, <4>2, TailFacts
      <4> QED
        BY <1>8, <3>1, <4>3 DEF TypeOK
    <3>2. CASE e # d
      BY <1>8, <2>1, <3>2 DEF TypeOK
    <3> QED
      BY <3>1, <3>2
  <2>2. AnswersTrue /\ UNCHANGED <<backend, log>>
    BY <1>8
  <2> HIDE DEF InductiveInvariant
  <2> QED
    BY <2>1, <2>2, AnswersMoved
<1>11. CacheFaithful'
  <2> SUFFICES ASSUME NEW e \in Device, NEW k \in Key
               PROVE  \/ cache'[e][k] = backend'[seen'[e]][k]
                      \/ AheadOfWatch(e, k)'
    BY DEF CacheFaithful
  <2>1. CASE cache'[e][k] = cache[e][k]
    BY <1>8, <2>1 DEF CacheFaithful, AheadOfWatch, Latest
  <2>2. CASE cache'[e][k] # cache[e][k]
    <3>1. /\ e = d /\ k = key /\ cache'[e][k] = new
          /\ old.version < v /\ new.version = v /\ HasPendingWrites(new)
      BY <1>5, <1>7, <2>2 DEF old
    <3>2. seen[d] < v
      BY <1>2, <1>3, <3>1, AppliedIsAhead DEF old
    <3>3. seen[d] \in Nat /\ Latest \in Nat
      BY DEF TypeOK, Latest
    <3> QED
      BY <1>3, <1>8, <3>1, <3>2, <3>3 DEF AheadOfWatch, Latest
  <2> QED
    BY <2>1, <2>2
<1>12. BackendCoherent'
  BY <1>8 DEF BackendCoherent
<1> QED
  BY <1>4, <1>9, <1>10, <1>11, <1>12

(***************************************************************************)
(* A snapshot replaces every copy it should: what it does not replace is   *)
(* the server's document already, or ahead of this snapshot too.           *)
(***************************************************************************)
LEMMA ApplyRemoteEventInvariant ==
  ASSUME InductiveInvariant, NEW d \in Device, NEW v \in 1 .. Latest,
         ApplyRemoteEvent(d, v)
  PROVE  InductiveInvariant'
<1> USE DEF InductiveInvariant
<1>1. /\ DOMAIN cache' = Device
      /\ \A e \in Device : DOMAIN cache'[e] = Key
      /\ \A e \in Device, k \in Key :
           cache'[e][k] = IF e = d /\ AcceptsWatchUpdate(cache[d][k], backend[v][k])
                          THEN backend[v][k]
                          ELSE cache[e][k]
  BY DEF TypeOK, ApplyRemoteEvent
<1>2. /\ v \in seen[d] + 1 .. Latest
      /\ seen' = [seen EXCEPT ![d] = v]
      /\ UNCHANGED <<backend, log, made, calls, queue, responses, main, faults>>
  BY DEF ApplyRemoteEvent
<1>3. /\ DOMAIN backend = 1 .. Latest /\ Latest \in Nat
      /\ v \in DOMAIN backend /\ seen[d] \in DOMAIN backend
      /\ seen[d] <= v /\ v \in Nat /\ seen[d] \in Nat
  BY <1>2 DEF TypeOK, Latest
<1>4. TypeOK'
  <2>1. \A e \in Device, k \in Key : IsDocument(cache'[e][k])
    BY <1>1, <1>3 DEF TypeOK, IsServerDocument
  <2>2. seen' \in [Device -> Nat] /\ \A e \in Device : seen'[e] \in 1 .. Latest
    BY <1>2, <1>3 DEF TypeOK
  <2> QED
    BY <1>1, <1>2, <2>1, <2>2 DEF TypeOK, Latest
<1>5. CacheFaithful'
  <2> SUFFICES ASSUME NEW e \in Device, NEW k \in Key
               PROVE  \/ cache'[e][k] = backend'[seen'[e]][k]
                      \/ AheadOfWatch(e, k)'
    BY DEF CacheFaithful
  <2>1. CASE e # d
    <3>1. cache'[e][k] = cache[e][k] /\ seen'[e] = seen[e] /\ backend' = backend
      BY <1>1, <1>2, <2>1 DEF TypeOK
    <3>2. cache[e][k] = backend[seen[e]][k] \/ AheadOfWatch(e, k)
      BY DEF CacheFaithful
    <3> QED
      BY <3>1, <3>2 DEF AheadOfWatch, Latest
  <2>2. CASE e = d /\ AcceptsWatchUpdate(cache[d][k], backend[v][k])
    BY <1>1, <1>2, <2>2 DEF TypeOK
  <2>3. CASE e = d /\ ~AcceptsWatchUpdate(cache[d][k], backend[v][k])
    <3> DEFINE old == cache[d][k]
               update == backend[v][k]
    <3>1. /\ cache'[e][k] = old /\ seen'[e] = v /\ backend' = backend
          /\ old.version \in Nat /\ update.version \in Nat
          /\ update.version <= old.version
          /\ HasPendingWrites(old) => update.version < old.version
      <4>1. cache'[e][k] = old /\ seen'[e] = v /\ backend' = backend
        BY <1>1, <1>2, <2>3 DEF TypeOK
      <4>2. old.version \in Nat /\ update.version \in Nat
        BY <1>3 DEF TypeOK, IsServerDocument, IsDocument
      <4> QED
        BY <2>3, <4>1, <4>2 DEF AcceptsWatchUpdate
    <3>2. CASE old = backend[seen[d]][k]
      <4>1. update.version = old.version
        BY <1>3, <3>1, <3>2, BackendMonotone
      <4>2. old.version <= seen[d]
        BY <1>3, <3>2 DEF TypeOK, IsServerDocument
      <4>3. update = backend[seen[d]][k]
        BY <1>3, <4>1, <4>2 DEF BackendCoherent
      <4> QED
        BY <3>1, <3>2, <4>3
    <3>3. CASE AheadOfWatch(d, k)
      <4>1. /\ HasPendingWrites(old) /\ old.version \in 1 .. Latest
            /\ backend[old.version][k].version = old.version
        BY <1>3, <3>3 DEF AheadOfWatch
      <4>2. ~(old.version <= v)
        BY <1>3, <3>1, <4>1, BackendMonotone
      <4> QED
        BY <1>2, <1>3, <2>3, <3>1, <4>1, <4>2 DEF AheadOfWatch, Latest
    <3> QED
      BY <3>2, <3>3 DEF CacheFaithful
  <2> QED
    BY <2>1, <2>2, <2>3
<1>6. AnswersTrue'
  BY <1>2, AnswersKept
<1>7. BackendCoherent' /\ SuccessIsCommitted'
  BY <1>2, PartsKept
<1> QED
  BY <1>4, <1>5, <1>6, <1>7

(***************************************************************************)
(* A commit leaves the versions of the server so far as they are, and      *)
(* answers with one of the new history.                                    *)
(***************************************************************************)
LEMMA CommitInvariant ==
  ASSUME InductiveInvariant, NEW d \in Device, Commit(d)
  PROVE  InductiveInvariant'
<1> USE DEF InductiveInvariant
<1> DEFINE batch   == NextSent(d)
           key     == batch.write.key
           current == backend[Latest][key]
           doc     == ServerApply(batch.write, current, Latest + 1)
           last    == [backend[Latest] EXCEPT ![key] = doc]
           answer  == Accepted(doc.version)
<1>1. /\ Latest \in Nat /\ Latest >= 1 /\ Latest = Len(backend)
      /\ DOMAIN backend = 1 .. Latest
  BY DEF TypeOK, Latest
<1>2. /\ responses[d] \in Seq(Answer) /\ queue[d] \in Seq(Batch)
      /\ Len(responses[d]) \in Nat
      /\ Len(responses[d]) + 1 \in 1 .. Len(queue[d])
  <2>1. responses[d] \in Seq(Answer) /\ queue[d] \in Seq(Batch)
    BY DEF TypeOK
  <2>2. Len(responses[d]) < Len(queue[d])
    BY DEF Commit, CanSend
  <2> QED
    BY <2>1, <2>2
<1>3. /\ batch = queue[d][Len(responses[d]) + 1]
      /\ batch \in Batch /\ key \in Key
  <2>1. batch = queue[d][Len(responses[d]) + 1] /\ batch \in Batch
    BY <1>2 DEF NextSent
  <2> QED
    BY <2>1, WriteAssumption DEF Batch
<1>4. /\ IsServerDocument(current, Latest)
      /\ IsServerDocument(doc, Latest + 1)
      /\ doc.type = "document"
      /\ doc = current \/ doc.version = Latest + 1
  <2> HIDE DEF key
  <2>1. Latest \in DOMAIN backend
    BY <1>1
  <2>2. IsServerDocument(current, Latest)
    BY <1>3, <2>1 DEF TypeOK
  <2> HIDE DEF current, batch
  <2> QED
    BY <1>1, <2>2, ServerApplyType
<1>5. /\ backend' = IF doc = current THEN backend ELSE Append(backend, last)
      /\ log' = Append(log, <<d, batch.n>>)
      /\ responses' = [responses EXCEPT ![d] = Append(responses[d], answer)]
      /\ UNCHANGED <<made, calls, queue, cache, seen, main, faults>>
  BY DEF Commit
<1>6. /\ answer \in Answer /\ answer.version = doc.version /\ answer.ok
      /\ doc.version \in Nat /\ doc.version >= 1
  BY <1>4 DEF Accepted, Answer, IsServerDocument, IsDocument
<1> HIDE DEF batch, key, current, doc, last, answer
<1>7. /\ backend' \in Seq(Range(backend'))
      /\ \A v \in 1 .. Latest : v \in DOMAIN backend' /\ backend'[v] = backend[v]
      /\ \/ Latest' = Latest /\ doc = current
         \/ /\ Latest' = Latest + 1 /\ doc.version = Latest + 1
            /\ DOMAIN backend'[Latest + 1] = Key
            /\ \A k \in Key : backend'[Latest + 1][k] =
                                 IF k = key THEN doc ELSE backend[Latest][k]
      /\ DOMAIN backend' = 1 .. Latest'
  <2>1. backend \in Seq(Range(backend))
    BY DEF TypeOK
  <2>2. CASE doc = current
    BY <1>1, <1>5, <2>1, <2>2 DEF Latest
  <2>3. CASE doc # current
    <3>1. DOMAIN last = Key /\ \A k \in Key :
            last[k] = IF k = key THEN doc ELSE backend[Latest][k]
      BY <1>1, <1>3 DEF TypeOK, last
    <3>2. backend' = Append(backend, last)
      BY <1>5, <2>3
    <3>3. /\ backend' \in Seq(Range(backend'))
          /\ Len(backend') = Latest + 1
          /\ DOMAIN backend' = 1 .. Latest + 1
          /\ \A v \in 1 .. Latest : backend'[v] = backend[v]
          /\ backend'[Latest + 1] = last
      BY <1>1, <2>1, <3>2, AppendToAny
    <3>4. Latest' = Latest + 1
      BY <3>3 DEF Latest
    <3> QED
      BY <1>1, <1>4, <2>3, <3>1, <3>3, <3>4
  <2> QED
    BY <2>2, <2>3
<1>8. \A v \in DOMAIN backend', k \in Key :
        /\ DOMAIN backend'[v] = Key
        /\ IsServerDocument(backend'[v][k], v)
  <2>1. \A v \in 1 .. Latest, k \in Key :
          /\ DOMAIN backend[v] = Key
          /\ IsServerDocument(backend[v][k], v)
    BY <1>1 DEF TypeOK
  <2>2. \A k \in Key : IsServerDocument(backend[Latest][k], Latest + 1)
    BY <1>1, <2>1 DEF IsServerDocument, IsDocument
  <2> QED
    BY <1>1, <1>4, <1>7, <2>1, <2>2
<1>9. /\ log' \in Seq(Device \X Nat)
      /\ Range(log') = Range(log) \cup {<<d, batch.n>>}
  <2>1. log \in Seq(Device \X Nat) /\ <<d, batch.n>> \in Device \X Nat
    BY <1>3 DEF TypeOK, Batch
  <2> QED
    BY <1>5, <2>1, RangeOfAppend
<1>10. /\ Append(responses[d], answer) \in Seq(Answer)
       /\ Len(Append(responses[d], answer)) = Len(responses[d]) + 1
       /\ \A i \in 1 .. Len(responses[d]) :
            Append(responses[d], answer)[i] = responses[d][i]
       /\ Append(responses[d], answer)[Len(responses[d]) + 1] = answer
  BY <1>2, <1>6
<1>11. TypeOK'
  <2>1. /\ responses' \in [Device -> Seq(Answer)]
        /\ \A e \in Device : Len(responses'[e]) <= Len(queue[e])
    <3>1. responses \in [Device -> Seq(Answer)]
      BY DEF TypeOK
    <3>2. responses' \in [Device -> Seq(Answer)]
      BY <1>5, <1>10, <3>1
    <3>3. Len(responses'[d]) <= Len(queue[d])
      BY <1>2, <1>5, <1>10, <3>1
    <3>4. ASSUME NEW e \in Device, e # d
          PROVE  Len(responses'[e]) <= Len(queue[e])
      BY <1>5, <3>1, <3>4, AnswersMatchQueue
    <3> QED
      BY <3>2, <3>3, <3>4
  <2>2. Latest' >= 1 /\ \A e \in Device : seen[e] \in 1 .. Latest'
    BY <1>1, <1>7 DEF TypeOK
  <2>3. \A v \in DOMAIN backend' :
          /\ DOMAIN backend'[v] = Key
          /\ \A k \in Key : IsServerDocument(backend'[v][k], v)
    BY <1>1, <1>7, <1>8 DEF TypeOK
  <2> QED
    BY <1>5, <1>7, <1>9, <2>1, <2>2, <2>3 DEF TypeOK
<1>12. BackendCoherent'
  <2> SUFFICES ASSUME NEW v \in DOMAIN backend', NEW w \in DOMAIN backend',
                      NEW k \in Key, v <= w, backend'[w][k].version <= v
               PROVE  backend'[w][k] = backend'[v][k]
    BY DEF BackendCoherent
  <2>1. CASE w \in 1 .. Latest
    BY <1>1, <1>7, <2>1 DEF BackendCoherent
  <2>2. CASE w = Latest + 1 /\ v \in 1 .. Latest
    <3>1. k # key /\ backend'[w][k] = backend[Latest][k]
      BY <1>1, <1>7, <2>2
    <3> QED
      BY <1>1, <1>7, <2>2, <3>1 DEF BackendCoherent
  <2>3. CASE w = v
    BY <2>3
  <2> QED
    BY <1>1, <1>7, <2>1, <2>2, <2>3
<1>13. AnswersTrue'
  <2>1. /\ doc.version \in 1 .. Latest'
        /\ backend'[doc.version][key].version = doc.version
    <3>1. CASE Latest' = Latest /\ doc = current
      <4>1. doc.version \in 1 .. Latest /\ doc = backend[Latest][key]
        BY <1>1, <1>4, <1>6, <3>1 DEF IsServerDocument, current
      <4>2. backend[Latest][key] = backend[doc.version][key]
        BY <1>1, <1>3, <4>1 DEF BackendCoherent
      <4> QED
        BY <1>7, <3>1, <4>1, <4>2
    <3>2. CASE Latest' = Latest + 1 /\ doc.version = Latest + 1
      BY <1>1, <1>3, <1>7, <3>2
    <3> QED
      BY <1>7, <3>1, <3>2
  <2>2. ASSUME NEW e \in Device, NEW i \in DOMAIN responses'[e],
               responses'[e][i].ok
        PROVE  /\ responses'[e][i].version \in 1 .. Latest'
               /\ backend'[responses'[e][i].version]
                     [queue[e][i].write.key].version = responses'[e][i].version
               /\ <<e, queue[e][i].n>> \in Range(log')
    <3>1. CASE e = d /\ i = Len(responses[d]) + 1
      <4>1. /\ responses'[e][i] = answer
            /\ queue[e][i] = batch
        BY <1>3, <1>5, <1>10, <3>1 DEF TypeOK
      <4> QED
        BY <1>6, <1>9, <2>1, <3>1, <4>1 DEF key
    <3>2. CASE ~(e = d /\ i = Len(responses[d]) + 1)
      <4>1. i \in DOMAIN responses[e] /\ responses'[e][i] = responses[e][i]
        <5>1. CASE e = d
          <6>1. responses'[e] = Append(responses[d], answer)
            BY <1>5, <5>1 DEF TypeOK
          <6>2. i \in 1 .. Len(responses[d]) + 1
            BY <1>2, <1>10, <2>2, <6>1
          <6> QED
            BY <1>2, <1>10, <3>2, <5>1, <6>1, <6>2
        <5>2. CASE e # d
          BY <1>5, <2>2, <5>2 DEF TypeOK
        <5> QED
          BY <5>1, <5>2
      <4>2. /\ responses[e][i].version \in 1 .. Latest
            /\ backend[responses[e][i].version]
                  [queue[e][i].write.key].version = responses[e][i].version
            /\ <<e, queue[e][i].n>> \in Range(log)
        BY <2>2, <4>1 DEF AnswersTrue
      <4> QED
        BY <1>1, <1>7, <1>9, <4>1, <4>2
    <3> QED
      BY <3>1, <3>2
  <2>3. queue' = queue
    BY <1>5
  <2> QED
    BY <2>2, <2>3 DEF AnswersTrue
<1>14. CacheFaithful'
  <2> SUFFICES ASSUME NEW e \in Device, NEW k \in Key
               PROVE  \/ cache[e][k] = backend'[seen[e]][k]
                      \/ AheadOfWatch(e, k)'
    BY <1>5 DEF CacheFaithful
  <2>1. seen[e] \in 1 .. Latest /\ seen[e] \in Nat
    BY DEF TypeOK
  <2>2. CASE cache[e][k] = backend[seen[e]][k]
    BY <1>7, <2>1, <2>2
  <2>3. CASE AheadOfWatch(e, k)
    BY <1>1, <1>5, <1>7, <2>1, <2>3 DEF AheadOfWatch
  <2> QED
    BY <2>2, <2>3 DEF CacheFaithful
<1>15. SuccessIsCommitted'
  BY <1>5, <1>9 DEF SuccessIsCommitted
<1> QED
  BY <1>11, <1>12, <1>13, <1>14, <1>15

-----------------------------------------------------------------------------
(***************************************************************************)
(* Every step preserves the invariant.                                     *)
(***************************************************************************)
LEMMA NextInvariant ==
  InductiveInvariant /\ [Next]_clientVars => InductiveInvariant'
<1> SUFFICES ASSUME InductiveInvariant, [Next]_clientVars
             PROVE  InductiveInvariant'
  OBVIOUS
<1>1. CASE Next
  <2> PICK d \in Device : \/ \E ws \in Program : Call(d, ws)
                         \/ \E ws \in Program \cup {<<>>} : Complete(d, ws)
                         \/ Background(d)
                         \/ Kill(d)
    BY <1>1 DEF Next
  <2>1. CASE \E ws \in Program : Call(d, ws)
    BY <2>1, CallInvariant
  <2>2. CASE \E ws \in Program \cup {<<>>} : Complete(d, ws)
    BY <2>2, CompleteInvariant
  <2>3. CASE WriteLocally(d)
    BY <2>3, WriteLocallyInvariant
  <2>4. CASE Commit(d)
    BY <2>4, CommitInvariant
  <2>5. CASE Refuse(d)
    BY <2>5, RefuseInvariant
  <2>6. CASE AcknowledgeBatch(d)
    BY <2>6, AcknowledgeBatchInvariant
  <2>7. CASE RejectBatch(d)
    BY <2>7, RejectBatchInvariant
  <2>8. CASE BreakStream(d)
    BY <2>8, BreakStreamInvariant
  <2>9. CASE \E v \in 1 .. Latest : ApplyRemoteEvent(d, v)
    BY <2>9, ApplyRemoteEventInvariant
  <2>10. CASE Kill(d)
    BY <2>10, KillInvariant
  <2> QED
    BY <2>1, <2>2, <2>3, <2>4, <2>5, <2>6, <2>7, <2>8, <2>9, <2>10
       DEF Background
<1>2. CASE UNCHANGED clientVars
  BY <1>2, PartsKept DEF clientVars, InductiveInvariant
<1> QED
  BY <1>1, <1>2

(***************************************************************************)
(* The invariant of the SDK's path holds in every behaviour, for every set *)
(* of devices, documents and writes and however many faults there are.     *)
(***************************************************************************)
THEOREM Invariance == Spec => []InductiveInvariant
<1>1. Init => InductiveInvariant
  BY InitInvariant
<1>2. InductiveInvariant /\ [Next]_clientVars => InductiveInvariant'
  BY NextInvariant
<1> QED
  BY <1>1, <1>2, PTL DEF Spec

(***************************************************************************)
(* The state keeps its shape.                                              *)
(***************************************************************************)
THEOREM TypeCorrect == Spec => []TypeOK
<1>1. InductiveInvariant => TypeOK
  BY DEF InductiveInvariant
<1> QED
  BY <1>1, Invariance, PTL

(***************************************************************************)
(* LocalStore never keeps a copy that is neither the server's nor marked   *)
(* to be replaced by the watch stream.                                     *)
(***************************************************************************)
THEOREM CacheIsFaithful == Spec => []CacheFaithful
<1>1. InductiveInvariant => CacheFaithful
  BY DEF InductiveInvariant
<1> QED
  BY <1>1, Invariance, PTL

(***************************************************************************)
(* A completion handler without an error is run only for a write that the  *)
(* server has committed.                                                   *)
(***************************************************************************)
THEOREM SuccessMeansCommitted == Spec => []SuccessIsCommitted
<1>1. InductiveInvariant => SuccessIsCommitted
  BY DEF InductiveInvariant
<1> QED
  BY <1>1, Invariance, PTL

(***************************************************************************)
(* Acknowledgements and snapshots, in whatever order they come, never take *)
(* a cached document back to an older version.                             *)
(***************************************************************************)
LEMMA NextNeverRegresses ==
  ASSUME InductiveInvariant, [Next]_clientVars,
         NEW d \in Device, NEW k \in Key
  PROVE  cache'[d][k].version >= cache[d][k].version
<1>1. TypeOK /\ cache[d][k].version \in Nat
  BY DEF InductiveInvariant, TypeOK, IsDocument
<1>2. CASE UNCHANGED cache
  BY <1>1, <1>2
<1>3. ASSUME NEW e \in Device, AcknowledgeBatch(e)
      PROVE  cache'[d][k].version >= cache[d][k].version
  <2> DEFINE batch == Head(queue[e])
             key   == batch.write.key
             v     == Head(responses[e]).version
             new   == ApplyBatchResult(batch.write, cache[e][key], v)
  <2>1. cache' = [cache EXCEPT ![e] = [cache[e] EXCEPT ![key] = new]]
    BY <1>3 DEF AcknowledgeBatch
  <2>2. v \in Nat
    <3>1. responses[e] \in Seq(Answer) /\ responses[e] # <<>>
      BY <1>1, <1>3 DEF TypeOK, AcknowledgeBatch
    <3>2. Head(responses[e]) \in Answer
      BY <3>1, TailFacts
    <3> QED
      BY <3>2 DEF Answer
  <2> HIDE DEF v, batch
  <2>3. CASE d = e /\ k = key
    <3>1. cache'[d][k] = new
      BY <1>1, <2>1, <2>3 DEF TypeOK
    <3>2. CASE cache[e][key].version < v
      BY <1>1, <2>2, <2>3, <3>1, <3>2, ApplyToRemoteDocumentType
         DEF ApplyBatchResult
    <3>3. CASE ~(cache[e][key].version < v)
      BY <1>1, <2>3, <3>1, <3>3 DEF ApplyBatchResult
    <3> QED
      BY <3>2, <3>3
  <2>4. CASE ~(d = e /\ k = key)
    BY <1>1, <2>1, <2>4 DEF TypeOK
  <2> QED
    BY <2>3, <2>4
<1>4. ASSUME NEW e \in Device, NEW v \in 1 .. Latest, ApplyRemoteEvent(e, v)
      PROVE  cache'[d][k].version >= cache[d][k].version
  <2>1. \/ cache'[d][k] = cache[d][k]
        \/ /\ cache'[d][k] = backend[v][k]
           /\ AcceptsWatchUpdate(cache[d][k], backend[v][k])
    BY <1>1, <1>4 DEF TypeOK, ApplyRemoteEvent
  <2>2. backend[v][k].version \in Nat
    <3>1. backend \in Seq(Range(backend)) /\ v \in DOMAIN backend
      BY <1>1 DEF TypeOK, Latest
    <3>2. IsServerDocument(backend[v][k], v)
      BY <1>1, <3>1 DEF TypeOK
    <3> QED
      BY <3>2 DEF IsServerDocument, IsDocument
  <2> QED
    BY <1>1, <2>1, <2>2 DEF AcceptsWatchUpdate
<1> QED
  BY <1>2, <1>3, <1>4
     DEF Next, Background, Call, Complete, WriteLocally, Commit, Refuse,
         RejectBatch, BreakStream, Kill, clientVars

(***************************************************************************)
(* No step, in whatever order the streams bring their messages, takes a    *)
(* cached document back to an older version.                               *)
(***************************************************************************)
THEOREM CacheMovesForward == Spec => CacheNeverRegresses
<1>1. InductiveInvariant /\ [Next]_clientVars =>
        [\A d \in Device, k \in Key :
           cache'[d][k].version >= cache[d][k].version]_clientVars
  BY NextNeverRegresses
<1> QED
  BY <1>1, Invariance, PTL DEF Spec, CacheNeverRegresses

(***************************************************************************)
(* A stored write leaves the mutation queue only when the server committed *)
(* it or an error for it has arrived.                                      *)
(***************************************************************************)
LEMMA NextKeepsStored ==
  ASSUME InductiveInvariant, [Next]_clientVars,
         NEW d \in Device, NEW n \in Queued(d) \ Queued(d)'
  PROVE  Answered(d, n)
<1>1. /\ TypeOK /\ AnswersTrue
      /\ queue[d] \in Seq(Batch)
      /\ responses[d] \in Seq(Answer)
  BY DEF InductiveInvariant, TypeOK
<1>2. PICK i \in DOMAIN queue[d] : n = queue[d][i].n
  BY DEF Queued
<1>3. queue'[d] # queue[d]
  BY DEF Queued
<1>4. ASSUME queue'[d] = Tail(queue[d]), responses[d] # <<>>
      PROVE  /\ n = Head(queue[d]).n
             /\ Head(queue[d]) = queue[d][1]
             /\ Head(responses[d]) = responses[d][1]
             /\ 1 \in DOMAIN responses[d]
  <2>1. Len(responses[d]) >= 1 /\ queue[d] # <<>>
    BY <1>1, <1>4, TailFacts, AnswersMatchQueue, EmptySequence
  <2>2. /\ Head(queue[d]) = queue[d][1] /\ Head(responses[d]) = responses[d][1]
        /\ DOMAIN Tail(queue[d]) = 1 .. Len(queue[d]) - 1
        /\ \A j \in DOMAIN Tail(queue[d]) : Tail(queue[d])[j] = queue[d][j + 1]
    BY <1>1, <1>4, <2>1, TailFacts
  <2>3. i = 1
    <3>1. SUFFICES ASSUME i # 1 PROVE FALSE
      OBVIOUS
    <3>2. i - 1 \in DOMAIN queue'[d] /\ queue'[d][i - 1] = queue[d][i]
      BY <1>1, <1>4, <2>2, <3>1, AnswersMatchQueue
    <3>3. n \in Queued(d)'
      BY <1>2, <3>2 DEF Queued
    <3> QED
      BY <3>3
  <2> QED
    BY <1>1, <1>2, <2>1, <2>2, <2>3, AnswersMatchQueue
<1>5. CASE AcknowledgeBatch(d)
  <2>1. queue'[d] = Tail(queue[d]) /\ responses[d] # <<>> /\ Head(responses[d]).ok
    BY <1>1, <1>5 DEF AcknowledgeBatch, TypeOK
  <2>2. <<d, queue[d][1].n>> \in Range(log)
    BY <1>1, <1>4, <2>1 DEF AnswersTrue
  <2> QED
    BY <1>4, <2>1, <2>2 DEF Answered
<1>6. CASE RejectBatch(d)
  BY <1>1, <1>4, <1>6 DEF RejectBatch, TypeOK, Answered
<1>7. CASE WriteLocally(d)
  <2>1. queue'[d] = Append(queue[d], Head(calls[d]))
    BY <1>1, <1>7 DEF WriteLocally, TypeOK
  <2>2. Head(calls[d]) \in Batch
    BY <1>1, <1>7, TailFacts DEF WriteLocally, TypeOK
  <2>3. i \in DOMAIN queue'[d] /\ queue'[d][i] = queue[d][i]
    BY <1>1, <2>1, <2>2
  <2> QED
    BY <1>2, <2>3 DEF Queued
<1>8. CASE Kill(d)
  <2>1. i \in DOMAIN queue'[d] /\ queue'[d][i] = [queue[d][i] EXCEPT !.live = FALSE]
    BY <1>1, <1>8 DEF Kill, TypeOK
  <2>2. queue'[d][i].n = n
    BY <1>1, <1>2, <2>1 DEF Batch
  <2> QED
    BY <2>1, <2>2 DEF Queued
<1>9. CASE UNCHANGED queue
  BY <1>3, <1>9
<1>10. ASSUME NEW e \in Device, e # d,
              \/ WriteLocally(e) \/ AcknowledgeBatch(e) \/ RejectBatch(e) \/ Kill(e)
       PROVE  queue'[d] = queue[d]
  BY <1>1, <1>10
     DEF TypeOK, WriteLocally, AcknowledgeBatch, RejectBatch, Kill
<1>11. \/ UNCHANGED queue
       \/ \E e \in Device :
            WriteLocally(e) \/ AcknowledgeBatch(e) \/ RejectBatch(e) \/ Kill(e)
  BY DEF Next, Background, Call, Complete, Commit, Refuse, BreakStream,
         ApplyRemoteEvent, clientVars
<1> QED
  BY <1>3, <1>5, <1>6, <1>7, <1>8, <1>9, <1>10, <1>11

(***************************************************************************)
(* In every behaviour a stored write stays stored until it is answered.    *)
(***************************************************************************)
THEOREM StoredWritesAreAnswered == Spec => StoredUntilAnswered
<1>1. InductiveInvariant /\ [Next]_clientVars =>
        [\A d \in Device : \A n \in Queued(d) \ Queued(d)' :
           Answered(d, n)]_clientVars
  BY NextKeepsStored
<1> QED
  BY <1>1, Invariance, PTL DEF Spec, StoredUntilAnswered

(***************************************************************************)
(* A set of natural numbers has a least element.                           *)
(***************************************************************************)
LEMMA LeastNumber ==
  ASSUME NEW T \in SUBSET Nat, T # {}
  PROVE  \E x \in T : \A y \in T : x <= y
<1> DEFINE R == OpToRel(<, Nat)
<1>1. IsWellFoundedOn(R, Nat)
  BY NatLessThanWellFounded
<1>2. \A x, y \in Nat : x < y => <<x, y>> \in R
  BY DEF OpToRel
<1> HIDE DEF R
<1>3. PICK x \in T : \A y \in T : ~(<<y, x>> \in R)
  BY <1>1, WFMin
<1>4. ASSUME NEW y \in T
      PROVE  x <= y
  <2>1. x \in Nat /\ y \in Nat
    OBVIOUS
  <2>2. ~(y < x)
    BY <1>2, <1>3, <2>1
  <2> QED
    BY <2>1, <2>2
<1> QED
  BY <1>4

(***************************************************************************)
(* Induction along a queue: a set of positions that has the first and,     *)
(* with each, the next one, has the last.                                  *)
(***************************************************************************)
LEMMA AlongQueue ==
  ASSUME NEW m \in Nat, NEW T, 0 \in T,
         \A n \in 1 .. m : n - 1 \in T => n \in T
  PROVE  \A n \in 0 .. m : n \in T
<1> DEFINE Rest == {n \in 0 .. m : n \notin T}
<1> SUFFICES ASSUME Rest # {}
             PROVE  FALSE
  OBVIOUS
<1>1. PICK x \in Rest : \A y \in Rest : x <= y
  <2>1. Rest \in SUBSET Nat
    OBVIOUS
  <2> HIDE DEF Rest
  <2> QED
    BY <2>1, LeastNumber
<1>2. x \in 1 .. m /\ x \notin T
  BY <1>1
<1>3. x - 1 \in 0 .. m /\ ~(x <= x - 1)
  BY <1>2
<1>4. x - 1 \in T
  BY <1>1, <1>3
<1> QED
  BY <1>2, <1>4

(***************************************************************************)
(* The views of a document: one after each batch of the queue.             *)
(***************************************************************************)
AreViews(views, doc, batches, key) ==
  /\ views[0] = doc
  /\ \A n \in 1 .. Len(batches) :
       views[n] = ApplyToLocalDocument(batches[n], key, views[n - 1])

(***************************************************************************)
(* GetDocument is the last of them: the recursion is well defined.         *)
(***************************************************************************)
LEMMA GetDocumentIsLastView ==
  ASSUME NEW doc, NEW batches, Len(batches) \in Nat, NEW key
  PROVE  \E views : /\ AreViews(views, doc, batches, key)
                    /\ GetDocument(doc, batches, key) = views[Len(batches)]
<1> DEFINE m == Len(batches)
           Step(n, x) == ApplyToLocalDocument(batches[n], key, x)
           Goes(views, j) ==
             views = [n \in 0 .. j |-> IF n = 0 THEN doc
                                       ELSE Step(n, views[n - 1])]
           Reached == {j \in Nat : \E views : Goes(views, j)}
<1>1. 0 \in Reached
  <2>1. Goes([n \in 0 .. 0 |-> doc], 0)
    OBVIOUS
  <2> QED
    BY <2>1
<1>2. ASSUME NEW j \in 1 .. m, j - 1 \in Reached
      PROVE  j \in Reached
  <2>1. PICK views : Goes(views, j - 1)
    BY <1>2
  <2> DEFINE more == [n \in 0 .. j |-> IF n = j THEN Step(j, views[j - 1])
                                       ELSE views[n]]
  <2> HIDE DEF Step
  <2>2. ASSUME NEW n \in 0 .. j
        PROVE  more[n] = IF n = 0 THEN doc ELSE Step(n, more[n - 1])
    BY <2>1
  <2>3. DOMAIN more = 0 .. j /\ more = [n \in 0 .. j |-> more[n]]
    OBVIOUS
  <2> HIDE DEF more
  <2>4. Goes(more, j)
    BY <2>2, <2>3
  <2> QED
    BY <2>4
<1>3. m \in Reached
  <2>1. m \in Nat /\ m \in 0 .. m
    OBVIOUS
  <2> HIDE DEF Reached, m
  <2>2. \A n \in 0 .. m : n \in Reached
    BY <1>1, <1>2, <2>1, AlongQueue
  <2> QED
    BY <2>1, <2>2
<1>4. \E views : Goes(views, m)
  BY <1>3
<1> DEFINE last == CHOOSE views : Goes(views, m)
<1>5. Goes(last, m)
  BY <1>4
<1>6. GetDocument(doc, batches, key) = last[m]
  BY DEF GetDocument
<1> HIDE DEF last
<1>7. last[0] = doc /\ \A n \in 1 .. m : last[n] = Step(n, last[n - 1])
  <2> HIDE DEF Step
  <2>1. /\ 0 \in 0 .. m
        /\ \A n \in 1 .. m : n \in 0 .. m /\ n # 0
    OBVIOUS
  <2> QED
    BY <1>5, <2>1
<1> QED
  BY <1>6, <1>7 DEF AreViews

(***************************************************************************)
(* Without pending writes the user is shown the cached document.           *)
(***************************************************************************)
LEMMA NothingPending ==
  ASSUME NEW doc, NEW key
  PROVE  GetDocument(doc, <<>>, key) = doc
BY GetDocumentIsLastView, EmptySequence DEF AreViews

(***************************************************************************)
(* A device that has nothing left to send and has seen the last snapshot   *)
(* shows the server's documents: whatever acknowledgements and snapshots   *)
(* did to its cache, the last snapshot has replaced what was marked.       *)
(***************************************************************************)
THEOREM QuietDevicesAgree == Spec => []QuietAgrees
<1>1. ASSUME InductiveInvariant, NEW d \in Device, NEW k \in Key,
             queue[d] = <<>>, seen[d] = Latest
      PROVE  View(d, k) = backend[Latest][k]
  <2>1. View(d, k) = cache[d][k]
    BY <1>1, NothingPending DEF View
  <2>2. Latest \in Nat
    BY <1>1 DEF InductiveInvariant, TypeOK, Latest
  <2>3. ~AheadOfWatch(d, k)
    BY <1>1, <2>2 DEF AheadOfWatch
  <2> QED
    BY <1>1, <2>1, <2>3 DEF InductiveInvariant, CacheFaithful
<1>2. InductiveInvariant => QuietAgrees
  BY <1>1 DEF QuietAgrees
<1> QED
  BY <1>2, Invariance, PTL

(***************************************************************************)
(* A document the client does not have, or of which it knows a version     *)
(* only, has no fields.                                                    *)
(***************************************************************************)
AbsentIsEmpty ==
  /\ \A v \in DOMAIN backend, k \in Key :
       ~Exists(backend[v][k]) => backend[v][k].data = <<>>
  /\ \A d \in Device, k \in Key :
       ~Exists(cache[d][k]) => cache[d][k].data = <<>>

(***************************************************************************)
(* So it is at the start.                                                  *)
(***************************************************************************)
LEMMA AbsentIsFirstEmpty == Init => AbsentIsEmpty
<1> SUFFICES ASSUME Init
             PROVE  AbsentIsEmpty
  OBVIOUS
<1>1. \A k \in Key : ~Exists(InitialDocuments[k]) => InitialDocuments[k].data = <<>>
  BY InitialAssumption DEF Exists
<1>2. /\ backend = <<InitialDocuments>>
      /\ \A d \in Device : cache[d] = InitialDocuments
  BY DEF Init
<1>3. \A v \in DOMAIN backend : backend[v] = InitialDocuments
  BY <1>2
<1> QED
  BY <1>1, <1>2, <1>3 DEF AbsentIsEmpty

(***************************************************************************)
(* Every step keeps it so: writes and snapshots bring whole documents.     *)
(***************************************************************************)
LEMMA AbsentStaysEmpty ==
  ASSUME TypeOK, AbsentIsEmpty, [Next]_clientVars
  PROVE  AbsentIsEmpty'
<1>1. CASE UNCHANGED <<backend, cache>>
  BY <1>1 DEF AbsentIsEmpty
<1>2. ASSUME NEW e \in Device, Commit(e)
      PROVE  AbsentIsEmpty'
  <2> DEFINE write   == NextSent(e).write
             current == backend[Latest][write.key]
             doc     == ServerApply(write, current, Latest + 1)
             new     == [backend[Latest] EXCEPT ![write.key] = doc]
  <2>1. CASE UNCHANGED backend
    BY <1>1, <1>2, <2>1 DEF Commit
  <2>2. CASE backend' = Append(backend, new) /\ doc # current
    <3>1. /\ Latest \in Nat /\ Latest \in DOMAIN backend
          /\ DOMAIN backend[Latest] = Key
      BY DEF TypeOK, Latest
    <3>2. Exists(doc)
      BY <2>2 DEF ServerApply, Exists
    <3>3. ASSUME NEW k \in Key, ~Exists(new[k])
          PROVE  new[k].data = <<>>
      <4> HIDE DEF doc
      <4> QED
        BY <3>1, <3>2, <3>3 DEF AbsentIsEmpty
    <3> HIDE DEF new
    <3>4. backend \in Seq(Range(backend))
      BY DEF TypeOK
    <3>5. ASSUME NEW v \in DOMAIN backend', NEW k \in Key, ~Exists(backend'[v][k])
          PROVE  backend'[v][k].data = <<>>
      <4>1. DOMAIN backend' = 1 .. Latest + 1 /\ DOMAIN backend = 1 .. Latest
        BY <2>2, <3>4, AppendToAny DEF Latest
      <4>2. CASE v = Latest + 1
        <5>1. backend'[v] = new
          BY <2>2, <3>4, <4>2, AppendToAny DEF Latest
        <5> QED
          BY <3>3, <3>5, <5>1
      <4>3. CASE v # Latest + 1
        <5>1. v \in DOMAIN backend /\ backend'[v] = backend[v]
          BY <2>2, <3>4, <4>1, <4>3, <3>1, AppendToAny DEF Latest
        <5> QED
          BY <3>5, <5>1 DEF AbsentIsEmpty
      <4> QED
        BY <4>2, <4>3
    <3>6. UNCHANGED cache
      BY <1>2 DEF Commit
    <3> QED
      BY <3>5, <3>6 DEF AbsentIsEmpty
  <2>3. backend' = backend \/ (backend' = Append(backend, new) /\ doc # current)
    BY <1>2 DEF Commit
  <2> QED
    BY <2>1, <2>2, <2>3
<1>3. ASSUME NEW e \in Device, AcknowledgeBatch(e)
      PROVE  AbsentIsEmpty'
  <2> DEFINE key == Head(queue[e]).write.key
             new == ApplyBatchResult(Head(queue[e]).write, cache[e][key],
                                     Head(responses[e]).version)
  <2>1. /\ cache' = [cache EXCEPT ![e] = [cache[e] EXCEPT ![key] = new]]
        /\ UNCHANGED backend
    BY <1>3 DEF AcknowledgeBatch
  <2>2. new = cache[e][key] \/ Exists(new) \/ new.data = <<>>
    BY DEF ApplyBatchResult, ApplyToRemoteDocument, Exists, Unknown
  <2> HIDE DEF key, new
  <2>3. ASSUME NEW d \in Device, NEW k \in Key, ~Exists(cache'[d][k])
        PROVE  cache'[d][k].data = <<>>
    <3>1. CASE d = e /\ k = key
      <4>1. cache'[d][k] = new
        BY <2>1, <3>1 DEF TypeOK
      <4> QED
        BY <2>2, <2>3, <3>1, <4>1 DEF AbsentIsEmpty
    <3>2. CASE ~(d = e /\ k = key)
      <4>1. cache'[d][k] = cache[d][k]
        BY <2>1, <3>2 DEF TypeOK
      <4> QED
        BY <2>3, <4>1 DEF AbsentIsEmpty
    <3> QED
      BY <3>1, <3>2
  <2> QED
    BY <2>1, <2>3 DEF AbsentIsEmpty
<1>4. ASSUME NEW e \in Device, NEW v \in 1 .. Latest, ApplyRemoteEvent(e, v)
      PROVE  AbsentIsEmpty'
  <2>1. v \in DOMAIN backend
    BY DEF TypeOK, Latest
  <2>2. \A d \in Device, k \in Key :
          cache'[d][k] = cache[d][k] \/ cache'[d][k] = backend[v][k]
    BY <1>4 DEF ApplyRemoteEvent, TypeOK
  <2>3. UNCHANGED backend
    BY <1>4 DEF ApplyRemoteEvent
  <2> QED
    BY <2>1, <2>2, <2>3 DEF AbsentIsEmpty
<1> QED
  BY <1>1, <1>2, <1>3, <1>4
     DEF Next, Background, Call, Complete, WriteLocally, Refuse,
         RejectBatch, BreakStream, Kill, clientVars

(***************************************************************************)
(* Two copies of a document that agree but for the times.                  *)
(***************************************************************************)
SameFields(data, other) ==
  /\ DOMAIN data = DOMAIN other
  /\ \A f \in DOMAIN data \ Timed : data[f] = other[f]

SameButTimes(doc, other) ==
  /\ Exists(doc) <=> Exists(other)
  /\ SameFields(doc.data, other.data)

(***************************************************************************)
(* A write makes of such copies such copies again, whatever time it puts.  *)
(***************************************************************************)
LEMMA NewDataButTimes ==
  ASSUME NEW write \in Write, NEW data, NEW other, SameFields(data, other),
         NEW now, NEW then
  PROVE  SameFields(NewData(write, data, now), NewData(write, other, then))
<1> DEFINE p == PatchDocument(write, data)
           q == PatchDocument(write, other)
           Ts == DOMAIN write.transforms
           a == [f \in Ts |-> Transformed(write.transforms[f], PreviousArray(p, f), now)]
           b == [f \in Ts |-> Transformed(write.transforms[f], PreviousArray(q, f), then)]
<1>1. SameFields(p, q)
  BY DEF SameFields, PatchDocument, Overlay
<1> HIDE DEF p, q
<1>2. ASSUME NEW f \in Ts, f \notin Timed
      PROVE  a[f] = b[f]
  <2>1. write.transforms[f].op # "stamp"
    BY <1>2 DEF Timed
  <2>2. write.transforms[f].op \in {"union", "remove"}
    BY <2>1, WriteAssumption DEF TransformOps
  <2>3. PreviousArray(p, f) = PreviousArray(q, f)
    BY <1>1, <1>2 DEF SameFields, PreviousArray
  <2> QED
    BY <2>2, <2>3 DEF Transformed
<1>3. DOMAIN a = Ts /\ DOMAIN b = Ts
  OBVIOUS
<1>4. /\ NewData(write, data, now) = Overlay(a, p)
      /\ NewData(write, other, then) = Overlay(b, q)
  BY DEF NewData, TransformObject, p, q
<1> HIDE DEF a, b
<1>5. SameFields(Overlay(a, p), Overlay(b, q))
  BY <1>1, <1>2, <1>3 DEF SameFields, Overlay
<1> QED
  BY <1>4, <1>5

(***************************************************************************)
(* So do the batches of the queue.                                         *)
(***************************************************************************)
LEMMA ViewButTimes ==
  ASSUME NEW batch \in Batch, NEW key, NEW doc, NEW other,
         SameButTimes(doc, other)
  PROVE  SameButTimes(ApplyToLocalDocument(batch, key, doc),
                      ApplyToLocalDocument(batch, key, other))
<1>1. batch.write \in Write
  BY DEF Batch
<1>2. SameFields(NewData(batch.write, doc.data, EstimatedTime(batch.n)),
                 NewData(batch.write, other.data, EstimatedTime(batch.n)))
  BY <1>1, NewDataButTimes DEF SameButTimes
<1> QED
  BY <1>2 DEF SameButTimes, ApplyToLocalDocument, ApplyToLocalView,
              IsValidFor, Exists

(***************************************************************************)
(* An acknowledgement replaces the first pending write by its result.      *)
(***************************************************************************)
LEMMA AcknowledgeShowsSame ==
  ASSUME TypeOK, AbsentIsEmpty, NEW d \in Device, NEW k \in Key,
         AcknowledgeBatch(d), cache'[d][k] # cache[d][k]
  PROVE  SameButTimes(View(d, k), View(d, k)')
<1> DEFINE q     == queue[d]
           write == Head(q).write
           v     == Head(responses[d]).version
           doc   == cache[d][k]
           new   == ApplyToRemoteDocument(write, doc, v)
<1>1. /\ q \in Seq(Batch) /\ q # <<>>
      /\ queue'[d] = Tail(q)
  <2>1. responses[d] # <<>> /\ queue'[d] = Tail(q)
    BY DEF AcknowledgeBatch, TypeOK
  <2> QED
    BY <2>1, AnswersMatchQueue, EmptySequence DEF TypeOK
<1>2. /\ Head(q) \in Batch /\ Head(q) = q[1]
      /\ Tail(q) \in Seq(Batch)
      /\ Len(q) \in Nat /\ Len(q) >= 1
      /\ Len(Tail(q)) = Len(q) - 1
      /\ DOMAIN Tail(q) = 1 .. Len(q) - 1
      /\ \A i \in DOMAIN Tail(q) : Tail(q)[i] = q[i + 1]
  BY <1>1, TailFacts
<1>3. write.key = k /\ cache'[d][k] = new
  <2>1. cache' = [cache EXCEPT ![d] =
                    [cache[d] EXCEPT ![write.key] =
                       ApplyBatchResult(write, cache[d][write.key], v)]]
    BY DEF AcknowledgeBatch
  <2>2. write.key = k
    BY <2>1 DEF TypeOK
  <2>3. cache'[d][k] = ApplyBatchResult(write, doc, v)
    BY <2>1, <2>2 DEF TypeOK
  <2> QED
    BY <2>2, <2>3 DEF ApplyBatchResult
<1>4. PICK views : /\ AreViews(views, doc, q, k)
                   /\ GetDocument(doc, q, k) = views[Len(q)]
  BY <1>2, GetDocumentIsLastView
<1>5. PICK after : /\ AreViews(after, new, Tail(q), k)
                   /\ GetDocument(new, Tail(q), k) = after[Len(q) - 1]
  <2> DEFINE rest == Tail(q)
  <2>1. Len(rest) \in Nat /\ Len(rest) = Len(q) - 1
    BY <1>2
  <2> HIDE DEF rest, new
  <2>2. \E after : /\ AreViews(after, new, rest, k)
                   /\ GetDocument(new, rest, k) = after[Len(rest)]
    BY <2>1, GetDocumentIsLastView
  <2>3. \E after : /\ AreViews(after, new, rest, k)
                   /\ GetDocument(new, rest, k) = after[Len(q) - 1]
    BY <2>1, <2>2
  <2> QED
    BY <2>3 DEF rest
<1> DEFINE m    == Len(q) - 1
           Same == {n \in 0 .. m : SameButTimes(views[n + 1], after[n])}
<1>6. 0 \in Same
  <2>1. views[1] = ApplyToLocalView(write, doc, Head(q).n)
    <3>1. views[1] = ApplyToLocalDocument(q[1], k, views[1 - 1]) /\ views[0] = doc
      BY <1>2, <1>4 DEF AreViews
    <3>2. 1 - 1 = 0
      OBVIOUS
    <3> QED
      BY <1>2, <1>3, <3>1, <3>2 DEF ApplyToLocalDocument
  <2>2. after[0] = new
    BY <1>5 DEF AreViews
  <2>3. write \in Write
    BY <1>2 DEF Batch
  <2>4. SameFields(doc.data, doc.data)
    BY DEF SameFields
  <2>5. SameFields(NewData(write, doc.data, EstimatedTime(Head(q).n)),
                   NewData(write, doc.data, CommitTime(v)))
    BY <2>3, <2>4, NewDataButTimes
  <2>6. ~Exists(doc) => doc.data = <<>>
    BY DEF AbsentIsEmpty
  <2> HIDE DEF write, doc, v
  <2>7. SameButTimes(ApplyToLocalView(write, doc, Head(q).n), new)
    <3>1. CASE IsValidFor(write, doc)
      BY <2>5, <3>1
         DEF SameButTimes, ApplyToLocalView, ApplyToRemoteDocument, Exists
    <3>2. CASE ~IsValidFor(write, doc)
      BY <2>4, <2>6, <3>2
         DEF SameButTimes, ApplyToLocalView, ApplyToRemoteDocument, Exists,
             IsValidFor, Unknown
    <3> QED
      BY <3>1, <3>2
  <2>8. SameButTimes(views[0 + 1], after[0])
    BY <2>1, <2>2, <2>7
  <2> QED
    BY <1>2, <2>8
<1>7. ASSUME NEW n \in 1 .. m, n - 1 \in Same
      PROVE  n \in Same
  <2>1. /\ n \in DOMAIN Tail(q) /\ n + 1 \in 1 .. Len(q)
        /\ q[n + 1] \in Batch /\ n - 1 + 1 = n /\ n + 1 - 1 = n
    BY <1>1, <1>2
  <2>2. views[n + 1] = ApplyToLocalDocument(q[n + 1], k, views[n])
    BY <1>4, <2>1 DEF AreViews
  <2>3. after[n] = ApplyToLocalDocument(q[n + 1], k, after[n - 1])
    BY <1>2, <1>5, <2>1 DEF AreViews
  <2>4. SameButTimes(views[n], after[n - 1])
    BY <1>7, <2>1
  <2>5. SameButTimes(views[n + 1], after[n])
    BY <2>1, <2>2, <2>3, <2>4, ViewButTimes
  <2> QED
    BY <2>5
<1>8. m \in Same
  <2>1. m \in Nat /\ m \in 0 .. m
    BY <1>2
  <2> HIDE DEF Same, m
  <2>2. \A n \in 0 .. m : n \in Same
    BY <1>6, <1>7, <2>1, AlongQueue
  <2> QED
    BY <2>1, <2>2
<1>9. SameButTimes(views[Len(q)], after[m])
  BY <1>2, <1>8
<1>10. View(d, k) = views[Len(q)] /\ View(d, k)' = after[m]
  BY <1>1, <1>3, <1>4, <1>5 DEF View
<1> QED
  BY <1>9, <1>10

(***************************************************************************)
(* What the user sees of a document does not flicker when an               *)
(* acknowledgement changes the cached copy under his other pending writes. *)
(***************************************************************************)
THEOREM NothingFlickers == Spec => NoFlickerOnAcknowledge
<1>1. Init => AbsentIsEmpty
  BY AbsentIsFirstEmpty
<1>2. TypeOK /\ AbsentIsEmpty /\ [Next]_clientVars => AbsentIsEmpty'
  BY AbsentStaysEmpty
<1>3. ASSUME TypeOK, AbsentIsEmpty, NEW d \in Device, NEW k \in Key,
             AcknowledgeBatch(d), cache'[d][k] # cache[d][k]
      PROVE  Untimed(View(d, k).data) = Untimed(View(d, k)'.data)
  <2>1. SameFields(View(d, k).data, View(d, k)'.data)
    BY <1>3, AcknowledgeShowsSame DEF SameButTimes
  <2>2. \A a, b : SameFields(a, b) => Untimed(a) = Untimed(b)
    BY DEF SameFields, Untimed, Restrict
  <2> QED
    BY <2>1, <2>2
<1>4. TypeOK /\ AbsentIsEmpty /\ [Next]_clientVars =>
        [\A d \in Device, k \in Key :
           AcknowledgeBatch(d) /\ cache'[d][k] # cache[d][k] =>
             Untimed(View(d, k).data) = Untimed(View(d, k)'.data)]_clientVars
  BY <1>3
<1> QED
  BY <1>1, <1>2, <1>4, TypeCorrect, PTL DEF Spec, NoFlickerOnAcknowledge

-----------------------------------------------------------------------------
(***************************************************************************)
(* The Firestore client implements WriteLog: each of its steps is a step   *)
(* of WriteLog or leaves it alone.  With WriteLogProofs it follows that    *)
(* the writes of a device are committed in order.                          *)
(***************************************************************************)

(***************************************************************************)
(* The numbers of stored batches are numbers.                              *)
(***************************************************************************)
LEMMA BatchNumbers ==
  ASSUME TypeOK, NEW d \in Device
  PROVE  /\ queue[d] \in Seq(Batch)
         /\ \A i \in DOMAIN queue[d] : queue[d][i] \in Batch /\ queue[d][i].n \in Nat
<1>1. queue[d] \in Seq(Batch)
  BY DEF TypeOK
<1>2. \A i \in DOMAIN queue[d] : queue[d][i] \in Batch
  BY <1>1
<1> QED
  BY <1>1, <1>2 DEF Batch

(***************************************************************************)
(* Two sequences, one after the other.                                     *)
(***************************************************************************)
LEMMA Concatenated ==
  ASSUME NEW S, NEW s \in Seq(S), NEW t \in Seq(S)
  PROVE  /\ Len(s \o t) = Len(s) + Len(t)
         /\ DOMAIN (s \o t) = 1 .. Len(s) + Len(t)
         /\ \A i \in 1 .. Len(s) + Len(t) :
              (s \o t)[i] = IF i <= Len(s) THEN s[i] ELSE t[i - Len(s)]
OBVIOUS

(***************************************************************************)
(* Numbers of a device nothing happens to.                                 *)
(***************************************************************************)
LEMMA NumberedElsewhere ==
  ASSUME NEW e \in Device, NumberedOn(e),
         made'[e] = made[e], calls'[e] = calls[e], queue'[e] = queue[e],
         \A i \in DOMAIN log' :
           log'[i][1] = e => \E j \in DOMAIN log : log[j] = log'[i]
  PROVE  NumberedOn(e)'
BY DEF NumberedOn

(***************************************************************************)
(* Batches that leave the front of the queue, or lose their handlers,      *)
(* leave the numbers of the others in order.                               *)
(***************************************************************************)
LEMMA NumberedShorter ==
  ASSUME TypeOK, NEW d \in Device, NumberedOn(d), NEW s \in Nat,
         made'[d] = made[d], log' = log,
         calls'[d] = calls[d] \/ calls'[d] = <<>>,
         \A i \in DOMAIN queue'[d] :
           /\ i \in Nat \ {0}
           /\ i + s \in DOMAIN queue[d]
           /\ queue'[d][i].n = queue[d][i + s].n,
         \A i \in DOMAIN queue'[d] : \A j \in 1 .. i - 1 : j \in DOMAIN queue'[d]
  PROVE  NumberedOn(d)'
<1>1. /\ calls[d] \in Seq(Batch) /\ made[d] \in Nat /\ Len(calls[d]) \in Nat
      /\ queue[d] \in Seq(Batch)
  BY DEF TypeOK
<1>2. Len(calls'[d]) \in Nat /\ Len(calls'[d]) <= Len(calls[d])
  BY <1>1, EmptySequence
<1>3. \A i \in DOMAIN log : log[i][2] \in Nat
  BY DEF TypeOK
<1>4. \A i \in DOMAIN queue[d] : queue[d][i].n \in Nat
  BY BatchNumbers
<1>5. ASSUME NEW i \in DOMAIN queue'[d]
      PROVE  /\ queue'[d][i].n >= 1
             /\ queue'[d][i].n + Len(calls'[d]) <= made'[d]
  <2>1. i + s \in DOMAIN queue[d] /\ queue'[d][i].n = queue[d][i + s].n
    BY <1>5
  <2>2. /\ queue[d][i + s].n >= 1
        /\ queue[d][i + s].n + Len(calls[d]) <= made[d]
    BY <2>1 DEF NumberedOn
  <2>3. queue[d][i + s].n \in Nat
    BY <1>4, <2>1
  <2> QED
    BY <1>1, <1>2, <2>1, <2>2, <2>3
<1>6. ASSUME NEW i \in DOMAIN queue'[d], NEW j \in 1 .. i - 1
      PROVE  queue'[d][j].n < queue'[d][i].n
  <2>1. j \in DOMAIN queue'[d] /\ i \in Nat /\ j \in Nat /\ i \in Int /\ j >= 1
    BY <1>6
  <2>2. j + s \in 1 .. (i + s) - 1
    BY <1>6, <2>1
  <2> QED
    BY <2>1, <2>2 DEF NumberedOn
<1>7. \A i \in DOMAIN calls'[d] :
        calls'[d][i].n = made'[d] - Len(calls'[d]) + i
  BY <1>1, EmptySequence DEF NumberedOn
<1>8. \A i \in DOMAIN log' :
        log'[i][1] = d => log'[i][2] + Len(calls'[d]) <= made'[d]
  BY <1>1, <1>2, <1>3 DEF NumberedOn
<1> QED
  BY <1>1, <1>2, <1>5, <1>6, <1>7, <1>8 DEF NumberedOn

(***************************************************************************)
(* A call goes on counting where the last one ended.                       *)
(***************************************************************************)
LEMMA EnqueueNumbered ==
  ASSUME TypeOK, Numbered, NEW d \in Device, NEW ws \in Seq(Write),
         Enqueue(d, ws), UNCHANGED <<queue, log>>
  PROVE  Numbered'
<1>1. /\ calls[d] \in Seq(Batch) /\ made[d] \in Nat /\ Len(calls[d]) \in Nat
      /\ queue[d] \in Seq(Batch) /\ Len(ws) \in Nat
  BY DEF TypeOK
<1>2. /\ Batches(ws, made[d]) \in Seq(Batch)
      /\ Len(Batches(ws, made[d])) = Len(ws)
      /\ \A i \in 1 .. Len(ws) : Batches(ws, made[d])[i].n = made[d] + i
  <2>1. Batches(ws, made[d]) \in Seq(Batch)
    BY <1>1, BatchesType
  <2>2. DOMAIN Batches(ws, made[d]) = 1 .. Len(ws)
    BY DEF Batches
  <2>3. Len(Batches(ws, made[d])) = Len(ws)
    BY <1>1, <2>1, <2>2
  <2> QED
    BY <2>1, <2>3 DEF Batches
<1>3. /\ made'[d] = made[d] + Len(ws)
      /\ calls'[d] = calls[d] \o Batches(ws, made[d])
      /\ made[d] + Len(ws) <= MaxCalls[d]
  BY DEF Enqueue, TypeOK
<1> DEFINE new == Batches(ws, made[d])
<1>n. /\ new \in Seq(Batch) /\ Len(new) = Len(ws)
      /\ \A i \in 1 .. Len(ws) : new[i].n = made[d] + i
      /\ calls'[d] = calls[d] \o new
  BY <1>2, <1>3
<1> HIDE DEF new
<1>4. /\ Len(calls'[d]) = Len(calls[d]) + Len(ws)
      /\ DOMAIN calls'[d] = 1 .. Len(calls[d]) + Len(ws)
      /\ \A i \in 1 .. Len(calls[d]) + Len(ws) :
           calls'[d][i] = IF i <= Len(calls[d]) THEN calls[d][i]
                          ELSE new[i - Len(calls[d])]
  <2>1. /\ Len(calls[d] \o new) = Len(calls[d]) + Len(new)
        /\ DOMAIN (calls[d] \o new) = 1 .. Len(calls[d]) + Len(new)
        /\ \A i \in 1 .. Len(calls[d]) + Len(new) :
             (calls[d] \o new)[i] = IF i <= Len(calls[d]) THEN calls[d][i]
                                    ELSE new[i - Len(calls[d])]
    BY <1>1, <1>n, Concatenated, Zenon
  <2> QED
    BY <1>n, <2>1, Zenon
<1>5. \A i \in DOMAIN queue[d] : queue[d][i].n \in Nat
  BY BatchNumbers
<1>6. \A i \in DOMAIN log : log[i][2] \in Nat
  BY DEF TypeOK
<1>7. NumberedOn(d)'
  <2>1. NumberedOn(d)
    BY DEF Numbered
  <2>2. \A i \in DOMAIN calls'[d] :
          calls'[d][i].n = made'[d] - Len(calls'[d]) + i
    <3> SUFFICES ASSUME NEW i \in DOMAIN calls'[d]
                 PROVE  calls'[d][i].n = made'[d] - Len(calls'[d]) + i
      OBVIOUS
    <3>1. i \in Nat /\ i >= 1 /\ i <= Len(calls[d]) + Len(ws)
      BY <1>1, <1>4
    <3>2. CASE i <= Len(calls[d])
      <4>1. i \in DOMAIN calls[d] /\ calls'[d][i] = calls[d][i]
        BY <1>1, <1>4, <3>1, <3>2
      <4>2. calls[d][i].n = made[d] - Len(calls[d]) + i
        BY <2>1, <4>1 DEF NumberedOn
      <4> QED
        BY <1>1, <1>3, <1>4, <3>1, <4>1, <4>2
    <3>3. CASE ~(i <= Len(calls[d]))
      <4>1. i - Len(calls[d]) \in 1 .. Len(ws)
        BY <1>1, <3>1, <3>3
      <4>2. new[i - Len(calls[d])].n = made[d] + (i - Len(calls[d]))
        BY <1>n, <4>1
      <4>3. calls'[d][i] = new[i - Len(calls[d])]
        BY <1>4, <3>3
      <4>4. made'[d] - Len(calls'[d]) + i = made[d] + (i - Len(calls[d]))
        BY <1>1, <1>3, <1>4, <3>1
      <4> QED
        BY <4>2, <4>3, <4>4
    <3> QED
      BY <3>2, <3>3
  <2>3. /\ made'[d] <= MaxCalls[d]
        /\ Len(calls'[d]) <= made'[d]
    BY <1>1, <1>3, <1>4, <2>1 DEF NumberedOn
  <2>4. \A i \in DOMAIN queue'[d] :
          /\ queue'[d][i].n >= 1
          /\ queue'[d][i].n + Len(calls'[d]) <= made'[d]
          /\ \A j \in 1 .. i - 1 : queue'[d][j].n < queue'[d][i].n
    BY <1>1, <1>3, <1>4, <1>5, <2>1 DEF NumberedOn
  <2>5. \A i \in DOMAIN log' :
          log'[i][1] = d => log'[i][2] + Len(calls'[d]) <= made'[d]
    BY <1>1, <1>3, <1>4, <1>6, <2>1 DEF NumberedOn
  <2> QED
    BY <2>2, <2>3, <2>4, <2>5 DEF NumberedOn
<1>8. ASSUME NEW e \in Device, e # d
      PROVE  NumberedOn(e)'
  BY <1>8, NumberedElsewhere DEF Numbered, Enqueue, TypeOK
<1> QED
  BY <1>7, <1>8 DEF Numbered

(***************************************************************************)
(* The number of a batch moves from the worker queue to the mutation queue.*)
(***************************************************************************)
LEMMA WriteLocallyNumbered ==
  ASSUME TypeOK, Numbered, NEW d \in Device, WriteLocally(d)
  PROVE  Numbered'
<1> DEFINE batch == Head(calls[d])
<1>1. /\ calls[d] \in Seq(Batch) /\ calls[d] # <<>> /\ made[d] \in Nat
      /\ queue[d] \in Seq(Batch) /\ Len(queue[d]) \in Nat
      /\ NumberedOn(d)
  BY DEF TypeOK, WriteLocally, Numbered
<1>2. /\ batch = calls[d][1] /\ batch \in Batch
      /\ Len(calls[d]) \in Nat /\ Len(calls[d]) >= 1
      /\ Len(Tail(calls[d])) = Len(calls[d]) - 1
      /\ DOMAIN Tail(calls[d]) = 1 .. Len(calls[d]) - 1
      /\ \A i \in DOMAIN Tail(calls[d]) :
           i + 1 \in DOMAIN calls[d] /\ Tail(calls[d])[i] = calls[d][i + 1]
  BY <1>1, TailFacts
<1>3. batch.n = made[d] - Len(calls[d]) + 1 /\ batch.n \in Nat
  BY <1>1, <1>2 DEF NumberedOn, Batch
<1>4. /\ calls'[d] = Tail(calls[d])
      /\ queue'[d] = Append(queue[d], batch)
      /\ made' = made /\ log' = log
  BY <1>1 DEF WriteLocally, TypeOK
<1> HIDE DEF batch
<1>5. /\ DOMAIN queue'[d] = 1 .. Len(queue[d]) + 1
      /\ \A i \in 1 .. Len(queue[d]) : queue'[d][i] = queue[d][i]
      /\ queue'[d][Len(queue[d]) + 1] = batch
  BY <1>1, <1>2, <1>4
<1>6. \A i \in DOMAIN queue[d] : queue[d][i].n \in Nat
  BY BatchNumbers
<1>7. \A i \in DOMAIN log : log[i][2] \in Nat
  BY DEF TypeOK
<1>8. NumberedOn(d)'
  <2>1. made'[d] <= MaxCalls[d] /\ Len(calls'[d]) <= made'[d]
    BY <1>1, <1>2, <1>4 DEF NumberedOn
  <2>2. \A i \in DOMAIN calls'[d] :
          calls'[d][i].n = made'[d] - Len(calls'[d]) + i
    <3> SUFFICES ASSUME NEW i \in DOMAIN Tail(calls[d])
                 PROVE  Tail(calls[d])[i].n = made[d] - (Len(calls[d]) - 1) + i
      BY <1>2, <1>4
    <3>1. /\ i + 1 \in DOMAIN calls[d] /\ i \in Nat
          /\ Tail(calls[d])[i] = calls[d][i + 1]
      BY <1>2
    <3>2. calls[d][i + 1].n = made[d] - Len(calls[d]) + (i + 1)
      BY <1>1, <3>1 DEF NumberedOn
    <3>3. made[d] \in Nat /\ Len(calls[d]) \in Nat
      BY <1>1
    <3>4. made[d] - Len(calls[d]) + (i + 1) = made[d] - (Len(calls[d]) - 1) + i
      BY <3>1, <3>3
    <3> QED
      BY <3>1, <3>2, <3>4
  <2>3. ASSUME NEW i \in DOMAIN queue'[d]
        PROVE  /\ queue'[d][i].n >= 1
               /\ queue'[d][i].n + Len(calls'[d]) <= made'[d]
               /\ \A j \in 1 .. i - 1 : queue'[d][j].n < queue'[d][i].n
    <3>1. CASE i \in 1 .. Len(queue[d])
      <4>1. i \in DOMAIN queue[d] /\ \A j \in 1 .. i - 1 : j \in DOMAIN queue[d]
        BY <1>1, <3>1
      <4>2. \A j \in 1 .. i - 1 : queue'[d][j] = queue[d][j]
        BY <1>1, <1>5, <4>1
      <4>3. /\ queue[d][i].n >= 1
            /\ queue[d][i].n + Len(calls[d]) <= made[d]
            /\ \A j \in 1 .. i - 1 : queue[d][j].n < queue[d][i].n
        BY <1>1, <4>1 DEF NumberedOn
      <4>4. queue[d][i].n + Len(calls'[d]) <= made'[d]
        BY <1>1, <1>2, <1>4, <1>6, <4>1, <4>3
      <4> QED
        BY <1>5, <3>1, <4>2, <4>3, <4>4
    <3>2. CASE i = Len(queue[d]) + 1
      <4>1. queue'[d][i] = batch
        BY <1>5, <3>2
      <4>2. batch.n >= 1 /\ batch.n + Len(calls'[d]) <= made'[d]
        BY <1>1, <1>2, <1>3, <1>4 DEF NumberedOn
      <4>3. ASSUME NEW j \in 1 .. i - 1
            PROVE  queue'[d][j].n < batch.n
        <5>1. j \in DOMAIN queue[d] /\ queue'[d][j] = queue[d][j]
          BY <1>1, <1>5, <3>2
        <5>2. queue[d][j].n + Len(calls[d]) <= made[d]
          BY <1>1, <5>1 DEF NumberedOn
        <5> QED
          BY <1>1, <1>2, <1>3, <1>6, <5>1, <5>2
      <4> QED
        BY <4>1, <4>2, <4>3
    <3> QED
      BY <1>1, <1>5, <2>3, <3>1, <3>2
  <2>4. \A i \in DOMAIN log' :
          log'[i][1] = d => log'[i][2] + Len(calls'[d]) <= made'[d]
    BY <1>1, <1>2, <1>4, <1>7 DEF NumberedOn
  <2> QED
    BY <2>1, <2>2, <2>3, <2>4 DEF NumberedOn
<1>9. ASSUME NEW e \in Device, e # d
      PROVE  NumberedOn(e)'
  BY <1>9, NumberedElsewhere DEF Numbered, WriteLocally, TypeOK
<1> QED
  BY <1>8, <1>9 DEF Numbered

(***************************************************************************)
(* Only stored batches are committed.                                      *)
(***************************************************************************)
LEMMA NextSentStored ==
  ASSUME TypeOK, NEW d \in Device, CanSend(d)
  PROVE  /\ Len(responses[d]) \in Nat
         /\ Len(responses[d]) + 1 \in DOMAIN queue[d]
         /\ NextSent(d) = queue[d][Len(responses[d]) + 1]
         /\ NextSent(d).n \in Nat
<1>1. queue[d] \in Seq(Batch) /\ responses[d] \in Seq(Answer)
  BY DEF TypeOK
<1>2. Len(responses[d]) \in Nat /\ Len(responses[d]) + 1 \in DOMAIN queue[d]
  BY <1>1 DEF CanSend
<1> QED
  BY <1>2, BatchNumbers DEF NextSent

LEMMA CommitNumbered ==
  ASSUME TypeOK, Numbered, NEW d \in Device, Commit(d)
  PROVE  Numbered'
<1>1. /\ Len(responses[d]) + 1 \in DOMAIN queue[d]
      /\ NextSent(d) = queue[d][Len(responses[d]) + 1]
      /\ NextSent(d).n \in Nat
  BY NextSentStored DEF Commit
<1> DEFINE n == NextSent(d).n
<1>2. log' = Append(log, <<d, n>>) /\ UNCHANGED <<made, calls, queue>>
  BY DEF Commit
<1>3. n \in Nat /\ (NumberedOn(d) => n + Len(calls[d]) <= made[d])
  BY <1>1 DEF NumberedOn
<1> HIDE DEF n
<1>4. /\ log \in Seq(Device \X Nat) /\ Len(log) \in Nat
      /\ DOMAIN log = 1 .. Len(log)
      /\ DOMAIN log' = 1 .. Len(log) + 1
      /\ \A i \in 1 .. Len(log) : log'[i] = log[i]
      /\ log'[Len(log) + 1] = <<d, n>>
  BY <1>2, <1>3 DEF TypeOK
<1>5. ASSUME NEW e \in Device, e # d
      PROVE  NumberedOn(e)'
  BY <1>2, <1>4, <1>5, NumberedElsewhere DEF Numbered
<1>6. NumberedOn(d)'
  <2>1. NumberedOn(d)
    BY DEF Numbered
  <2>2. \A i \in DOMAIN log' :
          log'[i][1] = d => log'[i][2] + Len(calls[d]) <= made[d]
    <3> SUFFICES ASSUME NEW i \in DOMAIN log', log'[i][1] = d
                 PROVE  log'[i][2] + Len(calls[d]) <= made[d]
      OBVIOUS
    <3>1. CASE i \in DOMAIN log
      BY <1>4, <2>1, <3>1 DEF NumberedOn
    <3>2. CASE i = Len(log) + 1
      <4>1. log'[i][2] = n
        BY <1>4, <3>2
      <4> QED
        BY <1>3, <2>1, <4>1
    <3> QED
      BY <1>4, <3>1, <3>2
  <2> QED
    BY <1>2, <2>1, <2>2 DEF NumberedOn
<1> QED
  BY <1>5, <1>6 DEF Numbered

(***************************************************************************)
(* An answered batch leaves the front of the queue.                        *)
(***************************************************************************)
LEMMA AnsweredNumbered ==
  ASSUME TypeOK, Numbered, NEW d \in Device, queue[d] # <<>>,
         queue' = [queue EXCEPT ![d] = Tail(@)], UNCHANGED <<log, made, calls>>
  PROVE  Numbered'
<1>1. queue[d] \in Seq(Batch) /\ queue'[d] = Tail(queue[d])
  BY DEF TypeOK
<1>2. /\ DOMAIN queue'[d] = 1 .. Len(queue[d]) - 1 /\ Len(queue[d]) \in Nat
      /\ \A i \in DOMAIN queue'[d] :
           i + 1 \in DOMAIN queue[d] /\ queue'[d][i] = queue[d][i + 1]
  BY <1>1, TailFacts
<1>3. NumberedOn(d)'
  <2>1. \A i \in DOMAIN queue'[d] :
          /\ i \in Nat \ {0}
          /\ i + 1 \in DOMAIN queue[d]
          /\ queue'[d][i].n = queue[d][i + 1].n
    BY <1>2
  <2>2. \A i \in DOMAIN queue'[d] : \A j \in 1 .. i - 1 : j \in DOMAIN queue'[d]
    BY <1>2
  <2>3. NumberedOn(d) /\ 1 \in Nat
    BY DEF Numbered
  <2> QED
    BY <2>1, <2>2, <2>3, NumberedShorter
<1>4. ASSUME NEW e \in Device, e # d
      PROVE  NumberedOn(e)'
  BY <1>4, NumberedElsewhere DEF Numbered, TypeOK
<1> QED
  BY <1>3, <1>4 DEF Numbered

(***************************************************************************)
(* A restart leaves the numbers of the stored batches.                     *)
(***************************************************************************)
LEMMA KillNumbered ==
  ASSUME TypeOK, Numbered, NEW d \in Device, Kill(d)
  PROVE  Numbered'
<1>1. /\ queue[d] \in Seq(Batch) /\ Len(queue[d]) \in Nat
      /\ DOMAIN queue[d] = 1 .. Len(queue[d])
      /\ queue'[d] = [i \in DOMAIN queue[d] |-> [queue[d][i] EXCEPT !.live = FALSE]]
      /\ calls'[d] = <<>> /\ made' = made /\ log' = log
  BY DEF TypeOK, Kill
<1>2. \A i \in DOMAIN queue'[d] :
        /\ i \in Nat \ {0} /\ i + 0 \in DOMAIN queue[d]
        /\ queue'[d][i].n = queue[d][i + 0].n
  <2> SUFFICES ASSUME NEW i \in DOMAIN queue'[d]
               PROVE  /\ i \in Nat \ {0} /\ i + 0 \in DOMAIN queue[d]
                      /\ queue'[d][i].n = queue[d][i + 0].n
    OBVIOUS
  <2>1. i \in DOMAIN queue[d] /\ i \in Nat \ {0} /\ i + 0 = i
    BY <1>1
  <2>2. queue[d][i] \in Batch
    BY <2>1, BatchNumbers
  <2> QED
    BY <1>1, <2>1, <2>2 DEF Batch
<1>3. NumberedOn(d)'
  <2>1. \A i \in DOMAIN queue'[d] : \A j \in 1 .. i - 1 : j \in DOMAIN queue'[d]
    BY <1>1
  <2>2. NumberedOn(d) /\ 0 \in Nat
    BY DEF Numbered
  <2> QED
    BY <1>1, <1>2, <2>1, <2>2, NumberedShorter
<1>4. ASSUME NEW e \in Device, e # d
      PROVE  NumberedOn(e)'
  BY <1>1, <1>4, NumberedElsewhere DEF Numbered, TypeOK, Kill
<1> QED
  BY <1>3, <1>4 DEF Numbered

(***************************************************************************)
(* Calls, answers and handlers of the other actions.                       *)
(***************************************************************************)
LEMMA NextNumbered ==
  ASSUME TypeOK, Numbered, [Next]_clientVars
  PROVE  Numbered'
<1>1. CASE UNCHANGED <<made, calls, queue, log>>
  BY <1>1 DEF Numbered, NumberedOn
<1>2. ASSUME NEW d \in Device, NEW ws \in Program \cup {<<>>},
             Call(d, ws) \/ Complete(d, ws)
      PROVE  Numbered'
  <2>1. ws \in Seq(Write)
    BY ProgramAssumption, EmptySequence
  <2> QED
    BY <1>2, <2>1, EnqueueNumbered DEF Call, Complete
<1>3. ASSUME NEW d \in Device, AcknowledgeBatch(d) \/ RejectBatch(d)
      PROVE  Numbered'
  <2>1. responses[d] # <<>> /\ responses[d] \in Seq(Answer)
    BY <1>3 DEF AcknowledgeBatch, RejectBatch, TypeOK
  <2>2. queue[d] # <<>>
    <3>1. Len(responses[d]) >= 1
      BY <2>1, TailFacts
    <3> QED
      BY <3>1, AnswersMatchQueue, EmptySequence
  <2> QED
    BY <1>3, <2>2, AnsweredNumbered DEF AcknowledgeBatch, RejectBatch
<1> QED
  BY <1>1, <1>2, <1>3, WriteLocallyNumbered, CommitNumbered, KillNumbered
     DEF Next, Background, Refuse, BreakStream, ApplyRemoteEvent, clientVars

(***************************************************************************)
(* A stream carries nothing after an error.                                *)
(***************************************************************************)
LEMMA NextErrorIsLast ==
  ASSUME TypeOK, ErrorIsLast, [Next]_clientVars
  PROVE  ErrorIsLast'
<1>1. ASSUME NEW d \in Device, NEW e \in Device, e # d,
             \/ Commit(d) \/ Refuse(d) \/ AcknowledgeBatch(d) \/ RejectBatch(d)
             \/ BreakStream(d) \/ Kill(d)
      PROVE  responses'[e] = responses[e]
  BY <1>1 DEF TypeOK, Commit, Refuse, AcknowledgeBatch, RejectBatch,
              BreakStream, Kill
<1>2. ASSUME NEW d \in Device, Commit(d) \/ Refuse(d)
      PROVE  \A i \in DOMAIN responses'[d] :
               ~responses'[d][i].ok => i = Len(responses'[d])
  <2>1. PICK answer : responses'[d] = Append(responses[d], answer)
    BY <1>2 DEF Commit, Refuse, TypeOK
  <2>2. /\ responses[d] \in Seq(Answer) /\ Len(responses[d]) \in Nat
        /\ DOMAIN responses[d] = 1 .. Len(responses[d])
        /\ \A i \in DOMAIN responses[d] : responses[d][i].ok
    BY <1>2 DEF TypeOK, Commit, Refuse, CanSend, StreamOpen
  <2>3. /\ DOMAIN responses'[d] = 1 .. Len(responses[d]) + 1
        /\ Len(responses'[d]) = Len(responses[d]) + 1
        /\ \A i \in 1 .. Len(responses[d]) : responses'[d][i] = responses[d][i]
    BY <2>1, <2>2
  <2> QED
    BY <2>2, <2>3
<1>3. ASSUME NEW d \in Device, responses[d] # <<>>,
             responses'[d] = Tail(responses[d])
      PROVE  \A i \in DOMAIN responses'[d] :
               ~responses'[d][i].ok => i = Len(responses'[d])
  <2>1. responses[d] \in Seq(Answer)
    BY DEF TypeOK
  <2>2. /\ Len(responses[d]) \in Nat
        /\ Len(Tail(responses[d])) = Len(responses[d]) - 1
        /\ DOMAIN Tail(responses[d]) = 1 .. Len(responses[d]) - 1
        /\ \A i \in DOMAIN Tail(responses[d]) :
             /\ i + 1 \in DOMAIN responses[d]
             /\ Tail(responses[d])[i] = responses[d][i + 1]
    BY <1>3, <2>1, TailFacts
  <2>3. \A i \in DOMAIN responses[d] : ~responses[d][i].ok => i = Len(responses[d])
    BY DEF ErrorIsLast
  <2> QED
    BY <1>3, <2>2, <2>3
<1>4. ASSUME NEW d \in Device, responses'[d] = <<>>
      PROVE  \A i \in DOMAIN responses'[d] :
               ~responses'[d][i].ok => i = Len(responses'[d])
  BY <1>4, EmptySequence
<1>5. CASE UNCHANGED responses
  BY <1>5 DEF ErrorIsLast
<1>6. ASSUME NEW d \in Device,
             \/ Commit(d) \/ Refuse(d) \/ AcknowledgeBatch(d) \/ RejectBatch(d)
             \/ BreakStream(d) \/ Kill(d)
      PROVE  ErrorIsLast'
  <2>1. \A i \in DOMAIN responses'[d] :
          ~responses'[d][i].ok => i = Len(responses'[d])
    <3>1. CASE Commit(d) \/ Refuse(d)
      BY <1>2, <3>1
    <3>2. CASE AcknowledgeBatch(d)
      BY <1>3, <3>2 DEF AcknowledgeBatch, TypeOK
    <3>3. CASE RejectBatch(d) \/ BreakStream(d) \/ Kill(d)
      BY <1>4, <3>3 DEF RejectBatch, BreakStream, Kill, TypeOK
    <3> QED
      BY <1>6, <3>1, <3>2, <3>3
  <2> QED
    BY <1>1, <1>6, <2>1 DEF ErrorIsLast
<1> QED
  BY <1>5, <1>6
     DEF Next, Background, Call, Complete, WriteLocally, ApplyRemoteEvent,
         clientVars

(***************************************************************************)
(* Every step preserves the invariant of the queue.                        *)
(***************************************************************************)
LEMMA NextQueueInvariant ==
  QueueInvariant /\ [Next]_clientVars => QueueInvariant'
BY NextInvariant, NextNumbered, NextErrorIsLast
   DEF QueueInvariant, InductiveInvariant

LEMMA InitQueueInvariant == Init => QueueInvariant
<1> SUFFICES ASSUME Init PROVE QueueInvariant
  OBVIOUS
<1>1. Numbered
  BY EmptySequence, BoundAssumption DEF Init, Numbered, NumberedOn
<1>2. ErrorIsLast
  BY EmptySequence DEF Init, ErrorIsLast
<1> QED
  BY <1>1, <1>2, InitInvariant DEF QueueInvariant

-----------------------------------------------------------------------------
(***************************************************************************)
(* What WriteLog sees of one device: the numbers in its queue, and the     *)
(* number of the batch whose error is on its way.                          *)
(***************************************************************************)
LEMMA OutboxOf ==
  ASSUME QueueInvariant, NEW d \in Device
  PROVE  /\ queue[d] \in Seq(Batch) /\ responses[d] \in Seq(Answer)
         /\ Len(queue[d]) \in Nat
         /\ Len(responses[d]) \in Nat /\ Len(responses[d]) <= Len(queue[d])
         /\ DOMAIN responses[d] = 1 .. Len(responses[d])
         /\ Outbox[d] \in Seq(Nat)
         /\ Len(Outbox[d]) = Len(queue[d])
         /\ DOMAIN Outbox[d] = 1 .. Len(queue[d])
         /\ DOMAIN queue[d] = 1 .. Len(queue[d])
         /\ \A i \in 1 .. Len(queue[d]) :
              /\ Outbox[d][i] = queue[d][i].n
              /\ queue[d][i].n \in UNION {1 .. MaxCalls[e] : e \in Device}
              /\ queue[d][i].n \in Nat /\ queue[d][i].n >= 1
<1>1. /\ TypeOK /\ queue[d] \in Seq(Batch) /\ responses[d] \in Seq(Answer)
      /\ made[d] \in Nat /\ NumberedOn(d) /\ Len(calls[d]) \in Nat
  BY DEF QueueInvariant, InductiveInvariant, TypeOK, Numbered
<1>2. \A i \in DOMAIN queue[d] : queue[d][i].n \in Nat
  BY <1>1, BatchNumbers
<1>3. /\ Outbox[d] = [i \in DOMAIN queue[d] |-> queue[d][i].n]
      /\ DOMAIN queue[d] = 1 .. Len(queue[d]) /\ Len(queue[d]) \in Nat
  BY <1>1 DEF Outbox
<1>4. /\ Outbox[d] \in Seq(Nat) /\ Len(Outbox[d]) = Len(queue[d])
  BY <1>2, <1>3
<1>5. ASSUME NEW i \in 1 .. Len(queue[d])
      PROVE  queue[d][i].n \in 1 .. MaxCalls[d]
  <2>1. /\ queue[d][i].n \in Nat /\ queue[d][i].n >= 1
        /\ queue[d][i].n + Len(calls[d]) <= made[d] /\ made[d] <= MaxCalls[d]
    BY <1>1, <1>2, <1>3 DEF NumberedOn
  <2> QED
    BY <1>1, <2>1, BoundAssumption
<1>6. Len(responses[d]) \in Nat /\ Len(responses[d]) <= Len(queue[d])
  BY <1>1, AnswersMatchQueue
<1> QED
  BY <1>1, <1>2, <1>3, <1>4, <1>5, <1>6

LEMMA RefusedOf ==
  ASSUME QueueInvariant, NEW d \in Device
  PROVE  /\ StreamOpen(d) => Refused[d] = 0
         /\ ~StreamOpen(d) =>
              /\ Len(responses[d]) >= 1
              /\ ~responses[d][Len(responses[d])].ok
              /\ Refused[d] = queue[d][Len(responses[d])].n
              /\ Refused[d] >= 1 /\ Refused[d] \in Nat
<1>1. Refused[d] = IF StreamOpen(d) THEN 0 ELSE queue[d][Len(responses[d])].n
  BY DEF Refused
<1>2. CASE ~StreamOpen(d)
  <2>1. PICK i \in DOMAIN responses[d] : ~responses[d][i].ok
    BY <1>2 DEF StreamOpen
  <2>2. i = Len(responses[d])
    BY <2>1 DEF QueueInvariant, ErrorIsLast
  <2> QED
    BY <1>1, <1>2, <2>1, <2>2, OutboxOf
<1> QED
  BY <1>1, <1>2

(***************************************************************************)
(* Nothing that WriteLog sees has changed.                                 *)
(***************************************************************************)
LEMMA WritesUnchanged ==
  ASSUME UNCHANGED <<queue, responses, log>>
  PROVE  UNCHANGED Writes!writeLogVars
BY DEF Writes!writeLogVars, Outbox, Refused, StreamOpen

(***************************************************************************)
(* A step of device d: the other devices look as before.                   *)
(***************************************************************************)
LEMMA OtherDevices ==
  ASSUME NEW d \in Device, NEW box, NEW n,
         \A e \in Device \ {d} : queue'[e] = queue[e] /\ responses'[e] = responses[e],
         Outbox'[d] = box, Refused'[d] = n
  PROVE  /\ Outbox' = [Outbox EXCEPT ![d] = box]
         /\ Refused' = [Refused EXCEPT ![d] = n]
<1>1. \A e \in Device \ {d} : Outbox'[e] = Outbox[e] /\ Refused'[e] = Refused[e]
  BY DEF Outbox, Refused, StreamOpen
<1>2. /\ DOMAIN Outbox = Device /\ DOMAIN Outbox' = Device
      /\ DOMAIN Refused = Device /\ DOMAIN Refused' = Device
      /\ Outbox' = [e \in Device |-> Outbox'[e]]
      /\ Refused' = [e \in Device |-> Refused'[e]]
  BY DEF Outbox, Refused
<1>3. \A e \in Device : /\ Outbox'[e] = [Outbox EXCEPT ![d] = box][e]
                       /\ Refused'[e] = [Refused EXCEPT ![d] = n][e]
  BY <1>1, <1>2
<1> QED
  BY <1>2, <1>3

(***************************************************************************)
(* Storing a batch is Store.                                               *)
(***************************************************************************)
LEMMA WriteLocallyImplements ==
  ASSUME QueueInvariant, QueueInvariant', NEW d \in Device, WriteLocally(d)
  PROVE  \E n \in UNION {1 .. MaxCalls[e] : e \in Device} : Writes!Store(d, n)
<1> DEFINE batch == Head(calls[d])
           n     == batch.n
<1>1. /\ TypeOK /\ NumberedOn(d)
      /\ calls[d] \in Seq(Batch) /\ calls[d] # <<>> /\ made[d] \in Nat
      /\ queue[d] \in Seq(Batch) /\ Len(queue[d]) \in Nat
  BY DEF QueueInvariant, InductiveInvariant, TypeOK, WriteLocally, Numbered
<1>2. /\ batch = calls[d][1] /\ batch \in Batch /\ 1 \in DOMAIN calls[d]
      /\ Len(calls[d]) \in Nat /\ Len(calls[d]) >= 1
  BY <1>1, TailFacts
<1>3. n = made[d] - Len(calls[d]) + 1 /\ n \in Nat /\ n >= 1 /\ n <= MaxCalls[d]
  BY <1>1, <1>2, BoundAssumption DEF NumberedOn, Batch
<1>4. /\ queue'[d] = Append(queue[d], batch)
      /\ \A e \in Device \ {d} : queue'[e] = queue[e]
      /\ responses' = responses /\ log' = log
  BY <1>1 DEF WriteLocally, TypeOK
<1>5. /\ DOMAIN queue'[d] = 1 .. Len(queue[d]) + 1
      /\ Len(queue'[d]) = Len(queue[d]) + 1
      /\ \A i \in 1 .. Len(queue[d]) : queue'[d][i] = queue[d][i]
      /\ queue'[d][Len(queue[d]) + 1] = batch
  BY <1>1, <1>2, <1>4
<1>6. Outbox'[d] = Append(Outbox[d], n)
  <2>1. Outbox'[d] = [i \in DOMAIN queue'[d] |-> queue'[d][i].n]
    BY DEF Outbox
  <2>2. /\ Outbox[d] \in Seq(Nat) /\ Len(Outbox[d]) = Len(queue[d])
        /\ \A i \in 1 .. Len(queue[d]) : Outbox[d][i] = queue[d][i].n
    BY OutboxOf
  <2>3. /\ Append(Outbox[d], n) \in Seq(Nat)
        /\ DOMAIN Append(Outbox[d], n) = 1 .. Len(queue[d]) + 1
        /\ \A i \in 1 .. Len(queue[d]) : Append(Outbox[d], n)[i] = Outbox[d][i]
        /\ Append(Outbox[d], n)[Len(queue[d]) + 1] = n
    BY <1>3, <2>2
  <2>4. Append(Outbox[d], n)
          = [i \in 1 .. Len(queue[d]) + 1 |-> Append(Outbox[d], n)[i]]
    BY <2>3
  <2>5. \A i \in 1 .. Len(queue[d]) + 1 :
          queue'[d][i].n = Append(Outbox[d], n)[i]
    BY <1>1, <1>5, <2>2, <2>3
  <2> QED
    BY <1>5, <2>1, <2>4, <2>5
<1>7. Refused'[d] = Refused[d]
  <2>1. StreamOpen(d)' <=> StreamOpen(d)
    BY <1>4 DEF StreamOpen
  <2>2. CASE StreamOpen(d)
    BY <2>1, <2>2 DEF Refused
  <2>3. CASE ~StreamOpen(d)
    <3>1. Len(responses[d]) \in 1 .. Len(queue[d])
      BY <2>3, OutboxOf, RefusedOf
    <3> QED
      BY <1>4, <1>5, <2>1, <2>3, <3>1 DEF Refused
  <2> QED
    BY <2>2, <2>3
<1>8. /\ Outbox' = [Outbox EXCEPT ![d] = Append(Outbox[d], n)]
      /\ Refused' = Refused
  <2> HIDE DEF n
  <2>1. /\ Outbox' = [Outbox EXCEPT ![d] = Append(Outbox[d], n)]
        /\ Refused' = [Refused EXCEPT ![d] = Refused[d]]
    BY <1>4, <1>6, <1>7, OtherDevices
  <2> QED
    BY <2>1 DEF Refused
<1>9. \A m \in Range(Outbox[d]) : m < n
  <2>1. ASSUME NEW i \in 1 .. Len(queue[d]) PROVE Outbox[d][i] < n
    BY <1>1, <1>2, <1>3, OutboxOf DEF NumberedOn
  <2> QED
    BY <2>1, OutboxOf DEF Range
<1>10. ASSUME NEW m, <<d, m>> \in Range(log) PROVE m < n
  <2>1. PICK i \in DOMAIN log : log[i] = <<d, m>>
    BY <1>10 DEF Range
  <2>2. log[i] \in Device \X Nat
    BY <1>1 DEF TypeOK
  <2>3. m \in Nat /\ log[i][1] = d /\ log[i][2] = m
    BY <2>1, <2>2
  <2>4. m + Len(calls[d]) <= made[d]
    BY <1>1, <2>3 DEF NumberedOn
  <2> QED
    BY <1>1, <1>2, <1>3, <2>3, <2>4
<1>11. Writes!Store(d, n)
  <2> HIDE DEF n
  <2>1. \A m \in UNION {1 .. MaxCalls[e] : e \in Device} :
          Writes!Committed(d, m) => m < n
    BY <1>10 DEF Writes!Committed, Writes!Range, Range
  <2>2. Outbox' = [Outbox EXCEPT ![d] = Append(@, n)] /\ UNCHANGED <<log, Refused>>
    BY <1>4, <1>8
  <2> QED
    BY <1>9, <2>1, <2>2 DEF Writes!Store, Writes!Range, Range
<1>12. n \in 1 .. MaxCalls[d]
  BY <1>3, BoundAssumption
<1> QED
  BY <1>11, <1>12

(***************************************************************************)
(* The server's commit of the next batch is Deliver: all batches before it *)
(* have been accepted on this stream.                                      *)
(***************************************************************************)
LEMMA NextSentReached ==
  ASSUME QueueInvariant, NEW d \in Device, CanSend(d)
  PROVE  LET i == Len(responses[d]) + 1
         IN  /\ i \in DOMAIN Outbox[d]
             /\ Outbox[d][i] = NextSent(d).n
             /\ Writes!Reaches(d, i)
<1> DEFINE i == Len(responses[d]) + 1
<1>1. i \in DOMAIN queue[d] /\ NextSent(d) = queue[d][i]
  BY NextSentStored DEF QueueInvariant, InductiveInvariant
<1>2. Refused[d] = 0
  BY RefusedOf DEF CanSend
<1>3. ASSUME NEW j \in 1 .. i - 1
      PROVE  Writes!Committed(d, Outbox[d][j])
  <2>1. j \in DOMAIN responses[d] /\ j \in 1 .. Len(queue[d])
    BY OutboxOf
  <2>2. <<d, queue[d][j].n>> \in Range(log)
    BY <2>1 DEF QueueInvariant, InductiveInvariant, AnswersTrue, CanSend,
                StreamOpen
  <2> QED
    BY <2>1, <2>2, OutboxOf DEF Writes!Committed, Writes!Range, Range
<1> QED
  BY <1>1, <1>2, <1>3, OutboxOf DEF Writes!Reaches

LEMMA CommitImplements ==
  ASSUME QueueInvariant, QueueInvariant', NEW d \in Device, Commit(d)
  PROVE  \E i \in DOMAIN Outbox[d] : Writes!Deliver(d, i)
<1> DEFINE i == Len(responses[d]) + 1
<1>1. i \in DOMAIN Outbox[d] /\ Outbox[d][i] = NextSent(d).n /\ Writes!Reaches(d, i)
  BY NextSentReached DEF Commit
<1>2. log' = Append(log, <<d, Outbox[d][i]>>) /\ queue' = queue
  BY <1>1 DEF Commit
<1>3. /\ \A e \in Device \ {d} : responses'[e] = responses[e]
      /\ responses'[d] = Append(responses[d],
           Accepted(ServerApply(NextSent(d).write,
                                backend[Latest][NextSent(d).write.key],
                                Latest + 1).version))
  BY DEF Commit, QueueInvariant, InductiveInvariant, TypeOK
<1>4. StreamOpen(d) /\ StreamOpen(d)'
  <2> DEFINE answer == Accepted(ServerApply(NextSent(d).write,
                                  backend[Latest][NextSent(d).write.key],
                                  Latest + 1).version)
  <2>1. answer.ok
    BY DEF Accepted
  <2>2. responses'[d] = Append(responses[d], answer)
    BY <1>3
  <2> HIDE DEF answer
  <2>3. StreamOpen(d) /\ responses[d] \in Seq(Answer)
    BY OutboxOf DEF Commit, CanSend
  <2> QED
    BY <2>1, <2>2, <2>3 DEF StreamOpen
<1>5. Outbox' = Outbox /\ Refused' = Refused
  <2>1. Refused[d] = 0 /\ Refused'[d] = 0
    BY <1>4 DEF Refused
  <2>2. \A e \in Device \ {d} : Refused'[e] = Refused[e]
    BY <1>2, <1>3 DEF Refused, StreamOpen
  <2>3. Refused' = [e \in Device |-> Refused'[e]] /\ Refused = [e \in Device |-> Refused[e]]
    BY DEF Refused
  <2> QED
    BY <1>2, <2>1, <2>2, <2>3 DEF Outbox
<1>6. Writes!Deliver(d, i)
  BY <1>1, <1>2, <1>5 DEF Writes!Deliver
<1> QED
  BY <1>1, <1>6

(***************************************************************************)
(* An error for the next batch is Refuse.                                  *)
(***************************************************************************)
LEMMA RefuseImplements ==
  ASSUME QueueInvariant, QueueInvariant', NEW d \in Device, Refuse(d)
  PROVE  \E i \in DOMAIN Outbox[d] : Writes!Refuse(d, i)
<1> DEFINE i == Len(responses[d]) + 1
<1>1. i \in DOMAIN Outbox[d] /\ Outbox[d][i] = NextSent(d).n /\ Writes!Reaches(d, i)
  BY NextSentReached DEF Refuse
<1>2. /\ queue' = queue /\ log' = log
      /\ \A e \in Device \ {d} : responses'[e] = responses[e]
      /\ responses'[d] = Append(responses[d], Error)
  BY DEF Refuse, QueueInvariant, InductiveInvariant, TypeOK
<1>3. /\ Len(responses'[d]) = i /\ i \in DOMAIN responses'[d]
      /\ responses'[d][i] = Error
  <2>1. responses[d] \in Seq(Answer) /\ Error \in Answer
    BY OutboxOf DEF Error, Answer
  <2> QED
    BY <1>2, <2>1
<1>4. Refused'[d] = Outbox[d][i]
  <2>1. ~StreamOpen(d)'
    BY <1>3 DEF StreamOpen, Error
  <2>2. NextSent(d) = queue[d][i]
    BY DEF NextSent
  <2> QED
    BY <1>1, <1>2, <1>3, <2>1, <2>2 DEF Refused
<1>5. Outbox' = Outbox
  BY <1>2 DEF Outbox
<1>6. Refused' = [Refused EXCEPT ![d] = Outbox[d][i]]
  BY <1>2, <1>4, <1>5, OtherDevices
<1> QED
  BY <1>1, <1>2, <1>5, <1>6 DEF Writes!Refuse

(***************************************************************************)
(* A broken stream, and a restart, forget a refusal or change nothing.     *)
(***************************************************************************)
LEMMA StreamLostImplements ==
  ASSUME QueueInvariant, NEW d \in Device, BreakStream(d) \/ Kill(d)
  PROVE  Writes!Forget(d) \/ UNCHANGED Writes!writeLogVars
<1>1. /\ \A e \in Device \ {d} : queue'[e] = queue[e] /\ responses'[e] = responses[e]
      /\ responses'[d] = <<>> /\ log' = log
      /\ \/ queue' = queue
         \/ queue'[d] = [i \in DOMAIN queue[d] |->
                           [queue[d][i] EXCEPT !.live = FALSE]]
  BY DEF BreakStream, Kill, QueueInvariant, InductiveInvariant, TypeOK
<1>2. Outbox'[d] = Outbox[d]
  <2>1. CASE queue' = queue
    BY <2>1 DEF Outbox
  <2>2. CASE queue'[d] = [i \in DOMAIN queue[d] |->
                            [queue[d][i] EXCEPT !.live = FALSE]]
    <3>1. /\ DOMAIN queue'[d] = DOMAIN queue[d]
          /\ \A i \in DOMAIN queue[d] :
               queue'[d][i] = [queue[d][i] EXCEPT !.live = FALSE]
      BY <2>2
    <3>2. \A i \in DOMAIN queue[d] : queue[d][i] \in Batch
      BY BatchNumbers DEF QueueInvariant, InductiveInvariant
    <3>3. \A i \in DOMAIN queue[d] : queue'[d][i].n = queue[d][i].n
      BY <3>1, <3>2 DEF Batch
    <3> QED
      BY <3>1, <3>3 DEF Outbox
  <2> QED
    BY <1>1, <2>1, <2>2
<1>3. Refused'[d] = 0
  BY <1>1, EmptySequence DEF Refused, StreamOpen
<1>4. /\ Outbox' = [Outbox EXCEPT ![d] = Outbox[d]]
      /\ Refused' = [Refused EXCEPT ![d] = 0]
  BY <1>1, <1>2, <1>3, OtherDevices
<1>5. Outbox' = Outbox
  BY <1>4 DEF Outbox
<1>6. CASE Refused[d] = 0
  <2>1. Refused' = Refused
    BY <1>4, <1>6 DEF Refused
  <2> QED
    BY <1>1, <1>5, <2>1 DEF Writes!writeLogVars
<1>7. CASE Refused[d] # 0
  BY <1>1, <1>4, <1>5, <1>7 DEF Writes!Forget
<1> QED
  BY <1>6, <1>7

(***************************************************************************)
(* A sequence is the function of its elements.                             *)
(***************************************************************************)
LEMMA SequenceAsFunction ==
  ASSUME NEW S, NEW s \in Seq(S), NEW D, DOMAIN s = D
  PROVE  s = [i \in D |-> s[i]]
<1>1. s \in [1 .. Len(s) -> S]
  OBVIOUS
<1>2. s = [i \in DOMAIN s |-> s[i]]
  BY <1>1, Zenon
<1> QED
  BY <1>2, Zenon

(***************************************************************************)
(* A batch that leaves the queue takes its number out of the outbox.       *)
(***************************************************************************)
LEMMA OutboxTail ==
  ASSUME QueueInvariant, QueueInvariant', NEW d \in Device,
         responses[d] # <<>>, queue'[d] = Tail(queue[d])
  PROVE  /\ Outbox[d] # <<>> /\ Head(Outbox[d]) = queue[d][1].n
         /\ Outbox'[d] = Tail(Outbox[d])
         /\ 1 \in 1 .. Len(queue[d]) /\ 1 \in DOMAIN responses[d]
<1>1. Len(responses[d]) >= 1 /\ Len(queue[d]) >= 1 /\ queue[d] # <<>>
  BY OutboxOf, TailFacts, EmptySequence
<1>2. /\ DOMAIN queue'[d] = 1 .. Len(queue[d]) - 1
      /\ \A i \in DOMAIN queue'[d] : queue'[d][i] = queue[d][i + 1]
  BY <1>1, OutboxOf, TailFacts
<1>3. /\ Outbox[d] \in Seq(Nat) /\ Outbox[d] # <<>>
      /\ Len(Outbox[d]) = Len(queue[d]) /\ Len(queue[d]) \in Nat
  BY <1>1, OutboxOf, EmptySequence
<1>4. /\ Head(Outbox[d]) = Outbox[d][1]
      /\ Tail(Outbox[d]) \in Seq(Nat)
      /\ DOMAIN Tail(Outbox[d]) = 1 .. Len(queue[d]) - 1
      /\ \A i \in DOMAIN Tail(Outbox[d]) : Tail(Outbox[d])[i] = Outbox[d][i + 1]
  BY <1>3, TailFacts
<1>5. Outbox'[d] = [i \in 1 .. Len(queue[d]) - 1 |-> queue[d][i + 1].n]
  <2>1. Outbox'[d] = [i \in DOMAIN queue'[d] |-> queue'[d][i].n]
    BY DEF Outbox
  <2> QED
    BY <1>2, <2>1
<1>6. \A i \in 1 .. Len(queue[d]) - 1 : Outbox[d][i + 1] = queue[d][i + 1].n
  BY <1>3, OutboxOf
<1>7. Tail(Outbox[d]) = [i \in 1 .. Len(queue[d]) - 1 |-> Tail(Outbox[d])[i]]
  BY <1>4, SequenceAsFunction
<1>8. Outbox'[d] = Tail(Outbox[d])
  BY <1>4, <1>5, <1>6, <1>7
<1>9. Outbox[d][1] = queue[d][1].n /\ 1 \in DOMAIN responses[d]
  BY <1>1, OutboxOf
<1> QED
  BY <1>1, <1>3, <1>4, <1>8, <1>9

(***************************************************************************)
(* The client's receipt of a commit is Answer for a committed write.       *)
(***************************************************************************)
LEMMA AcknowledgeBatchImplements ==
  ASSUME QueueInvariant, QueueInvariant', NEW d \in Device, AcknowledgeBatch(d)
  PROVE  Writes!Answer(d)
<1>1. /\ responses[d] # <<>> /\ Head(responses[d]).ok /\ log' = log
      /\ queue'[d] = Tail(queue[d]) /\ responses'[d] = Tail(responses[d])
      /\ \A e \in Device \ {d} : queue'[e] = queue[e] /\ responses'[e] = responses[e]
  BY DEF AcknowledgeBatch, QueueInvariant, InductiveInvariant, TypeOK
<1>2. /\ Outbox[d] # <<>> /\ Head(Outbox[d]) = queue[d][1].n
      /\ Outbox'[d] = Tail(Outbox[d])
      /\ 1 \in 1 .. Len(queue[d]) /\ 1 \in DOMAIN responses[d]
  BY <1>1, OutboxTail
<1>3. /\ Head(responses[d]) = responses[d][1]
      /\ Len(Tail(responses[d])) = Len(responses[d]) - 1
      /\ DOMAIN Tail(responses[d]) = 1 .. Len(responses[d]) - 1
      /\ \A i \in DOMAIN Tail(responses[d]) :
           Tail(responses[d])[i] = responses[d][i + 1]
  BY <1>1, OutboxOf, TailFacts
<1>4. Writes!Committed(d, Head(Outbox[d]))
  BY <1>1, <1>2, <1>3
     DEF QueueInvariant, InductiveInvariant, AnswersTrue, Writes!Committed,
         Writes!Range, Range
<1>5. Refused'[d] = Refused[d] /\ Refused[d] # Head(Outbox[d])
  <2>1. CASE StreamOpen(d)
    <3>1. \A i \in DOMAIN responses'[d] : responses'[d][i].ok
      BY <1>1, <1>3, <2>1, OutboxOf DEF StreamOpen
    <3>2. Refused'[d] = 0 /\ Refused[d] = 0
      BY <2>1, <3>1 DEF Refused, StreamOpen
    <3> QED
      BY <1>2, <3>2, OutboxOf
  <2>2. CASE ~StreamOpen(d)
    <3>1. /\ Len(responses[d]) >= 2 /\ Len(responses[d]) \in Nat
          /\ Len(responses[d]) <= Len(queue[d]) /\ Len(queue[d]) \in Nat
          /\ ~responses[d][Len(responses[d])].ok
          /\ Refused[d] = queue[d][Len(responses[d])].n
      BY <1>1, <1>3, <2>2, OutboxOf, RefusedOf
    <3>2. queue[d][1].n < queue[d][Len(responses[d])].n
      <4>1. NumberedOn(d)
        BY DEF QueueInvariant, Numbered
      <4>2. Len(responses[d]) \in DOMAIN queue[d] /\ 1 \in 1 .. Len(responses[d]) - 1
        BY <3>1, OutboxOf
      <4> QED
        BY <4>1, <4>2 DEF NumberedOn
    <3>3. /\ Len(responses[d]) - 1 \in DOMAIN responses'[d]
          /\ responses'[d][Len(responses[d]) - 1] = responses[d][Len(responses[d])]
          /\ Len(responses'[d]) = Len(responses[d]) - 1
      BY <1>1, <1>3, <3>1
    <3>4. ~StreamOpen(d)'
      BY <3>1, <3>3 DEF StreamOpen
    <3>5. queue'[d][Len(responses[d]) - 1] = queue[d][Len(responses[d])]
      <4>1. /\ queue[d] \in Seq(Batch) /\ queue[d] # <<>>
            /\ Len(responses[d]) - 1 \in 1 .. Len(queue[d]) - 1
        BY <3>1, OutboxOf, EmptySequence
      <4>2. Tail(queue[d])[Len(responses[d]) - 1]
              = queue[d][(Len(responses[d]) - 1) + 1]
        BY <4>1, TailFacts
      <4> QED
        BY <1>1, <3>1, <4>2
    <3>6. Refused'[d] = queue'[d][Len(responses'[d])].n
      BY <3>4 DEF Refused
    <3>7. Refused'[d] = Refused[d]
      BY <3>1, <3>3, <3>5, <3>6
    <3>8. queue[d][1].n \in Nat /\ queue[d][Len(responses[d])].n \in Nat
      BY <1>2, <3>1, OutboxOf
    <3> QED
      BY <1>2, <3>1, <3>2, <3>7, <3>8
  <2> QED
    BY <2>1, <2>2
<1>6. /\ Outbox' = [Outbox EXCEPT ![d] = Tail(Outbox[d])]
      /\ Refused' = [Refused EXCEPT ![d] = Refused[d]]
  BY <1>1, <1>2, <1>5, OtherDevices
<1>7. Refused' = Refused
  BY <1>6 DEF Refused
<1> QED
  BY <1>1, <1>2, <1>4, <1>5, <1>6, <1>7 DEF Writes!Answer

(***************************************************************************)
(* The client's receipt of an error is Answer for a refused write: the     *)
(* error is the only answer left on the stream.                            *)
(***************************************************************************)
LEMMA RejectBatchImplements ==
  ASSUME QueueInvariant, QueueInvariant', NEW d \in Device, RejectBatch(d)
  PROVE  Writes!Answer(d)
<1>1. /\ responses[d] # <<>> /\ ~Head(responses[d]).ok /\ log' = log
      /\ queue'[d] = Tail(queue[d]) /\ responses'[d] = <<>>
      /\ \A e \in Device \ {d} : queue'[e] = queue[e] /\ responses'[e] = responses[e]
  BY DEF RejectBatch, QueueInvariant, InductiveInvariant, TypeOK
<1>2. /\ Outbox[d] # <<>> /\ Head(Outbox[d]) = queue[d][1].n
      /\ Outbox'[d] = Tail(Outbox[d])
      /\ 1 \in 1 .. Len(queue[d]) /\ 1 \in DOMAIN responses[d]
  BY <1>1, OutboxTail
<1>3. Head(responses[d]) = responses[d][1]
  BY <1>1, OutboxOf, TailFacts
<1>4. Len(responses[d]) = 1 /\ ~StreamOpen(d)
  BY <1>1, <1>2, <1>3 DEF QueueInvariant, ErrorIsLast, StreamOpen
<1>5. Refused[d] = Head(Outbox[d])
  BY <1>2, <1>4, RefusedOf
<1>6. Refused'[d] = 0
  BY <1>1, EmptySequence DEF Refused, StreamOpen
<1>7. /\ Outbox' = [Outbox EXCEPT ![d] = Tail(Outbox[d])]
      /\ Refused' = [Refused EXCEPT ![d] = 0]
  BY <1>1, <1>2, <1>6, OtherDevices
<1> QED
  BY <1>1, <1>2, <1>5, <1>7 DEF Writes!Answer

(***************************************************************************)
(* Every step of the client is a step of WriteLog, or leaves it alone.     *)
(***************************************************************************)
LEMMA NextImplements ==
  ASSUME QueueInvariant, QueueInvariant', [Next]_clientVars
  PROVE  [Writes!Next]_Writes!writeLogVars
<1>1. CASE UNCHANGED <<queue, responses, log>>
  BY <1>1, WritesUnchanged
<1>2. ASSUME NEW d \in Device, WriteLocally(d)
      PROVE  Writes!Next
  BY <1>2, WriteLocallyImplements DEF Writes!Next
<1>3. ASSUME NEW d \in Device, Commit(d)
      PROVE  Writes!Next
  BY <1>3, CommitImplements DEF Writes!Next
<1>4. ASSUME NEW d \in Device, Refuse(d)
      PROVE  Writes!Next
  BY <1>4, RefuseImplements DEF Writes!Next
<1>5. ASSUME NEW d \in Device, AcknowledgeBatch(d) \/ RejectBatch(d)
      PROVE  Writes!Next
  BY <1>5, AcknowledgeBatchImplements, RejectBatchImplements DEF Writes!Next
<1>6. ASSUME NEW d \in Device, BreakStream(d) \/ Kill(d)
      PROVE  Writes!Next \/ UNCHANGED Writes!writeLogVars
  BY <1>6, StreamLostImplements DEF Writes!Next
<1> QED
  BY <1>1, <1>2, <1>3, <1>4, <1>5, <1>6
     DEF Next, Background, Call, Complete, ApplyRemoteEvent, clientVars

LEMMA InitImplements == Init => Writes!Init
<1> SUFFICES ASSUME Init PROVE Writes!Init
  OBVIOUS
<1>1. \A d \in Device : queue[d] = <<>> /\ responses[d] = <<>>
  BY DEF Init
<1>2. \A d \in Device : [i \in DOMAIN queue[d] |-> queue[d][i].n] = <<>>
  BY <1>1, EmptySequence
<1>3. Outbox = [d \in Device |-> <<>>]
  BY <1>2 DEF Outbox
<1>4. Refused = [d \in Device |-> 0]
  BY <1>1, EmptySequence DEF Refused, StreamOpen
<1> QED
  BY <1>3, <1>4 DEF Init, Writes!Init

-----------------------------------------------------------------------------
(***************************************************************************)
(* The numbers of writes ascend on their way through the SDK, and a stream *)
(* ends with its first error, in every behaviour.                          *)
(***************************************************************************)
THEOREM QueueIsOrdered == Spec => []QueueInvariant
BY InitQueueInvariant, NextQueueInvariant, PTL DEF Spec

(***************************************************************************)
(* The SDK's pipeline of writes, with its queues on disk and in memory,    *)
(* full pipelines, lost answers, refused writes and restarts, implements   *)
(* WriteLog, for any devices, writes and bounds.                           *)
(***************************************************************************)
THEOREM ClientImplementsWriteLog == Spec => ImplementsWriteLog
<1>1. QueueInvariant /\ QueueInvariant' /\ [Next]_clientVars
        => [Writes!Next]_Writes!writeLogVars
  BY NextImplements
<1> QED
  BY <1>1, InitImplements, QueueIsOrdered, PTL
     DEF Spec, ImplementsWriteLog, Writes!Spec

(***************************************************************************)
(* Hence the SDK's server log is in order.                                 *)
(***************************************************************************)
Proved == INSTANCE WriteLogProofs WITH
  Number <- UNION {1 .. MaxCalls[d] : d \in Device},
  outbox <- Outbox,
  log <- log,
  refused <- Refused

THEOREM ClientCommitsInOrder == Spec => []CommitsInOrder
<1>1. UNION {1 .. MaxCalls[d] : d \in Device} \subseteq Nat \ {0}
  OBVIOUS
<1>2. Proved!Spec => []Proved!FirstCommitsInOrder
  BY <1>1, Proved!CommitsAreOrdered
<1>3. Writes!Init => Proved!Init
  BY DEF Writes!Init, Proved!Init
<1>4. Writes!Next => Proved!Next
  BY DEF Writes!Next, Proved!Next, Writes!Store, Proved!Store, Writes!Deliver,
         Proved!Deliver, Writes!Refuse, Proved!Refuse, Writes!Forget,
         Proved!Forget, Writes!Answer, Proved!Answer, Writes!Reaches,
         Proved!Reaches, Writes!Committed, Proved!Committed, Writes!Range,
         Proved!Range
<1>5. UNCHANGED Writes!writeLogVars => UNCHANGED Proved!writeLogVars
  BY DEF Writes!writeLogVars, Proved!writeLogVars
<1>6. Writes!Spec => Proved!Spec
  BY <1>3, <1>4, <1>5, PTL DEF Writes!Spec, Proved!Spec
<1>7. Proved!FirstCommitsInOrder => CommitsInOrder
  BY DEF Proved!FirstCommitsInOrder, Proved!FirstCommit, CommitsInOrder, FirstCommit
<1> QED
  BY <1>2, <1>6, <1>7, ClientImplementsWriteLog, PTL DEF ImplementsWriteLog

==============================================================================
