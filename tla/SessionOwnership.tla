-------------------------- MODULE SessionOwnership --------------------------
(***************************************************************************)
(* Every step of Session keeps OwnershipInvariant, for any accounts and    *)
(* bounds.                                                                 *)
(***************************************************************************)
EXTENDS Session, SequenceTheorems, FiniteSetTheorems, TLAPS

LEMMA Appending ==
  ASSUME NEW S, NEW s \in Seq(S), NEW x \in S
  PROVE  /\ Append(s, x) \in Seq(S)
         /\ Len(s) \in Nat
         /\ DOMAIN s = 1 .. Len(s)
         /\ DOMAIN Append(s, x) = 1 .. Len(s) + 1
         /\ Append(s, x)[Len(s) + 1] = x
         /\ \A i \in 1 .. Len(s) : Append(s, x)[i] = s[i]
<1>1. /\ Append(s, x) \in Seq(S)
      /\ Len(Append(s, x)) = Len(s) + 1
      /\ \A i \in 1 .. Len(s) : Append(s, x)[i] = s[i]
      /\ Append(s, x)[Len(s) + 1] = x
  BY AppendProperties
<1> QED
  BY <1>1

LEMMA Removing ==
  ASSUME NEW S, NEW s \in Seq(S), s # <<>>
  PROVE  /\ Tail(s) \in Seq(S)
         /\ Len(s) \in Nat \ {0}
         /\ DOMAIN s = 1 .. Len(s)
         /\ DOMAIN Tail(s) = 1 .. Len(s) - 1
         /\ Head(s) = s[1]
         /\ Head(s) \in S
         /\ \A i \in 1 .. Len(s) - 1 : Tail(s)[i] = s[i + 1]
<1>1. /\ Head(s) \in S
      /\ Tail(s) \in Seq(S)
      /\ Len(Tail(s)) = Len(s) - 1
      /\ \A i \in 1 .. Len(Tail(s)) : Tail(s)[i] = s[i + 1]
  BY HeadTailProperties
<1>2. Len(s) \in Nat /\ Len(s) # 0
  BY EmptySeq
<1>3. DOMAIN Tail(s) = 1 .. Len(Tail(s))
  BY <1>1
<1>4. Head(s) = s[1]
  BY <1>2
<1> QED
  BY <1>1, <1>2, <1>3, <1>4

-----------------------------------------------------------------------------
(***************************************************************************)
(* Streams: a pipeline filled from a queue has batches of that queue, and  *)
(* a stream that starts asks for a token of its own.                       *)
(***************************************************************************)
StreamType ==
  [state : {"initial", "starting", "connecting", "open", "error", "backoff"},
   as : Owner, closes : Nat]

StreamsWith(S) ==
  [pipeline : Seq(S), stream : StreamType, answered : Nat,
   requests : SUBSET Token]

MayStart(st, rt) ==
  /\ rt.stream.closes = st.stream.closes
  /\ rt.stream.as = st.stream.as
  /\ \/ /\ rt.stream.state = st.stream.state
        /\ rt.requests = st.requests
     \/ /\ ~IsStarted(st.stream)
        /\ rt.stream.state = "backoff"
        /\ rt.requests = st.requests
     \/ /\ ~IsStarted(st.stream)
        /\ rt.stream.state = "starting"
        /\ \E r \in Token : /\ rt.requests = st.requests \cup {r}
                            /\ ~r.read
                            /\ r.closes = st.stream.closes

LEMMA RequestType ==
  ASSUME OwnedTypes, NEW c \in Nat
  PROVE  Request(c) \in Token /\ ~Request(c).read /\ Request(c).closes = c
BY DEF Request, Token, OwnedTypes, Owner

LEMMA StartStarts ==
  ASSUME OwnedTypes, NEW S, NEW st \in StreamsWith(S), ~IsStarted(st.stream)
  PROVE  /\ Start(st) \in StreamsWith(S)
         /\ MayStart(st, Start(st))
         /\ Start(st).pipeline = st.pipeline
         /\ st.stream.state # "error" => Start(st).stream.state = "starting"
<1>1. st.stream \in StreamType /\ st.stream.closes \in Nat
  BY DEF StreamsWith, StreamType
<1> DEFINE r == Request(st.stream.closes)
<1>2. r \in Token /\ ~r.read /\ r.closes = st.stream.closes
  BY <1>1, RequestType
<1> HIDE DEF r
<1>3. CASE st.stream.state = "error"
  <2>1. Start(st) = [st EXCEPT !.stream.state = "backoff"]
    BY <1>3 DEF Start
  <2>2. /\ Start(st).stream = [st.stream EXCEPT !.state = "backoff"]
        /\ Start(st).requests = st.requests
        /\ Start(st).pipeline = st.pipeline
        /\ Start(st) \in StreamsWith(S)
    BY <2>1, <1>1 DEF StreamsWith, StreamType
  <2> QED
    BY <2>2, <1>1, <1>3 DEF StreamType, MayStart
<1>4. CASE st.stream.state # "error"
  <2>1. Start(st) = [st EXCEPT !.stream.state = "starting",
                               !.requests = @ \cup {r}]
    BY <1>4 DEF Start, r
  <2>a. st.requests \cup {r} \in SUBSET Token
    BY <1>2 DEF StreamsWith
  <2>b. [st.stream EXCEPT !.state = "starting"] \in StreamType
    BY <1>1 DEF StreamType
  <2>2. /\ Start(st).stream = [st.stream EXCEPT !.state = "starting"]
        /\ Start(st).requests = st.requests \cup {r}
        /\ Start(st).pipeline = st.pipeline
        /\ Start(st) \in StreamsWith(S)
    BY <2>1, <2>a, <2>b DEF StreamsWith
  <2> QED
    BY <2>2, <1>1, <1>2 DEF StreamType, MayStart
<1> QED
  BY <1>3, <1>4

LEMMA NextAfterIsSuffix ==
  ASSUME NEW S, NEW q \in Seq(S), NEW last
  PROVE  NextAfter(q, last) \in Seq(S) /\ Len(NextAfter(q, last)) <= Len(q)
<1> DEFINE sent == {i \in DOMAIN q : q[i].n <= last}
<1>1. IsFiniteSet(sent) /\ Cardinality(sent) \in Nat
  <2>1. IsFiniteSet(1 .. Len(q))
    BY FS_Interval
  <2>2. sent \subseteq 1 .. Len(q)
    OBVIOUS
  <2> QED
    BY <2>1, <2>2, FS_Subset, FS_CardinalityType
<1> DEFINE c == Cardinality(sent)
<1>2. NextAfter(q, last) = SubSeq(q, c + 1, Len(q))
  BY DEF NextAfter
<1> HIDE DEF c
<1>3. c \in Nat
  BY <1>1 DEF c
<1>4. /\ SubSeq(q, c + 1, Len(q)) \in Seq(S)
      /\ Len(SubSeq(q, c + 1, Len(q))) =
           IF c + 1 <= Len(q) THEN Len(q) - (c + 1) + 1 ELSE 0
  BY <1>3, SubSeqProperties
<1> QED
  BY <1>2, <1>3, <1>4

LEMMA FillFills ==
  ASSUME OwnedTypes, NEW S, NEW st \in StreamsWith(S), NEW q \in Seq(S)
  PROVE  /\ FillWritePipeline(st, q) \in StreamsWith(S)
         /\ MayStart(st, FillWritePipeline(st, q))
         /\ st.pipeline = <<>> =>
              Len(FillWritePipeline(st, q).pipeline) <= Len(q)
<1> DEFINE last == IF st.pipeline = <<>> THEN 0 ELSE Last(st.pipeline).n
           rest == NextAfter(q, last)
           more == st.pipeline \o rest
           room == IF Len(more) < MaxPendingWrites THEN Len(more)
                   ELSE MaxPendingWrites
           full == [st EXCEPT !.pipeline = SubSeq(more, 1, room)]
<1>1. rest \in Seq(S) /\ Len(rest) <= Len(q)
  BY NextAfterIsSuffix
<1>a. FillWritePipeline(st, q) =
        IF full.pipeline # <<>> /\ ~IsStarted(full.stream)
        THEN Start(full) ELSE full
  BY DEF FillWritePipeline
<1> HIDE DEF rest
<1>2. /\ more \in Seq(S)
      /\ Len(more) \in Nat
      /\ st.pipeline = <<>> => Len(more) <= Len(q)
  <2>1. st.pipeline \in Seq(S)
    BY DEF StreamsWith
  <2> QED
    BY <2>1, <1>1, ConcatProperties
<1> HIDE DEF more
<1>3. room \in Nat /\ room <= Len(more)
  BY <1>2, BoundAssumption
<1> HIDE DEF room
<1>4. /\ SubSeq(more, 1, room) \in Seq(S)
      /\ Len(SubSeq(more, 1, room)) = room
  BY <1>2, <1>3, SubSeqProperties
<1>5. /\ full \in StreamsWith(S)
      /\ full.stream = st.stream
      /\ full.requests = st.requests
      /\ full.pipeline = SubSeq(more, 1, room)
  BY <1>4 DEF StreamsWith
<1>6. MayStart(st, full)
  BY <1>5 DEF MayStart
<1>7. ~IsStarted(full.stream) =>
        /\ Start(full) \in StreamsWith(S)
        /\ MayStart(st, Start(full))
        /\ Start(full).pipeline = full.pipeline
  <2> HIDE DEF full
  <2> SUFFICES ASSUME ~IsStarted(full.stream)
               PROVE  /\ Start(full) \in StreamsWith(S)
                      /\ MayStart(st, Start(full))
                      /\ Start(full).pipeline = full.pipeline
    OBVIOUS
  <2>1. /\ Start(full) \in StreamsWith(S)
        /\ MayStart(full, Start(full))
        /\ Start(full).pipeline = full.pipeline
    BY <1>5, StartStarts
  <2> QED
    BY <2>1, <1>5 DEF MayStart
<1>8. st.pipeline = <<>> => Len(full.pipeline) <= Len(q)
  <2>1. Len(q) \in Nat
    OBVIOUS
  <2> QED
    BY <2>1, <1>2, <1>3, <1>4, <1>5
<1> HIDE DEF full
<1> QED
  BY <1>a, <1>5, <1>6, <1>7, <1>8

-----------------------------------------------------------------------------
(***************************************************************************)
(* Steps that leave auth and user alone.  The blocks of main move up by s  *)
(* places, none of those that are gone is a change, and neither is a new   *)
(* one; the same for the tasks of worker.                                  *)
(***************************************************************************)
SoundToken(r) ==
  /\ BelongsToStart(r.closes, stream)
  /\ r.closes = stream.closes => r.who = user \/ ChangeOnWorker \/ ChangeOnMain

MainMoves(s) ==
  /\ s \in {0, 1}
  /\ \A i \in DOMAIN main :
       i > s => i - s \in DOMAIN main' /\ main'[i - s] = main[i]
  /\ \A i \in DOMAIN main : i <= s => ~IsChange(main[i])
  /\ \A i \in DOMAIN main' :
       \/ i + s \in DOMAIN main /\ main'[i] = main[i + s]
       \/ /\ i + s = Len(main) + 1
          /\ ~IsChange(main'[i])
          /\ main'[i].kind = "token" => SoundToken(main'[i].request)

WorkerMoves(s) ==
  /\ s \in {0, 1}
  /\ \A i \in DOMAIN worker :
       i > s => i - s \in DOMAIN worker' /\ worker'[i - s] = worker[i]
  /\ \A i \in DOMAIN worker : i <= s => ~IsUserTask(worker[i])
  /\ \A i \in DOMAIN worker' :
       \/ i + s \in DOMAIN worker /\ worker'[i] = worker[i + s]
       \/ /\ i + s = Len(worker) + 1
          /\ ~IsUserTask(worker'[i])
          /\ worker'[i].kind = "resume" =>
               /\ BelongsToStart(worker'[i].closes, stream)
               /\ worker'[i].closes = stream.closes =>
                    worker'[i].who = user \/ ChangeOnWorker

StreamMoves ==
  /\ \A c \in Nat : BelongsToStart(c, stream) => BelongsToStart(c, stream')
  /\ \A c \in Nat : BelongsToStart(c, stream) /\ c = stream'.closes => c = stream.closes
  /\ \A r \in requests' :
       /\ BelongsToStart(r.closes, stream')
       /\ r.read => r \in requests \/ r.who = auth

LEMMA ChangesStay ==
  ASSUME OwnedTypes, NEW s, NEW t, MainMoves(s), WorkerMoves(t)
  PROVE  /\ ChangeOnMain' <=> ChangeOnMain
         /\ ChangeOnWorker' <=> ChangeOnWorker
<1>1. DOMAIN main = 1 .. Len(main) /\ DOMAIN worker = 1 .. Len(worker)
  BY DEF OwnedTypes
<1>2. ASSUME NEW i \in DOMAIN main, IsChange(main[i])
      PROVE  ChangeOnMain'
  <2>1. i > s
    BY <1>1, <1>2 DEF MainMoves
  <2> QED
    BY <2>1, <1>2 DEF MainMoves, ChangeOnMain, IsChange
<1>3. ASSUME NEW i \in DOMAIN main', IsChange(main'[i])
      PROVE  ChangeOnMain
  BY <1>3 DEF MainMoves, ChangeOnMain
<1>4. ASSUME NEW i \in DOMAIN worker, IsUserTask(worker[i])
      PROVE  ChangeOnWorker'
  <2>1. i > t
    BY <1>1, <1>4 DEF WorkerMoves
  <2> QED
    BY <2>1, <1>4 DEF WorkerMoves, ChangeOnWorker, IsUserTask
<1>5. ASSUME NEW i \in DOMAIN worker', IsUserTask(worker'[i])
      PROVE  ChangeOnWorker
  BY <1>5 DEF WorkerMoves, ChangeOnWorker
<1> QED
  BY <1>2, <1>3, <1>4, <1>5 DEF ChangeOnMain, ChangeOnWorker, IsChange, IsUserTask

LEMMA MovesKeepAuth ==
  ASSUME OwnedTypes, AuthIsComing, OwnedTypes', NEW s, NEW t,
         MainMoves(s), WorkerMoves(t), auth' = auth, user' = user
  PROVE  AuthIsComing'
<1>a. /\ main \in Seq(Block) /\ worker \in Seq(Task)
      /\ main' \in Seq(Block) /\ worker' \in Seq(Task)
  BY DEF OwnedTypes
<1>b. s \in {0, 1} /\ t \in {0, 1}
  BY DEF MainMoves, WorkerMoves
<1>0. /\ DOMAIN main = 1 .. Len(main) /\ DOMAIN worker = 1 .. Len(worker)
      /\ DOMAIN main' = 1 .. Len(main') /\ DOMAIN worker' = 1 .. Len(worker')
      /\ s \in Nat /\ t \in Nat
  BY <1>a, <1>b
<1>1. /\ ChangeOnMain' <=> ChangeOnMain
      /\ ChangeOnWorker' <=> ChangeOnWorker
  BY ChangesStay
<1>2. ASSUME NEW i \in DOMAIN main', IsChange(main'[i]),
             \A j \in DOMAIN main' : j > i => ~IsChange(main'[j])
      PROVE  main'[i].user = auth'
  <2>1. i + s \in DOMAIN main /\ main'[i] = main[i + s]
    BY <1>2 DEF MainMoves
  <2>2. ASSUME NEW j \in DOMAIN main, j > i + s PROVE ~IsChange(main[j])
    <3>1. j - s \in DOMAIN main' /\ main'[j - s] = main[j] /\ j - s > i
      BY <2>2, <1>0 DEF MainMoves
    <3> QED
      BY <3>1, <1>2 DEF IsChange
  <2> QED
    BY <2>1, <2>2, <1>2 DEF AuthIsComing, IsChange
<1>3. ASSUME ~ChangeOnMain', NEW i \in DOMAIN worker', IsUserTask(worker'[i]),
             \A j \in DOMAIN worker' : j > i => ~IsUserTask(worker'[j])
      PROVE  worker'[i].user = auth'
  <2>1. i + t \in DOMAIN worker /\ worker'[i] = worker[i + t]
    BY <1>3 DEF WorkerMoves
  <2>2. ASSUME NEW j \in DOMAIN worker, j > i + t PROVE ~IsUserTask(worker[j])
    <3>1. j - t \in DOMAIN worker' /\ worker'[j - t] = worker[j] /\ j - t > i
      BY <2>2, <1>0 DEF WorkerMoves
    <3> QED
      BY <3>1, <1>3 DEF IsUserTask
  <2> QED
    BY <2>1, <2>2, <1>1, <1>3 DEF AuthIsComing, IsUserTask
<1> QED
  BY <1>1, <1>2, <1>3 DEF AuthIsComing, IsChange, IsUserTask

LEMMA MovesKeepTokens ==
  ASSUME OwnershipInvariant, OwnedTypes', NEW s, NEW t,
         MainMoves(s), WorkerMoves(t), StreamMoves, user' = user
  PROVE  TokensBelongToStarts' /\ TokensAreTheUsers'
<1> USE DEF OwnershipInvariant
<1>a. /\ main \in Seq(Block) /\ worker \in Seq(Task)
      /\ main' \in Seq(Block) /\ worker' \in Seq(Task)
  BY DEF OwnedTypes
<1>b. s \in {0, 1} /\ t \in {0, 1}
  BY DEF MainMoves, WorkerMoves
<1>0. /\ DOMAIN main = 1 .. Len(main) /\ DOMAIN worker = 1 .. Len(worker)
      /\ DOMAIN main' = 1 .. Len(main') /\ DOMAIN worker' = 1 .. Len(worker')
      /\ Len(main) \in Nat /\ Len(worker) \in Nat
      /\ s \in Nat /\ t \in Nat
  BY <1>a, <1>b
<1>1. /\ ChangeOnMain' <=> ChangeOnMain
      /\ ChangeOnWorker' <=> ChangeOnWorker
  BY ChangesStay
<1>m. \A i \in DOMAIN main' :
        main'[i].kind = "token" => main'[i].request.closes \in Nat
  <2>1. \A i \in DOMAIN main' : main'[i] \in Block
    BY <1>a
  <2> QED
    BY <2>1 DEF Block, Token
<1>w. \A i \in DOMAIN worker' :
        worker'[i].kind = "resume" => worker'[i].closes \in Nat
  <2>1. \A i \in DOMAIN worker' : worker'[i] \in Task
    BY <1>a
  <2> QED
    BY <2>1 DEF Task
<1>c. \A k \in DOMAIN main :
        main[k].kind = "token" /\ main[k].request.closes = stream.closes =>
          \/ main[k].request.who = user
          \/ ChangeOnWorker
          \/ \E j \in 1 .. k - 1 : IsChange(main[j])
  BY DEF TokensAreTheUsers
<1>d. \A k \in DOMAIN worker :
        worker[k].kind = "resume" /\ worker[k].closes = stream.closes =>
          \/ worker[k].who = user
          \/ \E j \in 1 .. k - 1 : IsUserTask(worker[j])
  BY DEF TokensAreTheUsers
<1>2. ASSUME NEW i \in DOMAIN main', main'[i].kind = "token"
      PROVE  /\ BelongsToStart(main'[i].request.closes, stream')
             /\ main'[i].request.closes = stream'.closes =>
                  \/ main'[i].request.who = user'
                  \/ ChangeOnWorker'
                  \/ \E j \in 1 .. i - 1 : IsChange(main'[j])
  <2>1. CASE i + s \in DOMAIN main /\ main'[i] = main[i + s]
    <3>0. PICK k \in DOMAIN main : k = i + s /\ main'[i] = main[k]
      BY <2>1
    <3>1. BelongsToStart(main[k].request.closes, stream)
      BY <3>0, <1>2 DEF TokensBelongToStarts
    <3>2. BelongsToStart(main'[i].request.closes, stream')
      BY <3>1, <3>0, <1>2, <1>m DEF StreamMoves
    <3>3. ASSUME NEW j \in 1 .. k - 1, IsChange(main[j])
          PROVE  \E h \in 1 .. i - 1 : IsChange(main'[h])
      <4>1. j \in DOMAIN main
        BY <3>0, <1>0
      <4>2. j > s
        BY <4>1, <3>3, <1>0 DEF MainMoves
      <4>3. j - s \in 1 .. i - 1 /\ main'[j - s] = main[j]
        BY <4>1, <4>2, <3>0, <1>0 DEF MainMoves
      <4> QED
        BY <4>3, <3>3 DEF IsChange
    <3>4. main'[i].request.closes = stream'.closes =>
            main[k].request.closes = stream.closes
      BY <3>1, <3>0, <1>2, <1>m DEF StreamMoves
    <3>5. main[k].kind = "token"
      BY <3>0, <1>2
    <3>6. main'[i].request.closes = stream'.closes =>
            \/ main[k].request.who = user
            \/ ChangeOnWorker
            \/ \E j \in 1 .. k - 1 : IsChange(main[j])
      BY <3>4, <3>5, <1>c
    <3> QED
      BY <3>0, <3>2, <3>3, <3>6, <1>1
  <2>2. CASE i + s = Len(main) + 1 /\ SoundToken(main'[i].request)
    <3>1. BelongsToStart(main'[i].request.closes, stream')
      BY <2>2, <1>2, <1>m DEF StreamMoves, SoundToken
    <3>2. ASSUME ChangeOnMain PROVE \E k \in 1 .. i - 1 : IsChange(main'[k])
      <4>1. PICK j \in DOMAIN main : IsChange(main[j])
        BY <3>2 DEF ChangeOnMain
      <4>2. j > s
        BY <4>1, <1>0 DEF MainMoves
      <4>3. j - s \in 1 .. i - 1 /\ main'[j - s] = main[j]
        BY <4>2, <2>2, <1>0 DEF MainMoves
      <4> QED
        BY <4>1, <4>3 DEF IsChange
    <3> QED
      BY <3>1, <3>2, <2>2, <1>1, <1>2, <1>m DEF StreamMoves, SoundToken
  <2> QED
    BY <2>1, <2>2, <1>2 DEF MainMoves
<1>3. ASSUME NEW i \in DOMAIN worker', worker'[i].kind = "resume"
      PROVE  /\ BelongsToStart(worker'[i].closes, stream')
             /\ worker'[i].closes = stream'.closes =>
                  \/ worker'[i].who = user'
                  \/ \E j \in 1 .. i - 1 : IsUserTask(worker'[j])
  <2>1. CASE i + t \in DOMAIN worker /\ worker'[i] = worker[i + t]
    <3>0. PICK k \in DOMAIN worker : k = i + t /\ worker'[i] = worker[k]
      BY <2>1
    <3>1. BelongsToStart(worker[k].closes, stream)
      BY <3>0, <1>3 DEF TokensBelongToStarts
    <3>2. BelongsToStart(worker'[i].closes, stream')
      BY <3>1, <3>0, <1>3, <1>w DEF StreamMoves
    <3>3. ASSUME NEW j \in 1 .. k - 1, IsUserTask(worker[j])
          PROVE  \E h \in 1 .. i - 1 : IsUserTask(worker'[h])
      <4>1. j \in DOMAIN worker
        BY <3>0, <1>0
      <4>2. j > t
        BY <4>1, <3>3, <1>0 DEF WorkerMoves
      <4>3. j - t \in 1 .. i - 1 /\ worker'[j - t] = worker[j]
        BY <4>1, <4>2, <3>0, <1>0 DEF WorkerMoves
      <4> QED
        BY <4>3, <3>3 DEF IsUserTask
    <3>4. worker'[i].closes = stream'.closes =>
            worker[k].closes = stream.closes
      BY <3>1, <3>0, <1>3, <1>w DEF StreamMoves
    <3>5. worker[k].kind = "resume"
      BY <3>0, <1>3
    <3>6. worker'[i].closes = stream'.closes =>
            \/ worker[k].who = user
            \/ \E j \in 1 .. k - 1 : IsUserTask(worker[j])
      BY <3>4, <3>5, <1>d
    <3> QED
      BY <3>0, <3>2, <3>3, <3>6, <1>1
  <2>2. CASE /\ i + t = Len(worker) + 1
             /\ BelongsToStart(worker'[i].closes, stream)
             /\ worker'[i].closes = stream.closes =>
                  worker'[i].who = user \/ ChangeOnWorker
    <3>1. BelongsToStart(worker'[i].closes, stream')
      BY <2>2, <1>3, <1>w DEF StreamMoves
    <3>2. ASSUME ChangeOnWorker
          PROVE  \E k \in 1 .. i - 1 : IsUserTask(worker'[k])
      <4>1. PICK j \in DOMAIN worker : IsUserTask(worker[j])
        BY <3>2 DEF ChangeOnWorker
      <4>2. j > t
        BY <4>1, <1>0 DEF WorkerMoves
      <4>3. j - t \in 1 .. i - 1 /\ worker'[j - t] = worker[j]
        BY <4>2, <2>2, <1>0 DEF WorkerMoves
      <4> QED
        BY <4>1, <4>3 DEF IsUserTask
    <3> QED
      BY <3>1, <3>2, <2>2, <1>3, <1>w DEF StreamMoves
  <2> QED
    BY <2>1, <2>2, <1>3 DEF WorkerMoves
<1>4. ASSUME NEW r \in requests', r.read, r.closes = stream'.closes
      PROVE  r.who = user' \/ ChangeOnWorker' \/ ChangeOnMain'
  <2>1. CASE r \in requests
    <3>1. r.closes \in Nat /\ BelongsToStart(r.closes, stream)
      BY <2>1 DEF OwnedTypes, Token, TokensBelongToStarts
    <3>2. r.closes = stream.closes
      BY <3>1, <1>4 DEF StreamMoves
    <3> QED
      BY <3>2, <2>1, <1>1, <1>4 DEF TokensAreTheUsers
  <2>2. CASE r.who = auth
    BY <2>2, <1>1 DEF AuthIsComing
  <2> QED
    BY <2>1, <2>2, <1>4 DEF StreamMoves
<1>5. TokensBelongToStarts'
  BY <1>2, <1>3 DEF TokensBelongToStarts, StreamMoves
<1>6. TokensAreTheUsers'
  BY <1>2, <1>3, <1>4 DEF TokensAreTheUsers
<1> QED
  BY <1>5, <1>6

-----------------------------------------------------------------------------
(***************************************************************************)
(* What the stream does to the tokens.                                     *)
(***************************************************************************)
LEMMA StreamsType ==
  ASSUME OwnedTypes
  PROVE  /\ Streams \in StreamsWith(BatchOf(user))
         /\ stream \in StreamType
         /\ stream.closes \in Nat
         /\ Streams.stream = stream
         /\ Streams.requests = requests
         /\ Streams.pipeline = pipeline
         /\ Streams.answered = answered
BY DEF OwnedTypes, Streams, StreamsWith, StreamType

LEMMA StartMoves ==
  ASSUME OwnershipInvariant, NEW st, st.stream = stream, st.requests = requests,
         NEW rt, MayStart(st, rt), stream' = rt.stream, requests' = rt.requests
  PROVE  /\ StreamMoves
         /\ user' = user => StreamIsTheUsers'
<1>1. OwnedTypes /\ TokensBelongToStarts /\ StreamIsTheUsers
  BY DEF OwnershipInvariant
<1>2. stream.closes \in Nat /\ requests \subseteq Token
  BY <1>1 DEF OwnedTypes
<1>3. CASE stream'.state = stream.state /\ requests' = requests
  <2>1. stream'.closes = stream.closes /\ stream'.as = stream.as
    BY DEF MayStart
  <2>2. \A c \in Nat : BelongsToStart(c, stream) <=> BelongsToStart(c, stream')
    BY <2>1, <1>3 DEF BelongsToStart
  <2>3. \A r \in requests : r.closes \in Nat /\ BelongsToStart(r.closes, stream)
    BY <1>1, <1>2 DEF Token, TokensBelongToStarts
  <2> QED
    BY <2>1, <2>2, <2>3, <1>1, <1>3 DEF StreamMoves, StreamIsTheUsers
<1>4. CASE /\ ~IsStarted(stream)
           /\ stream'.state = "backoff"
           /\ requests' = requests
  <2>1. stream'.closes = stream.closes
    BY DEF MayStart
  <2>2. \A c \in Nat : BelongsToStart(c, stream) => BelongsToStart(c, stream')
    BY <2>1, <1>4 DEF BelongsToStart, IsStarted
  <2>a. ~IsStarted(stream) =>
          \A c \in Nat : BelongsToStart(c, stream) => c # stream.closes
    BY DEF BelongsToStart, IsStarted
  <2>3. \A r \in requests : r.closes \in Nat /\ BelongsToStart(r.closes, stream)
    BY <1>1, <1>2 DEF Token, TokensBelongToStarts
  <2> QED
    BY <2>1, <2>2, <2>3, <1>4 DEF StreamMoves, StreamIsTheUsers
<1>5. CASE /\ ~IsStarted(stream)
           /\ stream'.state = "starting"
           /\ \E r \in Token : /\ requests' = requests \cup {r}
                               /\ ~r.read
                               /\ r.closes = stream.closes
  <2>1. stream'.closes = stream.closes
    BY DEF MayStart
  <2>2. \A c \in Nat : BelongsToStart(c, stream) => BelongsToStart(c, stream')
    BY <2>1, <1>5 DEF BelongsToStart
  <2>3. \A r \in requests : r.closes \in Nat /\ BelongsToStart(r.closes, stream)
    BY <1>1, <1>2 DEF Token, TokensBelongToStarts
  <2>4. BelongsToStart(stream.closes, stream')
    BY <2>1, <1>2, <1>5 DEF BelongsToStart
  <2> QED
    BY <2>1, <2>2, <2>3, <2>4, <1>5 DEF StreamMoves, StreamIsTheUsers
<1> QED
  BY <1>3, <1>4, <1>5 DEF MayStart

(***************************************************************************)
(* A stream that is closed, or was not started, has no tokens on their way.*)
(***************************************************************************)
LEMMA CloseMoves ==
  ASSUME OwnershipInvariant, NEW cl, NEW rt,
         \/ cl.stream.closes = stream.closes + 1
         \/ /\ stream.state \notin {"starting", "connecting", "open"}
            /\ cl.stream.closes = stream.closes,
         cl.stream.state \in {"initial", "error"},
         cl.requests = requests,
         MayStart(cl, rt), stream' = rt.stream, requests' = rt.requests
  PROVE  /\ StreamMoves
         /\ StreamIsTheUsers'
         /\ \A c \in Nat : BelongsToStart(c, stream) => c # stream'.closes
         /\ \A r \in requests' : r.closes = stream'.closes => ~r.read
<1>1. OwnedTypes /\ TokensBelongToStarts
  BY DEF OwnershipInvariant
<1>2. stream.closes \in Nat /\ requests \subseteq Token
  BY <1>1 DEF OwnedTypes
<1>3. stream'.closes = cl.stream.closes
  BY DEF MayStart
<1>4. \A c \in Nat : BelongsToStart(c, stream) =>
        c # stream'.closes /\ BelongsToStart(c, stream')
  <2>1. CASE stream'.closes = stream.closes + 1
    BY <2>1, <1>2 DEF BelongsToStart
  <2>2. CASE /\ stream.state \notin {"starting", "connecting", "open"}
             /\ stream'.closes = stream.closes
    BY <2>2, <1>2 DEF BelongsToStart
  <2> QED
    BY <2>1, <2>2, <1>3
<1>5. \A r \in requests : r.closes \in Nat /\ BelongsToStart(r.closes, stream)
  BY <1>1, <1>2 DEF Token, TokensBelongToStarts
<1>6. ~IsStarted(cl.stream)
  BY DEF IsStarted
<1>7. CASE requests' = requests /\ stream'.state \in {"initial", "error", "backoff"}
  BY <1>7, <1>4, <1>5 DEF StreamMoves, StreamIsTheUsers
<1>8. CASE /\ stream'.state = "starting"
           /\ \E r \in Token : /\ requests' = requests \cup {r}
                               /\ ~r.read
                               /\ r.closes = stream'.closes
  <2>1. PICK r \in Token : /\ requests' = requests \cup {r}
                           /\ ~r.read
                           /\ r.closes = stream'.closes
    BY <1>8
  <2>2. BelongsToStart(r.closes, stream')
    BY <2>1, <1>8 DEF BelongsToStart, Token
  <2> QED
    BY <2>1, <2>2, <1>4, <1>5, <1>8 DEF StreamMoves, StreamIsTheUsers
<1> QED
  BY <1>3, <1>6, <1>7, <1>8 DEF MayStart

-----------------------------------------------------------------------------
(***************************************************************************)
(* What steps do to the two queues.                                        *)
(***************************************************************************)
LEMMA MainStays ==
  ASSUME OwnedTypes, main' = main
  PROVE  MainMoves(0)
<1>1. main \in Seq(Block)
  BY DEF OwnedTypes
<1>2. DOMAIN main = 1 .. Len(main) /\ Len(main) \in Nat
  BY <1>1
<1> QED
  BY <1>2 DEF MainMoves

LEMMA MainServed ==
  ASSUME OwnedTypes, main # <<>>, main' = Tail(main), ~IsChange(Head(main))
  PROVE  MainMoves(1)
<1>1. main \in Seq(Block)
  BY DEF OwnedTypes
<1>2. /\ Len(main) \in Nat \ {0}
      /\ DOMAIN main = 1 .. Len(main)
      /\ DOMAIN main' = 1 .. Len(main) - 1
      /\ Head(main) = main[1]
      /\ \A i \in 1 .. Len(main) - 1 : main'[i] = main[i + 1]
  BY <1>1, Removing
<1>3. \A i \in DOMAIN main :
        i > 1 => i - 1 \in DOMAIN main' /\ main'[i - 1] = main[i]
  BY <1>2
<1>4. \A i \in DOMAIN main : i <= 1 => ~IsChange(main[i])
  <2>1. ~IsChange(main[1])
    BY <1>2
  <2>2. \A i \in DOMAIN main : i <= 1 => i = 1
    BY <1>2
  <2> QED
    BY <2>1, <2>2
<1>5. \A i \in DOMAIN main' : i + 1 \in DOMAIN main /\ main'[i] = main[i + 1]
  BY <1>2
<1> QED
  BY <1>3, <1>4, <1>5 DEF MainMoves

LEMMA MainGrows ==
  ASSUME OwnedTypes, NEW b \in Block, main' = Append(main, b), ~IsChange(b),
         b.kind = "token" => SoundToken(b.request)
  PROVE  MainMoves(0)
<1>1. main \in Seq(Block)
  BY DEF OwnedTypes
<1>2. /\ Len(main) \in Nat
      /\ DOMAIN main = 1 .. Len(main)
      /\ DOMAIN main' = 1 .. Len(main) + 1
      /\ main'[Len(main) + 1] = b
      /\ \A i \in 1 .. Len(main) : main'[i] = main[i]
  BY <1>1, Appending
<1>3. \A i \in DOMAIN main : i - 0 \in DOMAIN main' /\ main'[i - 0] = main[i]
  BY <1>2
<1>4. \A i \in DOMAIN main : ~(i <= 0)
  BY <1>2
<1>5. \A i \in DOMAIN main' :
        \/ i + 0 \in DOMAIN main /\ main'[i] = main[i + 0]
        \/ i + 0 = Len(main) + 1 /\ main'[i] = b
  BY <1>2
<1> QED
  BY <1>3, <1>4, <1>5 DEF MainMoves

LEMMA WorkerStays ==
  ASSUME OwnedTypes, worker' = worker
  PROVE  WorkerMoves(0)
<1>1. worker \in Seq(Task)
  BY DEF OwnedTypes
<1>2. DOMAIN worker = 1 .. Len(worker) /\ Len(worker) \in Nat
  BY <1>1
<1> QED
  BY <1>2 DEF WorkerMoves

LEMMA WorkerServed ==
  ASSUME OwnedTypes, worker # <<>>, worker' = Tail(worker),
         ~IsUserTask(Head(worker))
  PROVE  WorkerMoves(1)
<1>1. worker \in Seq(Task)
  BY DEF OwnedTypes
<1>2. /\ Len(worker) \in Nat \ {0}
      /\ DOMAIN worker = 1 .. Len(worker)
      /\ DOMAIN worker' = 1 .. Len(worker) - 1
      /\ Head(worker) = worker[1]
      /\ \A i \in 1 .. Len(worker) - 1 : worker'[i] = worker[i + 1]
  BY <1>1, Removing
<1>3. \A i \in DOMAIN worker :
        i > 1 => i - 1 \in DOMAIN worker' /\ worker'[i - 1] = worker[i]
  BY <1>2
<1>4. \A i \in DOMAIN worker : i <= 1 => ~IsUserTask(worker[i])
  <2>1. ~IsUserTask(worker[1])
    BY <1>2
  <2>2. \A i \in DOMAIN worker : i <= 1 => i = 1
    BY <1>2
  <2> QED
    BY <2>1, <2>2
<1>5. \A i \in DOMAIN worker' :
        i + 1 \in DOMAIN worker /\ worker'[i] = worker[i + 1]
  BY <1>2
<1> QED
  BY <1>3, <1>4, <1>5 DEF WorkerMoves

LEMMA WorkerGrows ==
  ASSUME OwnedTypes, NEW task \in Task, worker' = Append(worker, task),
         ~IsUserTask(task),
         task.kind = "resume" =>
           /\ BelongsToStart(task.closes, stream)
           /\ task.closes = stream.closes => task.who = user \/ ChangeOnWorker
  PROVE  WorkerMoves(0)
<1>1. worker \in Seq(Task)
  BY DEF OwnedTypes
<1>2. /\ Len(worker) \in Nat
      /\ DOMAIN worker = 1 .. Len(worker)
      /\ DOMAIN worker' = 1 .. Len(worker) + 1
      /\ worker'[Len(worker) + 1] = task
      /\ \A i \in 1 .. Len(worker) : worker'[i] = worker[i]
  BY <1>1, Appending
<1>3. \A i \in DOMAIN worker :
        i - 0 \in DOMAIN worker' /\ worker'[i - 0] = worker[i]
  BY <1>2
<1>4. \A i \in DOMAIN worker : ~(i <= 0)
  BY <1>2
<1>5. \A i \in DOMAIN worker' :
        \/ i + 0 \in DOMAIN worker /\ worker'[i] = worker[i + 0]
        \/ i + 0 = Len(worker) + 1 /\ worker'[i] = task
  BY <1>2
<1> QED
  BY <1>3, <1>4, <1>5 DEF WorkerMoves

(***************************************************************************)
(* All that is left to show of a step that leaves auth and user alone.     *)
(***************************************************************************)
LEMMA Moves ==
  ASSUME OwnershipInvariant, OwnedTypes', NEW s, NEW t,
         MainMoves(s), WorkerMoves(t), StreamMoves, StreamIsTheUsers',
         auth' = auth, user' = user, CommittedAsOwner'
  PROVE  OwnershipInvariant'
<1>1. AuthIsComing'
  BY MovesKeepAuth DEF OwnershipInvariant
<1>2. TokensBelongToStarts' /\ TokensAreTheUsers'
  BY MovesKeepTokens
<1> QED
  BY <1>1, <1>2 DEF OwnershipInvariant

LEMMA SameStream ==
  ASSUME OwnershipInvariant, stream' = stream, requests' = requests, user' = user
  PROVE  StreamMoves /\ StreamIsTheUsers'
BY DEF OwnershipInvariant, StreamMoves, StreamIsTheUsers, TokensBelongToStarts

LEMMA Quiet ==
  ASSUME OwnershipInvariant, OwnedTypes', main' = main, worker' = worker,
         stream' = stream, requests' = requests, auth' = auth, user' = user,
         log' = log
  PROVE  OwnershipInvariant'
<1>1. OwnedTypes /\ CommittedAsOwner
  BY DEF OwnershipInvariant
<1>2. CommittedAsOwner'
  BY <1>1 DEF CommittedAsOwner
<1>3. MainMoves(0) /\ WorkerMoves(0)
  BY <1>1, MainStays, WorkerStays
<1> QED
  BY <1>2, <1>3, SameStream, Moves

LEMMA MadeGrows ==
  ASSUME OwnedTypes
  PROVE  /\ made.writes + 1 \in Nat /\ made.messages + 1 \in Nat
         /\ [made EXCEPT !.signIns = @ + 1] \in
              [writes : Nat, messages : Nat, signIns : Nat]
         /\ [made EXCEPT !.writes = @ + 1] \in
              [writes : Nat, messages : Nat, signIns : Nat]
         /\ [made EXCEPT !.writes = @ + 1, !.messages = @ + 1] \in
              [writes : Nat, messages : Nat, signIns : Nat]
<1>1. made \in [writes : Nat, messages : Nat, signIns : Nat]
  BY DEF OwnedTypes
<1>2. /\ made.writes + 1 \in Nat /\ made.messages + 1 \in Nat
      /\ made.signIns + 1 \in Nat
  BY <1>1
<1> DEFINE w == made.writes + 1
           m == made.messages + 1
           t == made.signIns + 1
<1>3. w \in Nat /\ m \in Nat /\ t \in Nat
  BY <1>2
<1> HIDE DEF w, m, t
<1>4. [made EXCEPT !.signIns = t] \in [writes : Nat, messages : Nat, signIns : Nat]
  BY <1>1, <1>3
<1>5. [made EXCEPT !.writes = w] \in [writes : Nat, messages : Nat, signIns : Nat]
  BY <1>1, <1>3
<1>6. [made EXCEPT !.writes = w, !.messages = m] \in
        [writes : Nat, messages : Nat, signIns : Nat]
  BY <1>1, <1>3
<1> QED
  BY <1>2, <1>4, <1>5, <1>6 DEF w, m, t

-----------------------------------------------------------------------------
(***************************************************************************)
(* The user.                                                               *)
(***************************************************************************)
LEMMA TypeKeeps ==
  ASSUME OwnershipInvariant, NEW u \in Account, Type(u)
  PROVE  OwnershipInvariant'
<1>0. OwnedTypes
  BY DEF OwnershipInvariant
<1>1. OwnedTypes'
  BY <1>0 DEF OwnedTypes, Type, authVars, clientVars, Owner
<1> QED
  BY <1>1, Quiet DEF Type, authVars, clientVars

LEMMA PressButtonKeeps ==
  ASSUME OwnershipInvariant, NEW how \in {"createUser", "signIn"},
         PressButton(how)
  PROVE  OwnershipInvariant'
<1>0. OwnedTypes
  BY DEF OwnershipInvariant
<1>1. OwnedTypes'
  <2> DEFINE a == [how |-> how, email |-> field, made |-> FALSE]
  <2>1. a \in Attempt
    BY <1>0 DEF OwnedTypes, Attempt
  <2>2. attempts' = attempts \cup {a}
    BY DEF PressButton
  <2> HIDE DEF a
  <2>3. attempts' \subseteq Attempt
    BY <1>0, <2>1, <2>2 DEF OwnedTypes
  <2>4. made' \in [writes : Nat, messages : Nat, signIns : Nat]
    BY <1>0, MadeGrows DEF PressButton
  <2> QED
    BY <1>0, <2>3, <2>4 DEF OwnedTypes, PressButton, authVars, clientVars
<1> QED
  BY <1>1, Quiet DEF PressButton, authVars, clientVars

LEMMA SendMessageKeeps ==
  ASSUME OwnershipInvariant, SendMessage
  PROVE  OwnershipInvariant'
<1>0. OwnedTypes /\ CommittedAsOwner
  BY DEF OwnershipInvariant
<1> DEFINE task == [kind |-> "write",
                    write |-> [n |-> made.writes + 1, by |-> auth,
                               kind |-> "message",
                               key |-> <<"messages", made.messages + 1>>]]
<1>1. task \in Task /\ task.kind = "write"
  <2>1. made.writes + 1 \in Nat /\ made.messages + 1 \in Nat /\ auth \in Owner
    BY <1>0, MadeGrows DEF OwnedTypes
  <2>2. <<"messages", made.messages + 1>> \in DocumentKey
    BY <2>1 DEF DocumentKey
  <2>3. task.write \in WriteRecord
    BY <2>1, <2>2 DEF WriteRecord
  <2> QED
    BY <2>3 DEF Task
<1> HIDE DEF task
<1>2. worker' = Append(worker, task)
  BY DEF SendMessage, Enqueue, task
<1>3. /\ main' = main /\ stream' = stream
      /\ requests' = requests /\ auth' = auth /\ user' = user /\ log' = log
  BY DEF SendMessage, authVars, clientVars
<1>4. OwnedTypes'
  <2>1. worker' \in Seq(Task)
    BY <1>0, <1>1, <1>2, Appending DEF OwnedTypes
  <2>2. made' \in [writes : Nat, messages : Nat, signIns : Nat]
    BY <1>0, MadeGrows DEF SendMessage
  <2> QED
    BY <1>0, <2>1, <2>2 DEF OwnedTypes, SendMessage, authVars, appVars, clientVars
<1>5. CommittedAsOwner'
  BY <1>0, <1>3 DEF CommittedAsOwner
<1>6. MainMoves(0) /\ WorkerMoves(0)
  BY <1>0, <1>1, <1>2, <1>3, MainStays, WorkerGrows DEF IsUserTask
<1> QED
  BY <1>3, <1>4, <1>5, <1>6, SameStream, Moves

-----------------------------------------------------------------------------
(***************************************************************************)
(* A change of user is told to the main queue; the completion handler that *)
(* may follow it is neither a change nor a token.                          *)
(***************************************************************************)
LEMMA UpdateCurrentUserKeeps ==
  ASSUME OwnershipInvariant, NEW u \in Owner, NEW completion,
         completion = <<>> \/ \E a \in Attempt :
           completion = <<[kind |-> "signedIn", attempt |-> a]>>,
         UpdateCurrentUser(u, completion), worker' = worker, user' = user,
         stream' = stream, requests' = requests, log' = log
  PROVE  /\ main' \in Seq(Block)
         /\ AuthIsComing' /\ TokensBelongToStarts' /\ TokensAreTheUsers'
         /\ \A i \in DOMAIN main' :
              main'[i].kind = "token" => i \in DOMAIN main /\ main'[i] = main[i]
<1>0. OwnedTypes /\ AuthIsComing /\ TokensBelongToStarts /\ TokensAreTheUsers
  BY DEF OwnershipInvariant
<1>a. main \in Seq(Block) /\ auth' = u
  BY <1>0 DEF OwnedTypes, UpdateCurrentUser
<1>b. Changed(u) \in Block /\ IsChange(Changed(u)) /\ Changed(u).user = u
  BY DEF Changed, Block, IsChange
<1> DEFINE told == Append(main, Changed(u))
<1>1. /\ told \in Seq(Block)
      /\ Len(main) \in Nat
      /\ DOMAIN main = 1 .. Len(main)
      /\ DOMAIN told = 1 .. Len(main) + 1
      /\ told[Len(main) + 1] = Changed(u)
      /\ \A i \in 1 .. Len(main) : told[i] = main[i]
  BY <1>a, <1>b, Appending
<1>2. main' = told \o completion
  BY <1>a DEF UpdateCurrentUser
<1>3. /\ main' \in Seq(Block)
      /\ DOMAIN main' = 1 .. Len(main')
      /\ Len(main') \in Nat
      /\ Len(main) + 1 \in DOMAIN main'
      /\ \A i \in DOMAIN main' :
           \/ i <= Len(main) /\ main'[i] = main[i]
           \/ i = Len(main) + 1 /\ main'[i] = Changed(u)
           \/ i > Len(main) + 1 /\ main'[i].kind = "signedIn"
      /\ \A i \in DOMAIN main : i \in DOMAIN main' /\ main'[i] = main[i]
  <2>1. CASE completion = <<>>
    <3>1. main' = told
      BY <2>1, <1>1, <1>2
    <3>2. Len(told) = Len(main) + 1
      BY <1>1
    <3> HIDE DEF told
    <3> QED
      BY <3>1, <3>2, <1>1
  <2>2. CASE \E a \in Attempt : completion = <<[kind |-> "signedIn", attempt |-> a]>>
    <3>1. PICK a \in Attempt : completion = <<[kind |-> "signedIn", attempt |-> a]>>
      BY <2>2
    <3> DEFINE block == [kind |-> "signedIn", attempt |-> a]
    <3>2. block \in Block /\ block.kind = "signedIn"
      BY DEF Block
    <3>3. main' = told \o <<block>>
      BY <1>2, <3>1
    <3> HIDE DEF block
    <3>4. main' = Append(told, block)
      BY <3>2, <3>3, <1>1
    <3>5. Len(told) = Len(main) + 1
      BY <1>1
    <3> HIDE DEF told
    <3>6. /\ main' \in Seq(Block)
          /\ DOMAIN main' = 1 .. Len(main) + 2
          /\ main'[Len(main) + 2] = block
          /\ \A i \in 1 .. Len(main) + 1 : main'[i] = told[i]
      BY <1>1, <3>2, <3>4, <3>5, Appending
    <3> QED
      BY <1>1, <3>2, <3>6
  <2> QED
    BY <2>1, <2>2
<1> HIDE DEF told
<1>4. \A i \in DOMAIN main' :
        /\ IsChange(main'[i]) => i <= Len(main) + 1
        /\ main'[i].kind = "token" => i \in DOMAIN main /\ main'[i] = main[i]
  BY <1>1, <1>3, <1>b DEF IsChange
<1>5. ChangeOnMain'
  BY <1>3, <1>b DEF ChangeOnMain, IsChange
<1>6. AuthIsComing'
  <2>1. ASSUME NEW i \in DOMAIN main', IsChange(main'[i]),
               \A j \in DOMAIN main' : j > i => ~IsChange(main'[j])
        PROVE  main'[i].user = auth'
    <3>1. i = Len(main) + 1
      <4>1. ~(i < Len(main) + 1)
        BY <2>1, <1>1, <1>3, <1>b
      <4> QED
        BY <4>1, <2>1, <1>1, <1>3, <1>4
    <3> QED
      BY <3>1, <1>1, <1>3, <1>a, <1>b
  <2> QED
    BY <2>1, <1>5 DEF AuthIsComing, IsChange
<1>7. ChangeOnWorker' = ChangeOnWorker
  BY DEF ChangeOnWorker
<1>8. TokensBelongToStarts'
  BY <1>0, <1>4 DEF TokensBelongToStarts
<1>9. TokensAreTheUsers'
  <2>1. ASSUME NEW i \in DOMAIN main', main'[i].kind = "token",
               main'[i].request.closes = stream'.closes
        PROVE  \/ main'[i].request.who = user'
               \/ ChangeOnWorker'
               \/ \E j \in 1 .. i - 1 : IsChange(main'[j])
    <3>1. i \in DOMAIN main /\ main'[i] = main[i]
      BY <2>1, <1>4
    <3>2. \/ main[i].request.who = user
          \/ ChangeOnWorker
          \/ \E j \in 1 .. i - 1 : IsChange(main[j])
      BY <3>1, <2>1, <1>0 DEF TokensAreTheUsers
    <3>3. \A j \in 1 .. i - 1 : main'[j] = main[j]
      BY <3>1, <1>1, <1>3
    <3> QED
      BY <3>1, <3>2, <3>3, <1>7
  <2> QED
    BY <2>1, <1>0, <1>5 DEF TokensAreTheUsers
<1> QED
  BY <1>3, <1>4, <1>6, <1>8, <1>9

LEMMA SignUserOutKeeps ==
  ASSUME OwnershipInvariant, SignUserOut
  PROVE  OwnershipInvariant'
<1>0. OwnedTypes /\ StreamIsTheUsers /\ CommittedAsOwner
  BY DEF OwnershipInvariant
<1>1. /\ worker' = worker /\ user' = user /\ stream' = stream
      /\ requests' = requests /\ log' = log
  BY DEF SignUserOut, clientVars
<1>2. CASE UpdateCurrentUser(NoUser, <<>>)
  <2>1. /\ main' \in Seq(Block)
        /\ AuthIsComing' /\ TokensBelongToStarts' /\ TokensAreTheUsers'
    BY <1>1, <1>2, UpdateCurrentUserKeeps DEF Owner
  <2>2. auth' \in Owner
    BY <1>2 DEF UpdateCurrentUser, Owner
  <2>3. OwnedTypes'
    BY <1>0, <2>1, <2>2 DEF OwnedTypes, SignUserOut, clientVars
  <2>4. StreamIsTheUsers' /\ CommittedAsOwner'
    BY <1>0, <1>1 DEF StreamIsTheUsers, CommittedAsOwner
  <2> QED
    BY <2>1, <2>3, <2>4 DEF OwnershipInvariant
<1>3. CASE auth' = auth /\ main' = main
  <2>1. OwnedTypes'
    BY <1>0, <1>3 DEF OwnedTypes, SignUserOut, clientVars
  <2> QED
    BY <2>1, <1>1, <1>3, Quiet
<1> QED
  BY <1>2, <1>3 DEF SignUserOut

-----------------------------------------------------------------------------
(***************************************************************************)
(* The queue of FIRAuth.                                                   *)
(***************************************************************************)
LEMMA CreateAccountKeeps ==
  ASSUME OwnershipInvariant, NEW a \in attempts, CreateAccount(a)
  PROVE  OwnershipInvariant'
<1>0. OwnedTypes
  BY DEF OwnershipInvariant
<1>1. attempts' \subseteq Attempt
  <2>1. a \in Attempt /\ attempts \subseteq Attempt
    BY <1>0 DEF OwnedTypes
  <2>2. [a EXCEPT !.made = TRUE] \in Attempt
    BY <2>1 DEF Attempt
  <2>3. \/ attempts' = attempts \ {a}
        \/ attempts' = (attempts \ {a}) \cup {[a EXCEPT !.made = TRUE]}
    BY DEF CreateAccount
  <2> QED
    BY <2>1, <2>2, <2>3
<1>2. OwnedTypes'
  BY <1>0, <1>1 DEF OwnedTypes, CreateAccount, clientVars
<1> QED
  BY <1>2, Quiet DEF CreateAccount, clientVars

LEMMA CompleteSignInKeeps ==
  ASSUME OwnershipInvariant, NEW a \in attempts, CompleteSignIn(a)
  PROVE  OwnershipInvariant'
<1>0. OwnedTypes /\ StreamIsTheUsers /\ CommittedAsOwner
  BY DEF OwnershipInvariant
<1>1. /\ worker' = worker /\ user' = user /\ stream' = stream
      /\ requests' = requests /\ log' = log
  BY DEF CompleteSignIn, clientVars
<1>a. a \in Attempt /\ a.email \in Owner /\ attempts' \subseteq Attempt
  <2>1. a \in Attempt /\ attempts \subseteq Attempt
    BY <1>0 DEF OwnedTypes
  <2>2. attempts' = attempts \ {a}
    BY DEF CompleteSignIn
  <2> QED
    BY <2>1, <2>2 DEF Attempt
<1>2. CASE UpdateCurrentUser(a.email, <<[kind |-> "signedIn", attempt |-> a]>>)
  <2>1. /\ main' \in Seq(Block)
        /\ AuthIsComing' /\ TokensBelongToStarts' /\ TokensAreTheUsers'
    BY <1>1, <1>2, <1>a, UpdateCurrentUserKeeps
  <2>2. auth' \in Owner
    BY <1>2, <1>a DEF UpdateCurrentUser
  <2>3. OwnedTypes'
    BY <1>0, <1>a, <2>1, <2>2 DEF OwnedTypes, CompleteSignIn, clientVars
  <2>4. StreamIsTheUsers' /\ CommittedAsOwner'
    BY <1>0, <1>1 DEF StreamIsTheUsers, CommittedAsOwner
  <2> QED
    BY <2>1, <2>3, <2>4 DEF OwnershipInvariant
<1>3. CASE auth' = auth /\ main' = main
  <2>1. OwnedTypes'
    BY <1>0, <1>a, <1>3 DEF OwnedTypes, CompleteSignIn, clientVars
  <2> QED
    BY <2>1, <1>1, <1>3, Quiet
<1> QED
  BY <1>2, <1>3 DEF CompleteSignIn

LEMMA ReadTokenKeeps ==
  ASSUME OwnershipInvariant, NEW r \in requests, ReadToken(r)
  PROVE  OwnershipInvariant'
<1>0. OwnedTypes /\ TokensBelongToStarts /\ StreamIsTheUsers /\ CommittedAsOwner
  BY DEF OwnershipInvariant
<1> DEFINE read == [r EXCEPT !.who = auth, !.read = TRUE]
<1>1. r \in Token /\ requests \subseteq Token /\ auth \in Owner
  BY <1>0 DEF OwnedTypes
<1>2. read \in Token /\ read.closes = r.closes /\ read.who = auth
  BY <1>1 DEF Token
<1>3. requests' = (requests \ {r}) \cup {read}
  BY DEF ReadToken
<1> HIDE DEF read
<1>4. /\ main' = main /\ worker' = worker /\ stream' = stream
      /\ auth' = auth /\ user' = user /\ log' = log
  BY DEF ReadToken, authVars, clientVars
<1>5. OwnedTypes'
  <2>1. requests' \subseteq Token
    BY <1>1, <1>2, <1>3
  <2> QED
    BY <1>0, <2>1 DEF OwnedTypes, ReadToken, authVars, appVars, clientVars
<1>6. StreamMoves
  BY <1>0, <1>2, <1>3, <1>4 DEF StreamMoves, TokensBelongToStarts
<1>7. StreamIsTheUsers' /\ CommittedAsOwner'
  BY <1>0, <1>4 DEF StreamIsTheUsers, CommittedAsOwner
<1>8. MainMoves(0) /\ WorkerMoves(0)
  BY <1>0, <1>4, MainStays, WorkerStays
<1> QED
  BY <1>4, <1>5, <1>6, <1>7, <1>8, Moves

LEMMA DispatchTokenKeeps ==
  ASSUME OwnershipInvariant, NEW r \in requests, DispatchToken(r)
  PROVE  OwnershipInvariant'
<1>0. /\ OwnedTypes /\ TokensBelongToStarts /\ TokensAreTheUsers
      /\ StreamIsTheUsers /\ CommittedAsOwner
  BY DEF OwnershipInvariant
<1> DEFINE block == [kind |-> "token", request |-> r]
<1>1. r \in Token /\ r.read
  BY <1>0 DEF OwnedTypes, DispatchToken
<1>2. block \in Block /\ ~IsChange(block) /\ block.request = r
  BY <1>1 DEF Block, IsChange
<1>3. main' = Append(main, block)
  BY DEF DispatchToken
<1> HIDE DEF block
<1>4. /\ worker' = worker /\ stream' = stream /\ requests' \subseteq requests
      /\ auth' = auth /\ user' = user /\ log' = log
  BY DEF DispatchToken, authVars, clientVars
<1>5. OwnedTypes'
  <2>1. main' \in Seq(Block)
    BY <1>0, <1>2, <1>3, Appending DEF OwnedTypes
  <2>2. requests' \subseteq Token
    BY <1>0, <1>4 DEF OwnedTypes
  <2> QED
    BY <1>0, <2>1, <2>2 DEF OwnedTypes, DispatchToken, authVars, appVars, clientVars
<1>6. SoundToken(r)
  BY <1>0, <1>1 DEF SoundToken, TokensBelongToStarts, TokensAreTheUsers
<1>7. MainMoves(0) /\ WorkerMoves(0)
  BY <1>0, <1>2, <1>3, <1>4, <1>6, MainGrows, WorkerStays
<1>8. StreamMoves
  BY <1>0, <1>4 DEF StreamMoves, TokensBelongToStarts
<1>9. StreamIsTheUsers' /\ CommittedAsOwner'
  BY <1>0, <1>4 DEF StreamIsTheUsers, CommittedAsOwner
<1> QED
  BY <1>4, <1>5, <1>7, <1>8, <1>9, Moves

-----------------------------------------------------------------------------
(***************************************************************************)
(* The main queue.                                                         *)
(***************************************************************************)
LEMMA WriteEnqueues ==
  ASSUME OwnedTypes, NEW kind \in {"profile", "message", "active"},
         NEW key \in DocumentKey, NEW by \in Owner, Write(kind, key, by)
  PROVE  /\ worker' \in Seq(Task)
         /\ WorkerMoves(0)
         /\ made' \in [writes : Nat, messages : Nat, signIns : Nat]
<1> DEFINE task == [kind |-> "write",
                    write |-> [n |-> made.writes + 1, by |-> by, kind |-> kind,
                               key |-> key]]
<1>1. task \in Task /\ task.kind = "write"
  <2>1. task.write \in WriteRecord
    BY MadeGrows DEF WriteRecord
  <2> QED
    BY <2>1 DEF Task
<1> HIDE DEF task
<1>2. worker' = Append(worker, task)
  BY DEF Write, Enqueue, task
<1>3. worker' \in Seq(Task)
  BY <1>1, <1>2, Appending DEF OwnedTypes
<1>4. WorkerMoves(0)
  BY <1>1, <1>2, WorkerGrows DEF IsUserTask
<1>5. made' \in [writes : Nat, messages : Nat, signIns : Nat]
  BY MadeGrows DEF Write
<1> QED
  BY <1>3, <1>4, <1>5

LEMMA MainHead ==
  ASSUME OwnedTypes, RunMain
  PROVE  /\ Head(main) \in Block
         /\ main \in Seq(Block) /\ main # <<>> /\ main' = Tail(main)
         /\ main' \in Seq(Block)
         /\ 1 \in DOMAIN main /\ Head(main) = main[1]
         /\ auth' = auth /\ user' = user /\ stream' = stream /\ log' = log
<1>1. main \in Seq(Block) /\ main # <<>> /\ main' = Tail(main)
  BY DEF OwnedTypes, RunMain
<1> QED
  BY <1>1, Removing DEF RunMain, authVars, clientVars

LEMMA BlocksKeep ==
  ASSUME OwnershipInvariant, RunMain, Head(main).kind \in {"signedIn", "handler"}
  PROVE  OwnershipInvariant'
<1>0. OwnedTypes /\ StreamIsTheUsers /\ CommittedAsOwner
  BY DEF OwnershipInvariant
<1>1. /\ Head(main) \in Block
      /\ main \in Seq(Block) /\ main # <<>> /\ main' = Tail(main)
      /\ main' \in Seq(Block)
      /\ auth' = auth /\ user' = user /\ stream' = stream /\ log' = log
  BY <1>0, MainHead
<1>2. MainMoves(1)
  BY <1>0, <1>1, MainServed DEF IsChange
<1>3. /\ requests' = requests /\ provider' = provider
      /\ worker' \in Seq(Task)
      /\ WorkerMoves(0)
      /\ made' \in [writes : Nat, messages : Nat, signIns : Nat]
  <2>1. CASE Head(main).kind = "signedIn"
    <3> DEFINE a == Head(main).attempt
    <3>1. SignedIn(a)
      BY <2>1 DEF RunMain
    <3>2. a \in Attempt /\ a.email \in Owner
      BY <2>1, <1>1 DEF Block, Attempt
    <3> HIDE DEF a
    <3>3. <<"users", field>> \in DocumentKey
      BY <1>0 DEF OwnedTypes, DocumentKey
    <3>4. CASE Write("profile", <<"users", field>>, a.email)
      BY <1>0, <3>1, <3>2, <3>3, <3>4, WriteEnqueues DEF SignedIn
    <3>5. CASE worker' = worker /\ made' = made
      BY <1>0, <3>1, <3>5, WorkerStays DEF SignedIn, OwnedTypes
    <3> QED
      BY <3>1, <3>4, <3>5 DEF SignedIn
  <2>2. CASE Head(main).kind = "handler"
    <3> DEFINE b == Head(main).batch
    <3>1. RunHandler(b)
      BY <2>2 DEF RunMain
    <3>2. b \in Batch /\ b.by \in Owner
      BY <2>2, <1>1 DEF Block, Batch
    <3> HIDE DEF b
    <3>3. <<"chats">> \in DocumentKey
      BY DEF DocumentKey
    <3>4. CASE Write("active", <<"chats">>, b.by)
      BY <1>0, <3>1, <3>2, <3>3, <3>4, WriteEnqueues DEF RunHandler
    <3>5. CASE worker' = worker /\ made' = made
      BY <1>0, <3>1, <3>5, WorkerStays DEF RunHandler, OwnedTypes
    <3> QED
      BY <3>1, <3>4, <3>5 DEF RunHandler
  <2> QED
    BY <2>1, <2>2
<1>4. OwnedTypes'
  BY <1>0, <1>1, <1>3 DEF OwnedTypes, RunMain, clientVars
<1>5. CommittedAsOwner'
  BY <1>0, <1>1 DEF CommittedAsOwner
<1> QED
  BY <1>1, <1>2, <1>3, <1>4, <1>5, SameStream, Moves

LEMMA HearTokenKeeps ==
  ASSUME OwnershipInvariant, RunMain, Head(main).kind = "token"
  PROVE  OwnershipInvariant'
<1>0. /\ OwnedTypes /\ TokensBelongToStarts /\ TokensAreTheUsers
      /\ StreamIsTheUsers /\ CommittedAsOwner
  BY DEF OwnershipInvariant
<1>1. /\ Head(main) \in Block
      /\ main \in Seq(Block) /\ main # <<>> /\ main' = Tail(main)
      /\ main' \in Seq(Block)
      /\ 1 \in DOMAIN main /\ Head(main) = main[1]
      /\ auth' = auth /\ user' = user /\ stream' = stream /\ log' = log
  BY <1>0, MainHead
<1>2. MainMoves(1)
  BY <1>0, <1>1, MainServed DEF IsChange
<1> DEFINE r == main[1].request
<1>3. HearToken(r)
  BY <1>1 DEF RunMain
<1>4. /\ r \in Token
      /\ BelongsToStart(r.closes, stream)
      /\ r.closes = stream.closes => r.who = user \/ ChangeOnWorker
  <2>1. r \in Token
    BY <1>1 DEF Block
  <2>2. BelongsToStart(r.closes, stream)
    BY <1>0, <1>1 DEF TokensBelongToStarts
  <2>3. r.closes = stream.closes => r.who = user \/ ChangeOnWorker
    BY <1>0, <1>1 DEF TokensAreTheUsers
  <2> QED
    BY <2>1, <2>2, <2>3
<1> HIDE DEF r
<1>5. r.closes \in Nat /\ r.who \in Owner
  BY <1>4 DEF Token
<1>6. CommittedAsOwner' /\ StreamIsTheUsers'
  BY <1>0, <1>1 DEF CommittedAsOwner, StreamIsTheUsers
<1>7. CASE requests' = requests \cup {Request(r.closes)} /\ worker' = worker
  <2> DEFINE q == Request(r.closes)
  <2>1. q \in Token /\ ~q.read /\ q.closes = r.closes
    BY <1>0, <1>5, RequestType
  <2>2. requests' = requests \cup {q}
    BY <1>7
  <2> HIDE DEF q
  <2>3. OwnedTypes'
    <3>1. requests' \subseteq Token
      BY <1>0, <2>1, <2>2 DEF OwnedTypes
    <3> QED
      BY <1>0, <1>1, <1>3, <1>7, <3>1 DEF OwnedTypes, RunMain, HearToken, clientVars
  <2>4. StreamMoves
    BY <1>0, <1>1, <1>4, <2>1, <2>2 DEF StreamMoves, TokensBelongToStarts
  <2>5. WorkerMoves(0)
    BY <1>0, <1>7, WorkerStays
  <2> QED
    BY <1>1, <1>2, <1>6, <2>3, <2>4, <2>5, Moves
<1>8. CASE /\ Enqueue([kind |-> "resume", who |-> r.who, closes |-> r.closes])
           /\ requests' = requests
  <2> DEFINE task == [kind |-> "resume", who |-> r.who, closes |-> r.closes]
  <2>1. /\ task \in Task /\ task.kind = "resume"
        /\ task.who = r.who /\ task.closes = r.closes
    BY <1>5 DEF Task
  <2>2. worker' = Append(worker, task)
    BY <1>8 DEF Enqueue
  <2> HIDE DEF task
  <2>3. OwnedTypes'
    <3>1. worker' \in Seq(Task)
      BY <1>0, <2>1, <2>2, Appending DEF OwnedTypes
    <3> QED
      BY <1>0, <1>1, <1>3, <1>8, <3>1 DEF OwnedTypes, RunMain, HearToken, clientVars
  <2>4. WorkerMoves(0)
    BY <1>0, <1>4, <2>1, <2>2, WorkerGrows DEF IsUserTask
  <2> QED
    BY <1>1, <1>2, <1>6, <1>8, <2>3, <2>4, SameStream, Moves
<1> QED
  BY <1>3, <1>7, <1>8 DEF HearToken

(***************************************************************************)
(* A change of user goes from the main queue to the end of the worker's.   *)
(***************************************************************************)
LEMMA HearChangeKeeps ==
  ASSUME OwnershipInvariant, RunMain, Head(main).kind = "changed"
  PROVE  OwnershipInvariant'
<1>0. /\ OwnedTypes /\ AuthIsComing /\ TokensBelongToStarts
      /\ TokensAreTheUsers /\ StreamIsTheUsers /\ CommittedAsOwner
  BY DEF OwnershipInvariant
<1>1. /\ Head(main) \in Block
      /\ main \in Seq(Block) /\ main # <<>> /\ main' = Tail(main)
      /\ main' \in Seq(Block)
      /\ 1 \in DOMAIN main /\ Head(main) = main[1]
      /\ auth' = auth /\ user' = user /\ stream' = stream /\ log' = log
  BY <1>0, MainHead
<1> DEFINE u == main[1].user
           task == [kind |-> "user", user |-> u]
<1>2. HearChange(u) /\ u \in Owner /\ IsChange(main[1])
  BY <1>1 DEF RunMain, Block, IsChange
<1>3. task \in Task /\ IsUserTask(task) /\ task.user = u
  BY <1>2 DEF Task, IsUserTask
<1>4. worker' = Append(worker, task) /\ requests' = requests
  BY <1>2 DEF HearChange, Enqueue
<1>5. /\ Len(main) \in Nat \ {0}
      /\ DOMAIN main = 1 .. Len(main)
      /\ DOMAIN main' = 1 .. Len(main) - 1
      /\ \A i \in 1 .. Len(main) - 1 : main'[i] = main[i + 1]
  BY <1>1, Removing
<1>6. /\ worker' \in Seq(Task)
      /\ Len(worker) \in Nat
      /\ DOMAIN worker = 1 .. Len(worker)
      /\ DOMAIN worker' = 1 .. Len(worker) + 1
      /\ worker'[Len(worker) + 1] = task
      /\ \A i \in 1 .. Len(worker) : worker'[i] = worker[i]
  <2>1. worker \in Seq(Task)
    BY <1>0 DEF OwnedTypes
  <2> HIDE DEF task
  <2> QED
    BY <2>1, <1>3, <1>4, Appending
<1>7. OwnedTypes'
  <2>1. provider' \in [user : Owner, counter : Nat]
    <3>1. provider.counter + 1 \in Nat
      BY <1>0 DEF OwnedTypes
    <3>2. provider' = [user |-> u, counter |-> provider.counter + 1]
      BY <1>2 DEF HearChange
    <3> QED
      BY <3>1, <3>2, <1>2
  <2> QED
    BY <1>0, <1>1, <1>2, <1>6, <2>1 DEF OwnedTypes, RunMain, HearChange, clientVars
<1> HIDE DEF task, u
<1>8. ChangeOnWorker'
  <2>1. Len(worker) + 1 \in DOMAIN worker'
    BY <1>6
  <2> QED
    BY <2>1, <1>3, <1>6 DEF ChangeOnWorker, IsUserTask
<1>9. ~ChangeOnMain' => u = auth
  <2>1. SUFFICES ASSUME \A i \in DOMAIN main' : ~IsChange(main'[i])
                 PROVE  u = auth
    BY DEF ChangeOnMain, IsChange
  <2>2. ASSUME NEW j \in DOMAIN main, j > 1 PROVE ~IsChange(main[j])
    <3>1. PICK k \in DOMAIN main' : j = k + 1 /\ main'[k] = main[j]
      <4>1. j - 1 \in 1 .. Len(main) - 1 /\ j = (j - 1) + 1
        BY <2>2, <1>5
      <4> QED
        BY <4>1, <1>5
    <3> QED
      BY <3>1, <2>1 DEF IsChange
  <2> QED
    BY <2>2, <1>0, <1>1, <1>2 DEF AuthIsComing, u
<1>10. AuthIsComing'
  <2>1. ASSUME NEW i \in DOMAIN main', IsChange(main'[i]),
               \A j \in DOMAIN main' : j > i => ~IsChange(main'[j])
        PROVE  main'[i].user = auth'
    <3>1. PICK k \in DOMAIN main : k = i + 1 /\ main'[i] = main[k]
      BY <1>5
    <3>2. ASSUME NEW j \in DOMAIN main, j > k PROVE ~IsChange(main[j])
      <4>1. j - 1 \in DOMAIN main' /\ j - 1 > i /\ main'[j - 1] = main[j]
        BY <3>1, <3>2, <1>5
      <4> QED
        BY <4>1, <2>1 DEF IsChange
    <3> QED
      BY <3>1, <3>2, <2>1, <1>0, <1>1 DEF AuthIsComing, IsChange
  <2>2. ASSUME ~ChangeOnMain', NEW i \in DOMAIN worker', IsUserTask(worker'[i]),
               \A j \in DOMAIN worker' : j > i => ~IsUserTask(worker'[j])
        PROVE  worker'[i].user = auth'
    <3>1. i = Len(worker) + 1
      <4>1. ~(i < Len(worker) + 1)
        BY <2>2, <1>3, <1>6 DEF IsUserTask
      <4> QED
        BY <4>1, <2>2, <1>6
    <3> QED
      BY <3>1, <2>2, <1>1, <1>3, <1>6, <1>9
  <2> QED
    BY <2>1, <2>2, <1>8 DEF AuthIsComing, IsChange, IsUserTask
<1>11. TokensBelongToStarts'
  <2>1. \A i \in DOMAIN main' :
          main'[i].kind = "token" =>
            BelongsToStart(main'[i].request.closes, stream)
    <3>1. \A i \in DOMAIN main' : i + 1 \in DOMAIN main /\ main'[i] = main[i + 1]
      BY <1>5
    <3>2. \A k \in DOMAIN main : main[k].kind = "token" =>
            BelongsToStart(main[k].request.closes, stream)
      BY <1>0 DEF TokensBelongToStarts
    <3> QED
      BY <3>1, <3>2
  <2>2. \A i \in DOMAIN worker' :
          worker'[i].kind = "resume" =>
            BelongsToStart(worker'[i].closes, stream)
    <3>1. \A i \in DOMAIN worker' : i \in DOMAIN worker \/ worker'[i] = task
      BY <1>6
    <3>2. \A k \in DOMAIN worker : worker[k].kind = "resume" =>
            BelongsToStart(worker[k].closes, stream)
      BY <1>0 DEF TokensBelongToStarts
    <3> QED
      BY <3>1, <3>2, <1>3, <1>6 DEF IsUserTask
  <2> QED
    BY <2>1, <2>2, <1>0, <1>1, <1>4 DEF TokensBelongToStarts
<1>12. TokensAreTheUsers'
  <2>1. ASSUME NEW i \in DOMAIN worker', worker'[i].kind = "resume",
               worker'[i].closes = stream'.closes
        PROVE  \/ worker'[i].who = user'
               \/ \E j \in 1 .. i - 1 : IsUserTask(worker'[j])
    <3>1. i \in DOMAIN worker /\ worker'[i] = worker[i]
      BY <2>1, <1>3, <1>6 DEF IsUserTask
    <3>2. \/ worker[i].who = user
          \/ \E j \in 1 .. i - 1 : IsUserTask(worker[j])
      BY <3>1, <2>1, <1>0, <1>1 DEF TokensAreTheUsers
    <3>3. \A j \in 1 .. i - 1 : worker'[j] = worker[j]
      BY <3>1, <1>6
    <3> QED
      BY <3>1, <3>2, <3>3, <1>1
  <2> QED
    BY <2>1, <1>8 DEF TokensAreTheUsers, IsUserTask, IsChange
<1>13. StreamIsTheUsers' /\ CommittedAsOwner'
  BY <1>0, <1>1 DEF StreamIsTheUsers, CommittedAsOwner
<1> QED
  BY <1>7, <1>10, <1>11, <1>12, <1>13 DEF OwnershipInvariant

LEMMA RunMainKeeps ==
  ASSUME OwnershipInvariant, RunMain
  PROVE  OwnershipInvariant'
<1>1. OwnedTypes
  BY DEF OwnershipInvariant
<1>2. Head(main).kind \in {"changed", "token", "signedIn", "handler"}
  BY <1>1, MainHead DEF Block
<1> QED
  BY <1>2, HearChangeKeeps, HearTokenKeeps, BlocksKeep

-----------------------------------------------------------------------------
(***************************************************************************)
(* The worker queue.                                                       *)
(***************************************************************************)
LEMMA WorkerHead ==
  ASSUME OwnedTypes, RunTask
  PROVE  /\ Head(worker) \in Task
         /\ worker \in Seq(Task) /\ worker # <<>> /\ worker' = Tail(worker)
         /\ worker' \in Seq(Task)
         /\ 1 \in DOMAIN worker /\ Head(worker) = worker[1]
         /\ auth' = auth /\ main' = main /\ log' = log
<1>1. worker \in Seq(Task) /\ worker # <<>> /\ worker' = Tail(worker)
  BY DEF OwnedTypes, RunTask
<1> QED
  BY <1>1, Removing DEF RunTask, authVars

LEMMA FilledKeeps ==
  ASSUME OwnershipInvariant, NEW st \in StreamsWith(BatchOf(user)),
         st.stream = stream, st.requests = requests,
         NEW q \in Seq(BatchOf(user)), Become(FillWritePipeline(st, q))
  PROVE  /\ pipeline' \in Seq(BatchOf(user))
         /\ stream' \in StreamType
         /\ answered' \in Nat
         /\ requests' \subseteq Token
         /\ StreamMoves
         /\ user' = user => StreamIsTheUsers'
<1>1. OwnedTypes
  BY DEF OwnershipInvariant
<1> DEFINE rt == FillWritePipeline(st, q)
<1>2. rt \in StreamsWith(BatchOf(user)) /\ MayStart(st, rt)
  BY <1>1, FillFills
<1>3. /\ pipeline' = rt.pipeline /\ stream' = rt.stream
      /\ answered' = rt.answered /\ requests' = rt.requests
  BY DEF Become
<1> HIDE DEF rt
<1>4. StreamMoves /\ (user' = user => StreamIsTheUsers')
  BY <1>2, <1>3, StartMoves
<1> QED
  BY <1>2, <1>3, <1>4 DEF StreamsWith

LEMMA RunWriteKeeps ==
  ASSUME OwnershipInvariant, RunTask, Head(worker).kind = "write"
  PROVE  OwnershipInvariant'
<1>0. OwnedTypes /\ StreamIsTheUsers /\ CommittedAsOwner
  BY DEF OwnershipInvariant
<1>1. /\ Head(worker) \in Task
      /\ worker \in Seq(Task) /\ worker # <<>> /\ worker' = Tail(worker)
      /\ worker' \in Seq(Task)
      /\ auth' = auth /\ main' = main /\ log' = log
  BY <1>0, WorkerHead
<1> DEFINE w == Head(worker).write
           b == [n |-> w.n, by |-> w.by, kind |-> w.kind, key |-> w.key,
                 owner |-> user, live |-> TRUE]
           q == Append(queues[user], b)
<1>2. WriteMutations(w) /\ w \in WriteRecord
  BY <1>1 DEF RunTask, Task
<1>3. b \in BatchOf(user)
  BY <1>0, <1>2 DEF OwnedTypes, WriteRecord, Batch, BatchOf
<1>4. /\ queues' = [queues EXCEPT ![user] = q]
      /\ Become(FillWritePipeline(Streams, q))
      /\ user' = user
  BY <1>2 DEF WriteMutations
<1> HIDE DEF b, w
<1>5. q \in Seq(BatchOf(user))
  BY <1>0, <1>3, Appending DEF OwnedTypes
<1> HIDE DEF q
<1>6. /\ Streams \in StreamsWith(BatchOf(user))
      /\ Streams.stream = stream /\ Streams.requests = requests
  BY <1>0, StreamsType
<1>7. /\ pipeline' \in Seq(BatchOf(user))
      /\ stream' \in StreamType
      /\ answered' \in Nat
      /\ requests' \subseteq Token
      /\ StreamMoves
      /\ StreamIsTheUsers'
  BY <1>4, <1>5, <1>6, FilledKeeps
<1>8. OwnedTypes'
  <2>1. DOMAIN queues' = Owner /\ \A u \in Owner : queues'[u] \in Seq(BatchOf(u))
    BY <1>0, <1>4, <1>5 DEF OwnedTypes
  <2> QED
    BY <1>0, <1>1, <1>4, <1>7, <2>1
    DEF OwnedTypes, RunTask, authVars, appVars, StreamType
<1>9. MainMoves(0) /\ WorkerMoves(1)
  BY <1>0, <1>1, MainStays, WorkerServed DEF IsUserTask
<1>10. CommittedAsOwner'
  BY <1>0, <1>1 DEF CommittedAsOwner
<1> QED
  BY <1>1, <1>4, <1>7, <1>8, <1>9, <1>10, Moves

LEMMA RunResumeKeeps ==
  ASSUME OwnershipInvariant, RunTask, Head(worker).kind = "resume"
  PROVE  OwnershipInvariant'
<1>0. /\ OwnedTypes /\ TokensBelongToStarts /\ TokensAreTheUsers
      /\ StreamIsTheUsers /\ CommittedAsOwner
  BY DEF OwnershipInvariant
<1>1. /\ Head(worker) \in Task
      /\ worker \in Seq(Task) /\ worker # <<>> /\ worker' = Tail(worker)
      /\ worker' \in Seq(Task)
      /\ 1 \in DOMAIN worker /\ Head(worker) = worker[1]
      /\ auth' = auth /\ main' = main /\ log' = log
  BY <1>0, WorkerHead
<1> DEFINE task == worker[1]
<1>2. /\ ResumeStartWithCredentials(task)
      /\ task.who \in Owner /\ task.kind = "resume"
  BY <1>1 DEF RunTask, Task
<1>3. BelongsToStart(task.closes, stream)
  BY <1>0, <1>1, <1>2 DEF TokensBelongToStarts
<1>4. task.closes = stream.closes => task.who = user
  BY <1>0, <1>1, <1>2 DEF TokensAreTheUsers
<1> HIDE DEF task
<1>5. /\ user' = user /\ queues' = queues /\ pipeline' = pipeline
      /\ answered' = answered /\ requests' = requests
  BY <1>2 DEF ResumeStartWithCredentials, clientVars
<1>s. stream \in StreamType
  BY <1>0 DEF OwnedTypes, StreamType
<1>6. /\ stream' \in StreamType
      /\ stream'.closes = stream.closes
      /\ \/ stream' = stream
         \/ /\ task.closes = stream.closes
            /\ stream'.state = "connecting"
            /\ stream'.as = task.who
  BY <1>2, <1>s DEF ResumeStartWithCredentials, StreamType
<1>7. StreamIsTheUsers'
  BY <1>0, <1>4, <1>5, <1>6 DEF StreamIsTheUsers
<1>8. StreamMoves
  <2>1. \A c \in Nat : BelongsToStart(c, stream) => BelongsToStart(c, stream')
    BY <1>3, <1>6 DEF BelongsToStart
  <2>2. \A r \in requests : r.closes \in Nat /\ BelongsToStart(r.closes, stream)
    BY <1>0 DEF TokensBelongToStarts, OwnedTypes, Token
  <2> QED
    BY <2>1, <2>2, <1>5, <1>6 DEF StreamMoves
<1>9. OwnedTypes'
  BY <1>0, <1>1, <1>5, <1>6 DEF OwnedTypes, RunTask, authVars, appVars, StreamType
<1>10. MainMoves(0) /\ WorkerMoves(1)
  BY <1>0, <1>1, <1>2, MainStays, WorkerServed DEF IsUserTask, task
<1>11. CommittedAsOwner'
  BY <1>0, <1>1 DEF CommittedAsOwner
<1> QED
  BY <1>1, <1>5, <1>7, <1>8, <1>9, <1>10, <1>11, Moves

LEMMA CloseType ==
  ASSUME OwnedTypes, NEW S, NEW st \in StreamsWith(S),
         NEW state \in {"initial", "error"}
  PROVE  /\ Close(st, state) \in StreamsWith(S)
         /\ Close(st, state).stream.state = state
         /\ Close(st, state).stream.closes = st.stream.closes + 1
         /\ Close(st, state).requests = st.requests
         /\ Close(st, state).pipeline = st.pipeline
         /\ Close(st, state).answered = 0
<1>1. st.stream \in StreamType /\ st.stream.closes \in Nat
  BY DEF StreamsWith, StreamType
<1> DEFINE c == st.stream.closes + 1
           closed == [st.stream EXCEPT !.state = state, !.as = NoUser,
                                       !.closes = c]
<1>2. c \in Nat
  BY <1>1
<1>3. /\ closed \in StreamType
      /\ closed.state = state
      /\ closed.closes = c
  <2> HIDE DEF c
  <2> QED
    BY <1>1, <1>2 DEF StreamType, Owner
<1>4. Close(st, state) = [st EXCEPT !.stream = closed, !.answered = 0]
  BY DEF Close, StreamsWith
<1> HIDE DEF closed
<1>5. /\ [st EXCEPT !.stream = closed, !.answered = 0] \in StreamsWith(S)
      /\ [st EXCEPT !.stream = closed, !.answered = 0].stream = closed
      /\ [st EXCEPT !.stream = closed, !.answered = 0].requests = st.requests
      /\ [st EXCEPT !.stream = closed, !.answered = 0].pipeline = st.pipeline
      /\ [st EXCEPT !.stream = closed, !.answered = 0].answered = 0
  BY <1>3 DEF StreamsWith
<1>6. closed.closes = st.stream.closes + 1
  BY <1>3
<1> QED
  BY <1>3, <1>4, <1>5, <1>6

LEMMA StopType ==
  ASSUME OwnedTypes, NEW S
  PROVE  LET cl == [Stop(Streams) EXCEPT !.pipeline = <<>>]
         IN  /\ cl \in StreamsWith(S)
             /\ \/ cl.stream.closes = stream.closes + 1
                \/ ~IsStarted(stream) /\ cl.stream.closes = stream.closes
             /\ cl.stream.state \in {"initial", "error"}
             /\ cl.requests = requests
             /\ cl.pipeline = <<>>
<1>1. /\ Streams \in StreamsWith(BatchOf(user))
      /\ Streams.stream = stream /\ Streams.requests = requests
      /\ stream \in StreamType
  BY StreamsType
<1>2. <<>> \in Seq(S)
  OBVIOUS
<1>3. CASE IsStarted(stream)
  <2> DEFINE cl == Close(Streams, "initial")
  <2>1. /\ cl \in StreamsWith(BatchOf(user))
        /\ cl.stream.state = "initial"
        /\ cl.stream.closes = stream.closes + 1
        /\ cl.requests = requests
    BY <1>1, CloseType
  <2>2. Stop(Streams) = cl
    BY <1>1, <1>3 DEF Stop
  <2> HIDE DEF cl
  <2> QED
    BY <1>2, <2>1, <2>2 DEF StreamsWith
<1>4. CASE ~IsStarted(stream)
  <2>1. Stop(Streams) = Streams
    BY <1>1, <1>4 DEF Stop
  <2>2. stream.state \in {"initial", "error"}
    BY <1>1, <1>4 DEF StreamType, IsStarted
  <2> QED
    BY <1>1, <1>2, <1>4, <2>1, <2>2 DEF StreamsWith
<1> QED
  BY <1>3, <1>4

LEMMA RunUserKeeps ==
  ASSUME OwnershipInvariant, RunTask, Head(worker).kind = "user"
  PROVE  OwnershipInvariant'
<1>0. /\ OwnedTypes /\ AuthIsComing /\ TokensBelongToStarts
      /\ TokensAreTheUsers /\ StreamIsTheUsers /\ CommittedAsOwner
  BY DEF OwnershipInvariant
<1>1. /\ Head(worker) \in Task
      /\ worker \in Seq(Task) /\ worker # <<>> /\ worker' = Tail(worker)
      /\ worker' \in Seq(Task)
      /\ 1 \in DOMAIN worker /\ Head(worker) = worker[1]
      /\ auth' = auth /\ main' = main /\ log' = log
  BY <1>0, WorkerHead
<1> DEFINE u == worker[1].user
           cl == [Stop(Streams) EXCEPT !.pipeline = <<>>]
           rt == FillWritePipeline(cl, queues[u])
<1>2. HandleCredentialChange(u) /\ u \in Owner /\ IsUserTask(worker[1])
  BY <1>1 DEF RunTask, Task, IsUserTask
<1> HIDE DEF u
<1>3. /\ user' = u /\ queues' = queues
      /\ pipeline' = rt.pipeline /\ stream' = rt.stream
      /\ answered' = rt.answered /\ requests' = rt.requests
  BY <1>2 DEF HandleCredentialChange, RestartStreams, Become
<1>4. /\ cl \in StreamsWith(BatchOf(u))
      /\ \/ cl.stream.closes = stream.closes + 1
         \/ ~IsStarted(stream) /\ cl.stream.closes = stream.closes
      /\ cl.stream.state \in {"initial", "error"}
      /\ cl.requests = requests
  BY <1>0, StopType
<1> HIDE DEF cl
<1>5. rt \in StreamsWith(BatchOf(u)) /\ MayStart(cl, rt)
  <2>1. queues[u] \in Seq(BatchOf(u))
    BY <1>0, <1>2 DEF OwnedTypes
  <2> QED
    BY <1>0, <1>4, <2>1, FillFills
<1> HIDE DEF rt
<1>6. /\ StreamMoves
      /\ StreamIsTheUsers'
      /\ \A c \in Nat : BelongsToStart(c, stream) => c # stream'.closes
      /\ \A r \in requests' : r.closes = stream'.closes => ~r.read
  BY <1>3, <1>4, <1>5, CloseMoves DEF IsStarted
<1>7. OwnedTypes'
  <2>1. /\ pipeline' \in Seq(BatchOf(user')) /\ stream' \in StreamType
        /\ answered' \in Nat /\ requests' \subseteq Token
    BY <1>3, <1>5 DEF StreamsWith
  <2> QED
    BY <1>0, <1>1, <1>2, <1>3, <2>1
    DEF OwnedTypes, RunTask, authVars, appVars, StreamType
<1>8. /\ Len(worker) \in Nat \ {0}
      /\ DOMAIN worker = 1 .. Len(worker)
      /\ DOMAIN worker' = 1 .. Len(worker) - 1
      /\ \A i \in 1 .. Len(worker) - 1 : worker'[i] = worker[i + 1]
  BY <1>1, Removing
<1>9. AuthIsComing'
  <2>1. ChangeOnMain' = ChangeOnMain
    BY <1>1 DEF ChangeOnMain
  <2>2. ASSUME ~ChangeOnMain, NEW i \in DOMAIN worker', IsUserTask(worker'[i]),
               \A j \in DOMAIN worker' : j > i => ~IsUserTask(worker'[j])
        PROVE  worker'[i].user = auth
    <3>1. PICK k \in DOMAIN worker : k = i + 1 /\ worker'[i] = worker[k]
      BY <1>8
    <3>2. ASSUME NEW j \in DOMAIN worker, j > k PROVE ~IsUserTask(worker[j])
      <4>1. j - 1 \in DOMAIN worker' /\ j - 1 > i /\ worker'[j - 1] = worker[j]
        BY <3>1, <3>2, <1>8
      <4> QED
        BY <4>1, <2>2 DEF IsUserTask
    <3> QED
      BY <3>1, <3>2, <2>2, <1>0 DEF AuthIsComing, IsUserTask
  <2>3. ASSUME ~ChangeOnMain, \A i \in DOMAIN worker' : ~IsUserTask(worker'[i])
        PROVE  u = auth
    <3>1. ASSUME NEW j \in DOMAIN worker, j > 1 PROVE ~IsUserTask(worker[j])
      <4>1. PICK k \in DOMAIN worker' : j = k + 1 /\ worker'[k] = worker[j]
        <5>1. j - 1 \in 1 .. Len(worker) - 1 /\ j = (j - 1) + 1
          BY <3>1, <1>8
        <5> QED
          BY <5>1, <1>8
      <4> QED
        BY <4>1, <2>3 DEF IsUserTask
    <3> QED
      BY <3>1, <2>3, <1>0, <1>1, <1>2 DEF AuthIsComing, u
  <2>4. ~ChangeOnWorker' => \A i \in DOMAIN worker' : ~IsUserTask(worker'[i])
    BY DEF ChangeOnWorker, IsUserTask
  <2>5. \A i \in DOMAIN main' :
          IsChange(main'[i])
            /\ (\A j \in DOMAIN main' : j > i => ~IsChange(main'[j]))
            => main'[i].user = auth'
    BY <1>0, <1>1 DEF AuthIsComing
  <2> QED
    BY <2>1, <2>2, <2>3, <2>4, <2>5, <1>1, <1>3
    DEF AuthIsComing, IsUserTask, IsChange
<1>10. /\ \A i \in DOMAIN main' : main'[i].kind = "token" =>
            /\ BelongsToStart(main'[i].request.closes, stream')
            /\ main'[i].request.closes # stream'.closes
       /\ \A i \in DOMAIN worker' : worker'[i].kind = "resume" =>
            /\ BelongsToStart(worker'[i].closes, stream')
            /\ worker'[i].closes # stream'.closes
  <2>1. \A i \in DOMAIN main : main[i].kind = "token" =>
          /\ main[i].request.closes \in Nat
          /\ BelongsToStart(main[i].request.closes, stream)
    <3>1. \A i \in DOMAIN main : main[i] \in Block
      BY <1>0 DEF OwnedTypes
    <3> QED
      BY <3>1, <1>0 DEF Block, Token, TokensBelongToStarts
  <2>2. \A i \in DOMAIN worker : worker[i].kind = "resume" =>
          /\ worker[i].closes \in Nat
          /\ BelongsToStart(worker[i].closes, stream)
    <3>1. \A i \in DOMAIN worker : worker[i] \in Task
      BY <1>1
    <3> QED
      BY <3>1, <1>0 DEF Task, TokensBelongToStarts
  <2>3. \A i \in DOMAIN worker' :
          i + 1 \in DOMAIN worker /\ worker'[i] = worker[i + 1]
    BY <1>8
  <2> QED
    BY <2>1, <2>2, <2>3, <1>1, <1>6 DEF StreamMoves
<1>11. TokensBelongToStarts'
  BY <1>6, <1>10 DEF StreamMoves, TokensBelongToStarts
<1>12. TokensAreTheUsers'
  BY <1>6, <1>10 DEF TokensAreTheUsers
<1>13. CommittedAsOwner'
  BY <1>0, <1>1 DEF CommittedAsOwner
<1> QED
  BY <1>6, <1>7, <1>9, <1>11, <1>12, <1>13 DEF OwnershipInvariant

LEMMA RunTaskKeeps ==
  ASSUME OwnershipInvariant, RunTask
  PROVE  OwnershipInvariant'
<1>1. OwnedTypes
  BY DEF OwnershipInvariant
<1>2. Head(worker).kind \in {"write", "user", "resume"}
  BY <1>1, WorkerHead DEF Task
<1> QED
  BY <1>2, RunWriteKeeps, RunUserKeeps, RunResumeKeeps

-----------------------------------------------------------------------------
(***************************************************************************)
(* The write stream and the server.                                        *)
(***************************************************************************)
LEMMA HandshakeKeeps ==
  ASSUME OwnershipInvariant, OnWriteStreamHandshakeComplete
  PROVE  OwnershipInvariant'
<1>0. /\ OwnedTypes /\ TokensBelongToStarts /\ StreamIsTheUsers
      /\ CommittedAsOwner
  BY DEF OwnershipInvariant
<1>1. /\ main' = main /\ worker' = worker /\ requests' = requests
      /\ auth' = auth /\ user' = user /\ log' = log
  BY DEF OnWriteStreamHandshakeComplete, authVars, clientVars
<1>2. stream \in StreamType
  BY <1>0 DEF OwnedTypes, StreamType
<1>3. /\ stream' \in StreamType
      /\ stream'.closes = stream.closes
      /\ stream'.as = stream.as
      /\ stream.state = "connecting" /\ stream'.state = "open"
  BY <1>2 DEF OnWriteStreamHandshakeComplete, StreamType
<1>4. OwnedTypes'
  BY <1>0, <1>3
  DEF OwnedTypes, OnWriteStreamHandshakeComplete, authVars, appVars, clientVars,
      StreamType
<1>5. StreamIsTheUsers' /\ CommittedAsOwner'
  BY <1>0, <1>1, <1>3 DEF StreamIsTheUsers, CommittedAsOwner
<1>6. StreamMoves
  <2>1. \A c \in Nat : BelongsToStart(c, stream) => BelongsToStart(c, stream')
    BY <1>3 DEF BelongsToStart
  <2>2. \A r \in requests : r.closes \in Nat /\ BelongsToStart(r.closes, stream)
    BY <1>0 DEF TokensBelongToStarts, OwnedTypes, Token
  <2> QED
    BY <2>1, <2>2, <1>1, <1>3 DEF StreamMoves
<1>7. MainMoves(0) /\ WorkerMoves(0)
  BY <1>0, <1>1, MainStays, WorkerStays
<1> QED
  BY <1>1, <1>4, <1>5, <1>6, <1>7, Moves

LEMMA CommitKeeps ==
  ASSUME OwnershipInvariant, Commit
  PROVE  OwnershipInvariant'
<1>0. OwnedTypes /\ StreamIsTheUsers /\ CommittedAsOwner
  BY DEF OwnershipInvariant
<1>1. /\ main' = main /\ worker' = worker /\ requests' = requests
      /\ stream' = stream /\ auth' = auth /\ user' = user
      /\ answered' = answered + 1
  BY DEF Commit, authVars, clientVars
<1> DEFINE b == pipeline[answered + 1]
           c == [owner |-> b.owner, n |-> b.n, by |-> b.by, kind |-> b.kind,
                 key |-> b.key, as |-> stream.as]
<1>2. b \in BatchOf(user)
  <2>1. pipeline \in Seq(BatchOf(user)) /\ answered \in Nat
    BY <1>0 DEF OwnedTypes
  <2>2. answered + 1 \in 1 .. Len(pipeline)
    BY <2>1 DEF Commit
  <2> QED
    BY <2>1, <2>2
<1>3. stream.as = user /\ stream.as \in Owner
  BY <1>0 DEF StreamIsTheUsers, Commit, OwnedTypes
<1>4. log' = Append(log, c)
  BY DEF Commit
<1> HIDE DEF b
<1>5. c \in CommitRecord /\ c.as = c.owner
  BY <1>2, <1>3 DEF BatchOf, Batch, CommitRecord
<1> HIDE DEF c
<1>6. /\ log' \in Seq(CommitRecord)
      /\ DOMAIN log = 1 .. Len(log)
      /\ DOMAIN log' = 1 .. Len(log) + 1
      /\ Len(log) \in Nat
      /\ log'[Len(log) + 1] = c
      /\ \A i \in 1 .. Len(log) : log'[i] = log[i]
  <2>1. log \in Seq(CommitRecord)
    BY <1>0 DEF OwnedTypes
  <2> QED
    BY <2>1, <1>4, <1>5, Appending
<1>7. OwnedTypes'
  <2>1. /\ field' = field /\ provider' = provider /\ attempts' = attempts
        /\ queues' = queues /\ pipeline' = pipeline /\ made' = made
    BY DEF Commit, appVars, clientVars
  <2>2. answered' \in Nat
    <3>1. answered \in Nat
      BY <1>0 DEF OwnedTypes
    <3> QED
      BY <3>1, <1>1
  <2>3. log' \in Seq(CommitRecord)
    BY <1>6
  <2> QED
    BY <2>1, <2>2, <2>3, <1>0, <1>1, Zenon DEF OwnedTypes
<1>8. CommittedAsOwner'
  <2>1. \A i \in DOMAIN log' : i \in DOMAIN log \/ i = Len(log) + 1
    BY <1>6
  <2> QED
    BY <2>1, <1>0, <1>5, <1>6 DEF CommittedAsOwner
<1>9. MainMoves(0) /\ WorkerMoves(0)
  BY <1>0, <1>1, MainStays, WorkerStays
<1> QED
  BY <1>1, <1>7, <1>8, <1>9, SameStream, Moves

(***************************************************************************)
(* An answer needs a batch to be about: PipelineIsQueued says there is one *)
(* in the pipeline and in the queue.                                       *)
(***************************************************************************)
LEMMA AnswerTypes ==
  ASSUME OwnedTypes, PipelineIsQueued, OnWriteStreamMutationResult
  PROVE  /\ pipeline # <<>> /\ queues[user] # <<>>
         /\ Head(pipeline) \in BatchOf(user)
         /\ Tail(queues[user]) \in Seq(BatchOf(user))
         /\ LET st == [Streams EXCEPT !.pipeline = Tail(@), !.answered = @ - 1]
            IN  /\ st \in StreamsWith(BatchOf(user))
                /\ st.stream = stream /\ st.requests = requests
                /\ st.pipeline = Tail(pipeline)
                /\ st.answered = answered - 1
<1>1. /\ Streams \in StreamsWith(BatchOf(user))
      /\ Streams.stream = stream /\ Streams.requests = requests
      /\ Streams.pipeline = pipeline /\ Streams.answered = answered
  BY StreamsType
<1>2. /\ pipeline \in Seq(BatchOf(user)) /\ queues[user] \in Seq(BatchOf(user))
      /\ answered \in Nat
  BY DEF OwnedTypes
<1>3. Len(pipeline) \in Nat /\ Len(queues[user]) \in Nat
  BY <1>2
<1>4. Len(pipeline) > 0 /\ Len(queues[user]) > 0
  BY <1>2, <1>3 DEF OnWriteStreamMutationResult, PipelineIsQueued, IsQueued
<1>5. pipeline # <<>> /\ queues[user] # <<>>
  BY <1>4
<1>6. /\ Head(pipeline) \in BatchOf(user)
      /\ Tail(pipeline) \in Seq(BatchOf(user))
      /\ Tail(queues[user]) \in Seq(BatchOf(user))
  BY <1>2, <1>5, Removing
<1>7. answered - 1 \in Nat
  BY <1>2 DEF OnWriteStreamMutationResult
<1> DEFINE p == Tail(pipeline)
           a == answered - 1
<1>8. [Streams EXCEPT !.pipeline = Tail(@), !.answered = @ - 1] =
        [Streams EXCEPT !.pipeline = p, !.answered = a]
  BY <1>1
<1>9. p \in Seq(BatchOf(user)) /\ a \in Nat
  BY <1>6, <1>7
<1> HIDE DEF p, a
<1>10. /\ [Streams EXCEPT !.pipeline = p, !.answered = a] \in
            StreamsWith(BatchOf(user))
       /\ [Streams EXCEPT !.pipeline = p, !.answered = a].stream = stream
       /\ [Streams EXCEPT !.pipeline = p, !.answered = a].requests = requests
       /\ [Streams EXCEPT !.pipeline = p, !.answered = a].pipeline = p
       /\ [Streams EXCEPT !.pipeline = p, !.answered = a].answered = a
  BY <1>1, <1>9 DEF StreamsWith
<1> QED
  BY <1>5, <1>6, <1>8, <1>10 DEF p, a

LEMMA AnswerKeeps ==
  ASSUME OwnershipInvariant, PipelineIsQueued, OnWriteStreamMutationResult
  PROVE  OwnershipInvariant'
<1>0. OwnedTypes /\ StreamIsTheUsers /\ CommittedAsOwner
  BY DEF OwnershipInvariant
<1>1. /\ worker' = worker /\ auth' = auth /\ user' = user /\ log' = log
  BY DEF OnWriteStreamMutationResult, authVars
<1> DEFINE b == Head(pipeline)
           q == Tail(queues[user])
           st == [Streams EXCEPT !.pipeline = Tail(@), !.answered = @ - 1]
<1>2. /\ b \in BatchOf(user)
      /\ q \in Seq(BatchOf(user))
      /\ st \in StreamsWith(BatchOf(user))
      /\ st.stream = stream /\ st.requests = requests
  BY <1>0, AnswerTypes
<1>3. /\ queues' = [queues EXCEPT ![user] = q]
      /\ Become(FillWritePipeline(st, q))
      /\ \/ main' = main
         \/ main' = Append(main, [kind |-> "handler", batch |-> b])
  BY DEF OnWriteStreamMutationResult
<1> HIDE DEF b, q, st
<1>4. /\ pipeline' \in Seq(BatchOf(user))
      /\ stream' \in StreamType
      /\ answered' \in Nat
      /\ requests' \subseteq Token
      /\ StreamMoves
      /\ StreamIsTheUsers'
  BY <1>1, <1>2, <1>3, FilledKeeps
<1>5. main' \in Seq(Block) /\ MainMoves(0)
  <2>1. CASE main' = main
    BY <1>0, <2>1, MainStays DEF OwnedTypes
  <2>2. CASE main' = Append(main, [kind |-> "handler", batch |-> b])
    <3> DEFINE block == [kind |-> "handler", batch |-> b]
    <3>1. block \in Block /\ block.kind = "handler"
      BY <1>2 DEF Block, BatchOf
    <3>2. main' = Append(main, block)
      BY <2>2
    <3> HIDE DEF block
    <3> QED
      BY <1>0, <3>1, <3>2, Appending, MainGrows DEF OwnedTypes, IsChange
  <2> QED
    BY <1>3, <2>1, <2>2
<1>6. OwnedTypes'
  <2>1. DOMAIN queues' = Owner /\ \A u \in Owner : queues'[u] \in Seq(BatchOf(u))
    BY <1>0, <1>2, <1>3 DEF OwnedTypes
  <2> QED
    BY <1>0, <1>1, <1>4, <1>5, <2>1
    DEF OwnedTypes, OnWriteStreamMutationResult, authVars, appVars, StreamType
<1>7. WorkerMoves(0)
  BY <1>0, <1>1, WorkerStays
<1>8. CommittedAsOwner'
  BY <1>0, <1>1 DEF CommittedAsOwner
<1> QED
  BY <1>1, <1>4, <1>5, <1>6, <1>7, <1>8, Moves

(***************************************************************************)
(* A stream that is closed, and perhaps started again.                     *)
(***************************************************************************)
LEMMA ClosedKeeps ==
  ASSUME OwnershipInvariant, NEW cl \in StreamsWith(BatchOf(user)),
         \/ cl.stream.closes = stream.closes + 1
         \/ /\ stream.state \notin {"starting", "connecting", "open"}
            /\ cl.stream.closes = stream.closes,
         cl.stream.state \in {"initial", "error"},
         cl.requests = requests,
         NEW rt \in StreamsWith(BatchOf(user)),
         MayStart(cl, rt), Become(rt),
         UNCHANGED <<authVars, appVars, provider, main, worker, clientVars,
                     log, made>>
  PROVE  OwnershipInvariant'
<1>0. OwnedTypes /\ CommittedAsOwner
  BY DEF OwnershipInvariant
<1>1. /\ main' = main /\ worker' = worker
      /\ auth' = auth /\ user' = user /\ log' = log
  BY DEF authVars, clientVars
<1>2. /\ pipeline' = rt.pipeline /\ stream' = rt.stream
      /\ answered' = rt.answered /\ requests' = rt.requests
  BY DEF Become
<1>3. StreamMoves /\ StreamIsTheUsers'
  BY <1>2, CloseMoves
<1>4. OwnedTypes'
  <2>1. /\ pipeline' \in Seq(BatchOf(user)) /\ stream' \in StreamType
        /\ answered' \in Nat /\ requests' \subseteq Token
    BY <1>2 DEF StreamsWith
  <2> QED
    BY <1>0, <2>1 DEF OwnedTypes, authVars, appVars, clientVars, StreamType
<1>5. MainMoves(0) /\ WorkerMoves(0)
  BY <1>0, <1>1, MainStays, WorkerStays
<1>6. CommittedAsOwner'
  BY <1>0, <1>1 DEF CommittedAsOwner
<1> QED
  BY <1>1, <1>3, <1>4, <1>5, <1>6, Moves

LEMMA CloseKeeps ==
  ASSUME OwnershipInvariant, OnWriteStreamClose
  PROVE  OwnershipInvariant'
<1>0. OwnedTypes
  BY DEF OwnershipInvariant
<1> DEFINE cl == Close(Streams, "error")
           rt == IF pipeline # <<>> THEN Start(cl) ELSE cl
<1>1. /\ Streams \in StreamsWith(BatchOf(user))
      /\ Streams.stream = stream /\ Streams.requests = requests
  BY <1>0, StreamsType
<1>2. /\ cl \in StreamsWith(BatchOf(user))
      /\ cl.stream.closes = stream.closes + 1
      /\ cl.stream.state = "error"
      /\ cl.requests = requests
  BY <1>0, <1>1, CloseType
<1>3. Become(rt)
  BY DEF OnWriteStreamClose
<1> HIDE DEF cl
<1>4. rt \in StreamsWith(BatchOf(user)) /\ MayStart(cl, rt)
  <2>1. ~IsStarted(cl.stream)
    BY <1>2 DEF IsStarted
  <2>2. Start(cl) \in StreamsWith(BatchOf(user)) /\ MayStart(cl, Start(cl))
    BY <1>0, <1>2, <2>1, StartStarts
  <2>3. MayStart(cl, cl)
    BY DEF MayStart
  <2> QED
    BY <1>2, <2>2, <2>3
<1> HIDE DEF rt
<1>5. UNCHANGED <<authVars, appVars, provider, main, worker, clientVars, log,
                  made>>
  BY DEF OnWriteStreamClose
<1> QED
  BY <1>2, <1>3, <1>4, <1>5, ClosedKeeps

LEMMA IdleKeeps ==
  ASSUME OwnershipInvariant, IdleTimerFires
  PROVE  OwnershipInvariant'
<1>0. OwnedTypes
  BY DEF OwnershipInvariant
<1> DEFINE cl == Close(Streams, "initial")
<1>1. /\ Streams \in StreamsWith(BatchOf(user))
      /\ Streams.stream = stream /\ Streams.requests = requests
  BY <1>0, StreamsType
<1>2. /\ cl \in StreamsWith(BatchOf(user))
      /\ cl.stream.closes = stream.closes + 1
      /\ cl.stream.state = "initial"
      /\ cl.requests = requests
  BY <1>0, <1>1, CloseType
<1>3. Become(cl)
  BY DEF IdleTimerFires
<1> HIDE DEF cl
<1>4. MayStart(cl, cl)
  BY DEF MayStart
<1>5. UNCHANGED <<authVars, appVars, provider, main, worker, clientVars, log,
                  made>>
  BY DEF IdleTimerFires
<1> QED
  BY <1>2, <1>3, <1>4, <1>5, ClosedKeeps

LEMMA BackoffKeeps ==
  ASSUME OwnershipInvariant, BackoffElapses
  PROVE  OwnershipInvariant'
<1>0. OwnedTypes
  BY DEF OwnershipInvariant
<1> DEFINE cl == [Streams EXCEPT !.stream.state = "initial"]
<1>1. /\ Streams \in StreamsWith(BatchOf(user))
      /\ Streams.stream = stream /\ Streams.requests = requests
      /\ stream \in StreamType
  BY <1>0, StreamsType
<1>2. /\ cl \in StreamsWith(BatchOf(user))
      /\ cl.stream.closes = stream.closes
      /\ cl.stream.state = "initial"
      /\ cl.requests = requests
  BY <1>1 DEF StreamsWith, StreamType
<1>3. Become(Start(cl))
  BY DEF BackoffElapses
<1> HIDE DEF cl
<1>4. Start(cl) \in StreamsWith(BatchOf(user)) /\ MayStart(cl, Start(cl))
  <2>1. ~IsStarted(cl.stream)
    BY <1>2 DEF IsStarted
  <2> QED
    BY <1>0, <1>2, <2>1, StartStarts
<1>5. UNCHANGED <<authVars, appVars, provider, main, worker, clientVars, log,
                  made>>
  BY DEF BackoffElapses
<1>6. stream.state \notin {"starting", "connecting", "open"}
  BY DEF BackoffElapses
<1> QED
  BY <1>2, <1>3, <1>4, <1>5, <1>6, ClosedKeeps

-----------------------------------------------------------------------------
(***************************************************************************)
(* The app is killed and starts again.                                     *)
(***************************************************************************)
LEMMA FreshType ==
  ASSUME OwnedTypes, NEW u \in Owner
  PROVE  /\ Fresh(u) \in StreamsWith(BatchOf(u))
         /\ Len(Fresh(u).pipeline) <= Len(queues[u])
         /\ Fresh(u).stream.state \in {"initial", "starting", "backoff"}
         /\ Fresh(u).stream.closes = 0
         /\ \A r \in Fresh(u).requests :
              /\ ~r.read
              /\ BelongsToStart(r.closes, Fresh(u).stream)
<1> DEFINE st == [pipeline |-> <<>>, answered |-> 0, requests |-> {},
                  stream |-> [state |-> "initial", as |-> NoUser, closes |-> 0]]
<1>1. /\ st \in StreamsWith(BatchOf(u))
      /\ st.pipeline = <<>> /\ st.requests = {}
      /\ st.stream.state = "initial" /\ st.stream.closes = 0
  BY DEF StreamsWith, StreamType, Owner
<1>2. queues[u] \in Seq(BatchOf(u))
  BY DEF OwnedTypes
<1>3. Fresh(u) = FillWritePipeline(st, queues[u])
  BY DEF Fresh
<1> HIDE DEF st
<1>4. /\ Fresh(u) \in StreamsWith(BatchOf(u))
      /\ MayStart(st, Fresh(u))
      /\ Len(Fresh(u).pipeline) <= Len(queues[u])
  BY <1>1, <1>2, <1>3, FillFills
<1> QED
  BY <1>1, <1>4 DEF MayStart, BelongsToStart

LEMMA KillKeeps ==
  ASSUME OwnershipInvariant, Kill
  PROVE  OwnershipInvariant'
<1>0. OwnedTypes /\ CommittedAsOwner
  BY DEF OwnershipInvariant
<1>1. /\ auth' = auth /\ log' = log /\ made' = made
      /\ field' = NoUser /\ attempts' = {} /\ worker' = <<>>
      /\ main' = IF auth = NoUser THEN <<>> ELSE <<Changed(auth)>>
      /\ queues' = [v \in Owner |->
                      [i \in DOMAIN queues[v] |->
                         [queues[v][i] EXCEPT !.live = FALSE]]]
  BY DEF Kill
<1>2. PICK u \in {auth, NoUser} :
        /\ user' = u
        /\ provider' = [provider EXCEPT !.user = u]
        /\ Become([Fresh(u) EXCEPT
                     !.pipeline = [i \in DOMAIN @ |-> queues'[u][i]]])
  BY DEF Kill
<1>3. u \in Owner /\ auth \in Owner /\ NoUser \in Owner
  BY <1>0 DEF OwnedTypes, Owner
<1>4. ASSUME NEW v \in Owner
      PROVE  /\ queues'[v] \in Seq(BatchOf(v))
             /\ Len(queues'[v]) = Len(queues[v])
  <2>1. queues[v] \in Seq(BatchOf(v))
    BY <1>0 DEF OwnedTypes
  <2>2. DOMAIN queues[v] = 1 .. Len(queues[v]) /\ Len(queues[v]) \in Nat
    BY <2>1
  <2>3. \A i \in 1 .. Len(queues[v]) :
          [queues[v][i] EXCEPT !.live = FALSE] \in BatchOf(v)
    <3>1. \A i \in 1 .. Len(queues[v]) : queues[v][i] \in BatchOf(v)
      BY <2>1
    <3> QED
      BY <3>1 DEF BatchOf, Batch
  <2>4. queues'[v] = [i \in 1 .. Len(queues[v]) |->
                        [queues[v][i] EXCEPT !.live = FALSE]]
    BY <1>1, <2>2
  <2> QED
    BY <2>2, <2>3, <2>4
<1> DEFINE rt == Fresh(u)
<1>5. /\ rt \in StreamsWith(BatchOf(u))
      /\ Len(rt.pipeline) <= Len(queues[u])
      /\ rt.stream.state \in {"initial", "starting", "backoff"}
      /\ rt.stream.closes = 0
      /\ \A r \in rt.requests : ~r.read /\ BelongsToStart(r.closes, rt.stream)
  BY <1>0, <1>3, FreshType
<1> HIDE DEF rt
<1>6. /\ pipeline' = [i \in DOMAIN rt.pipeline |-> queues'[u][i]]
      /\ stream' = rt.stream /\ answered' = rt.answered
      /\ requests' = rt.requests
  <2>1. Become([rt EXCEPT !.pipeline = [i \in DOMAIN @ |-> queues'[u][i]]])
    BY <1>2 DEF rt
  <2> QED
    BY <2>1, <1>5 DEF Become, StreamsWith
<1>7. pipeline' \in Seq(BatchOf(u))
  <2>1. rt.pipeline \in Seq(BatchOf(u))
    BY <1>5 DEF StreamsWith
  <2>2. DOMAIN rt.pipeline = 1 .. Len(rt.pipeline) /\ Len(rt.pipeline) \in Nat
    BY <2>1
  <2>3. queues'[u] \in Seq(BatchOf(u)) /\ Len(queues'[u]) = Len(queues[u])
    BY <1>3, <1>4
  <2>4. \A i \in 1 .. Len(rt.pipeline) : queues'[u][i] \in BatchOf(u)
    <3>1. Len(queues'[u]) \in Nat
      BY <2>3
    <3>2. \A i \in 1 .. Len(rt.pipeline) : i \in 1 .. Len(queues'[u])
      BY <3>1, <2>2, <2>3, <1>5
    <3> QED
      BY <3>2, <2>3
  <2>5. pipeline' = [i \in 1 .. Len(rt.pipeline) |-> queues'[u][i]]
    BY <1>6, <2>2
  <2> QED
    BY <2>2, <2>4, <2>5
<1>8. /\ main' \in Seq(Block)
      /\ \A i \in DOMAIN main' : main'[i] = Changed(auth)
      /\ auth # NoUser => 1 \in DOMAIN main'
  <2>1. Changed(auth) \in Block
    BY <1>3 DEF Changed, Block
  <2> QED
    BY <2>1, <1>1
<1>9. OwnedTypes'
  <2>1. provider' \in [user : Owner, counter : Nat]
    BY <1>0, <1>2, <1>3 DEF OwnedTypes
  <2>2. /\ stream' \in StreamType /\ answered' \in Nat /\ requests' \subseteq Token
    BY <1>5, <1>6 DEF StreamsWith
  <2>3. worker' \in Seq(Task)
    BY <1>1
  <2>4. DOMAIN queues' = Owner
    BY <1>1
  <2> QED
    BY <1>0, <1>1, <1>2, <1>3, <1>4, <1>7, <1>8, <2>1, <2>2, <2>3, <2>4
    DEF OwnedTypes, StreamType
<1>10. AuthIsComing'
  <2>1. IsChange(Changed(auth)) /\ Changed(auth).user = auth
    BY DEF IsChange, Changed
  <2>2. ChangeOnMain' \/ user' = auth'
    BY <2>1, <1>1, <1>2, <1>8 DEF ChangeOnMain, IsChange
  <2>3. DOMAIN worker' = {}
    BY <1>1
  <2> QED
    BY <2>1, <2>2, <2>3, <1>1, <1>8 DEF AuthIsComing
<1>11. TokensBelongToStarts' /\ TokensAreTheUsers'
  <2>1. \A i \in DOMAIN main' : main'[i].kind # "token"
    BY <1>8 DEF Changed
  <2>2. DOMAIN worker' = {}
    BY <1>1
  <2> QED
    BY <2>1, <2>2, <1>5, <1>6 DEF TokensBelongToStarts, TokensAreTheUsers
<1>12. StreamIsTheUsers'
  BY <1>5, <1>6 DEF StreamIsTheUsers
<1>13. CommittedAsOwner'
  BY <1>0, <1>1 DEF CommittedAsOwner
<1> QED
  BY <1>9, <1>10, <1>11, <1>12, <1>13 DEF OwnershipInvariant
=============================================================================
