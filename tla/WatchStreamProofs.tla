--------------------------- MODULE WatchStreamProofs ---------------------------
(***************************************************************************)
(* Theorems about WatchStream, for any documents, versions, lookups and    *)
(* bounds.                                                                 *)
(***************************************************************************)
EXTENDS WatchStream, SequenceTheorems, FiniteSetTheorems, WellFoundedInduction,
        TLAPS

-----------------------------------------------------------------------------
(***************************************************************************)
(* Places in a sequence and how many there are.                            *)
(***************************************************************************)
Places(q, T) == {i \in DOMAIN q : q[i] \in T}

Count(q, T) == Cardinality(Places(q, T))

LEMMA Ends ==
  ASSUME NEW S, NEW q \in Seq(S)
  PROVE  /\ Len(q) \in Nat /\ DOMAIN q = 1 .. Len(q)
         /\ \A i \in DOMAIN q : q[i] \in S
         /\ q # <<>> => Len(q) > 0
OBVIOUS

LEMMA Appended ==
  ASSUME NEW S, NEW q \in Seq(S), NEW x \in S
  PROVE  /\ Append(q, x) \in Seq(S)
         /\ DOMAIN Append(q, x) = 1 .. Len(q) + 1
         /\ Len(Append(q, x)) = Len(q) + 1
         /\ Append(q, x)[Len(q) + 1] = x
         /\ \A i \in 1 .. Len(q) : Append(q, x)[i] = q[i]
<1>1. /\ Append(q, x) \in Seq(S)
      /\ Len(Append(q, x)) = Len(q) + 1
      /\ \A i \in 1 .. Len(q) : Append(q, x)[i] = q[i]
      /\ Append(q, x)[Len(q) + 1] = x
  BY AppendProperties
<1> QED
  BY <1>1

LEMMA Removing ==
  ASSUME NEW S, NEW q \in Seq(S), q # <<>>
  PROVE  /\ Tail(q) \in Seq(S)
         /\ DOMAIN Tail(q) = 1 .. Len(q) - 1
         /\ Len(Tail(q)) = Len(q) - 1
         /\ Head(q) = q[1] /\ Head(q) \in S
         /\ \A i \in 1 .. Len(q) - 1 : Tail(q)[i] = q[i + 1]
<1>1. /\ Head(q) \in S
      /\ Tail(q) \in Seq(S)
      /\ Len(Tail(q)) = Len(q) - 1
      /\ \A i \in 1 .. Len(Tail(q)) : Tail(q)[i] = q[i + 1]
  BY HeadTailProperties
<1>2. DOMAIN Tail(q) = 1 .. Len(Tail(q))
  BY <1>1
<1>3. Head(q) = q[1]
  BY HeadTailProperties
<1> QED
  BY <1>1, <1>2, <1>3

LEMMA Joined ==
  ASSUME NEW S, NEW p \in Seq(S), NEW q \in Seq(S)
  PROVE  /\ p \o q \in Seq(S)
         /\ Len(p \o q) = Len(p) + Len(q)
         /\ DOMAIN (p \o q) = 1 .. Len(p) + Len(q)
         /\ \A i \in 1 .. Len(p) + Len(q) :
              (p \o q)[i] = IF i <= Len(p) THEN p[i] ELSE q[i - Len(p)]
OBVIOUS

LEMMA PlacesFinite ==
  ASSUME NEW S, NEW q \in Seq(S), NEW T
  PROVE  /\ IsFiniteSet(Places(q, T)) /\ Places(q, T) \subseteq 1 .. Len(q)
         /\ Count(q, T) \in Nat
<1>1. IsFiniteSet(1 .. Len(q)) /\ Places(q, T) \subseteq 1 .. Len(q)
  <2>1. Len(q) \in Int /\ 1 \in Int /\ DOMAIN q = 1 .. Len(q)
    BY Ends
  <2>2. IsFiniteSet(1 .. Len(q))
    BY <2>1, FS_Interval
  <2> QED
    BY <2>1, <2>2 DEF Places
<1>2. IsFiniteSet(Places(q, T))
  BY <1>1, FS_Subset
<1> QED
  BY <1>1, <1>2, FS_CardinalityType DEF Count

LEMMA NoPlaces ==
  ASSUME NEW T
  PROVE  Places(<<>>, T) = {} /\ Count(<<>>, T) = 0
<1>1. Places(<<>>, T) = {}
  BY DEF Places
<1> QED
  BY <1>1, FS_EmptySet DEF Count

LEMMA CountAppend ==
  ASSUME NEW S, NEW q \in Seq(S), NEW x \in S, NEW T
  PROVE  Count(Append(q, x), T) = IF x \in T THEN Count(q, T) + 1 ELSE Count(q, T)
<1>1. Places(Append(q, x), T) =
        IF x \in T THEN Places(q, T) \cup {Len(q) + 1} ELSE Places(q, T)
  BY Appended, Ends DEF Places
<1>2. Len(q) + 1 \notin Places(q, T)
  BY PlacesFinite, Ends
<1> QED
  BY <1>1, <1>2, PlacesFinite, FS_AddElement DEF Count

LEMMA SameShifted ==
  ASSUME NEW n \in Nat, NEW A \in SUBSET Nat, IsFiniteSet(A)
  PROVE  LET B == {i + n : i \in A}
         IN  IsFiniteSet(B) /\ Cardinality(B) = Cardinality(A)
<1> DEFINE B == {i + n : i \in A}
           f == [i \in A |-> i + n]
<1>1. f \in Bijection(A, B)
  BY DEF Bijection, Injection, Surjection, IsInjective
<1>2. ExistsBijection(A, B)
  BY <1>1 DEF ExistsBijection
<1> QED
  BY <1>2, FS_Bijection

LEMMA CountJoined ==
  ASSUME NEW S, NEW p \in Seq(S), NEW q \in Seq(S), NEW T
  PROVE  Count(p \o q, T) = Count(p, T) + Count(q, T)
<1> DEFINE B == {i + Len(p) : i \in Places(q, T)}
<1>1. Len(p) \in Nat /\ Len(q) \in Nat
  BY Ends
<1>2. /\ IsFiniteSet(Places(p, T)) /\ Places(p, T) \subseteq 1 .. Len(p)
      /\ IsFiniteSet(Places(q, T)) /\ Places(q, T) \subseteq 1 .. Len(q)
  BY PlacesFinite
<1>3. IsFiniteSet(B) /\ Cardinality(B) = Count(q, T)
  <2>1. Places(q, T) \in SUBSET Nat
    BY <1>1, <1>2
  <2> QED
    BY <1>1, <1>2, <2>1, SameShifted DEF Count
<1>4. Places(p \o q, T) = Places(p, T) \cup B
  <2>1. ASSUME NEW i \in Places(p \o q, T)
        PROVE  i \in Places(p, T) \cup B
    <3>1. i \in 1 .. Len(p) + Len(q) /\ (p \o q)[i] \in T
      BY Joined DEF Places
    <3>2. CASE i <= Len(p)
      BY <1>1, <3>1, <3>2, Joined, Ends DEF Places
    <3>3. CASE ~(i <= Len(p))
      <4>1. i - Len(p) \in 1 .. Len(q) /\ q[i - Len(p)] \in T
        BY <1>1, <3>1, <3>3, Joined
      <4>2. i - Len(p) \in Places(q, T) /\ i = (i - Len(p)) + Len(p)
        BY <1>1, <3>1, <4>1, Ends DEF Places
      <4> QED
        BY <4>2
    <3> QED
      BY <3>2, <3>3
  <2>2. ASSUME NEW i \in Places(p, T)
        PROVE  i \in Places(p \o q, T)
    BY <1>1, <1>2, <2>2, Joined, Ends DEF Places
  <2>3. ASSUME NEW i \in Places(q, T)
        PROVE  i + Len(p) \in Places(p \o q, T)
    <3>1. i \in 1 .. Len(q) /\ q[i] \in T
      BY <1>2 DEF Places
    <3>2. i + Len(p) \in 1 .. Len(p) + Len(q) /\ ~(i + Len(p) <= Len(p))
          /\ i + Len(p) - Len(p) = i
      BY <1>1, <3>1
    <3> QED
      BY <3>1, <3>2, Joined DEF Places
  <2> QED
    BY <2>1, <2>2, <2>3
<1>5. Places(p, T) \cap B = {}
  BY <1>1, <1>2
<1> HIDE DEF B
<1>6. Cardinality(Places(p, T) \cup B) =
        Cardinality(Places(p, T)) + Cardinality(B) - Cardinality(Places(p, T) \cap B)
  BY <1>2, <1>3, FS_Union
<1>7. Count(p, T) \in Nat /\ Count(q, T) \in Nat
  BY PlacesFinite
<1>8. Cardinality(Places(p, T) \cap B) = 0
  BY <1>5, FS_EmptySet
<1>9. Cardinality(Places(p \o q, T)) = Count(p, T) + Count(q, T) - 0
  BY <1>3, <1>4, <1>6, <1>8 DEF Count
<1> QED
  BY <1>7, <1>9 DEF Count

LEMMA CountOne ==
  ASSUME NEW S, NEW x \in S, NEW T
  PROVE  /\ <<x>> \in Seq(S) /\ Len(<<x>>) = 1 /\ <<x>>[1] = x
         /\ Count(<<x>>, T) = IF x \in T THEN 1 ELSE 0
<1>1. Places(<<x>>, T) = IF x \in T THEN {1} ELSE {}
  BY DEF Places
<1> QED
  BY <1>1, FS_Singleton, FS_EmptySet DEF Count

LEMMA CountTail ==
  ASSUME NEW S, NEW q \in Seq(S), q # <<>>, NEW T
  PROVE  Count(q, T) =
           IF Head(q) \in T THEN Count(Tail(q), T) + 1 ELSE Count(Tail(q), T)
<1>1. Head(q) \in S /\ Tail(q) \in Seq(S)
  BY Removing
<1>2. <<Head(q)>> \o Tail(q) = q
  <2>1. <<Head(q)>> \in Seq(S) /\ Len(<<Head(q)>>) = 1 /\ <<Head(q)>>[1] = Head(q)
    BY <1>1, CountOne
  <2>2. Len(q) \in Nat \ {0}
    BY Ends
  <2>3. /\ <<Head(q)>> \o Tail(q) \in Seq(S)
        /\ Len(<<Head(q)>> \o Tail(q)) = Len(q)
        /\ \A i \in 1 .. Len(q) : (<<Head(q)>> \o Tail(q))[i] = q[i]
    <3>1. 1 + (Len(q) - 1) = Len(q)
      BY <2>2
    <3>2. ASSUME NEW i \in 1 .. Len(q), i > 1
          PROVE  i - 1 \in 1 .. Len(q) - 1 /\ (i - 1) + 1 = i /\ ~(i <= 1)
      BY <2>2, <3>2
    <3>3. \A i \in 1 .. Len(q) : i > 1 \/ (i = 1 /\ i <= 1)
      BY <2>2
    <3> QED
      BY <1>1, <2>1, <3>1, <3>2, <3>3, Joined, Removing
  <2> QED
    BY <2>3, SeqEqual
<1>3. Count(q, T) = Count(<<Head(q)>>, T) + Count(Tail(q), T)
  <2>1. <<Head(q)>> \in Seq(S)
    BY <1>1, CountOne
  <2>2. Count(<<Head(q)>> \o Tail(q), T) = Count(<<Head(q)>>, T) + Count(Tail(q), T)
    BY <1>1, <2>1, CountJoined
  <2> QED
    BY <1>2, <2>2
<1>4. Count(Tail(q), T) \in Nat
  BY <1>1, PlacesFinite
<1> QED
  BY <1>1, <1>3, <1>4, CountOne

-----------------------------------------------------------------------------
(***************************************************************************)
(* The parts of the state, field by field.                                 *)
(***************************************************************************)
LEMMA Targets ==
  /\ QueryTarget \in Target /\ LimboTarget \subseteq Target
  /\ QueryTarget \notin LimboTarget
  /\ MaxLimboTargets \in Nat /\ LimboTarget = 1 .. MaxLimboTargets
  /\ Target \subseteq Nat /\ \A t \in Target : t = QueryTarget \/ t \in LimboTarget
BY BoundAssumption DEF Target, QueryTarget, LimboTarget

LEMMA Versions ==
  /\ MaxVersion \in Nat \ {0} /\ 0 \in 0 .. MaxVersion
  /\ \A v \in 0 .. MaxVersion : v \in Nat
BY BoundAssumption

LEMMA StateFields ==
  ASSUME NEW state \in TargetState
  PROVE  /\ state.pending \in Int /\ state.current \in BOOLEAN
         /\ state.dirty \in BOOLEAN /\ state.token \in 0 .. MaxVersion
         /\ state.changes \in [Key -> Change]
         /\ state = [pending |-> state.pending, current |-> state.current,
                     dirty |-> state.dirty, token |-> state.token,
                     changes |-> state.changes]
BY DEF TargetState

LEMMA AggregatorFields ==
  ASSUME NEW a \in WatchAggregator
  PROVE  /\ a.states \in [Target -> TargetState]
         /\ a.updates \in [Key -> DocumentUpdate]
         /\ a.mismatch \in BOOLEAN
BY DEF WatchAggregator

LEMMA RemoteFields ==
  ASSUME NEW r \in RemoteState
  PROVE  /\ r.open \in BOOLEAN /\ r.requests \in Seq(Request)
         /\ r.aggregator \in WatchAggregator
         /\ r.aggregator.states \in [Target -> TargetState]
         /\ r.aggregator.updates \in [Key -> DocumentUpdate]
         /\ r.token \in [Target -> 0 .. MaxVersion]
         /\ r.keyOf \in [LimboTarget -> Key \cup {None}]
         /\ r.received \in SUBSET LimboTarget
         /\ r.byKey \in [Key -> 0 .. MaxLimboTargets]
         /\ r.enqueued \in Seq(Key)
         /\ r.nextId \in 1 .. MaxLimboTargets + 1
<1>1. r.aggregator \in WatchAggregator
  BY DEF RemoteState
<1> QED
  BY <1>1, AggregatorFields DEF RemoteState

LEMMA NewStates ==
  /\ NewState \in TargetState /\ NewAggregator \in WatchAggregator
  /\ NewRemote \in RemoteState
  /\ NewState.pending = 0 /\ NewState.changes = NoChanges
  /\ NoChanges \in [Key -> Change]
  /\ \A k \in Key : NoChanges[k] = None
  /\ \A t \in Target : NewAggregator.states[t] = NewState
  /\ \A k \in Key : NewAggregator.updates[k] = NoUpdate
<1>1. /\ NewState \in TargetState /\ NewState.pending = 0
      /\ NewState.changes = NoChanges
      /\ NoChanges \in [Key -> Change]
      /\ \A k \in Key : NoChanges[k] = None
  BY Versions DEF NewState, TargetState, NoChanges, Change
<1> HIDE DEF NewState
<1>2. /\ NewAggregator \in WatchAggregator
      /\ \A t \in Target : NewAggregator.states[t] = NewState
      /\ \A k \in Key : NewAggregator.updates[k] = NoUpdate
  BY <1>1 DEF NewAggregator, WatchAggregator, DocumentUpdate
<1>3. NewRemote \in RemoteState
  <2>1. <<>> \in Seq(Request) /\ <<>> \in Seq(Key)
    OBVIOUS
  <2>2. 1 \in 1 .. MaxLimboTargets + 1 /\ 0 \in 0 .. MaxLimboTargets
    BY Targets
  <2> HIDE DEF NewAggregator
  <2> QED
    BY <1>2, <2>1, <2>2, Versions, Targets DEF NewRemote, RemoteState
<1> QED
  BY <1>1, <1>2, <1>3

(***************************************************************************)
(* Changing one target of the aggregator, or the requests.                 *)
(***************************************************************************)
Replaced(r, t, state, q) ==
  [r EXCEPT !.aggregator.states[t] = state, !.requests = q]

LEMMA WithState ==
  ASSUME NEW r \in RemoteState, NEW t \in Target, NEW state \in TargetState,
         NEW q \in Seq(Request), NEW p, p = Replaced(r, t, state, q)
  PROVE  /\ p \in RemoteState
         /\ p.open = r.open /\ p.requests = q /\ p.token = r.token
         /\ p.keyOf = r.keyOf /\ p.received = r.received
         /\ p.byKey = r.byKey /\ p.enqueued = r.enqueued
         /\ p.nextId = r.nextId
         /\ p.aggregator.updates = r.aggregator.updates
         /\ p.aggregator.mismatch = r.aggregator.mismatch
         /\ p.aggregator.states[t] = state
         /\ \A s \in Target \ {t} :
              p.aggregator.states[s] = r.aggregator.states[s]
<1> DEFINE a == [r.aggregator EXCEPT !.states[t] = state]
<1>1. /\ a \in WatchAggregator /\ a.states[t] = state
      /\ a.updates = r.aggregator.updates /\ a.mismatch = r.aggregator.mismatch
      /\ \A s \in Target \ {t} : a.states[s] = r.aggregator.states[s]
  BY RemoteFields DEF WatchAggregator
<1>2. p = [r EXCEPT !.aggregator = a, !.requests = q]
  BY DEF Replaced, RemoteState
<1> HIDE DEF a
<1> QED
  BY <1>1, <1>2 DEF RemoteState

LEMMA WithPending ==
  ASSUME NEW state \in TargetState, NEW n \in Int
  PROVE  /\ [state EXCEPT !.pending = n] \in TargetState
         /\ [state EXCEPT !.pending = n].pending = n
         /\ [state EXCEPT !.pending = n].changes = state.changes
         /\ [state EXCEPT !.pending = n].current = state.current
         /\ [state EXCEPT !.pending = n].dirty = state.dirty
         /\ [state EXCEPT !.pending = n].token = state.token
BY DEF TargetState

-----------------------------------------------------------------------------
(***************************************************************************)
(* A request that is sent is awaited: the difference between what is       *)
(* awaited of a target and its requests stays.                             *)
(***************************************************************************)
RequestTo(t) == {m \in Request : m.target = t}

AnswerOf(t) ==
  {m \in Message : m.type \in {"added", "removed"} /\ m.target = t}

Pending(r, t) == r.aggregator.states[t].pending

Balance(r, t) == Pending(r, t) - Count(r.requests, RequestTo(t))

Unwatch(t) == [type |-> "unwatch", target |-> t]

LEMMA Requests ==
  ASSUME NEW r \in RemoteState, NEW t \in Target
  PROVE  /\ WatchRequest(r, t) \in Request /\ WatchRequest(r, t).target = t
         /\ WatchRequest(r, t).type = "watch"
         /\ Unwatch(t) \in Request /\ Unwatch(t).target = t
         /\ Unwatch(t).type = "unwatch"
<1>1. Unwatch(t) \in Request /\ Unwatch(t).target = t /\ Unwatch(t).type = "unwatch"
  BY DEF Unwatch, Request
<1>2. r.token[t] \in 0 .. MaxVersion
  BY RemoteFields
<1>3. (IF t = QueryTarget THEN None ELSE r.keyOf[t]) \in Key \cup {None}
  BY RemoteFields, Targets
<1> QED
  BY <1>1, <1>2, <1>3 DEF WatchRequest, Request

LEMMA PendingType ==
  ASSUME NEW r \in RemoteState, NEW t \in Target
  PROVE  /\ r.aggregator.states[t] \in TargetState
         /\ Pending(r, t) \in Int /\ Count(r.requests, RequestTo(t)) \in Nat
         /\ Balance(r, t) \in Int
<1>1. r.aggregator.states[t] \in TargetState /\ r.requests \in Seq(Request)
  BY RemoteFields
<1>2. Pending(r, t) \in Int
  BY <1>1, StateFields DEF Pending
<1>3. Count(r.requests, RequestTo(t)) \in Nat
  BY <1>1, PlacesFinite
<1> QED
  BY <1>1, <1>2, <1>3 DEF Balance

(***************************************************************************)
(* A remote state after one more request.                                  *)
(***************************************************************************)
With(r, t, m) ==
  [r EXCEPT !.aggregator.states[t].pending = @ + 1, !.requests = Append(@, m)]

Adds(r, t, m, p) ==
  /\ p \in RemoteState
  /\ p.open = r.open /\ p.token = r.token
  /\ p.keyOf = r.keyOf /\ p.received = r.received
  /\ p.byKey = r.byKey /\ p.enqueued = r.enqueued
  /\ p.nextId = r.nextId
  /\ p.requests = Append(r.requests, m)
  /\ p.aggregator.updates = r.aggregator.updates
  /\ p.aggregator.mismatch = r.aggregator.mismatch
  /\ \A s \in Target :
       /\ p.aggregator.states[s] =
            [r.aggregator.states[s] EXCEPT !.pending = Pending(p, s)]
       /\ s = t => Pending(p, s) = Pending(r, s) + 1
       /\ s # t => Pending(p, s) = Pending(r, s)
       /\ Balance(p, s) = Balance(r, s)

LEMMA Sent ==
  ASSUME NEW r \in RemoteState, NEW t \in Target, NEW m \in Request, m.target = t
  PROVE  Adds(r, t, m, With(r, t, m))
<1> DEFINE p == With(r, t, m)
           state == [r.aggregator.states[t] EXCEPT !.pending = @ + 1]
           q == Append(r.requests, m)
<1>1. /\ r.aggregator.states \in [Target -> TargetState]
      /\ r.requests \in Seq(Request)
  BY RemoteFields
<1>2. q \in Seq(Request)
  BY <1>1, Appended
<1>3. state \in TargetState /\ state.pending = Pending(r, t) + 1
      /\ state = [r.aggregator.states[t] EXCEPT !.pending = Pending(r, t) + 1]
  <2>1. r.aggregator.states[t] \in TargetState
        /\ r.aggregator.states[t].pending + 1 \in Int
    BY <1>1, StateFields
  <2> QED
    BY <2>1, WithPending DEF Pending
<1>4. p = Replaced(r, t, state, q)
  BY DEF p, With, Replaced
<1> HIDE DEF p, state, q
<1>5. /\ p \in RemoteState
      /\ p.open = r.open /\ p.requests = q /\ p.token = r.token
      /\ p.keyOf = r.keyOf /\ p.received = r.received
      /\ p.byKey = r.byKey /\ p.enqueued = r.enqueued
      /\ p.nextId = r.nextId
      /\ p.aggregator.updates = r.aggregator.updates
      /\ p.aggregator.mismatch = r.aggregator.mismatch
      /\ p.aggregator.states[t] = state
      /\ \A s \in Target \ {t} :
           p.aggregator.states[s] = r.aggregator.states[s]
  BY <1>2, <1>3, <1>4, WithState
<1>6. ASSUME NEW s \in Target
      PROVE  /\ p.aggregator.states[s] =
                  [r.aggregator.states[s] EXCEPT !.pending = Pending(p, s)]
             /\ s = t => Pending(p, s) = Pending(r, s) + 1
             /\ s # t => Pending(p, s) = Pending(r, s)
             /\ Balance(p, s) = Balance(r, s)
  <2>1. Count(q, RequestTo(s)) =
          IF s = t THEN Count(r.requests, RequestTo(s)) + 1
          ELSE Count(r.requests, RequestTo(s))
    BY <1>1, CountAppend DEF RequestTo, q
  <2>2. Count(r.requests, RequestTo(s)) \in Nat
    BY <1>1, PlacesFinite
  <2>3. r.aggregator.states[s] \in TargetState /\ Pending(r, s) \in Int
    BY <1>1, StateFields DEF Pending
  <2>4. /\ s = t => Pending(p, s) = Pending(r, s) + 1
        /\ s # t => Pending(p, s) = Pending(r, s)
    <3>1. CASE s = t
      BY <1>3, <1>5, <3>1 DEF Pending
    <3>2. CASE s # t
      BY <1>5, <2>3, <3>2 DEF Pending
    <3> QED
      BY <3>1, <3>2
  <2>5. p.aggregator.states[s] =
          [r.aggregator.states[s] EXCEPT !.pending = Pending(p, s)]
    <3>1. CASE s = t
      BY <1>3, <1>5, <3>1 DEF Pending
    <3>2. CASE s # t
      BY <1>5, <2>3, <3>2, StateFields DEF Pending, TargetState
    <3> QED
      BY <3>1, <3>2
  <2> QED
    BY <1>5, <2>1, <2>2, <2>3, <2>4, <2>5 DEF Balance
<1> QED
  BY <1>5, <1>6 DEF Adds, p, q

LEMMA SendsAre ==
  ASSUME NEW r, NEW t
  PROVE  /\ SendWatchRequest(r, t) =
              IF r.open THEN With(r, t, WatchRequest(r, t)) ELSE r
         /\ SendUnwatchRequest(r, t) =
              IF r.open THEN With(r, t, Unwatch(t)) ELSE r
BY DEF SendWatchRequest, SendUnwatchRequest, With, Unwatch

(***************************************************************************)
(* What lookups and requests change: p comes from r by nothing else.       *)
(***************************************************************************)
Follows(r, p) ==
  /\ p \in RemoteState
  /\ p.open = r.open
  /\ p.token[QueryTarget] = r.token[QueryTarget]
  /\ p.aggregator.updates = r.aggregator.updates
  /\ p.aggregator.mismatch = r.aggregator.mismatch
  /\ ~r.open => p.aggregator = r.aggregator /\ p.requests = r.requests
  /\ \A s \in Target :
       /\ p.aggregator.states[s] =
            [r.aggregator.states[s] EXCEPT !.pending = Pending(p, s)]
       /\ Pending(p, s) >= Pending(r, s)
       /\ Balance(p, s) = Balance(r, s)

LEMMA Same ==
  ASSUME NEW r \in RemoteState
  PROVE  Follows(r, r)
<1>1. ASSUME NEW s \in Target
      PROVE  /\ r.aggregator.states[s] =
                  [r.aggregator.states[s] EXCEPT !.pending = Pending(r, s)]
             /\ Pending(r, s) \in Int
  BY RemoteFields, StateFields DEF Pending, TargetState
<1> QED
  BY <1>1 DEF Follows

LEMMA FollowsSent ==
  ASSUME NEW r \in RemoteState, NEW p, Follows(r, p),
         NEW t \in Target, NEW m \in Request, m.target = t, p.open
  PROVE  Follows(r, With(p, t, m))
<1> DEFINE n == With(p, t, m)
<1>1. p \in RemoteState /\ r.open
  BY DEF Follows
<1> HIDE DEF n
<1>2. Adds(p, t, m, n)
  BY <1>1, Sent DEF n
<1>3. ASSUME NEW s \in Target
      PROVE  /\ n.aggregator.states[s] =
                  [r.aggregator.states[s] EXCEPT !.pending = Pending(n, s)]
             /\ Pending(n, s) >= Pending(r, s)
             /\ Balance(n, s) = Balance(r, s)
  <2>1. /\ p.aggregator.states[s] =
             [r.aggregator.states[s] EXCEPT !.pending = Pending(p, s)]
        /\ Pending(p, s) >= Pending(r, s) /\ Balance(p, s) = Balance(r, s)
    BY DEF Follows
  <2>2. /\ r.aggregator.states[s] \in TargetState
        /\ Pending(r, s) \in Int /\ Pending(p, s) \in Int /\ Pending(n, s) \in Int
    BY <1>1, <1>2, PendingType DEF Adds, Follows
  <2>3. n.aggregator.states[s] =
          [r.aggregator.states[s] EXCEPT !.pending = Pending(n, s)]
    BY <1>2, <2>1, <2>2 DEF TargetState, Adds
  <2>4. Pending(n, s) = Pending(p, s) + 1 \/ Pending(n, s) = Pending(p, s)
    BY <1>2 DEF Adds
  <2>5. Pending(n, s) >= Pending(r, s)
    BY <2>1, <2>2, <2>4
  <2> QED
    BY <1>2, <2>1, <2>3, <2>5 DEF Adds
<1> QED
  BY <1>1, <1>2, <1>3 DEF Follows, Adds, n

(***************************************************************************)
(* Changes of the bookkeeping that is not about requests.                  *)
(***************************************************************************)
SameStream(p, n) ==
  /\ n.open = p.open /\ n.requests = p.requests /\ n.aggregator = p.aggregator
  /\ n.token[QueryTarget] = p.token[QueryTarget]

LEMMA FollowsSame ==
  ASSUME NEW r, NEW p, Follows(r, p), NEW n \in RemoteState, SameStream(p, n)
  PROVE  Follows(r, n)
BY DEF Follows, SameStream, Pending, Balance

-----------------------------------------------------------------------------
(***************************************************************************)
(* A set of natural numbers has a least element.                           *)
(***************************************************************************)
LEMMA LeastNumber ==
  ASSUME NEW T \in SUBSET Nat, T # {}
  PROVE  \E x \in T : \A y \in T : x <= y
<1> DEFINE R == OpToRel(<, Nat)
<1>1. IsWellFoundedOn(R, Nat)
  BY NatLessThanWellFounded
<1>2. \A x, y \in Nat : x < y => <<x, y>> \in R
  BY DEF OpToRel
<1> HIDE DEF R
<1>3. PICK x \in T : \A y \in T : ~(<<y, x>> \in R)
  BY <1>1, WFMin
<1>4. ASSUME NEW y \in T
      PROVE  x <= y
  <2>1. x \in Nat /\ y \in Nat
    OBVIOUS
  <2>2. ~(y < x)
    BY <1>2, <1>3, <2>1
  <2> QED
    BY <2>1, <2>2
<1> QED
  BY <1>4

(***************************************************************************)
(* Induction up to a number: a set that has 0 and, with each number, the   *)
(* next one, has them all.                                                 *)
(***************************************************************************)
LEMMA UpTo ==
  ASSUME NEW m \in Nat, NEW T, 0 \in T,
         \A n \in 1 .. m : n - 1 \in T => n \in T
  PROVE  \A n \in 0 .. m : n \in T
<1> DEFINE Rest == {n \in 0 .. m : n \notin T}
<1> SUFFICES ASSUME Rest # {}
             PROVE  FALSE
  OBVIOUS
<1>1. PICK x \in Rest : \A y \in Rest : x <= y
  <2>1. Rest \in SUBSET Nat
    OBVIOUS
  <2> HIDE DEF Rest
  <2> QED
    BY <2>1, LeastNumber
<1>2. x \in 1 .. m /\ x \notin T
  BY <1>1
<1>3. x - 1 \in 0 .. m /\ ~(x <= x - 1)
  BY <1>2
<1>4. x - 1 \in T
  BY <1>1, <1>3
<1> QED
  BY <1>2, <1>4

(***************************************************************************)
(* The values of a recursive function: one step after the other from x.    *)
(***************************************************************************)
Steps(f, m, x, next) ==
  f = [n \in 0 .. m |-> IF n = 0 THEN x ELSE next[n][f[n - 1]]]

LEMMA StepsExist ==
  ASSUME NEW m \in Nat, NEW X, NEW x \in X, NEW next \in [1 .. m -> [X -> X]]
  PROVE  \E f : Steps(f, m, x, next) /\ \A n \in 0 .. m : f[n] \in X
<1> DEFINE Reached ==
             {j \in 0 .. m : \E f : Steps(f, j, x, next) /\ \A n \in 0 .. j : f[n] \in X}
<1>1. 0 \in Reached
  <2> DEFINE f == [n \in 0 .. 0 |-> x]
  <2>1. Steps(f, 0, x, next) /\ \A n \in 0 .. 0 : f[n] \in X
    BY DEF Steps
  <2> HIDE DEF f
  <2> QED
    BY <2>1
<1>2. ASSUME NEW j \in 1 .. m, j - 1 \in Reached
      PROVE  j \in Reached
  <2>1. PICK f : /\ Steps(f, j - 1, x, next)
                 /\ \A n \in 0 .. j - 1 : f[n] \in X
    BY <1>2
  <2> DEFINE g == [n \in 0 .. j |-> IF n = j THEN next[j][f[j - 1]] ELSE f[n]]
  <2>2. j - 1 \in 0 .. j - 1 /\ j # 0 /\ j \in 0 .. j /\ j - 1 \in 0 .. j
        /\ j - 1 # j
    OBVIOUS
  <2>3. next[j][f[j - 1]] \in X
    BY <2>1, <2>2
  <2>4. ASSUME NEW n \in 0 .. j
        PROVE  /\ g[n] = IF n = 0 THEN x ELSE next[n][g[n - 1]]
               /\ g[n] \in X
    <3>1. CASE n = j
      <4>1. g[n] = next[j][f[j - 1]] /\ g[j - 1] = f[j - 1]
        BY <2>2, <3>1
      <4> QED
        BY <2>2, <2>3, <3>1, <4>1
    <3>2. CASE n # j
      <4>1. n \in 0 .. j - 1 /\ (n # 0 => n - 1 \in 0 .. j /\ n - 1 # j)
        BY <3>2
      <4>2. g[n] = f[n] /\ (n # 0 => g[n - 1] = f[n - 1])
        BY <3>2, <4>1
      <4>3. f[n] = IF n = 0 THEN x ELSE next[n][f[n - 1]]
        BY <2>1, <4>1 DEF Steps
      <4> QED
        BY <2>1, <4>1, <4>2, <4>3
    <3> QED
      BY <3>1, <3>2
  <2>5. g = [n \in 0 .. j |-> g[n]]
    OBVIOUS
  <2> HIDE DEF g
  <2>6. Steps(g, j, x, next)
    BY <2>4, <2>5 DEF Steps
  <2> QED
    BY <2>4, <2>6
<1> HIDE DEF Reached
<1>3. m \in Reached
  <2>1. \A n \in 0 .. m : n \in Reached
    BY <1>1, <1>2, UpTo
  <2> QED
    BY <2>1
<1> QED
  BY <1>3 DEF Reached

(***************************************************************************)
(* Lookups that wait are started: what every single one keeps, all keep.   *)
(***************************************************************************)
LEMMA PumpStays ==
  ASSUME NEW X, NEW r \in X, Len(r.enqueued) \in Nat,
         \A p \in X : p.enqueued # <<>> /\ p.nextId <= MaxLimboTargets
                        => StartLimbo(p) \in X
  PROVE  PumpEnqueuedLimboResolutions(r) \in X
<1> DEFINE m == Len(r.enqueued)
           Started(p) ==
             IF /\ p.enqueued # <<>> /\ p.nextId <= MaxLimboTargets
                /\ Cardinality(ActiveLimbo(p)) < MaxConcurrentLimbo
             THEN StartLimbo(p) ELSE p
           next == [n \in 1 .. m |-> [p \in X |-> Started(p)]]
           Body(f) ==
             [n \in 0 .. m |->
                LET p == IF n = 0 THEN r ELSE f[n - 1]
                IN  IF n > 0 /\ p.enqueued # <<>> /\ p.nextId <= MaxLimboTargets
                       /\ Cardinality(ActiveLimbo(p)) < MaxConcurrentLimbo
                    THEN StartLimbo(p)
                    ELSE p]
           pump == CHOOSE f : f = Body(f)
<1>1. \A p \in X : Started(p) \in X
  OBVIOUS
<1>2. \E f : f = Body(f)
  <2>1. next \in [1 .. m -> [X -> X]]
    BY <1>1
  <2>2. PICK f : Steps(f, m, r, next) /\ \A n \in 0 .. m : f[n] \in X
    <3> HIDE DEF next
    <3> QED
      BY <2>1, StepsExist
  <2>3. ASSUME NEW n \in 0 .. m
        PROVE  (IF n = 0 THEN r ELSE next[n][f[n - 1]]) = Body(f)[n]
    <3>1. CASE n = 0
      BY <3>1
    <3>2. CASE n # 0
      <4>1. n \in 1 .. m /\ n > 0 /\ f[n - 1] \in X
        BY <2>2, <3>2
      <4>2. next[n][f[n - 1]] = Started(f[n - 1])
        BY <4>1
      <4>3. Body(f)[n] = Started(f[n - 1])
        BY <3>2, <4>1
      <4> QED
        BY <3>2, <4>2, <4>3
    <3> QED
      BY <3>1, <3>2
  <2>4. f = [n \in 0 .. m |-> Body(f)[n]]
    <3>1. f = [n \in 0 .. m |-> IF n = 0 THEN r ELSE next[n][f[n - 1]]]
      BY <2>2 DEF Steps
    <3> HIDE DEF Body, next
    <3> QED
      BY <2>3, <3>1
  <2>5. f = Body(f)
    BY <2>4
  <2> QED
    BY <2>5
<1>3. pump = Body(pump)
  BY <1>2
<1>4. \A n \in 0 .. m : pump[n] \in X
  <2> DEFINE T == {n \in 0 .. m : pump[n] \in X}
  <2> HIDE DEF pump
  <2>1. 0 \in T
    BY <1>3
  <2>2. ASSUME NEW n \in 1 .. m, n - 1 \in T
        PROVE  n \in T
    <3>1. pump[n] = Started(pump[n - 1])
      BY <1>3
    <3> QED
      BY <1>1, <2>2, <3>1
  <2> HIDE DEF T
  <2>3. \A n \in 0 .. m : n \in T
    BY <2>1, <2>2, UpTo
  <2> QED
    BY <2>3 DEF T
<1>5. PumpEnqueuedLimboResolutions(r) = pump[m]
  BY DEF PumpEnqueuedLimboResolutions
<1> HIDE DEF pump
<1> QED
  BY <1>4, <1>5

(***************************************************************************)
(* A finite set as a sequence: each of its members once.                   *)
(***************************************************************************)
LEMMA AsSequence ==
  ASSUME NEW S, IsFiniteSet(S)
  PROVE  /\ Cardinality(S) \in Nat
         /\ SetToSeq(S) \in [1 .. Cardinality(S) -> S]
         /\ SetToSeq(S) \in Seq(S)
         /\ Len(SetToSeq(S)) = Cardinality(S)
         /\ DOMAIN SetToSeq(S) = 1 .. Cardinality(S)
         /\ \A x \in S : \E i \in 1 .. Cardinality(S) : SetToSeq(S)[i] = x
<1> DEFINE c == Cardinality(S)
<1>1. c \in Nat
  BY FS_CardinalityType
<1>2. PICK h \in Bijection(1 .. c, S) : TRUE
  <2>1. ExistsBijection(1 .. c, S)
    BY FS_CardinalityType
  <2> QED
    BY <2>1 DEF ExistsBijection
<1>3. h \in [1 .. c -> S] /\ IsInjective(h)
  BY <1>2 DEF Bijection, Injection, IsInjective
<1>4. SetToSeq(S) \in [1 .. c -> S] /\ IsInjective(SetToSeq(S))
  BY <1>3 DEF SetToSeq
<1>5. SetToSeq(S) \in Injection(1 .. c, S)
  BY <1>4 DEF Injection, IsInjective
<1>6. SetToSeq(S) \in Surjection(1 .. c, S)
  <2>1. c \in Int /\ 1 \in Int
    BY <1>1
  <2>2. IsFiniteSet(1 .. c) /\ Cardinality(1 .. c) = c
    <3>1. Cardinality(1 .. c) = IF 1 > c THEN 0 ELSE c - 1 + 1
      BY <2>1, FS_Interval
    <3> QED
      BY <1>1, <2>1, <3>1, FS_Interval
  <2> QED
    BY <1>5, <2>2, FS_Injection
<1> QED
  BY <1>1, <1>4, <1>6 DEF Surjection

(***************************************************************************)
(* What starting, stopping and asking for a lookup keep, is kept when the  *)
(* documents in limbo change.                                              *)
(***************************************************************************)
Enqueued(r, key) == [r EXCEPT !.enqueued = Append(@, key)]

Stopped(r, key) ==
  ForgetLimboTarget(SendUnwatchRequest([r EXCEPT !.byKey[key] = 0], r.byKey[key]),
                    r.byKey[key])

KeepLookups(X) ==
  /\ X \subseteq RemoteState
  /\ \A p \in X : p.enqueued # <<>> /\ p.nextId <= MaxLimboTargets
                    => StartLimbo(p) \in X
  /\ \A p \in X : \A key \in Key : Enqueued(p, key) \in X
  /\ \A p \in X : \A key \in Key : p.byKey[key] # 0 => Stopped(p, key) \in X

LEMMA Pumped ==
  ASSUME NEW X, KeepLookups(X), NEW p \in X
  PROVE  PumpEnqueuedLimboResolutions(p) \in X
<1>1. Len(p.enqueued) \in Nat
  BY RemoteFields, Ends DEF KeepLookups
<1> QED
  BY <1>1, PumpStays DEF KeepLookups

LEMMA KeySequence ==
  ASSUME NEW S \in SUBSET Key
  PROVE  /\ SetToSeq(S) \in Seq(S) /\ Len(SetToSeq(S)) \in Nat
         /\ DOMAIN SetToSeq(S) = 1 .. Len(SetToSeq(S))
         /\ \A n \in 1 .. Len(SetToSeq(S)) : SetToSeq(S)[n] \in S
         /\ \A x \in S : \E n \in 1 .. Len(SetToSeq(S)) : SetToSeq(S)[n] = x
<1>1. IsFiniteSet(S)
  BY BoundAssumption, FS_Subset
<1>2. /\ SetToSeq(S) \in Seq(S) /\ Cardinality(S) \in Nat
      /\ Len(SetToSeq(S)) = Cardinality(S)
      /\ \A x \in S : \E i \in 1 .. Cardinality(S) : SetToSeq(S)[i] = x
  BY <1>1, AsSequence
<1> QED
  BY <1>2, Ends

LEMMA TrackStays ==
  ASSUME NEW X, KeepLookups(X), NEW r \in X,
         NEW old \in SUBSET Key, NEW new \in SUBSET Key
  PROVE  UpdateTrackedLimboDocuments(r, old, new) \in X
<1> DEFINE gone == SetToSeq(old \ new)
           come == SetToSeq(new \ old)
           m == Len(gone) + Len(come)
           Tracked(n, p) ==
             IF n <= Len(gone) THEN RemoveLimboTarget(p, gone[n])
             ELSE TrackLimboChange(p, come[n - Len(gone)])
           next == [n \in 1 .. m |-> [p \in X |-> Tracked(n, p)]]
           Body(f) ==
             [n \in 0 .. m |->
                IF n = 0 THEN r
                ELSE IF n <= Len(gone)
                THEN RemoveLimboTarget(f[n - 1], gone[n])
                ELSE TrackLimboChange(f[n - 1], come[n - Len(gone)])]
           track == CHOOSE f : f = Body(f)
<1>1. /\ Len(gone) \in Nat /\ \A n \in 1 .. Len(gone) : gone[n] \in Key
      /\ Len(come) \in Nat /\ \A n \in 1 .. Len(come) : come[n] \in Key
  <2>1. (old \ new) \in SUBSET Key /\ (new \ old) \in SUBSET Key
    OBVIOUS
  <2> QED
    BY <2>1, KeySequence
<1> HIDE DEF gone, come
<1>2. ASSUME NEW p \in X, NEW n \in 1 .. m
      PROVE  Tracked(n, p) \in X
  <2>1. ASSUME NEW key \in Key
        PROVE  RemoveLimboTarget(p, key) \in X
    <3>1. CASE p.byKey[key] = 0
      BY <3>1 DEF RemoveLimboTarget
    <3>2. CASE p.byKey[key] # 0
      <4>1. Stopped(p, key) \in X
        BY <3>2 DEF KeepLookups
      <4>2. RemoveLimboTarget(p, key) =
              PumpEnqueuedLimboResolutions(Stopped(p, key))
        BY <3>2 DEF RemoveLimboTarget, Stopped
      <4> QED
        BY <4>1, <4>2, Pumped
    <3> QED
      BY <3>1, <3>2
  <2>2. ASSUME NEW key \in Key
        PROVE  TrackLimboChange(p, key) \in X
    <3>1. Enqueued(p, key) \in X
      BY DEF KeepLookups
    <3>2. PumpEnqueuedLimboResolutions(Enqueued(p, key)) \in X
      BY <3>1, Pumped
    <3> QED
      BY <3>2 DEF TrackLimboChange, Enqueued
  <2>3. n <= Len(gone) => n \in 1 .. Len(gone)
    BY <1>1
  <2>4. ~(n <= Len(gone)) => n - Len(gone) \in 1 .. Len(come)
    BY <1>1
  <2> QED
    BY <1>1, <2>1, <2>2, <2>3, <2>4
<1>3. \E f : f = Body(f)
  <2>1. next \in [1 .. m -> [X -> X]]
    BY <1>2
  <2>2. m \in Nat
    BY <1>1
  <2>3. PICK f : Steps(f, m, r, next) /\ \A n \in 0 .. m : f[n] \in X
    <3> HIDE DEF next, m
    <3> QED
      BY <2>1, <2>2, StepsExist
  <2> HIDE DEF m
  <2>4. ASSUME NEW n \in 0 .. m
        PROVE  (IF n = 0 THEN r ELSE next[n][f[n - 1]]) = Body(f)[n]
    <3>1. CASE n = 0
      BY <3>1
    <3>2. CASE n # 0
      <4>1. n \in 1 .. m /\ f[n - 1] \in X
        BY <2>2, <2>3, <3>2
      <4>2. next[n][f[n - 1]] = Tracked(n, f[n - 1])
        BY <4>1
      <4>3. Body(f)[n] = Tracked(n, f[n - 1])
        BY <3>2
      <4> QED
        BY <3>2, <4>2, <4>3
    <3> QED
      BY <3>1, <3>2
  <2>5. f = [n \in 0 .. m |-> Body(f)[n]]
    <3>1. f = [n \in 0 .. m |-> IF n = 0 THEN r ELSE next[n][f[n - 1]]]
      BY <2>3 DEF Steps
    <3> HIDE DEF Body, next
    <3> QED
      BY <2>4, <3>1
  <2>6. f = Body(f)
    BY <2>5
  <2> QED
    BY <2>6
<1>4. track = Body(track)
  BY <1>3
<1>5. m \in Nat
  BY <1>1
<1> HIDE DEF m
<1>6. \A n \in 0 .. m : track[n] \in X
  <2> DEFINE T == {n \in 0 .. m : track[n] \in X}
  <2> HIDE DEF track
  <2>1. 0 \in T
    BY <1>4, <1>5
  <2>2. ASSUME NEW n \in 1 .. m, n - 1 \in T
        PROVE  n \in T
    <3>1. track[n] = Tracked(n, track[n - 1])
      <4>1. n \in 0 .. m /\ n # 0
        BY <1>5
      <4> QED
        BY <1>4, <4>1
    <3> HIDE DEF Tracked
    <3> QED
      BY <1>2, <1>5, <2>2, <3>1
  <2> HIDE DEF T
  <2>3. \A n \in 0 .. m : n \in T
    BY <1>5, <2>1, <2>2, UpTo
  <2> QED
    BY <2>3 DEF T
<1>7. UpdateTrackedLimboDocuments(r, old, new) = track[m]
  BY DEF UpdateTrackedLimboDocuments, gone, come, m
<1> HIDE DEF track
<1> QED
  BY <1>5, <1>6, <1>7

(***************************************************************************)
(* Starting and stopping a lookup: the bookkeeping, then the request.      *)
(***************************************************************************)
Looked(r) ==
  [r EXCEPT !.enqueued = Tail(@), !.nextId = @ + 1,
            !.keyOf[r.nextId] = Head(r.enqueued), !.token[r.nextId] = 0,
            !.byKey[Head(r.enqueued)] = IF @ = 0 THEN r.nextId ELSE @]

LEMMA Starts ==
  ASSUME NEW r \in RemoteState, r.enqueued # <<>>, r.nextId <= MaxLimboTargets,
         NEW t, t = r.nextId
  PROVE  /\ t \in LimboTarget /\ t \in Target /\ t # QueryTarget
         /\ Looked(r) \in RemoteState /\ SameStream(r, Looked(r))
         /\ Looked(r).nextId = t + 1 /\ Looked(r).received = r.received
         /\ Looked(r).keyOf[t] \in Key
         /\ Looked(r).token[t] = 0
         /\ \A s \in LimboTarget : s # t => Looked(r).keyOf[s] = r.keyOf[s]
         /\ \A s \in Target : s # t => Looked(r).token[s] = r.token[s]
         /\ StartLimbo(r) = SendWatchRequest(Looked(r), t)
<1>1. t \in LimboTarget /\ t \in Target /\ t # QueryTarget
      /\ t \in 1 .. MaxLimboTargets /\ t \in 0 .. MaxLimboTargets
      /\ t + 1 \in 1 .. MaxLimboTargets + 1
  BY RemoteFields, Targets
<1>2. Head(r.enqueued) \in Key /\ Tail(r.enqueued) \in Seq(Key)
  BY RemoteFields, Removing
<1>3. /\ Looked(r) \in RemoteState
      /\ Looked(r).nextId = t + 1 /\ Looked(r).received = r.received
      /\ Looked(r).keyOf = [r.keyOf EXCEPT ![t] = Head(r.enqueued)]
      /\ Looked(r).token = [r.token EXCEPT ![t] = 0]
      /\ Looked(r).open = r.open /\ Looked(r).requests = r.requests
      /\ Looked(r).aggregator = r.aggregator
  <2> DEFINE e == Tail(r.enqueued)
             k == [r.keyOf EXCEPT ![t] = Head(r.enqueued)]
             n == [r.token EXCEPT ![t] = 0]
             b == [r.byKey EXCEPT ![Head(r.enqueued)] = IF @ = 0 THEN t ELSE @]
  <2>1. /\ e \in Seq(Key) /\ k \in [LimboTarget -> Key \cup {None}]
        /\ n \in [Target -> 0 .. MaxVersion] /\ b \in [Key -> 0 .. MaxLimboTargets]
    BY <1>1, <1>2, RemoteFields, Versions
  <2>2. Looked(r) = [r EXCEPT !.enqueued = e, !.nextId = t + 1, !.keyOf = k,
                              !.token = n, !.byKey = b]
    BY DEF Looked, RemoteState
  <2> HIDE DEF e, k, n, b
  <2>3. /\ Looked(r) \in RemoteState
        /\ Looked(r).nextId = t + 1 /\ Looked(r).received = r.received
        /\ Looked(r).keyOf = k /\ Looked(r).token = n
        /\ Looked(r).open = r.open /\ Looked(r).requests = r.requests
        /\ Looked(r).aggregator = r.aggregator
    BY <1>1, <2>1, <2>2 DEF RemoteState
  <2> QED
    BY <2>3 DEF k, n
<1>4. StartLimbo(r) = SendWatchRequest(Looked(r), t)
  BY DEF StartLimbo, Looked
<1>5. r.keyOf \in [LimboTarget -> Key \cup {None}]
      /\ r.token \in [Target -> 0 .. MaxVersion] /\ QueryTarget \in Target
  BY RemoteFields, Targets
<1> QED
  BY <1>1, <1>2, <1>3, <1>4, <1>5 DEF SameStream

Unkeyed(r, key) == [r EXCEPT !.byKey[key] = 0]

LEMMA Stops ==
  ASSUME NEW r \in RemoteState, NEW key \in Key, r.byKey[key] # 0,
         NEW t, t = r.byKey[key]
  PROVE  /\ t \in LimboTarget /\ t \in Target /\ t # QueryTarget
         /\ Unkeyed(r, key) \in RemoteState /\ SameStream(r, Unkeyed(r, key))
         /\ Unkeyed(r, key).keyOf = r.keyOf
         /\ Unkeyed(r, key).token = r.token
         /\ Unkeyed(r, key).received = r.received
         /\ Unkeyed(r, key).nextId = r.nextId
         /\ Stopped(r, key) =
              ForgetLimboTarget(SendUnwatchRequest(Unkeyed(r, key), t), t)
<1>1. t \in LimboTarget /\ t \in Target /\ t # QueryTarget
  BY RemoteFields, Targets
<1>2. 0 \in 0 .. MaxLimboTargets
  BY Targets
<1> DEFINE b == [r.byKey EXCEPT ![key] = 0]
<1>3. b \in [Key -> 0 .. MaxLimboTargets]
  BY <1>2, RemoteFields
<1>4. Unkeyed(r, key) = [r EXCEPT !.byKey = b]
  BY DEF Unkeyed
<1> HIDE DEF b
<1>5. /\ Unkeyed(r, key) \in RemoteState /\ Unkeyed(r, key).keyOf = r.keyOf
      /\ Unkeyed(r, key).token = r.token /\ Unkeyed(r, key).open = r.open
      /\ Unkeyed(r, key).requests = r.requests
      /\ Unkeyed(r, key).aggregator = r.aggregator
      /\ Unkeyed(r, key).received = r.received
      /\ Unkeyed(r, key).nextId = r.nextId
  BY <1>3, <1>4 DEF RemoteState
<1> QED
  BY <1>1, <1>5 DEF Stopped, Unkeyed, SameStream

LEMMA Forgets ==
  ASSUME NEW r \in RemoteState, NEW t \in LimboTarget
  PROVE  /\ ForgetLimboTarget(r, t) \in RemoteState
         /\ SameStream(r, ForgetLimboTarget(r, t))
         /\ ForgetLimboTarget(r, t).token = r.token
         /\ ForgetLimboTarget(r, t).nextId = r.nextId
         /\ ForgetLimboTarget(r, t).keyOf[t] = None
         /\ t \notin ForgetLimboTarget(r, t).received
         /\ \A s \in LimboTarget :
              s # t => /\ ForgetLimboTarget(r, t).keyOf[s] = r.keyOf[s]
                       /\ s \in ForgetLimboTarget(r, t).received <=> s \in r.received
<1> DEFINE k == [r.keyOf EXCEPT ![t] = None]
           c == r.received \ {t}
<1>1. k \in [LimboTarget -> Key \cup {None}] /\ c \in SUBSET LimboTarget
  BY RemoteFields
<1>2. ForgetLimboTarget(r, t) = [r EXCEPT !.keyOf = k, !.received = c]
  BY DEF ForgetLimboTarget
<1>3. /\ k[t] = None /\ t \notin c
      /\ \A s \in LimboTarget :
           s # t => k[s] = r.keyOf[s] /\ (s \in c <=> s \in r.received)
  BY RemoteFields
<1> HIDE DEF k, c
<1>4. /\ ForgetLimboTarget(r, t) \in RemoteState
      /\ ForgetLimboTarget(r, t).keyOf = k
      /\ ForgetLimboTarget(r, t).received = c
      /\ ForgetLimboTarget(r, t).token = r.token
      /\ ForgetLimboTarget(r, t).nextId = r.nextId
      /\ ForgetLimboTarget(r, t).open = r.open
      /\ ForgetLimboTarget(r, t).requests = r.requests
      /\ ForgetLimboTarget(r, t).aggregator = r.aggregator
  BY <1>1, <1>2 DEF RemoteState
<1> QED
  BY <1>3, <1>4 DEF SameStream

LEMMA Enqueues ==
  ASSUME NEW r \in RemoteState, NEW key \in Key
  PROVE  /\ Enqueued(r, key) \in RemoteState /\ SameStream(r, Enqueued(r, key))
         /\ Enqueued(r, key).keyOf = r.keyOf
         /\ Enqueued(r, key).token = r.token
         /\ Enqueued(r, key).received = r.received
         /\ Enqueued(r, key).nextId = r.nextId
<1>1. Append(r.enqueued, key) \in Seq(Key)
  BY RemoteFields, Appended
<1> QED
  BY <1>1 DEF Enqueued, RemoteState, SameStream

-----------------------------------------------------------------------------
(***************************************************************************)
(* What is collected for lookups fits, and lookups not yet made are blank. *)
(***************************************************************************)
LimboKeys(r, t) == IF t \in r.received THEN {r.keyOf[t]} ELSE {}

LimboFits(r) ==
  \A t \in LimboTarget :
    /\ r.keyOf[t] # None =>
         Fits(r.aggregator.states[t].changes, LimboKeys(r, t))
    /\ t >= r.nextId =>
         /\ r.keyOf[t] = None /\ t \notin r.received
         /\ r.aggregator.states[t].changes = NoChanges

LEMMA NothingFits ==
  ASSUME NEW keys
  PROVE  Fits(NoChanges, keys)
BY NewStates DEF Fits

LEMMA FollowsChanges ==
  ASSUME NEW r \in RemoteState, NEW p, Follows(r, p), NEW t \in Target
  PROVE  /\ p.aggregator.states[t].changes = r.aggregator.states[t].changes
         /\ p.aggregator.states[t].current = r.aggregator.states[t].current
         /\ p.aggregator.states[t].dirty = r.aggregator.states[t].dirty
         /\ p.aggregator.states[t].token = r.aggregator.states[t].token
<1>1. /\ p.aggregator.states[t] =
           [r.aggregator.states[t] EXCEPT !.pending = Pending(p, t)]
      /\ r.aggregator.states[t] \in TargetState /\ Pending(p, t) \in Int
  BY PendingType DEF Follows
<1> QED
  BY <1>1, WithPending

Lookups(r) == {p \in RemoteState : Follows(r, p) /\ LimboFits(p)}

LEMMA SentFits ==
  ASSUME NEW p \in RemoteState, LimboFits(p), NEW t \in Target,
         NEW m \in Request, m.target = t
  PROVE  LimboFits(With(p, t, m))
<1> DEFINE n == With(p, t, m)
<1>1. Adds(p, t, m, n)
  BY Sent
<1> HIDE DEF n
<1>2. \A s \in Target :
        n.aggregator.states[s].changes = p.aggregator.states[s].changes
  <2> TAKE s \in Target
  <2>1. /\ n.aggregator.states[s] =
             [p.aggregator.states[s] EXCEPT !.pending = Pending(n, s)]
        /\ p.aggregator.states[s] \in TargetState /\ Pending(n, s) \in Int
    BY <1>1, PendingType DEF Adds
  <2> QED
    BY <2>1, WithPending
<1> QED
  BY <1>1, <1>2, Targets DEF LimboFits, LimboKeys, Adds, n

LEMMA SendKeeps ==
  ASSUME NEW r \in RemoteState, NEW p \in Lookups(r), NEW t \in Target
  PROVE  /\ SendWatchRequest(p, t) \in Lookups(r)
         /\ SendUnwatchRequest(p, t) \in Lookups(r)
<1>1. p \in RemoteState /\ Follows(r, p) /\ LimboFits(p)
  BY DEF Lookups
<1>2. ASSUME NEW m \in Request, m.target = t, p.open
      PROVE  With(p, t, m) \in Lookups(r)
  BY <1>1, <1>2, SentFits, FollowsSent, Sent DEF Lookups, Adds
<1> QED
  BY <1>1, <1>2, SendsAre, Requests

LEMMA LookupsKept ==
  ASSUME NEW r \in RemoteState
  PROVE  KeepLookups(Lookups(r))
<1>1. ASSUME NEW p \in Lookups(r), p.enqueued # <<>>, p.nextId <= MaxLimboTargets
      PROVE  StartLimbo(p) \in Lookups(r)
  <2> DEFINE t == p.nextId
             n == Looked(p)
  <2>1. p \in RemoteState /\ Follows(r, p) /\ LimboFits(p)
    BY DEF Lookups
  <2>2. /\ t \in LimboTarget /\ t \in Target /\ t # QueryTarget
        /\ n \in RemoteState /\ SameStream(p, n)
        /\ n.nextId = t + 1 /\ n.received = p.received
        /\ \A s \in LimboTarget : s # t => n.keyOf[s] = p.keyOf[s]
        /\ StartLimbo(p) = SendWatchRequest(n, t)
    BY <1>1, <2>1, Starts
  <2> HIDE DEF n
  <2>3. LimboFits(n)
    <3>1. ASSUME NEW s \in LimboTarget
          PROVE  /\ n.keyOf[s] # None =>
                      Fits(n.aggregator.states[s].changes, LimboKeys(n, s))
                 /\ s >= n.nextId =>
                      /\ n.keyOf[s] = None /\ s \notin n.received
                      /\ n.aggregator.states[s].changes = NoChanges
      <4>1. CASE s = t
        <5>1. n.aggregator.states[s].changes = NoChanges /\ ~(t >= t + 1)
          BY <2>1, <2>2, <4>1, Targets DEF LimboFits, SameStream
        <5> QED
          BY <2>2, <4>1, <5>1, NothingFits
      <4>2. CASE s # t
        <5>1. s >= n.nextId => s >= p.nextId
          BY <2>2, Targets
        <5> QED
          BY <2>1, <2>2, <4>2, <5>1 DEF LimboFits, LimboKeys, SameStream
      <4> QED
        BY <4>1, <4>2
    <3> QED
      BY <3>1 DEF LimboFits
  <2>4. n \in Lookups(r)
    BY <2>1, <2>2, <2>3, FollowsSame DEF Lookups
  <2> QED
    BY <2>2, <2>4, SendKeeps
<1>2. ASSUME NEW p \in Lookups(r), NEW key \in Key
      PROVE  Enqueued(p, key) \in Lookups(r)
  <2>1. p \in RemoteState /\ Follows(r, p) /\ LimboFits(p)
    BY DEF Lookups
  <2> DEFINE n == Enqueued(p, key)
  <2>2. /\ n \in RemoteState /\ SameStream(p, n) /\ n.keyOf = p.keyOf
        /\ n.received = p.received /\ n.nextId = p.nextId
    BY <2>1, Enqueues
  <2> HIDE DEF n
  <2>3. LimboFits(n)
    BY <2>1, <2>2 DEF LimboFits, LimboKeys, SameStream
  <2>4. n \in Lookups(r)
    BY <2>1, <2>2, <2>3, FollowsSame DEF Lookups
  <2> QED
    BY <2>4 DEF n
<1>3. ASSUME NEW p \in Lookups(r), NEW key \in Key, p.byKey[key] # 0
      PROVE  Stopped(p, key) \in Lookups(r)
  <2> DEFINE t == p.byKey[key]
             n == Unkeyed(p, key)
             u == SendUnwatchRequest(n, t)
             f == ForgetLimboTarget(u, t)
  <2>1. p \in RemoteState /\ Follows(r, p) /\ LimboFits(p)
    BY DEF Lookups
  <2>2. /\ t \in LimboTarget /\ t \in Target
        /\ n \in RemoteState /\ SameStream(p, n)
        /\ n.keyOf = p.keyOf /\ n.received = p.received /\ n.nextId = p.nextId
        /\ Stopped(p, key) = f
    BY <1>3, <2>1, Stops
  <2> HIDE DEF n
  <2>3. LimboFits(n)
    BY <2>1, <2>2 DEF LimboFits, LimboKeys, SameStream
  <2>4. n \in Lookups(r)
    BY <2>1, <2>2, <2>3, FollowsSame DEF Lookups
  <2>5. u \in Lookups(r)
    BY <2>2, <2>4, SendKeeps
  <2>6. u \in RemoteState /\ Follows(r, u) /\ LimboFits(u)
    BY <2>5 DEF Lookups
  <2> HIDE DEF u
  <2>7. /\ f \in RemoteState /\ SameStream(u, f) /\ f.nextId = u.nextId
        /\ f.keyOf[t] = None /\ t \notin f.received
        /\ \A s \in LimboTarget :
             s # t => /\ f.keyOf[s] = u.keyOf[s]
                      /\ s \in f.received <=> s \in u.received
    BY <2>2, <2>6, Forgets
  <2> HIDE DEF f
  <2>8. LimboFits(f)
    <3>1. ASSUME NEW s \in LimboTarget
          PROVE  /\ f.keyOf[s] # None =>
                      Fits(f.aggregator.states[s].changes, LimboKeys(f, s))
                 /\ s >= f.nextId =>
                      /\ f.keyOf[s] = None /\ s \notin f.received
                      /\ f.aggregator.states[s].changes = NoChanges
      <4>1. f.aggregator = u.aggregator /\ f.nextId = u.nextId
        BY <2>7 DEF SameStream
      <4>2. s >= u.nextId => u.aggregator.states[s].changes = NoChanges
        BY <2>6 DEF LimboFits
      <4>3. CASE s = t
        BY <2>7, <4>1, <4>2, <4>3
      <4>4. CASE s # t
        <5>1. /\ f.keyOf[s] = u.keyOf[s] /\ (s \in f.received <=> s \in u.received)
              /\ LimboKeys(f, s) = LimboKeys(u, s)
          BY <2>7, <4>4 DEF LimboKeys
        <5> QED
          BY <2>6, <4>1, <5>1 DEF LimboFits
      <4> QED
        BY <4>3, <4>4
    <3> QED
      BY <3>1 DEF LimboFits
  <2> QED
    BY <2>2, <2>6, <2>7, <2>8, FollowsSame DEF Lookups
<1> QED
  BY <1>1, <1>2, <1>3 DEF KeepLookups, Lookups

(***************************************************************************)
(* All that UpdateTrackedLimboDocuments does.                              *)
(***************************************************************************)
LEMMA TracksLimbo ==
  ASSUME NEW r \in RemoteState, NEW p \in Lookups(r),
         NEW old \in SUBSET Key, NEW new \in SUBSET Key
  PROVE  UpdateTrackedLimboDocuments(p, old, new) \in Lookups(r)
BY LookupsKept, TrackStays

LEMMA LookupsOf ==
  ASSUME NEW r \in RemoteState, LimboFits(r)
  PROVE  r \in Lookups(r)
BY Same DEF Lookups

-----------------------------------------------------------------------------
(***************************************************************************)
(* WatchChangeAggregator: each message changes nothing but the aggregator. *)
(***************************************************************************)
OnlyAggregator(r, p) ==
  /\ p \in RemoteState
  /\ p.open = r.open /\ p.requests = r.requests /\ p.token = r.token
  /\ p.keyOf = r.keyOf /\ p.received = r.received /\ p.byKey = r.byKey
  /\ p.enqueued = r.enqueued /\ p.nextId = r.nextId

Changes(r, t) == r.aggregator.states[t].changes

Updates(r) == r.aggregator.updates

Aggregated(r, a) == [r EXCEPT !.aggregator = a]

LEMMA WithAggregator ==
  ASSUME NEW r \in RemoteState, NEW a \in WatchAggregator
  PROVE  OnlyAggregator(r, Aggregated(r, a)) /\ Aggregated(r, a).aggregator = a
BY DEF RemoteState, OnlyAggregator, Aggregated

(***************************************************************************)
(* One target of the aggregator has a new state.                           *)
(***************************************************************************)
StateChanged(r, t, state, p) ==
  /\ OnlyAggregator(r, p)
  /\ p.aggregator.updates = r.aggregator.updates
  /\ p.aggregator.mismatch = r.aggregator.mismatch
  /\ p.aggregator.states[t] = state
  /\ \A s \in Target :
       s # t => p.aggregator.states[s] = r.aggregator.states[s]

LEMMA ChangesState ==
  ASSUME NEW r \in RemoteState, NEW t \in Target, NEW state \in TargetState
  PROVE  StateChanged(r, t, state, [r EXCEPT !.aggregator.states[t] = state])
<1> DEFINE p == [r EXCEPT !.aggregator.states[t] = state]
           a == [r.aggregator EXCEPT !.states[t] = state]
<1>1. /\ a \in WatchAggregator /\ a.states[t] = state
      /\ a.updates = r.aggregator.updates /\ a.mismatch = r.aggregator.mismatch
      /\ \A s \in Target : s # t => a.states[s] = r.aggregator.states[s]
  BY RemoteFields DEF WatchAggregator
<1>2. p = Aggregated(r, a)
  BY DEF Aggregated
<1> HIDE DEF a, p
<1>3. OnlyAggregator(r, p) /\ p.aggregator = a
  BY <1>1, <1>2, WithAggregator
<1>4. StateChanged(r, t, state, p)
  BY <1>1, <1>3 DEF StateChanged
<1> QED
  BY <1>4 DEF p

(***************************************************************************)
(* A target's state after a message, and what the others have.             *)
(***************************************************************************)
LEMMA AddedAt ==
  ASSUME NEW r \in RemoteState, NEW t \in Target
  PROVE  \E state \in TargetState :
           /\ StateChanged(r, t, state, TargetAdded(r, t))
           /\ state.pending = Pending(r, t) - 1
           /\ state.changes = IF state.pending = 0 THEN NoChanges
                              ELSE Changes(r, t)
<1> DEFINE o == r.aggregator.states[t]
           n == [o EXCEPT !.pending = @ - 1]
           state == IF n.pending = 0
                    THEN [n EXCEPT !.dirty = FALSE, !.changes = NoChanges]
                    ELSE n
<1>1. o \in TargetState /\ o.pending \in Int /\ o.pending - 1 \in Int
  BY PendingType DEF Pending
<1> HIDE DEF o
<1>2. /\ n \in TargetState /\ n.pending = o.pending - 1
      /\ n.changes = o.changes
  BY <1>1, WithPending
<1> HIDE DEF n
<1>3. /\ state \in TargetState /\ state.pending = n.pending
      /\ state.changes = IF state.pending = 0 THEN NoChanges ELSE n.changes
  BY <1>2, NewStates DEF TargetState
<1> HIDE DEF state
<1>4. StateChanged(r, t, state, [r EXCEPT !.aggregator.states[t] = state])
  BY <1>3, ChangesState
<1>5. TargetAdded(r, t) = [r EXCEPT !.aggregator.states[t] = state]
  BY DEF TargetAdded, state, n, o, NoChanges
<1> QED
  BY <1>2, <1>3, <1>4, <1>5 DEF o, Pending, Changes

LEMMA RemovedAt ==
  ASSUME NEW r \in RemoteState, NEW t \in Target
  PROVE  \E state \in TargetState :
           /\ StateChanged(r, t, state, TargetRemoved(r, t))
           /\ state.pending = Pending(r, t) - 1
           /\ state.changes = IF Pending(r, t) - 1 = 0 THEN NoChanges
                              ELSE Changes(r, t)
<1> DEFINE o == r.aggregator.states[t]
           n == [o EXCEPT !.pending = @ - 1]
           state == IF n.pending = 0 THEN NewState ELSE n
<1>1. o \in TargetState /\ o.pending \in Int /\ o.pending - 1 \in Int
  BY PendingType DEF Pending
<1>2. TargetRemoved(r, t) = [r EXCEPT !.aggregator.states[t] = state]
  BY DEF TargetRemoved
<1> HIDE DEF o
<1>3. /\ n \in TargetState /\ n.pending = o.pending - 1
      /\ n.changes = o.changes
  BY <1>1, WithPending
<1> HIDE DEF n
<1>5. /\ state \in TargetState /\ state.pending = o.pending - 1
      /\ state.changes = IF o.pending - 1 = 0 THEN NoChanges ELSE o.changes
  BY <1>3, NewStates
<1> HIDE DEF state
<1>4. StateChanged(r, t, state, [r EXCEPT !.aggregator.states[t] = state])
  BY <1>5, ChangesState
<1> QED
  BY <1>2, <1>4, <1>5 DEF o, Pending, Changes

LEMMA CurrentAt ==
  ASSUME NEW r \in RemoteState, NEW t \in Target
  PROVE  \E state \in TargetState :
           /\ StateChanged(r, t, state, TargetCurrent(r, t))
           /\ state.pending = Pending(r, t) /\ state.changes = Changes(r, t)
<1> DEFINE o == r.aggregator.states[t]
           n == [o EXCEPT !.current = TRUE, !.dirty = TRUE]
           state == IF IsActiveTarget(r, t) THEN n ELSE o
<1>1. o \in TargetState
  BY PendingType
<1>2. /\ n \in TargetState /\ n.pending = o.pending /\ n.changes = o.changes
  BY <1>1 DEF TargetState
<1>3. TargetCurrent(r, t) = [r EXCEPT !.aggregator.states[t] = state]
  <2>1. CASE IsActiveTarget(r, t)
    BY <2>1 DEF TargetCurrent
  <2>2. CASE ~IsActiveTarget(r, t)
    BY <2>2, RemoteFields DEF TargetCurrent, RemoteState, WatchAggregator
  <2> QED
    BY <2>1, <2>2
<1>4. /\ state \in TargetState /\ state.pending = o.pending
      /\ state.changes = o.changes
  BY <1>1, <1>2
<1> HIDE DEF state
<1>5. StateChanged(r, t, state, [r EXCEPT !.aggregator.states[t] = state])
  BY <1>4, ChangesState
<1> QED
  BY <1>3, <1>4, <1>5 DEF Pending, Changes

ResetChanges(keys) == [k \in Key |-> IF k \in keys THEN "removed" ELSE None]

ResetState(r, t) ==
  [NewState EXCEPT !.dirty = TRUE, !.changes = ResetChanges(RemoteKeys(r, t))]

LEMMA ResetAt ==
  ASSUME NEW r \in RemoteState, NEW t \in Target
  PROVE  /\ ResetState(r, t) \in TargetState
         /\ ResetState(r, t).pending = 0
         /\ ResetState(r, t).changes = ResetChanges(RemoteKeys(r, t))
         /\ StateChanged(r, t, ResetState(r, t), ResetTarget(r, t))
<1>1. ResetChanges(RemoteKeys(r, t)) \in [Key -> Change]
  BY DEF ResetChanges, Change
<1>2. /\ ResetState(r, t) \in TargetState /\ ResetState(r, t).pending = 0
      /\ ResetState(r, t).changes = ResetChanges(RemoteKeys(r, t))
  BY <1>1, NewStates DEF ResetState, TargetState
<1>3. ResetTarget(r, t) = [r EXCEPT !.aggregator.states[t] = ResetState(r, t)]
  BY DEF ResetTarget, ResetState, ResetChanges
<1> QED
  BY <1>2, <1>3, ChangesState

(***************************************************************************)
(* A count that does not match also marks the mismatch.                    *)
(***************************************************************************)
Mismatched(r, t) == [ResetTarget(r, t) EXCEPT !.aggregator.mismatch = TRUE]

LEMMA MismatchAt ==
  ASSUME NEW r \in RemoteState, NEW t \in Target, NEW p, p = Mismatched(r, t)
  PROVE  /\ OnlyAggregator(r, p)
         /\ p.aggregator.updates = r.aggregator.updates
         /\ p.aggregator.states[t] = ResetState(r, t)
         /\ \A s \in Target :
              s # t => p.aggregator.states[s] = r.aggregator.states[s]
<1> DEFINE q == ResetTarget(r, t)
           a == [q.aggregator EXCEPT !.mismatch = TRUE]
<1>1. StateChanged(r, t, ResetState(r, t), q)
  BY ResetAt
<1>2. q \in RemoteState /\ q.aggregator \in WatchAggregator
  BY <1>1, RemoteFields DEF StateChanged, OnlyAggregator
<1>3. p = Aggregated(q, a)
  BY DEF Aggregated, Mismatched
<1> HIDE DEF q
<1>4. /\ a \in WatchAggregator /\ a.states = q.aggregator.states
      /\ a.updates = q.aggregator.updates
  BY <1>2 DEF WatchAggregator
<1> HIDE DEF a
<1>5. OnlyAggregator(q, p) /\ p.aggregator = a
  BY <1>2, <1>3, <1>4, WithAggregator
<1> QED
  BY <1>1, <1>4, <1>5 DEF StateChanged, OnlyAggregator

(***************************************************************************)
(* A document: the active targets it is told to collect a change.          *)
(***************************************************************************)
DocumentState(r, m, t) ==
  IF ~Tells(m, r, t) THEN r.aggregator.states[t]
  ELSE IF t \in m.updated
  THEN AddDocumentToTarget(r.aggregator.states[t], m.key,
                           m.key \in RemoteKeys(r, t))
  ELSE RemoveDocumentFromTarget(r.aggregator.states[t], m.key,
                                m.key \in RemoteKeys(r, t))

Recorded(state, key, change) ==
  [state EXCEPT !.dirty = TRUE, !.changes[key] = change]

DocumentChange(r, m, t) ==
  IF t \in m.updated
  THEN IF m.key \in RemoteKeys(r, t) THEN "modified" ELSE "added"
  ELSE IF m.key \in RemoteKeys(r, t) THEN "removed" ELSE None

LEMMA RecordedState ==
  ASSUME NEW state \in TargetState, NEW key \in Key,
         NEW change \in Change
  PROVE  /\ Recorded(state, key, change) \in TargetState
         /\ Recorded(state, key, change).pending = state.pending
         /\ \A k \in Key :
              Recorded(state, key, change).changes[k] =
                IF k = key THEN change ELSE state.changes[k]
<1> DEFINE a == [state.changes EXCEPT ![key] = change]
<1>1. /\ a \in [Key -> Change]
      /\ \A k \in Key : a[k] = IF k = key THEN change ELSE state.changes[k]
  BY StateFields
<1>2. Recorded(state, key, change) = [state EXCEPT !.dirty = TRUE, !.changes = a]
  BY DEF Recorded
<1> HIDE DEF a
<1>3. /\ Recorded(state, key, change) \in TargetState
      /\ Recorded(state, key, change).pending = state.pending
      /\ Recorded(state, key, change).changes = a
  BY <1>1, <1>2 DEF TargetState
<1> QED
  BY <1>1, <1>3

LEMMA DocumentStateType ==
  ASSUME NEW r \in RemoteState, NEW m, m.key \in Key, NEW t \in Target
  PROVE  /\ DocumentState(r, m, t) \in TargetState
         /\ DocumentState(r, m, t).pending = Pending(r, t)
         /\ ~Tells(m, r, t) => DocumentState(r, m, t).changes = Changes(r, t)
         /\ Tells(m, r, t) =>
              \A k \in Key :
                DocumentState(r, m, t).changes[k] =
                  IF k = m.key THEN DocumentChange(r, m, t) ELSE Changes(r, t)[k]
<1> DEFINE o == r.aggregator.states[t]
           change == DocumentChange(r, m, t)
<1>1. o \in TargetState
  BY PendingType
<1>2. change \in Change
  BY DEF DocumentChange, Change
<1>3. Pending(r, t) = o.pending /\ Changes(r, t) = o.changes
  BY DEF Pending, Changes
<1>4. CASE ~Tells(m, r, t)
  BY <1>1, <1>3, <1>4 DEF DocumentState
<1>5. CASE Tells(m, r, t)
  <2>1. DocumentState(r, m, t) = Recorded(o, m.key, change)
    BY <1>5 DEF DocumentState, DocumentChange, AddDocumentToTarget,
                RemoveDocumentFromTarget, Recorded
  <2> HIDE DEF o, change
  <2>2. /\ Recorded(o, m.key, change) \in TargetState
        /\ Recorded(o, m.key, change).pending = o.pending
        /\ \A k \in Key :
             Recorded(o, m.key, change).changes[k] =
               IF k = m.key THEN change ELSE o.changes[k]
    BY <1>1, <1>2, RecordedState
  <2> QED
    BY <1>3, <1>5, <2>1, <2>2 DEF change
<1> QED
  BY <1>4, <1>5

LEMMA DocumentAt ==
  ASSUME NEW r \in RemoteState, NEW m, m.key \in Key, m.doc \in DocumentUpdate
  PROVE  /\ OnlyAggregator(r, HandleDocumentChange(r, m))
         /\ HandleDocumentChange(r, m).aggregator.mismatch = r.aggregator.mismatch
         /\ \A t \in Target :
              HandleDocumentChange(r, m).aggregator.states[t] = DocumentState(r, m, t)
         /\ \A k \in Key :
              Updates(HandleDocumentChange(r, m))[k] =
                IF k = m.key /\ m.doc # NoUpdate /\ \E t \in Target : Tells(m, r, t)
                THEN m.doc ELSE Updates(r)[k]
<1> DEFINE p == HandleDocumentChange(r, m)
           s == [t \in Target |-> DocumentState(r, m, t)]
           u == [r.aggregator.updates EXCEPT ![m.key] =
                   IF m.doc # NoUpdate /\ \E t \in Target : Tells(m, r, t)
                   THEN m.doc ELSE @]
           a == [r.aggregator EXCEPT !.states = s, !.updates = u]
<1>1. s \in [Target -> TargetState]
  BY DocumentStateType
<1>2. u \in [Key -> DocumentUpdate]
  BY RemoteFields
<1>3. p = Aggregated(r, a)
  <2> DEFINE After(t, state) ==
               IF t \in m.updated
               THEN AddDocumentToTarget(state, m.key, m.key \in RemoteKeys(r, t))
               ELSE RemoveDocumentFromTarget(state, m.key,
                                             m.key \in RemoteKeys(r, t))
             s2 == [t \in Target |->
                      IF Tells(m, r, t) THEN After(t, r.aggregator.states[t])
                      ELSE r.aggregator.states[t]]
  <2>1. s2 = s
    BY DEF DocumentState
  <2>2. p = [r EXCEPT !.aggregator.states = s2, !.aggregator.updates = u]
    BY DEF HandleDocumentChange
  <2> HIDE DEF s, s2, u, p
  <2> QED
    BY <2>1, <2>2 DEF RemoteState, Aggregated
<1> HIDE DEF s, u, p
<1>4. a \in WatchAggregator /\ a.states = s /\ a.updates = u
      /\ a.mismatch = r.aggregator.mismatch
  BY <1>1, <1>2, RemoteFields DEF WatchAggregator
<1> HIDE DEF a
<1>5. OnlyAggregator(r, p) /\ p.aggregator = a
  BY <1>3, <1>4, WithAggregator
<1>6. \A k \in Key :
        u[k] = IF k = m.key /\ m.doc # NoUpdate /\ \E t \in Target : Tells(m, r, t)
               THEN m.doc ELSE Updates(r)[k]
  BY RemoteFields DEF u, Updates
<1>7. \A t \in Target : s[t] = DocumentState(r, m, t)
  BY DEF s
<1> QED
  BY <1>4, <1>5, <1>6, <1>7 DEF p, Updates

-----------------------------------------------------------------------------
(***************************************************************************)
(* The changes collected for the query and for lookups fit.                *)
(***************************************************************************)
Fit(r) == LimboFits(r) /\ Fits(Changes(r, QueryTarget), disk.keys)

LEMMA KeysOf ==
  ASSUME NEW r
  PROVE  /\ RemoteKeys(r, QueryTarget) = disk.keys
         /\ \A t \in LimboTarget : RemoteKeys(r, t) = LimboKeys(r, t)
         /\ \A t \in LimboTarget : Listened(r, t) <=> r.keyOf[t] # None
         /\ Listened(r, QueryTarget) <=> view.listening
BY Targets DEF RemoteKeys, LimboKeys, Listened

LEMMA FitAgain ==
  ASSUME NEW r \in RemoteState, Fit(r), NEW p, OnlyAggregator(r, p),
         \A t \in Target :
           \/ Changes(p, t) = Changes(r, t)
           \/ Changes(p, t) = NoChanges
           \/ Listened(r, t) /\ Fits(Changes(p, t), RemoteKeys(r, t))
  PROVE  Fit(p)
<1>1. Fits(Changes(p, QueryTarget), disk.keys)
  <2>1. \/ Changes(p, QueryTarget) = Changes(r, QueryTarget)
        \/ Changes(p, QueryTarget) = NoChanges
        \/ Fits(Changes(p, QueryTarget), disk.keys)
    BY Targets, KeysOf
  <2> QED
    BY <2>1, NothingFits DEF Fit
<1>2. ASSUME NEW t \in LimboTarget
      PROVE  /\ p.keyOf[t] # None =>
                  Fits(p.aggregator.states[t].changes, LimboKeys(p, t))
             /\ t >= p.nextId =>
                  /\ p.keyOf[t] = None /\ t \notin p.received
                  /\ p.aggregator.states[t].changes = NoChanges
  <2>1. /\ p.keyOf = r.keyOf /\ p.received = r.received /\ p.nextId = r.nextId
        /\ LimboKeys(p, t) = LimboKeys(r, t)
    BY DEF OnlyAggregator, LimboKeys
  <2>2. /\ r.keyOf[t] # None => Fits(Changes(r, t), LimboKeys(r, t))
        /\ t >= r.nextId => /\ r.keyOf[t] = None /\ t \notin r.received
                            /\ Changes(r, t) = NoChanges
    BY DEF Fit, LimboFits, Changes
  <2>3. \/ Changes(p, t) = Changes(r, t)
        \/ Changes(p, t) = NoChanges
        \/ r.keyOf[t] # None /\ Fits(Changes(p, t), LimboKeys(r, t))
    BY Targets, KeysOf
  <2> QED
    BY <2>1, <2>2, <2>3, NothingFits DEF Changes
<1> QED
  BY <1>1, <1>2 DEF Fit, LimboFits

LEMMA ResetFits ==
  ASSUME NEW keys
  PROVE  Fits(ResetChanges(keys), keys)
BY DEF Fits, ResetChanges, None

LEMMA DocumentFits ==
  ASSUME NEW changes, NEW keys, Fits(changes, keys), NEW key \in Key, NEW after,
         NEW change,
         \A k \in Key : after[k] = IF k = key THEN change ELSE changes[k],
         \/ change = "added" /\ key \notin keys
         \/ change \in {"modified", "removed"} /\ key \in keys
         \/ change = None
  PROVE  Fits(after, keys)
BY DEF Fits, None

(***************************************************************************)
(* The messages: what is in each.                                          *)
(***************************************************************************)
LEMMA MessageParts ==
  ASSUME NEW m \in Message
  PROVE  /\ m.type \in {"added", "removed", "current", "reset", "error", "filter",
                        "doc", "snapshot"}
         /\ m.type \in {"added", "removed", "current", "reset", "error", "filter"}
              => m.target \in Target
         /\ m.type = "filter" => m.count \in Nat
         /\ m.type = "doc" => /\ m.key \in Key /\ m.updated \in SUBSET Target
                              /\ m.removed \in SUBSET Target
                              /\ m.doc \in DocumentUpdate
         /\ m.type = "snapshot" => m.version \in 0 .. MaxVersion
BY Targets DEF Message

(***************************************************************************)
(* A message is counted when it answers a request, and what is collected   *)
(* still fits.                                                             *)
(***************************************************************************)
Counted(r, m, p) ==
  \A t \in Target :
    /\ m \in AnswerOf(t) => Pending(p, t) = Pending(r, t) - 1
    /\ m \notin AnswerOf(t) => Pending(p, t) = Pending(r, t)

LEMMA ChangedFits ==
  ASSUME NEW r \in RemoteState, Fit(r), NEW t \in Target,
         NEW state \in TargetState, NEW p, StateChanged(r, t, state, p),
         \/ state.changes = Changes(r, t)
         \/ state.changes = NoChanges
         \/ Listened(r, t) /\ Fits(state.changes, RemoteKeys(r, t))
  PROVE  OnlyAggregator(r, p) /\ Fit(p)
         /\ Pending(p, t) = state.pending
         /\ \A s \in Target : s # t => Pending(p, s) = Pending(r, s)
<1>1. /\ OnlyAggregator(r, p)
      /\ p.aggregator.states[t] = state
      /\ \A s \in Target :
           s # t => p.aggregator.states[s] = r.aggregator.states[s]
  BY DEF StateChanged
<1>2. \A s \in Target :
        \/ Changes(p, s) = Changes(r, s)
        \/ Changes(p, s) = NoChanges
        \/ Listened(r, s) /\ Fits(Changes(p, s), RemoteKeys(r, s))
  BY <1>1 DEF Changes
<1> QED
  BY <1>1, <1>2, FitAgain DEF Pending

LEMMA AnswersHandled ==
  ASSUME NEW r \in RemoteState, Fit(r), NEW m \in Message
  PROVE  /\ m.type = "added" =>
              LET p == TargetAdded(r, m.target)
              IN  OnlyAggregator(r, p) /\ Fit(p) /\ Counted(r, m, p)
         /\ m.type = "removed" =>
              LET p == TargetRemoved(r, m.target)
              IN  OnlyAggregator(r, p) /\ Fit(p) /\ Counted(r, m, p)
<1>1. ASSUME m.type \in {"added", "removed"}, NEW p, NEW state \in TargetState,
             StateChanged(r, m.target, state, p),
             state.pending = Pending(r, m.target) - 1,
             state.changes = Changes(r, m.target) \/ state.changes = NoChanges
      PROVE  OnlyAggregator(r, p) /\ Fit(p) /\ Counted(r, m, p)
  <2>1. m.target \in Target
    BY <1>1, MessageParts
  <2>2. OnlyAggregator(r, p) /\ Fit(p)
        /\ Pending(p, m.target) = state.pending
        /\ \A s \in Target : s # m.target => Pending(p, s) = Pending(r, s)
    BY <1>1, <2>1, ChangedFits
  <2>3. \A t \in Target : m \in AnswerOf(t) <=> t = m.target
    BY <1>1 DEF AnswerOf
  <2> QED
    BY <1>1, <2>2, <2>3 DEF Counted
<1>2. ASSUME m.type = "added"
      PROVE  LET p == TargetAdded(r, m.target)
             IN  OnlyAggregator(r, p) /\ Fit(p) /\ Counted(r, m, p)
  <2>1. m.target \in Target
    BY <1>2, MessageParts
  <2> QED
    BY <1>1, <1>2, <2>1, AddedAt
<1>3. ASSUME m.type = "removed"
      PROVE  LET p == TargetRemoved(r, m.target)
             IN  OnlyAggregator(r, p) /\ Fit(p) /\ Counted(r, m, p)
  <2>1. m.target \in Target
    BY <1>3, MessageParts
  <2> QED
    BY <1>1, <1>3, <2>1, RemovedAt
<1> QED
  BY <1>2, <1>3

LEMMA Uncounted ==
  ASSUME NEW r, NEW m \in Message, m.type \notin {"added", "removed"}, NEW p,
         \A t \in Target : Pending(p, t) = Pending(r, t)
  PROVE  Counted(r, m, p)
BY DEF Counted, AnswerOf

LEMMA DocumentHandled ==
  ASSUME NEW r \in RemoteState, Fit(r), NEW m \in Message, m.type = "doc",
         NEW p, p = HandleDocumentChange(r, m)
  PROVE  OnlyAggregator(r, p) /\ Fit(p) /\ Counted(r, m, p)
<1>1. m.key \in Key /\ m.doc \in DocumentUpdate
  BY MessageParts
<1>2. /\ OnlyAggregator(r, p)
      /\ \A t \in Target : p.aggregator.states[t] = DocumentState(r, m, t)
  BY <1>1, DocumentAt
<1>3. ASSUME NEW t \in Target
      PROVE  /\ Pending(p, t) = Pending(r, t)
             /\ \/ Changes(p, t) = Changes(r, t)
                \/ Listened(r, t) /\ Fits(Changes(p, t), RemoteKeys(r, t))
  <2>1. /\ Pending(p, t) = Pending(r, t)
        /\ ~Tells(m, r, t) => Changes(p, t) = Changes(r, t)
        /\ Tells(m, r, t) =>
             \A k \in Key :
               Changes(p, t)[k] =
                 IF k = m.key THEN DocumentChange(r, m, t) ELSE Changes(r, t)[k]
    BY <1>1, <1>2, DocumentStateType DEF Pending, Changes
  <2>2. CASE Tells(m, r, t)
    <3>1. Listened(r, t)
      BY <2>2 DEF Tells, IsActiveTarget
    <3>2. Fits(Changes(r, t), RemoteKeys(r, t))
      BY <3>1, Targets, KeysOf DEF Fit, LimboFits, Changes
    <3>3. LET change == DocumentChange(r, m, t)
          IN  \/ change = "added" /\ m.key \notin RemoteKeys(r, t)
              \/ change \in {"modified", "removed"} /\ m.key \in RemoteKeys(r, t)
              \/ change = None
      BY DEF DocumentChange
    <3>4. Fits(Changes(p, t), RemoteKeys(r, t))
      BY <1>1, <2>1, <2>2, <3>2, <3>3, DocumentFits
    <3> QED
      BY <2>1, <3>1, <3>4
  <2> QED
    BY <2>1, <2>2
<1> QED
  BY <1>2, <1>3, FitAgain, Uncounted

(***************************************************************************)
(* A lookup told that it has no document handles this as a message that    *)
(* the document is not there.                                              *)
(***************************************************************************)
Gone(r, t) ==
  [type |-> "doc", key |-> r.keyOf[t], updated |-> {}, removed |-> {t},
   doc |-> Missing]

LEMMA GoneMessage ==
  ASSUME NEW r \in RemoteState, NEW t \in LimboTarget, Listened(r, t)
  PROVE  Gone(r, t) \in Message /\ DocumentIsGone(r, t) = HandleDocumentChange(r, Gone(r, t))
<1>1. t \in Target /\ t # QueryTarget
  BY Targets
<1>2. r.keyOf[t] \in Key
  BY <1>1, RemoteFields DEF Listened, RemoteState
<1>3. Missing \in DocumentUpdate
  BY BoundAssumption DEF Missing, DocumentUpdate, ServerDocument, Kind
<1>4. {t} \in SUBSET Target /\ {} \in SUBSET Target
  BY <1>1
<1>5. Gone(r, t) \in Message
  BY <1>2, <1>3, <1>4 DEF Gone, Message
<1> QED
  BY <1>5 DEF Gone, DocumentIsGone

LEMMA OthersHandled ==
  ASSUME NEW r \in RemoteState, Fit(r), NEW m \in Message
  PROVE  /\ m.type = "current" =>
              LET p == TargetCurrent(r, m.target)
              IN  OnlyAggregator(r, p) /\ Fit(p) /\ Counted(r, m, p)
         /\ m.type = "reset" =>
              LET p == TargetReset(r, m.target)
              IN  OnlyAggregator(r, p) /\ Fit(p) /\ Counted(r, m, p)
         /\ m.type = "filter" =>
              LET p == HandleExistenceFilter(r, m)
              IN  OnlyAggregator(r, p) /\ Fit(p) /\ Counted(r, m, p)
<1>1. OnlyAggregator(r, r)
  BY DEF OnlyAggregator
<1>2. ASSUME m.type = "current"
      PROVE  LET p == TargetCurrent(r, m.target)
             IN  OnlyAggregator(r, p) /\ Fit(p) /\ Counted(r, m, p)
  <2>1. m.target \in Target
    BY <1>2, MessageParts
  <2> DEFINE p == TargetCurrent(r, m.target)
  <2>2. PICK state \in TargetState :
          /\ StateChanged(r, m.target, state, p)
          /\ state.pending = Pending(r, m.target)
          /\ state.changes = Changes(r, m.target)
    BY <2>1, CurrentAt
  <2> HIDE DEF p
  <2>3. /\ OnlyAggregator(r, p) /\ Fit(p)
        /\ \A s \in Target : Pending(p, s) = Pending(r, s)
    BY <2>1, <2>2, ChangedFits
  <2>4. Counted(r, m, p)
    BY <1>2, <2>3, Uncounted
  <2> QED
    BY <2>3, <2>4 DEF p
<1>3. ASSUME NEW t \in Target, IsActiveTarget(r, t)
      PROVE  /\ Listened(r, t) /\ Pending(r, t) = 0
             /\ Fits(ResetState(r, t).changes, RemoteKeys(r, t))
  BY <1>3, ResetAt, ResetFits DEF IsActiveTarget, Pending
<1>4. ASSUME m.type = "reset"
      PROVE  LET p == TargetReset(r, m.target)
             IN  OnlyAggregator(r, p) /\ Fit(p) /\ Counted(r, m, p)
  <2>1. m.target \in Target
    BY <1>4, MessageParts
  <2>2. CASE ~IsActiveTarget(r, m.target)
    BY <1>1, <1>4, <2>2, Uncounted DEF TargetReset
  <2>3. CASE IsActiveTarget(r, m.target)
    <3> DEFINE p == ResetTarget(r, m.target)
               state == ResetState(r, m.target)
    <3>1. /\ state \in TargetState /\ state.pending = 0
          /\ StateChanged(r, m.target, state, p)
      BY <2>1, ResetAt
    <3>2. /\ Listened(r, m.target) /\ Pending(r, m.target) = 0
          /\ Fits(state.changes, RemoteKeys(r, m.target))
      BY <1>3, <2>1, <2>3
    <3>3. TargetReset(r, m.target) = p
      BY <2>3 DEF TargetReset
    <3> HIDE DEF p, state
    <3>4. /\ OnlyAggregator(r, p) /\ Fit(p)
          /\ \A s \in Target : Pending(p, s) = Pending(r, s)
      BY <2>1, <3>1, <3>2, ChangedFits
    <3> QED
      BY <1>4, <3>3, <3>4, Uncounted
  <2> QED
    BY <2>2, <2>3
<1>5. ASSUME m.type = "filter"
      PROVE  LET p == HandleExistenceFilter(r, m)
             IN  OnlyAggregator(r, p) /\ Fit(p) /\ Counted(r, m, p)
  <2>1. m.target \in Target
    BY <1>5, MessageParts
  <2> DEFINE p == HandleExistenceFilter(r, m)
  <2>2. CASE p = r
    BY <1>1, <1>5, <2>2, Uncounted
  <2>4. CASE m.target \in LimboTarget /\ p # r
    <3>1. IsActiveTarget(r, m.target) /\ p = DocumentIsGone(r, m.target)
      BY <2>4 DEF HandleExistenceFilter
    <3> HIDE DEF p
    <3>2. Listened(r, m.target)
      BY <3>1 DEF IsActiveTarget
    <3> DEFINE g == Gone(r, m.target)
    <3>3. /\ g \in Message /\ g.type = "doc"
          /\ p = HandleDocumentChange(r, g)
      BY <2>4, <3>1, <3>2, GoneMessage DEF Gone
    <3> HIDE DEF g
    <3>4. OnlyAggregator(r, p) /\ Fit(p) /\ Counted(r, g, p)
      BY <3>3, DocumentHandled
    <3>5. \A t \in Target : Pending(p, t) = Pending(r, t)
      BY <3>3, <3>4 DEF Counted, AnswerOf
    <3> QED
      BY <1>5, <3>4, <3>5, Uncounted DEF p
  <2>3. CASE m.target \notin LimboTarget /\ p # r
    <3>1. /\ IsActiveTarget(r, m.target)
          /\ p = Mismatched(r, m.target)
      BY <2>3 DEF HandleExistenceFilter, Mismatched
    <3> HIDE DEF p
    <3>2. /\ OnlyAggregator(r, p)
          /\ p.aggregator.states[m.target] = ResetState(r, m.target)
          /\ \A s \in Target :
               s # m.target => p.aggregator.states[s] = r.aggregator.states[s]
      BY <2>1, <3>1, MismatchAt
    <3>3. /\ Listened(r, m.target) /\ Pending(r, m.target) = 0
          /\ Fits(ResetState(r, m.target).changes, RemoteKeys(r, m.target))
      BY <1>3, <2>1, <3>1
    <3>4. \A t \in Target :
            /\ Pending(p, t) = Pending(r, t)
            /\ \/ Changes(p, t) = Changes(r, t)
               \/ Listened(r, t) /\ Fits(Changes(p, t), RemoteKeys(r, t))
      BY <2>1, <3>2, <3>3, ResetAt DEF Pending, Changes
    <3> QED
      BY <1>5, <3>2, <3>4, FitAgain, Uncounted DEF p
  <2> QED
    BY <2>2, <2>3, <2>4
<1> QED
  BY <1>2, <1>4, <1>5

LEMMA Handled ==
  ASSUME NEW r \in RemoteState, Fit(r), NEW m \in Message,
         m.type \notin {"snapshot", "error"}
  PROVE  LET p == HandleWatchChange(r, m)
         IN  OnlyAggregator(r, p) /\ Fit(p) /\ Counted(r, m, p)
<1>1. m.type \in {"added", "removed", "current", "reset", "filter", "doc"}
  BY MessageParts
<1>2. CASE m.type = "added"
  BY <1>2, AnswersHandled DEF HandleWatchChange
<1>3. CASE m.type = "removed"
  BY <1>3, AnswersHandled DEF HandleWatchChange
<1>4. CASE m.type = "current"
  BY <1>4, OthersHandled DEF HandleWatchChange
<1>5. CASE m.type = "reset"
  BY <1>5, OthersHandled DEF HandleWatchChange
<1>6. CASE m.type = "filter"
  BY <1>6, OthersHandled DEF HandleWatchChange
<1>7. CASE m.type = "doc"
  BY <1>7, DocumentHandled DEF HandleWatchChange
<1> QED
  BY <1>1, <1>2, <1>3, <1>4, <1>5, <1>6, <1>7

-----------------------------------------------------------------------------
(***************************************************************************)
(* RaiseWatchSnapshot: the remote event, and the aggregator after it.      *)
(***************************************************************************)
Renewed(r, s, u) ==
  [r EXCEPT !.aggregator.states = s, !.aggregator.updates = u]

LEMMA RenewedAt ==
  ASSUME NEW r \in RemoteState, NEW s \in [Target -> TargetState],
         NEW u \in [Key -> DocumentUpdate], NEW p, p = Renewed(r, s, u)
  PROVE  /\ OnlyAggregator(r, p)
         /\ p.aggregator.states = s /\ p.aggregator.updates = u
         /\ p.aggregator.mismatch = r.aggregator.mismatch
<1> DEFINE a == [r.aggregator EXCEPT !.states = s, !.updates = u]
<1>1. /\ a \in WatchAggregator /\ a.states = s /\ a.updates = u
      /\ a.mismatch = r.aggregator.mismatch
  BY RemoteFields DEF WatchAggregator
<1>2. p = Aggregated(r, a)
  BY DEF Aggregated, Renewed, RemoteState
<1> HIDE DEF a
<1> QED
  BY <1>1, <1>2, WithAggregator

(***************************************************************************)
(* What a target has at a snapshot of version v.                           *)
(***************************************************************************)
LEMMA TokensGiven ==
  ASSUME NEW r \in RemoteState, NEW v \in 0 .. MaxVersion, NEW p,
         p = WithResumeTokens(r, v)
  PROVE  /\ OnlyAggregator(r, p)
         /\ p.aggregator.updates = r.aggregator.updates
         /\ p.aggregator.mismatch = r.aggregator.mismatch
         /\ \A t \in Target :
              /\ Pending(p, t) = Pending(r, t) /\ Changes(p, t) = Changes(r, t)
              /\ p.aggregator.states[t].current = r.aggregator.states[t].current
              /\ IsActiveTarget(r, t) => /\ p.aggregator.states[t].dirty
                                         /\ p.aggregator.states[t].token = v
<1> DEFINE s == [t \in Target |->
                   IF IsActiveTarget(r, t)
                   THEN [r.aggregator.states[t] EXCEPT !.token = v, !.dirty = TRUE]
                   ELSE r.aggregator.states[t]]
           u == r.aggregator.updates
<1>1. ASSUME NEW t \in Target
      PROVE  /\ s[t] \in TargetState
             /\ s[t].pending = r.aggregator.states[t].pending
             /\ s[t].changes = r.aggregator.states[t].changes
             /\ s[t].current = r.aggregator.states[t].current
             /\ IsActiveTarget(r, t) => s[t].dirty /\ s[t].token = v
  <2>1. r.aggregator.states[t] \in TargetState
    BY PendingType
  <2>2. CASE IsActiveTarget(r, t)
    BY <2>1, <2>2 DEF TargetState
  <2>3. CASE ~IsActiveTarget(r, t)
    BY <2>1, <2>3
  <2> QED
    BY <2>2, <2>3
<1>2. s \in [Target -> TargetState] /\ u \in [Key -> DocumentUpdate]
  BY <1>1, RemoteFields
<1>3. p = Renewed(r, s, u)
  <2>1. p = [r EXCEPT !.aggregator.states = s]
    BY DEF WithResumeTokens
  <2> HIDE DEF s
  <2> QED
    BY <2>1, RemoteFields DEF Renewed, RemoteState, WatchAggregator
<1> HIDE DEF s, u
<1>4. /\ OnlyAggregator(r, p)
      /\ p.aggregator.states = s /\ p.aggregator.updates = u
      /\ p.aggregator.mismatch = r.aggregator.mismatch
  BY <1>2, <1>3, RenewedAt
<1> QED
  BY <1>1, <1>4 DEF u, Pending, Changes

LEMMA ActiveAgain ==
  ASSUME NEW r, NEW p, OnlyAggregator(r, p), NEW t \in Target,
         Pending(p, t) = Pending(r, t)
  PROVE  /\ IsActiveTarget(p, t) <=> IsActiveTarget(r, t)
         /\ RemoteKeys(p, t) = RemoteKeys(r, t)
BY DEF OnlyAggregator, IsActiveTarget, Listened, RemoteKeys, Pending

(***************************************************************************)
(* The lookups that find nothing, and the deletes made up for them.        *)
(***************************************************************************)
EventOf(r, v, e) ==
  /\ OnlyAggregator(r, e)
  /\ e.aggregator.mismatch = r.aggregator.mismatch
  /\ \A t \in Target :
       /\ Pending(e, t) = Pending(r, t)
       /\ e.aggregator.states[t].current = r.aggregator.states[t].current
       /\ IsActiveTarget(r, t) => /\ e.aggregator.states[t].dirty
                                  /\ e.aggregator.states[t].token = v
       /\ ~FindsNothing(r, t) => Changes(e, t) = Changes(r, t)
       /\ FindsNothing(r, t) =>
            \A k \in Key :
              Changes(e, t)[k] =
                IF k = r.keyOf[t] THEN None ELSE Changes(r, t)[k]
  /\ \A k \in Key :
       Updates(e)[k] =
         IF \E t \in LimboTarget : r.keyOf[t] = k /\ FindsNothing(r, t)
         THEN [version |-> v, kind |-> None]
         ELSE Updates(r)[k]

LEMMA EventAt ==
  ASSUME NEW r \in RemoteState, NEW v \in 0 .. MaxVersion, NEW e,
         e = CreateRemoteEvent(r, v)
  PROVE  EventOf(r, v, e)
<1> DEFINE q == WithResumeTokens(r, v)
<1>1. /\ OnlyAggregator(r, q)
      /\ q.aggregator.updates = r.aggregator.updates
      /\ q.aggregator.mismatch = r.aggregator.mismatch
      /\ \A t \in Target :
           /\ Pending(q, t) = Pending(r, t) /\ Changes(q, t) = Changes(r, t)
           /\ q.aggregator.states[t].current = r.aggregator.states[t].current
           /\ IsActiveTarget(r, t) => /\ q.aggregator.states[t].dirty
                                      /\ q.aggregator.states[t].token = v
  BY TokensGiven
<1>2. e = SynthesizeDeletes(q, v)
  BY DEF CreateRemoteEvent
<1> HIDE DEF q
<1>3. q \in RemoteState /\ q.keyOf = r.keyOf
  BY <1>1 DEF OnlyAggregator
<1>4. ASSUME NEW t \in Target
      PROVE  FindsNothing(q, t) <=> FindsNothing(r, t)
  BY <1>1, <1>3, ActiveAgain DEF FindsNothing
<1> DEFINE Stated(t) ==
             IF FindsNothing(q, t)
             THEN RemoveDocumentFromTarget(q.aggregator.states[t], q.keyOf[t], FALSE)
             ELSE q.aggregator.states[t]
           s == [t \in Target |-> Stated(t)]
           u == [k \in Key |->
                   IF \E t \in LimboTarget : q.keyOf[t] = k /\ FindsNothing(q, t)
                   THEN [version |-> v, kind |-> None]
                   ELSE q.aggregator.updates[k]]
<1>5. ASSUME NEW t \in Target
      PROVE  /\ Stated(t) \in TargetState
             /\ Stated(t).pending = q.aggregator.states[t].pending
             /\ Stated(t).current = q.aggregator.states[t].current
             /\ Stated(t).token = q.aggregator.states[t].token
             /\ q.aggregator.states[t].dirty => Stated(t).dirty
             /\ ~FindsNothing(q, t) =>
                  Stated(t).changes = q.aggregator.states[t].changes
             /\ FindsNothing(q, t) =>
                  \A k \in Key :
                    Stated(t).changes[k] =
                      IF k = q.keyOf[t] THEN None
                      ELSE q.aggregator.states[t].changes[k]
  <2> DEFINE o == q.aggregator.states[t]
  <2>1. o \in TargetState
    BY <1>3, PendingType
  <2>2. CASE ~FindsNothing(q, t)
    BY <2>1, <2>2
  <2>3. CASE FindsNothing(q, t)
    <3>1. q.keyOf[t] \in Key
      BY <1>3, <2>3, RemoteFields DEF FindsNothing
    <3>2. None \in Change
      BY DEF Change
    <3>3. Stated(t) = Recorded(o, q.keyOf[t], None)
      BY <2>3 DEF RemoveDocumentFromTarget, Recorded
    <3> HIDE DEF o, Stated
    <3>4. /\ Recorded(o, q.keyOf[t], None) \in TargetState
          /\ Recorded(o, q.keyOf[t], None).pending = o.pending
          /\ \A k \in Key :
               Recorded(o, q.keyOf[t], None).changes[k] =
                 IF k = q.keyOf[t] THEN None ELSE o.changes[k]
      BY <2>1, <3>1, <3>2, RecordedState
    <3>5. /\ Recorded(o, q.keyOf[t], None).current = o.current
          /\ Recorded(o, q.keyOf[t], None).token = o.token
          /\ Recorded(o, q.keyOf[t], None).dirty = TRUE
      BY <2>1 DEF Recorded, TargetState
    <3> QED
      BY <2>3, <3>3, <3>4, <3>5 DEF o
  <2> QED
    BY <2>2, <2>3
<1>6. s \in [Target -> TargetState]
  BY <1>5
<1>7. u \in [Key -> DocumentUpdate]
  <2>1. [version |-> v, kind |-> None] \in DocumentUpdate
    BY DEF DocumentUpdate, ServerDocument, Kind
  <2>2. q.aggregator.updates \in [Key -> DocumentUpdate]
    BY <1>3, RemoteFields
  <2> QED
    BY <2>1, <2>2
<1>8. e = Renewed(q, s, u)
  BY <1>2 DEF SynthesizeDeletes, Renewed
<1>9. \A t \in Target : s[t] = Stated(t)
  OBVIOUS
<1>10. \A k \in Key :
         u[k] = IF \E t \in LimboTarget : r.keyOf[t] = k /\ FindsNothing(r, t)
                THEN [version |-> v, kind |-> None]
                ELSE Updates(r)[k]
  <2>1. \A t \in LimboTarget : FindsNothing(q, t) <=> FindsNothing(r, t)
    BY <1>4, Targets
  <2> QED
    BY <1>1, <1>3, <2>1 DEF Updates
<1> HIDE DEF s, u, Stated
<1>11. /\ OnlyAggregator(q, e)
       /\ e.aggregator.states = s /\ e.aggregator.updates = u
       /\ e.aggregator.mismatch = q.aggregator.mismatch
  BY <1>3, <1>6, <1>7, <1>8, RenewedAt
<1>12. OnlyAggregator(r, e) /\ e.aggregator.mismatch = r.aggregator.mismatch
  BY <1>1, <1>11 DEF OnlyAggregator
<1>13. ASSUME NEW t \in Target
       PROVE  /\ Pending(e, t) = Pending(r, t)
              /\ e.aggregator.states[t].current = r.aggregator.states[t].current
              /\ IsActiveTarget(r, t) => /\ e.aggregator.states[t].dirty
                                         /\ e.aggregator.states[t].token = v
              /\ ~FindsNothing(r, t) => Changes(e, t) = Changes(r, t)
              /\ FindsNothing(r, t) =>
                   \A k \in Key :
                     Changes(e, t)[k] =
                       IF k = r.keyOf[t] THEN None ELSE Changes(r, t)[k]
  <2>1. e.aggregator.states[t] = Stated(t)
    BY <1>9, <1>11
  <2> QED
    BY <1>1, <1>3, <1>4, <1>5, <2>1 DEF Pending, Changes
<1> QED
  BY <1>10, <1>11, <1>12, <1>13 DEF Updates, EventOf

(***************************************************************************)
(* Flushing: active targets start collecting anew.                         *)
(***************************************************************************)
AfterEvent(e, p) ==
  /\ p \in RemoteState
  /\ p.open = e.open /\ p.requests = e.requests /\ p.keyOf = e.keyOf
  /\ p.byKey = e.byKey /\ p.enqueued = e.enqueued /\ p.nextId = e.nextId
  /\ p.aggregator.mismatch = FALSE
  /\ \A k \in Key : Updates(p)[k] = NoUpdate
  /\ \A t \in LimboTarget : t \in p.received <=> ReceivedAfter(e, t)
  /\ \A t \in Target :
       /\ Pending(p, t) = Pending(e, t)
       /\ Changed(e, t) => /\ Changes(p, t) = NoChanges
                           /\ p.token[t] = e.aggregator.states[t].token
       /\ ~Changed(e, t) => /\ p.aggregator.states[t] = e.aggregator.states[t]
                            /\ p.token[t] = e.token[t]

LEMMA AfterAt ==
  ASSUME NEW e \in RemoteState, NEW p, p = AfterRemoteEvent(e)
  PROVE  AfterEvent(e, p)
<1> DEFINE states == e.aggregator.states
           n == [t \in Target |-> IF Changed(e, t) THEN states[t].token
                                  ELSE e.token[t]]
           c == {t \in LimboTarget : ReceivedAfter(e, t)}
           s == [t \in Target |-> IF Changed(e, t) THEN Flushed(states[t])
                                  ELSE states[t]]
           a == [NewAggregator EXCEPT !.states = s]
<1>1. ASSUME NEW t \in Target
      PROVE  /\ states[t] \in TargetState
             /\ Flushed(states[t]) \in TargetState
             /\ Flushed(states[t]).pending = states[t].pending
             /\ Flushed(states[t]).changes = NoChanges
  <2>1. states[t] \in TargetState
    BY PendingType
  <2>2. Flushed(states[t]) = [states[t] EXCEPT !.dirty = FALSE, !.changes = NoChanges]
    BY DEF Flushed, NoChanges
  <2> HIDE DEF states
  <2> QED
    BY <2>1, <2>2, NewStates DEF TargetState
<1>2. n \in [Target -> 0 .. MaxVersion] /\ c \in SUBSET LimboTarget
  <2>1. \A t \in Target : states[t].token \in 0 .. MaxVersion
    BY <1>1, StateFields
  <2> QED
    BY <2>1, RemoteFields
<1>3. s \in [Target -> TargetState]
  BY <1>1
<1>4. /\ \A t \in Target : Changed(e, t) => s[t] = Flushed(states[t])
      /\ \A t \in Target : ~Changed(e, t) => s[t] = states[t]
      /\ \A t \in Target : Changed(e, t) => n[t] = states[t].token
      /\ \A t \in Target : ~Changed(e, t) => n[t] = e.token[t]
      /\ \A t \in LimboTarget : t \in c <=> ReceivedAfter(e, t)
  OBVIOUS
<1>5. p = [e EXCEPT !.token = n, !.received = c, !.aggregator = a]
  BY DEF AfterRemoteEvent
<1> HIDE DEF s, n, c
<1>6. /\ a \in WatchAggregator /\ a.states = s /\ a.mismatch = FALSE
      /\ a.updates = NewAggregator.updates
  <2>1. NewAggregator \in WatchAggregator /\ NewAggregator.mismatch = FALSE
    BY NewStates DEF NewAggregator
  <2> QED
    BY <1>3, <2>1 DEF WatchAggregator
<1> HIDE DEF a
<1>7. /\ p \in RemoteState
      /\ p.open = e.open /\ p.requests = e.requests /\ p.keyOf = e.keyOf
      /\ p.byKey = e.byKey /\ p.enqueued = e.enqueued /\ p.nextId = e.nextId
      /\ p.token = n /\ p.received = c /\ p.aggregator = a
  BY <1>2, <1>5, <1>6 DEF RemoteState
<1>8. ASSUME NEW t \in Target
      PROVE  /\ Pending(p, t) = Pending(e, t)
             /\ Changed(e, t) => /\ Changes(p, t) = NoChanges
                                 /\ p.token[t] = e.aggregator.states[t].token
             /\ ~Changed(e, t) => /\ p.aggregator.states[t] = e.aggregator.states[t]
                                  /\ p.token[t] = e.token[t]
  BY <1>1, <1>4, <1>6, <1>7 DEF Pending, Changes
<1>9. \A k \in Key : Updates(p)[k] = NoUpdate
  BY <1>6, <1>7, NewStates DEF Updates
<1> QED
  BY <1>4, <1>6, <1>7, <1>8, <1>9 DEF AfterEvent

(***************************************************************************)
(* Both together: a snapshot of version v is raised.                       *)
(***************************************************************************)
LEMMA RaisedAt ==
  ASSUME NEW r \in RemoteState, Fit(r), NEW v \in 0 .. MaxVersion, NEW e, NEW p,
         e = CreateRemoteEvent(r, v), p = AfterRemoteEvent(e)
  PROVE  /\ p \in RemoteState
         /\ p.open = r.open /\ p.requests = r.requests /\ p.keyOf = r.keyOf
         /\ p.nextId = r.nextId
         /\ \A k \in Key : Updates(p)[k] = NoUpdate
         /\ \A t \in Target :
              /\ Changed(e, t) <=> IsActiveTarget(r, t)
              /\ Pending(p, t) = Pending(r, t)
              /\ IsActiveTarget(r, t) => Changes(p, t) = NoChanges /\ p.token[t] = v
              /\ ~IsActiveTarget(r, t) => /\ Changes(p, t) = Changes(r, t)
                                          /\ p.token[t] = r.token[t]
         /\ LimboFits(p)
<1>1. /\ OnlyAggregator(r, e)
      /\ \A t \in Target :
           /\ Pending(e, t) = Pending(r, t)
           /\ IsActiveTarget(r, t) => /\ e.aggregator.states[t].dirty
                                      /\ e.aggregator.states[t].token = v
           /\ ~FindsNothing(r, t) => Changes(e, t) = Changes(r, t)
  <2>1. EventOf(r, v, e)
    BY EventAt
  <2> QED
    BY <2>1 DEF EventOf
<1>2. /\ e \in RemoteState /\ e.open = r.open /\ e.requests = r.requests
      /\ e.keyOf = r.keyOf /\ e.nextId = r.nextId /\ e.token = r.token
      /\ e.received = r.received
  BY <1>1 DEF OnlyAggregator
<1>3. /\ p \in RemoteState
      /\ p.open = e.open /\ p.requests = e.requests /\ p.keyOf = e.keyOf
      /\ p.nextId = e.nextId
      /\ \A k \in Key : Updates(p)[k] = NoUpdate
      /\ \A t \in LimboTarget : t \in p.received <=> ReceivedAfter(e, t)
      /\ \A t \in Target :
           /\ Pending(p, t) = Pending(e, t)
           /\ Changed(e, t) => /\ Changes(p, t) = NoChanges
                               /\ p.token[t] = e.aggregator.states[t].token
           /\ ~Changed(e, t) => /\ p.aggregator.states[t] = e.aggregator.states[t]
                                /\ p.token[t] = e.token[t]
  <2>1. AfterEvent(e, p)
    BY <1>2, AfterAt
  <2> QED
    BY <2>1 DEF AfterEvent
<1>4. ASSUME NEW t \in Target
      PROVE  /\ Changed(e, t) <=> IsActiveTarget(r, t)
             /\ Pending(p, t) = Pending(r, t)
             /\ IsActiveTarget(r, t) => Changes(p, t) = NoChanges /\ p.token[t] = v
             /\ ~IsActiveTarget(r, t) => /\ Changes(p, t) = Changes(r, t)
                                         /\ p.token[t] = r.token[t]
  <2>1. IsActiveTarget(e, t) <=> IsActiveTarget(r, t)
    BY <1>1, ActiveAgain
  <2>2. Changed(e, t) <=> IsActiveTarget(r, t)
    BY <1>1, <2>1 DEF Changed
  <2>3. FindsNothing(r, t) => IsActiveTarget(r, t)
    BY DEF FindsNothing
  <2> QED
    BY <1>1, <1>2, <1>3, <2>2, <2>3 DEF Changes
<1>5. LimboFits(p)
  <2>1. ASSUME NEW t \in LimboTarget
        PROVE  /\ p.keyOf[t] # None =>
                    Fits(p.aggregator.states[t].changes, LimboKeys(p, t))
               /\ t >= p.nextId =>
                    /\ p.keyOf[t] = None /\ t \notin p.received
                    /\ p.aggregator.states[t].changes = NoChanges
    <3>1. t \in Target
      BY Targets
    <3>2. CASE IsActiveTarget(r, t)
      <4>1. p.keyOf[t] # None
        BY <1>2, <1>3, <3>2, KeysOf DEF IsActiveTarget
      <4>2. ~(t >= p.nextId)
        BY <1>2, <1>3, <4>1 DEF Fit, LimboFits
      <4> QED
        BY <1>4, <3>1, <3>2, <4>2, NothingFits DEF Changes
    <3>3. CASE ~IsActiveTarget(r, t)
      <4>1. t \in p.received <=> t \in r.received
        BY <1>2, <1>3, <1>4, <3>1, <3>3 DEF ReceivedAfter
      <4>2. Changes(p, t) = Changes(r, t) /\ LimboKeys(p, t) = LimboKeys(r, t)
        BY <1>2, <1>3, <1>4, <3>1, <3>3, <4>1 DEF LimboKeys
      <4> QED
        BY <1>2, <1>3, <4>1, <4>2 DEF Fit, LimboFits, Changes
    <3> QED
      BY <3>2, <3>3
  <2> QED
    BY <2>1 DEF LimboFits
<1> QED
  BY <1>2, <1>3, <1>4, <1>5

-----------------------------------------------------------------------------
(***************************************************************************)
(* The messages of the server.                                             *)
(***************************************************************************)
Errors == {m \in Message : m.type = "error"}

Quiet(q) ==
  /\ \A t : Count(q, AnswerOf(t)) = 0
  /\ Count(q, Errors) = 0

WatchedTypes(w) ==
  /\ DOMAIN w \subseteq Target
  /\ \A t \in DOMAIN w : w[t] \in [key : Key \cup {None}, version : 0 .. MaxVersion]

ServerTypes ==
  /\ backend \in Seq([Key -> ServerDocument]) /\ Latest \in 1 .. MaxVersion
  /\ WatchedTypes(watched)

LEMMA ServerDocuments ==
  ASSUME ServerTypes
  PROVE  /\ Latest \in 1 .. MaxVersion /\ Latest \in 0 .. MaxVersion
         /\ Latest = Len(backend) /\ DOMAIN backend = 1 .. Latest
         /\ \A v \in 1 .. Latest : backend[v] \in [Key -> ServerDocument]
         /\ \A v \in 1 .. Latest : \A k \in Key : backend[v][k] \in ServerDocument
         /\ \A k \in Key : backend[Latest][k] \in ServerDocument
<1>1. /\ Latest \in 1 .. MaxVersion /\ Latest = Len(backend)
      /\ DOMAIN backend = 1 .. Latest
      /\ \A v \in 1 .. Latest : backend[v] \in [Key -> ServerDocument]
  BY Ends DEF ServerTypes, Latest
<1> HIDE DEF Latest
<1> QED
  BY <1>1, Versions

LEMMA NewsTargets ==
  ASSUME NEW w, WatchedTypes(w), NEW k
  PROVE  Updated(k, w) \in SUBSET Target /\ Removed(k, w) \in SUBSET Target
BY DEF WatchedTypes, Updated, Removed, News

LEMMA DocumentMessageType ==
  ASSUME ServerTypes, NEW w, WatchedTypes(w), NEW k \in Key, NEW silent \in BOOLEAN
  PROVE  /\ DocumentMessage(k, w, silent) \in Message
         /\ DocumentMessage(k, w, silent).type = "doc"
         /\ \A t : DocumentMessage(k, w, silent) \notin AnswerOf(t)
         /\ DocumentMessage(k, w, silent) \notin Errors
<1>1. backend[Latest][k] \in DocumentUpdate /\ NoUpdate \in DocumentUpdate
  BY ServerDocuments DEF DocumentUpdate
<1> DEFINE d == IF silent /\ Updated(k, w) = {} /\ backend[Latest][k].kind # None
                THEN NoUpdate ELSE backend[Latest][k]
           m == [type |-> "doc", key |-> k, updated |-> Updated(k, w),
                 removed |-> Removed(k, w), doc |-> d]
<1>2. d \in DocumentUpdate
  BY <1>1
<1>3. DocumentMessage(k, w, silent) = m
  BY DEF DocumentMessage
<1> HIDE DEF d
<1>4. m \in Message /\ m.type = "doc"
  BY <1>2, NewsTargets DEF Message
<1> QED
  BY <1>3, <1>4 DEF AnswerOf, Errors

LEMMA MessagesAt ==
  ASSUME ServerTypes, NEW w, WatchedTypes(w), NEW keys \in SUBSET Key,
         NEW silent \in BOOLEAN
  PROVE  LET q == Messages(keys, w, silent)
         IN  /\ q \in Seq(Message)
             /\ \A i \in DOMAIN q : \E k \in keys : q[i] = DocumentMessage(k, w, silent)
             /\ \A k \in keys : \E i \in DOMAIN q : q[i] = DocumentMessage(k, w, silent)
             /\ Quiet(q)
<1> DEFINE order == SetToSeq(keys)
           q == Messages(keys, w, silent)
<1>1. /\ order \in Seq(keys) /\ Len(order) \in Nat
      /\ DOMAIN order = 1 .. Len(order)
      /\ \A n \in 1 .. Len(order) : order[n] \in keys
      /\ \A k \in keys : \E n \in 1 .. Len(order) : order[n] = k
  BY KeySequence
<1>2. q = [i \in 1 .. Len(order) |-> DocumentMessage(order[i], w, silent)]
  BY <1>1 DEF Messages
<1> HIDE DEF order, q
<1>3. \A i \in 1 .. Len(order) : DocumentMessage(order[i], w, silent) \in Message
  BY <1>1, DocumentMessageType
<1>4. q \in Seq(Message) /\ DOMAIN q = 1 .. Len(order)
  BY <1>1, <1>2, <1>3
<1>5. Quiet(q)
  <2>1. \A i \in 1 .. Len(order) :
          q[i] \notin Errors /\ \A t : q[i] \notin AnswerOf(t)
    BY <1>1, <1>2, DocumentMessageType
  <2>2. Places(q, Errors) = {} /\ \A t : Places(q, AnswerOf(t)) = {}
    BY <1>4, <2>1 DEF Places
  <2> QED
    BY <2>2, FS_EmptySet DEF Count, Quiet
<1> QED
  BY <1>1, <1>2, <1>4, <1>5 DEF q

LEMMA DocumentsAt ==
  ASSUME ServerTypes, NEW w, WatchedTypes(w), NEW silent \in BOOLEAN
  PROVE  /\ DocumentMessages(w, silent) \in Seq(Message)
         /\ Quiet(DocumentMessages(w, silent))
         /\ UpdateMessages(w) \in Seq(Message)
         /\ Quiet(UpdateMessages(w))
BY MessagesAt DEF DocumentMessages, UpdateMessages

LEMMA OnlyAt ==
  ASSUME NEW t \in Target, NEW key \in Key \cup {None}, NEW v \in 0 .. MaxVersion
  PROVE  /\ DOMAIN Only(t, key, v) = {t}
         /\ Only(t, key, v)[t] = [key |-> key, version |-> v]
         /\ WatchedTypes(Only(t, key, v))
BY DEF WatchedTypes, Only

LEMMA SingleMessages ==
  ASSUME ServerTypes, NEW t \in Target
  PROVE  /\ \A type \in {"added", "removed", "current", "reset", "error"} :
              /\ [type |-> type, target |-> t] \in Message
              /\ TargetMessage(type, t) = <<[type |-> type, target |-> t]>>
              /\ TargetMessage(type, t) \in Seq(Message)
              /\ \A s : Count(TargetMessage(type, t), AnswerOf(s)) =
                          IF s = t /\ type \in {"added", "removed"} THEN 1 ELSE 0
              /\ type # "error" => Count(TargetMessage(type, t), Errors) = 0
         /\ Snapshot \in Seq(Message) /\ Quiet(Snapshot)
         /\ \A q \in Request : q.target = t =>
              CountFilter(q) \in Seq(Message) /\ Quiet(CountFilter(q))
<1>1. ASSUME NEW type \in {"added", "removed", "current", "reset", "error"}
      PROVE  /\ [type |-> type, target |-> t] \in Message
             /\ TargetMessage(type, t) = <<[type |-> type, target |-> t]>>
             /\ TargetMessage(type, t) \in Seq(Message)
             /\ \A s : Count(TargetMessage(type, t), AnswerOf(s)) =
                         IF s = t /\ type \in {"added", "removed"} THEN 1 ELSE 0
             /\ type # "error" => Count(TargetMessage(type, t), Errors) = 0
  <2> DEFINE m == [type |-> type, target |-> t]
  <2>1. m \in Message
    BY DEF Message
  <2>2. /\ \A s : m \in AnswerOf(s) <=> s = t /\ type \in {"added", "removed"}
        /\ type # "error" => m \notin Errors
    BY <2>1 DEF AnswerOf, Errors
  <2>3. TargetMessage(type, t) = <<m>>
    BY DEF TargetMessage
  <2> HIDE DEF m
  <2> QED
    BY <2>1, <2>2, <2>3, CountOne DEF m
<1>2. Snapshot \in Seq(Message) /\ Quiet(Snapshot)
  <2> DEFINE m == [type |-> "snapshot", version |-> Latest]
  <2>1. m \in Message
    BY ServerDocuments DEF Message
  <2>2. m \notin Errors /\ \A s : m \notin AnswerOf(s)
    BY DEF AnswerOf, Errors
  <2>3. Snapshot = <<m>>
    BY DEF Snapshot
  <2> HIDE DEF m
  <2> QED
    BY <2>1, <2>2, <2>3, CountOne DEF Quiet
<1>3. ASSUME NEW q \in Request, q.target = t
      PROVE  CountFilter(q) \in Seq(Message) /\ Quiet(CountFilter(q))
  <2> DEFINE S == {k \in Key : /\ q.key \in {k, None}
                               /\ InTarget(q.target, backend[Latest][k])}
             c == Cardinality(S)
             m == [type |-> "filter", target |-> t, count |-> c]
  <2>2. CountFilter(q) = <<m>>
    BY <1>3 DEF CountFilter
  <2> HIDE DEF m
  <2>1. c \in Nat
    <3>1. IsFiniteSet(S)
      BY BoundAssumption, FS_Subset
    <3> HIDE DEF S
    <3> QED
      BY <3>1, FS_CardinalityType
  <2> HIDE DEF c
  <2>3. m \in Message
    BY <2>1 DEF Message, m
  <2>4. m \notin Errors /\ \A s : m \notin AnswerOf(s)
    BY DEF AnswerOf, Errors, m
  <2> HIDE DEF m
  <2> QED
    BY <2>2, <2>3, <2>4, CountOne DEF Quiet
<1> QED
  BY <1>1, <1>2, <1>3

-----------------------------------------------------------------------------
(***************************************************************************)
(* outstanding_responses_ counts exactly what is under way: the requests   *)
(* the server has not taken yet and its answers that have not been         *)
(* handled.  A closed stream has left nothing behind.                      *)
(***************************************************************************)
AnswersAreAwaited ==
  /\ faults["deny"] = 0 =>
       \A t \in Target : Pending(remote, t) =
         Count(remote.requests, RequestTo(t)) + Count(wire, AnswerOf(t))
  /\ ~remote.open => /\ remote.requests = <<>> /\ wire = <<>>
                     /\ DOMAIN watched = {}
                     /\ remote.aggregator = NewAggregator

(***************************************************************************)
(* Only a denial puts an error on the wire.                                *)
(***************************************************************************)
ErrorsAreDenials == faults["deny"] = 0 => Count(wire, Errors) = 0

(***************************************************************************)
(* What holds after every step.                                            *)
(***************************************************************************)
WatchInv == TypeOK /\ AnswersAreAwaited /\ ErrorsAreDenials /\ Fit(remote)

ClientTypes ==
  /\ view \in [listening : BOOLEAN, docs : SUBSET Key, limbo : SUBSET Key,
               current : BOOLEAN, synced : BOOLEAN]
  /\ target \in [token : 0 .. MaxVersion, limboFree : 0 .. MaxVersion]
  /\ disk \in [cache : [Key -> [version : 0 .. MaxVersion, kind : Kind,
                                read : 0 .. MaxVersion]],
               keys : SUBSET Key, seen : 0 .. MaxVersion,
               token : 0 .. MaxVersion, limboFree : 0 .. MaxVersion]
  /\ at \in 0 .. MaxVersion

LEMMA TypeParts ==
  ASSUME TypeOK
  PROVE  /\ ServerTypes /\ ClientTypes
         /\ wire \in Seq(Message) /\ remote \in RemoteState
         /\ faults \in [Fault -> Nat]
BY DEF TypeOK, ServerTypes, ClientTypes, WatchedTypes

(***************************************************************************)
(* The parts make up the invariant of the next state.                      *)
(***************************************************************************)
LEMMA Together ==
  ASSUME ServerTypes', ClientTypes', wire' \in Seq(Message),
         faults' \in [Fault -> Nat],
         NEW r \in RemoteState, remote' \in Lookups(r),
         Fits(Changes(r, QueryTarget), disk'.keys),
         faults'["deny"] = 0 =>
           /\ \A t \in Target : Balance(r, t) = Count(wire', AnswerOf(t))
           /\ Count(wire', Errors) = 0,
         ~r.open => /\ r.requests = <<>> /\ wire' = <<>>
                    /\ DOMAIN watched' = {}
                    /\ r.aggregator = NewAggregator
  PROVE  WatchInv'
<1>1. remote' \in RemoteState /\ Follows(r, remote') /\ LimboFits(remote')
  BY DEF Lookups
<1>2. ~remote'.open => /\ remote'.requests = <<>> /\ wire' = <<>>
                       /\ DOMAIN watched' = {}
                       /\ remote'.aggregator = NewAggregator
  BY <1>1 DEF Follows
<1>3. ASSUME faults'["deny"] = 0, NEW t \in Target
      PROVE  /\ Pending(remote', t) =
                  Count(remote'.requests, RequestTo(t)) + Count(wire', AnswerOf(t))
             /\ Pending(remote', t) \in Nat
  <2>1. Balance(remote', t) = Count(wire', AnswerOf(t))
    BY <1>1, <1>3 DEF Follows
  <2>2. /\ Pending(remote', t) \in Int
        /\ Count(remote'.requests, RequestTo(t)) \in Nat
    BY <1>1, PendingType
  <2>3. Count(wire', AnswerOf(t)) \in Nat
    BY PlacesFinite
  <2> QED
    BY <2>1, <2>2, <2>3 DEF Balance
<1>4. AnswersAreAwaited'
  BY <1>2, <1>3 DEF AnswersAreAwaited
<1>5. TypeOK'
  BY <1>1, <1>3 DEF TypeOK, ServerTypes, ClientTypes, WatchedTypes, Pending
<1>6. Changes(remote', QueryTarget) = Changes(r, QueryTarget)
  BY <1>1, FollowsChanges, Targets DEF Changes
<1>7. Fit(remote)'
  BY <1>1, <1>6 DEF Fit
<1>8. ErrorsAreDenials'
  BY DEF ErrorsAreDenials
<1> QED
  BY <1>4, <1>5, <1>7, <1>8 DEF WatchInv

LEMMA Awaiting ==
  ASSUME WatchInv
  PROVE  /\ faults["deny"] = 0 =>
              /\ \A t \in Target : Balance(remote, t) = Count(wire, AnswerOf(t))
              /\ Count(wire, Errors) = 0
         /\ ~remote.open => /\ remote.requests = <<>> /\ wire = <<>>
                            /\ DOMAIN watched = {}
                            /\ remote.aggregator = NewAggregator
<1>1. TypeOK /\ AnswersAreAwaited /\ ErrorsAreDenials
  BY DEF WatchInv
<1>2. ASSUME faults["deny"] = 0, NEW t \in Target
      PROVE  Balance(remote, t) = Count(wire, AnswerOf(t))
  <2>1. Pending(remote, t) =
          Count(remote.requests, RequestTo(t)) + Count(wire, AnswerOf(t))
    BY <1>1, <1>2 DEF AnswersAreAwaited, ErrorsAreDenials
  <2>2. /\ Count(remote.requests, RequestTo(t)) \in Nat
        /\ Count(wire, AnswerOf(t)) \in Nat
    BY <1>1, TypeParts, PendingType, PlacesFinite
  <2> QED
    BY <2>1, <2>2 DEF Balance
<1> QED
  BY <1>1, <1>2 DEF AnswersAreAwaited, ErrorsAreDenials

LEMMA Faults ==
  ASSUME faults \in [Fault -> Nat], NEW kind \in Fault, Happens(kind)
  PROVE  /\ faults' \in [Fault -> Nat]
         /\ faults'["deny"] = 0 => faults["deny"] = 0 /\ kind # "deny"
         /\ faults'["filter"] = 0 => faults["filter"] = 0 /\ kind # "filter"
BY DEF Happens, Fault

(***************************************************************************)
(* Documents, views and targets.                                           *)
(***************************************************************************)
LEMMA ClientFields ==
  ASSUME ClientTypes
  PROVE  /\ view.listening \in BOOLEAN /\ view.current \in BOOLEAN
         /\ view.synced \in BOOLEAN
         /\ view.docs \in SUBSET Key /\ view.limbo \in SUBSET Key
         /\ target.token \in 0 .. MaxVersion /\ target.limboFree \in 0 .. MaxVersion
         /\ disk.cache \in [Key -> [version : 0 .. MaxVersion, kind : Kind,
                                    read : 0 .. MaxVersion]]
         /\ disk.keys \in SUBSET Key /\ disk.seen \in 0 .. MaxVersion
         /\ disk.token \in 0 .. MaxVersion /\ disk.limboFree \in 0 .. MaxVersion
BY DEF ClientTypes

LEMMA CacheType ==
  ASSUME ClientTypes, NEW updates \in [Key -> DocumentUpdate], NEW v \in 0 .. MaxVersion
  PROVE  CacheAfter(updates, v) \in [Key -> [version : 0 .. MaxVersion, kind : Kind,
                                             read : 0 .. MaxVersion]]
<1>1. ASSUME NEW k \in Key, Accepted(updates, k)
      PROVE  Cached(updates[k], v) \in [version : 0 .. MaxVersion, kind : Kind,
                                        read : 0 .. MaxVersion]
  <2>1. updates[k] \in ServerDocument
    BY <1>1 DEF Accepted, DocumentUpdate
  <2> QED
    BY <2>1 DEF Cached, ServerDocument
<1>2. disk.cache \in [Key -> [version : 0 .. MaxVersion, kind : Kind,
                              read : 0 .. MaxVersion]]
  BY ClientFields
<1> QED
  BY <1>1, <1>2 DEF CacheAfter

LEMMA ApplyTypes ==
  ASSUME ClientTypes, NEW q \in RemoteState, NEW r \in Lookups(q),
         NEW updates \in [Key -> DocumentUpdate], NEW touched \in BOOLEAN,
         NEW state \in TargetState, NEW v \in 0 .. MaxVersion,
         ApplyRemoteEvent(r, updates, touched, state, v)
  PROVE  /\ remote' \in Lookups(q) /\ ClientTypes'
         /\ disk'.keys = IF touched THEN KeysAfter(state.changes) ELSE disk.keys
<1> DEFINE changes == IF touched THEN state.changes ELSE NoChanges
           keys    == KeysAfter(changes)
           token   == IF touched THEN state.token ELSE target.token
           current == IF touched THEN state.current ELSE view.current
           after   == IF view.listening
                      THEN ViewAfter(DocsAfter(updates), keys, current)
                      ELSE view
<1>1. /\ view' = after
      /\ remote' = UpdateTrackedLimboDocuments(r, view.limbo, after.limbo)
      /\ target' = IF view.listening
                   THEN [token |-> token,
                         limboFree |-> LimboFreeAfter(updates, after, token)]
                   ELSE target
      /\ \E persist \in BOOLEAN :
           disk' = [cache |-> CacheAfter(updates, v), keys |-> keys,
                    seen |-> IF v = 0 THEN disk.seen ELSE v,
                    token |-> IF persist THEN token ELSE disk.token,
                    limboFree |-> IF persist THEN target.limboFree
                                  ELSE disk.limboFree]
      /\ at' = IF touched THEN v ELSE at
  BY DEF ApplyRemoteEvent
<1>2. token \in 0 .. MaxVersion /\ current \in BOOLEAN
  BY ClientFields, StateFields
<1>3. keys \in SUBSET Key /\ (~touched => keys = disk.keys)
      /\ (touched => keys = KeysAfter(state.changes))
  <2>1. ~touched => keys = disk.keys
    BY NewStates, ClientFields DEF KeysAfter, None
  <2> QED
    BY <2>1, ClientFields DEF KeysAfter
<1>4. after \in [listening : BOOLEAN, docs : SUBSET Key, limbo : SUBSET Key,
                 current : BOOLEAN, synced : BOOLEAN]
  <2> HIDE DEF keys, current
  <2>1. CASE ~view.listening
    BY <2>1 DEF ClientTypes
  <2>2. CASE view.listening
    <3> DEFINE limbo == IF current THEN DocsAfter(updates) \ keys ELSE view.limbo
               synced == current /\ limbo = {}
    <3>1. DocsAfter(updates) \in SUBSET Key
      BY DEF DocsAfter
    <3>2. limbo \in SUBSET Key /\ synced \in BOOLEAN
      BY <3>1, ClientFields
    <3>3. after = [view EXCEPT !.docs = DocsAfter(updates), !.current = current,
                               !.limbo = limbo, !.synced = synced]
      BY <2>2 DEF ViewAfter
    <3> HIDE DEF limbo, synced, after
    <3> QED
      BY <1>2, <3>1, <3>2, <3>3 DEF ClientTypes
  <2> QED
    BY <2>1, <2>2
<1>5. remote' \in Lookups(q)
  <2>1. after.limbo \in SUBSET Key /\ view.limbo \in SUBSET Key
    BY <1>4, ClientFields
  <2> HIDE DEF after
  <2> QED
    BY <1>1, <2>1, TracksLimbo
<1> HIDE DEF token, keys, current, after
<1>6. target' \in [token : 0 .. MaxVersion, limboFree : 0 .. MaxVersion]
  <2>1. LimboFreeAfter(updates, after, token) \in 0 .. MaxVersion
    BY <1>2, ClientFields DEF LimboFreeAfter
  <2> QED
    BY <1>1, <1>2, <2>1 DEF ClientTypes
<1>7. /\ disk' \in [cache : [Key -> [version : 0 .. MaxVersion, kind : Kind,
                                     read : 0 .. MaxVersion]],
                    keys : SUBSET Key, seen : 0 .. MaxVersion,
                    token : 0 .. MaxVersion, limboFree : 0 .. MaxVersion]
      /\ disk'.keys = keys
  <2>1. PICK persist \in BOOLEAN :
           disk' = [cache |-> CacheAfter(updates, v), keys |-> keys,
                    seen |-> IF v = 0 THEN disk.seen ELSE v,
                    token |-> IF persist THEN token ELSE disk.token,
                    limboFree |-> IF persist THEN target.limboFree
                                  ELSE disk.limboFree]
    BY <1>1
  <2> QED
    BY <1>2, <1>3, <2>1, CacheType, ClientFields
<1>8. at' \in 0 .. MaxVersion
  BY <1>1 DEF ClientTypes
<1> QED
  BY <1>1, <1>3, <1>4, <1>5, <1>6, <1>7, <1>8 DEF ClientTypes

-----------------------------------------------------------------------------
(***************************************************************************)
(* The steps of the client.                                                *)
(***************************************************************************)
SameServer == UNCHANGED <<backend, watched>>

SameClient == UNCHANGED <<view, target, disk, at>>

LEMMA Unchanged ==
  ASSUME TypeOK
  PROVE  /\ SameServer => ServerTypes'
         /\ SameClient => ClientTypes'
BY TypeParts DEF ServerTypes, ClientTypes, SameServer, SameClient, Latest, WatchedTypes

Tokened(r, n) == [r EXCEPT !.token[QueryTarget] = n]

LEMMA TokenSet ==
  ASSUME NEW r \in RemoteState, LimboFits(r), NEW n \in 0 .. MaxVersion,
         NEW p, p = Tokened(r, n)
  PROVE  /\ p \in RemoteState /\ p \in Lookups(p)
         /\ p.open = r.open /\ p.requests = r.requests
         /\ p.aggregator = r.aggregator
         /\ p.token[QueryTarget] = n
<1>1. r.token \in [Target -> 0 .. MaxVersion]
  BY RemoteFields
<1> DEFINE token == [r.token EXCEPT ![QueryTarget] = n]
<1>2. token \in [Target -> 0 .. MaxVersion] /\ token[QueryTarget] = n
  BY <1>1, Targets
<1>3. p = [r EXCEPT !.token = token]
  BY DEF Tokened
<1> HIDE DEF token
<1>4. /\ p \in RemoteState /\ p.token = token
      /\ p.open = r.open /\ p.requests = r.requests
      /\ p.aggregator = r.aggregator /\ p.keyOf = r.keyOf
      /\ p.received = r.received /\ p.nextId = r.nextId
  BY <1>2, <1>3 DEF RemoteState
<1>5. LimboFits(p)
  BY <1>4 DEF LimboFits, LimboKeys
<1> QED
  BY <1>2, <1>4, <1>5, LookupsOf

LEMMA SameBalance ==
  ASSUME NEW r, NEW p, p.aggregator = r.aggregator, p.requests = r.requests
  PROVE  \A t \in Target : Balance(p, t) = Balance(r, t)
BY DEF Balance, Pending

LEMMA DoListen ==
  ASSUME WatchInv, Listen
  PROVE  WatchInv'
<1>1. TypeOK /\ Fit(remote) /\ remote \in RemoteState /\ wire \in Seq(Message)
      /\ faults \in [Fault -> Nat] /\ ClientTypes
  BY TypeParts DEF WatchInv
<1> DEFINE r == Tokened(remote, disk.token)
<1>2. /\ r \in RemoteState /\ r \in Lookups(r)
      /\ r.open = remote.open /\ r.requests = remote.requests
      /\ r.aggregator = remote.aggregator
  BY <1>1, TokenSet, ClientFields DEF Fit
<1>3. remote' = SendWatchRequest(r, QueryTarget)
  BY DEF Listen, Tokened
<1> HIDE DEF r
<1>4. remote' \in Lookups(r)
  BY <1>2, <1>3, SendKeeps, Targets
<1>5. Happens("listen") /\ SameServer /\ wire' = wire /\ disk' = disk /\ at' = 0
      /\ view' = [NewView EXCEPT !.listening = TRUE, !.docs = ExecuteQuery]
      /\ target' = [token |-> disk.token, limboFree |-> disk.limboFree]
  BY DEF Listen, SameServer
<1>6. /\ faults' \in [Fault -> Nat]
      /\ faults'["deny"] = 0 => faults["deny"] = 0
  BY <1>1, <1>5, Faults DEF Fault
<1>7. ClientTypes'
  <2>1. ExecuteQuery \in SUBSET Key
    BY DEF ExecuteQuery, FullScan
  <2>2. target' \in [token : 0 .. MaxVersion, limboFree : 0 .. MaxVersion]
    BY <1>1, <1>5, ClientFields
  <2>3. view' \in [listening : BOOLEAN, docs : SUBSET Key, limbo : SUBSET Key,
                   current : BOOLEAN, synced : BOOLEAN]
    BY <1>5, <2>1 DEF NewView
  <2> QED
    BY <1>1, <1>5, <2>2, <2>3, Versions DEF ClientTypes
<1>8. Fits(Changes(r, QueryTarget), disk'.keys)
  BY <1>1, <1>2, <1>5 DEF Fit, Changes
<1> QED
  BY <1>1, <1>2, <1>4, <1>5, <1>6, <1>7, <1>8, Unchanged, Awaiting, SameBalance, Together
  DEF SameServer

(***************************************************************************)
(* The target of the query is given up from r, which follows q.            *)
(***************************************************************************)
LEMMA Released ==
  ASSUME ClientTypes, NEW q \in RemoteState, NEW r \in Lookups(q), ReleaseTarget(r)
  PROVE  remote' \in Lookups(q) /\ ClientTypes' /\ disk'.keys = disk.keys
<1>1. remote' \in Lookups(q)
  BY ClientFields, TracksLimbo DEF ReleaseTarget
<1>2. view' \in [listening : BOOLEAN, docs : SUBSET Key, limbo : SUBSET Key,
                 current : BOOLEAN, synced : BOOLEAN]
  BY DEF ReleaseTarget, NewView
<1>3. target' \in [token : 0 .. MaxVersion, limboFree : 0 .. MaxVersion]
  BY Versions DEF ReleaseTarget, NewTargetData
<1>4. disk'.keys = disk.keys /\ at' = at
      /\ disk' = [disk EXCEPT !.token = target.token,
                              !.limboFree = target.limboFree]
  BY DEF ReleaseTarget, ClientTypes
<1>5. target.token \in 0 .. MaxVersion /\ target.limboFree \in 0 .. MaxVersion
  BY ClientFields
<1> QED
  BY <1>1, <1>2, <1>3, <1>4, <1>5 DEF ClientTypes

LEMMA DoStopListening ==
  ASSUME WatchInv, StopListening
  PROVE  WatchInv'
<1>1. TypeOK /\ Fit(remote) /\ remote \in RemoteState /\ wire \in Seq(Message)
      /\ faults \in [Fault -> Nat] /\ ClientTypes
  BY TypeParts DEF WatchInv
<1> DEFINE r == SendUnwatchRequest(remote, QueryTarget)
<1>2. r \in Lookups(remote)
  BY <1>1, LookupsOf, SendKeeps, Targets DEF Fit
<1>3. Happens("stop") /\ ReleaseTarget(r) /\ SameServer /\ wire' = wire
  BY DEF StopListening, SameServer
<1> HIDE DEF r
<1>4. remote' \in Lookups(remote) /\ ClientTypes' /\ disk'.keys = disk.keys
  BY <1>1, <1>2, <1>3, Released
<1>5. /\ faults' \in [Fault -> Nat]
      /\ faults'["deny"] = 0 => faults["deny"] = 0
  BY <1>1, <1>3, Faults DEF Fault
<1>6. Fits(Changes(remote, QueryTarget), disk'.keys)
  BY <1>1, <1>4 DEF Fit
<1> QED
  BY <1>1, <1>3, <1>4, <1>5, <1>6, Unchanged, Awaiting, Together
  DEF SameServer

(***************************************************************************)
(* A stream that is closed, or the client after a kill.                    *)
(***************************************************************************)
LEMMA NothingAwaited ==
  ASSUME NEW r, r.aggregator = NewAggregator, r.requests = <<>>, NEW q, q = <<>>
  PROVE  /\ \A t \in Target : Balance(r, t) = Count(q, AnswerOf(t))
         /\ Count(q, Errors) = 0
BY NewStates, NoPlaces DEF Balance, Pending

LEMMA DoOnWatchStreamClose ==
  ASSUME WatchInv, OnWatchStreamClose
  PROVE  WatchInv'
<1>1. TypeOK /\ Fit(remote) /\ remote \in RemoteState
      /\ faults \in [Fault -> Nat] /\ ClientTypes /\ ServerTypes
  BY TypeParts DEF WatchInv
<1>2. /\ UNCHANGED faults \/ Happens("break")
      /\ remote' = Closed(remote) /\ wire' = <<>> /\ watched' = <<>>
      /\ backend' = backend /\ SameClient /\ disk' = disk
  BY DEF OnWatchStreamClose, SameClient
<1>3. /\ faults' \in [Fault -> Nat]
      /\ faults'["deny"] = 0 => faults["deny"] = 0
  BY <1>1, <1>2, Faults DEF Fault
<1>4. /\ remote' \in RemoteState
      /\ remote'.aggregator = NewAggregator /\ remote'.requests = <<>>
      /\ remote'.keyOf = remote.keyOf /\ remote'.received = remote.received
      /\ remote'.nextId = remote.nextId
  <2>1. <<>> \in Seq(Request) /\ NewAggregator \in WatchAggregator
    BY NewStates
  <2>2. remote' = [remote EXCEPT !.open = FALSE, !.requests = <<>>,
                                 !.aggregator = NewAggregator]
    BY <1>2 DEF Closed
  <2> QED
    BY <1>1, <2>1, <2>2 DEF RemoteState
<1>5. \A t \in Target : Changes(remote', t) = NoChanges
  BY <1>4, NewStates DEF Changes
<1>6. LimboFits(remote')
  BY <1>1, <1>4, <1>5, NothingFits, Targets DEF Fit, LimboFits, Changes
<1>7. ServerTypes'
  BY <1>1, <1>2 DEF ServerTypes, Latest, WatchedTypes
<1>8. Fits(Changes(remote', QueryTarget), disk'.keys)
  BY <1>5, NothingFits, Targets
<1>9. wire' \in Seq(Message)
  BY <1>2
<1> QED
  BY <1>1, <1>2, <1>3, <1>4, <1>6, <1>7, <1>8, <1>9, Unchanged, LookupsOf,
     NothingAwaited, Together

LEMMA DoKill ==
  ASSUME WatchInv, Kill
  PROVE  WatchInv'
<1>1. TypeOK /\ faults \in [Fault -> Nat] /\ ClientTypes /\ ServerTypes
  BY TypeParts DEF WatchInv
<1>2. /\ Happens("kill")
      /\ remote' = NewRemote /\ wire' = <<>> /\ watched' = <<>>
      /\ view' = NewView /\ target' = NewTargetData
      /\ backend' = backend /\ disk' = disk /\ at' = at
  BY DEF Kill
<1>3. /\ faults' \in [Fault -> Nat]
      /\ faults'["deny"] = 0 => faults["deny"] = 0
  BY <1>1, <1>2, Faults DEF Fault
<1>4. /\ remote' \in RemoteState
      /\ remote'.aggregator = NewAggregator /\ remote'.requests = <<>>
      /\ \A t \in LimboTarget : remote'.keyOf[t] = None
      /\ remote'.received = {}
  BY <1>2, NewStates DEF NewRemote
<1>5. \A t \in Target : Changes(remote', t) = NoChanges
  BY <1>4, NewStates DEF Changes
<1>6. LimboFits(remote')
  BY <1>4, <1>5, NothingFits, Targets DEF LimboFits, Changes
<1>7. ServerTypes'
  BY <1>1, <1>2 DEF ServerTypes, Latest, WatchedTypes
<1>8. ClientTypes'
  BY <1>1, <1>2, Versions DEF ClientTypes, NewView, NewTargetData
<1>9. Fits(Changes(remote', QueryTarget), disk'.keys)
  BY <1>5, NothingFits, Targets
<1>10. wire' \in Seq(Message)
  BY <1>2
<1> QED
  BY <1>2, <1>3, <1>4, <1>6, <1>7, <1>8, <1>9, <1>10, LookupsOf, NothingAwaited, Together

LEMMA DoHandleOnlineStateChange ==
  ASSUME WatchInv, HandleOnlineStateChange
  PROVE  WatchInv'
<1>1. TypeOK /\ Fit(remote) /\ remote \in RemoteState /\ wire \in Seq(Message)
      /\ faults \in [Fault -> Nat] /\ ClientTypes
  BY TypeParts DEF WatchInv
<1>2. /\ Happens("offline") /\ SameServer /\ wire' = wire /\ remote' = remote
      /\ target' = target /\ disk' = disk /\ at' = at
      /\ view' = [view EXCEPT !.current = FALSE, !.synced = FALSE]
  BY DEF HandleOnlineStateChange, SameServer
<1>3. /\ faults' \in [Fault -> Nat]
      /\ faults'["deny"] = 0 => faults["deny"] = 0
  BY <1>1, <1>2, Faults DEF Fault
<1>4. ClientTypes'
  BY <1>1, <1>2 DEF ClientTypes
<1>5. Fits(Changes(remote, QueryTarget), disk'.keys) /\ remote' \in Lookups(remote)
  BY <1>1, <1>2, LookupsOf DEF Fit
<1> QED
  BY <1>1, <1>2, <1>3, <1>4, <1>5, Unchanged, Awaiting, Together
  DEF SameServer

(***************************************************************************)
(* A stream that opens asks once for each target that is listened to.      *)
(***************************************************************************)
Asks(r, order) == [i \in DOMAIN order |-> WatchRequest(r, order[i])]

LEMMA AskedOnce ==
  ASSUME NEW r \in RemoteState, NEW T \in SUBSET Target, NEW order \in SetToSeqs(T),
         NEW q, q = Asks(r, order),
         NEW t \in Target
  PROVE  /\ q \in Seq(Request)
         /\ Count(q, RequestTo(t)) = IF t \in T THEN 1 ELSE 0
<1> DEFINE n == Cardinality(T)
<1>1. IsFiniteSet(T) /\ n \in Nat
  <2>1. IsFiniteSet(Target)
    <3>1. IsFiniteSet(1 .. MaxLimboTargets)
      BY Targets, FS_Interval
    <3>2. IsFiniteSet({QueryTarget})
      BY FS_Singleton
    <3> QED
      BY <3>1, <3>2, FS_Union DEF Target, LimboTarget
  <2> QED
    BY <2>1, FS_Subset, FS_CardinalityType
<1>2. /\ order \in [1 .. n -> T]
      /\ \A i, j \in 1 .. n : i # j => order[i] # order[j]
  BY DEF SetToSeqs
<1> HIDE DEF n
<1>3. \A i \in 1 .. n : /\ WatchRequest(r, order[i]) \in Request
                        /\ WatchRequest(r, order[i]).target = order[i]
  BY <1>2, Requests
<1>4. q = [i \in 1 .. n |-> WatchRequest(r, order[i])]
  BY <1>2 DEF Asks
<1>5. q \in Seq(Request) /\ DOMAIN q = 1 .. n
  BY <1>1, <1>3, <1>4
<1>6. Places(q, RequestTo(t)) = {i \in 1 .. n : order[i] = t}
  BY <1>3, <1>4, <1>5 DEF Places, RequestTo
<1>7. CASE t \notin T
  <2>1. Places(q, RequestTo(t)) = {}
    BY <1>2, <1>6, <1>7
  <2> QED
    BY <1>5, <1>7, <2>1, FS_EmptySet DEF Count
<1>8. CASE t \in T
  <2>1. \E i \in 1 .. n : order[i] = t
    <3>1. IsFiniteSet(1 .. n) /\ Cardinality(1 .. n) = n
      BY <1>1, FS_Interval
    <3>2. order \in Injection(1 .. n, T)
      BY <1>2 DEF Injection, IsInjective
    <3>3. order \in Surjection(1 .. n, T)
      BY <1>1, <3>1, <3>2, FS_Injection DEF n
    <3> QED
      BY <1>8, <3>3 DEF Surjection
  <2>2. PICK i \in 1 .. n : order[i] = t
    BY <2>1
  <2>3. Places(q, RequestTo(t)) = {i}
    BY <1>2, <1>6, <2>2
  <2> QED
    BY <1>5, <1>8, <2>3, FS_Singleton DEF Count
<1> QED
  BY <1>7, <1>8

Asked(r, T, q) ==
  [r EXCEPT
     !.open = TRUE, !.requests = q,
     !.aggregator.states =
       [t \in Target |-> IF t \in T THEN RecordPendingTargetRequest(@[t])
                         ELSE @[t]]]

AskedFrom(r, T, q, p) ==
  /\ p \in RemoteState /\ p.open /\ p.requests = q
  /\ p.keyOf = r.keyOf /\ p.received = r.received /\ p.nextId = r.nextId
  /\ p.token = r.token /\ p.aggregator.updates = r.aggregator.updates
  /\ p.aggregator.mismatch = r.aggregator.mismatch
  /\ \A t \in Target :
       /\ Changes(p, t) = Changes(r, t)
       /\ t \in T => Pending(p, t) = Pending(r, t) + 1
       /\ t \notin T => Pending(p, t) = Pending(r, t)

LEMMA Asking ==
  ASSUME NEW r \in RemoteState, NEW T \in SUBSET Target, NEW q \in Seq(Request),
         NEW p, p = Asked(r, T, q)
  PROVE  AskedFrom(r, T, q, p)
<1> DEFINE State(t) == RecordPendingTargetRequest(r.aggregator.states[t])
           states == [t \in Target |-> IF t \in T THEN State(t)
                                       ELSE r.aggregator.states[t]]
           a == [r.aggregator EXCEPT !.states = states]
<1>1. ASSUME NEW t \in Target
      PROVE  /\ State(t) \in TargetState
             /\ State(t).pending = Pending(r, t) + 1
             /\ State(t).changes = Changes(r, t)
             /\ r.aggregator.states[t] \in TargetState
  <2>1. r.aggregator.states[t] \in TargetState
    BY RemoteFields
  <2>2. Pending(r, t) + 1 \in Int
    BY <2>1, StateFields DEF Pending
  <2>3. State(t) = [r.aggregator.states[t] EXCEPT !.pending = Pending(r, t) + 1]
    BY DEF Pending, RecordPendingTargetRequest
  <2> QED
    BY <2>1, <2>2, <2>3, WithPending DEF Changes
<1> HIDE DEF State
<1>2. states \in [Target -> TargetState]
  BY <1>1
<1>3. p = [r EXCEPT !.open = TRUE, !.requests = q, !.aggregator = a]
  BY DEF State, Asked
<1> HIDE DEF states
<1>4. /\ a \in WatchAggregator /\ a.states = states
      /\ a.updates = r.aggregator.updates /\ a.mismatch = r.aggregator.mismatch
  BY <1>2, RemoteFields DEF WatchAggregator
<1> HIDE DEF a
<1>5. /\ p \in RemoteState /\ p.open /\ p.requests = q /\ p.aggregator = a
      /\ p.keyOf = r.keyOf /\ p.received = r.received /\ p.nextId = r.nextId
      /\ p.token = r.token
  BY <1>3, <1>4 DEF RemoteState
<1>6. \A t \in Target : p.aggregator.states[t] = IF t \in T THEN State(t)
                                                 ELSE r.aggregator.states[t]
  BY <1>4, <1>5 DEF states
<1>7. ASSUME NEW t \in Target
      PROVE  /\ Changes(p, t) = Changes(r, t)
             /\ t \in T => Pending(p, t) = Pending(r, t) + 1
             /\ t \notin T => Pending(p, t) = Pending(r, t)
  BY <1>1, <1>6 DEF Changes, Pending
<1> QED
  BY <1>4, <1>5, <1>7 DEF AskedFrom

LEMMA DoOnWatchStreamOpen ==
  ASSUME WatchInv, OnWatchStreamOpen
  PROVE  WatchInv'
<1>1. TypeOK /\ Fit(remote) /\ remote \in RemoteState /\ wire \in Seq(Message)
      /\ faults \in [Fault -> Nat] /\ ClientTypes
  BY TypeParts DEF WatchInv
<1>2. PICK order \in SetToSeqs(ListenedTargets) :
        remote' = [remote EXCEPT
                     !.open = TRUE,
                     !.requests = [i \in DOMAIN order |->
                                     WatchRequest(remote, order[i])],
                     !.aggregator.states =
                       [t \in Target |->
                          IF t \in ListenedTargets
                          THEN RecordPendingTargetRequest(@[t]) ELSE @[t]]]
  BY DEF OnWatchStreamOpen
<1>3. ~remote.open /\ SameServer /\ wire' = wire /\ SameClient /\ disk' = disk
      /\ faults' = faults
  BY DEF OnWatchStreamOpen, SameServer, SameClient
<1>4. ListenedTargets \in SUBSET Target
  BY DEF ListenedTargets
<1> DEFINE q == Asks(remote, order)
<1>5. order \in SetToSeqs(ListenedTargets) /\ remote \in RemoteState
      /\ remote' = Asked(remote, ListenedTargets, q)
  BY <1>1, <1>2 DEF Asked, Asks
<1>6. /\ q \in Seq(Request)
      /\ \A t \in Target :
           Count(q, RequestTo(t)) = IF t \in ListenedTargets THEN 1 ELSE 0
  <2>1. q = Asks(remote, order)
    OBVIOUS
  <2> HIDE DEF q
  <2>2. ASSUME NEW t \in Target
        PROVE  /\ q \in Seq(Request)
               /\ Count(q, RequestTo(t)) = IF t \in ListenedTargets THEN 1 ELSE 0
    BY <1>4, <1>5, <2>1, AskedOnce
  <2> QED
    BY <2>2, Targets
<1> HIDE DEF q
<1>6a. AskedFrom(remote, ListenedTargets, q, remote')
  BY <1>4, <1>5, <1>6, Asking
<1>7. wire = <<>> /\ remote.aggregator = NewAggregator
  BY <1>3, Awaiting
<1>8. \A t \in Target : Balance(remote', t) = 0
  BY <1>6, <1>6a, <1>7, NewStates DEF Balance, Pending, AskedFrom
<1>9. /\ \A t \in Target : Balance(remote', t) = Count(wire', AnswerOf(t))
      /\ Count(wire', Errors) = 0
  BY <1>3, <1>7, <1>8, NoPlaces
<1>10. LimboFits(remote') /\ Fits(Changes(remote', QueryTarget), disk'.keys)
  <2>1. LimboFits(remote) /\ Fits(Changes(remote, QueryTarget), disk.keys)
    BY <1>1 DEF Fit
  <2> QED
    BY <1>3, <1>6a, <2>1, Targets DEF LimboFits, LimboKeys, Changes, AskedFrom
<1>11. remote' \in RemoteState /\ remote'.open
  BY <1>6a DEF AskedFrom
<1> QED
  BY <1>1, <1>3, <1>9, <1>10, <1>11, Unchanged, LookupsOf, Together

-----------------------------------------------------------------------------
(***************************************************************************)
(* A message of the wire is handled.                                       *)
(***************************************************************************)
LEMMA Taken ==
  ASSUME WatchInv, wire # <<>>, wire' = Tail(wire), faults' = faults
  PROVE  /\ wire' \in Seq(Message) /\ Head(wire) \in Message /\ remote.open
         /\ faults'["deny"] = 0 => Head(wire) \notin Errors
         /\ faults'["deny"] = 0 =>
              /\ \A t \in Target :
                   Balance(remote, t) =
                     IF Head(wire) \in AnswerOf(t)
                     THEN Count(wire', AnswerOf(t)) + 1
                     ELSE Count(wire', AnswerOf(t))
              /\ Count(wire', Errors) = 0
<1>1. wire \in Seq(Message) /\ remote.open
  BY Awaiting, TypeParts DEF WatchInv
<1>2. wire' \in Seq(Message) /\ Head(wire) \in Message
  BY <1>1, Removing
<1>3. \A T : Count(wire, T) = IF Head(wire) \in T THEN Count(wire', T) + 1
                              ELSE Count(wire', T)
  BY <1>1, CountTail
<1>4. \A T : Count(wire', T) \in Nat
  BY <1>2, PlacesFinite
<1>5. ASSUME faults["deny"] = 0
      PROVE  Head(wire) \notin Errors /\ Count(wire', Errors) = 0
  <2>1. Count(wire, Errors) = 0
    BY <1>5, Awaiting
  <2> QED
    BY <1>3, <1>4, <2>1
<1>6. faults["deny"] = 0 =>
        \A t \in Target : Balance(remote, t) = Count(wire, AnswerOf(t))
  BY Awaiting
<1> QED
  BY <1>1, <1>2, <1>3, <1>5, <1>6

(***************************************************************************)
(* It leaves the client with r, and with what follows r.                   *)
(***************************************************************************)
LEMMA Handling ==
  ASSUME WatchInv, wire # <<>>, wire' = Tail(wire), faults' = faults, SameServer,
         ClientTypes', NEW r \in RemoteState, remote' \in Lookups(r),
         Fits(Changes(r, QueryTarget), disk'.keys), r.open,
         faults["deny"] = 0 => /\ r.requests = remote.requests
                               /\ Counted(remote, Head(wire), r)
  PROVE  WatchInv'
<1>1. TypeOK /\ remote \in RemoteState /\ faults \in [Fault -> Nat]
  BY TypeParts DEF WatchInv
<1>2. ASSUME faults["deny"] = 0, NEW t \in Target
      PROVE  Balance(r, t) = Count(wire', AnswerOf(t))
  <2>1. r.requests = remote.requests /\ Counted(remote, Head(wire), r)
    BY <1>2
  <2>2. Balance(remote, t) =
          IF Head(wire) \in AnswerOf(t) THEN Count(wire', AnswerOf(t)) + 1
          ELSE Count(wire', AnswerOf(t))
    BY <1>2, Taken
  <2>3. /\ Pending(remote, t) \in Int
        /\ Count(remote.requests, RequestTo(t)) \in Nat
        /\ Count(wire', AnswerOf(t)) \in Nat
    BY <1>1, PendingType, PlacesFinite, Taken
  <2> QED
    BY <2>1, <2>2, <2>3 DEF Balance, Counted
<1> QED
  BY <1>1, <1>2, Taken, Unchanged, Together

LEMMA DoHandleChange ==
  ASSUME WatchInv, wire # <<>>, wire' = Tail(wire), faults' = faults, SameServer,
         HandleChange(Head(wire))
  PROVE  WatchInv'
<1>1. TypeOK /\ Fit(remote) /\ remote \in RemoteState
  BY TypeParts DEF WatchInv
<1>2. Head(wire) \in Message /\ remote.open
  BY Taken
<1>3. /\ Head(wire).type \notin {"snapshot", "error"}
      /\ remote' = HandleWatchChange(remote, Head(wire)) /\ SameClient
      /\ disk' = disk
  BY DEF HandleChange, SameClient
<1>4. OnlyAggregator(remote, remote') /\ Fit(remote')
      /\ Counted(remote, Head(wire), remote')
  BY <1>1, <1>2, <1>3, Handled
<1>5. remote' \in RemoteState /\ remote'.open /\ remote'.requests = remote.requests
  BY <1>2, <1>4 DEF OnlyAggregator
<1>6. remote' \in Lookups(remote') /\ Fits(Changes(remote', QueryTarget), disk'.keys)
  BY <1>3, <1>4, <1>5, LookupsOf DEF Fit
<1> QED
  BY <1>1, <1>3, <1>4, <1>5, <1>6, Unchanged, Handling

LEMMA DoIgnoreSnapshot ==
  ASSUME WatchInv, wire # <<>>, wire' = Tail(wire), faults' = faults, SameServer,
         IgnoreSnapshot(Head(wire))
  PROVE  WatchInv'
<1>1. TypeOK /\ Fit(remote) /\ remote \in RemoteState
  BY TypeParts DEF WatchInv
<1>2. Head(wire) \in Message /\ remote.open
  BY Taken
<1>3. /\ Head(wire).type = "snapshot"
      /\ remote' = WithResumeTokens(remote, Head(wire).version) /\ SameClient
      /\ disk' = disk
  BY DEF IgnoreSnapshot, SameClient
<1>4. Head(wire).version \in 0 .. MaxVersion
  BY <1>2, <1>3, MessageParts
<1>5. /\ OnlyAggregator(remote, remote')
      /\ \A t \in Target : /\ Pending(remote', t) = Pending(remote, t)
                           /\ Changes(remote', t) = Changes(remote, t)
  BY <1>1, <1>3, <1>4, TokensGiven
<1>6. Fit(remote')
  BY <1>1, <1>5, FitAgain
<1>7. remote' \in RemoteState /\ remote'.open /\ remote'.requests = remote.requests
  BY <1>2, <1>5 DEF OnlyAggregator
<1>8. Counted(remote, Head(wire), remote')
  BY <1>2, <1>3, <1>5, Uncounted
<1>9. remote' \in Lookups(remote') /\ Fits(Changes(remote', QueryTarget), disk'.keys)
  BY <1>3, <1>6, <1>7, LookupsOf DEF Fit
<1> QED
  BY <1>1, <1>3, <1>7, <1>8, <1>9, Unchanged, Handling

(***************************************************************************)
(* A snapshot is raised; a query that did not match is listened to anew.   *)
(***************************************************************************)
LEMMA Reestablished ==
  ASSUME NEW p \in RemoteState, LimboFits(p), NEW mismatch \in BOOLEAN,
         NEW q, q = ReestablishListen(p, mismatch)
  PROVE  \E r \in RemoteState :
           /\ q \in Lookups(r) /\ r.aggregator = p.aggregator
           /\ r.requests = p.requests /\ r.open = p.open
<1>1. CASE mismatch /\ view.listening
  <2> DEFINE r == Tokened(p, 0)
  <2>1. /\ r \in RemoteState /\ r \in Lookups(r)
        /\ r.open = p.open /\ r.requests = p.requests
        /\ r.aggregator = p.aggregator
    BY TokenSet, Versions
  <2>2. q = SendWatchRequest(SendUnwatchRequest(r, QueryTarget), QueryTarget)
    BY <1>1 DEF ReestablishListen, Tokened
  <2> HIDE DEF r
  <2>3. q \in Lookups(r)
    BY <2>1, <2>2, SendKeeps, Targets
  <2> QED
    BY <2>1, <2>3
<1>2. CASE ~(mismatch /\ view.listening)
  <2>1. q = p
    BY <1>2 DEF ReestablishListen
  <2> QED
    BY <2>1, LookupsOf
<1> QED
  BY <1>1, <1>2

LEMMA DoRaiseWatchSnapshot ==
  ASSUME WatchInv, wire # <<>>, wire' = Tail(wire), faults' = faults, SameServer,
         RaiseWatchSnapshot(Head(wire))
  PROVE  WatchInv'
<1>1. TypeOK /\ Fit(remote) /\ remote \in RemoteState /\ ClientTypes
  BY TypeParts DEF WatchInv
<1>2. Head(wire) \in Message /\ remote.open
  BY Taken
<1> DEFINE v == Head(wire).version
           e == CreateRemoteEvent(remote, v)
           p == AfterRemoteEvent(e)
           q == ReestablishListen(p, e.aggregator.mismatch)
           touched == Changed(e, QueryTarget)
           state == e.aggregator.states[QueryTarget]
<1>3. /\ Head(wire).type = "snapshot"
      /\ ApplyRemoteEvent(q, e.aggregator.updates, touched, state, v)
  BY DEF RaiseWatchSnapshot
<1>4. v \in 0 .. MaxVersion
  BY <1>2, <1>3, MessageParts
<1>5. EventOf(remote, v, e)
  BY <1>1, <1>4, EventAt
<1>6. /\ p \in RemoteState
      /\ p.open = remote.open /\ p.requests = remote.requests
      /\ \A t \in Target :
           /\ Changed(e, t) <=> IsActiveTarget(remote, t)
           /\ Pending(p, t) = Pending(remote, t)
           /\ IsActiveTarget(remote, t) => Changes(p, t) = NoChanges
           /\ ~IsActiveTarget(remote, t) => Changes(p, t) = Changes(remote, t)
      /\ LimboFits(p)
  BY <1>1, <1>4, RaisedAt
<1> HIDE DEF v, e
<1>7. e \in RemoteState /\ e.aggregator.mismatch \in BOOLEAN
      /\ e.aggregator.updates \in [Key -> DocumentUpdate]
      /\ state \in TargetState
  <2>1. e \in RemoteState
    BY <1>5 DEF EventOf, OnlyAggregator
  <2> QED
    BY <2>1, RemoteFields, AggregatorFields, Targets
<1> HIDE DEF p, q, state
<1>8. touched \in BOOLEAN /\ (touched <=> IsActiveTarget(remote, QueryTarget))
  BY <1>6, Targets DEF touched, Changed
<1> HIDE DEF touched
<1>9. PICK r \in RemoteState :
        /\ q \in Lookups(r) /\ r.aggregator = p.aggregator
        /\ r.requests = p.requests /\ r.open = p.open
  BY <1>6, <1>7, Reestablished DEF q
<1>10. /\ remote' \in Lookups(r) /\ ClientTypes'
       /\ disk'.keys = IF touched THEN KeysAfter(state.changes) ELSE disk.keys
  BY <1>1, <1>3, <1>4, <1>7, <1>8, <1>9, ApplyTypes
<1>11. Changes(r, QueryTarget) = Changes(p, QueryTarget)
       /\ \A t \in Target : Pending(r, t) = Pending(p, t)
  BY <1>9 DEF Changes, Pending
<1>12. Fits(Changes(r, QueryTarget), disk'.keys)
  <2>1. CASE touched
    BY <1>6, <1>8, <1>11, <2>1, Targets, NothingFits
  <2>2. CASE ~touched
    BY <1>1, <1>6, <1>8, <1>10, <1>11, <2>2, Targets DEF Fit
  <2> QED
    BY <2>1, <2>2
<1>13. Counted(remote, Head(wire), r)
  BY <1>2, <1>3, <1>6, <1>11, Uncounted
<1> QED
  BY <1>2, <1>6, <1>9, <1>10, <1>12, <1>13, Handling

(***************************************************************************)
(* A denial: the document of a lookup leaves the cache, the query is given *)
(* up.                                                                     *)
(***************************************************************************)
LEMMA UnkeyedFits ==
  ASSUME NEW r \in RemoteState, LimboFits(r), NEW key \in Key, NEW t \in LimboTarget,
         NEW p, p = ForgetLimboTarget(Unkeyed(r, key), t)
  PROVE  p \in Lookups(r)
<1> DEFINE u == Unkeyed(r, key)
<1>1. u = [r EXCEPT !.byKey = [r.byKey EXCEPT ![key] = 0]]
  BY DEF Unkeyed
<1>2. [r.byKey EXCEPT ![key] = 0] \in [Key -> 0 .. MaxLimboTargets]
  BY RemoteFields, Targets
<1> HIDE DEF u
<1>3. /\ u \in RemoteState /\ SameStream(r, u) /\ u.keyOf = r.keyOf
      /\ u.received = r.received /\ u.nextId = r.nextId
  BY <1>1, <1>2 DEF RemoteState, SameStream
<1>4. /\ p \in RemoteState /\ SameStream(u, p) /\ p.nextId = u.nextId
      /\ p.keyOf[t] = None /\ t \notin p.received
      /\ \A s \in LimboTarget :
           s # t => /\ p.keyOf[s] = u.keyOf[s]
                    /\ s \in p.received <=> s \in u.received
  BY <1>3, Forgets DEF u
<1>5. Follows(r, p)
  BY <1>3, <1>4, Same, FollowsSame DEF SameStream
<1>6. LimboFits(p)
  <2>1. p.aggregator = r.aggregator /\ p.nextId = r.nextId
    BY <1>3, <1>4 DEF SameStream
  <2>2. ASSUME NEW s \in LimboTarget
        PROVE  /\ p.keyOf[s] # None => s # t /\ LimboKeys(p, s) = LimboKeys(r, s)
               /\ p.keyOf[s] # None => r.keyOf[s] # None
               /\ r.keyOf[s] = None => p.keyOf[s] = None
               /\ s \notin r.received => s \notin p.received
    BY <1>3, <1>4 DEF LimboKeys
  <2> QED
    BY <2>1, <2>2 DEF LimboFits
<1> QED
  BY <1>4, <1>5, <1>6 DEF Lookups

LEMMA Rejected ==
  ASSUME ClientTypes, remote \in RemoteState, Fit(remote), NEW t \in Target,
         Listened(remote, t), HandleRejectedListen(t)
  PROVE  \E r \in RemoteState :
           /\ remote' \in Lookups(r) /\ ClientTypes' /\ r.open = remote.open
           /\ Fits(Changes(r, QueryTarget), disk'.keys)
<1> DEFINE r == [remote EXCEPT !.aggregator.states[t] = NewState]
<1>1. StateChanged(remote, t, NewState, r)
  BY NewStates, ChangesState
<1> HIDE DEF r
<1>2. OnlyAggregator(remote, r) /\ Fit(r)
  BY <1>1, NewStates, ChangedFits
<1>3. /\ r \in RemoteState /\ r.open = remote.open /\ LimboFits(r)
      /\ Fits(Changes(r, QueryTarget), disk.keys)
      /\ r \in Lookups(r)
  BY <1>2, LookupsOf DEF OnlyAggregator, Fit
<1>4. CASE t = QueryTarget
  <2>1. ReleaseTarget(r)
    BY <1>4 DEF HandleRejectedListen, r
  <2> QED
    BY <1>3, <2>1, Released
<1>5. CASE t # QueryTarget
  <2> DEFINE key == remote.keyOf[t]
             forgotten == ForgetLimboTarget(Unkeyed(r, key), t)
             pumped == PumpEnqueuedLimboResolutions(forgotten)
             updates == [k \in Key |-> IF k = key THEN Missing ELSE NoUpdate]
  <2>1. t \in LimboTarget /\ key \in Key
    BY <1>5, Targets, RemoteFields DEF Listened
  <2>2. ApplyRemoteEvent(pumped, updates, FALSE, NewState, 0)
    BY <1>5 DEF HandleRejectedListen, Unkeyed, r
  <2>3. updates \in [Key -> DocumentUpdate]
    <3>1. Missing \in DocumentUpdate /\ NoUpdate \in DocumentUpdate
      BY Versions DEF Missing, DocumentUpdate, ServerDocument, Kind
    <3> QED
      BY <3>1
  <2> HIDE DEF key, updates
  <2>4. forgotten \in Lookups(r)
    BY <1>3, <2>1, UnkeyedFits
  <2> HIDE DEF forgotten
  <2>5. pumped \in Lookups(r)
    BY <1>3, <2>4, LookupsKept, Pumped
  <2> HIDE DEF pumped
  <2>6. remote' \in Lookups(r) /\ ClientTypes' /\ disk'.keys = disk.keys
    BY <1>3, <2>2, <2>3, <2>5, ApplyTypes, NewStates, Versions
  <2> QED
    BY <1>3, <2>6
<1> QED
  BY <1>4, <1>5

LEMMA DoProcessTargetError ==
  ASSUME WatchInv, wire # <<>>, wire' = Tail(wire), faults' = faults, SameServer,
         ProcessTargetError(Head(wire))
  PROVE  WatchInv'
<1>1. TypeOK /\ Fit(remote) /\ remote \in RemoteState /\ ClientTypes
  BY TypeParts DEF WatchInv
<1>2. Head(wire) \in Message /\ remote.open /\ Head(wire).type = "error"
  BY Taken DEF ProcessTargetError
<1>3. faults["deny"] # 0
  BY <1>2, Taken DEF Errors
<1>4. CASE Listened(remote, Head(wire).target)
  <2>1. HandleRejectedListen(Head(wire).target) /\ Head(wire).target \in Target
    BY <1>2, <1>4, MessageParts DEF ProcessTargetError
  <2>2. PICK r \in RemoteState :
          /\ remote' \in Lookups(r) /\ ClientTypes' /\ r.open = remote.open
          /\ Fits(Changes(r, QueryTarget), disk'.keys)
    BY <1>1, <1>4, <2>1, Rejected
  <2> QED
    BY <1>2, <1>3, <2>2, Handling
<1>5. CASE ~Listened(remote, Head(wire).target)
  <2>1. remote' = remote /\ SameClient /\ disk' = disk
    BY <1>5 DEF ProcessTargetError, SameClient
  <2>2. remote' \in Lookups(remote) /\ Fits(Changes(remote, QueryTarget), disk'.keys)
    BY <1>1, <2>1, LookupsOf DEF Fit
  <2> QED
    BY <1>1, <1>2, <1>3, <2>1, <2>2, Unchanged, Handling
<1> QED
  BY <1>4, <1>5

LEMMA DoOnWatchStreamChange ==
  ASSUME WatchInv, OnWatchStreamChange
  PROVE  WatchInv'
<1>1. wire # <<>> /\ wire' = Tail(wire) /\ faults' = faults /\ SameServer
  BY DEF OnWatchStreamChange, SameServer
<1> QED
  BY <1>1, DoHandleChange, DoIgnoreSnapshot, DoRaiseWatchSnapshot,
     DoProcessTargetError DEF OnWatchStreamChange

-----------------------------------------------------------------------------
(***************************************************************************)
(* The steps of the server.                                                *)
(***************************************************************************)
LEMMA DoServerWrite ==
  ASSUME WatchInv, NEW k \in Key, NEW kind \in Kind, ServerWrite(k, kind)
  PROVE  WatchInv'
<1>1. TypeOK /\ Fit(remote) /\ remote \in RemoteState /\ wire \in Seq(Message)
      /\ faults \in [Fault -> Nat] /\ ServerTypes
  BY TypeParts DEF WatchInv
<1> DEFINE doc == [version |-> Latest + 1, kind |-> kind]
           docs == [backend[Latest] EXCEPT ![k] = doc]
<1>2. /\ Latest < MaxVersion
      /\ backend' = Append(backend, docs)
      /\ watched' = watched /\ wire' = wire /\ remote' = remote /\ SameClient
      /\ disk' = disk /\ faults' = faults
  BY DEF ServerWrite, SameClient
<1>3. docs \in [Key -> ServerDocument] /\ Latest \in 1 .. MaxVersion
  <2>1. Latest \in 1 .. MaxVersion /\ backend[Latest] \in [Key -> ServerDocument]
    BY <1>1, ServerDocuments
  <2>2. doc \in ServerDocument
    BY <1>2, <2>1, Versions DEF ServerDocument
  <2> QED
    BY <2>1, <2>2
<1> HIDE DEF docs
<1>4. /\ backend' \in Seq([Key -> ServerDocument])
      /\ Len(backend') = Len(backend) + 1
  BY <1>1, <1>2, <1>3, Appended DEF ServerTypes
<1>5. ServerTypes'
  BY <1>1, <1>2, <1>3, <1>4, Versions DEF ServerTypes, Latest, WatchedTypes
<1>6. remote' \in Lookups(remote) /\ Fits(Changes(remote, QueryTarget), disk'.keys)
  BY <1>1, <1>2, LookupsOf DEF Fit
<1> QED
  BY <1>1, <1>2, <1>5, <1>6, Unchanged, Awaiting, Together

(***************************************************************************)
(* The server takes requests and answers on the wire.                      *)
(***************************************************************************)
LEMMA Served ==
  ASSUME WatchInv, remote.open, wire' \in Seq(Message),
         WatchedTypes(watched'), backend' = backend, SameClient, disk' = disk,
         faults' \in [Fault -> Nat], NEW requests \in Seq(Request),
         remote' = [remote EXCEPT !.requests = requests],
         faults'["deny"] = 0 =>
           /\ faults["deny"] = 0 /\ Count(wire', Errors) = Count(wire, Errors)
           /\ \A t \in Target :
                Count(remote.requests, RequestTo(t)) + Count(wire, AnswerOf(t)) =
                  Count(requests, RequestTo(t)) + Count(wire', AnswerOf(t))
  PROVE  WatchInv'
<1>1. TypeOK /\ Fit(remote) /\ remote \in RemoteState /\ wire \in Seq(Message)
      /\ ServerTypes
  BY TypeParts DEF WatchInv
<1>2. /\ remote' \in RemoteState /\ remote'.requests = requests
      /\ remote'.aggregator = remote.aggregator /\ remote'.open
      /\ remote'.keyOf = remote.keyOf /\ remote'.received = remote.received
      /\ remote'.nextId = remote.nextId
  BY <1>1 DEF RemoteState
<1>3. LimboFits(remote') /\ Fits(Changes(remote', QueryTarget), disk'.keys)
  BY <1>1, <1>2 DEF Fit, LimboFits, LimboKeys, Changes
<1>4. ServerTypes'
  BY <1>1 DEF ServerTypes, Latest, WatchedTypes
<1>5. ASSUME faults'["deny"] = 0
      PROVE  /\ \A t \in Target : Balance(remote', t) = Count(wire', AnswerOf(t))
             /\ Count(wire', Errors) = 0
  <2>1. /\ \A t \in Target : Balance(remote, t) = Count(wire, AnswerOf(t))
        /\ Count(wire, Errors) = 0
    BY <1>5, Awaiting
  <2>2. ASSUME NEW t \in Target
        PROVE  Balance(remote', t) = Count(wire', AnswerOf(t))
    <3>1. /\ Count(requests, RequestTo(t)) \in Nat /\ Pending(remote, t) \in Int
          /\ Count(remote.requests, RequestTo(t)) \in Nat
          /\ Count(wire, AnswerOf(t)) \in Nat /\ Count(wire', AnswerOf(t)) \in Nat
      BY <1>1, PlacesFinite, PendingType
    <3>2. Balance(remote', t) = Pending(remote, t) - Count(requests, RequestTo(t))
      BY <1>2 DEF Balance, Pending
    <3>3. Pending(remote, t) - Count(remote.requests, RequestTo(t)) =
            Count(wire, AnswerOf(t))
      BY <2>1 DEF Balance
    <3>4. Count(remote.requests, RequestTo(t)) + Count(wire, AnswerOf(t)) =
            Count(requests, RequestTo(t)) + Count(wire', AnswerOf(t))
      BY <1>5
    <3> QED
      BY <3>1, <3>2, <3>3, <3>4
  <2>3. Count(wire', Errors) = 0
    BY <1>5, <2>1
  <2> QED
    BY <2>2, <2>3
<1>6. remote' \in Lookups(remote')
  BY <1>2, <1>3, LookupsOf
<1> QED
  BY <1>1, <1>2, <1>3, <1>4, <1>5, <1>6, Unchanged, Together

LEMMA StreamIsOpen ==
  ASSUME WatchInv
  PROVE  /\ remote.requests # <<>> => remote.open
         /\ DOMAIN watched # {} => remote.open
BY Awaiting

(***************************************************************************)
(* What the wire gains.                                                    *)
(***************************************************************************)
Gains(p, w, T) ==
  /\ w \in Seq(Message) /\ Count(w, Errors) = Count(p, Errors)
  /\ \A s \in Target :
       /\ s \in T => Count(w, AnswerOf(s)) = Count(p, AnswerOf(s)) + 1
       /\ s \notin T => Count(w, AnswerOf(s)) = Count(p, AnswerOf(s))

LEMMA GainsNothing ==
  ASSUME NEW p \in Seq(Message)
  PROVE  Gains(p, p, {})
BY DEF Gains

LEMMA GainsQuiet ==
  ASSUME NEW p \in Seq(Message), NEW w, NEW T, Gains(p, w, T),
         NEW q \in Seq(Message), Quiet(q)
  PROVE  Gains(p, w \o q, T)
<1>1. w \in Seq(Message)
  BY DEF Gains
<1>2. \A S : Count(w \o q, S) = Count(w, S) + Count(q, S)
             /\ Count(w, S) \in Nat
  BY <1>1, CountJoined, PlacesFinite
<1>3. /\ Count(w \o q, Errors) = Count(w, Errors)
      /\ \A s \in Target : Count(w \o q, AnswerOf(s)) = Count(w, AnswerOf(s))
  <2>1. ASSUME NEW S, Count(q, S) = 0
        PROVE  Count(w \o q, S) = Count(w, S)
    BY <1>2, <2>1
  <2> QED
    BY <2>1 DEF Quiet
<1>4. w \o q \in Seq(Message)
  BY <1>1, Joined
<1> QED
  BY <1>3, <1>4 DEF Gains

LEMMA GainsAnswer ==
  ASSUME ServerTypes, NEW p \in Seq(Message), NEW w, Gains(p, w, {}),
         NEW t \in Target, NEW type, type = "added" \/ type = "removed"
  PROVE  Gains(p, w \o TargetMessage(type, t), {t})
<1> DEFINE q == TargetMessage(type, t)
<1>1. w \in Seq(Message)
  BY DEF Gains
<1>2. /\ q \in Seq(Message) /\ Count(q, Errors) = 0
      /\ \A s : s = t => Count(q, AnswerOf(s)) = 1
      /\ \A s : s # t => Count(q, AnswerOf(s)) = 0
  <2>1. type \in {"added", "removed"}
        /\ type \in {"added", "removed", "current", "reset"}
        /\ type \in {"added", "removed", "current", "reset", "error"}
    OBVIOUS
  <2>2. /\ q \in Seq(Message) /\ Count(q, Errors) = 0
        /\ \A s : Count(q, AnswerOf(s)) =
                    IF s = t /\ type \in {"added", "removed"} THEN 1 ELSE 0
    BY <2>1, SingleMessages
  <2> HIDE DEF q
  <2> QED
    BY <2>1, <2>2
<1> HIDE DEF q
<1>3. \A S : Count(w \o q, S) = Count(w, S) + Count(q, S)
             /\ Count(w, S) \in Nat
  BY <1>1, <1>2, CountJoined, PlacesFinite
<1>4. Count(w \o q, Errors) = Count(w, Errors)
  BY <1>2, <1>3
<1>5. ASSUME NEW s \in Target
      PROVE  /\ s = t => Count(w \o q, AnswerOf(s)) = Count(w, AnswerOf(s)) + 1
             /\ s # t => Count(w \o q, AnswerOf(s)) = Count(w, AnswerOf(s))
  BY <1>2, <1>3
<1>6. w \o q \in Seq(Message)
  BY <1>1, <1>2, Joined
<1>7. Gains(p, w \o q, {t})
  BY <1>4, <1>5, <1>6 DEF Gains
<1> QED
  BY <1>7 DEF q

LEMMA QuietMessages ==
  ASSUME ServerTypes, NEW t \in Target
  PROVE  /\ TargetMessage("current", t) \in Seq(Message)
         /\ Quiet(TargetMessage("current", t))
         /\ TargetMessage("reset", t) \in Seq(Message)
         /\ Quiet(TargetMessage("reset", t))
         /\ Snapshot \in Seq(Message) /\ Quiet(Snapshot)
         /\ \A q \in Request : q.target = t =>
              CountFilter(q) \in Seq(Message) /\ Quiet(CountFilter(q))
BY SingleMessages DEF Quiet

LEMMA DoPush ==
  ASSUME WatchInv, Push
  PROVE  WatchInv'
<1>1. TypeOK /\ remote \in RemoteState /\ wire \in Seq(Message)
      /\ faults \in [Fault -> Nat] /\ ServerTypes
  BY TypeParts DEF WatchInv
<1>2. PICK silent \in BOOLEAN :
        /\ IF silent THEN Happens("remove") ELSE UNCHANGED faults
        /\ wire' = wire \o DocumentMessages(watched, silent) \o Snapshot
  BY DEF Push
<1>3. /\ DOMAIN watched # {} /\ watched' = UpToDate(watched)
      /\ backend' = backend /\ remote' = remote /\ SameClient /\ disk' = disk
  BY DEF Push, SameClient
<1>4. remote.open
  BY <1>3, StreamIsOpen
<1>5. /\ DocumentMessages(watched, silent) \in Seq(Message)
      /\ Quiet(DocumentMessages(watched, silent))
      /\ Snapshot \in Seq(Message) /\ Quiet(Snapshot)
  BY <1>1, DocumentsAt, QuietMessages, Targets DEF ServerTypes
<1>6. Gains(wire, wire', {})
  BY <1>1, <1>2, <1>5, GainsNothing, GainsQuiet
<1>7. WatchedTypes(watched')
  <2>1. WatchedTypes(watched) /\ Latest \in 0 .. MaxVersion
    BY <1>1, ServerDocuments DEF ServerTypes
  <2> QED
    BY <1>3, <2>1 DEF WatchedTypes, UpToDate
<1>8. /\ faults' \in [Fault -> Nat]
      /\ faults'["deny"] = 0 => faults["deny"] = 0
  BY <1>1, <1>2, Faults DEF Fault
<1>9. /\ remote' = [remote EXCEPT !.requests = remote.requests]
      /\ remote.requests \in Seq(Request)
  BY <1>1, <1>3 DEF RemoteState
<1>10. wire' \in Seq(Message) /\ Count(wire', Errors) = Count(wire, Errors)
       /\ \A t \in Target : Count(wire', AnswerOf(t)) = Count(wire, AnswerOf(t))
  BY <1>6 DEF Gains
<1> QED
  BY <1>3, <1>4, <1>7, <1>8, <1>9, <1>10, Served

LEMMA Added ==
  ASSUME ServerTypes, wire \in Seq(Message), NEW m \in Request, m.type = "watch",
         AddTarget(m)
  PROVE  Gains(wire, wire', {m.target})
<1>1. m.target \in Target /\ m.key \in Key \cup {None} /\ m.token \in 0 .. MaxVersion
  BY DEF Request
<1> DEFINE docs == DocumentMessages(watched, FALSE)
           initial(n) == InitialDocuments(m, n)
           updates == UpdateMessages(Only(m.target, m.key, m.token))
           current == TargetMessage("current", m.target)
           reset == TargetMessage("reset", m.target)
           counted == CountFilter(m)
           w == wire \o docs \o TargetMessage("added", m.target)
<1>2. /\ docs \in Seq(Message) /\ Quiet(docs)
      /\ \A n \in 0 .. MaxVersion : initial(n) \in Seq(Message) /\ Quiet(initial(n))
      /\ updates \in Seq(Message) /\ Quiet(updates)
  BY <1>1, DocumentsAt, OnlyAt DEF ServerTypes, InitialDocuments
<1>3. /\ current \in Seq(Message) /\ Quiet(current)
      /\ reset \in Seq(Message) /\ Quiet(reset)
      /\ Snapshot \in Seq(Message) /\ Quiet(Snapshot)
      /\ counted \in Seq(Message) /\ Quiet(counted)
  BY <1>1, QuietMessages
<1>4. Gains(wire, w, {m.target})
  <2>1. Gains(wire, wire \o docs, {})
    BY <1>2, GainsNothing, GainsQuiet
  <2> QED
    BY <1>1, <2>1, GainsAnswer
<1>5. \/ wire' = w \o initial(m.token) \o current \o Snapshot
      \/ wire' = w \o updates \o counted \o current \o Snapshot
      \/ wire' = w \o reset \o initial(0) \o current \o Snapshot
  BY DEF AddTarget
<1> HIDE DEF w, initial, updates, current, reset, docs, counted
<1>6. CASE wire' = w \o initial(m.token) \o current \o Snapshot
  BY <1>1, <1>2, <1>3, <1>4, <1>6, GainsQuiet
<1>7. CASE wire' = w \o updates \o counted \o current \o Snapshot
  BY <1>2, <1>3, <1>4, <1>7, GainsQuiet
<1>8. CASE wire' = w \o reset \o initial(0) \o current \o Snapshot
  BY <1>2, <1>3, <1>4, <1>8, GainsQuiet, Versions
<1> QED
  BY <1>5, <1>6, <1>7, <1>8

LEMMA DoServe ==
  ASSUME WatchInv, Serve
  PROVE  WatchInv'
<1>1. TypeOK /\ remote \in RemoteState /\ wire \in Seq(Message)
      /\ faults \in [Fault -> Nat] /\ ServerTypes
  BY TypeParts DEF WatchInv
<1> DEFINE m == Head(remote.requests)
           requests == Tail(remote.requests)
<1>2. /\ remote.requests # <<>> /\ remote' = [remote EXCEPT !.requests = requests]
      /\ backend' = backend /\ SameClient /\ disk' = disk
      /\ \/ /\ m.type = "watch" /\ AddTarget(m) /\ watched' = Watching(watched, m)
         \/ m.type = "watch" /\ RefuseTarget(m)
         \/ /\ m.type = "unwatch"
            /\ wire' = wire \o TargetMessage("removed", m.target)
            /\ watched' = Restrict(watched, DOMAIN watched \ {m.target})
            /\ UNCHANGED faults
  BY DEF Serve, SameClient
<1>3. /\ remote.requests \in Seq(Request) /\ requests \in Seq(Request)
      /\ m \in Request /\ m.target \in Target /\ remote.open
  <2>1. remote.requests \in Seq(Request)
    BY <1>1, RemoteFields
  <2>2. m \in Request /\ requests \in Seq(Request)
    BY <1>2, <2>1, Removing
  <2> QED
    BY <1>2, <2>1, <2>2, StreamIsOpen DEF Request
<1>4. ASSUME NEW t \in Target
      PROVE  /\ t = m.target => Count(remote.requests, RequestTo(t)) =
                                  Count(requests, RequestTo(t)) + 1
             /\ t # m.target => Count(remote.requests, RequestTo(t)) =
                                  Count(requests, RequestTo(t))
             /\ Count(requests, RequestTo(t)) \in Nat
             /\ Count(wire, AnswerOf(t)) \in Nat
  BY <1>1, <1>2, <1>3, CountTail, PlacesFinite DEF RequestTo
<1> HIDE DEF m, requests
<1>5. ASSUME Gains(wire, wire', {m.target}), WatchedTypes(watched'),
             faults' \in [Fault -> Nat], faults'["deny"] = 0 => faults["deny"] = 0
      PROVE  WatchInv'
  <2>1. wire' \in Seq(Message) /\ Count(wire', Errors) = Count(wire, Errors)
    BY <1>5 DEF Gains
  <2>2. ASSUME NEW t \in Target
        PROVE  Count(remote.requests, RequestTo(t)) + Count(wire, AnswerOf(t)) =
                 Count(requests, RequestTo(t)) + Count(wire', AnswerOf(t))
    <3>1. /\ t = m.target => Count(wire', AnswerOf(t)) = Count(wire, AnswerOf(t)) + 1
          /\ t # m.target => Count(wire', AnswerOf(t)) = Count(wire, AnswerOf(t))
      BY <1>5 DEF Gains
    <3> QED
      BY <1>4, <3>1
  <2> QED
    BY <1>2, <1>3, <1>5, <2>1, <2>2, Served
<1>6. CASE m.type = "watch" /\ AddTarget(m) /\ watched' = Watching(watched, m)
  <2>1. Gains(wire, wire', {m.target})
    BY <1>1, <1>3, <1>6, Added
  <2>2. WatchedTypes(watched')
    <3>1. WatchedTypes(watched) /\ Latest \in 0 .. MaxVersion
      BY <1>1, ServerDocuments DEF ServerTypes
    <3>2. m.key \in Key \cup {None}
      BY <1>3, <1>6 DEF Request
    <3> QED
      BY <1>3, <1>6, <3>1, <3>2 DEF WatchedTypes, Watching
  <2>3. /\ faults' \in [Fault -> Nat]
        /\ faults'["deny"] = 0 => faults["deny"] = 0
    <3>1. UNCHANGED faults \/ Happens("filter") \/ Happens("reset")
      BY <1>6 DEF AddTarget
    <3> QED
      BY <1>1, <3>1, Faults DEF Fault
  <2> QED
    BY <1>5, <2>1, <2>2, <2>3
<1>7. CASE m.type = "watch" /\ RefuseTarget(m)
  <2>1. /\ Happens("deny") /\ wire' = wire \o TargetMessage("error", m.target)
        /\ watched' = watched
    BY <1>7 DEF RefuseTarget
  <2>2. faults' \in [Fault -> Nat] /\ faults'["deny"] # 0
    BY <1>1, <2>1, Faults DEF Fault
  <2>3. wire' \in Seq(Message)
    <3>1. TargetMessage("error", m.target) \in Seq(Message)
      BY <1>1, <1>3, SingleMessages
    <3> QED
      BY <1>1, <2>1, <3>1, Joined
  <2>4. WatchedTypes(watched')
    BY <1>1, <2>1 DEF ServerTypes
  <2> QED
    BY <1>2, <1>3, <2>2, <2>3, <2>4, Served
<1>8. CASE /\ m.type = "unwatch"
           /\ wire' = wire \o TargetMessage("removed", m.target)
           /\ watched' = Restrict(watched, DOMAIN watched \ {m.target})
           /\ UNCHANGED faults
  <2>1. Gains(wire, wire', {m.target})
    BY <1>1, <1>3, <1>8, GainsNothing, GainsAnswer
  <2>2. WatchedTypes(watched')
    BY <1>1, <1>8 DEF WatchedTypes, ServerTypes, Restrict
  <2> QED
    BY <1>1, <1>5, <1>8, <2>1, <2>2
<1> QED
  BY <1>2, <1>6, <1>7, <1>8

-----------------------------------------------------------------------------
LEMMA WatchInit ==
  ASSUME Init
  PROVE  WatchInv
<1>1. /\ backend = <<[k \in Key |-> [version |-> 1, kind |-> "in"]]>>
      /\ watched = <<>> /\ wire = <<>> /\ remote = NewRemote /\ view = NewView
      /\ target = NewTargetData /\ at = 0 /\ faults = [f \in Fault |-> 0]
      /\ disk = [cache |-> [k \in Key |-> Cached(Missing, 0)], keys |-> {},
                 seen |-> 0, token |-> 0, limboFree |-> 0]
  BY DEF Init
<1>2. ServerTypes
  <2> DEFINE docs == [k \in Key |-> [version |-> 1, kind |-> "in"]]
  <2>1. docs \in [Key -> ServerDocument]
    BY Versions DEF ServerDocument, Kind
  <2> HIDE DEF docs
  <2>2. backend \in Seq([Key -> ServerDocument]) /\ Len(backend) = 1
    BY <1>1, <2>1, CountOne DEF docs
  <2> QED
    BY <1>1, <2>2, Versions DEF ServerTypes, Latest, WatchedTypes
<1>3. ClientTypes
  <2>1. [k \in Key |-> Cached(Missing, 0)]
          \in [Key -> [version : 0 .. MaxVersion, kind : Kind, read : 0 .. MaxVersion]]
    BY Versions DEF Cached, Missing, Kind
  <2> QED
    BY <1>1, <2>1, Versions DEF ClientTypes, NewView, NewTargetData
<1>4. /\ remote \in RemoteState /\ remote.aggregator = NewAggregator
      /\ remote.requests = <<>>
      /\ remote.received = {} /\ \A t \in LimboTarget : remote.keyOf[t] = None
  BY <1>1, NewStates DEF NewRemote
<1>5. \A t \in Target : Changes(remote, t) = NoChanges /\ Pending(remote, t) = 0
  BY <1>4, NewStates DEF Changes, Pending
<1>6. Fit(remote)
  BY <1>4, <1>5, NothingFits, Targets DEF Fit, LimboFits, Changes
<1>7. TypeOK
  <2>1. wire \in Seq(Message) /\ faults \in [Fault -> Nat]
    BY <1>1
  <2> QED
    BY <1>2, <1>3, <1>4, <1>5, <2>1
    DEF TypeOK, ServerTypes, ClientTypes, WatchedTypes, Pending
<1>8. AnswersAreAwaited /\ ErrorsAreDenials
  BY <1>1, <1>4, <1>5, NoPlaces DEF AnswersAreAwaited, ErrorsAreDenials
<1> QED
  BY <1>6, <1>7, <1>8 DEF WatchInv

LEMMA WatchStutters ==
  ASSUME WatchInv, UNCHANGED vars
  PROVE  WatchInv'
<1>1. TypeOK' /\ AnswersAreAwaited' /\ ErrorsAreDenials'
  BY DEF WatchInv, vars, TypeOK, AnswersAreAwaited, ErrorsAreDenials, Latest, Pending
<1>2. Fit(remote)'
  BY DEF WatchInv, vars, Fit, LimboFits, LimboKeys, Changes
<1> QED
  BY <1>1, <1>2 DEF WatchInv

THEOREM WatchInvariant == Spec => []WatchInv
<1>1. WatchInv /\ [Next]_vars => WatchInv'
  <2> SUFFICES ASSUME WatchInv, [Next]_vars
               PROVE  WatchInv'
    OBVIOUS
  <2>1. CASE Next
    BY <2>1, DoListen, DoStopListening, DoOnWatchStreamOpen, DoOnWatchStreamClose,
       DoHandleOnlineStateChange, DoKill, DoOnWatchStreamChange, DoServerWrite,
       DoPush, DoServe DEF Next
  <2>2. CASE UNCHANGED vars
    BY <2>2, WatchStutters
  <2> QED
    BY <2>1, <2>2
<1> QED
  BY <1>1, WatchInit, PTL DEF Spec

(***************************************************************************)
(* Types: what the client has collected, the requests and the messages     *)
(* keep their shapes, and outstanding_responses_ of WatchChangeAggregator  *)
(* is never negative unless the server has denied a listen.                *)
(***************************************************************************)
THEOREM WatchTypesAreKept == Spec => []TypeOK
<1>1. WatchInv => TypeOK
  BY DEF WatchInv
<1> QED
  BY <1>1, WatchInvariant, PTL

(***************************************************************************)
(* outstanding_responses_ of a target is what is under way for it:         *)
(* requests the server has not taken, and answers that have not been       *)
(* handled.  So a target whose count is zero hears only of its present     *)
(* listen.  A stream that is closed has left nothing behind.               *)
(***************************************************************************)
THEOREM AnswersAreCounted == Spec => []AnswersAreAwaited
<1>1. WatchInv => AnswersAreAwaited
  BY DEF WatchInv
<1> QED
  BY <1>1, WatchInvariant, PTL

(***************************************************************************)
(* The assertions of View::ApplyTargetChange and of SyncEngine::           *)
(* ApplyRemoteEvent cannot fail: what WatchChangeAggregator has collected  *)
(* for an active target fits the documents the target is known to have.    *)
(***************************************************************************)
THEOREM ChangesAlwaysFit == Spec => []ChangesFit
<1>1. WatchInv => ChangesFit
  <2> SUFFICES ASSUME WatchInv, NEW t \in Target, IsActiveTarget(remote, t)
               PROVE  Fits(Changes(remote, t), RemoteKeys(remote, t))
    BY DEF ChangesFit, Changes
  <2>1. Fit(remote) /\ Listened(remote, t)
    BY DEF WatchInv, IsActiveTarget
  <2> QED
    BY <2>1, Targets, KeysOf DEF Fit, LimboFits, Changes
<1> QED
  BY <1>1, WatchInvariant, PTL

-----------------------------------------------------------------------------
(***************************************************************************)
(* The documents of the server at each version: h stands for backend.  A   *)
(* document that is not what it was at v has been written after v.         *)
(***************************************************************************)
At(h, k, v) == IF v = 0 THEN Missing ELSE h[v][k]

History(h) ==
  \A k \in Key : \A w \in 1 .. Len(h) :
    /\ h[w][k].version \in 1 .. w
    /\ \A v \in 0 .. w : \/ At(h, k, w) = At(h, k, v)
                         \/ v < At(h, k, w).version

Past(h) ==
  /\ h \in Seq([Key -> ServerDocument]) /\ Len(h) \in 1 .. MaxVersion
  /\ History(h)

LEMMA PastLength ==
  ASSUME NEW h, Past(h)
  PROVE  /\ Len(h) \in Nat /\ Len(h) >= 1 /\ DOMAIN h = 1 .. Len(h)
         /\ \A v \in 1 .. Len(h) : v \in 0 .. Len(h) /\ h[v] \in [Key -> ServerDocument]
         /\ \A v \in 0 .. Len(h) : v \in Nat /\ v \in 0 .. MaxVersion
         /\ 0 \in 0 .. Len(h)
<1>1. Len(h) \in 1 .. MaxVersion /\ h \in Seq([Key -> ServerDocument])
  BY DEF Past
<1> QED
  BY <1>1, Versions

LEMMA PastDocument ==
  ASSUME NEW h, Past(h), NEW k \in Key, NEW v \in 0 .. Len(h)
  PROVE  /\ At(h, k, v) \in ServerDocument
         /\ At(h, k, v).version \in 0 .. v /\ At(h, k, v).version \in Nat
         /\ At(h, k, v).kind \in Kind
         /\ At(h, k, v).version = 0 <=> v = 0
<1>1. CASE v = 0
  <2>1. At(h, k, v) = Missing
    BY <1>1 DEF At
  <2> QED
    BY <1>1, <2>1, Versions DEF Missing, ServerDocument, Kind
<1>2. CASE v # 0
  <2>1. v \in 1 .. Len(h)
    BY <1>2, PastLength
  <2>2. At(h, k, v) = h[v][k] /\ h[v] \in [Key -> ServerDocument]
    BY <1>2, <2>1, PastLength DEF At
  <2>3. h[v][k].version \in 1 .. v
    BY <2>1 DEF Past, History
  <2> QED
    BY <2>1, <2>2, <2>3 DEF ServerDocument
<1> QED
  BY <1>1, <1>2

LEMMA SameOrNewer ==
  ASSUME NEW h, Past(h), NEW k \in Key, NEW w \in 0 .. Len(h), NEW v \in 0 .. w
  PROVE  /\ At(h, k, w) = At(h, k, v) \/ v < At(h, k, w).version
         /\ At(h, k, v).version <= At(h, k, w).version
<1>1. v \in 0 .. Len(h) /\ v <= w /\ v \in Nat /\ w \in Nat
  BY PastLength
<1>2. At(h, k, v).version \in 0 .. v /\ At(h, k, w).version \in Nat
  BY <1>1, PastDocument
<1>3. At(h, k, w) = At(h, k, v) \/ v < At(h, k, w).version
  <2>1. CASE w = 0
    BY <1>1, <2>1
  <2>2. CASE w # 0
    <3>1. w \in 1 .. Len(h)
      BY <1>1, <2>2, PastLength
    <3> QED
      BY <3>1 DEF Past, History
  <2> QED
    BY <2>1, <2>2
<1> QED
  BY <1>1, <1>2, <1>3

LEMMA SameVersion ==
  ASSUME NEW h, Past(h), NEW k \in Key, NEW v \in 0 .. Len(h), NEW w \in 0 .. Len(h),
         At(h, k, v).version = At(h, k, w).version
  PROVE  At(h, k, v) = At(h, k, w)
<1>1. /\ v \in Nat /\ w \in Nat
      /\ At(h, k, v).version \in 0 .. v /\ At(h, k, w).version \in 0 .. w
  BY PastLength, PastDocument
<1>2. CASE v <= w
  <2>1. v \in 0 .. w
    BY <1>1, <1>2
  <2> QED
    BY <1>1, <2>1, SameOrNewer
<1>3. CASE w <= v
  <2>1. w \in 0 .. v
    BY <1>1, <1>3
  <2> QED
    BY <1>1, <2>1, SameOrNewer
<1> QED
  BY <1>1, <1>2, <1>3

(***************************************************************************)
(* A document as the server had it at the version it carries.              *)
(***************************************************************************)
FromServer(h, k, doc) ==
  doc.version \in 1 .. Len(h) /\ doc = h[doc.version][k]

LEMMA Carries ==
  ASSUME NEW h, Past(h), NEW k \in Key, NEW w \in 1 .. Len(h)
  PROVE  FromServer(h, k, h[w][k]) /\ h[w][k].version <= w
<1> DEFINE n == h[w][k].version
<1>1. w \in 0 .. Len(h) /\ w \in Nat /\ n \in 1 .. w
  BY PastLength DEF Past, History
<1>2. n \in 0 .. w /\ n \in 1 .. Len(h) /\ n # 0 /\ w # 0 /\ ~(n < n)
  BY <1>1, PastLength
<1>3. At(h, k, w) = h[w][k] /\ At(h, k, n) = h[n][k]
  BY <1>2 DEF At
<1> HIDE DEF n
<1>4. At(h, k, w) = At(h, k, n)
  <2>1. At(h, k, w) = At(h, k, n) \/ n < At(h, k, w).version
    BY <1>1, <1>2, SameOrNewer
  <2>2. At(h, k, w).version = n
    BY <1>3 DEF n
  <2> QED
    BY <1>2, <2>1, <2>2
<1> QED
  BY <1>1, <1>2, <1>3, <1>4 DEF FromServer, n

(***************************************************************************)
(* One more version.                                                       *)
(***************************************************************************)
Extends(h, n) ==
  /\ Past(n) /\ Len(n) = Len(h) + 1
  /\ \A k \in Key : \A v \in 0 .. Len(h) : At(n, k, v) = At(h, k, v)
  /\ \A k \in Key : \/ At(n, k, Len(n)) = At(h, k, Len(h))
                    \/ At(n, k, Len(n)).version = Len(n)

LEMMA Written ==
  ASSUME NEW h, Past(h), Len(h) < MaxVersion, NEW key \in Key, NEW kind \in Kind,
         NEW docs, NEW n, n = Append(h, docs),
         docs = [h[Len(h)] EXCEPT ![key] = [version |-> Len(h) + 1, kind |-> kind]]
  PROVE  Extends(h, n)
<1> DEFINE m == Len(h)
<1>1. m \in Nat /\ m >= 1 /\ m \in 1 .. m /\ m + 1 \in 1 .. MaxVersion
      /\ h \in Seq([Key -> ServerDocument]) /\ h[m] \in [Key -> ServerDocument]
  BY PastLength, Versions DEF Past
<1>2. /\ docs \in [Key -> ServerDocument]
      /\ docs[key] = [version |-> m + 1, kind |-> kind]
      /\ \A k \in Key : k # key => docs[k] = h[m][k]
  <2>1. [version |-> m + 1, kind |-> kind] \in ServerDocument
    BY <1>1 DEF ServerDocument
  <2> QED
    BY <1>1, <2>1
<1>3. /\ n \in Seq([Key -> ServerDocument]) /\ Len(n) = m + 1
      /\ n[m + 1] = docs /\ \A v \in 1 .. m : n[v] = h[v]
  BY <1>1, <1>2, Appended
<1> HIDE DEF m
<1>4. ASSUME NEW k \in Key, NEW v \in 0 .. m
      PROVE  At(n, k, v) = At(h, k, v)
  <2>1. v = 0 \/ v \in 1 .. m
    BY <1>1
  <2> QED
    BY <1>3, <2>1 DEF At
<1>5. ASSUME NEW k \in Key
      PROVE  /\ At(n, k, m + 1) = docs[k] /\ n[m + 1][k] = docs[k]
             /\ k = key => docs[k].version = m + 1
             /\ k # key => docs[k] = At(h, k, m)
  BY <1>1, <1>2, <1>3 DEF At
<1>6. History(n)
  <2> SUFFICES ASSUME NEW k \in Key, NEW w \in 1 .. m + 1
               PROVE  /\ n[w][k].version \in 1 .. w
                      /\ \A v \in 0 .. w : \/ At(n, k, w) = At(n, k, v)
                                           \/ v < At(n, k, w).version
    BY <1>3 DEF History
  <2>1. CASE w \in 1 .. m
    <3>1. w \in 0 .. m /\ n[w] = h[w] /\ \A v \in 0 .. w : v \in 0 .. m
      BY <1>1, <1>3, <2>1
    <3>2. h[w][k].version \in 1 .. w
      BY <2>1 DEF Past, History, m
    <3>3. ASSUME NEW v \in 0 .. w
          PROVE  \/ At(h, k, w) = At(h, k, v)
                 \/ v < At(h, k, w).version
      BY <3>1, SameOrNewer DEF m
    <3> QED
      BY <1>4, <3>1, <3>2, <3>3
  <2>2. CASE w = m + 1
    <3>1. /\ At(h, k, m).version \in 1 .. m
          /\ \A v \in 0 .. m : \/ At(h, k, m) = At(h, k, v)
                               \/ v < At(h, k, m).version
      BY <1>1 DEF Past, History, At, m
    <3>2. /\ n[w][k] = At(n, k, w)
          /\ k = key => At(n, k, w).version = m + 1
          /\ k # key => At(n, k, w) = At(h, k, m)
      BY <1>5, <2>2
    <3>3. n[w][k].version \in 1 .. w
      <4>1. At(n, k, w).version = m + 1 \/ At(n, k, w).version \in 1 .. m
        BY <3>1, <3>2
      <4>2. m + 1 \in 1 .. w /\ \A i \in 1 .. m : i \in 1 .. w
        BY <1>1, <2>2
      <4>3. At(n, k, w).version \in 1 .. w
        BY <4>1, <4>2
      <4> QED
        BY <3>2, <4>3
    <3>4. ASSUME NEW v \in 0 .. w
          PROVE  \/ At(n, k, w) = At(n, k, v)
                 \/ v < At(n, k, w).version
      <4>1. CASE v = w
        BY <4>1
      <4>2. CASE v # w
        <5>1. v \in 0 .. m /\ v < m + 1
          BY <1>1, <2>2, <4>2
        <5> QED
          BY <1>4, <3>1, <3>2, <5>1
      <4> QED
        BY <4>1, <4>2
    <3> QED
      BY <3>3, <3>4
  <2>3. w \in 1 .. m \/ w = m + 1
    BY <1>1
  <2> QED
    BY <2>1, <2>2, <2>3
<1>7. Past(n)
  BY <1>1, <1>3, <1>6 DEF Past
<1>8. ASSUME NEW k \in Key
      PROVE  \/ At(n, k, Len(n)) = At(h, k, m)
             \/ At(n, k, Len(n)).version = Len(n)
  BY <1>3, <1>5
<1>9. /\ Len(n) = m + 1
      /\ \A k \in Key : \A v \in 0 .. m : At(n, k, v) = At(h, k, v)
  BY <1>3, <1>4
<1> QED
  BY <1>7, <1>8, <1>9 DEF Extends, m

-----------------------------------------------------------------------------
(***************************************************************************)
(* What is true of the caches.  A cached document is as the server had it  *)
(* at some version u that has been seen; one that does not exist may have  *)
(* been found missing later than it was deleted.                           *)
(***************************************************************************)
Entry == [version : 0 .. MaxVersion, kind : Kind, read : 0 .. MaxVersion]

Disk ==
  [cache : [Key -> Entry], keys : SUBSET Key, seen : 0 .. MaxVersion,
   token : 0 .. MaxVersion, limboFree : 0 .. MaxVersion]

Reflects(h, c, k, u) ==
  /\ c.kind = At(h, k, u).kind
  /\ At(h, k, u).version <= c.version /\ c.version <= u
  /\ c.kind # None => c.version = At(h, k, u).version

CacheTrue(h, d) ==
  \A k \in Key : /\ \E u \in 0 .. d.seen : Reflects(h, d.cache[k], k, u)
                 /\ d.cache[k].version <= d.cache[k].read

(***************************************************************************)
(* The keys of the target are the documents in the query at version v, and *)
(* the cache has their contents.                                           *)
(***************************************************************************)
KeysAt(h, d, v) ==
  \A k \in Key : /\ k \in d.keys <=> At(h, k, v).kind = "in"
                 /\ k \in d.keys => d.cache[k].version >= At(h, k, v).version

NeverAgain(h, c, k, v) == \A u \in v .. Len(h) : At(h, k, u).version # c.version

InCache(d) == {k \in Key : d.cache[k].kind = "in"}

(***************************************************************************)
(* A query resumed at token may leave out what is neither in the target    *)
(* nor read after free: the server has it no more.                         *)
(***************************************************************************)
Leaves(h, d, token, free) ==
  /\ free <= token
  /\ free > 0 => \A k \in InCache(d) \ d.keys :
                   d.cache[k].read <= free => NeverAgain(h, d.cache[k], k, token)

Resumes(h, d, g) ==
  g.token <= d.seen /\ KeysAt(h, d, g.token) /\ Leaves(h, d, g.token, g.limboFree)

DiskTrue(h, d) == CacheTrue(h, d) /\ d.seen <= Len(h) /\ Resumes(h, d, d)

DocsTrue(h, d, token, docs) ==
  /\ docs \subseteq InCache(d)
  /\ \A k \in InCache(d) \ docs : NeverAgain(h, d.cache[k], k, token)

(***************************************************************************)
(* A view has the documents of the cache but for those, and a current one  *)
(* has in limbo all that is not in the target.                             *)
(***************************************************************************)
ViewTrue(h, d, g, a, s) ==
  s.listening =>
    /\ Resumes(h, d, g) /\ DocsTrue(h, d, g.token, s.docs)
    /\ s.current => a = g.token /\ a > 0 /\ s.limbo = s.docs \ d.keys
    /\ s.synced => s.current /\ s.limbo = {}

LEMMA EntryFields ==
  ASSUME NEW d \in Disk
  PROVE  /\ d.seen \in 0 .. MaxVersion /\ d.seen \in Nat
         /\ d.token \in 0 .. MaxVersion /\ d.token \in Nat
         /\ d.limboFree \in 0 .. MaxVersion /\ d.limboFree \in Nat
         /\ d.keys \in SUBSET Key
         /\ \A k \in Key : /\ d.cache[k].version \in Nat /\ d.cache[k].read \in Nat
                           /\ d.cache[k].kind \in Kind /\ d.cache[k] \in Entry
<1>1. /\ d.seen \in 0 .. MaxVersion /\ d.token \in 0 .. MaxVersion
      /\ d.limboFree \in 0 .. MaxVersion /\ d.keys \in SUBSET Key
      /\ d.cache \in [Key -> Entry]
  BY DEF Disk
<1>2. \A c \in Entry : c.version \in 0 .. MaxVersion /\ c.read \in 0 .. MaxVersion
                       /\ c.kind \in Kind
  BY DEF Entry
<1> QED
  BY <1>1, <1>2, Versions

LEMMA NotAgain ==
  ASSUME NEW h, Past(h), NEW k \in Key, NEW c, NEW v \in 0 .. Len(h),
         NEW u \in 0 .. v, Reflects(h, c, k, u), c.kind = "in",
         At(h, k, v).kind # "in"
  PROVE  NeverAgain(h, c, k, v)
<1> SUFFICES ASSUME NEW x \in v .. Len(h), At(h, k, x).version = c.version
             PROVE  FALSE
  BY DEF NeverAgain
<1>1. /\ v \in Nat /\ u \in 0 .. Len(h) /\ x \in 0 .. Len(h) /\ v \in 0 .. x
      /\ u \in Nat /\ u <= v
  BY PastLength
<1>2. c.version = At(h, k, u).version /\ At(h, k, u).kind = "in"
      /\ At(h, k, u).version \in 0 .. u
  BY <1>1, PastDocument DEF Reflects, None
<1>3. At(h, k, x) = At(h, k, u)
  BY <1>1, <1>2, SameVersion
<1>4. At(h, k, x) = At(h, k, v) \/ v < At(h, k, x).version
  BY <1>1, SameOrNewer
<1> QED
  BY <1>1, <1>2, <1>3, <1>4

LEMMA NeverLater ==
  ASSUME NEW h, NEW c, NEW k, NEW v \in Nat, NEW w \in Nat, v <= w,
         NeverAgain(h, c, k, v), Len(h) \in Nat
  PROVE  NeverAgain(h, c, k, w)
BY DEF NeverAgain

(***************************************************************************)
(* A remote event of version v on the cache: u are the updates.            *)
(***************************************************************************)
Genuine(h, u, v) ==
  \A k \in Key : u[k] # NoUpdate =>
    /\ u[k] # Missing
    /\ u[k].version \in Nat
    /\ \E x \in 0 .. v : Reflects(h, u[k], k, x)

Takes(d, u, k) == u[k] # NoUpdate /\ u[k].version > d.cache[k].version

Applied(d, u, v, n) ==
  /\ n \in Disk /\ n.seen = v
  /\ \A k \in Key : /\ Takes(d, u, k) => n.cache[k] = Cached(u[k], v)
                    /\ ~Takes(d, u, k) => n.cache[k] = d.cache[k]

LEMMA CacheApplied ==
  ASSUME NEW h, Past(h), NEW d \in Disk, CacheTrue(h, d), NEW v \in 0 .. Len(h),
         d.seen <= v, NEW u, Genuine(h, u, v), NEW n, Applied(d, u, v, n)
  PROVE  /\ CacheTrue(h, n)
         /\ \A k \in Key :
              /\ n.cache[k].version >= d.cache[k].version
              /\ u[k] # NoUpdate => n.cache[k].version >= u[k].version
              /\ \E x \in 0 .. v : Reflects(h, n.cache[k], k, x)
<1>1. v \in Nat /\ n \in Disk /\ n.seen = v
  BY PastLength DEF Applied
<1>2. ASSUME NEW k \in Key
      PROVE  /\ n.cache[k].version >= d.cache[k].version
             /\ u[k] # NoUpdate => n.cache[k].version >= u[k].version
             /\ \E x \in 0 .. v : Reflects(h, n.cache[k], k, x)
             /\ n.cache[k].version <= n.cache[k].read
  <2>1. d.cache[k].version \in Nat /\ d.seen \in Nat
        /\ d.cache[k].version <= d.cache[k].read
    BY EntryFields DEF CacheTrue
  <2>2. CASE Takes(d, u, k)
    <3>1. n.cache[k] = Cached(u[k], v)
      BY <2>2 DEF Applied
    <3>2. /\ n.cache[k].version = u[k].version /\ n.cache[k].kind = u[k].kind
          /\ n.cache[k].read = v
      BY <3>1 DEF Cached
    <3>3. PICK x \in 0 .. v : Reflects(h, u[k], k, x)
      BY <2>2 DEF Genuine, Takes
    <3>4. u[k].version \in Nat /\ u[k].version > d.cache[k].version
      BY <2>2 DEF Genuine, Takes
    <3>5. Reflects(h, n.cache[k], k, x)
      BY <3>2, <3>3 DEF Reflects
    <3>6. u[k].version <= x
      BY <3>3 DEF Reflects
    <3> QED
      BY <1>1, <2>1, <3>2, <3>4, <3>5, <3>6
  <2>3. CASE ~Takes(d, u, k)
    <3>1. n.cache[k] = d.cache[k]
      BY <2>3 DEF Applied
    <3>2. PICK x \in 0 .. d.seen : Reflects(h, d.cache[k], k, x)
      BY DEF CacheTrue
    <3>3. x \in 0 .. v
      BY <1>1, <2>1
    <3>4. u[k] # NoUpdate => u[k].version \in Nat /\ ~(u[k].version > d.cache[k].version)
      BY <2>3 DEF Genuine, Takes
    <3> QED
      BY <2>1, <3>1, <3>2, <3>3, <3>4
  <2> QED
    BY <2>2, <2>3
<1> QED
  BY <1>1, <1>2 DEF CacheTrue

LEMMA KeysApplied ==
  ASSUME NEW h, Past(h), NEW d \in Disk, CacheTrue(h, d), NEW v \in 0 .. Len(h),
         d.seen <= v, NEW u, Genuine(h, u, v), NEW n, Applied(d, u, v, n),
         NEW w \in 0 .. Len(h), KeysAt(h, d, w), n.keys = d.keys
  PROVE  KeysAt(h, n, w)
<1> SUFFICES ASSUME NEW k \in Key
             PROVE  /\ k \in n.keys <=> At(h, k, w).kind = "in"
                    /\ k \in n.keys => n.cache[k].version >= At(h, k, w).version
  BY DEF KeysAt
<1>1. n.cache[k].version >= d.cache[k].version
  BY CacheApplied
<1>2. /\ d.cache[k].version \in Nat /\ n.cache[k].version \in Nat
      /\ At(h, k, w).version \in Nat
  BY EntryFields, PastDocument DEF Applied
<1> QED
  BY <1>1, <1>2 DEF KeysAt

LEMMA LeavesApplied ==
  ASSUME NEW h, Past(h), NEW d \in Disk, CacheTrue(h, d), NEW v \in 0 .. Len(h),
         d.seen <= v, NEW u, Genuine(h, u, v), NEW n, Applied(d, u, v, n),
         NEW token \in Nat, NEW free \in Nat, token <= d.seen,
         Leaves(h, d, token, free), NEW after \in 0 .. Len(h),
         (after = token /\ n.keys = d.keys) \/ after = v,
         KeysAt(h, n, after)
  PROVE  Leaves(h, n, after, free)
<1>1. v \in Nat /\ n \in Disk /\ n.seen = v /\ d.seen \in Nat /\ Len(h) \in Nat
      /\ after \in Nat /\ token <= after /\ free <= token /\ free <= after
  BY PastLength, EntryFields DEF Applied, Leaves
<1>2. ASSUME free > 0, NEW k \in InCache(n) \ n.keys, n.cache[k].read <= free
      PROVE  NeverAgain(h, n.cache[k], k, after)
  <2>1. k \in Key /\ n.cache[k].kind = "in" /\ k \notin n.keys
    BY <1>2 DEF InCache
  <2>2. At(h, k, after).kind # "in"
    BY <2>1 DEF KeysAt
  <2>3. PICK x \in 0 .. v : Reflects(h, n.cache[k], k, x)
    BY <2>1, CacheApplied
  <2>4. ASSUME after = v
        PROVE  NeverAgain(h, n.cache[k], k, after)
    BY <2>1, <2>2, <2>3, <2>4, NotAgain
  <2>5. CASE Takes(d, u, k)
    <3>1. n.cache[k] = Cached(u[k], v)
      BY <2>1, <2>5 DEF Applied
    <3>2. n.cache[k].read = v
      BY <3>1 DEF Cached
    <3>3. after = v
      BY <1>1, <1>2, <3>2
    <3> QED
      BY <2>4, <3>3
  <2>6. CASE ~Takes(d, u, k)
    <3>1. n.cache[k] = d.cache[k]
      BY <2>1, <2>6 DEF Applied
    <3>2. CASE k \in d.keys
      BY <2>1, <2>4, <3>2
    <3>3. CASE k \notin d.keys
      <4>1. NeverAgain(h, d.cache[k], k, token)
        BY <1>2, <2>1, <3>1, <3>3 DEF Leaves, InCache
      <4> QED
        BY <1>1, <3>1, <4>1, NeverLater
    <3> QED
      BY <3>2, <3>3
  <2> QED
    BY <2>5, <2>6
<1> QED
  BY <1>1, <1>2 DEF Leaves

DocsTaken(d, u, docs) ==
  {k \in Key : IF Takes(d, u, k) THEN u[k].kind = "in" ELSE k \in docs}

LEMMA DocsApplied ==
  ASSUME NEW h, Past(h), NEW d \in Disk, CacheTrue(h, d), NEW v \in 0 .. Len(h),
         d.seen <= v, NEW u, Genuine(h, u, v), NEW n, Applied(d, u, v, n),
         NEW token \in Nat, token <= d.seen, NEW docs, DocsTrue(h, d, token, docs),
         NEW after \in Nat, after = token \/ after = v
  PROVE  DocsTrue(h, n, after, DocsTaken(d, u, docs))
<1>1. v \in Nat /\ d.seen \in Nat /\ Len(h) \in Nat /\ token <= after
  BY PastLength, EntryFields
<1>2. ASSUME NEW k \in Key
      PROVE  /\ k \in DocsTaken(d, u, docs) => n.cache[k].kind = "in"
             /\ n.cache[k].kind = "in" /\ k \notin DocsTaken(d, u, docs) =>
                  NeverAgain(h, n.cache[k], k, after)
  <2>1. CASE Takes(d, u, k)
    <3>1. n.cache[k] = Cached(u[k], v)
      BY <2>1 DEF Applied
    <3>2. n.cache[k].kind = u[k].kind
      BY <3>1 DEF Cached
    <3> QED
      BY <2>1, <3>2 DEF DocsTaken
  <2>2. CASE ~Takes(d, u, k)
    <3>1. n.cache[k] = d.cache[k] /\ (k \in DocsTaken(d, u, docs) <=> k \in docs)
      BY <2>2 DEF Applied, DocsTaken
    <3>2. k \in docs => d.cache[k].kind = "in"
      BY DEF DocsTrue, InCache
    <3>3. ASSUME d.cache[k].kind = "in", k \notin docs
          PROVE  NeverAgain(h, d.cache[k], k, after)
      <4>1. NeverAgain(h, d.cache[k], k, token)
        BY <3>3 DEF DocsTrue, InCache
      <4> QED
        BY <1>1, <4>1, NeverLater
    <3> QED
      BY <3>1, <3>2, <3>3
  <2> QED
    BY <2>1, <2>2
<1> QED
  BY <1>2 DEF DocsTrue, InCache, DocsTaken

(***************************************************************************)
(* A remote event of version v leaves caches and view true.  When it       *)
(* brings changes of the query, these make its keys those of version v.    *)
(***************************************************************************)
Brought(h, d, u, keys, v) ==
  \A k \in Key :
    /\ k \in keys <=> At(h, k, v).kind = "in"
    /\ k \in keys =>
         \/ d.cache[k].version >= At(h, k, v).version
         \/ u[k] # NoUpdate /\ u[k].version >= At(h, k, v).version

NewToken(touched, v) == IF touched THEN v ELSE target.token

LEMMA Unfolded ==
  ASSUME ClientTypes, NEW r, NEW u, NEW touched \in BOOLEAN, NEW state,
         NEW v \in Nat, v # 0, ApplyRemoteEvent(r, u, touched, state, v),
         touched => state.token = v /\ view.listening
  PROVE  /\ disk'.cache = CacheAfter(u, v) /\ disk'.seen = v
         /\ disk'.keys = IF touched THEN KeysAfter(state.changes) ELSE disk.keys
         /\ \/ /\ touched /\ disk'.token = v
               /\ disk'.limboFree = target.limboFree
            \/ /\ disk'.token = disk.token /\ disk'.limboFree = disk.limboFree
               /\ disk'.keys = disk.keys
         /\ at' = IF touched THEN v ELSE at
         /\ ~view.listening => view' = view /\ target' = target
         /\ view.listening =>
              /\ view'.listening /\ view'.docs = DocsAfter(u)
              /\ view'.current = IF touched THEN state.current ELSE view.current
              /\ view'.limbo = IF view'.current THEN DocsAfter(u) \ disk'.keys
                               ELSE view.limbo
              /\ view'.synced = (view'.current /\ view'.limbo = {})
              /\ target'.token = NewToken(touched, v)
              /\ \/ target'.limboFree = target.limboFree
                 \/ target'.limboFree = target'.token /\ view'.synced
<1> DEFINE changes == IF touched THEN state.changes ELSE NoChanges
           keys    == KeysAfter(changes)
           token   == IF touched THEN state.token ELSE target.token
           current == IF touched THEN state.current ELSE view.current
           after   == IF view.listening THEN ViewAfter(DocsAfter(u), keys, current)
                      ELSE view
<1>1. /\ view' = after
      /\ target' = IF view.listening
                   THEN [token |-> token,
                         limboFree |-> LimboFreeAfter(u, after, token)]
                   ELSE target
      /\ at' = IF touched THEN v ELSE at
  BY DEF ApplyRemoteEvent
<1>2. PICK persist \in BOOLEAN :
        /\ changes # NoChanges => persist
        /\ ~touched => ~persist
        /\ disk' = [cache |-> CacheAfter(u, v), keys |-> keys,
                    seen |-> IF v = 0 THEN disk.seen ELSE v,
                    token |-> IF persist THEN token ELSE disk.token,
                    limboFree |-> IF persist THEN target.limboFree
                                  ELSE disk.limboFree]
  BY DEF ApplyRemoteEvent
<1>3. KeysAfter(NoChanges) = disk.keys
  <2>1. disk.keys \in SUBSET Key /\ \A k \in Key : NoChanges[k] = None
    BY ClientFields, NewStates
  <2> QED
    BY <2>1 DEF KeysAfter, None
<1>4. /\ disk'.cache = CacheAfter(u, v) /\ disk'.seen = v
      /\ disk'.keys = keys
      /\ disk'.token = (IF persist THEN token ELSE disk.token)
      /\ disk'.limboFree = (IF persist THEN target.limboFree ELSE disk.limboFree)
  BY <1>2
<1>5. /\ disk'.keys = IF touched THEN KeysAfter(state.changes) ELSE disk.keys
      /\ \/ /\ touched /\ disk'.token = v
            /\ disk'.limboFree = target.limboFree
         \/ /\ disk'.token = disk.token /\ disk'.limboFree = disk.limboFree
            /\ disk'.keys = disk.keys
  BY <1>2, <1>3, <1>4
<1>6. ~view.listening => view' = view /\ target' = target
  BY <1>1
<1>7. ASSUME view.listening
      PROVE  /\ view'.listening /\ view'.docs = DocsAfter(u)
             /\ view'.current = IF touched THEN state.current ELSE view.current
             /\ view'.limbo = IF view'.current THEN DocsAfter(u) \ disk'.keys
                              ELSE view.limbo
             /\ view'.synced = (view'.current /\ view'.limbo = {})
             /\ target'.token = NewToken(touched, v)
             /\ \/ target'.limboFree = target.limboFree
                \/ target'.limboFree = target'.token /\ view'.synced
  <2> DEFINE limbo == IF current THEN DocsAfter(u) \ keys ELSE view.limbo
  <2>1. view' = [view EXCEPT !.docs = DocsAfter(u), !.current = current,
                             !.limbo = limbo, !.synced = current /\ limbo = {}]
    BY <1>1, <1>7 DEF ViewAfter
  <2>2. view \in [listening : BOOLEAN, docs : SUBSET Key, limbo : SUBSET Key,
                  current : BOOLEAN, synced : BOOLEAN]
    BY DEF ClientTypes
  <2> HIDE DEF current, limbo, keys
  <2>3. /\ view'.listening = view.listening /\ view'.docs = DocsAfter(u)
        /\ view'.current = current /\ view'.limbo = limbo
        /\ view'.synced = (current /\ limbo = {})
    BY <2>1, <2>2
  <2>4. /\ target'.token = token
        /\ target'.limboFree = LimboFreeAfter(u, view', token)
    BY <1>1, <1>7
  <2>5. \/ target'.limboFree = target.limboFree
        \/ target'.limboFree = token /\ view'.synced
    BY <2>4 DEF LimboFreeAfter
  <2>6. token = NewToken(touched, v)
    BY DEF NewToken
  <2> QED
    BY <1>4, <1>7, <2>3, <2>4, <2>5, <2>6 DEF current, limbo, keys
<1> QED
  BY <1>1, <1>4, <1>5, <1>6, <1>7

LEMMA ClientDisk ==
  ASSUME ClientTypes
  PROVE  disk \in Disk
BY DEF ClientTypes, Disk, Entry

LEMMA EventTrue ==
  ASSUME ClientTypes, ClientTypes', Past(backend), DiskTrue(backend, disk),
         ViewTrue(backend, disk, target, at, view),
         NEW u \in [Key -> DocumentUpdate], NEW touched \in BOOLEAN, NEW state,
         NEW v \in 1 .. Latest, disk.seen <= v, Genuine(backend, u, v),
         touched => /\ state.token = v /\ view.listening
                    /\ Brought(backend, disk, u, KeysAfter(state.changes), v),
         NEW r, ApplyRemoteEvent(r, u, touched, state, v)
  PROVE  /\ DiskTrue(backend, disk') /\ Applied(disk, u, v, disk')
         /\ ViewTrue(backend, disk', target', at', view')
         /\ view'.listening = view.listening
         /\ view.listening => target'.token = NewToken(touched, v)
         /\ disk'.seen = v
         /\ disk'.keys = IF touched THEN KeysAfter(state.changes) ELSE disk.keys
<1> DEFINE T == NewToken(touched, v)
<1>1. /\ v \in Nat /\ v # 0 /\ v > 0 /\ v \in 0 .. Len(backend) /\ Len(backend) \in Nat
      /\ disk \in Disk /\ disk' \in Disk
      /\ target.token \in Nat /\ target.limboFree \in Nat
      /\ disk.token \in Nat /\ disk.limboFree \in Nat /\ disk.seen \in Nat
  <2>1. /\ v \in Nat /\ v # 0 /\ v > 0 /\ v \in 0 .. Len(backend) /\ Len(backend) \in Nat
    BY PastLength DEF Latest
  <2>2. disk \in Disk
    BY ClientDisk
  <2>3. disk' \in Disk
    BY DEF ClientTypes, Disk, Entry
  <2>4. disk.token \in Nat /\ disk.limboFree \in Nat /\ disk.seen \in Nat
    BY <2>2, EntryFields
  <2>5. target.token \in Nat /\ target.limboFree \in Nat
    BY ClientFields, Versions
  <2> QED
    BY <2>1, <2>2, <2>3, <2>4, <2>5
<1>2. /\ disk'.cache = CacheAfter(u, v) /\ disk'.seen = v
      /\ disk'.keys = IF touched THEN KeysAfter(state.changes) ELSE disk.keys
      /\ \/ /\ touched /\ disk'.token = v
            /\ disk'.limboFree = target.limboFree
         \/ /\ disk'.token = disk.token /\ disk'.limboFree = disk.limboFree
            /\ disk'.keys = disk.keys
      /\ at' = IF touched THEN v ELSE at
      /\ ~view.listening => view' = view /\ target' = target
      /\ view.listening =>
           /\ view'.listening /\ view'.docs = DocsAfter(u)
           /\ view'.current = IF touched THEN state.current ELSE view.current
           /\ view'.limbo = IF view'.current THEN DocsAfter(u) \ disk'.keys
                            ELSE view.limbo
           /\ view'.synced = (view'.current /\ view'.limbo = {})
           /\ target'.token = NewToken(touched, v)
           /\ \/ target'.limboFree = target.limboFree
              \/ target'.limboFree = target'.token /\ view'.synced
  BY <1>1, Unfolded
<1>3. ASSUME NEW k \in Key
      PROVE  Accepted(u, k) <=> Takes(disk, u, k)
  <2>1. u[k] # NoUpdate => u[k] # Missing
    BY DEF Genuine
  <2> QED
    BY <2>1 DEF Accepted, Takes
<1>4. Applied(disk, u, v, disk')
  <2>1. ASSUME NEW k \in Key
        PROVE  /\ Takes(disk, u, k) => disk'.cache[k] = Cached(u[k], v)
               /\ ~Takes(disk, u, k) => disk'.cache[k] = disk.cache[k]
    BY <1>2, <1>3 DEF CacheAfter
  <2> QED
    BY <1>1, <1>2, <2>1 DEF Applied
<1>5. DocsAfter(u) = DocsTaken(disk, u, view.docs)
  BY <1>3 DEF DocsAfter, DocsTaken
<1>6. CacheTrue(backend, disk) /\ CacheTrue(backend, disk')
  BY <1>1, <1>4, CacheApplied DEF DiskTrue
<1>7. ASSUME touched
      PROVE  KeysAt(backend, disk', v)
  <2> SUFFICES ASSUME NEW k \in Key
               PROVE  /\ k \in disk'.keys <=> At(backend, k, v).kind = "in"
                      /\ k \in disk'.keys =>
                           disk'.cache[k].version >= At(backend, k, v).version
    BY DEF KeysAt
  <2>1. /\ disk'.cache[k].version >= disk.cache[k].version
        /\ u[k] # NoUpdate => disk'.cache[k].version >= u[k].version
    BY <1>1, <1>4, <1>6, CacheApplied
  <2>2. /\ k \in disk'.keys <=> At(backend, k, v).kind = "in"
        /\ k \in disk'.keys =>
             \/ disk.cache[k].version >= At(backend, k, v).version
             \/ u[k] # NoUpdate /\ u[k].version >= At(backend, k, v).version
    BY <1>2, <1>7 DEF Brought
  <2>3. /\ disk.cache[k].version \in Nat /\ disk'.cache[k].version \in Nat
        /\ u[k] # NoUpdate => u[k].version \in Nat
        /\ At(backend, k, v).version \in Nat
    BY <1>1, EntryFields, PastDocument DEF Genuine
  <2> QED
    BY <2>1, <2>2, <2>3
<1>8. ASSUME NEW w \in 0 .. Len(backend), KeysAt(backend, disk, w), disk'.keys = disk.keys
      PROVE  KeysAt(backend, disk', w)
  BY <1>1, <1>4, <1>6, <1>8, KeysApplied
<1>9. /\ disk.seen <= Len(backend) /\ disk.token <= disk.seen
      /\ KeysAt(backend, disk, disk.token)
      /\ Leaves(backend, disk, disk.token, disk.limboFree)
  BY DEF DiskTrue, Resumes
<1>10. view.listening =>
         /\ target.token <= disk.seen /\ KeysAt(backend, disk, target.token)
         /\ Leaves(backend, disk, target.token, target.limboFree)
         /\ DocsTrue(backend, disk, target.token, view.docs)
         /\ view.current => at = target.token /\ at > 0
  BY DEF ViewTrue, Resumes
<1>11. /\ view.listening => KeysAt(backend, disk', T) /\ T <= v /\ T \in 0 .. Len(backend)
       /\ view.listening => T = v \/ (T = target.token /\ disk'.keys = disk.keys)
  <2>1. CASE touched
    BY <1>1, <1>7, <2>1 DEF NewToken
  <2>2. CASE ~touched
    <3>1. T = target.token /\ disk'.keys = disk.keys
      BY <1>2, <2>2 DEF NewToken
    <3>2. view.listening => target.token \in 0 .. Len(backend) /\ target.token <= v
      BY <1>1, <1>9, <1>10
    <3> QED
      BY <1>8, <1>10, <3>1, <3>2
  <2> QED
    BY <2>1, <2>2
<1>12. view.listening => Leaves(backend, disk', T, target.limboFree)
  BY <1>1, <1>4, <1>6, <1>10, <1>11, LeavesApplied
<1>13. DiskTrue(backend, disk')
  <2>1. CASE touched /\ disk'.token = v /\ disk'.limboFree = target.limboFree
    <3>1. T = v /\ view.listening
      BY <2>1 DEF NewToken
    <3>2. Resumes(backend, disk', disk')
      BY <1>1, <1>2, <1>11, <1>12, <2>1, <3>1 DEF Resumes
    <3> QED
      BY <1>1, <1>2, <1>6, <3>2 DEF DiskTrue
  <2>2. CASE disk'.token = disk.token /\ disk'.limboFree = disk.limboFree
             /\ disk'.keys = disk.keys
    <3>1. disk.token \in 0 .. Len(backend) /\ disk.token <= v
      BY <1>1, <1>9
    <3>2. KeysAt(backend, disk', disk.token)
      BY <1>8, <1>9, <2>2, <3>1
    <3>3. Leaves(backend, disk', disk.token, disk.limboFree)
      BY <1>1, <1>4, <1>6, <1>9, <2>2, <3>1, <3>2, LeavesApplied
    <3>4. Resumes(backend, disk', disk')
      BY <1>2, <2>2, <3>1, <3>2, <3>3 DEF Resumes
    <3> QED
      BY <1>1, <1>2, <1>6, <3>4 DEF DiskTrue
  <2> QED
    BY <1>2, <2>1, <2>2
<1>14. ASSUME view.listening
       PROVE  ViewTrue(backend, disk', target', at', view')
  <2> HIDE DEF T
  <2>1. T \in Nat /\ target'.token = T
    BY <1>1, <1>2, <1>11, <1>14, PastLength DEF T
  <2>2. DocsTrue(backend, disk', T, view'.docs)
    BY <1>1, <1>2, <1>4, <1>5, <1>6, <1>10, <1>11, <1>14, <2>1, DocsApplied
  <2>3. ASSUME view'.synced
        PROVE  Leaves(backend, disk', T, T)
    <3>1. view'.docs \subseteq disk'.keys
      BY <1>2, <1>14, <2>3
    <3>2. ASSUME NEW k \in InCache(disk') \ disk'.keys
          PROVE  NeverAgain(backend, disk'.cache[k], k, T)
      BY <2>2, <3>1 DEF DocsTrue
    <3> QED
      BY <2>1, <3>2 DEF Leaves
  <2>4. Leaves(backend, disk', T, target'.limboFree)
    BY <1>2, <1>12, <1>14, <2>1, <2>3
  <2>5. Resumes(backend, disk', target')
    BY <1>2, <1>11, <1>14, <2>1, <2>4 DEF Resumes
  <2>6. view'.current => at' = T /\ at' > 0 /\ view'.limbo = view'.docs \ disk'.keys
    BY <1>1, <1>2, <1>10, <1>14 DEF T, NewToken
  <2>7. view'.synced => view'.current /\ view'.limbo = {}
    BY <1>2, <1>14
  <2> QED
    BY <2>1, <2>2, <2>5, <2>6, <2>7 DEF ViewTrue
<1>15. view.listening \in BOOLEAN /\ view'.listening \in BOOLEAN
  <2>1. view' \in [listening : BOOLEAN, docs : SUBSET Key, limbo : SUBSET Key,
                  current : BOOLEAN, synced : BOOLEAN]
    BY DEF ClientTypes
  <2> QED
    BY <2>1, ClientFields
<1>16. ~view.listening => ViewTrue(backend, disk', target', at', view')
  BY <1>2 DEF ViewTrue
<1>17. view'.listening = view.listening
  BY <1>2, <1>15
<1> QED
  BY <1>2, <1>4, <1>13, <1>14, <1>15, <1>16, <1>17

(***************************************************************************)
(* What this says of a view in sync, and of the shortcut of the cache.     *)
(***************************************************************************)
LEMMA AsServer ==
  ASSUME ClientTypes, Past(backend), DiskTrue(backend, disk),
         ViewTrue(backend, disk, target, at, view)
  PROVE  SyncedIsServer
<1> SUFFICES ASSUME view.listening, view.synced, NEW k \in Key
             PROVE  \E v \in at .. disk.seen : AsOf(k, v)
  BY DEF SyncedIsServer
<1> DEFINE c == disk.cache[k]
           D(v) == At(backend, k, v)
<1>1. /\ at = target.token /\ at > 0 /\ target.token <= disk.seen
      /\ view.docs \ disk.keys = {}
      /\ KeysAt(backend, disk, at) /\ DocsTrue(backend, disk, at, view.docs)
  BY DEF ViewTrue, Resumes
<1>2. disk.seen <= Len(backend) /\ disk \in Disk
  BY ClientDisk DEF DiskTrue
<1>3. /\ at \in Nat /\ disk.seen \in Nat /\ Len(backend) \in Nat
      /\ at \in 0 .. Len(backend) /\ at \in at .. disk.seen /\ at # 0
  BY <1>1, <1>2, ClientFields, EntryFields, PastLength, Versions
<1>4. PICK u \in 0 .. disk.seen : Reflects(backend, c, k, u)
  BY DEF DiskTrue, CacheTrue
<1>5. /\ u \in Nat /\ u <= disk.seen /\ u \in 0 .. Len(backend)
      /\ c.kind = D(u).kind /\ c.version <= u
      /\ c.kind = "in" => c.version = D(u).version
  BY <1>2, <1>3, <1>4 DEF Reflects, None
<1>6. ASSUME NEW v \in at .. disk.seen
      PROVE  v # 0 /\ D(v) = backend[v][k]
  BY <1>1, <1>3 DEF At
<1>7. /\ k \in disk.keys <=> D(at).kind = "in"
      /\ k \in disk.keys => c.version >= D(at).version
  BY <1>1 DEF KeysAt
<1>8. k \in view.docs => c.kind = "in" /\ k \in disk.keys
  BY <1>1 DEF DocsTrue, InCache
<1>9. /\ c.version \in Nat /\ D(at).version \in Nat /\ D(u).version \in Nat
  BY <1>2, <1>3, <1>5, EntryFields, PastDocument
<1>10. u < at => /\ D(at) = D(u) \/ u < D(at).version
                 /\ D(u).version <= D(at).version
  <2> SUFFICES ASSUME u < at
               PROVE  u \in 0 .. at
    BY <1>3, SameOrNewer
  <2> QED
    BY <1>3, <1>5
<1> HIDE DEF c, D
<1>11. u >= at => u \in at .. disk.seen
  BY <1>3, <1>5
<1>12. CASE k \in view.docs
  <2>1. c.kind = "in" /\ D(at).kind = "in" /\ c.version = D(u).version /\ D(u).kind = "in"
        /\ c.version >= D(at).version
    BY <1>5, <1>7, <1>8, <1>12
  <2>2. CASE u >= at
    <3>1. AsOf(k, u)
      BY <1>6, <1>11, <1>12, <2>1, <2>2 DEF AsOf, c
    <3> QED
      BY <1>11, <2>2, <3>1
  <2>3. CASE u < at
    <3>1. D(at).version = c.version
      BY <1>9, <1>10, <2>1, <2>3
    <3>2. AsOf(k, at)
      BY <1>3, <1>6, <1>12, <2>1, <3>1 DEF AsOf, c
    <3> QED
      BY <1>3, <3>2
  <2> QED
    BY <1>3, <1>5, <2>2, <2>3
<1>13. CASE k \notin view.docs
  <2>1. ASSUME NEW v \in at .. disk.seen, D(v).kind # "in"
        PROVE  AsOf(k, v)
    BY <1>6, <1>13, <2>1 DEF AsOf
  <2>2. CASE D(at).kind # "in"
    BY <1>3, <2>1, <2>2
  <2>3. CASE D(at).kind = "in" /\ u >= at /\ D(u).kind # "in"
    BY <1>11, <2>1, <2>3
  <2>4. CASE D(at).kind = "in" /\ D(u).kind = "in"
    <3>1. c.kind = "in" /\ c.version = D(u).version /\ c.version >= D(at).version
      BY <1>5, <1>7, <2>4
    <3>2. NeverAgain(backend, c, k, at)
      BY <1>1, <1>13, <3>1 DEF DocsTrue, InCache, c
    <3>3. \A x \in at .. Len(backend) : D(x).version # c.version
      BY <3>2 DEF NeverAgain, D
    <3>4. u < at
      <4>1. u >= at => u \in at .. Len(backend)
        BY <1>3, <1>5
      <4> QED
        BY <1>3, <1>5, <3>1, <3>3, <4>1
    <3>5. D(at).version = c.version
      BY <1>9, <1>10, <3>1, <3>4
    <3>6. at \in at .. Len(backend)
      BY <1>3
    <3> QED
      BY <3>3, <3>5, <3>6
  <2>5. CASE D(at).kind = "in" /\ D(u).kind # "in" /\ u < at
    <3>1. u < D(at).version /\ c.version >= D(at).version
      BY <1>7, <1>10, <2>5
    <3> QED
      BY <1>5, <1>9, <3>1
  <2> QED
    BY <1>3, <1>5, <2>2, <2>3, <2>4, <2>5
<1> QED
  BY <1>12, <1>13

LEMMA NothingMissed ==
  ASSUME ClientTypes, Past(backend), DiskTrue(backend, disk)
  PROVE  QueryMissesNothing
<1> SUFFICES ASSUME disk.token > 0, NEW k \in FullScan \ ExecuteQuery,
                    NEW v \in disk.token .. Latest
             PROVE  backend[v][k].version # disk.cache[k].version
  BY DEF QueryMissesNothing
<1>1. Leaves(backend, disk, disk.token, disk.limboFree)
      /\ disk.token \in Nat /\ disk.limboFree \in Nat
  BY ClientFields, Versions DEF DiskTrue, Resumes
<1>2. /\ k \in Key /\ k \in InCache(disk) \ disk.keys /\ disk.limboFree # 0
      /\ ~(disk.cache[k].read > disk.limboFree)
  BY DEF FullScan, ExecuteQuery, InCache
<1>3. disk.cache[k].read \in Nat
  BY <1>2, ClientDisk, EntryFields
<1>4. NeverAgain(backend, disk.cache[k], k, disk.token)
  BY <1>1, <1>2, <1>3 DEF Leaves
<1>5. At(backend, k, v) = backend[v][k]
  BY <1>1 DEF At
<1> QED
  BY <1>4, <1>5 DEF NeverAgain, Latest

-----------------------------------------------------------------------------
(***************************************************************************)
(* What a target is told.  c is the document it asks for, None for the     *)
(* query; Worth is the version of document k that it has at version v of   *)
(* the server, or 0 when the document is not in it.                        *)
(***************************************************************************)
KeyAsked(r, t) == IF t = QueryTarget THEN None ELSE r.keyOf[t]

Known(r, d, t) == IF t = QueryTarget THEN d.keys ELSE LimboKeys(r, t)

Worth(h, t, c, k, v) ==
  IF c \in {k, None} /\ InTarget(t, At(h, k, v)) THEN At(h, k, v).version ELSE 0

Answers(m, t) == m.type \in {"added", "removed"} /\ m.target = t

Moves(m, t, k) ==
  \/ m.type = "doc" /\ m.key = k /\ t \in m.updated \cup m.removed
  \/ m.type = "reset" /\ m.target = t

Told(m, t) == IF m.type = "doc" /\ t \in m.updated THEN m.doc.version ELSE 0

Heard(m, t, k, x) == IF Moves(m, t, k) THEN Told(m, t) ELSE x

Step(h, t, c, k, m, x, y) ==
  /\ ~Answers(m, t) /\ y = Heard(m, t, k, x)
  /\ m.type = "snapshot" => y = Worth(h, t, c, k, m.version)

(***************************************************************************)
(* The messages q after place lo tell target t of document k: b[i] is what *)
(* the target has of it after message i.  Each snapshot comes when this is *)
(* what the server has at its version, and they end at version v.          *)
(***************************************************************************)
Tracks(h, q, t, c, k, lo, b, v) ==
  /\ \A i \in lo + 1 .. Len(q) : Step(h, t, c, k, q[i], b[i - 1], b[i])
  /\ b[Len(q)] = Worth(h, t, c, k, v)

LEMMA WorthIs ==
  ASSUME NEW h, Past(h), NEW t, NEW c, NEW k \in Key, NEW v \in 0 .. Len(h)
  PROVE  /\ Worth(h, t, c, k, v) \in Nat
         /\ Worth(h, t, c, k, v) <= v
         /\ Worth(h, t, c, k, v) # 0 <=>
              c \in {k, None} /\ InTarget(t, At(h, k, v))
         /\ Worth(h, t, c, k, 0) = 0
<1>1. /\ v \in Nat /\ At(h, k, v).version \in 0 .. v
      /\ At(h, k, v).version = 0 <=> v = 0
  BY PastLength, PastDocument
<1>2. At(h, k, 0) = Missing
  BY DEF At
<1>3. ~InTarget(t, At(h, k, 0))
  BY <1>2 DEF InTarget, Missing, None
<1> QED
  BY <1>1, <1>3 DEF Worth

(***************************************************************************)
(* The messages e bring the target from version v to version u.            *)
(***************************************************************************)
Brings(h, e, t, c, k, v, u) ==
  /\ \A i \in DOMAIN e :
       /\ ~Answers(e[i], t)
       /\ Moves(e[i], t, k) => Told(e[i], t) = Worth(h, t, c, k, u)
       /\ e[i].type = "snapshot" =>
            /\ Worth(h, t, c, k, e[i].version) = Worth(h, t, c, k, u)
            /\ Worth(h, t, c, k, v) = Worth(h, t, c, k, u)
  /\ (\A i \in DOMAIN e : ~Moves(e[i], t, k)) =>
       Worth(h, t, c, k, v) = Worth(h, t, c, k, u)

LEMMA TracksJoined ==
  ASSUME NEW h, NEW t, NEW c, NEW k, NEW v, NEW u,
         NEW S, NEW q \in Seq(S), NEW e \in Seq(S), NEW lo \in 0 .. Len(q),
         NEW b, Tracks(h, q, t, c, k, lo, b, v), Brings(h, e, t, c, k, v, u)
  PROVE  \E y : Tracks(h, q \o e, t, c, k, lo, y, u) /\ y[lo] = b[lo]
<1> DEFINE n == Len(q)
           l == Len(e)
           Moved(i) == \E j \in 1 .. i : Moves(e[j], t, k)
           y == [i \in 0 .. n + l |->
                   IF i <= n THEN b[i]
                   ELSE IF Moved(i - n) THEN Worth(h, t, c, k, u) ELSE b[n]]
<1>1. /\ n \in Nat /\ l \in Nat /\ lo \in Nat /\ lo <= n /\ DOMAIN e = 1 .. l
      /\ Len(q \o e) = n + l
      /\ \A i \in 1 .. n + l : (q \o e)[i] = IF i <= n THEN q[i] ELSE e[i - n]
  BY Ends, Joined
<1>2. /\ \A i \in lo + 1 .. n : Step(h, t, c, k, q[i], b[i - 1], b[i])
      /\ b[n] = Worth(h, t, c, k, v)
  BY DEF Tracks
<1>3. \A i \in 1 .. l :
        /\ ~Answers(e[i], t)
        /\ Moves(e[i], t, k) => Told(e[i], t) = Worth(h, t, c, k, u)
        /\ e[i].type = "snapshot" =>
             /\ Worth(h, t, c, k, e[i].version) = Worth(h, t, c, k, u)
             /\ Worth(h, t, c, k, v) = Worth(h, t, c, k, u)
  BY <1>1 DEF Brings
<1>4. ~Moved(l) => Worth(h, t, c, k, v) = Worth(h, t, c, k, u)
  BY <1>1 DEF Brings
<1> HIDE DEF n, l
<1>5. ASSUME NEW i \in lo + 1 .. n + l
      PROVE  Step(h, t, c, k, (q \o e)[i], y[i - 1], y[i])
  <2>1. i \in 1 .. n + l /\ i \in 0 .. n + l /\ i - 1 \in 0 .. n + l
    BY <1>1
  <2>2. CASE i <= n
    <3>1. /\ (q \o e)[i] = q[i] /\ y[i] = b[i] /\ y[i - 1] = b[i - 1]
          /\ i \in lo + 1 .. n
      BY <1>1, <2>1, <2>2
    <3> QED
      BY <1>2, <3>1
  <2>3. CASE i > n
    <3> DEFINE j == i - n
               m == e[j]
    <3>1. j \in 1 .. l /\ (q \o e)[i] = m /\ j - 1 = i - 1 - n
      BY <1>1, <2>1, <2>3
    <3>2. y[i] = IF Moved(j) THEN Worth(h, t, c, k, u) ELSE b[n]
      BY <1>1, <2>1, <2>3
    <3>3. y[i - 1] = IF Moved(j - 1) THEN Worth(h, t, c, k, u) ELSE b[n]
      <4>1. CASE i - 1 = n
        <5>1. y[i - 1] = b[n] /\ j - 1 = 0
          BY <1>1, <2>1, <3>1, <4>1
        <5>2. ~Moved(j - 1)
          BY <5>1
        <5> QED
          BY <5>1, <5>2
      <4>2. CASE i - 1 # n
        BY <1>1, <2>1, <2>3, <3>1, <4>2
      <4> QED
        BY <4>1, <4>2
    <3>4. Moved(j) <=> Moved(j - 1) \/ Moves(m, t, k)
      <4>1. \A x \in 1 .. j : x \in 1 .. j - 1 \/ x = j
        BY <1>1, <3>1
      <4>2. j \in 1 .. j /\ \A x \in 1 .. j - 1 : x \in 1 .. j
        BY <1>1, <3>1
      <4> QED
        BY <4>1, <4>2
    <3>5. /\ ~Answers(m, t)
          /\ Moves(m, t, k) => Told(m, t) = Worth(h, t, c, k, u)
          /\ m.type = "snapshot" =>
               /\ Worth(h, t, c, k, m.version) = Worth(h, t, c, k, u)
               /\ Worth(h, t, c, k, v) = Worth(h, t, c, k, u)
      BY <1>3, <3>1
    <3> HIDE DEF y, m, j, Moved
    <3>6. y[i] = Heard(m, t, k, y[i - 1])
      BY <3>2, <3>3, <3>4, <3>5 DEF Heard
    <3>7. m.type = "snapshot" => y[i] = Worth(h, t, c, k, m.version)
      BY <1>2, <3>2, <3>5
    <3> QED
      BY <3>1, <3>5, <3>6, <3>7 DEF Step
  <2> QED
    BY <1>1, <2>1, <2>2, <2>3
<1>6. y[n + l] = Worth(h, t, c, k, u)
  <2>1. CASE l = 0
    <3>1. y[n + l] = b[n]
      BY <1>1, <2>1
    <3>2. ~Moved(l)
      BY <2>1
    <3> QED
      BY <1>2, <1>4, <3>1, <3>2
  <2>2. CASE l # 0
    <3>1. y[n + l] = IF Moved(l) THEN Worth(h, t, c, k, u) ELSE b[n]
      <4> DEFINE z == n + l
      <4>1. z \in 0 .. n + l /\ ~(z <= n) /\ z - n = l
        BY <1>1, <2>2
      <4> HIDE DEF Moved, z
      <4>2. y[z] = IF Moved(z - n) THEN Worth(h, t, c, k, u) ELSE b[n]
        BY <4>1
      <4> QED
        BY <4>1, <4>2 DEF z
    <3> QED
      BY <1>2, <1>4, <3>1
  <2> QED
    BY <2>1, <2>2
<1>7. y[lo] = b[lo]
  BY <1>1
<1> HIDE DEF y
<1>8. Tracks(h, q \o e, t, c, k, lo, y, u)
  BY <1>1, <1>5, <1>6 DEF Tracks
<1> QED
  BY <1>7, <1>8

LEMMA TracksTail ==
  ASSUME NEW h, NEW t, NEW c, NEW k, NEW v, NEW S, NEW q \in Seq(S), q # <<>>,
         NEW lo \in 0 .. Len(q), NEW b, Tracks(h, q, t, c, k, lo, b, v)
  PROVE  /\ lo > 0 => \E y : /\ Tracks(h, Tail(q), t, c, k, lo - 1, y, v)
                             /\ y[lo - 1] = b[lo]
         /\ lo = 0 => /\ Step(h, t, c, k, Head(q), b[0], b[1])
                      /\ \E y : /\ Tracks(h, Tail(q), t, c, k, 0, y, v)
                                /\ y[0] = b[1]
<1> DEFINE n == Len(q)
           y == [i \in 0 .. n - 1 |-> b[i + 1]]
<1>1. /\ n \in Nat /\ n > 0 /\ lo \in Nat /\ lo <= n
      /\ Len(Tail(q)) = n - 1 /\ Head(q) = q[1]
      /\ \A i \in 1 .. n - 1 : Tail(q)[i] = q[i + 1]
  BY Ends, Removing
<1>2. /\ \A i \in lo + 1 .. n : Step(h, t, c, k, q[i], b[i - 1], b[i])
      /\ b[n] = Worth(h, t, c, k, v)
  BY DEF Tracks
<1> HIDE DEF n
<1>3. ASSUME NEW i \in 1 .. n - 1, i >= lo
      PROVE  Step(h, t, c, k, Tail(q)[i], y[i - 1], y[i])
  <2>1. /\ i + 1 \in lo + 1 .. n /\ i + 1 - 1 = i /\ i - 1 + 1 = i
        /\ i \in 0 .. n - 1 /\ i - 1 \in 0 .. n - 1
    BY <1>1, <1>3
  <2>2. y[i] = b[i + 1] /\ y[i - 1] = b[i] /\ Tail(q)[i] = q[i + 1]
    BY <1>1, <2>1
  <2>3. Step(h, t, c, k, q[i + 1], b[i + 1 - 1], b[i + 1])
    BY <1>2, <2>1
  <2> QED
    BY <2>1, <2>2, <2>3
<1>4. y[n - 1] = Worth(h, t, c, k, v)
  <2>1. n - 1 \in 0 .. n - 1 /\ n - 1 + 1 = n
    BY <1>1
  <2> QED
    BY <1>2, <2>1
<1>5. ASSUME lo > 0
      PROVE  /\ Tracks(h, Tail(q), t, c, k, lo - 1, y, v)
             /\ y[lo - 1] = b[lo]
  <2>1. lo - 1 \in 0 .. n - 1 /\ lo - 1 + 1 = lo
        /\ \A i \in lo - 1 + 1 .. n - 1 : i \in 1 .. n - 1 /\ i >= lo
    BY <1>1, <1>5
  <2>2. y[lo - 1] = b[lo]
    BY <2>1
  <2> HIDE DEF y
  <2> QED
    BY <1>1, <1>3, <1>4, <2>1, <2>2 DEF Tracks
<1>6. ASSUME lo = 0
      PROVE  /\ Step(h, t, c, k, Head(q), b[0], b[1])
             /\ Tracks(h, Tail(q), t, c, k, 0, y, v) /\ y[0] = b[1]
  <2>1. 1 \in lo + 1 .. n /\ 1 - 1 = 0 /\ 0 \in 0 .. n - 1 /\ 0 + 1 = 1
        /\ \A i \in 0 + 1 .. n - 1 : i \in 1 .. n - 1 /\ i >= lo
    BY <1>1, <1>6
  <2>2. Step(h, t, c, k, q[1], b[1 - 1], b[1])
    BY <1>2, <2>1
  <2>3. y[0] = b[1]
    BY <2>1
  <2> HIDE DEF y
  <2> QED
    BY <1>1, <1>3, <1>4, <2>1, <2>2, <2>3 DEF Tracks
<1> QED
  BY <1>5, <1>6

-----------------------------------------------------------------------------
(***************************************************************************)
(* The last request to a target listens to it as it is now listened to;    *)
(* or there is none.                                                       *)
(***************************************************************************)
NotAsked(r, t) == \A i \in DOMAIN r.requests : r.requests[i].target # t

Waiting(r, t) ==
  \E i \in DOMAIN r.requests :
    /\ r.requests[i] = WatchRequest(r, t)
    /\ \A j \in DOMAIN r.requests : j > i => r.requests[j].target # t

(***************************************************************************)
(* What the client has of document k in target t is version x, or nothing  *)
(* when x is 0: before the answer to its request, and when the target is   *)
(* active.                                                                 *)
(***************************************************************************)
Collected(r, d, t, k) ==
  \/ Changes(r, t)[k] \in {"added", "modified"}
  \/ Changes(r, t)[k] = None /\ k \in Known(r, d, t)

Knows(r, d, t, k, x) ==
  /\ x \in Nat /\ (x # 0 <=> k \in Known(r, d, t))
  /\ t = QueryTarget => x <= d.cache[k].version

Holds(r, d, t, k, x) ==
  /\ x \in Nat /\ (x # 0 <=> Collected(r, d, t, k))
  /\ t = QueryTarget =>
       \/ x <= d.cache[k].version
       \/ Updates(r)[k] # NoUpdate /\ x <= Updates(r)[k].version
  /\ Changes(r, t)[k] \in {"added", "modified"} => Updates(r)[k] # NoUpdate

Begins(r, d, t, k, lo, x) ==
  IF lo = 0 THEN Holds(r, d, t, k, x) ELSE Knows(r, d, t, k, x)

(***************************************************************************)
(* A target without requests is followed by the stream: after the answer   *)
(* that adds it, when that is still on its way, the messages bring what    *)
(* the client has to what the server has sent.                             *)
(***************************************************************************)
Followed(h, d, r, q, w, t, lo) ==
  /\ lo > 0 => q[lo].type = "added" /\ q[lo].target = t
  /\ \A k \in Key :
       \E b : /\ Tracks(h, q, t, KeyAsked(r, t), k, lo, b, w[t].version)
              /\ Begins(r, d, t, k, lo, b[lo])

Settled(h, d, r, q, w, t) ==
  /\ t \in DOMAIN w /\ NotAsked(r, t)
  /\ \E lo \in 0 .. Len(q) : Followed(h, d, r, q, w, t, lo)

LEMMA CountNone ==
  ASSUME NEW S, NEW q \in Seq(S), NEW T
  PROVE  /\ Count(q, T) \in Nat
         /\ Count(q, T) = 0 <=> \A i \in DOMAIN q : q[i] \notin T
<1>1. IsFiniteSet(Places(q, T)) /\ Count(q, T) \in Nat
  BY PlacesFinite
<1>2. Count(q, T) = 0 <=> Places(q, T) = {}
  BY <1>1, FS_EmptySet DEF Count
<1> QED
  BY <1>1, <1>2 DEF Places

LEMMA Counts ==
  ASSUME NEW r \in RemoteState, NEW q \in Seq(Message), NEW t \in Target
  PROVE  /\ Count(r.requests, RequestTo(t)) \in Nat /\ Count(q, AnswerOf(t)) \in Nat
         /\ NotAsked(r, t) <=> Count(r.requests, RequestTo(t)) = 0
         /\ Waiting(r, t) => Count(r.requests, RequestTo(t)) # 0
         /\ Count(q, AnswerOf(t)) = 0 <=> \A i \in DOMAIN q : ~Answers(q[i], t)
<1>1. r.requests \in Seq(Request)
  BY RemoteFields
<1>2. \A i \in DOMAIN r.requests : r.requests[i] \in RequestTo(t) <=> r.requests[i].target = t
  BY <1>1, Ends DEF RequestTo
<1>3. \A i \in DOMAIN q : q[i] \in AnswerOf(t) <=> Answers(q[i], t)
  BY Ends DEF AnswerOf, Answers
<1>4. Waiting(r, t) => ~NotAsked(r, t)
  BY Requests DEF Waiting, NotAsked
<1> QED
  BY <1>1, <1>2, <1>3, <1>4, CountNone DEF NotAsked

LEMMA SettledJoined ==
  ASSUME NEW h, NEW d, NEW r, NEW q \in Seq(Message), NEW e \in Seq(Message),
         NEW w, NEW n, NEW t, Settled(h, d, r, q, w, t), t \in DOMAIN n,
         \A k \in Key : Brings(h, e, t, KeyAsked(r, t), k, w[t].version, n[t].version)
  PROVE  Settled(h, d, r, q \o e, n, t)
<1>1. PICK lo \in 0 .. Len(q) : Followed(h, d, r, q, w, t, lo)
  BY DEF Settled
<1>2. /\ Len(q) \in Nat /\ Len(e) \in Nat /\ Len(q \o e) = Len(q) + Len(e)
      /\ \A i \in 1 .. Len(q) + Len(e) :
           (q \o e)[i] = IF i <= Len(q) THEN q[i] ELSE e[i - Len(q)]
  BY Ends, Joined
<1>3. lo \in 0 .. Len(q \o e)
  BY <1>2
<1>4. lo > 0 => (q \o e)[lo].type = "added" /\ (q \o e)[lo].target = t
  <2> SUFFICES ASSUME lo > 0
               PROVE  (q \o e)[lo] = q[lo]
    BY <1>1 DEF Followed
  <2> QED
    BY <1>2
<1>5. ASSUME NEW k \in Key
      PROVE  \E b : /\ Tracks(h, q \o e, t, KeyAsked(r, t), k, lo, b, n[t].version)
                    /\ Begins(r, d, t, k, lo, b[lo])
  <2>1. PICK b : /\ Tracks(h, q, t, KeyAsked(r, t), k, lo, b, w[t].version)
                 /\ Begins(r, d, t, k, lo, b[lo])
    BY <1>1 DEF Followed
  <2>2. PICK y : /\ Tracks(h, q \o e, t, KeyAsked(r, t), k, lo, y, n[t].version)
                 /\ y[lo] = b[lo]
    BY <2>1, TracksJoined
  <2> QED
    BY <2>1, <2>2
<1> QED
  BY <1>3, <1>4, <1>5 DEF Settled, Followed

LEMMA SettledStarts ==
  ASSUME NEW h, NEW d, NEW r, NEW q \in Seq(Message), NEW w, NEW t, t \in DOMAIN w,
         NotAsked(r, t), Len(q) > 0, q[Len(q)].type = "added", q[Len(q)].target = t,
         \A k \in Key : Knows(r, d, t, k, Worth(h, t, KeyAsked(r, t), k, w[t].version))
  PROVE  Settled(h, d, r, q, w, t)
<1> DEFINE lo == Len(q)
<1>1. lo \in Nat /\ lo \in 0 .. Len(q) /\ lo # 0 /\ lo + 1 .. Len(q) = {}
  BY Ends
<1>2. ASSUME NEW k \in Key
      PROVE  \E b : /\ Tracks(h, q, t, KeyAsked(r, t), k, lo, b, w[t].version)
                    /\ Begins(r, d, t, k, lo, b[lo])
  <2> DEFINE b == [i \in {lo} |-> Worth(h, t, KeyAsked(r, t), k, w[t].version)]
  <2>1. b[lo] = Worth(h, t, KeyAsked(r, t), k, w[t].version)
    OBVIOUS
  <2> HIDE DEF b
  <2>2. Tracks(h, q, t, KeyAsked(r, t), k, lo, b, w[t].version)
    BY <1>1, <2>1 DEF Tracks
  <2>3. Begins(r, d, t, k, lo, b[lo])
    BY <1>1, <2>1 DEF Begins
  <2> QED
    BY <2>2, <2>3
<1> QED
  BY <1>1, <1>2 DEF Settled, Followed

(***************************************************************************)
(* The message at the head is handled.                                     *)
(***************************************************************************)
LEMMA SettledTail ==
  ASSUME NEW h, NEW d, NEW n, NEW r \in RemoteState, NEW p, NEW q \in Seq(Message),
         q # <<>>, NEW w, NEW t \in Target, Settled(h, d, r, q, w, t),
         Pending(r, t) = Count(r.requests, RequestTo(t)) + Count(q, AnswerOf(t)),
         KeyAsked(p, t) = KeyAsked(r, t), NotAsked(p, t),
         \A k \in Key : \A x :
           /\ Pending(r, t) = 0 =>
                \A y : Holds(r, d, t, k, x)
                       /\ Step(h, t, KeyAsked(r, t), k, Head(q), x, y)
                         => Holds(p, n, t, k, y)
           /\ Pending(r, t) > 0 => (Knows(r, d, t, k, x) => Knows(p, n, t, k, x))
           /\ Pending(r, t) = 1 /\ Answers(Head(q), t) /\ Head(q).type = "added" =>
                (Knows(r, d, t, k, x) => Holds(p, n, t, k, x))
  PROVE  Settled(h, n, p, Tail(q), w, t)
<1>1. PICK lo \in 0 .. Len(q) : Followed(h, d, r, q, w, t, lo)
  BY DEF Settled
<1>2. /\ Len(q) \in Nat /\ Len(q) > 0 /\ DOMAIN q = 1 .. Len(q)
      /\ Tail(q) \in Seq(Message) /\ DOMAIN Tail(q) = 1 .. Len(q) - 1
      /\ Len(Tail(q)) = Len(q) - 1 /\ Head(q) = q[1]
      /\ \A i \in 1 .. Len(q) - 1 : Tail(q)[i] = q[i + 1]
      /\ Head(q) \in Message
  BY Ends, Removing
<1>3. NotAsked(r, t) /\ t \in DOMAIN w
  BY DEF Settled
<1>4. /\ Pending(r, t) = Count(q, AnswerOf(t)) /\ Count(q, AnswerOf(t)) \in Nat
      /\ Count(q, AnswerOf(t)) = 0 <=> \A i \in DOMAIN q : ~Answers(q[i], t)
  BY <1>3, Counts
<1>5. CASE lo = 0
  <2>1. ASSUME NEW k \in Key
        PROVE  \E y : /\ Tracks(h, Tail(q), t, KeyAsked(p, t), k, 0, y, w[t].version)
                      /\ Begins(p, n, t, k, 0, y[0])
    <3>1. PICK b : /\ Tracks(h, q, t, KeyAsked(r, t), k, lo, b, w[t].version)
                   /\ Begins(r, d, t, k, lo, b[lo])
      BY <1>1 DEF Followed
    <3>2. Pending(r, t) = 0
      <4>1. \A i \in DOMAIN q : ~Answers(q[i], t)
        BY <1>2, <1>5, <3>1 DEF Tracks, Step
      <4> QED
        BY <1>4, <4>1
    <3>3. /\ Step(h, t, KeyAsked(r, t), k, Head(q), b[0], b[1])
          /\ \E y : /\ Tracks(h, Tail(q), t, KeyAsked(r, t), k, 0, y, w[t].version)
                    /\ y[0] = b[1]
      BY <1>5, <3>1, TracksTail
    <3>4. Holds(r, d, t, k, b[0])
      BY <1>5, <3>1 DEF Begins
    <3>5. Holds(p, n, t, k, b[1])
      BY <3>2, <3>3, <3>4
    <3> QED
      BY <3>3, <3>5 DEF Begins
  <2>2. 0 \in 0 .. Len(Tail(q)) /\ ~(0 > 0)
    BY <1>2
  <2>3. Followed(h, n, p, Tail(q), w, t, 0)
    BY <2>1, <2>2 DEF Followed
  <2> QED
    BY <1>3, <2>2, <2>3 DEF Settled
<1>6. CASE lo # 0
  <2>1. /\ lo \in Nat /\ lo > 0 /\ lo - 1 \in 0 .. Len(Tail(q)) /\ lo \in DOMAIN q
        /\ q[lo].type = "added" /\ q[lo].target = t
    BY <1>1, <1>2, <1>6 DEF Followed
  <2>2. Answers(q[lo], t) /\ Pending(r, t) > 0
    BY <1>4, <2>1 DEF Answers
  <2>3. ASSUME NEW k \in Key
        PROVE  \E y : /\ Tracks(h, Tail(q), t, KeyAsked(p, t), k, lo - 1, y, w[t].version)
                      /\ Begins(p, n, t, k, lo - 1, y[lo - 1])
    <3>1. PICK b : /\ Tracks(h, q, t, KeyAsked(r, t), k, lo, b, w[t].version)
                   /\ Begins(r, d, t, k, lo, b[lo])
      BY <1>1 DEF Followed
    <3>2. Knows(r, d, t, k, b[lo])
      BY <1>6, <3>1 DEF Begins
    <3>3. PICK y : /\ Tracks(h, Tail(q), t, KeyAsked(r, t), k, lo - 1, y, w[t].version)
                   /\ y[lo - 1] = b[lo]
      BY <2>1, <3>1, TracksTail
    <3>4. CASE lo = 1
      <4>1. \A i \in DOMAIN Tail(q) : ~Answers(Tail(q)[i], t)
        <5> SUFFICES ASSUME NEW i \in 1 .. Len(q) - 1
                     PROVE  ~Answers(q[i + 1], t)
          BY <1>2
        <5>1. i + 1 \in lo + 1 .. Len(q)
          BY <1>2, <3>4
        <5> QED
          BY <3>1, <5>1 DEF Tracks, Step
      <4>2. Count(Tail(q), AnswerOf(t)) = 0
        BY <1>2, <4>1, Counts
      <4>3. Head(q) \in AnswerOf(t)
        BY <1>2, <2>2, <3>4 DEF AnswerOf, Answers
      <4>4. Pending(r, t) = 1
        BY <1>4, <4>2, <4>3, CountTail
      <4>5. Holds(p, n, t, k, b[lo])
        BY <1>2, <2>1, <2>2, <3>2, <3>4, <4>4
      <4> QED
        BY <3>3, <3>4, <4>5 DEF Begins
    <3>5. CASE lo # 1
      <4>1. Knows(p, n, t, k, b[lo]) /\ lo - 1 # 0
        BY <2>1, <2>2, <3>2, <3>5
      <4> QED
        BY <3>3, <4>1 DEF Begins
    <3> QED
      BY <3>4, <3>5
  <2>4. lo - 1 > 0 => Tail(q)[lo - 1].type = "added" /\ Tail(q)[lo - 1].target = t
    <3> SUFFICES ASSUME lo - 1 > 0
                 PROVE  Tail(q)[lo - 1] = q[lo]
      BY <2>1
    <3>1. lo - 1 \in 1 .. Len(q) - 1 /\ lo - 1 + 1 = lo
      BY <1>2, <2>1
    <3> QED
      BY <1>2, <3>1
  <2>5. Followed(h, n, p, Tail(q), w, t, lo - 1)
    BY <2>3, <2>4 DEF Followed
  <2> QED
    BY <1>3, <2>1, <2>5 DEF Settled
<1> QED
  BY <1>5, <1>6

LEMMA SettledCarried ==
  ASSUME NEW h, NEW d, NEW n, NEW r, NEW p, NEW q, NEW w, NEW t,
         Settled(h, d, r, q, w, t), KeyAsked(p, t) = KeyAsked(r, t), NotAsked(p, t),
         \A k \in Key : \A x :
           /\ Holds(r, d, t, k, x) => Holds(p, n, t, k, x)
           /\ Knows(r, d, t, k, x) => Knows(p, n, t, k, x)
  PROVE  Settled(h, n, p, q, w, t)
<1>1. PICK lo \in 0 .. Len(q) : Followed(h, d, r, q, w, t, lo)
  BY DEF Settled
<1>2. Followed(h, n, p, q, w, t, lo)
  BY <1>1 DEF Followed, Begins
<1> QED
  BY <1>2 DEF Settled

-----------------------------------------------------------------------------
(***************************************************************************)
(* What is true of the messages on the stream: documents are as the server *)
(* had them, and later messages are not older than earlier ones, nor than  *)
(* the updates u that are collected and the version n that has been seen.  *)
(***************************************************************************)
Message1True(h, n, u, m) ==
  /\ m.type \notin {"filter", "error"}
  /\ m.type = "snapshot" =>
       /\ m.version \in 1 .. Len(h) /\ n <= m.version
       /\ \A k \in Key : u[k] # NoUpdate => u[k].version <= m.version
  /\ m.type = "doc" =>
       /\ m.doc # NoUpdate => /\ FromServer(h, m.key, m.doc)
                              /\ u[m.key] # NoUpdate => u[m.key].version <= m.doc.version
       /\ m.updated # {} => m.doc # NoUpdate

Precedes(l, m) ==
  /\ l.type = "snapshot" /\ m.type = "snapshot" => l.version <= m.version
  /\ l.type = "doc" /\ l.doc # NoUpdate =>
       /\ m.type = "snapshot" => l.doc.version <= m.version
       /\ m.type = "doc" /\ m.key = l.key /\ m.doc # NoUpdate =>
            l.doc.version <= m.doc.version

WireTrue(h, n, u, q) ==
  /\ \A i \in DOMAIN q : Message1True(h, n, u, q[i])
  /\ \A i \in DOMAIN q : \A j \in DOMAIN q : i < j => Precedes(q[i], q[j])

UpdatesTrue(h, u) == \A k \in Key : u[k] # NoUpdate => FromServer(h, k, u[k])

(***************************************************************************)
(* The server knows a target by the document that it still looks up, and   *)
(* has not heard of the next lookups.                                      *)
(***************************************************************************)
Keyed(r, t) == t = QueryTarget \/ r.keyOf[t] # None

AskedFor(r, t) ==
  \A i \in DOMAIN r.requests :
    r.requests[i].type = "watch" /\ r.requests[i].target = t =>
      r.requests[i].key = KeyAsked(r, t)

NeverAsked(r, t) ==
  \A i \in DOMAIN r.requests : r.requests[i].type = "watch" => r.requests[i].target # t

KeysMatch(h, r, w) ==
  /\ \A t \in DOMAIN w : w[t].version \in 0 .. Len(h)
  /\ \A t \in Target : Keyed(r, t) =>
       AskedFor(r, t) /\ (t \in DOMAIN w => w[t].key = KeyAsked(r, t))
  /\ \A t \in LimboTarget : t >= r.nextId => t \notin DOMAIN w /\ NeverAsked(r, t)

(***************************************************************************)
(* What the client knows of a target is what the server had at its token,  *)
(* and the stream goes on from there.                                      *)
(***************************************************************************)
Wanted(r, s, t) == IF t = QueryTarget THEN s.listening ELSE r.keyOf[t] # None

TokenTrue(h, d, r, t) ==
  /\ r.token[t] <= d.seen
  /\ \A k \in Key :
       k \in Known(r, d, t) <=> Worth(h, t, KeyAsked(r, t), k, r.token[t]) # 0

TargetTrue(h, d, r, q, w, t) ==
  /\ TokenTrue(h, d, r, t)
  /\ r.open => Waiting(r, t) \/ Settled(h, d, r, q, w, t)

Undisturbed == faults["deny"] = 0 /\ faults["filter"] = 0

ClientTrue ==
  /\ Past(backend) /\ DiskTrue(backend, disk)
  /\ ViewTrue(backend, disk, target, at, view)
  /\ view.listening => target.token = remote.token[QueryTarget]

StreamHolds(h, d, s, r, q, w) ==
  /\ KeysMatch(h, r, w)
  /\ WireTrue(h, d.seen, Updates(r), q)
  /\ UpdatesTrue(h, Updates(r)) /\ ~r.aggregator.mismatch
  /\ \A t \in Target : Wanted(r, s, t) => TargetTrue(h, d, r, q, w, t)

StreamTrue == StreamHolds(backend, disk, view, remote, wire, watched)

Truth == ClientTrue /\ StreamTrue

LEMMA AsWanted ==
  ASSUME NEW r
  PROVE  \A t \in Target : /\ Wanted(r, view, t) <=> Listened(r, t)
                           /\ Known(r, disk, t) = RemoteKeys(r, t)
                           /\ Wanted(r, view, t) => Keyed(r, t)
<1>1. \A t \in Target : t = QueryTarget \/ (t \in LimboTarget /\ t # QueryTarget)
  BY Targets
<1> QED
  BY <1>1, KeysOf DEF Wanted, Known, Keyed, Listened

(***************************************************************************)
(* One more version.                                                       *)
(***************************************************************************)
LEMMA WorthExtended ==
  ASSUME NEW h, NEW n, Extends(h, n), NEW t, NEW c, NEW k \in Key,
         NEW v \in 0 .. Len(h)
  PROVE  Worth(n, t, c, k, v) = Worth(h, t, c, k, v)
BY DEF Extends, Worth

LEMMA FromServerExtended ==
  ASSUME NEW h, Past(h), NEW n, Extends(h, n), NEW k \in Key, NEW doc,
         FromServer(h, k, doc)
  PROVE  FromServer(n, k, doc)
<1>1. /\ doc.version \in 1 .. Len(h) /\ doc = h[doc.version][k]
      /\ Len(n) = Len(h) + 1 /\ Len(h) \in Nat
  BY PastLength DEF FromServer, Extends
<1>2. doc.version # 0 /\ doc.version \in 0 .. Len(h) /\ doc.version \in 1 .. Len(n)
  BY <1>1
<1>3. At(n, k, doc.version) = At(h, k, doc.version)
  BY <1>2 DEF Extends
<1> QED
  BY <1>1, <1>2, <1>3 DEF FromServer, At

LEMMA SettledExtended ==
  ASSUME NEW h, NEW n, Extends(h, n), NEW d, NEW r, NEW q, NEW w, NEW t,
         Settled(h, d, r, q, w, t), w[t].version \in 0 .. Len(h),
         \A i \in DOMAIN q : q[i].type = "snapshot" => q[i].version \in 0 .. Len(h),
         Len(q) \in Nat, DOMAIN q = 1 .. Len(q)
  PROVE  Settled(n, d, r, q, w, t)
<1>1. PICK lo \in 0 .. Len(q) : Followed(h, d, r, q, w, t, lo)
  BY DEF Settled
<1>2. ASSUME NEW k \in Key, NEW b,
             Tracks(h, q, t, KeyAsked(r, t), k, lo, b, w[t].version)
      PROVE  Tracks(n, q, t, KeyAsked(r, t), k, lo, b, w[t].version)
  <2> DEFINE c == KeyAsked(r, t)
  <2>1. ASSUME NEW i \in lo + 1 .. Len(q)
        PROVE  Step(n, t, c, k, q[i], b[i - 1], b[i])
    <3>1. Step(h, t, c, k, q[i], b[i - 1], b[i]) /\ i \in DOMAIN q
      BY <1>2 DEF Tracks
    <3>2. q[i].type = "snapshot" =>
            Worth(n, t, c, k, q[i].version) = Worth(h, t, c, k, q[i].version)
      BY <3>1, WorthExtended
    <3> QED
      BY <3>1, <3>2 DEF Step
  <2>2. b[Len(q)] = Worth(n, t, c, k, w[t].version)
    BY <1>2, WorthExtended DEF Tracks
  <2> QED
    BY <2>1, <2>2 DEF Tracks
<1>3. Followed(n, d, r, q, w, t, lo)
  BY <1>1, <1>2 DEF Followed
<1> QED
  BY <1>3 DEF Settled

LEMMA DiskExtended ==
  ASSUME NEW h, Past(h), NEW n, Extends(h, n), NEW d \in Disk, DiskTrue(h, d)
  PROVE  /\ DiskTrue(n, d)
         /\ \A v \in 0 .. Len(h) : KeysAt(h, d, v) => KeysAt(n, d, v)
         /\ \A k \in Key : \A v \in 0 .. Len(h) :
              NeverAgain(h, d.cache[k], k, v) => NeverAgain(n, d.cache[k], k, v)
         /\ \A v \in 0 .. Len(h) : \A free :
              Leaves(h, d, v, free) => Leaves(n, d, v, free)
<1>1. /\ Len(h) \in Nat /\ Len(n) = Len(h) + 1 /\ Past(n)
      /\ d.seen \in Nat /\ d.token \in Nat /\ d.seen <= Len(h) /\ d.token <= d.seen
      /\ d.token \in 0 .. Len(h) /\ \A u \in 0 .. d.seen : u \in 0 .. Len(h)
  BY PastLength, EntryFields DEF Extends, DiskTrue, Resumes
<1>2. \A k \in Key : \A v \in 0 .. Len(h) : At(n, k, v) = At(h, k, v)
  BY DEF Extends
<1>3. CacheTrue(n, d)
  <2>1. ASSUME NEW k \in Key
        PROVE  \E u \in 0 .. d.seen : Reflects(n, d.cache[k], k, u)
    <3>1. PICK u \in 0 .. d.seen : Reflects(h, d.cache[k], k, u)
      BY DEF DiskTrue, CacheTrue
    <3>2. Reflects(n, d.cache[k], k, u)
      BY <1>1, <1>2, <3>1 DEF Reflects
    <3> QED
      BY <3>2
  <2> QED
    BY <2>1 DEF DiskTrue, CacheTrue
<1>4. ASSUME NEW v \in 0 .. Len(h), KeysAt(h, d, v)
      PROVE  KeysAt(n, d, v)
  BY <1>2, <1>4 DEF KeysAt
<1>5. ASSUME NEW k \in Key, NEW v \in 0 .. Len(h), NeverAgain(h, d.cache[k], k, v)
      PROVE  NeverAgain(n, d.cache[k], k, v)
  <2> SUFFICES ASSUME NEW u \in v .. Len(n)
               PROVE  At(n, k, u).version # d.cache[k].version
    BY DEF NeverAgain
  <2>1. CASE u \in v .. Len(h)
    <3>1. u \in 0 .. Len(h)
      BY <1>1, <2>1
    <3> QED
      BY <1>2, <1>5, <2>1, <3>1 DEF NeverAgain
  <2>2. CASE u = Len(n)
    <3>1. Len(h) \in v .. Len(h) /\ Len(h) \in 0 .. Len(h)
      BY <1>1
    <3>2. At(h, k, Len(h)).version # d.cache[k].version
      BY <1>5, <3>1 DEF NeverAgain
    <3>3. PICK x \in 0 .. d.seen : Reflects(h, d.cache[k], k, x)
      BY DEF DiskTrue, CacheTrue
    <3>4. d.cache[k].version <= x /\ d.cache[k].version \in Nat
      BY <3>3, EntryFields DEF Reflects
    <3>5. \/ At(n, k, Len(n)) = At(h, k, Len(h))
          \/ At(n, k, Len(n)).version = Len(n)
      BY DEF Extends
    <3> QED
      BY <1>1, <2>2, <3>2, <3>4, <3>5
  <2> QED
    BY <1>1, <2>1, <2>2
<1>6. ASSUME NEW v \in 0 .. Len(h), NEW free, Leaves(h, d, v, free)
      PROVE  Leaves(n, d, v, free)
  BY <1>5, <1>6 DEF Leaves, InCache
<1>7. DiskTrue(n, d)
  BY <1>1, <1>3, <1>4, <1>6 DEF DiskTrue, Resumes
<1> QED
  BY <1>4, <1>5, <1>6, <1>7

LEMMA ViewExtended ==
  ASSUME NEW h, Past(h), NEW n, Extends(h, n), NEW d \in Disk, DiskTrue(h, d),
         NEW g, NEW a, NEW s, s.listening => g.token \in Nat, ViewTrue(h, d, g, a, s)
  PROVE  ViewTrue(n, d, g, a, s)
<1> SUFFICES ASSUME s.listening
             PROVE  Resumes(n, d, g) /\ DocsTrue(n, d, g.token, s.docs)
  BY DEF ViewTrue
<1>1. /\ g.token <= d.seen /\ KeysAt(h, d, g.token)
      /\ Leaves(h, d, g.token, g.limboFree) /\ DocsTrue(h, d, g.token, s.docs)
  BY DEF ViewTrue, Resumes
<1>2. g.token \in 0 .. Len(h)
  BY <1>1, PastLength, EntryFields DEF DiskTrue
<1> QED
  BY <1>1, <1>2, DiskExtended DEF Resumes, DocsTrue, InCache

LEMMA ListeningType ==
  ASSUME WatchInv
  PROVE  /\ ClientTypes /\ disk \in Disk /\ remote \in RemoteState
         /\ wire \in Seq(Message) /\ ServerTypes
         /\ faults \in [Fault -> Nat] /\ Fit(remote)
         /\ target.token \in Nat /\ disk.seen \in Nat
BY TypeParts, ClientDisk, ClientFields, Versions DEF WatchInv

LEMMA WireExtended ==
  ASSUME NEW h, Past(h), NEW n, Extends(h, n), NEW seen, NEW u, NEW q \in Seq(Message),
         WireTrue(h, seen, u, q), UpdatesTrue(h, u)
  PROVE  WireTrue(n, seen, u, q) /\ UpdatesTrue(n, u)
<1>1. \A v \in 1 .. Len(h) : v \in 1 .. Len(n)
  BY PastLength DEF Extends
<1>2. ASSUME NEW i \in DOMAIN q
      PROVE  Message1True(n, seen, u, q[i])
  <2>1. Message1True(h, seen, u, q[i]) /\ q[i] \in Message
    BY Ends DEF WireTrue
  <2>2. q[i].type = "doc" => q[i].key \in Key
    BY <2>1, MessageParts
  <2> QED
    BY <1>1, <2>1, <2>2, FromServerExtended DEF Message1True
<1>3. UpdatesTrue(n, u)
  BY FromServerExtended DEF UpdatesTrue
<1> QED
  BY <1>2, <1>3 DEF WireTrue

LEMMA TrueServerWrite ==
  ASSUME WatchInv, Truth, NEW key \in Key, NEW kind \in Kind, ServerWrite(key, kind)
  PROVE  Truth'
<1> DEFINE h == backend
           n == backend'
<1>1. /\ ClientTrue /\ StreamTrue
      /\ view' = view /\ target' = target /\ disk' = disk /\ at' = at
      /\ remote' = remote /\ wire' = wire /\ watched' = watched
  BY DEF Truth, ServerWrite
<1>2. Past(h) /\ Len(h) \in Nat
  BY <1>1, PastLength DEF ClientTrue
<1>3. Extends(h, n)
  BY <1>2, Written DEF ServerWrite, Latest
<1>4. Past(n) /\ Len(n) = Len(h) + 1
  BY <1>3 DEF Extends
<1>5. /\ disk \in Disk /\ target.token \in Nat /\ disk.seen \in Nat
      /\ wire \in Seq(Message) /\ remote \in RemoteState
  BY ListeningType
<1>6. ClientTrue'
  <2>1. DiskTrue(n, disk) /\ ViewTrue(n, disk, target, at, view)
    BY <1>1, <1>2, <1>3, <1>5, DiskExtended, ViewExtended DEF ClientTrue
  <2> QED
    BY <1>1, <1>4, <2>1 DEF ClientTrue
<1>7. WireTrue(n, disk.seen, Updates(remote), wire) /\ UpdatesTrue(n, Updates(remote))
  BY <1>1, <1>2, <1>3, <1>5, WireExtended DEF StreamTrue, StreamHolds
<1>8. KeysMatch(n, remote, watched)
  <2>1. \A v \in 0 .. Len(h) : v \in 0 .. Len(n)
    BY <1>2, <1>4
  <2> QED
    BY <1>1, <2>1 DEF StreamTrue, StreamHolds, KeysMatch
<1>9. ASSUME NEW t \in Target, Wanted(remote, view, t)
      PROVE  TargetTrue(n, disk, remote, wire, watched, t)
  <2>1. TargetTrue(h, disk, remote, wire, watched, t)
    BY <1>1, <1>9 DEF StreamTrue, StreamHolds
  <2>2. TokenTrue(n, disk, remote, t)
    <3>1. remote.token[t] \in 0 .. Len(h)
      <4>1. remote.token[t] <= disk.seen /\ disk.seen <= Len(h)
        BY <1>1, <2>1 DEF TargetTrue, TokenTrue, ClientTrue, DiskTrue
      <4>2. remote.token[t] \in Nat
        BY <1>5, RemoteFields, Versions
      <4> QED
        BY <1>2, <1>5, <4>1, <4>2
    <3> QED
      BY <1>3, <2>1, <3>1, WorthExtended DEF TargetTrue, TokenTrue
  <2>3. ASSUME Settled(h, disk, remote, wire, watched, t)
        PROVE  Settled(n, disk, remote, wire, watched, t)
    <3>1. \A i \in DOMAIN wire : wire[i].type = "snapshot" => wire[i].version \in 0 .. Len(h)
      BY <1>1, <1>2 DEF StreamTrue, StreamHolds, WireTrue, Message1True
    <3>2. watched[t].version \in 0 .. Len(h)
      BY <1>1, <2>3 DEF StreamTrue, StreamHolds, KeysMatch, Settled
    <3> QED
      BY <1>3, <1>5, <2>3, <3>1, <3>2, Ends, SettledExtended
  <2> QED
    BY <2>1, <2>2, <2>3 DEF TargetTrue
<1>10. StreamTrue'
  BY <1>1, <1>7, <1>8, <1>9 DEF StreamTrue, StreamHolds
<1> QED
  BY <1>6, <1>10 DEF Truth

-----------------------------------------------------------------------------
(***************************************************************************)
(* Steps that leave a target alone, and more requests.                     *)
(***************************************************************************)
SameTarget(r, p, d, t) ==
  /\ p.open = r.open /\ p.token[t] = r.token[t]
  /\ KeyAsked(p, t) = KeyAsked(r, t) /\ Known(p, d, t) = Known(r, d, t)
  /\ \A k \in Key : /\ Changes(p, t)[k] = Changes(r, t)[k]
                    /\ Updates(p)[k] = Updates(r)[k]
  /\ Waiting(r, t) => Waiting(p, t)
  /\ NotAsked(r, t) => NotAsked(p, t)

LEMMA TargetCarried ==
  ASSUME NEW h, NEW d, NEW r, NEW p, NEW q, NEW w, NEW t,
         TargetTrue(h, d, r, q, w, t), SameTarget(r, p, d, t)
  PROVE  TargetTrue(h, d, p, q, w, t)
<1>1. TokenTrue(h, d, p, t)
  BY DEF TargetTrue, TokenTrue, SameTarget
<1>2. ASSUME Settled(h, d, r, q, w, t)
      PROVE  Settled(h, d, p, q, w, t)
  <2>1. NotAsked(p, t) /\ KeyAsked(p, t) = KeyAsked(r, t)
    BY <1>2 DEF Settled, SameTarget
  <2>2. ASSUME NEW k \in Key, NEW x
        PROVE  /\ Holds(r, d, t, k, x) => Holds(p, d, t, k, x)
               /\ Knows(r, d, t, k, x) => Knows(p, d, t, k, x)
    BY DEF SameTarget, Holds, Knows, Collected
  <2> QED
    BY <1>2, <2>1, <2>2, SettledCarried
<1> QED
  BY <1>1, <1>2 DEF TargetTrue, SameTarget

LEMMA AskedMore ==
  ASSUME NEW r \in RemoteState, NEW p, NEW m \in Request,
         p.requests = Append(r.requests, m), NEW t \in Target
  PROVE  /\ m.target # t /\ WatchRequest(p, t) = WatchRequest(r, t) /\ Waiting(r, t)
              => Waiting(p, t)
         /\ m.target # t /\ NotAsked(r, t) => NotAsked(p, t)
         /\ m = WatchRequest(p, t) => Waiting(p, t)
         /\ AskedFor(r, t) /\ KeyAsked(p, t) = KeyAsked(r, t)
            /\ (m.type = "watch" /\ m.target = t => m.key = KeyAsked(p, t))
              => AskedFor(p, t)
         /\ NeverAsked(r, t) /\ (m.type = "watch" => m.target # t) => NeverAsked(p, t)
<1> DEFINE n == Len(r.requests)
<1>1. /\ r.requests \in Seq(Request) /\ n \in Nat /\ DOMAIN r.requests = 1 .. n
      /\ DOMAIN p.requests = 1 .. n + 1 /\ p.requests[n + 1] = m
      /\ \A i \in 1 .. n : p.requests[i] = r.requests[i]
  BY RemoteFields, Ends, Appended
<1>2. /\ n + 1 \in 1 .. n + 1 /\ \A i \in 1 .. n : i \in 1 .. n + 1
      /\ \A i \in 1 .. n + 1 : i \in 1 .. n \/ i = n + 1
  BY <1>1
<1> HIDE DEF n
<1>3. ASSUME m.target # t, WatchRequest(p, t) = WatchRequest(r, t), Waiting(r, t)
      PROVE  Waiting(p, t)
  <2>1. PICK i \in DOMAIN r.requests :
          /\ r.requests[i] = WatchRequest(r, t)
          /\ \A j \in DOMAIN r.requests : j > i => r.requests[j].target # t
    BY <1>3 DEF Waiting
  <2>2. i \in DOMAIN p.requests /\ p.requests[i] = WatchRequest(p, t)
    BY <1>1, <1>2, <1>3, <2>1
  <2>3. \A j \in DOMAIN p.requests : j > i => p.requests[j].target # t
    BY <1>1, <1>2, <1>3, <2>1
  <2> QED
    BY <2>2, <2>3 DEF Waiting
<1>4. m.target # t /\ NotAsked(r, t) => NotAsked(p, t)
  BY <1>1, <1>2 DEF NotAsked
<1>5. ASSUME m = WatchRequest(p, t)
      PROVE  Waiting(p, t)
  <2>1. \A j \in DOMAIN p.requests : ~(j > n + 1)
    BY <1>1
  <2> QED
    BY <1>1, <1>2, <1>5, <2>1 DEF Waiting
<1>6. ASSUME AskedFor(r, t), KeyAsked(p, t) = KeyAsked(r, t),
             m.type = "watch" /\ m.target = t => m.key = KeyAsked(p, t)
      PROVE  AskedFor(p, t)
  BY <1>1, <1>2, <1>6 DEF AskedFor
<1>7. NeverAsked(r, t) /\ (m.type = "watch" => m.target # t) => NeverAsked(p, t)
  BY <1>1, <1>2 DEF NeverAsked
<1> QED
  BY <1>3, <1>4, <1>5, <1>6, <1>7

LEMMA TokenedRest ==
  ASSUME NEW r \in RemoteState, NEW n \in 0 .. MaxVersion, NEW p, p = Tokened(r, n)
  PROVE  /\ p \in RemoteState /\ p.open = r.open /\ p.requests = r.requests
         /\ p.aggregator = r.aggregator /\ p.keyOf = r.keyOf
         /\ p.received = r.received /\ p.nextId = r.nextId
         /\ p.token[QueryTarget] = n
         /\ \A t \in LimboTarget : p.token[t] = r.token[t]
BY Targets DEF Tokened, RemoteState

LEMMA KeysWorth ==
  ASSUME NEW h, Past(h), NEW d \in Disk, NEW v \in 0 .. Len(h), KeysAt(h, d, v),
         NEW k \in Key
  PROVE  /\ k \in d.keys <=> Worth(h, QueryTarget, None, k, v) # 0
         /\ Worth(h, QueryTarget, None, k, v) \in Nat
         /\ Worth(h, QueryTarget, None, k, v) <= d.cache[k].version
<1>1. /\ Worth(h, QueryTarget, None, k, v) \in Nat
      /\ Worth(h, QueryTarget, None, k, v) # 0 <=> At(h, k, v).kind = "in"
  <2>0. ASSUME NEW t, NEW c
        PROVE  /\ Worth(h, t, c, k, v) \in Nat
               /\ Worth(h, t, c, k, v) # 0 <=>
                    c \in {k, None} /\ InTarget(t, At(h, k, v))
    BY WorthIs
  <2>1. /\ Worth(h, QueryTarget, None, k, v) \in Nat
        /\ Worth(h, QueryTarget, None, k, v) # 0 <=>
             None \in {k, None} /\ InTarget(QueryTarget, At(h, k, v))
    BY <2>0
  <2>2. InTarget(QueryTarget, At(h, k, v)) <=> At(h, k, v).kind = "in"
    BY DEF InTarget
  <2> QED
    BY <2>1, <2>2
<1>2. /\ k \in d.keys <=> At(h, k, v).kind = "in"
      /\ k \in d.keys => d.cache[k].version >= At(h, k, v).version
  BY DEF KeysAt
<1>3. d.cache[k].version \in Nat /\ At(h, k, v).version \in Nat
  BY EntryFields, PastDocument
<1>4. Worth(h, QueryTarget, None, k, v) \in {0, At(h, k, v).version}
  BY DEF Worth
<1> QED
  BY <1>1, <1>2, <1>3, <1>4

-----------------------------------------------------------------------------
(***************************************************************************)
(* Listening to the query.                                                 *)
(***************************************************************************)
LEMMA TrueListen ==
  ASSUME WatchInv, Truth, Listen
  PROVE  Truth'
<1> DEFINE h == backend
           r == remote
           o == Tokened(r, disk.token)
           p == remote'
           m == WatchRequest(o, QueryTarget)
<1>1. /\ ClientTrue /\ StreamTrue
      /\ view' = [NewView EXCEPT !.listening = TRUE, !.docs = ExecuteQuery]
      /\ target' = [token |-> disk.token, limboFree |-> disk.limboFree]
      /\ p = SendWatchRequest(o, QueryTarget)
      /\ at' = 0 /\ backend' = backend /\ watched' = watched /\ wire' = wire
      /\ disk' = disk
  BY DEF Truth, Listen, Tokened
<1>2. /\ disk \in Disk /\ r \in RemoteState /\ disk.seen \in Nat
      /\ disk.token \in 0 .. MaxVersion /\ disk.token \in Nat
      /\ QueryTarget \in Target
  BY ListeningType, EntryFields, Targets
<1>3. Past(h) /\ DiskTrue(h, disk) /\ Len(h) \in Nat
  BY <1>1, PastLength DEF ClientTrue
<1>4. /\ disk.token <= disk.seen /\ disk.seen <= Len(h)
      /\ KeysAt(h, disk, disk.token)
      /\ Leaves(h, disk, disk.token, disk.limboFree)
      /\ disk.token \in 0 .. Len(h)
  BY <1>2, <1>3 DEF DiskTrue, Resumes
<1>5. /\ view'.listening /\ view'.docs = ExecuteQuery /\ ~view'.current /\ ~view'.synced
      /\ target'.token = disk.token /\ target'.limboFree = disk.limboFree
  BY <1>1 DEF NewView
<1>6. /\ o \in RemoteState /\ o.open = r.open /\ o.requests = r.requests
      /\ o.aggregator = r.aggregator /\ o.keyOf = r.keyOf
      /\ o.received = r.received /\ o.nextId = r.nextId
      /\ o.token[QueryTarget] = disk.token
      /\ \A t \in LimboTarget : o.token[t] = r.token[t]
  BY <1>2, TokenedRest
<1> HIDE DEF o
<1>7. /\ m \in Request /\ m.target = QueryTarget /\ m.key = None
  BY <1>2, <1>6, Requests DEF WatchRequest
<1> HIDE DEF m
<1>8. /\ p \in RemoteState /\ p.open = r.open /\ p.keyOf = r.keyOf
      /\ p.received = r.received /\ p.nextId = r.nextId /\ p.token = o.token
      /\ p.aggregator.mismatch = r.aggregator.mismatch
      /\ \A t \in Target : \A k \in Key :
           Changes(p, t)[k] = Changes(r, t)[k] /\ Updates(p)[k] = Updates(r)[k]
      /\ ~r.open => p.requests = r.requests
      /\ r.open => p.requests = Append(r.requests, m)
  <2>1. CASE ~r.open
    <3>1. p = o
      BY <1>1, <1>6, <2>1, SendsAre
    <3> QED
      BY <1>6, <2>1, <3>1 DEF Changes, Updates
  <2>2. CASE r.open
    <3>1. p = With(o, QueryTarget, m)
      BY <1>1, <1>6, <2>2, SendsAre DEF m
    <3>2. Adds(o, QueryTarget, m, p)
      BY <1>2, <1>6, <1>7, <3>1, Sent
    <3>3. ASSUME NEW t \in Target
          PROVE  Changes(p, t) = Changes(r, t)
      <4>1. p.aggregator.states[t] =
              [o.aggregator.states[t] EXCEPT !.pending = Pending(p, t)]
        BY <3>2 DEF Adds
      <4>2. o.aggregator.states[t] \in TargetState
        BY <1>6, RemoteFields
      <4>3. Changes(p, t) = Changes(o, t)
        BY <4>1, <4>2 DEF Changes, TargetState
      <4> QED
        BY <1>6, <4>3 DEF Changes
    <3> QED
      BY <1>6, <2>2, <3>2, <3>3 DEF Adds, Updates
  <2> QED
    BY <2>1, <2>2
<1> HIDE DEF p
<1>9. DocsTrue(h, disk, disk.token, ExecuteQuery)
  <2>1. ExecuteQuery \subseteq InCache(disk)
    BY DEF ExecuteQuery, FullScan, InCache
  <2>2. ASSUME NEW k \in InCache(disk) \ ExecuteQuery
        PROVE  NeverAgain(h, disk.cache[k], k, disk.token)
    <3>1. /\ k \in InCache(disk) \ disk.keys /\ disk.limboFree # 0
          /\ ~(disk.cache[k].read > disk.limboFree) /\ k \in Key
      BY DEF FullScan, ExecuteQuery, InCache
    <3>2. disk.cache[k].read \in Nat /\ disk.limboFree \in Nat
      BY <1>2, <3>1, EntryFields
    <3> QED
      BY <1>4, <3>1, <3>2 DEF Leaves
  <2> QED
    BY <2>1, <2>2 DEF DocsTrue
<1>10. ClientTrue'
  <2>1. ViewTrue(h, disk, target', at', view')
    BY <1>4, <1>5, <1>9 DEF ViewTrue, Resumes
  <2> QED
    BY <1>1, <1>3, <1>5, <1>6, <1>8, <2>1 DEF ClientTrue, p
<1>11. ASSUME NEW t \in Target
       PROVE  /\ KeyAsked(p, t) = KeyAsked(r, t) /\ Known(p, disk, t) = Known(r, disk, t)
              /\ Keyed(p, t) <=> Keyed(r, t)
              /\ AskedFor(r, t) => AskedFor(p, t)
              /\ t # QueryTarget =>
                   /\ WatchRequest(p, t) = WatchRequest(r, t)
                   /\ Waiting(r, t) => Waiting(p, t)
                   /\ NotAsked(r, t) => NotAsked(p, t)
                   /\ NeverAsked(r, t) => NeverAsked(p, t)
  <2>1. /\ KeyAsked(p, t) = KeyAsked(r, t) /\ Known(p, disk, t) = Known(r, disk, t)
        /\ Keyed(p, t) <=> Keyed(r, t)
    BY <1>8 DEF KeyAsked, Known, LimboKeys, Keyed
  <2>2. t # QueryTarget => WatchRequest(p, t) = WatchRequest(r, t)
    BY <1>6, <1>8, Targets DEF WatchRequest
  <2>3. m.target = t => m.key = KeyAsked(p, t)
    BY <1>7 DEF KeyAsked
  <2>4. CASE ~r.open
    BY <1>8, <2>1, <2>2, <2>4 DEF AskedFor, Waiting, NotAsked, NeverAsked
  <2>5. CASE r.open
    BY <1>2, <1>7, <1>8, <2>1, <2>2, <2>3, <2>5, AskedMore
  <2> QED
    BY <2>1, <2>2, <2>4, <2>5
<1>12. KeysMatch(h, p, watched)
  BY <1>1, <1>8, <1>11, Targets DEF StreamTrue, StreamHolds, KeysMatch
<1>13. WireTrue(h, disk.seen, Updates(p), wire) /\ UpdatesTrue(h, Updates(p))
  <2>1. \A i \in DOMAIN wire : wire[i].type = "doc" => wire[i].key \in Key
    BY ListeningType, Ends, MessageParts
  <2> QED
    BY <1>1, <1>8, <2>1, Targets DEF StreamTrue, StreamHolds, WireTrue, Message1True, UpdatesTrue
<1>14. ASSUME NEW t \in Target, Wanted(p, view', t)
       PROVE  TargetTrue(h, disk, p, wire, watched, t)
  <2>1. CASE t = QueryTarget
    <3>1. p.token[t] = disk.token /\ KeyAsked(p, t) = None /\ Known(p, disk, t) = disk.keys
      BY <1>6, <1>8, <2>1 DEF KeyAsked, Known
    <3>2. TokenTrue(h, disk, p, t)
      BY <1>2, <1>3, <1>4, <2>1, <3>1, KeysWorth DEF TokenTrue
    <3>3. p.open => Waiting(p, t)
      <4> SUFFICES ASSUME p.open
                   PROVE  Waiting(p, t)
        OBVIOUS
      <4>1. m = WatchRequest(p, t)
        BY <1>8, <2>1 DEF m, WatchRequest
      <4> QED
        BY <1>2, <1>7, <1>8, <4>1, AskedMore
    <3> QED
      BY <3>2, <3>3 DEF TargetTrue
  <2>2. CASE t # QueryTarget
    <3>1. t \in LimboTarget /\ Wanted(r, view, t)
      BY <1>8, <1>14, <2>2, Targets DEF Wanted
    <3>2. SameTarget(r, p, disk, t)
      BY <1>6, <1>8, <1>11, <2>2, <3>1 DEF SameTarget
    <3> QED
      BY <1>1, <3>1, <3>2, TargetCarried DEF StreamTrue, StreamHolds
  <2> QED
    BY <2>1, <2>2
<1>15. StreamTrue'
  BY <1>1, <1>8, <1>12, <1>13, <1>14 DEF StreamTrue, StreamHolds, p
<1> QED
  BY <1>10, <1>15 DEF Truth

-----------------------------------------------------------------------------
(***************************************************************************)
(* The stream opens and closes, the connection is given up, the app ends.  *)
(***************************************************************************)
LEMMA TrueStreamOpen ==
  ASSUME WatchInv, Truth, OnWatchStreamOpen
  PROVE  Truth'
<1>1. PICK order \in SetToSeqs(ListenedTargets) :
        remote' = [remote EXCEPT
                     !.open = TRUE,
                     !.requests = [i \in DOMAIN order |->
                                     WatchRequest(remote, order[i])],
                     !.aggregator.states =
                       [t \in Target |->
                          IF t \in ListenedTargets
                          THEN RecordPendingTargetRequest(@[t]) ELSE @[t]]]
  BY DEF OnWatchStreamOpen
<1> DEFINE r == remote
           p == remote'
           q == Asks(r, order)
           T == ListenedTargets
<1>2. /\ ~r.open /\ backend' = backend /\ watched' = watched /\ wire' = wire
      /\ view' = view /\ target' = target /\ disk' = disk /\ at' = at
      /\ p = Asked(r, T, q) /\ T \in SUBSET Target
      /\ \A t \in Target : t \in T <=> Listened(r, t)
      /\ ClientTrue /\ StreamTrue
  BY <1>1 DEF OnWatchStreamOpen, Asked, Asks, ListenedTargets, Truth
<1>3. r \in RemoteState /\ wire = <<>> /\ DOMAIN watched = {}
  BY <1>2, Awaiting, ListeningType
<1> HIDE DEF q
<1>4. ASSUME NEW t \in Target
      PROVE  /\ q \in Seq(Request)
             /\ Count(q, RequestTo(t)) = IF t \in T THEN 1 ELSE 0
  BY <1>2, <1>3, AskedOnce DEF q
<1>5. q \in Seq(Request)
  BY <1>4, Targets
<1>6. AskedFrom(r, T, q, p)
  BY <1>2, <1>3, <1>5, Asking
<1>7. /\ p \in RemoteState /\ p.open /\ p.requests = q
      /\ p.keyOf = r.keyOf /\ p.received = r.received /\ p.nextId = r.nextId
      /\ p.token = r.token /\ Updates(p) = Updates(r)
      /\ p.aggregator.mismatch = r.aggregator.mismatch
  BY <1>6 DEF AskedFrom, Updates
<1> HIDE DEF p
<1>8. ASSUME NEW i \in DOMAIN q
      PROVE  q[i].target \in T /\ q[i] = WatchRequest(r, q[i].target)
  <2>1. i \in DOMAIN order /\ q[i] = WatchRequest(r, order[i])
    BY DEF q, Asks
  <2>2. q[i].target = order[i]
    BY <2>1 DEF WatchRequest
  <2>3. q[i].target \in T
    <3>1. q[i] \in Request
      BY <1>5, Ends
    <3>2. q[i].target \in Target
      BY <3>1 DEF Request
    <3>3. q[i] \in RequestTo(q[i].target) /\ i \in Places(q, RequestTo(q[i].target))
      BY <3>1 DEF RequestTo, Places
    <3>4. Count(q, RequestTo(q[i].target)) # 0
      BY <1>5, <3>1, <3>3, CountNone
    <3> QED
      BY <1>4, <3>2, <3>4
  <2> QED
    BY <2>1, <2>2, <2>3
<1>9. ASSUME NEW t \in Target
      PROVE  /\ KeyAsked(p, t) = KeyAsked(r, t) /\ Known(p, disk, t) = Known(r, disk, t)
             /\ Keyed(p, t) <=> Keyed(r, t)
             /\ Wanted(p, view, t) <=> Listened(r, t)
             /\ WatchRequest(p, t) = WatchRequest(r, t)
  <2>1. Wanted(r, view, t) <=> Listened(r, t)
    BY AsWanted
  <2> QED
    BY <1>7, <2>1 DEF KeyAsked, Known, LimboKeys, Keyed, Wanted, WatchRequest
<1>10. KeysMatch(backend, p, watched)
  <2>1. \A t \in Target : AskedFor(p, t)
    BY <1>7, <1>8, <1>9 DEF AskedFor, WatchRequest, KeyAsked
  <2>2. \A t \in LimboTarget : t >= p.nextId => NeverAsked(p, t)
    <3> SUFFICES ASSUME NEW t \in LimboTarget, t >= p.nextId
                 PROVE  t \notin T
      BY <1>7, <1>8 DEF NeverAsked
    <3>1. r.keyOf[t] = None
      BY <1>7, ListeningType DEF Fit, LimboFits
    <3> QED
      BY <1>2, <3>1, KeysOf, Targets
  <2> QED
    BY <1>3, <2>1, <2>2 DEF KeysMatch
<1>11. ASSUME NEW t \in Target, Wanted(p, view, t)
       PROVE  TargetTrue(backend, disk, p, wire, watched, t)
  <2>1. t \in T /\ Wanted(r, view, t)
    BY <1>2, <1>9, <1>11, AsWanted
  <2>2. TokenTrue(backend, disk, p, t)
    BY <1>2, <1>7, <1>9, <2>1 DEF StreamTrue, StreamHolds, TargetTrue, TokenTrue
  <2>3. Waiting(p, t)
    <3>1. IsFiniteSet(Places(q, RequestTo(t))) /\ Cardinality(Places(q, RequestTo(t))) = 1
      BY <1>4, <1>5, <2>1, PlacesFinite DEF Count
    <3>2. PICK i : Places(q, RequestTo(t)) = {i}
      BY <3>1, FS_Singleton
    <3>3. \A j \in DOMAIN q : j # i => q[j] \notin RequestTo(t)
      BY <3>2 DEF Places
    <3>4. \A j \in DOMAIN q : q[j] \in Request
      BY <1>5, Ends
    <3>5. i \in DOMAIN q /\ q[i].target = t /\ DOMAIN q = 1 .. Len(q)
      BY <1>5, <3>2, Ends DEF Places, RequestTo
    <3>6. \A j \in DOMAIN q : j > i => q[j].target # t
      BY <3>3, <3>4, <3>5 DEF RequestTo
    <3> QED
      BY <1>7, <1>8, <1>9, <3>5, <3>6 DEF Waiting
  <2> QED
    BY <2>2, <2>3 DEF TargetTrue
<1>12. ClientTrue'
  BY <1>2, <1>7 DEF ClientTrue, p
<1>13. StreamTrue'
  BY <1>2, <1>7, <1>10, <1>11 DEF StreamTrue, StreamHolds, p
<1> QED
  BY <1>12, <1>13 DEF Truth

(***************************************************************************)
(* A closed stream has nothing that could be wrong.                        *)
(***************************************************************************)
LEMMA ClosedTrue ==
  ASSUME NEW h, NEW n, NEW p, p.requests = <<>>, p.aggregator = NewAggregator,
         NEW q, q = <<>>, NEW w, w = <<>>
  PROVE  /\ KeysMatch(h, p, w) /\ WireTrue(h, n, Updates(p), q)
         /\ UpdatesTrue(h, Updates(p)) /\ ~p.aggregator.mismatch
<1>1. DOMAIN q = {} /\ DOMAIN w = {} /\ DOMAIN p.requests = {}
  OBVIOUS
<1>2. KeysMatch(h, p, w)
  BY <1>1 DEF KeysMatch, AskedFor, NeverAsked
<1>3. UpdatesTrue(h, Updates(p))
  BY NewStates DEF UpdatesTrue, Updates
<1>4. WireTrue(h, n, Updates(p), q)
  BY <1>1 DEF WireTrue
<1>5. ~p.aggregator.mismatch
  BY DEF NewAggregator
<1> QED
  BY <1>2, <1>3, <1>4, <1>5

LEMMA TrueStreamClose ==
  ASSUME WatchInv, Truth, OnWatchStreamClose
  PROVE  Truth'
<1>1. /\ ClientTrue /\ StreamTrue
      /\ remote' = Closed(remote) /\ wire' = <<>> /\ watched' = <<>>
      /\ backend' = backend /\ view' = view /\ target' = target /\ disk' = disk
      /\ at' = at
  BY DEF Truth, OnWatchStreamClose
<1>2. /\ remote'.aggregator = NewAggregator /\ remote'.requests = <<>>
      /\ remote'.keyOf = remote.keyOf /\ remote'.received = remote.received
      /\ remote'.token = remote.token /\ ~remote'.open
  <2>1. remote' = [remote EXCEPT !.open = FALSE, !.requests = <<>>,
                                 !.aggregator = NewAggregator]
    BY <1>1 DEF Closed
  <2> QED
    BY <2>1, ListeningType DEF RemoteState
<1>3. ASSUME NEW t \in Target, Wanted(remote', view, t)
      PROVE  TargetTrue(backend, disk, remote', wire', watched', t)
  <2>1. TokenTrue(backend, disk, remote, t)
    BY <1>1, <1>2, <1>3 DEF StreamTrue, StreamHolds, Wanted, TargetTrue
  <2>2. TokenTrue(backend, disk, remote', t)
    BY <1>2, <2>1 DEF TokenTrue, Known, LimboKeys, KeyAsked
  <2> QED
    BY <1>2, <2>2 DEF TargetTrue
<1>4. StreamTrue'
  BY <1>1, <1>2, <1>3, ClosedTrue DEF StreamTrue, StreamHolds
<1>5. ClientTrue'
  BY <1>1, <1>2 DEF ClientTrue
<1> QED
  BY <1>4, <1>5 DEF Truth

LEMMA TrueKill ==
  ASSUME WatchInv, Truth, Kill
  PROVE  Truth'
<1>1. /\ ClientTrue /\ StreamTrue
      /\ remote' = NewRemote /\ wire' = <<>> /\ watched' = <<>>
      /\ view' = NewView /\ backend' = backend /\ disk' = disk
  BY DEF Truth, Kill
<1>2. /\ remote'.aggregator = NewAggregator /\ remote'.requests = <<>>
      /\ ~view'.listening /\ \A t \in LimboTarget : remote'.keyOf[t] = None
  BY <1>1 DEF NewRemote, NewView
<1>3. \A t \in Target : ~Wanted(remote', view', t)
  BY <1>2, Targets DEF Wanted
<1>4. StreamTrue'
  BY <1>1, <1>2, <1>3, ClosedTrue DEF StreamTrue, StreamHolds
<1>5. ClientTrue'
  BY <1>1, <1>2 DEF ClientTrue, ViewTrue
<1> QED
  BY <1>4, <1>5 DEF Truth

LEMMA TrueOffline ==
  ASSUME WatchInv, Truth, HandleOnlineStateChange
  PROVE  Truth'
<1>1. /\ ClientTrue /\ StreamTrue
      /\ view' = [view EXCEPT !.current = FALSE, !.synced = FALSE]
      /\ UNCHANGED <<backend, watched, wire, remote, target, disk, at>>
  BY DEF Truth, HandleOnlineStateChange
<1>2. view \in [listening : BOOLEAN, docs : SUBSET Key, limbo : SUBSET Key,
                current : BOOLEAN, synced : BOOLEAN]
  BY ListeningType DEF ClientTypes
<1>3. /\ view'.listening = view.listening /\ view'.docs = view.docs
      /\ ~view'.current /\ ~view'.synced
  BY <1>1, <1>2
<1>4. ViewTrue(backend, disk, target, at, view')
  BY <1>1, <1>3 DEF ClientTrue, ViewTrue
<1>5. ClientTrue'
  BY <1>1, <1>3, <1>4 DEF ClientTrue
<1>6. StreamTrue'
  BY <1>1, <1>3 DEF StreamTrue, StreamHolds, Wanted
<1> QED
  BY <1>5, <1>6 DEF Truth

-----------------------------------------------------------------------------
(***************************************************************************)
(* Lookups that start and stop leave the other targets alone; a lookup     *)
(* that has started waits for the server.                                  *)
(***************************************************************************)
SameLookup(r, p, t) ==
  /\ KeyAsked(p, t) = KeyAsked(r, t) /\ p.token[t] = r.token[t]
  /\ t # QueryTarget => (t \in p.received <=> t \in r.received)
  /\ Waiting(r, t) => Waiting(p, t)
  /\ NotAsked(r, t) => NotAsked(p, t)

NewLookup(p, t) ==
  /\ t # QueryTarget /\ p.token[t] = 0 /\ t \notin p.received
  /\ p.open => Waiting(p, t)

NoLookup(p, t) == t # QueryTarget /\ p.keyOf[t] = None

Carried(r, p) ==
  \A t \in Target : SameLookup(r, p, t) \/ NewLookup(p, t) \/ NoLookup(p, t)

TrueLookups(h, w, r) == {p \in Lookups(r) : Carried(r, p) /\ KeysMatch(h, p, w)}

LEMMA CarriedOn ==
  ASSUME NEW r, NEW p, NEW n, NEW t, n.open = p.open, SameLookup(p, n, t),
         SameLookup(r, p, t) \/ NewLookup(p, t) \/ NoLookup(p, t)
  PROVE  SameLookup(r, n, t) \/ NewLookup(n, t) \/ NoLookup(n, t)
<1>1. CASE SameLookup(r, p, t)
  BY <1>1 DEF SameLookup
<1>2. CASE NewLookup(p, t)
  BY <1>2 DEF SameLookup, NewLookup
<1>3. CASE NoLookup(p, t)
  BY <1>3 DEF SameLookup, NoLookup, KeyAsked
<1> QED
  BY <1>1, <1>2, <1>3

LEMMA StartCarried ==
  ASSUME NEW h, NEW w, NEW r, NEW p \in TrueLookups(h, w, r), p.enqueued # <<>>,
         p.nextId <= MaxLimboTargets
  PROVE  Carried(r, StartLimbo(p)) /\ KeysMatch(h, StartLimbo(p), w)
<1> DEFINE t == p.nextId
           o == Looked(p)
           n == StartLimbo(p)
           m == WatchRequest(o, t)
<1>1. p \in RemoteState /\ LimboFits(p) /\ Carried(r, p) /\ KeysMatch(h, p, w)
  BY DEF TrueLookups, Lookups
<1>2. /\ t \in LimboTarget /\ t \in Target /\ t # QueryTarget
      /\ o \in RemoteState /\ SameStream(p, o)
      /\ o.nextId = t + 1 /\ o.received = p.received
      /\ o.keyOf[t] \in Key /\ o.token[t] = 0
      /\ \A s \in LimboTarget : s # t => o.keyOf[s] = p.keyOf[s]
      /\ \A s \in Target : s # t => o.token[s] = p.token[s]
      /\ n = SendWatchRequest(o, t)
  BY <1>1, Starts
<1>3. /\ o.open = p.open /\ o.requests = p.requests
      /\ t \notin p.received /\ p.nextId \in Nat
      /\ t \notin DOMAIN w /\ NeverAsked(p, t)
  BY <1>1, <1>2, Targets DEF SameStream, LimboFits, KeysMatch
<1>4. m \in Request /\ m.target = t /\ m.key = o.keyOf[t]
  BY <1>2, Requests DEF WatchRequest
<1> HIDE DEF o, m
<1>5. /\ n.open = o.open /\ n.token = o.token /\ n.keyOf = o.keyOf
      /\ n.received = o.received /\ n.nextId = o.nextId
      /\ ~o.open => n.requests = o.requests
      /\ o.open => n.requests = Append(o.requests, m)
  <2>1. CASE ~o.open
    BY <1>2, <2>1, SendsAre
  <2>2. CASE o.open
    <3>1. n = With(o, t, m)
      BY <1>2, <2>2, SendsAre DEF m
    <3>2. Adds(o, t, m, n)
      BY <1>2, <1>4, <3>1, Sent
    <3> QED
      BY <2>2, <3>2 DEF Adds
  <2> QED
    BY <2>1, <2>2
<1> HIDE DEF n
<1>6. ASSUME NEW s \in Target, s # t
      PROVE  /\ KeyAsked(n, s) = KeyAsked(p, s) /\ n.token[s] = p.token[s]
             /\ WatchRequest(n, s) = WatchRequest(p, s)
             /\ Keyed(n, s) <=> Keyed(p, s)
  BY <1>2, <1>5, <1>6, Targets DEF KeyAsked, WatchRequest, Keyed
<1>7. ASSUME NEW s \in Target, s # t
      PROVE  /\ Waiting(p, s) => Waiting(n, s)
             /\ NotAsked(p, s) => NotAsked(n, s)
             /\ AskedFor(p, s) => AskedFor(n, s)
             /\ NeverAsked(p, s) => NeverAsked(n, s)
  <2>1. CASE ~o.open
    BY <1>3, <1>5, <1>6, <1>7, <2>1 DEF AskedFor, Waiting, NotAsked, NeverAsked
  <2>2. CASE o.open
    <3>1. n.requests = Append(p.requests, m)
      BY <1>3, <1>5, <2>2
    <3> QED
      BY <1>1, <1>4, <1>6, <1>7, <3>1, AskedMore
  <2> QED
    BY <2>1, <2>2
<1>8. /\ n.open => Waiting(n, t)
      /\ AskedFor(n, t)
  <2>1. AskedFor(o, t)
    BY <1>3 DEF AskedFor, NeverAsked
  <2>2. m = WatchRequest(n, t) /\ m.key = KeyAsked(n, t) /\ KeyAsked(n, t) = KeyAsked(o, t)
    BY <1>2, <1>4, <1>5 DEF m, WatchRequest, KeyAsked
  <2>3. CASE ~o.open
    BY <1>5, <2>1, <2>2, <2>3 DEF AskedFor
  <2>4. CASE o.open
    BY <1>2, <1>4, <1>5, <2>1, <2>2, <2>4, AskedMore
  <2> QED
    BY <2>3, <2>4
<1>9. Carried(r, n)
  <2> SUFFICES ASSUME NEW s \in Target
               PROVE  SameLookup(r, n, s) \/ NewLookup(n, s) \/ NoLookup(n, s)
    BY DEF Carried
  <2>1. CASE s = t
    BY <1>2, <1>3, <1>5, <1>8, <2>1 DEF NewLookup
  <2>2. CASE s # t
    <3>1. SameLookup(p, n, s)
      BY <1>2, <1>5, <1>6, <1>7, <2>2 DEF SameLookup
    <3> QED
      BY <1>1, <1>3, <1>5, <3>1, CarriedOn DEF Carried
  <2> QED
    BY <2>1, <2>2
<1>10. KeysMatch(h, n, w)
  <2>1. \A s \in LimboTarget : s >= n.nextId => s # t /\ s >= p.nextId
    BY <1>2, <1>3, <1>5, Targets
  <2>2. \A s \in LimboTarget : s >= n.nextId => s \notin DOMAIN w /\ NeverAsked(n, s)
    BY <1>1, <1>7, <2>1, Targets DEF KeysMatch
  <2>3. \A s \in Target : Keyed(n, s) =>
          AskedFor(n, s) /\ (s \in DOMAIN w => w[s].key = KeyAsked(n, s))
    BY <1>1, <1>3, <1>6, <1>7, <1>8 DEF KeysMatch
  <2> QED
    BY <1>1, <2>2, <2>3 DEF KeysMatch
<1> QED
  BY <1>9, <1>10 DEF n

LEMMA EnqueueCarried ==
  ASSUME NEW h, NEW w, NEW r, NEW p \in TrueLookups(h, w, r), NEW key \in Key
  PROVE  Carried(r, Enqueued(p, key)) /\ KeysMatch(h, Enqueued(p, key), w)
<1> DEFINE n == Enqueued(p, key)
<1>1. p \in RemoteState /\ Carried(r, p) /\ KeysMatch(h, p, w)
  BY DEF TrueLookups, Lookups
<1>2. /\ n.open = p.open /\ n.requests = p.requests /\ n.keyOf = p.keyOf
      /\ n.token = p.token /\ n.received = p.received /\ n.nextId = p.nextId
  BY <1>1, Enqueues DEF SameStream
<1> HIDE DEF n
<1>3. \A s \in Target : /\ SameLookup(p, n, s)
                        /\ AskedFor(p, s) => AskedFor(n, s)
                        /\ NeverAsked(p, s) => NeverAsked(n, s)
                        /\ Keyed(n, s) <=> Keyed(p, s)
                        /\ KeyAsked(n, s) = KeyAsked(p, s)
  BY <1>2 DEF SameLookup, KeyAsked, WatchRequest, Waiting, NotAsked, AskedFor, NeverAsked, Keyed
<1>4. Carried(r, n)
  BY <1>1, <1>2, <1>3, CarriedOn DEF Carried
<1>5. KeysMatch(h, n, w)
  BY <1>1, <1>2, <1>3, Targets DEF KeysMatch
<1> QED
  BY <1>4, <1>5 DEF n

LEMMA StopCarried ==
  ASSUME NEW h, NEW w, NEW r, NEW p \in TrueLookups(h, w, r), NEW key \in Key,
         p.byKey[key] # 0
  PROVE  Carried(r, Stopped(p, key)) /\ KeysMatch(h, Stopped(p, key), w)
<1> DEFINE t == p.byKey[key]
           o == Unkeyed(p, key)
           l == SendUnwatchRequest(o, t)
           n == Stopped(p, key)
           m == Unwatch(t)
<1>1. p \in RemoteState /\ Carried(r, p) /\ KeysMatch(h, p, w)
  BY DEF TrueLookups, Lookups
<1>2. /\ t \in LimboTarget /\ t \in Target /\ t # QueryTarget
      /\ o \in RemoteState /\ o.open = p.open /\ o.requests = p.requests
      /\ o.keyOf = p.keyOf /\ o.token = p.token
      /\ o.received = p.received /\ o.nextId = p.nextId
      /\ n = ForgetLimboTarget(l, t)
  BY <1>1, Stops DEF SameStream
<1>3. m \in Request /\ m.target = t /\ m.type = "unwatch"
  BY <1>1, <1>2, Requests
<1> HIDE DEF o, m, t
<1>4. /\ l \in RemoteState /\ l.open = o.open /\ l.token = o.token /\ l.keyOf = o.keyOf
      /\ l.received = o.received /\ l.nextId = o.nextId
      /\ ~o.open => l.requests = o.requests
      /\ o.open => l.requests = Append(o.requests, m)
  <2>1. CASE ~o.open
    <3>1. l = o
      BY <2>1, SendsAre
    <3> QED
      BY <1>2, <2>1, <3>1
  <2>2. CASE o.open
    <3>1. l = With(o, t, m)
      BY <2>2, SendsAre DEF m
    <3>2. Adds(o, t, m, l)
      BY <1>2, <1>3, <3>1, Sent
    <3> QED
      BY <2>2, <3>2 DEF Adds
  <2> QED
    BY <2>1, <2>2
<1> HIDE DEF l
<1>5. /\ n.open = l.open /\ n.requests = l.requests /\ n.token = l.token
      /\ n.nextId = l.nextId /\ n.keyOf[t] = None
      /\ \A s \in LimboTarget :
           s # t => /\ n.keyOf[s] = l.keyOf[s]
                    /\ s \in n.received <=> s \in l.received
  BY <1>2, <1>4, Forgets DEF SameStream
<1> HIDE DEF n
<1>6. ASSUME NEW s \in Target, s # t
      PROVE  /\ KeyAsked(n, s) = KeyAsked(p, s) /\ n.token[s] = p.token[s]
             /\ WatchRequest(n, s) = WatchRequest(p, s)
             /\ Keyed(n, s) <=> Keyed(p, s)
             /\ s # QueryTarget => (s \in n.received <=> s \in p.received)
  BY <1>2, <1>4, <1>5, <1>6, Targets DEF KeyAsked, WatchRequest, Keyed
<1>7. /\ \A s \in Target : NeverAsked(p, s) => NeverAsked(n, s)
      /\ \A s \in Target : s # t =>
           /\ Waiting(p, s) => Waiting(n, s)
           /\ NotAsked(p, s) => NotAsked(n, s)
           /\ AskedFor(p, s) => AskedFor(n, s)
  <2>1. CASE ~o.open
    <3>1. n.requests = p.requests
      BY <1>2, <1>4, <1>5, <2>1
    <3> QED
      BY <1>6, <3>1 DEF AskedFor, Waiting, NotAsked, NeverAsked
  <2>2. CASE o.open
    <3>1. n.requests = Append(p.requests, m)
      BY <1>2, <1>4, <1>5, <2>2
    <3> QED
      BY <1>1, <1>3, <1>6, <3>1, AskedMore
  <2> QED
    BY <2>1, <2>2
<1>8. Carried(r, n)
  <2> SUFFICES ASSUME NEW s \in Target
               PROVE  SameLookup(r, n, s) \/ NewLookup(n, s) \/ NoLookup(n, s)
    BY DEF Carried
  <2>1. CASE s = t
    BY <1>2, <1>5, <2>1 DEF NoLookup
  <2>2. CASE s # t
    <3>1. SameLookup(p, n, s) /\ n.open = p.open
      BY <1>2, <1>4, <1>5, <1>6, <1>7, <2>2 DEF SameLookup
    <3> QED
      BY <1>1, <3>1, CarriedOn DEF Carried
  <2> QED
    BY <2>1, <2>2
<1>9. KeysMatch(h, n, w)
  <2>1. n.nextId = p.nextId /\ ~Keyed(n, t)
    BY <1>2, <1>4, <1>5 DEF Keyed
  <2>2. \A s \in Target : Keyed(n, s) =>
          AskedFor(n, s) /\ (s \in DOMAIN w => w[s].key = KeyAsked(n, s))
    BY <1>1, <1>6, <1>7, <2>1 DEF KeysMatch
  <2> QED
    BY <1>1, <1>7, <2>1, <2>2, Targets DEF KeysMatch
<1> QED
  BY <1>8, <1>9 DEF n

LEMMA LookupsCarried ==
  ASSUME NEW h, NEW w, NEW r \in RemoteState, LimboFits(r), KeysMatch(h, r, w),
         NEW old \in SUBSET Key, NEW new \in SUBSET Key, NEW p,
         p = UpdateTrackedLimboDocuments(r, old, new)
  PROVE  p \in TrueLookups(h, w, r)
<1> DEFINE X == TrueLookups(h, w, r)
<1>1. KeepLookups(Lookups(r))
  BY LookupsKept
<1>2. KeepLookups(X)
  <2>1. X \subseteq RemoteState
    BY DEF TrueLookups, Lookups
  <2>2. ASSUME NEW q \in X, q.enqueued # <<>>, q.nextId <= MaxLimboTargets
        PROVE  StartLimbo(q) \in X
    <3>1. q \in Lookups(r)
      BY DEF TrueLookups
    <3>2. StartLimbo(q) \in Lookups(r)
      BY <1>1, <2>2, <3>1 DEF KeepLookups
    <3> QED
      BY <2>2, <3>2, StartCarried DEF TrueLookups
  <2>3. ASSUME NEW q \in X, NEW key \in Key
        PROVE  Enqueued(q, key) \in X
    <3>1. Enqueued(q, key) \in Lookups(r)
      BY <1>1, <2>3 DEF KeepLookups, TrueLookups
    <3> QED
      BY <2>3, <3>1, EnqueueCarried DEF TrueLookups
  <2>4. ASSUME NEW q \in X, NEW key \in Key, q.byKey[key] # 0
        PROVE  Stopped(q, key) \in X
    <3>1. Stopped(q, key) \in Lookups(r)
      BY <1>1, <2>4 DEF KeepLookups, TrueLookups
    <3> QED
      BY <2>4, <3>1, StopCarried DEF TrueLookups
  <2> QED
    BY <2>1, <2>2, <2>3, <2>4 DEF KeepLookups
<1>3. r \in X
  <2>1. r \in Lookups(r)
    BY LookupsOf
  <2>2. Carried(r, r)
    BY DEF Carried, SameLookup
  <2> QED
    BY <2>1, <2>2 DEF TrueLookups
<1> QED
  BY <1>2, <1>3, TrackStays

LEMMA StreamCarried ==
  ASSUME NEW h, Past(h), NEW d \in Disk, NEW s, NEW r \in RemoteState, NEW q, NEW w,
         StreamHolds(h, d, s, r, q, w), NEW p \in TrueLookups(h, w, r)
  PROVE  StreamHolds(h, d, s, p, q, w)
<1>1. /\ Follows(r, p) /\ Carried(r, p) /\ KeysMatch(h, p, w)
      /\ p.open = r.open /\ Updates(p) = Updates(r)
      /\ p.aggregator.mismatch = r.aggregator.mismatch
      /\ p.token[QueryTarget] = r.token[QueryTarget]
  BY DEF TrueLookups, Lookups, Follows, Updates
<1>2. ASSUME NEW t \in Target, Wanted(p, s, t)
      PROVE  TargetTrue(h, d, p, q, w, t)
  <2>1. ~NoLookup(p, t)
    BY <1>2 DEF NoLookup, Wanted
  <2>2. CASE SameLookup(r, p, t)
    <3>1. Wanted(r, s, t) /\ Known(p, d, t) = Known(r, d, t)
      BY <1>2, <2>2 DEF Wanted, SameLookup, KeyAsked, Known, LimboKeys
    <3>2. Changes(p, t) = Changes(r, t)
      BY <1>1, FollowsChanges DEF Changes
    <3>3. SameTarget(r, p, d, t)
      BY <1>1, <2>2, <3>1, <3>2 DEF SameTarget, SameLookup
    <3> QED
      BY <3>1, <3>3, TargetCarried DEF StreamHolds
  <2>3. CASE NewLookup(p, t)
    <3>1. /\ p.token[t] = 0 /\ p.open => Waiting(p, t)
      BY <2>3 DEF NewLookup
    <3>2. Known(p, d, t) = {} /\ p.token[t] = 0
      BY <2>3 DEF NewLookup, Known, LimboKeys
    <3>3. d.seen \in Nat /\ 0 \in 0 .. Len(h)
      BY EntryFields, PastLength
    <3>4. ASSUME NEW k \in Key
          PROVE  Worth(h, t, KeyAsked(p, t), k, 0) = 0
      BY <3>3, WorthIs
    <3>5. TokenTrue(h, d, p, t)
      BY <3>2, <3>3, <3>4 DEF TokenTrue
    <3> QED
      BY <2>3, <3>5 DEF TargetTrue, NewLookup
  <2> QED
    BY <1>1, <2>1, <2>2, <2>3 DEF Carried
<1> QED
  BY <1>1, <1>2 DEF StreamHolds

-----------------------------------------------------------------------------
(***************************************************************************)
(* The query is given up.                                                  *)
(***************************************************************************)
LEMMA TrueStopListening ==
  ASSUME WatchInv, Truth, StopListening
  PROVE  Truth'
<1> DEFINE h == backend
           r == remote
           o == SendUnwatchRequest(r, QueryTarget)
           p == remote'
           m == Unwatch(QueryTarget)
<1>1. /\ ClientTrue /\ StreamTrue /\ view.listening
      /\ p = UpdateTrackedLimboDocuments(o, view.limbo, {})
      /\ view' = NewView
      /\ disk' = [disk EXCEPT !.token = target.token, !.limboFree = target.limboFree]
      /\ backend' = backend /\ watched' = watched /\ wire' = wire
  BY DEF Truth, StopListening, ReleaseTarget
<1>2. /\ disk \in Disk /\ r \in RemoteState /\ QueryTarget \in Target
      /\ view.limbo \in SUBSET Key /\ {} \in SUBSET Key /\ LimboFits(r)
      /\ m \in Request /\ m.target = QueryTarget /\ m.type = "unwatch"
  BY ListeningType, Targets, ClientFields, Requests DEF Fit
<1>3. /\ disk'.cache = disk.cache /\ disk'.keys = disk.keys /\ disk'.seen = disk.seen
      /\ disk'.token = target.token /\ disk'.limboFree = target.limboFree
  BY <1>1, <1>2 DEF Disk
<1>4. ~view'.listening
  BY <1>1 DEF NewView
<1>5. disk' \in Disk
  <2>1. target.token \in 0 .. MaxVersion /\ target.limboFree \in 0 .. MaxVersion
    BY ListeningType, ClientFields
  <2> QED
    BY <1>1, <1>2, <2>1 DEF Disk
<1>6. DiskTrue(h, disk')
  <2>1. CacheTrue(h, disk) /\ disk.seen <= Len(h) /\ Resumes(h, disk, target)
    BY <1>1 DEF ClientTrue, DiskTrue, ViewTrue
  <2>2. CacheTrue(h, disk')
    BY <1>3, <2>1 DEF CacheTrue
  <2>3. Resumes(h, disk', disk')
    BY <1>3, <2>1 DEF Resumes, KeysAt, Leaves, InCache
  <2> QED
    BY <1>3, <2>1, <2>2, <2>3 DEF DiskTrue
<1>7. ClientTrue'
  BY <1>1, <1>4, <1>6 DEF ClientTrue, ViewTrue
<1>8. /\ o \in RemoteState /\ LimboFits(o)
      /\ o.open = r.open /\ o.token = r.token /\ o.keyOf = r.keyOf
      /\ o.received = r.received /\ o.nextId = r.nextId
      /\ o.aggregator.mismatch = r.aggregator.mismatch
      /\ Updates(o) = Updates(r)
      /\ \A t \in Target : Changes(o, t) = Changes(r, t)
      /\ ~r.open => o.requests = r.requests
      /\ r.open => o.requests = Append(r.requests, m)
  <2>1. CASE ~r.open
    <3>1. o = r
      BY <2>1, SendsAre
    <3> QED
      BY <1>2, <2>1, <3>1
  <2>2. CASE r.open
    <3>1. o = With(r, QueryTarget, m)
      BY <2>2, SendsAre
    <3>2. Adds(r, QueryTarget, m, o)
      BY <1>2, <3>1, Sent
    <3>3. LimboFits(o)
      BY <1>2, <3>1, SentFits
    <3>4. ASSUME NEW t \in Target
          PROVE  Changes(o, t) = Changes(r, t)
      <4>1. o.aggregator.states[t] =
              [r.aggregator.states[t] EXCEPT !.pending = Pending(o, t)]
        BY <3>2 DEF Adds
      <4>2. r.aggregator.states[t] \in TargetState
        BY <1>2, RemoteFields
      <4> QED
        BY <4>1, <4>2 DEF Changes, TargetState
    <3> QED
      BY <2>2, <3>2, <3>3, <3>4 DEF Adds, Updates
  <2> QED
    BY <2>1, <2>2
<1> HIDE DEF o, m
<1>9. ASSUME NEW t \in Target
      PROVE  /\ KeyAsked(o, t) = KeyAsked(r, t)
             /\ Keyed(o, t) <=> Keyed(r, t)
             /\ AskedFor(r, t) => AskedFor(o, t)
             /\ NeverAsked(r, t) => NeverAsked(o, t)
             /\ t # QueryTarget =>
                  /\ Known(o, disk', t) = Known(r, disk, t)
                  /\ Waiting(r, t) => Waiting(o, t)
                  /\ NotAsked(r, t) => NotAsked(o, t)
  <2>1. /\ KeyAsked(o, t) = KeyAsked(r, t)
        /\ Keyed(o, t) <=> Keyed(r, t)
        /\ t # QueryTarget => Known(o, disk', t) = Known(r, disk, t)
        /\ WatchRequest(o, t) = WatchRequest(r, t)
    BY <1>8 DEF KeyAsked, Known, LimboKeys, Keyed, WatchRequest
  <2>2. CASE ~r.open
    BY <1>8, <2>1, <2>2 DEF AskedFor, Waiting, NotAsked, NeverAsked
  <2>3. CASE r.open
    BY <1>2, <1>8, <2>1, <2>3, AskedMore
  <2> QED
    BY <2>1, <2>2, <2>3
<1>10. KeysMatch(h, o, watched)
  BY <1>1, <1>8, <1>9, Targets DEF StreamTrue, StreamHolds, KeysMatch
<1>11. ASSUME NEW t \in Target, Wanted(o, view', t)
       PROVE  TargetTrue(h, disk', o, wire, watched, t)
  <2>1. t # QueryTarget /\ Wanted(r, view, t)
    BY <1>4, <1>8, <1>11 DEF Wanted
  <2>2. TargetTrue(h, disk, r, wire, watched, t)
    BY <1>1, <2>1 DEF StreamTrue, StreamHolds
  <2>3. TargetTrue(h, disk', r, wire, watched, t)
    <3>1. TokenTrue(h, disk', r, t)
      BY <1>3, <2>1, <2>2 DEF TargetTrue, TokenTrue, Known
    <3>2. ASSUME Settled(h, disk, r, wire, watched, t)
          PROVE  Settled(h, disk', r, wire, watched, t)
      <4>1. NotAsked(r, t)
        BY <3>2 DEF Settled
      <4>2. \A k \in Key : \A x :
              /\ Holds(r, disk, t, k, x) => Holds(r, disk', t, k, x)
              /\ Knows(r, disk, t, k, x) => Knows(r, disk', t, k, x)
        BY <2>1 DEF Holds, Knows, Collected, Known
      <4> QED
        BY <3>2, <4>1, <4>2, SettledCarried
    <3> QED
      BY <2>2, <3>1, <3>2 DEF TargetTrue
  <2>4. SameTarget(r, o, disk', t)
    <3>1. Known(r, disk', t) = Known(r, disk, t)
      BY <2>1 DEF Known
    <3> QED
      BY <1>8, <1>9, <2>1, <3>1 DEF SameTarget
  <2> QED
    BY <2>3, <2>4, TargetCarried
<1>12. StreamHolds(h, disk', view', o, wire, watched)
  BY <1>1, <1>3, <1>8, <1>10, <1>11 DEF StreamTrue, StreamHolds
<1>13. p \in TrueLookups(h, watched, o)
  BY <1>1, <1>2, <1>8, <1>10, LookupsCarried
<1>14. Past(h)
  BY <1>1 DEF ClientTrue
<1>15. StreamHolds(h, disk', view', p, wire, watched)
  BY <1>5, <1>8, <1>12, <1>13, <1>14, StreamCarried
<1>16. StreamTrue'
  BY <1>1, <1>15 DEF StreamTrue
<1> QED
  BY <1>7, <1>16 DEF Truth

-----------------------------------------------------------------------------
(***************************************************************************)
(* A message of the stream is collected.  Of the target it is for, what    *)
(* the client has of a document becomes what the message says of it.       *)
(***************************************************************************)
Numbered(u) == \A k \in Key : u[k] # NoUpdate => u[k].version \in Nat /\ u[k].version > 0

LEMMA UpdatesNumbered ==
  ASSUME NEW h, Past(h), NEW u, UpdatesTrue(h, u)
  PROVE  Numbered(u)
BY PastLength DEF UpdatesTrue, FromServer, Numbered

LEMMA HoldsGrown ==
  ASSUME NEW r, NEW p, NEW d, NEW t, NEW k \in Key, NEW x, Holds(r, d, t, k, x),
         Numbered(Updates(r)), Numbered(Updates(p)),
         Known(p, d, t) = Known(r, d, t), Changes(p, t)[k] = Changes(r, t)[k],
         \/ Updates(p)[k] = Updates(r)[k]
         \/ /\ Updates(p)[k] # NoUpdate
            /\ Updates(r)[k] # NoUpdate =>
                 Updates(r)[k].version <= Updates(p)[k].version
  PROVE  Holds(p, d, t, k, x)
<1>1. /\ Updates(r)[k] # NoUpdate => Updates(r)[k].version \in Nat
      /\ Updates(p)[k] # NoUpdate => Updates(p)[k].version \in Nat
  BY DEF Numbered
<1>2. x \in Nat /\ (x # 0 <=> Collected(p, d, t, k))
  BY DEF Holds, Collected
<1>3. \/ x <= d.cache[k].version
      \/ Updates(p)[k] # NoUpdate /\ x <= Updates(p)[k].version
      \/ t # QueryTarget
  BY <1>1, <1>2 DEF Holds
<1> QED
  BY <1>2, <1>3 DEF Holds

LEMMA HoldsSame ==
  ASSUME NEW r, NEW p, OnlyAggregator(r, p), NEW d, NEW t, NEW k \in Key, NEW x,
         Holds(r, d, t, k, x), Changes(p, t)[k] = Changes(r, t)[k],
         Updates(p)[k] = Updates(r)[k]
  PROVE  Holds(p, d, t, k, x)
BY DEF Holds, Collected, Known, LimboKeys, OnlyAggregator

(***************************************************************************)
(* What collecting message m does to the part of target t.                 *)
(***************************************************************************)
Follow(h, r, p, m, t, k) ==
  /\ Pending(r, t) = 0 =>
       \A x, y : Holds(r, disk, t, k, x) /\ Step(h, t, KeyAsked(r, t), k, m, x, y)
                   => Holds(p, disk, t, k, y)
  /\ Pending(r, t) = 1 /\ Answers(m, t) /\ m.type = "added" =>
       \A x : Knows(r, disk, t, k, x) => Holds(p, disk, t, k, x)

LEMMA NotMoved ==
  ASSUME NEW h, NEW t, NEW c, NEW k, NEW m, NEW x, NEW y, Step(h, t, c, k, m, x, y),
         ~Moves(m, t, k)
  PROVE  y = x
BY DEF Step, Heard

LEMMA AnswersFollow ==
  ASSUME NEW h, NEW r \in RemoteState, NEW m \in Message, NEW t \in Target,
         NEW k \in Key, NEW p,
         \/ m.type = "added" /\ p = TargetAdded(r, m.target)
         \/ m.type = "removed" /\ p = TargetRemoved(r, m.target)
  PROVE  Follow(h, r, p, m, t, k)
<1>1. PICK state \in TargetState :
        /\ StateChanged(r, m.target, state, p)
        /\ state.pending = Pending(r, m.target) - 1
        /\ m.type = "added" => state.changes = IF state.pending = 0 THEN NoChanges
                                               ELSE Changes(r, m.target)
  BY MessageParts, AddedAt, RemovedAt
<1>2. OnlyAggregator(r, p) /\ Updates(p) = Updates(r)
      /\ (m.target # t => Changes(p, t) = Changes(r, t))
      /\ p.aggregator.states[m.target] = state
  BY <1>1 DEF StateChanged, Updates, Changes
<1>3. ASSUME NEW x, NEW y, Holds(r, disk, t, k, x),
             Step(h, t, KeyAsked(r, t), k, m, x, y)
      PROVE  Holds(p, disk, t, k, y)
  <2>1. m.target # t /\ ~Moves(m, t, k)
    BY <1>3 DEF Step, Answers, Moves
  <2>2. y = x
    BY <1>3, <2>1, NotMoved
  <2> QED
    BY <1>2, <1>3, <2>1, <2>2, HoldsSame
<1>4. ASSUME Pending(r, t) = 1, Answers(m, t), m.type = "added",
             NEW x, Knows(r, disk, t, k, x)
      PROVE  Holds(p, disk, t, k, x)
  <2>1. m.target = t /\ Changes(p, t) = NoChanges
    BY <1>1, <1>2, <1>4 DEF Answers, Changes
  <2>2. Changes(p, t)[k] = None /\ None \notin {"added", "modified"}
    BY <2>1, NewStates DEF None
  <2>3. Known(p, disk, t) = Known(r, disk, t)
    BY <1>2 DEF OnlyAggregator, Known, LimboKeys
  <2> QED
    BY <1>4, <2>2, <2>3 DEF Knows, Holds, Collected
<1> QED
  BY <1>3, <1>4 DEF Follow

LEMMA OthersFollow ==
  ASSUME NEW h, ClientTypes, NEW r \in RemoteState, NEW m \in Message,
         NEW t \in Target, Wanted(r, view, t), NEW k \in Key, NEW p,
         \/ m.type = "current" /\ p = TargetCurrent(r, m.target)
         \/ m.type = "reset" /\ p = TargetReset(r, m.target)
  PROVE  Follow(h, r, p, m, t, k)
<1> SUFFICES ASSUME Pending(r, t) = 0, NEW x, NEW y, Holds(r, disk, t, k, x),
                    Step(h, t, KeyAsked(r, t), k, m, x, y)
             PROVE  Holds(p, disk, t, k, y)
  BY DEF Follow
<1>1. m.target \in Target
  BY MessageParts
<1>2. CASE m.type = "current"
  <2>1. PICK state \in TargetState :
          /\ StateChanged(r, m.target, state, p)
          /\ state.changes = Changes(r, m.target)
    BY <1>1, <1>2, CurrentAt
  <2>2. OnlyAggregator(r, p) /\ Updates(p) = Updates(r)
        /\ Changes(p, t) = Changes(r, t)
    BY <2>1 DEF StateChanged, Updates, Changes
  <2>3. y = x
    BY <1>2, NotMoved DEF Moves
  <2> QED
    BY <2>2, <2>3, HoldsSame
<1>3. CASE m.type = "reset" /\ ~IsActiveTarget(r, m.target)
  <2>1. p = r
    BY <1>3 DEF TargetReset
  <2>2. m.target # t
    BY <1>3, AsWanted DEF IsActiveTarget, Pending
  <2>3. y = x
    BY <1>3, <2>2, NotMoved DEF Moves
  <2> QED
    BY <2>1, <2>3
<1>4. CASE m.type = "reset" /\ IsActiveTarget(r, m.target)
  <2> DEFINE state == ResetState(r, m.target)
  <2>1. /\ StateChanged(r, m.target, state, p)
        /\ state.changes = ResetChanges(RemoteKeys(r, m.target))
    BY <1>1, <1>4, ResetAt DEF TargetReset
  <2> HIDE DEF state
  <2>2. OnlyAggregator(r, p) /\ Updates(p) = Updates(r)
        /\ (m.target # t => Changes(p, t) = Changes(r, t))
        /\ (m.target = t => Changes(p, t) = ResetChanges(RemoteKeys(r, t)))
    BY <2>1 DEF StateChanged, Updates, Changes
  <2>3. CASE m.target # t
    <3>1. y = x
      BY <1>4, <2>3, NotMoved DEF Moves
    <3> QED
      BY <2>2, <2>3, <3>1, HoldsSame
  <2>4. CASE m.target = t
    <3>1. y = 0
      BY <1>4, <2>4 DEF Step, Heard, Moves, Told
    <3>2. RemoteKeys(r, t) = Known(r, disk, t) /\ Known(p, disk, t) = Known(r, disk, t)
      BY <2>2, AsWanted DEF OnlyAggregator, Known, LimboKeys
    <3>3. Changes(p, t)[k] = IF k \in Known(p, disk, t) THEN "removed" ELSE None
      BY <2>2, <2>4, <3>2 DEF ResetChanges
    <3>4. ~Collected(p, disk, t, k) /\ Changes(p, t)[k] \notin {"added", "modified"}
      BY <3>3 DEF Collected, None
    <3>5. disk.cache[k].version \in Nat
      BY ClientDisk, EntryFields
    <3>6. 0 <= disk.cache[k].version
      BY <3>5
    <3> QED
      BY <3>1, <3>4, <3>6 DEF Holds
  <2> QED
    BY <2>3, <2>4
<1> QED
  BY <1>2, <1>3, <1>4

LEMMA DocumentFollows ==
  ASSUME NEW h, Past(h), ClientTypes, NEW r \in RemoteState, NEW m \in Message,
         m.type = "doc", NEW n, UpdatesTrue(h, Updates(r)), Message1True(h, n, Updates(r), m),
         NEW t \in Target, Wanted(r, view, t), NEW k \in Key, NEW p,
         p = HandleDocumentChange(r, m), Numbered(Updates(p))
  PROVE  Follow(h, r, p, m, t, k)
<1> SUFFICES ASSUME Pending(r, t) = 0, NEW x, NEW y, Holds(r, disk, t, k, x),
                    Step(h, t, KeyAsked(r, t), k, m, x, y)
             PROVE  Holds(p, disk, t, k, y)
  BY DEF Follow, Answers
<1>1. m.key \in Key /\ m.updated \in SUBSET Target /\ m.removed \in SUBSET Target
      /\ m.doc \in DocumentUpdate
  BY MessageParts
<1>2. /\ OnlyAggregator(r, p)
      /\ Changes(p, t) = DocumentState(r, m, t).changes
      /\ Updates(p)[k] =
           IF k = m.key /\ m.doc # NoUpdate /\ \E s \in Target : Tells(m, r, s)
           THEN m.doc ELSE Updates(r)[k]
  BY <1>1, DocumentAt DEF Changes
<1>3. /\ ~Tells(m, r, t) => Changes(p, t)[k] = Changes(r, t)[k]
      /\ Tells(m, r, t) => Changes(p, t)[k] = IF k = m.key THEN DocumentChange(r, m, t)
                                              ELSE Changes(r, t)[k]
  BY <1>1, <1>2, DocumentStateType
<1>4. Tells(m, r, t) <=> t \in m.updated \cup m.removed
  BY AsWanted DEF Tells, IsActiveTarget, Pending
<1>5. /\ m.doc # NoUpdate => FromServer(h, m.key, m.doc)
      /\ m.doc # NoUpdate /\ Updates(r)[m.key] # NoUpdate =>
           Updates(r)[m.key].version <= m.doc.version
      /\ m.updated # {} => m.doc # NoUpdate
  BY DEF Message1True
<1>6. m.doc # NoUpdate => m.doc.version \in Nat /\ m.doc.version > 0
  BY <1>5, PastLength DEF FromServer
<1>7. Known(p, disk, t) = Known(r, disk, t) /\ Numbered(Updates(r))
      /\ RemoteKeys(r, t) = Known(r, disk, t)
  BY <1>2, AsWanted, UpdatesNumbered DEF OnlyAggregator, Known, LimboKeys
<1>8. CASE ~Moves(m, t, k)
  <2>1. y = x
    BY <1>8, NotMoved
  <2>2. Changes(p, t)[k] = Changes(r, t)[k]
    BY <1>3, <1>4, <1>8 DEF Moves
  <2> QED
    BY <1>2, <1>5, <1>7, <2>1, <2>2, HoldsGrown
<1>9. CASE Moves(m, t, k)
  <2>1. k = m.key /\ Tells(m, r, t) /\ y = Told(m, t)
        /\ Changes(p, t)[k] = DocumentChange(r, m, t)
    BY <1>3, <1>4, <1>9 DEF Moves, Step, Heard
  <2>2. CASE t \in m.updated
    <3>1. m.doc # NoUpdate /\ y = m.doc.version /\ Updates(p)[k] = m.doc
      BY <1>2, <1>5, <2>1, <2>2 DEF Told
    <3>2. Changes(p, t)[k] \in {"added", "modified"}
      BY <2>1, <2>2 DEF DocumentChange
    <3> QED
      BY <1>6, <3>1, <3>2 DEF Holds, Collected
  <2>3. CASE t \notin m.updated
    <3>1. y = 0
      BY <2>1, <2>3 DEF Told
    <3>2. Changes(p, t)[k] = IF k \in Known(p, disk, t) THEN "removed" ELSE None
      BY <1>7, <2>1, <2>3 DEF DocumentChange
    <3>3. ~Collected(p, disk, t, k) /\ Changes(p, t)[k] \notin {"added", "modified"}
      BY <3>2 DEF Collected, None
    <3>4. disk.cache[k].version \in Nat
      BY ClientDisk, EntryFields
    <3>5. 0 <= disk.cache[k].version
      BY <3>4
    <3> QED
      BY <3>1, <3>3, <3>5 DEF Holds
  <2> QED
    BY <2>2, <2>3
<1> QED
  BY <1>8, <1>9

(***************************************************************************)
(* What is collected is not newer than the messages still on their way.    *)
(***************************************************************************)
LEMMA WireCollected ==
  ASSUME NEW h, Past(h), NEW n, NEW u, UpdatesTrue(h, u), NEW q \in Seq(Message),
         q # <<>>, WireTrue(h, n, u, q), NEW a,
         \A k \in Key : \/ a[k] = u[k]
                        \/ /\ Head(q).type = "doc" /\ Head(q).doc # NoUpdate
                           /\ k = Head(q).key /\ a[k] = Head(q).doc
  PROVE  WireTrue(h, n, a, Tail(q)) /\ UpdatesTrue(h, a)
<1>1. /\ Len(q) \in Nat /\ Len(q) > 0 /\ DOMAIN q = 1 .. Len(q)
      /\ DOMAIN Tail(q) = 1 .. Len(q) - 1 /\ Head(q) = q[1]
      /\ \A i \in 1 .. Len(q) - 1 : Tail(q)[i] = q[i + 1]
      /\ \A i \in DOMAIN q : q[i] \in Message
  BY Ends, Removing
<1>2. /\ \A i \in DOMAIN q : Message1True(h, n, u, q[i])
      /\ \A i \in DOMAIN q : \A j \in DOMAIN q : i < j => Precedes(q[i], q[j])
  BY DEF WireTrue
<1>3. UpdatesTrue(h, a)
  <2>1. Message1True(h, n, u, Head(q))
    BY <1>1, <1>2
  <2> QED
    BY <2>1 DEF UpdatesTrue, Message1True
<1>4. ASSUME NEW i \in DOMAIN Tail(q)
      PROVE  Message1True(h, n, a, Tail(q)[i])
  <2> DEFINE m == q[i + 1]
  <2>1. i + 1 \in DOMAIN q /\ Tail(q)[i] = m /\ 1 \in DOMAIN q /\ 1 < i + 1
    BY <1>1
  <2>2. Message1True(h, n, u, m) /\ Precedes(Head(q), m) /\ m \in Message
    BY <1>1, <1>2, <2>1
  <2> HIDE DEF m
  <2>3. m.type = "doc" => m.key \in Key
    BY <2>2, MessageParts
  <2>4. ASSUME m.type = "snapshot", NEW k \in Key, a[k] # NoUpdate
        PROVE  a[k].version <= m.version
    BY <2>2, <2>4 DEF Message1True, Precedes
  <2>5. ASSUME m.type = "doc", m.doc # NoUpdate, a[m.key] # NoUpdate
        PROVE  a[m.key].version <= m.doc.version
    BY <2>2, <2>3, <2>5 DEF Message1True, Precedes
  <2> QED
    BY <2>1, <2>2, <2>4, <2>5 DEF Message1True
<1>5. ASSUME NEW i \in DOMAIN Tail(q), NEW j \in DOMAIN Tail(q), i < j
      PROVE  Precedes(Tail(q)[i], Tail(q)[j])
  <2>1. /\ i + 1 \in DOMAIN q /\ j + 1 \in DOMAIN q /\ i + 1 < j + 1
        /\ Tail(q)[i] = q[i + 1] /\ Tail(q)[j] = q[j + 1]
    BY <1>1, <1>5
  <2> QED
    BY <1>2, <2>1
<1> QED
  BY <1>3, <1>4, <1>5 DEF WireTrue

(***************************************************************************)
(* Of the aggregator only: requests, tokens and lookups stay.              *)
(***************************************************************************)
StillAsked(r, p, d, t) ==
  /\ KeyAsked(p, t) = KeyAsked(r, t) /\ Known(p, d, t) = Known(r, d, t)
  /\ Keyed(p, t) <=> Keyed(r, t)
  /\ NotAsked(p, t) <=> NotAsked(r, t)
  /\ Waiting(p, t) <=> Waiting(r, t)
  /\ AskedFor(p, t) <=> AskedFor(r, t)
  /\ NeverAsked(p, t) <=> NeverAsked(r, t)
  /\ \A s : Wanted(p, s, t) <=> Wanted(r, s, t)
  /\ \A k, x : Knows(p, d, t, k, x) <=> Knows(r, d, t, k, x)

LEMMA StaysAsked ==
  ASSUME NEW r, NEW p, OnlyAggregator(r, p), NEW d, NEW t
  PROVE  StillAsked(r, p, d, t)
<1>1. /\ p.requests = r.requests /\ p.token = r.token /\ p.keyOf = r.keyOf
      /\ p.received = r.received
  BY DEF OnlyAggregator
<1>2. KeyAsked(p, t) = KeyAsked(r, t) /\ Known(p, d, t) = Known(r, d, t)
  BY <1>1 DEF KeyAsked, Known, LimboKeys
<1>3. WatchRequest(p, t) = WatchRequest(r, t)
  BY <1>1 DEF WatchRequest
<1>4. \A s : Wanted(p, s, t) <=> Wanted(r, s, t)
  BY <1>1 DEF Wanted
<1>5. \A k, x : Knows(p, d, t, k, x) <=> Knows(r, d, t, k, x)
  BY <1>2 DEF Knows
<1> QED
  BY <1>1, <1>2, <1>3, <1>4, <1>5
     DEF StillAsked, Keyed, NotAsked, Waiting, AskedFor, NeverAsked

LEMMA AwaitedCounts ==
  ASSUME WatchInv, Undisturbed, NEW t \in Target
  PROVE  Pending(remote, t) =
           Count(remote.requests, RequestTo(t)) + Count(wire, AnswerOf(t))
BY DEF WatchInv, AnswersAreAwaited, Undisturbed

LEMMA TrueHandleChange ==
  ASSUME WatchInv, Undisturbed, Truth, wire # <<>>, wire' = Tail(wire), SameServer,
         HandleChange(Head(wire))
  PROVE  Truth'
<1> DEFINE h == backend
           r == remote
           m == Head(wire)
           p == HandleWatchChange(r, m)
<1>1. /\ ClientTrue /\ StreamTrue
      /\ m.type \notin {"snapshot", "error"} /\ remote' = p
      /\ view' = view /\ target' = target /\ disk' = disk /\ at' = at
      /\ backend' = backend /\ watched' = watched
  BY DEF Truth, HandleChange, SameServer
<1>2. /\ r \in RemoteState /\ Fit(r) /\ wire \in Seq(Message) /\ ClientTypes
      /\ Past(h)
  BY <1>1, ListeningType DEF ClientTrue
<1>3. /\ KeysMatch(h, r, watched) /\ WireTrue(h, disk.seen, Updates(r), wire)
      /\ UpdatesTrue(h, Updates(r)) /\ ~r.aggregator.mismatch
      /\ \A t \in Target : Wanted(r, view, t) =>
           TargetTrue(h, disk, r, wire, watched, t)
  BY <1>1 DEF StreamTrue, StreamHolds
<1>4. m \in Message /\ m = wire[1] /\ 1 \in DOMAIN wire
  BY <1>2, Removing, Ends
<1>5. Message1True(h, disk.seen, Updates(r), m)
  BY <1>3, <1>4 DEF WireTrue
<1>6. m.type \in {"added", "removed", "current", "reset", "doc"}
  BY <1>1, <1>4, <1>5, MessageParts DEF Message1True
<1>7. OnlyAggregator(r, p)
  BY <1>1, <1>2, <1>4, Handled
<1>8. /\ m.type = "added" => p = TargetAdded(r, m.target)
      /\ m.type = "removed" => p = TargetRemoved(r, m.target)
      /\ m.type = "current" => p = TargetCurrent(r, m.target)
      /\ m.type = "reset" => p = TargetReset(r, m.target)
      /\ m.type = "doc" => p = HandleDocumentChange(r, m)
  BY DEF HandleWatchChange
<1> HIDE DEF p, m
<1>9. /\ p.aggregator.mismatch = r.aggregator.mismatch
      /\ \A k \in Key : \/ Updates(p)[k] = Updates(r)[k]
                        \/ /\ m.type = "doc" /\ m.doc # NoUpdate
                           /\ k = m.key /\ Updates(p)[k] = m.doc
  <2>1. CASE m.type = "doc"
    <3>1. m.key \in Key /\ m.doc \in DocumentUpdate
      BY <1>4, <2>1, MessageParts
    <3> QED
      BY <1>2, <1>8, <2>1, <3>1, DocumentAt
  <2>2. CASE m.type # "doc"
    <3>1. m.target \in Target
      BY <1>4, <1>6, <2>2, MessageParts
    <3>2. p = r \/ \E t \in Target : \E state \in TargetState : StateChanged(r, t, state, p)
      BY <1>2, <1>6, <1>8, <2>2, <3>1, AddedAt, RemovedAt, CurrentAt, ResetAt
         DEF TargetReset
    <3>3. p.aggregator.mismatch = r.aggregator.mismatch /\ Updates(p) = Updates(r)
      BY <3>2 DEF StateChanged, Updates
    <3> QED
      BY <3>3
  <2> QED
    BY <2>1, <2>2
<1>10. WireTrue(h, disk.seen, Updates(p), Tail(wire)) /\ UpdatesTrue(h, Updates(p))
  BY <1>2, <1>3, <1>9, WireCollected DEF m
<1>11. KeysMatch(h, p, watched)
  <2>1. p.nextId = r.nextId
    BY <1>7 DEF OnlyAggregator
  <2>2. \A t \in Target :
          /\ KeyAsked(p, t) = KeyAsked(r, t) /\ (Keyed(p, t) <=> Keyed(r, t))
          /\ AskedFor(p, t) <=> AskedFor(r, t)
          /\ NeverAsked(p, t) <=> NeverAsked(r, t)
    BY <1>7, StaysAsked DEF StillAsked
  <2> QED
    BY <1>3, <2>1, <2>2, Targets DEF KeysMatch
<1>12. ASSUME NEW t \in Target, Wanted(p, view, t)
       PROVE  TargetTrue(h, disk, p, Tail(wire), watched, t)
  <2>1. /\ KeyAsked(p, t) = KeyAsked(r, t) /\ Known(p, disk, t) = Known(r, disk, t)
        /\ NotAsked(p, t) <=> NotAsked(r, t)
        /\ Waiting(p, t) <=> Waiting(r, t)
        /\ \A s : Wanted(p, s, t) <=> Wanted(r, s, t)
        /\ \A k, x : Knows(p, disk, t, k, x) <=> Knows(r, disk, t, k, x)
    <3>1. StillAsked(r, p, disk, t)
      BY <1>7, StaysAsked
    <3> QED
      BY <3>1 DEF StillAsked
  <2>0. Wanted(r, view, t) /\ p.open = r.open /\ p.token = r.token
    BY <1>7, <1>12, <2>1 DEF OnlyAggregator
  <2>2. TargetTrue(h, disk, r, wire, watched, t)
    BY <1>3, <2>0
  <2>3. TokenTrue(h, disk, p, t)
    BY <2>0, <2>1, <2>2 DEF TargetTrue, TokenTrue
  <2>4. ASSUME Settled(h, disk, r, wire, watched, t)
        PROVE  Settled(h, disk, p, Tail(wire), watched, t)
    <3>1. ASSUME NEW k \in Key
          PROVE  Follow(h, r, p, m, t, k)
      <4>1. CASE m.type \in {"added", "removed"}
        BY <1>2, <1>4, <1>8, <4>1, AnswersFollow
      <4>2. CASE m.type \in {"current", "reset"}
        BY <1>2, <1>4, <1>8, <2>0, <4>2, OthersFollow
      <4>3. CASE m.type = "doc"
        <5>1. Numbered(Updates(p))
          BY <1>2, <1>10, UpdatesNumbered
        <5> QED
          BY <1>2, <1>3, <1>4, <1>5, <1>8, <2>0, <4>3, <5>1, DocumentFollows
      <4> QED
        BY <1>6, <4>1, <4>2, <4>3
    <3>2. Pending(r, t) = Count(r.requests, RequestTo(t)) + Count(wire, AnswerOf(t))
      BY AwaitedCounts
    <3>3. NotAsked(p, t)
      BY <2>1, <2>4 DEF Settled
    <3>4. \A k \in Key : \A x :
            /\ Pending(r, t) = 0 =>
                 \A y : Holds(r, disk, t, k, x)
                        /\ Step(h, t, KeyAsked(r, t), k, Head(wire), x, y)
                          => Holds(p, disk, t, k, y)
            /\ Pending(r, t) > 0 => (Knows(r, disk, t, k, x) => Knows(p, disk, t, k, x))
            /\ Pending(r, t) = 1 /\ Answers(Head(wire), t) /\ Head(wire).type = "added" =>
                 (Knows(r, disk, t, k, x) => Holds(p, disk, t, k, x))
      BY <2>1, <3>1 DEF Follow, m
    <3> QED
      BY <1>2, <2>1, <2>4, <3>2, <3>3, <3>4, SettledTail
  <2> QED
    BY <2>0, <2>1, <2>2, <2>3, <2>4 DEF TargetTrue
<1>13. StreamTrue'
  BY <1>1, <1>3, <1>9, <1>10, <1>11, <1>12 DEF StreamTrue, StreamHolds
<1>14. p.token = r.token
  BY <1>7 DEF OnlyAggregator
<1>15. ClientTrue'
  BY <1>1, <1>14 DEF ClientTrue
<1> QED
  BY <1>13, <1>15 DEF Truth

-----------------------------------------------------------------------------
(***************************************************************************)
(* A snapshot of version v.  An active target has been told all that the   *)
(* server had in it then.                                                  *)
(***************************************************************************)
Delivered(h, r, d, t, v) ==
  \A k \in Key : Holds(r, d, t, k, Worth(h, t, KeyAsked(r, t), k, v))

LEMMA ActiveDelivered ==
  ASSUME WatchInv, Undisturbed, Truth, wire # <<>>, Head(wire).type = "snapshot",
         NEW t \in Target, IsActiveTarget(remote, t)
  PROVE  /\ NotAsked(remote, t) /\ ~Waiting(remote, t)
         /\ Settled(backend, disk, remote, wire, watched, t)
         /\ Delivered(backend, remote, disk, t, Head(wire).version)
<1> DEFINE h == backend
           r == remote
           m == Head(wire)
<1>1. /\ r \in RemoteState /\ wire \in Seq(Message)
      /\ Wanted(r, view, t) /\ Pending(r, t) = 0
  BY ListeningType, AsWanted DEF IsActiveTarget, Pending
<1>2. r.open
  BY StreamIsOpen, Awaiting
<1>3. TargetTrue(h, disk, r, wire, watched, t)
  BY <1>1 DEF Truth, StreamTrue, StreamHolds
<1>4. /\ Count(r.requests, RequestTo(t)) \in Nat /\ Count(wire, AnswerOf(t)) \in Nat
      /\ NotAsked(r, t) <=> Count(r.requests, RequestTo(t)) = 0
      /\ Waiting(r, t) => Count(r.requests, RequestTo(t)) # 0
      /\ Count(wire, AnswerOf(t)) = 0 <=> \A i \in DOMAIN wire : ~Answers(wire[i], t)
  BY <1>1, Counts
<1>5. Count(r.requests, RequestTo(t)) = 0 /\ Count(wire, AnswerOf(t)) = 0
  BY <1>1, <1>4, AwaitedCounts
<1>6. NotAsked(r, t) /\ ~Waiting(r, t) /\ Settled(h, disk, r, wire, watched, t)
  BY <1>2, <1>3, <1>4, <1>5 DEF TargetTrue
<1>7. PICK lo \in 0 .. Len(wire) : Followed(h, disk, r, wire, watched, t, lo)
  BY <1>6 DEF Settled
<1>8. lo = 0
  <2>1. Len(wire) \in Nat /\ DOMAIN wire = 1 .. Len(wire)
    BY <1>1, Ends
  <2>2. lo > 0 => lo \in DOMAIN wire /\ Answers(wire[lo], t)
    BY <1>7, <2>1 DEF Followed, Answers
  <2> QED
    BY <1>4, <1>5, <2>1, <2>2
<1>9. ASSUME NEW k \in Key
      PROVE  Holds(r, disk, t, k, Worth(h, t, KeyAsked(r, t), k, m.version))
  <2>1. PICK b : /\ Tracks(h, wire, t, KeyAsked(r, t), k, 0, b, watched[t].version)
                 /\ Holds(r, disk, t, k, b[0])
    BY <1>7, <1>8 DEF Followed, Begins
  <2>2. 0 \in 0 .. Len(wire)
    BY <1>1, Ends
  <2>3. Step(h, t, KeyAsked(r, t), k, m, b[0], b[1])
    BY <1>1, <2>1, <2>2, TracksTail
  <2>4. b[1] = b[0] /\ b[1] = Worth(h, t, KeyAsked(r, t), k, m.version)
    BY <2>3 DEF Step, Heard, Moves
  <2> QED
    BY <2>1, <2>4
<1> QED
  BY <1>6, <1>9 DEF Delivered

(***************************************************************************)
(* The updates of the event are of the server, those of lookups that found *)
(* nothing as well.                                                        *)
(***************************************************************************)
LEMMA EventGenuine ==
  ASSUME NEW h, Past(h), NEW r \in RemoteState, NEW v \in 1 .. Len(h), NEW e,
         EventOf(r, v, e), UpdatesTrue(h, Updates(r)),
         \A k \in Key : Updates(r)[k] # NoUpdate => Updates(r)[k].version <= v,
         \A t \in Target : IsActiveTarget(r, t) => Delivered(h, r, disk, t, v)
  PROVE  /\ Genuine(h, Updates(e), v)
         /\ \A k \in Key : Updates(r)[k] # NoUpdate =>
              /\ Updates(e)[k] # NoUpdate
              /\ Updates(e)[k].version >= Updates(r)[k].version
              /\ Updates(r)[k].version \in Nat /\ Updates(e)[k].version \in Nat
<1> DEFINE none == [version |-> v, kind |-> None]
<1>1. /\ v \in 0 .. Len(h) /\ v \in Nat /\ v # 0 /\ Len(h) \in Nat
      /\ none.version = v /\ none.kind = None /\ none # NoUpdate /\ none # Missing
  BY PastLength DEF NoUpdate, Missing
<1> HIDE DEF none
<1>2. ASSUME NEW t \in LimboTarget, FindsNothing(r, t)
      PROVE  r.keyOf[t] \in Key /\ Reflects(h, none, r.keyOf[t], v)
  <2> DEFINE k == r.keyOf[t]
  <2>1. /\ k \in Key /\ t \in Target /\ t # QueryTarget
        /\ IsActiveTarget(r, t) /\ Updates(r)[k] = NoUpdate /\ k \notin Known(r, disk, t)
    BY <1>2, RemoteFields, Targets, AsWanted DEF FindsNothing, Updates
  <2>2. Holds(r, disk, t, k, Worth(h, t, k, k, v))
    BY <2>1 DEF Delivered, KeyAsked
  <2>3. Worth(h, t, k, k, v) = 0
    BY <2>1, <2>2 DEF Holds, Collected
  <2>4. ~InTarget(t, At(h, k, v))
    BY <1>1, <2>1, <2>3, WorthIs
  <2>5. At(h, k, v).kind = None
    BY <2>1, <2>4 DEF InTarget
  <2>6. At(h, k, v).version \in 0 .. v
    BY <1>1, <2>1, PastDocument
  <2> QED
    BY <1>1, <2>1, <2>5, <2>6 DEF Reflects
<1>3. ASSUME NEW k \in Key
      PROVE  \/ /\ Updates(e)[k] = none
                /\ \E x \in 0 .. v : Reflects(h, none, k, x)
             \/ Updates(e)[k] = Updates(r)[k]
  <2>1. Updates(e)[k] =
          IF \E t \in LimboTarget : r.keyOf[t] = k /\ FindsNothing(r, t)
          THEN none ELSE Updates(r)[k]
    BY DEF EventOf, none
  <2>2. v \in 0 .. v
    BY <1>1
  <2> QED
    BY <1>2, <2>1, <2>2
<1>4. ASSUME NEW k \in Key, Updates(r)[k] # NoUpdate
      PROVE  /\ Updates(r)[k] # Missing /\ Updates(r)[k].version \in Nat
             /\ \E x \in 0 .. v : Reflects(h, Updates(r)[k], k, x)
  <2> DEFINE doc == Updates(r)[k]
             x == doc.version
  <2>1. /\ x \in 1 .. Len(h) /\ doc = h[x][k] /\ x <= v
    BY <1>4 DEF UpdatesTrue, FromServer
  <2> HIDE DEF doc
  <2>2. x \in 0 .. v /\ x # 0 /\ doc = At(h, k, x) /\ doc.version = x /\ x \in Nat
    BY <1>1, <2>1 DEF At
  <2> HIDE DEF x
  <2>3. doc # Missing
    BY <2>2 DEF Missing
  <2>4. Reflects(h, doc, k, x)
    BY <2>2 DEF Reflects
  <2> QED
    BY <2>2, <2>3, <2>4 DEF doc
<1>5. Genuine(h, Updates(e), v)
  BY <1>1, <1>3, <1>4 DEF Genuine
<1>6. ASSUME NEW k \in Key, Updates(r)[k] # NoUpdate
      PROVE  /\ Updates(e)[k] # NoUpdate
             /\ Updates(e)[k].version >= Updates(r)[k].version
             /\ Updates(r)[k].version \in Nat /\ Updates(e)[k].version \in Nat
  BY <1>1, <1>3, <1>4, <1>6
<1> QED
  BY <1>5, <1>6

(***************************************************************************)
(* What is known of a target after the snapshot.                           *)
(***************************************************************************)
LEMMA Changing ==
  ASSUME NEW r \in RemoteState, NEW t \in Target, NEW k \in Key
  PROVE  Changes(r, t)[k] \in Change
BY RemoteFields, StateFields DEF Changes

LEMMA QueryBrought ==
  ASSUME NEW h, Past(h), NEW v \in 1 .. Len(h), NEW r \in RemoteState, ClientTypes,
         Delivered(h, r, disk, QueryTarget, v), Fits(Changes(r, QueryTarget), disk.keys),
         NEW u, \A k \in Key : Updates(r)[k] # NoUpdate =>
                  /\ u[k] # NoUpdate /\ u[k].version >= Updates(r)[k].version
                  /\ Updates(r)[k].version \in Nat /\ u[k].version \in Nat,
         NEW keys, keys = KeysAfter(Changes(r, QueryTarget))
  PROVE  /\ \A k \in Key : k \in keys <=> Worth(h, QueryTarget, None, k, v) # 0
         /\ Brought(h, disk, u, keys, v)
<1>1. ASSUME NEW k \in Key
      PROVE  /\ k \in keys <=> Worth(h, QueryTarget, None, k, v) # 0
             /\ k \in keys <=> At(h, k, v).kind = "in"
             /\ k \in keys =>
                  \/ disk.cache[k].version >= At(h, k, v).version
                  \/ u[k] # NoUpdate /\ u[k].version >= At(h, k, v).version
  <2> DEFINE x == Worth(h, QueryTarget, None, k, v)
             change == Changes(r, QueryTarget)[k]
  <2>1. v \in 0 .. Len(h) /\ None \in {k, None}
    BY PastLength
  <2>2. x \in Nat /\ (x # 0 <=> At(h, k, v).kind = "in")
        /\ (x # 0 => x = At(h, k, v).version)
    <3>0. ASSUME NEW t, NEW c
          PROVE  /\ Worth(h, t, c, k, v) \in Nat
                 /\ Worth(h, t, c, k, v) # 0 <=>
                      c \in {k, None} /\ InTarget(t, At(h, k, v))
      BY <2>1, WorthIs
    <3>1. x \in Nat /\ (x # 0 <=> InTarget(QueryTarget, At(h, k, v)))
      BY <2>1, <3>0
    <3>2. x # 0 => x = At(h, k, v).version
      BY DEF Worth
    <3> QED
      BY <3>1, <3>2 DEF InTarget
  <2>3. Holds(r, disk, QueryTarget, k, x)
    BY DEF Delivered, KeyAsked
  <2> HIDE DEF x
  <2>4. /\ x # 0 <=> Collected(r, disk, QueryTarget, k)
        /\ \/ x <= disk.cache[k].version
           \/ Updates(r)[k] # NoUpdate /\ x <= Updates(r)[k].version
    BY <2>3 DEF Holds
  <2>5. change \in Change /\ (change # None => (change = "added" <=> k \notin disk.keys))
    BY Changing, Targets DEF Fits
  <2>6. k \in keys <=> (k \in disk.keys /\ change # "removed") \/ change = "added"
    BY ClientFields DEF KeysAfter
  <2>7. x # 0 <=> change \in {"added", "modified"} \/ (change = None /\ k \in disk.keys)
    BY <2>4 DEF Collected, Known
  <2>8. k \in keys <=> x # 0
    BY <2>5, <2>6, <2>7 DEF Change, None
  <2>9. disk.cache[k].version \in Nat
    BY ClientDisk, EntryFields
  <2>10. \/ disk.cache[k].version >= x
         \/ u[k] # NoUpdate /\ u[k].version >= x
    BY <2>2, <2>4, <2>9
  <2> QED
    BY <2>2, <2>8, <2>10 DEF x
<1> QED
  BY <1>1 DEF Brought

LEMMA LookupFound ==
  ASSUME NEW h, Past(h), NEW v \in 1 .. Len(h), NEW r \in RemoteState, ClientTypes,
         NEW t \in LimboTarget, IsActiveTarget(r, t), Delivered(h, r, disk, t, v),
         LimboFits(r), NEW e, EventOf(r, v, e), NEW k \in Key
  PROVE  k = r.keyOf[t] /\ ReceivedAfter(e, t) <=>
           Worth(h, t, r.keyOf[t], k, v) # 0
<1> DEFINE c == r.keyOf[t]
           known == LimboKeys(r, t)
<1>1. /\ t \in Target /\ t # QueryTarget /\ c \in Key /\ v \in 0 .. Len(h)
  BY RemoteFields, Targets, PastLength, KeysOf DEF IsActiveTarget
<1>2. Fits(Changes(r, t), known)
  <2>1. c # None
    BY <1>1, BoundAssumption
  <2> QED
    BY <2>1 DEF LimboFits, Changes
<1>3. ASSUME NEW j \in Key
      PROVE  /\ Holds(r, disk, t, j, Worth(h, t, c, j, v))
             /\ Changes(r, t)[j] \in Change
             /\ Changes(r, t)[j] # None => (Changes(r, t)[j] = "added" <=> j \notin known)
             /\ Worth(h, t, c, j, v) # 0 <=>
                  \/ Changes(r, t)[j] \in {"added", "modified"}
                  \/ Changes(r, t)[j] = None /\ j \in known
             /\ j # c => Worth(h, t, c, j, v) = 0
  <2>1. Holds(r, disk, t, j, Worth(h, t, c, j, v))
    BY <1>1 DEF Delivered, KeyAsked
  <2>2. j # c => Worth(h, t, c, j, v) = 0
    <3>1. c # None
      BY <1>1, BoundAssumption
    <3> QED
      BY <3>1 DEF Worth
  <2> QED
    BY <1>1, <1>2, <2>1, <2>2, Changing DEF Fits, Holds, Collected, Known
<1>4. \A j \in Key : j \in known <=> j = c /\ t \in r.received
  BY DEF LimboKeys
<1>5. /\ e.received = r.received /\ Changed(e, t)
      /\ ~FindsNothing(r, t) => Changes(e, t) = Changes(r, t)
      /\ FindsNothing(r, t) =>
           \A j \in Key : Changes(e, t)[j] = IF j = c THEN None ELSE Changes(r, t)[j]
  <2>1. OnlyAggregator(r, e) /\ Pending(e, t) = Pending(r, t)
        /\ e.aggregator.states[t].dirty
    BY <1>1 DEF EventOf
  <2>2. IsActiveTarget(e, t)
    BY <1>1, <2>1, ActiveAgain
  <2> QED
    BY <1>1, <2>1, <2>2 DEF EventOf, OnlyAggregator, Changed
<1>6. e \in RemoteState
  BY DEF EventOf, OnlyAggregator
<1>7. /\ "added" \in Range(Changes(e, t)) <=> \E j \in Key : Changes(e, t)[j] = "added"
      /\ "removed" \in Range(Changes(e, t)) <=> \E j \in Key : Changes(e, t)[j] = "removed"
  <2>1. Changes(e, t) \in [Key -> Change]
    BY <1>1, <1>6, RemoteFields, StateFields DEF Changes
  <2> QED
    BY <2>1 DEF Range
<1>8. ReceivedAfter(e, t) <=>
        \/ \E j \in Key : Changes(e, t)[j] = "added"
        \/ t \in r.received /\ ~\E j \in Key : Changes(e, t)[j] = "removed"
  BY <1>5, <1>7 DEF ReceivedAfter, Changes
<1> DEFINE change == Changes(r, t)[c]
<1>9. /\ \A j \in Key : Changes(r, t)[j] \in {"added", "removed"} => j = c
      /\ change \in Change /\ (change # None => (change = "added" <=> t \notin r.received))
      /\ Worth(h, t, c, c, v) # 0 <=>
           change \in {"added", "modified"} \/ (change = None /\ t \in r.received)
  <2>1. ASSUME NEW j \in Key, Changes(r, t)[j] = "removed"
        PROVE  j = c
    BY <1>3, <1>4, <2>1 DEF None
  <2> QED
    BY <1>1, <1>3, <1>4, <2>1
<1>10. ReceivedAfter(e, t) <=> Worth(h, t, c, c, v) # 0
  <2>1. CASE FindsNothing(r, t)
    <3>1. Updates(r)[c] = NoUpdate /\ t \notin r.received
      BY <1>1, <2>1, KeysOf, <1>4 DEF FindsNothing, Updates
    <3>2. change \notin {"added", "modified"}
      BY <1>1, <1>3, <3>1 DEF Holds
    <3>3. Worth(h, t, c, c, v) = 0
      BY <1>9, <3>1, <3>2
    <3>4. ~\E j \in Key : Changes(e, t)[j] = "added"
      BY <1>5, <1>9, <2>1 DEF None
    <3> QED
      BY <1>8, <3>1, <3>3, <3>4
  <2>2. CASE ~FindsNothing(r, t)
    <3>1. /\ (\E j \in Key : Changes(e, t)[j] = "added") <=> change = "added"
          /\ (\E j \in Key : Changes(e, t)[j] = "removed") <=> change = "removed"
      BY <1>1, <1>5, <1>9, <2>2
    <3> QED
      BY <1>8, <1>9, <3>1 DEF Change, None
  <2> QED
    BY <2>1, <2>2
<1> QED
  BY <1>3, <1>10

(***************************************************************************)
(* After a snapshot the messages on their way are not older than it.       *)
(***************************************************************************)
LEMMA WireRaised ==
  ASSUME NEW h, NEW n, NEW u, NEW q \in Seq(Message), q # <<>>, WireTrue(h, n, u, q),
         NEW v, v = Head(q).version, Head(q).type = "snapshot", NEW a,
         \A k \in Key : a[k] = NoUpdate
  PROVE  WireTrue(h, v, a, Tail(q)) /\ UpdatesTrue(h, a)
<1>1. /\ Len(q) \in Nat /\ Len(q) > 0 /\ DOMAIN q = 1 .. Len(q)
      /\ DOMAIN Tail(q) = 1 .. Len(q) - 1 /\ Head(q) = q[1]
      /\ \A i \in 1 .. Len(q) - 1 : Tail(q)[i] = q[i + 1]
      /\ \A i \in DOMAIN q : q[i] \in Message
  BY Ends, Removing
<1>2. /\ \A i \in DOMAIN q : Message1True(h, n, u, q[i])
      /\ \A i \in DOMAIN q : \A j \in DOMAIN q : i < j => Precedes(q[i], q[j])
  BY DEF WireTrue
<1>3. ASSUME NEW i \in DOMAIN Tail(q)
      PROVE  Message1True(h, v, a, Tail(q)[i])
  <2> DEFINE m == q[i + 1]
  <2>1. i + 1 \in DOMAIN q /\ Tail(q)[i] = m /\ 1 \in DOMAIN q /\ 1 < i + 1
    BY <1>1
  <2>2. Message1True(h, n, u, m) /\ Precedes(Head(q), m) /\ m \in Message
    BY <1>1, <1>2, <2>1
  <2> HIDE DEF m
  <2>3. m.type = "doc" => m.key \in Key
    BY <2>2, MessageParts
  <2>4. m.type = "snapshot" => v <= m.version
    BY <2>2 DEF Precedes
  <2> QED
    BY <2>1, <2>2, <2>3, <2>4 DEF Message1True
<1>4. ASSUME NEW i \in DOMAIN Tail(q), NEW j \in DOMAIN Tail(q), i < j
      PROVE  Precedes(Tail(q)[i], Tail(q)[j])
  <2>1. /\ i + 1 \in DOMAIN q /\ j + 1 \in DOMAIN q /\ i + 1 < j + 1
        /\ Tail(q)[i] = q[i + 1] /\ Tail(q)[j] = q[j + 1]
    BY <1>1, <1>4
  <2> QED
    BY <1>2, <2>1
<1> QED
  BY <1>3, <1>4 DEF WireTrue, UpdatesTrue

LEMMA TrueRaiseSnapshot ==
  ASSUME WatchInv, WatchInv', Undisturbed, Truth, wire # <<>>, wire' = Tail(wire),
         SameServer, RaiseWatchSnapshot(Head(wire))
  PROVE  Truth'
<1> DEFINE h == backend
           r == remote
           m == Head(wire)
           v == m.version
           e == CreateRemoteEvent(r, v)
           p == AfterRemoteEvent(e)
           touched == Changed(e, QueryTarget)
           state == e.aggregator.states[QueryTarget]
           u == e.aggregator.updates
<1>1. /\ ClientTrue /\ StreamTrue /\ m.type = "snapshot"
      /\ ApplyRemoteEvent(ReestablishListen(p, e.aggregator.mismatch),
                          u, touched, state, v)
      /\ backend' = backend /\ watched' = watched
  BY DEF Truth, RaiseWatchSnapshot, SameServer
<1>2. /\ r \in RemoteState /\ Fit(r) /\ wire \in Seq(Message) /\ ClientTypes
      /\ Past(h) /\ disk \in Disk /\ disk.seen \in Nat
      /\ DiskTrue(h, disk) /\ ViewTrue(h, disk, target, at, view)
      /\ view.listening => target.token = r.token[QueryTarget]
  BY <1>1, ListeningType DEF ClientTrue
<1>3. ClientTypes' /\ disk' \in Disk
  BY DEF WatchInv, TypeOK, ClientTypes, Disk, Entry
<1>4. /\ KeysMatch(h, r, watched) /\ WireTrue(h, disk.seen, Updates(r), wire)
      /\ UpdatesTrue(h, Updates(r)) /\ ~r.aggregator.mismatch
      /\ \A t \in Target : Wanted(r, view, t) =>
           TargetTrue(h, disk, r, wire, watched, t)
  BY <1>1 DEF StreamTrue, StreamHolds
<1>5. m \in Message /\ m = wire[1] /\ 1 \in DOMAIN wire
  BY <1>2, Removing, Ends
<1>6. /\ v \in 1 .. Len(h) /\ disk.seen <= v
      /\ \A k \in Key : Updates(r)[k] # NoUpdate => Updates(r)[k].version <= v
  BY <1>1, <1>4, <1>5 DEF WireTrue, Message1True
<1>7. v \in 0 .. MaxVersion /\ v \in Nat /\ v \in 1 .. Latest /\ v \in 0 .. Len(h)
  BY <1>2, <1>6, PastLength DEF Latest
<1>8. EventOf(r, v, e)
  BY <1>2, <1>7, EventAt
<1>9. /\ p \in RemoteState
      /\ p.open = r.open /\ p.requests = r.requests /\ p.keyOf = r.keyOf
      /\ p.nextId = r.nextId
      /\ \A k \in Key : Updates(p)[k] = NoUpdate
      /\ \A t \in Target :
           /\ Changed(e, t) <=> IsActiveTarget(r, t)
           /\ Pending(p, t) = Pending(r, t)
           /\ IsActiveTarget(r, t) => Changes(p, t) = NoChanges /\ p.token[t] = v
           /\ ~IsActiveTarget(r, t) => /\ Changes(p, t) = Changes(r, t)
                                       /\ p.token[t] = r.token[t]
      /\ LimboFits(p)
  BY <1>2, <1>7, RaisedAt
<1> HIDE DEF e
<1>10. /\ e \in RemoteState /\ e.received = r.received
       /\ e.aggregator.mismatch = FALSE /\ state \in TargetState
       /\ u \in [Key -> DocumentUpdate]
  <2>1. e \in RemoteState
    BY <1>8 DEF EventOf, OnlyAggregator
  <2>2. e.aggregator.mismatch \in BOOLEAN
    BY <2>1, RemoteFields, AggregatorFields
  <2> QED
    BY <1>4, <1>8, <2>1, <2>2, RemoteFields, AggregatorFields, Targets
       DEF EventOf, OnlyAggregator
<1>11. AfterEvent(e, p)
  BY <1>10, AfterAt
<1>12. p.aggregator.mismatch = FALSE
       /\ \A t \in LimboTarget : t \in p.received <=> ReceivedAfter(e, t)
  BY <1>11 DEF AfterEvent
<1> HIDE DEF p
<1>13. ApplyRemoteEvent(p, u, touched, state, v)
  BY <1>1, <1>10 DEF ReestablishListen
<1>14. ASSUME NEW t \in Target, IsActiveTarget(r, t)
       PROVE  /\ NotAsked(r, t) /\ ~Waiting(r, t)
              /\ Settled(h, disk, r, wire, watched, t)
              /\ Delivered(h, r, disk, t, v)
  BY <1>1, <1>14, ActiveDelivered
<1>15. /\ Genuine(h, u, v)
       /\ \A k \in Key : Updates(r)[k] # NoUpdate =>
            /\ u[k] # NoUpdate /\ u[k].version >= Updates(r)[k].version
            /\ Updates(r)[k].version \in Nat /\ u[k].version \in Nat
  <2>1. \A t \in Target : IsActiveTarget(r, t) => Delivered(h, r, disk, t, v)
    BY <1>14
  <2>2. u = Updates(e)
    BY DEF Updates
  <2> HIDE DEF u
  <2> QED
    BY <1>2, <1>4, <1>6, <1>8, <2>1, <2>2, EventGenuine
<1>16. /\ touched \in BOOLEAN /\ (touched <=> IsActiveTarget(r, QueryTarget))
       /\ touched => view.listening
  BY <1>9, Targets, KeysOf DEF IsActiveTarget, Changed
<1>17. ASSUME touched
       PROVE  /\ state.token = v
              /\ \A k \in Key : k \in KeysAfter(state.changes) <=>
                                  Worth(h, QueryTarget, None, k, v) # 0
              /\ Brought(h, disk, u, KeysAfter(state.changes), v)
  <2>1. QueryTarget \in Target /\ IsActiveTarget(r, QueryTarget)
        /\ ~FindsNothing(r, QueryTarget)
    BY <1>16, <1>17, Targets DEF FindsNothing
  <2>2. state.token = v /\ state.changes = Changes(r, QueryTarget)
    BY <1>8, <2>1 DEF EventOf, Changes
  <2>3. Delivered(h, r, disk, QueryTarget, v) /\ Fits(Changes(r, QueryTarget), disk.keys)
    BY <1>2, <1>14, <2>1 DEF Fit
  <2> HIDE DEF u, state
  <2> QED
    BY <1>2, <1>6, <1>15, <2>2, <2>3, QueryBrought
<1> HIDE DEF u, state, touched
<1>18. /\ DiskTrue(h, disk') /\ Applied(disk, u, v, disk')
       /\ ViewTrue(h, disk', target', at', view')
       /\ view'.listening = view.listening
       /\ view.listening => target'.token = NewToken(touched, v)
       /\ disk'.seen = v
       /\ disk'.keys = IF touched THEN KeysAfter(state.changes) ELSE disk.keys
  <2>1. touched => /\ state.token = v /\ view.listening
                   /\ Brought(h, disk, u, KeysAfter(state.changes), v)
    BY <1>16, <1>17
  <2> QED
    BY <1>2, <1>3, <1>6, <1>7, <1>10, <1>13, <1>15, <1>16, <2>1, EventTrue
<1>19. \A k \in Key :
         /\ disk'.cache[k].version >= disk.cache[k].version
         /\ u[k] # NoUpdate => disk'.cache[k].version >= u[k].version
         /\ disk'.cache[k].version \in Nat /\ disk.cache[k].version \in Nat
  BY <1>2, <1>3, <1>6, <1>7, <1>15, <1>18, CacheApplied, EntryFields DEF DiskTrue
<1>20. ASSUME NEW t \in Target
       PROVE  /\ KeyAsked(p, t) = KeyAsked(r, t)
              /\ Keyed(p, t) <=> Keyed(r, t)
              /\ Wanted(p, view', t) <=> Wanted(r, view, t)
              /\ AskedFor(p, t) <=> AskedFor(r, t)
              /\ NeverAsked(p, t) <=> NeverAsked(r, t)
              /\ NotAsked(p, t) <=> NotAsked(r, t)
              /\ IsActiveTarget(r, t) <=> Wanted(r, view, t) /\ Pending(r, t) = 0
              /\ ~IsActiveTarget(r, t) =>
                   /\ Waiting(p, t) <=> Waiting(r, t)
                   /\ Known(p, disk', t) = Known(r, disk, t)
  <2>1. KeyAsked(p, t) = KeyAsked(r, t) /\ (Keyed(p, t) <=> Keyed(r, t))
    BY <1>9 DEF KeyAsked, Keyed
  <2>2. Wanted(p, view', t) <=> Wanted(r, view, t)
    BY <1>9, <1>18 DEF Wanted
  <2>3. IsActiveTarget(r, t) <=> Wanted(r, view, t) /\ Pending(r, t) = 0
    BY AsWanted DEF IsActiveTarget, Pending
  <2>4. ASSUME ~IsActiveTarget(r, t)
        PROVE  /\ Waiting(p, t) <=> Waiting(r, t)
               /\ Known(p, disk', t) = Known(r, disk, t)
    <3>1. WatchRequest(p, t) = WatchRequest(r, t)
      BY <1>9, <2>4 DEF WatchRequest
    <3>2. t # QueryTarget => t \in LimboTarget /\ (t \in p.received <=> t \in r.received)
      BY <1>9, <1>10, <1>12, <2>4, Targets DEF ReceivedAfter
    <3>3. t = QueryTarget => disk'.keys = disk.keys
      BY <1>16, <1>18, <2>4
    <3> QED
      BY <1>9, <3>1, <3>2, <3>3 DEF Waiting, Known, LimboKeys
  <2> QED
    BY <1>9, <2>1, <2>2, <2>3, <2>4 DEF AskedFor, NeverAsked, NotAsked
<1>21. ASSUME NEW t \in Target, IsActiveTarget(r, t), NEW k \in Key
       PROVE  k \in Known(p, disk', t) <=> Worth(h, t, KeyAsked(r, t), k, v) # 0
  <2>1. CASE t = QueryTarget
    BY <1>16, <1>17, <1>18, <1>21, <2>1 DEF Known, KeyAsked
  <2>2. CASE t # QueryTarget
    <3>1. t \in LimboTarget
      BY <2>2, Targets
    <3>2. k = r.keyOf[t] /\ ReceivedAfter(e, t) <=> Worth(h, t, r.keyOf[t], k, v) # 0
      BY <1>2, <1>6, <1>8, <1>14, <1>21, <3>1, LookupFound DEF Fit
    <3>3. k \in Known(p, disk', t) <=> k = r.keyOf[t] /\ ReceivedAfter(e, t)
      BY <1>9, <1>12, <2>2, <3>1 DEF Known, LimboKeys
    <3> QED
      BY <2>2, <3>2, <3>3 DEF KeyAsked
  <2> QED
    BY <2>1, <2>2
<1>22. KeysMatch(h, p, watched)
  BY <1>4, <1>9, <1>20, Targets DEF KeysMatch
<1>23. WireTrue(h, v, Updates(p), Tail(wire)) /\ UpdatesTrue(h, Updates(p))
  BY <1>1, <1>2, <1>4, <1>9, WireRaised
<1>24. ASSUME NEW t \in Target, Wanted(p, view', t)
       PROVE  TargetTrue(h, disk', p, Tail(wire), watched, t)
  <2>1. TargetTrue(h, disk, r, wire, watched, t)
    BY <1>4, <1>20, <1>24
  <2>2. ASSUME Settled(h, disk, r, wire, watched, t)
        PROVE  Settled(h, disk', p, Tail(wire), watched, t)
    <3> DEFINE x(k) == Worth(h, t, KeyAsked(r, t), k, v)
    <3>1. ASSUME NEW k \in Key, IsActiveTarget(r, t)
          PROVE  Holds(p, disk', t, k, x(k))
      <4>1. Holds(r, disk, t, k, x(k))
        BY <1>14, <3>1 DEF Delivered
      <4>2. k \in Known(p, disk', t) <=> x(k) # 0
        BY <1>21, <3>1
      <4> HIDE DEF x
      <4>3. x(k) \in Nat
        BY <4>1 DEF Holds
      <4>4. Changes(p, t)[k] = None
        BY <1>9, <3>1, NewStates
      <4>5. Collected(p, disk', t, k) <=> x(k) # 0
        BY <4>2, <4>4 DEF Collected, None
      <4>6. t = QueryTarget => x(k) <= disk'.cache[k].version
        BY <1>15, <1>19, <4>1, <4>3 DEF Holds
      <4> QED
        BY <4>3, <4>4, <4>5, <4>6 DEF Holds, None
    <3>2. ASSUME NEW k \in Key, NEW y, ~IsActiveTarget(r, t), Knows(r, disk, t, k, y)
          PROVE  Knows(p, disk', t, k, y)
      <4>1. Known(p, disk', t) = Known(r, disk, t)
        BY <1>20, <3>2
      <4>2. y \in Nat /\ (t = QueryTarget => y <= disk.cache[k].version)
        BY <3>2 DEF Knows
      <4>3. t = QueryTarget => y <= disk'.cache[k].version
        BY <1>19, <4>2
      <4> QED
        BY <3>2, <4>1, <4>2, <4>3 DEF Knows
    <3>3. Pending(r, t) = Count(r.requests, RequestTo(t)) + Count(wire, AnswerOf(t))
      BY AwaitedCounts
    <3>4. NotAsked(p, t) /\ KeyAsked(p, t) = KeyAsked(r, t)
          /\ (IsActiveTarget(r, t) <=> Pending(r, t) = 0)
      BY <1>20, <1>24, <2>2 DEF Settled
    <3>5. ASSUME NEW k \in Key, NEW z, NEW y,
                 Step(h, t, KeyAsked(r, t), k, m, z, y)
          PROVE  y = x(k)
      BY <1>1, <3>5 DEF Step
    <3> HIDE DEF x
    <3>6. ~Answers(m, t)
      BY <1>1 DEF Answers
    <3>7. ASSUME NEW k \in Key, NEW z
          PROVE  /\ Pending(r, t) = 0 =>
                      \A y : Holds(r, disk, t, k, z)
                             /\ Step(h, t, KeyAsked(r, t), k, m, z, y)
                               => Holds(p, disk', t, k, y)
                 /\ Pending(r, t) > 0 =>
                      (Knows(r, disk, t, k, z) => Knows(p, disk', t, k, z))
      <4>1. ASSUME Pending(r, t) = 0, NEW y, Step(h, t, KeyAsked(r, t), k, m, z, y)
            PROVE  Holds(p, disk', t, k, y)
        BY <3>1, <3>4, <3>5, <4>1
      <4>2. Pending(r, t) > 0 => Pending(r, t) # 0
        OBVIOUS
      <4>3. ASSUME Pending(r, t) > 0, Knows(r, disk, t, k, z)
            PROVE  Knows(p, disk', t, k, z)
        BY <3>2, <3>4, <4>2, <4>3
      <4> QED
        BY <4>1, <4>3
    <3> HIDE DEF p
    <3> QED
      BY <1>2, <2>2, <3>3, <3>4, <3>6, <3>7, SettledTail
  <2>3. CASE IsActiveTarget(r, t)
    <3>1. Settled(h, disk', p, Tail(wire), watched, t)
      BY <1>14, <2>2, <2>3
    <3>2. TokenTrue(h, disk', p, t)
      <4>1. p.token[t] = v /\ p.token[t] <= disk'.seen
            /\ KeyAsked(p, t) = KeyAsked(r, t)
        BY <1>7, <1>9, <1>18, <1>20, <2>3
      <4> QED
        BY <1>21, <2>3, <4>1 DEF TokenTrue
    <3> QED
      BY <3>1, <3>2 DEF TargetTrue
  <2>4. CASE ~IsActiveTarget(r, t)
    <3>1. /\ p.token[t] = r.token[t] /\ Known(p, disk', t) = Known(r, disk, t)
          /\ KeyAsked(p, t) = KeyAsked(r, t) /\ r.token[t] \in Nat
      BY <1>2, <1>9, <1>20, <2>4, RemoteFields, Versions
    <3>2. TokenTrue(h, disk, r, t)
      BY <2>1 DEF TargetTrue
    <3>3. TokenTrue(h, disk', p, t)
      BY <1>2, <1>6, <1>7, <1>18, <3>1, <3>2 DEF TokenTrue
    <3> QED
      BY <1>9, <1>20, <2>1, <2>2, <2>4, <3>3 DEF TargetTrue
  <2> QED
    BY <2>3, <2>4
<1>25. StreamHolds(h, disk', view', p, Tail(wire), watched)
  BY <1>12, <1>18, <1>22, <1>23, <1>24 DEF StreamHolds
<1>26. remote' = UpdateTrackedLimboDocuments(p, view.limbo, view'.limbo)
  BY <1>13 DEF ApplyRemoteEvent
<1>27. view.limbo \in SUBSET Key /\ view'.limbo \in SUBSET Key
  BY <1>2, <1>3, ClientFields DEF ClientTypes
<1>28. remote' \in TrueLookups(h, watched, p)
  BY <1>9, <1>22, <1>26, <1>27, LookupsCarried
<1>29. StreamHolds(h, disk', view', remote', Tail(wire), watched)
  BY <1>2, <1>3, <1>9, <1>25, <1>28, StreamCarried
<1>30. remote'.token[QueryTarget] = p.token[QueryTarget]
  BY <1>28 DEF TrueLookups, Lookups, Follows
<1>31. view.listening => target'.token = remote'.token[QueryTarget]
  BY <1>2, <1>9, <1>16, <1>18, <1>30, Targets DEF NewToken
<1>32. ClientTrue'
  BY <1>1, <1>2, <1>18, <1>31 DEF ClientTrue
<1>33. StreamTrue'
  BY <1>1, <1>29 DEF StreamTrue
<1> QED
  BY <1>32, <1>33 DEF Truth

LEMMA TrueOnWatchStreamChange ==
  ASSUME WatchInv, WatchInv', Undisturbed, Truth, OnWatchStreamChange
  PROVE  Truth'
<1> DEFINE m == Head(wire)
<1>1. /\ wire # <<>> /\ wire' = Tail(wire) /\ SameServer
      /\ \/ HandleChange(m) \/ RaiseWatchSnapshot(m)
         \/ IgnoreSnapshot(m) \/ ProcessTargetError(m)
  BY DEF OnWatchStreamChange, SameServer
<1>2. Message1True(backend, disk.seen, Updates(remote), m)
  <2>1. wire \in Seq(Message)
    BY ListeningType
  <2>2. m = wire[1] /\ 1 \in DOMAIN wire
    BY <1>1, <2>1, Removing, Ends
  <2> QED
    BY <2>2 DEF Truth, StreamTrue, StreamHolds, WireTrue
<1>3. ~ProcessTargetError(m)
  BY <1>2 DEF Message1True, ProcessTargetError
<1>4. ~IgnoreSnapshot(m)
  <2> SUFFICES ASSUME IgnoreSnapshot(m)
               PROVE  FALSE
    OBVIOUS
  <2>1. m.version \in 1 .. Len(backend) /\ disk.seen <= m.version
    BY <1>2 DEF Message1True, IgnoreSnapshot
  <2>2. m.version < disk.seen /\ disk.seen \in Nat
    BY ListeningType DEF IgnoreSnapshot
  <2> QED
    BY <2>1, <2>2
<1> QED
  BY <1>1, <1>3, <1>4, TrueHandleChange, TrueRaiseSnapshot

-----------------------------------------------------------------------------
(***************************************************************************)
(* What the server sends.  All of it is of its present version.            *)
(***************************************************************************)
Present(h, m) ==
  /\ m.type \notin {"filter", "error"}
  /\ m.type = "snapshot" => m.version = Len(h)
  /\ m.type = "doc" => /\ m.doc # NoUpdate => m.doc = h[Len(h)][m.key]
                       /\ m.updated # {} => m.doc # NoUpdate

Fresh(h, e) == e \in Seq(Message) /\ \A i \in DOMAIN e : Present(h, e[i])

LEMMA FreshFollows ==
  ASSUME NEW h, Past(h), NEW n, NEW u, NEW l \in Message, NEW m \in Message,
         Message1True(h, n, u, l) \/ Present(h, l), Present(h, m)
  PROVE  Precedes(l, m)
<1>1. Len(h) \in Nat /\ Len(h) \in 1 .. Len(h) /\ Len(h) \in 0 .. Len(h) /\ Len(h) # 0
  BY PastLength
<1>2. l.type = "snapshot" => l.version \in Nat /\ l.version <= Len(h)
  BY <1>1 DEF Message1True, Present
<1>3. m.type = "snapshot" => m.version = Len(h)
  BY DEF Present
<1>4. ASSUME m.type = "doc", m.doc # NoUpdate
      PROVE  m.key \in Key /\ m.doc = At(h, m.key, Len(h))
  BY <1>1, <1>4, MessageParts DEF Present, At
<1>5. ASSUME l.type = "doc", l.doc # NoUpdate
      PROVE  /\ l.key \in Key /\ l.doc.version \in Nat /\ l.doc.version <= Len(h)
             /\ l.doc = At(h, l.key, l.doc.version) \/ l.doc = At(h, l.key, Len(h))
             /\ l.doc.version \in 0 .. Len(h)
  <2>1. l.key \in Key
    BY <1>5, MessageParts
  <2>2. CASE Message1True(h, n, u, l)
    <3>1. FromServer(h, l.key, l.doc)
      BY <1>5, <2>2 DEF Message1True
    <3>2. l.doc.version \in 1 .. Len(h) /\ l.doc = h[l.doc.version][l.key]
      BY <3>1 DEF FromServer
    <3>3. l.doc.version # 0 /\ l.doc.version \in Nat /\ l.doc.version <= Len(h)
          /\ l.doc.version \in 0 .. Len(h)
      BY <1>1, <3>2
    <3> QED
      BY <2>1, <3>2, <3>3 DEF At
  <2>3. CASE Present(h, l)
    <3>1. l.doc = At(h, l.key, Len(h))
      BY <1>1, <1>5, <2>3 DEF Present, At
    <3>2. l.doc.version \in 0 .. Len(h)
      BY <1>1, <2>1, <3>1, PastDocument
    <3> QED
      BY <1>1, <2>1, <3>1, <3>2
  <2> QED
    BY <2>2, <2>3
<1>6. ASSUME l.type = "doc", l.doc # NoUpdate, m.type = "doc", m.key = l.key,
             m.doc # NoUpdate
      PROVE  l.doc.version <= m.doc.version
  <2>1. m.doc = At(h, l.key, Len(h)) /\ l.key \in Key
    BY <1>4, <1>6
  <2>2. m.doc.version \in Nat
    BY <1>1, <2>1, PastDocument
  <2>3. At(h, l.key, l.doc.version).version <= m.doc.version
    BY <1>1, <1>5, <1>6, <2>1, SameOrNewer
  <2> QED
    BY <1>5, <1>6, <2>1, <2>2, <2>3
<1> QED
  BY <1>2, <1>3, <1>5, <1>6 DEF Precedes

LEMMA WireAppended ==
  ASSUME NEW h, Past(h), NEW n \in Nat, n <= Len(h), NEW u, UpdatesTrue(h, u),
         NEW q \in Seq(Message), WireTrue(h, n, u, q), NEW e, Fresh(h, e)
  PROVE  q \o e \in Seq(Message) /\ WireTrue(h, n, u, q \o e)
<1> DEFINE l == Len(q)
           w == q \o e
<1>1. /\ Len(h) \in Nat /\ Len(h) \in 1 .. Len(h) /\ Len(h) \in 0 .. Len(h)
      /\ Len(h) # 0
  BY PastLength
<1>2. e \in Seq(Message) /\ \A i \in DOMAIN e : Present(h, e[i])
  BY DEF Fresh
<1>3. /\ w \in Seq(Message) /\ l \in Nat /\ Len(e) \in Nat
      /\ DOMAIN q = 1 .. l /\ DOMAIN e = 1 .. Len(e)
      /\ DOMAIN w = 1 .. l + Len(e)
      /\ \A i \in 1 .. l + Len(e) : w[i] = IF i <= l THEN q[i] ELSE e[i - l]
      /\ \A i \in DOMAIN w : w[i] \in Message
  BY <1>2, Ends, Joined
<1>4. /\ \A i \in DOMAIN q : Message1True(h, n, u, q[i])
      /\ \A i \in DOMAIN q : \A j \in DOMAIN q : i < j => Precedes(q[i], q[j])
  BY DEF WireTrue
<1> HIDE DEF l, w
<1>5. ASSUME NEW m \in Message, Present(h, m)
      PROVE  Message1True(h, n, u, m)
  <2>1. ASSUME m.type = "snapshot"
        PROVE  /\ m.version \in 1 .. Len(h) /\ n <= m.version
               /\ \A k \in Key : u[k] # NoUpdate => u[k].version <= m.version
    BY <1>1, <1>5, <2>1 DEF Present, UpdatesTrue, FromServer
  <2>2. ASSUME m.type = "doc", m.doc # NoUpdate
        PROVE  /\ FromServer(h, m.key, m.doc)
               /\ u[m.key] # NoUpdate => u[m.key].version <= m.doc.version
    <3> DEFINE k == m.key
               x == u[k].version
    <3>1. k \in Key /\ m.doc = h[Len(h)][k] /\ m.doc = At(h, k, Len(h))
      BY <1>1, <1>5, <2>2, MessageParts DEF Present, At
    <3>2. FromServer(h, k, m.doc)
      BY <1>1, <3>1, Carries
    <3>3. ASSUME u[k] # NoUpdate
          PROVE  x <= m.doc.version
      <4>1. x \in 1 .. Len(h) /\ u[k] = h[x][k]
        BY <3>1, <3>3 DEF UpdatesTrue, FromServer
      <4>2. x \in 0 .. Len(h) /\ u[k] = At(h, k, x)
        BY <1>1, <4>1 DEF At
      <4>3. At(h, k, x).version <= m.doc.version
        BY <1>1, <3>1, <4>2, SameOrNewer
      <4> QED
        BY <4>2, <4>3
    <3> QED
      BY <3>2, <3>3
  <2> QED
    BY <1>5, <2>1, <2>2 DEF Present, Message1True
<1>6. ASSUME NEW i \in DOMAIN w
      PROVE  /\ i <= l => i \in DOMAIN q /\ w[i] = q[i] /\ Message1True(h, n, u, w[i])
             /\ i > l => Present(h, w[i]) /\ Message1True(h, n, u, w[i])
  <2>1. i > l => i - l \in DOMAIN e /\ w[i] = e[i - l]
    BY <1>3
  <2>2. i > l => Present(h, w[i])
    BY <1>2, <2>1
  <2> QED
    BY <1>3, <1>4, <1>5, <2>2
<1>7. ASSUME NEW i \in DOMAIN w, NEW j \in DOMAIN w, i < j
      PROVE  Precedes(w[i], w[j])
  <2>1. w[i] \in Message /\ w[j] \in Message /\ i \in Nat /\ j \in Nat
    BY <1>3
  <2>2. CASE j <= l
    <3>1. i <= l
      BY <1>3, <1>7, <2>1, <2>2
    <3>2. i \in DOMAIN q /\ j \in DOMAIN q /\ w[i] = q[i] /\ w[j] = q[j]
      BY <1>6, <2>2, <3>1
    <3> QED
      BY <1>4, <1>7, <3>2
  <2>3. CASE j > l
    <3>1. Present(h, w[j])
      BY <1>6, <2>3
    <3>2. Message1True(h, n, u, w[i])
      BY <1>3, <1>6, <2>1
    <3> QED
      BY <2>1, <3>1, <3>2, FreshFollows
  <2> QED
    BY <1>3, <2>1, <2>2, <2>3
<1>8. \A i \in DOMAIN w : Message1True(h, n, u, w[i])
  BY <1>3, <1>6
<1>9. WireTrue(h, n, u, w)
  BY <1>7, <1>8 DEF WireTrue
<1> QED
  BY <1>3, <1>9 DEF w

LEMMA FreshJoined ==
  ASSUME NEW h, NEW a, NEW b, Fresh(h, a), Fresh(h, b)
  PROVE  Fresh(h, a \o b)
<1>1. /\ a \in Seq(Message) /\ b \in Seq(Message)
      /\ \A i \in DOMAIN a : Present(h, a[i])
      /\ \A i \in DOMAIN b : Present(h, b[i])
  BY DEF Fresh
<1>2. /\ a \o b \in Seq(Message) /\ Len(a) \in Nat /\ Len(b) \in Nat
      /\ DOMAIN a = 1 .. Len(a) /\ DOMAIN b = 1 .. Len(b)
      /\ DOMAIN (a \o b) = 1 .. Len(a) + Len(b)
      /\ \A i \in 1 .. Len(a) + Len(b) :
           (a \o b)[i] = IF i <= Len(a) THEN a[i] ELSE b[i - Len(a)]
  BY <1>1, Ends, Joined
<1>3. ASSUME NEW i \in DOMAIN (a \o b)
      PROVE  Present(h, (a \o b)[i])
  <2>1. CASE i <= Len(a)
    BY <1>1, <1>2, <2>1
  <2>2. CASE i > Len(a)
    <3>1. i - Len(a) \in DOMAIN b /\ (a \o b)[i] = b[i - Len(a)]
      BY <1>2, <2>2
    <3> QED
      BY <1>1, <3>1
  <2> QED
    BY <1>2, <2>1, <2>2
<1> QED
  BY <1>2, <1>3 DEF Fresh

LEMMA FreshDocuments ==
  ASSUME ServerTypes, NEW w, WatchedTypes(w), NEW silent \in BOOLEAN
  PROVE  Fresh(backend, DocumentMessages(w, silent))
<1> DEFINE keys == {k \in Key : Updated(k, w) \cup Removed(k, w) # {}}
           q == Messages(keys, w, silent)
<1>1. /\ q \in Seq(Message)
      /\ \A i \in DOMAIN q : \E k \in keys : q[i] = DocumentMessage(k, w, silent)
  <2>1. keys \in SUBSET Key
    OBVIOUS
  <2> HIDE DEF keys
  <2> QED
    BY <2>1, MessagesAt
<1>2. ASSUME NEW k \in Key
      PROVE  Present(backend, DocumentMessage(k, w, silent))
  <2> DEFINE m == DocumentMessage(k, w, silent)
  <2>1. /\ m.type = "doc" /\ m.key = k /\ m.updated = Updated(k, w)
        /\ m.doc = IF silent /\ Updated(k, w) = {} /\ backend[Latest][k].kind # None
                   THEN NoUpdate ELSE backend[Latest][k]
    BY DEF DocumentMessage
  <2>2. backend[Latest][k] # NoUpdate
    <3>1. backend[Latest][k].version \in Nat
      BY ServerDocuments, Versions DEF ServerDocument
    <3> QED
      BY <3>1 DEF NoUpdate
  <2> HIDE DEF m
  <2>3. Present(backend, m)
    BY <2>1, <2>2 DEF Present, Latest
  <2> QED
    BY <2>3 DEF m
<1>3. q = DocumentMessages(w, silent)
  BY DEF DocumentMessages
<1> HIDE DEF q
<1>4. \A i \in DOMAIN q : Present(backend, q[i])
  BY <1>1, <1>2
<1> QED
  BY <1>1, <1>3, <1>4 DEF Fresh

LEMMA FreshSingles ==
  ASSUME ServerTypes, NEW t \in Target
  PROVE  /\ \A type \in {"added", "removed", "current", "reset"} :
              Fresh(backend, TargetMessage(type, t))
         /\ Fresh(backend, Snapshot)
<1>1. ASSUME NEW m \in Message, Present(backend, m)
      PROVE  Fresh(backend, <<m>>)
  <2>1. <<m>> \in Seq(Message) /\ Len(<<m>>) = 1 /\ <<m>>[1] = m
    BY CountOne
  <2>2. DOMAIN <<m>> = 1 .. 1
    BY <2>1, Ends
  <2> QED
    BY <1>1, <2>1, <2>2 DEF Fresh
<1>2. ASSUME NEW type \in {"added", "removed", "current", "reset"}
      PROVE  Fresh(backend, TargetMessage(type, t))
  <2> DEFINE m == [type |-> type, target |-> t]
  <2>1. m \in Message /\ TargetMessage(type, t) = <<m>>
    BY SingleMessages
  <2>2. Present(backend, m)
    BY DEF Present
  <2> HIDE DEF m
  <2> QED
    BY <1>1, <2>1, <2>2
<1>3. Fresh(backend, Snapshot)
  <2> DEFINE m == [type |-> "snapshot", version |-> Latest]
  <2>1. m \in Message
    BY ServerDocuments DEF Message
  <2>2. Present(backend, m)
    BY DEF Present, Latest
  <2>3. Snapshot = <<m>>
    BY DEF Snapshot
  <2> HIDE DEF m
  <2> QED
    BY <1>1, <2>1, <2>2, <2>3
<1> QED
  BY <1>2, <1>3

-----------------------------------------------------------------------------
(***************************************************************************)
(* What the messages tell a target that the server knows.                  *)
(***************************************************************************)
LEMMA DocumentsBring ==
  ASSUME ServerTypes, Past(backend), NEW w, WatchedTypes(w), NEW silent \in BOOLEAN,
         NEW t \in Target, NEW c, NEW k \in Key, NEW e, e = DocumentMessages(w, silent)
  PROVE  /\ t \in DOMAIN w /\ w[t].key = c /\ w[t].version \in 0 .. Latest =>
              Brings(backend, e, t, c, k, w[t].version, Latest)
         /\ t \notin DOMAIN w => \A v : Brings(backend, e, t, c, k, v, v)
<1> DEFINE h == backend
           keys == {j \in Key : Updated(j, w) \cup Removed(j, w) # {}}
<1>1. /\ e \in Seq(Message)
      /\ \A i \in DOMAIN e : \E j \in keys : e[i] = DocumentMessage(j, w, silent)
      /\ \A j \in keys : \E i \in DOMAIN e : e[i] = DocumentMessage(j, w, silent)
  <2>1. keys \in SUBSET Key /\ e = Messages(keys, w, silent)
    BY DEF DocumentMessages
  <2> HIDE DEF keys
  <2> DEFINE q == Messages(keys, w, silent)
  <2>2. /\ q \in Seq(Message)
        /\ \A i \in DOMAIN q : \E j \in keys : q[i] = DocumentMessage(j, w, silent)
        /\ \A j \in keys : \E i \in DOMAIN q : q[i] = DocumentMessage(j, w, silent)
    BY <2>1, MessagesAt
  <2> HIDE DEF q
  <2>3. e = q
    BY <2>1 DEF q
  <2> QED
    BY <2>2, <2>3
<1>2. Latest \in 0 .. Len(h) /\ Latest = Len(h) /\ Latest # 0
      /\ At(h, k, Latest) = backend[Latest][k]
  BY PastLength DEF Latest, At
<1>3. ASSUME NEW i \in DOMAIN e
      PROVE  /\ e[i].type = "doc" /\ ~Answers(e[i], t)
             /\ Moves(e[i], t, k) =>
                  /\ t \in Updated(k, w) \cup Removed(k, w)
                  /\ Told(e[i], t) = IF t \in Updated(k, w)
                                     THEN backend[Latest][k].version ELSE 0
  <2>1. PICK j \in keys : e[i] = DocumentMessage(j, w, silent)
    BY <1>1
  <2>2. /\ e[i].type = "doc" /\ e[i].key = j /\ e[i].updated = Updated(j, w)
        /\ e[i].removed = Removed(j, w)
        /\ Updated(j, w) # {} => e[i].doc = backend[Latest][j]
    BY <2>1 DEF DocumentMessage
  <2> QED
    BY <2>2 DEF Answers, Moves, Told
<1>4. /\ Updated(k, w) \subseteq News(k, w) /\ News(k, w) \subseteq DOMAIN w
      /\ Removed(k, w) \subseteq News(k, w) \ Updated(k, w)
  BY DEF Updated, Removed, News
<1>5. ASSUME t \notin DOMAIN w, NEW v
      PROVE  Brings(h, e, t, c, k, v, v)
  <2>1. t \notin Updated(k, w) \cup Removed(k, w)
    BY <1>4, <1>5
  <2>2. \A i \in DOMAIN e : /\ ~Answers(e[i], t) /\ ~Moves(e[i], t, k)
                            /\ e[i].type # "snapshot"
    BY <1>3, <2>1
  <2> QED
    BY <2>2 DEF Brings
<1>6. ASSUME t \in DOMAIN w, w[t].key = c, w[t].version \in 0 .. Latest
      PROVE  Brings(h, e, t, c, k, w[t].version, Latest)
  <2> DEFINE v == w[t].version
             now == Worth(h, t, c, k, Latest)
  <2>1. v \in 0 .. Len(h) /\ v \in Nat
    BY <1>2, <1>6, PastLength
  <2>2. /\ now = IF c \in {k, None} /\ InTarget(t, backend[Latest][k])
                 THEN backend[Latest][k].version ELSE 0
        /\ Worth(h, t, c, k, v) = IF c \in {k, None} /\ InTarget(t, At(h, k, v))
                                  THEN At(h, k, v).version ELSE 0
    BY <1>2 DEF Worth
  <2>3. Before(k, v) = At(h, k, v)
    BY DEF Before, At
  <2>4. /\ t \in News(k, w) <=> c \in {k, None} /\ backend[Latest][k].version > v
        /\ t \in Updated(k, w) <=> t \in News(k, w) /\ InTarget(t, backend[Latest][k])
        /\ t \in Removed(k, w) <=> /\ t \in News(k, w) /\ t \notin Updated(k, w)
                                   /\ InTarget(t, At(h, k, v))
    BY <1>6, <2>3 DEF News, Updated, Removed
  <2> HIDE DEF now, v
  <2>5. \A i \in DOMAIN e : Moves(e[i], t, k) => Told(e[i], t) = now
    BY <1>3, <2>2, <2>4
  <2>6. ASSUME \A i \in DOMAIN e : ~Moves(e[i], t, k)
        PROVE  Worth(h, t, c, k, v) = now
    <3>1. t \notin Updated(k, w) \cup Removed(k, w)
      <4> SUFFICES ASSUME t \in Updated(k, w) \cup Removed(k, w)
                   PROVE  FALSE
        OBVIOUS
      <4>1. k \in keys
        OBVIOUS
      <4>2. PICK i \in DOMAIN e : e[i] = DocumentMessage(k, w, silent)
        BY <1>1, <4>1
      <4>3. Moves(e[i], t, k)
        BY <4>2 DEF Moves, DocumentMessage
      <4> QED
        BY <2>6, <4>3
    <3>2. CASE t \in News(k, w)
      BY <2>2, <2>4, <3>1, <3>2
    <3>3. CASE c \notin {k, None}
      BY <2>2, <3>3
    <3>4. CASE ~(backend[Latest][k].version > v)
      <4>1. At(h, k, Latest) = At(h, k, v) \/ v < At(h, k, Latest).version
        BY <1>2, <2>1, SameOrNewer
      <4>2. At(h, k, Latest) = At(h, k, v)
        BY <1>2, <3>4, <4>1
      <4> QED
        BY <1>2, <2>2, <4>2
    <3> QED
      BY <2>4, <3>2, <3>3, <3>4
  <2>7. \A i \in DOMAIN e : ~Answers(e[i], t) /\ e[i].type # "snapshot"
    BY <1>3
  <2> QED
    BY <2>5, <2>6, <2>7 DEF Brings, now, v
<1> QED
  BY <1>5, <1>6

LEMMA OneBrings ==
  ASSUME ServerTypes, Past(backend), NEW s \in Target, NEW t \in Target, NEW c,
         NEW k \in Key
  PROVE  /\ \A type \in {"added", "removed", "current", "reset"} :
              s # t \/ type = "current" =>
                \A v : Brings(backend, TargetMessage(type, s), t, c, k, v, v)
         /\ s = t => \A v : Brings(backend, TargetMessage("reset", s), t, c, k, v, 0)
         /\ Brings(backend, Snapshot, t, c, k, Latest, Latest)
<1>1. ASSUME NEW type \in {"added", "removed", "current", "reset"}
      PROVE  LET e == TargetMessage(type, s)
             IN  DOMAIN e = {1} /\ e[1].type = type /\ e[1].target = s
  <2> DEFINE m == [type |-> type, target |-> s]
  <2>1. m \in Message /\ TargetMessage(type, s) = <<m>>
    BY SingleMessages
  <2>2. m.type = type /\ m.target = s
    OBVIOUS
  <2> HIDE DEF m
  <2>3. DOMAIN <<m>> = 1 .. 1 /\ <<m>>[1] = m
    OBVIOUS
  <2> QED
    BY <2>1, <2>2, <2>3
<1>2. ASSUME NEW type \in {"added", "removed", "current", "reset"},
             s # t \/ type = "current", NEW v
      PROVE  Brings(backend, TargetMessage(type, s), t, c, k, v, v)
  <2> DEFINE e == TargetMessage(type, s)
  <2>1. DOMAIN e = {1} /\ e[1].type = type /\ e[1].target = s
    BY <1>1
  <2> HIDE DEF e
  <2>2. \A i \in DOMAIN e : /\ ~Answers(e[i], t) /\ ~Moves(e[i], t, k)
                            /\ e[i].type # "snapshot"
    BY <1>2, <2>1 DEF Answers, Moves
  <2>3. Brings(backend, e, t, c, k, v, v)
    BY <2>2 DEF Brings
  <2> QED
    BY <2>3 DEF e
<1>3. ASSUME s = t, NEW v
      PROVE  Brings(backend, TargetMessage("reset", s), t, c, k, v, 0)
  <2> DEFINE e == TargetMessage("reset", s)
  <2>1. DOMAIN e = {1} /\ e[1].type = "reset" /\ e[1].target = s
    BY <1>1
  <2> HIDE DEF e
  <2>2. Worth(backend, t, c, k, 0) = 0
    <3>1. ASSUME NEW x, NEW y
          PROVE  Worth(backend, x, y, k, 0) = 0
      BY PastLength, WorthIs
    <3> QED
      BY <3>1
  <2>3. \A i \in DOMAIN e : /\ ~Answers(e[i], t) /\ Moves(e[i], t, k)
                            /\ Told(e[i], t) = 0 /\ e[i].type # "snapshot"
    BY <1>3, <2>1 DEF Answers, Moves, Told
  <2>4. 1 \in DOMAIN e
    BY <2>1
  <2>5. Brings(backend, e, t, c, k, v, 0)
    BY <2>2, <2>3, <2>4 DEF Brings
  <2> QED
    BY <2>5 DEF e
<1>4. Brings(backend, Snapshot, t, c, k, Latest, Latest)
  <2> DEFINE m == [type |-> "snapshot", version |-> Latest]
  <2>1. m.type = "snapshot" /\ m.version = Latest
    OBVIOUS
  <2>2. Snapshot = <<m>>
    BY DEF Snapshot
  <2> HIDE DEF m
  <2>3. DOMAIN <<m>> = {1} /\ <<m>>[1] = m
    OBVIOUS
  <2>4. \A i \in DOMAIN Snapshot : /\ Snapshot[i].type = "snapshot"
                                   /\ Snapshot[i].version = Latest
    BY <2>1, <2>2, <2>3
  <2>5. \A i \in DOMAIN Snapshot : ~Answers(Snapshot[i], t) /\ ~Moves(Snapshot[i], t, k)
    BY <2>4 DEF Answers, Moves
  <2> QED
    BY <2>4, <2>5 DEF Brings
<1> QED
  BY <1>2, <1>3, <1>4

(***************************************************************************)
(* The targets of the stream are brought to the present version.           *)
(***************************************************************************)
LEMMA UpToDateAt ==
  ASSUME NEW w
  PROVE  /\ DOMAIN UpToDate(w) = DOMAIN w
         /\ \A t \in DOMAIN w : WatchedTypes(w) =>
              UpToDate(w)[t].key = w[t].key /\ UpToDate(w)[t].version = Latest
BY DEF UpToDate, WatchedTypes

LEMMA SettledUpToDate ==
  ASSUME ServerTypes, Past(backend), NEW d, NEW r, NEW q \in Seq(Message),
         KeysMatch(backend, r, watched), NEW t \in Target, Keyed(r, t),
         Settled(backend, d, r, q, watched, t), NEW silent \in BOOLEAN
  PROVE  Settled(backend, d, r, q \o DocumentMessages(watched, silent),
                 UpToDate(watched), t)
<1> DEFINE e == DocumentMessages(watched, silent)
           n == UpToDate(watched)
<1>1. WatchedTypes(watched) /\ e \in Seq(Message)
  BY DocumentsAt DEF ServerTypes
<1>2. /\ t \in DOMAIN watched /\ watched[t].key = KeyAsked(r, t)
      /\ watched[t].version \in 0 .. Latest
  BY DEF Settled, KeysMatch, Latest
<1>3. t \in DOMAIN n /\ n[t].version = Latest
  BY <1>1, <1>2, UpToDateAt
<1>4. \A k \in Key : Brings(backend, e, t, KeyAsked(r, t), k, watched[t].version, Latest)
  BY <1>1, <1>2, DocumentsBring
<1> HIDE DEF e, n
<1>5. Settled(backend, d, r, q \o e, n, t)
  BY <1>1, <1>3, <1>4, SettledJoined
<1> QED
  BY <1>5 DEF e, n

LEMMA TruePush ==
  ASSUME WatchInv, Truth, Push
  PROVE  Truth'
<1> DEFINE h == backend
           r == remote
           n == UpToDate(watched)
<1>1. PICK silent \in BOOLEAN :
        wire' = wire \o DocumentMessages(watched, silent) \o Snapshot
  BY DEF Push
<1> DEFINE docs == DocumentMessages(watched, silent)
<1>2. /\ ClientTrue /\ StreamTrue /\ watched' = n /\ r.open
      /\ backend' = backend /\ remote' = remote /\ view' = view /\ target' = target
      /\ disk' = disk /\ at' = at
  BY StreamIsOpen DEF Truth, Push
<1>3. /\ r \in RemoteState /\ wire \in Seq(Message) /\ ServerTypes
      /\ Past(h) /\ disk.seen \in Nat /\ disk.seen <= Len(h) /\ WatchedTypes(watched)
  BY <1>2, ListeningType DEF ClientTrue, DiskTrue, ServerTypes
<1>4. /\ KeysMatch(h, r, watched) /\ WireTrue(h, disk.seen, Updates(r), wire)
      /\ UpdatesTrue(h, Updates(r)) /\ ~r.aggregator.mismatch
      /\ \A t \in Target : Wanted(r, view, t) =>
           TargetTrue(h, disk, r, wire, watched, t)
  BY <1>2 DEF StreamTrue, StreamHolds
<1>5. Fresh(h, docs) /\ Fresh(h, Snapshot)
  BY <1>3, FreshDocuments, FreshSingles, Targets
<1>6. /\ DOMAIN n = DOMAIN watched
      /\ \A t \in DOMAIN n : n[t].key = watched[t].key /\ n[t].version = Latest
      /\ Latest \in 0 .. Len(h)
  BY <1>3, UpToDateAt, PastLength DEF Latest
<1> HIDE DEF n, docs
<1>7. /\ wire \o docs \in Seq(Message)
      /\ WireTrue(h, disk.seen, Updates(r), wire \o docs)
  BY <1>3, <1>4, <1>5, WireAppended
<1>8. WireTrue(h, disk.seen, Updates(r), wire')
  <2>1. WireTrue(h, disk.seen, Updates(r), wire \o docs \o Snapshot)
    BY <1>3, <1>4, <1>5, <1>7, WireAppended
  <2> QED
    BY <1>1, <2>1 DEF docs
<1>9. KeysMatch(h, r, n)
  BY <1>4, <1>6 DEF KeysMatch
<1>10. ASSUME NEW t \in Target, Wanted(r, view, t)
       PROVE  TargetTrue(h, disk, r, wire', n, t)
  <2>1. TargetTrue(h, disk, r, wire, watched, t) /\ Keyed(r, t)
    BY <1>4, <1>10, AsWanted
  <2>2. ASSUME Settled(h, disk, r, wire, watched, t)
        PROVE  Settled(h, disk, r, wire', n, t)
    <3>1. Settled(h, disk, r, wire \o docs, n, t)
      BY <1>3, <1>4, <2>1, <2>2, SettledUpToDate DEF docs, n
    <3>2. \A k \in Key :
            Brings(h, Snapshot, t, KeyAsked(r, t), k, n[t].version, n[t].version)
      BY <1>3, <1>6, <3>1, OneBrings DEF Settled
    <3>3. t \in DOMAIN n /\ Snapshot \in Seq(Message)
      BY <1>5, <3>1 DEF Settled, Fresh
    <3>4. Settled(h, disk, r, wire \o docs \o Snapshot, n, t)
      BY <1>7, <3>1, <3>2, <3>3, SettledJoined
    <3> QED
      BY <1>1, <3>4 DEF docs
  <2> QED
    BY <2>1, <2>2 DEF TargetTrue
<1>11. StreamTrue'
  BY <1>2, <1>4, <1>8, <1>9, <1>10 DEF StreamTrue, StreamHolds
<1>12. ClientTrue'
  BY <1>2 DEF ClientTrue
<1> QED
  BY <1>11, <1>12 DEF Truth

-----------------------------------------------------------------------------
(***************************************************************************)
(* The server takes the next request.  A target that waits is then the one *)
(* it is for, or waits for a later one.                                    *)
(***************************************************************************)
Unasked(r) == [r EXCEPT !.requests = Tail(@)]

RequestServed(r, p, d, m, t) ==
  /\ KeyAsked(p, t) = KeyAsked(r, t) /\ Known(p, d, t) = Known(r, d, t)
  /\ Keyed(p, t) <=> Keyed(r, t)
  /\ \A s : Wanted(p, s, t) <=> Wanted(r, s, t)
  /\ NotAsked(r, t) => NotAsked(p, t) /\ m.target # t
  /\ AskedFor(r, t) => AskedFor(p, t)
  /\ AskedFor(r, t) /\ m.type = "watch" /\ m.target = t => m.key = KeyAsked(r, t)
  /\ NeverAsked(r, t) => NeverAsked(p, t) /\ (m.type = "watch" => m.target # t)
  /\ Waiting(r, t) => Waiting(p, t) \/ (m = WatchRequest(r, t) /\ NotAsked(p, t))
  /\ \A k, x : /\ Knows(p, d, t, k, x) <=> Knows(r, d, t, k, x)
               /\ Holds(r, d, t, k, x) => Holds(p, d, t, k, x)

LEMMA ServesRequest ==
  ASSUME NEW r \in RemoteState, r.requests # <<>>, NEW p, p = Unasked(r),
         NEW m, m = Head(r.requests), NEW d, NEW t
  PROVE  RequestServed(r, p, d, m, t)
<1> DEFINE q == r.requests
           l == Len(q)
<1>1. /\ p.requests = Tail(q) /\ p.token = r.token /\ p.keyOf = r.keyOf
      /\ p.received = r.received /\ p.aggregator = r.aggregator
  BY DEF Unasked, RemoteState
<1>2. /\ l \in Nat /\ l > 0 /\ DOMAIN q = 1 .. l /\ DOMAIN Tail(q) = 1 .. l - 1
      /\ m = q[1] /\ \A i \in 1 .. l - 1 : Tail(q)[i] = q[i + 1]
  BY RemoteFields, Ends, Removing
<1>3. /\ KeyAsked(p, t) = KeyAsked(r, t) /\ Known(p, d, t) = Known(r, d, t)
      /\ WatchRequest(p, t) = WatchRequest(r, t)
      /\ Keyed(p, t) <=> Keyed(r, t)
  BY <1>1 DEF KeyAsked, Known, LimboKeys, WatchRequest, Keyed
<1>4. \A s : Wanted(p, s, t) <=> Wanted(r, s, t)
  BY <1>1 DEF Wanted
<1>5. \A k, x : /\ Knows(p, d, t, k, x) <=> Knows(r, d, t, k, x)
                /\ Holds(r, d, t, k, x) => Holds(p, d, t, k, x)
  BY <1>1, <1>3 DEF Knows, Holds, Collected, Changes, Updates
<1> HIDE DEF l
<1>6. 1 \in DOMAIN q /\ \A i \in 1 .. l - 1 : i + 1 \in DOMAIN q
  BY <1>2
<1>7. NotAsked(r, t) => NotAsked(p, t) /\ m.target # t
  BY <1>1, <1>2, <1>6 DEF NotAsked
<1>8. /\ AskedFor(r, t) => AskedFor(p, t)
      /\ AskedFor(r, t) /\ m.type = "watch" /\ m.target = t => m.key = KeyAsked(r, t)
  BY <1>1, <1>2, <1>3, <1>6 DEF AskedFor
<1>9. NeverAsked(r, t) => NeverAsked(p, t) /\ (m.type = "watch" => m.target # t)
  BY <1>1, <1>2, <1>6 DEF NeverAsked
<1>10. ASSUME Waiting(r, t)
       PROVE  Waiting(p, t) \/ (m = WatchRequest(r, t) /\ NotAsked(p, t))
  <2>1. PICK i \in DOMAIN q : /\ q[i] = WatchRequest(r, t)
                              /\ \A j \in DOMAIN q : j > i => q[j].target # t
    BY <1>10 DEF Waiting
  <2>2. CASE i = 1
    <3>1. \A j \in 1 .. l - 1 : j + 1 > i
      BY <1>2, <2>2
    <3>2. NotAsked(p, t)
      BY <1>1, <1>2, <1>6, <2>1, <3>1 DEF NotAsked
    <3> QED
      BY <1>2, <2>1, <2>2, <3>2
  <2>3. CASE i # 1
    <3>1. i - 1 \in 1 .. l - 1 /\ i - 1 + 1 = i
      BY <1>2, <2>3
    <3>2. Tail(q)[i - 1] = WatchRequest(p, t)
      BY <1>2, <1>3, <2>1, <3>1
    <3>3. ASSUME NEW j \in 1 .. l - 1, j > i - 1
          PROVE  Tail(q)[j].target # t
      <4>1. j + 1 \in DOMAIN q /\ j + 1 > i
        BY <1>2, <3>1, <3>3
      <4> QED
        BY <1>2, <2>1, <4>1
    <3> DEFINE z == i - 1
    <3>4. /\ z \in DOMAIN p.requests /\ p.requests[z] = WatchRequest(p, t)
          /\ \A j \in DOMAIN p.requests : j > z => p.requests[j].target # t
      BY <1>1, <1>2, <3>1, <3>2, <3>3
    <3> HIDE DEF z
    <3>5. Waiting(p, t)
      BY <3>4 DEF Waiting
    <3> QED
      BY <3>5
  <2> QED
    BY <2>2, <2>3
<1> QED
  BY <1>3, <1>4, <1>5, <1>7, <1>8, <1>9, <1>10 DEF RequestServed

LEMMA WatchingAt ==
  ASSUME NEW w, NEW m
  PROVE  /\ DOMAIN Watching(w, m) = DOMAIN w \cup {m.target}
         /\ \A t \in DOMAIN Watching(w, m) :
              /\ Watching(w, m)[t].version = Latest
              /\ Watching(w, m)[t].key = IF t \in DOMAIN w THEN w[t].key ELSE m.key
BY DEF Watching

(***************************************************************************)
(* A target that the messages do not concern goes on as it is; so does one *)
(* at the present version with the end of the answer.                      *)
(***************************************************************************)
LEMMA OthersGoOn ==
  ASSUME ServerTypes, Past(backend), NEW d, NEW p, NEW q \in Seq(Message), NEW w,
         NEW n, NEW s \in Target, NEW t \in Target, s # t,
         Settled(backend, d, p, q, w, t), t \in DOMAIN n, n[t].version = w[t].version
  PROVE  /\ \A type \in {"added", "removed", "current", "reset"} :
              Settled(backend, d, p, q \o TargetMessage(type, s), n, t)
         /\ \A key \in Key \cup {None}, v \in 0 .. MaxVersion :
              Settled(backend, d, p, q \o DocumentMessages(Only(s, key, v), FALSE), n, t)
<1>1. ASSUME NEW e \in Seq(Message), NEW v, v = n[t].version,
             \A k \in Key : Brings(backend, e, t, KeyAsked(p, t), k, v, v)
      PROVE  Settled(backend, d, p, q \o e, n, t)
  BY <1>1, SettledJoined
<1>2. ASSUME NEW type \in {"added", "removed", "current", "reset"}
      PROVE  Settled(backend, d, p, q \o TargetMessage(type, s), n, t)
  <2>1. TargetMessage(type, s) \in Seq(Message)
    BY SingleMessages
  <2>2. ASSUME NEW c, NEW k \in Key, NEW v
        PROVE  Brings(backend, TargetMessage(type, s), t, c, k, v, v)
    BY OneBrings
  <2> QED
    BY <1>1, <2>1, <2>2
<1>3. ASSUME NEW key \in Key \cup {None}, NEW v \in 0 .. MaxVersion
      PROVE  Settled(backend, d, p, q \o DocumentMessages(Only(s, key, v), FALSE), n, t)
  <2> DEFINE e == DocumentMessages(Only(s, key, v), FALSE)
  <2>1. WatchedTypes(Only(s, key, v)) /\ t \notin DOMAIN Only(s, key, v)
    <3>1. DOMAIN Only(s, key, v) = {s} /\ WatchedTypes(Only(s, key, v))
      BY OnlyAt
    <3> QED
      BY <3>1
  <2>2. e \in Seq(Message)
    BY <2>1, DocumentsAt
  <2>3. ASSUME NEW c, NEW k \in Key, NEW x
        PROVE  Brings(backend, e, t, c, k, x, x)
    BY <2>1, DocumentsBring
  <2> HIDE DEF e
  <2>4. Settled(backend, d, p, q \o e, n, t)
    BY <1>1, <2>2, <2>3
  <2> QED
    BY <2>4 DEF e
<1> QED
  BY <1>2, <1>3

LEMMA AnswerEnds ==
  ASSUME ServerTypes, Past(backend), NEW d, NEW p, NEW q \in Seq(Message), NEW n,
         NEW s \in Target, NEW t \in Target,
         Settled(backend, d, p, q, n, t), n[t].version = Latest
  PROVE  Settled(backend, d, p, q \o TargetMessage("current", s) \o Snapshot, n, t)
<1> DEFINE e == TargetMessage("current", s)
<1>1. e \in Seq(Message) /\ Snapshot \in Seq(Message) /\ q \o e \in Seq(Message)
  BY SingleMessages, Joined
<1>2. t \in DOMAIN n
  BY DEF Settled
<1>3. ASSUME NEW c, NEW k \in Key
      PROVE  /\ Brings(backend, e, t, c, k, Latest, Latest)
             /\ Brings(backend, Snapshot, t, c, k, Latest, Latest)
  BY OneBrings
<1> HIDE DEF e
<1>4. Settled(backend, d, p, q \o e, n, t)
  BY <1>1, <1>2, <1>3, SettledJoined
<1>5. Settled(backend, d, p, q \o e \o Snapshot, n, t)
  BY <1>1, <1>2, <1>3, <1>4, SettledJoined
<1> QED
  BY <1>5 DEF e

(***************************************************************************)
(* The target that is added: from the version of its token, or from none   *)
(* when it is reset.                                                       *)
(***************************************************************************)
LEMMA TargetBegins ==
  ASSUME ServerTypes, Past(backend), NEW d, NEW p, NEW q \in Seq(Message),
         NEW t \in Target, NEW c \in Key \cup {None}, NEW v \in 0 .. MaxVersion,
         c = KeyAsked(p, t), NotAsked(p, t),
         \A k \in Key : Knows(p, d, t, k, Worth(backend, t, c, k, v))
  PROVE  LET a == q \o TargetMessage("added", t)
         IN  /\ a \in Seq(Message)
             /\ Settled(backend, d, p, a, Only(t, c, v), t)
             /\ a \o TargetMessage("reset", t) \in Seq(Message)
             /\ Settled(backend, d, p, a \o TargetMessage("reset", t), Only(t, c, 0), t)
<1> DEFINE m == [type |-> "added", target |-> t]
           e == TargetMessage("added", t)
           a == q \o e
           reset == TargetMessage("reset", t)
<1>1. m \in Message /\ m.type = "added" /\ m.target = t
      /\ e = <<m>> /\ e \in Seq(Message) /\ reset \in Seq(Message)
  BY SingleMessages
<1> HIDE DEF m, e, reset
<1>2. Len(e) = 1 /\ e[1] = m
  BY <1>1
<1>3. a \in Seq(Message) /\ Len(a) > 0 /\ a[Len(a)] = m /\ a \o reset \in Seq(Message)
  <2>1. /\ a \in Seq(Message) /\ Len(a) = Len(q) + Len(e) /\ Len(q) \in Nat
        /\ \A i \in 1 .. Len(q) + Len(e) :
             a[i] = IF i <= Len(q) THEN q[i] ELSE e[i - Len(q)]
    BY <1>1, Ends, Joined
  <2>2. Len(a) \in 1 .. Len(q) + Len(e) /\ ~(Len(a) <= Len(q)) /\ Len(a) - Len(q) = 1
    BY <1>2, <2>1
  <2>3. a[Len(a)] = e[1]
    BY <2>1, <2>2
  <2> HIDE DEF a
  <2> QED
    BY <1>1, <1>2, <2>1, <2>2, <2>3, Joined
<1>4. /\ t \in DOMAIN Only(t, c, v) /\ Only(t, c, v)[t].version = v
      /\ t \in DOMAIN Only(t, c, 0) /\ Only(t, c, 0)[t].version = 0
  <2>1. 0 \in 0 .. MaxVersion
    BY Versions
  <2>2. /\ DOMAIN Only(t, c, v) = {t} /\ DOMAIN Only(t, c, 0) = {t}
        /\ Only(t, c, v)[t] = [key |-> c, version |-> v]
        /\ Only(t, c, 0)[t] = [key |-> c, version |-> 0]
    BY <2>1, OnlyAt
  <2> QED
    BY <2>2
<1> HIDE DEF a
<1>5. Settled(backend, d, p, a, Only(t, c, v), t)
  BY <1>1, <1>3, <1>4, SettledStarts
<1>6. ASSUME NEW b, NEW k \in Key
      PROVE  Brings(backend, reset, t, b, k, v, 0)
  BY OneBrings DEF reset
<1>7. Settled(backend, d, p, a \o reset, Only(t, c, 0), t)
  BY <1>1, <1>3, <1>4, <1>5, <1>6, SettledJoined
<1> QED
  BY <1>3, <1>5, <1>7 DEF a, reset, e

LEMMA TargetGoesOn ==
  ASSUME ServerTypes, Past(backend), NEW d, NEW p, NEW q \in Seq(Message),
         NEW t \in Target, NEW c \in Key \cup {None}, NEW v \in 0 .. Latest,
         c = KeyAsked(p, t), Settled(backend, d, p, q, Only(t, c, v), t),
         NEW n, t \in DOMAIN n, n[t].version = Latest
  PROVE  Settled(backend, d, p, q \o DocumentMessages(Only(t, c, v), FALSE), n, t)
<1> DEFINE w == Only(t, c, v)
           e == DocumentMessages(w, FALSE)
<1>1. v \in 0 .. MaxVersion
  BY ServerDocuments, Versions
<1>2. WatchedTypes(w) /\ t \in DOMAIN w /\ w[t].key = c /\ w[t].version = v
  <2>1. /\ DOMAIN w = {t} /\ w[t] = [key |-> c, version |-> v] /\ WatchedTypes(w)
    BY <1>1, OnlyAt
  <2> HIDE DEF w
  <2> QED
    BY <2>1
<1>3. e \in Seq(Message)
  BY <1>2, DocumentsAt
<1>4. \A k \in Key : Brings(backend, e, t, c, k, v, Latest)
  BY <1>2, DocumentsBring
<1> HIDE DEF e, w
<1>5. Settled(backend, d, p, q, w, t)
  BY DEF w
<1>6. Settled(backend, d, p, q \o e, n, t)
  BY <1>2, <1>3, <1>4, <1>5, SettledJoined
<1> QED
  BY <1>6 DEF e, w

-----------------------------------------------------------------------------
(***************************************************************************)
(* What the client knows of a target is what the target has at its token.  *)
(***************************************************************************)
LEMMA TokenKnows ==
  ASSUME WatchInv, Truth, NEW t \in Target, Wanted(remote, view, t)
  PROVE  /\ remote.token[t] \in 0 .. Latest
         /\ \A k \in Key :
              Knows(remote, disk, t, k,
                    Worth(backend, t, KeyAsked(remote, t), k, remote.token[t]))
<1> DEFINE h == backend
           c == KeyAsked(remote, t)
           v == remote.token[t]
<1>1. /\ Past(h) /\ DiskTrue(h, disk) /\ ViewTrue(h, disk, target, at, view)
      /\ view.listening => target.token = remote.token[QueryTarget]
      /\ TokenTrue(h, disk, remote, t)
  BY DEF Truth, ClientTrue, StreamTrue, StreamHolds, TargetTrue
<1>2. /\ remote \in RemoteState /\ disk \in Disk /\ disk.seen \in Nat
      /\ Len(h) \in Nat /\ v \in 0 .. MaxVersion
  BY <1>1, ListeningType, PastLength, RemoteFields
<1>3. v <= disk.seen /\ disk.seen <= Len(h)
  BY <1>1 DEF TokenTrue, DiskTrue
<1>4. v \in 0 .. Len(h) /\ v \in 0 .. Latest
  BY <1>2, <1>3, Versions DEF Latest
<1>5. ASSUME NEW k \in Key
      PROVE  Knows(remote, disk, t, k, Worth(h, t, c, k, v))
  <2> DEFINE x == Worth(h, t, c, k, v)
  <2>1. x \in Nat
    BY <1>1, <1>4, WorthIs
  <2>2. x # 0 <=> k \in Known(remote, disk, t)
    BY <1>1 DEF TokenTrue
  <2>3. ASSUME t = QueryTarget
        PROVE  x <= disk.cache[k].version
    <3>1. view.listening /\ c = None /\ v = target.token
      BY <1>1, <2>3 DEF Wanted, KeyAsked
    <3>2. KeysAt(h, disk, v)
      BY <1>1, <3>1 DEF ViewTrue, Resumes
    <3>3. Worth(h, QueryTarget, None, k, v) <= disk.cache[k].version
      BY <1>1, <1>2, <1>4, <3>2, KeysWorth
    <3> QED
      BY <2>3, <3>1, <3>3
  <2> HIDE DEF x
  <2>4. Knows(remote, disk, t, k, x)
    BY <2>1, <2>2, <2>3 DEF Knows
  <2> QED
    BY <2>4 DEF x
<1> QED
  BY <1>4, <1>5

(***************************************************************************)
(* What the server has to send and to remember for a request it takes.     *)
(***************************************************************************)
Remembers(n, m) ==
  \A t \in DOMAIN n :
    /\ n[t].version \in 0 .. Latest
    /\ \/ t \in DOMAIN watched /\ n[t].key = watched[t].key
       \/ m.type = "watch" /\ t = m.target /\ n[t].key = m.key

GoesOn(p, q, n) ==
  \A t \in Target :
    Wanted(remote, view, t) =>
      Waiting(p, t) \/ Settled(backend, disk, p, q, n, t)

LEMMA TrueAnswer ==
  ASSUME WatchInv, Truth, remote.requests # <<>>, NEW m, m = Head(remote.requests),
         NEW p, p = Unasked(remote), remote' = p, SameClient, backend' = backend,
         NEW q, wire' = q, NEW n, watched' = n,
         WireTrue(backend, disk.seen, Updates(remote), q),
         Remembers(n, m), GoesOn(p, q, n)
  PROVE  Truth'
<1> DEFINE h == backend
           r == remote
<1>1. /\ ClientTrue /\ StreamHolds(h, disk, view, r, wire, watched)
      /\ backend' = backend /\ view' = view /\ target' = target
      /\ disk' = disk /\ at' = at
  BY DEF Truth, StreamTrue, SameClient
<1>2. r \in RemoteState
  BY ListeningType
<1>3. /\ p.token = r.token /\ p.open = r.open /\ p.nextId = r.nextId
      /\ p.aggregator = r.aggregator /\ Updates(p) = Updates(r)
  BY <1>2 DEF Unasked, RemoteState, Updates
<1>4. ASSUME NEW t
      PROVE  RequestServed(r, p, disk, m, t)
  BY <1>2, ServesRequest
<1>5. KeysMatch(h, p, n)
  <2>1. KeysMatch(h, r, watched)
    BY <1>1 DEF StreamHolds
  <2>2. \A t \in DOMAIN n : n[t].version \in 0 .. Len(h)
    BY DEF Remembers, Latest
  <2>3. ASSUME NEW t \in Target, Keyed(p, t)
        PROVE  AskedFor(p, t) /\ (t \in DOMAIN n => n[t].key = KeyAsked(p, t))
    <3>1. Keyed(r, t) /\ KeyAsked(p, t) = KeyAsked(r, t)
      BY <1>4, <2>3 DEF RequestServed
    <3>2. AskedFor(r, t) /\ (t \in DOMAIN watched => watched[t].key = KeyAsked(r, t))
      BY <2>1, <3>1 DEF KeysMatch
    <3>3. AskedFor(p, t) /\ (m.type = "watch" /\ m.target = t => m.key = KeyAsked(r, t))
      BY <1>4, <3>2 DEF RequestServed
    <3> QED
      BY <3>1, <3>2, <3>3 DEF Remembers
  <2>4. ASSUME NEW t \in LimboTarget, t >= p.nextId
        PROVE  t \notin DOMAIN n /\ NeverAsked(p, t)
    <3>1. t \notin DOMAIN watched /\ NeverAsked(r, t)
      BY <1>3, <2>1, <2>4 DEF KeysMatch
    <3>2. NeverAsked(p, t) /\ (m.type = "watch" => m.target # t)
      BY <1>4, <3>1 DEF RequestServed
    <3> QED
      BY <3>1, <3>2 DEF Remembers
  <2> QED
    BY <2>2, <2>3, <2>4 DEF KeysMatch
<1>6. ASSUME NEW t \in Target, Wanted(p, view, t)
      PROVE  TargetTrue(h, disk, p, q, n, t)
  <2>1. /\ Wanted(r, view, t) /\ KeyAsked(p, t) = KeyAsked(r, t)
        /\ Known(p, disk, t) = Known(r, disk, t)
    BY <1>4, <1>6 DEF RequestServed
  <2>2. TokenTrue(h, disk, r, t)
    BY <1>1, <2>1 DEF StreamHolds, TargetTrue
  <2>3. TokenTrue(h, disk, p, t)
    BY <1>3, <2>1, <2>2 DEF TokenTrue
  <2> QED
    BY <2>1, <2>3 DEF TargetTrue, GoesOn
<1>7. StreamHolds(h, disk, view, p, q, n)
  BY <1>1, <1>3, <1>5, <1>6 DEF StreamHolds
<1>8. StreamTrue'
  BY <1>1, <1>7 DEF StreamTrue
<1>9. ClientTrue'
  BY <1>1, <1>3 DEF ClientTrue
<1> QED
  BY <1>8, <1>9 DEF Truth

(***************************************************************************)
(* The other targets, and the one that is added, at the end of the answer. *)
(***************************************************************************)
LEMMA TargetServed ==
  ASSUME WatchInv, Truth, remote.requests # <<>>, NEW m, m = Head(remote.requests),
         NEW p, p = Unasked(remote), NEW t \in Target, Wanted(remote, view, t)
  PROVE  \/ Waiting(p, t)
         \/ m.target # t /\ Settled(backend, disk, p, wire, watched, t)
         \/ /\ m = WatchRequest(remote, t) /\ m.target = t /\ NotAsked(p, t)
            /\ KeyAsked(p, t) = KeyAsked(remote, t)
            /\ m.key = KeyAsked(p, t) /\ m.token \in 0 .. Latest
            /\ \A k \in Key :
                 Knows(p, disk, t, k, Worth(backend, t, m.key, k, m.token))
<1> DEFINE h == backend
           r == remote
<1>1. r \in RemoteState /\ r.open
  BY ListeningType, StreamIsOpen
<1>2. RequestServed(r, p, disk, m, t)
  BY <1>1, ServesRequest
<1>3. Waiting(r, t) \/ Settled(h, disk, r, wire, watched, t)
  BY <1>1 DEF Truth, StreamTrue, StreamHolds, TargetTrue
<1>4. CASE Settled(h, disk, r, wire, watched, t)
  <2>1. NotAsked(p, t) /\ m.target # t
    BY <1>2, <1>4 DEF Settled, RequestServed
  <2>2. KeyAsked(p, t) = KeyAsked(r, t)
    BY <1>2 DEF RequestServed
  <2>3. \A k \in Key : \A x :
          /\ Holds(r, disk, t, k, x) => Holds(p, disk, t, k, x)
          /\ Knows(r, disk, t, k, x) => Knows(p, disk, t, k, x)
    BY <1>2 DEF RequestServed
  <2>4. Settled(h, disk, p, wire, watched, t)
    BY <1>4, <2>1, <2>2, <2>3, SettledCarried
  <2> QED
    BY <2>1, <2>4
<1>5. CASE m = WatchRequest(r, t) /\ NotAsked(p, t)
  <2>1. /\ m.target = t /\ m.key = KeyAsked(r, t) /\ m.token = r.token[t]
        /\ KeyAsked(p, t) = KeyAsked(r, t)
    BY <1>2, <1>5 DEF RequestServed, WatchRequest, KeyAsked
  <2>2. /\ r.token[t] \in 0 .. Latest
        /\ \A k \in Key : Knows(r, disk, t, k, Worth(h, t, KeyAsked(r, t), k, r.token[t]))
    BY TokenKnows
  <2>3. \A k \in Key : Knows(p, disk, t, k, Worth(h, t, KeyAsked(r, t), k, r.token[t]))
    BY <1>2, <2>2 DEF RequestServed
  <2> QED
    BY <1>5, <2>1, <2>2, <2>3
<1> QED
  BY <1>2, <1>3, <1>4, <1>5 DEF RequestServed

LEMMA UnaskedMatches ==
  ASSUME NEW r \in RemoteState, r.requests # <<>>, NEW p, p = Unasked(r),
         NEW h, NEW w, KeysMatch(h, r, w)
  PROVE  KeysMatch(h, p, w)
<1>1. \A t : RequestServed(r, p, disk, Head(r.requests), t)
  BY ServesRequest
<1>2. p.nextId = r.nextId
  BY DEF Unasked, RemoteState
<1> QED
  BY <1>1, <1>2 DEF RequestServed, KeysMatch

LEMMA OthersAnswered ==
  ASSUME ServerTypes, Past(backend), NEW d, NEW p, NEW q \in Seq(Message),
         KeysMatch(backend, p, watched), NEW s \in Target, NEW t \in Target,
         Keyed(p, t), s # t, Settled(backend, d, p, q, watched, t),
         NEW n, t \in DOMAIN n, n[t].version = Latest,
         NEW a, a = q \o DocumentMessages(watched, FALSE) \o TargetMessage("added", s),
         NEW c \in Key \cup {None}, NEW v \in 0 .. MaxVersion
  PROVE  /\ Settled(backend, d, p, a \o DocumentMessages(Only(s, c, v), FALSE), n, t)
         /\ Settled(backend, d, p, a \o TargetMessage("reset", s)
                                     \o DocumentMessages(Only(s, c, v), FALSE), n, t)
<1> DEFINE h == backend
           docs == DocumentMessages(watched, FALSE)
           w == UpToDate(watched)
           added == TargetMessage("added", s)
           reset == TargetMessage("reset", s)
           initial == DocumentMessages(Only(s, c, v), FALSE)
<1>1. /\ docs \in Seq(Message) /\ added \in Seq(Message) /\ reset \in Seq(Message)
  BY DocumentsAt, SingleMessages DEF ServerTypes
<1>2. /\ q \o docs \in Seq(Message) /\ a \in Seq(Message) /\ a \o reset \in Seq(Message)
  <2> HIDE DEF docs, added, reset
  <2>1. q \o docs \in Seq(Message)
    BY <1>1, Joined
  <2>2. a \in Seq(Message)
    BY <1>1, <2>1, Joined DEF docs, added
  <2> QED
    BY <1>1, <2>1, <2>2, Joined
<1>3. /\ t \in DOMAIN w /\ w[t].version = Latest
  <2>1. t \in DOMAIN watched /\ WatchedTypes(watched)
    BY DEF Settled, ServerTypes
  <2> QED
    BY <2>1, UpToDateAt
<1>4. Settled(h, d, p, q \o docs, w, t)
  BY SettledUpToDate
<1> HIDE DEF w, docs
<1>5. Settled(h, d, p, q \o docs \o added, n, t)
  BY <1>2, <1>3, <1>4, OthersGoOn
<1>6. Settled(h, d, p, a, n, t)
  BY <1>5 DEF docs
<1>7. Settled(h, d, p, a \o reset, n, t)
  BY <1>2, <1>6, OthersGoOn
<1>8. Settled(h, d, p, a \o initial, n, t)
  BY <1>2, <1>6, OthersGoOn
<1>9. Settled(h, d, p, a \o reset \o initial, n, t)
  <2>1. a \o reset \in Seq(Message)
    BY <1>2
  <2> HIDE DEF reset
  <2> QED
    BY <2>1, <1>7, OthersGoOn
<1> QED
  BY <1>8, <1>9

LEMMA AddedAnswered ==
  ASSUME ServerTypes, Past(backend), NEW d, NEW p, NEW q \in Seq(Message),
         NEW t \in Target, NEW c \in Key \cup {None}, c = KeyAsked(p, t),
         NotAsked(p, t), NEW v \in 0 .. Latest,
         \A k \in Key : Knows(p, d, t, k, Worth(backend, t, c, k, v)),
         NEW n, t \in DOMAIN n, n[t].version = Latest,
         NEW a, a = q \o TargetMessage("added", t)
  PROVE  /\ Settled(backend, d, p, a \o DocumentMessages(Only(t, c, v), FALSE), n, t)
         /\ Settled(backend, d, p, a \o TargetMessage("reset", t)
                                     \o DocumentMessages(Only(t, c, 0), FALSE), n, t)
<1> DEFINE h == backend
           b == a \o TargetMessage("reset", t)
<1>1. v \in 0 .. MaxVersion /\ 0 \in 0 .. Latest
  BY ServerDocuments, Versions
<1>2. /\ a \in Seq(Message) /\ Settled(h, d, p, a, Only(t, c, v), t)
      /\ b \in Seq(Message) /\ Settled(h, d, p, b, Only(t, c, 0), t)
  BY <1>1, TargetBegins
<1> HIDE DEF b
<1>3. Settled(h, d, p, a \o DocumentMessages(Only(t, c, v), FALSE), n, t)
  BY <1>2, TargetGoesOn
<1>4. Settled(h, d, p, b \o DocumentMessages(Only(t, c, 0), FALSE), n, t)
  BY <1>1, <1>2, TargetGoesOn
<1> QED
  BY <1>3, <1>4 DEF b

LEMMA AnswersTrue ==
  ASSUME ServerTypes, Past(backend), NEW d \in Nat, d <= Len(backend), NEW u,
         UpdatesTrue(backend, u), NEW q \in Seq(Message), WireTrue(backend, d, u, q),
         NEW s \in Target, NEW w, WatchedTypes(w),
         NEW a, a = q \o DocumentMessages(watched, FALSE) \o TargetMessage("added", s),
         NEW b, b = a \/ b = a \o TargetMessage("reset", s),
         NEW e, e = b \o DocumentMessages(w, FALSE)
  PROVE  /\ e \in Seq(Message)
         /\ WireTrue(backend, d, u, e \o TargetMessage("current", s) \o Snapshot)
<1> DEFINE h == backend
           True(x) == x \in Seq(Message) /\ WireTrue(h, d, u, x)
           docs == DocumentMessages(watched, FALSE)
           added == TargetMessage("added", s)
           reset == TargetMessage("reset", s)
           initial == DocumentMessages(w, FALSE)
           current == TargetMessage("current", s)
<1>1. /\ Fresh(h, docs) /\ Fresh(h, initial) /\ Fresh(h, added) /\ Fresh(h, reset)
      /\ Fresh(h, current) /\ Fresh(h, Snapshot)
  BY FreshDocuments, FreshSingles DEF ServerTypes
<1>2. ASSUME NEW x, True(x), NEW y, Fresh(h, y)
      PROVE  True(x \o y)
  BY <1>2, WireAppended
<1>3. True(q)
  OBVIOUS
<1> HIDE DEF True, docs, added, reset, initial, current
<1>4. True(q \o docs)
  BY <1>1, <1>2, <1>3
<1>5. True(q \o docs \o added)
  BY <1>1, <1>2, <1>4
<1>6. True(a)
  BY <1>5 DEF docs, added
<1>7. True(a \o reset)
  BY <1>1, <1>2, <1>6
<1>8. True(b)
  BY <1>6, <1>7 DEF reset
<1>9. True(b \o initial)
  BY <1>1, <1>2, <1>8
<1>10. True(e)
  BY <1>9 DEF initial
<1>11. True(e \o current)
  BY <1>1, <1>2, <1>10
<1>12. True(e \o current \o Snapshot)
  BY <1>1, <1>2, <1>11
<1> QED
  BY <1>10, <1>12 DEF True, current

(***************************************************************************)
(* A target is added, resumed or started again.                            *)
(***************************************************************************)
LEMMA TrueAdd ==
  ASSUME WatchInv, Truth, Undisturbed', remote.requests # <<>>,
         NEW m, m = Head(remote.requests), m.type = "watch", AddTarget(m),
         NEW p, p = Unasked(remote), remote' = p, SameClient, backend' = backend,
         NEW n, n = Watching(watched, m), watched' = n
  PROVE  Truth'
<1> DEFINE h == backend
           r == remote
           c == m.key
           s == m.target
           a == wire \o DocumentMessages(watched, FALSE) \o TargetMessage("added", s)
           reset == TargetMessage("reset", s)
           initial(v) == DocumentMessages(Only(s, c, v), FALSE)
           ends(x) == x \o TargetMessage("current", s) \o Snapshot
<1>1. /\ r \in RemoteState /\ wire \in Seq(Message) /\ ServerTypes
      /\ faults \in [Fault -> Nat] /\ disk.seen \in Nat /\ Past(h)
      /\ disk.seen <= Len(h) /\ WireTrue(h, disk.seen, Updates(r), wire)
      /\ UpdatesTrue(h, Updates(r)) /\ KeysMatch(h, r, watched)
  BY ListeningType DEF Truth, ClientTrue, DiskTrue, StreamTrue, StreamHolds, ServerTypes
<1>2. m \in Request /\ s \in Target /\ c \in Key \cup {None} /\ m.token \in 0 .. MaxVersion
  <2>1. m \in Request
    BY <1>1, RemoteFields, Removing
  <2> QED
    BY <2>1 DEF Request
<1>3. \/ wire' = ends(a \o initial(m.token))
      \/ wire' = ends(a \o reset \o initial(0))
  <2>1. ~Happens("filter")
    BY <1>1, Faults DEF Undisturbed, Fault
  <2> QED
    BY <2>1 DEF AddTarget, InitialDocuments
<1>4. DOMAIN n = DOMAIN watched \cup {s}
      /\ \A t \in DOMAIN n : /\ n[t].version = Latest
                             /\ n[t].key = IF t \in DOMAIN watched THEN watched[t].key
                                           ELSE c
  <2>1. /\ DOMAIN Watching(watched, m) = DOMAIN watched \cup {m.target}
        /\ \A t \in DOMAIN Watching(watched, m) :
             /\ Watching(watched, m)[t].version = Latest
             /\ Watching(watched, m)[t].key =
                  IF t \in DOMAIN watched THEN watched[t].key ELSE m.key
    BY DEF Watching
  <2> QED
    BY <2>1
<1>5. Remembers(n, m)
  <2>1. Latest \in 0 .. Latest
    BY <1>1, ServerDocuments, Versions
  <2> QED
    BY <1>4, <2>1 DEF Remembers
<1>6. ASSUME NEW t \in Target, Wanted(r, view, t), ~Waiting(p, t)
      PROVE  /\ Settled(h, disk, p, a \o initial(m.token), n, t)
             /\ Settled(h, disk, p, a \o reset \o initial(0), n, t)
  <2>1. RequestServed(r, p, disk, m, t)
    BY <1>1, ServesRequest
  <2>2. CASE s # t /\ Settled(h, disk, p, wire, watched, t)
    <3>1. KeysMatch(h, p, watched) /\ Keyed(p, t)
      <4>1. Keyed(p, t)
        BY <1>6, <2>1, AsWanted DEF RequestServed
      <4>2. KeysMatch(h, p, watched)
        BY <1>1, UnaskedMatches
      <4> QED
        BY <4>1, <4>2
    <3>2. t \in DOMAIN n /\ n[t].version = Latest
      BY <1>4, <2>2 DEF Settled
    <3> QED
      <4>1. ASSUME NEW v \in 0 .. MaxVersion
            PROVE  /\ Settled(h, disk, p, a \o initial(v), n, t)
                   /\ Settled(h, disk, p, a \o reset \o initial(v), n, t)
        BY <1>1, <1>2, <2>2, <3>1, <3>2, OthersAnswered
      <4>2. 0 \in 0 .. MaxVersion
        BY Versions
      <4> HIDE DEF a, reset, initial
      <4> QED
        BY <1>2, <4>1, <4>2
  <2>3. CASE /\ s = t /\ NotAsked(p, t) /\ c = KeyAsked(p, t)
             /\ m.token \in 0 .. Latest
             /\ \A k \in Key : Knows(p, disk, t, k, Worth(h, t, c, k, m.token))
    <3>1. DocumentMessages(watched, FALSE) \in Seq(Message)
      BY <1>1, DocumentsAt DEF ServerTypes
    <3>2. wire \o DocumentMessages(watched, FALSE) \in Seq(Message)
      BY <1>1, <3>1, Joined
    <3>3. t \in DOMAIN n /\ n[t].version = Latest
      BY <1>4, <2>3
    <3> DEFINE o == wire \o DocumentMessages(watched, FALSE)
               l == o \o TargetMessage("added", t)
               v == m.token
               key == c
    <3>4. /\ key \in Key \cup {None} /\ o \in Seq(Message) /\ v \in 0 .. Latest
          /\ key = KeyAsked(p, t) /\ NotAsked(p, t)
          /\ \A k \in Key : Knows(p, disk, t, k, Worth(h, t, key, k, v))
          /\ l = o \o TargetMessage("added", t)
      BY <1>2, <2>3, <3>2
    <3> HIDE DEF o, v, key, l
    <3>5. /\ Settled(h, disk, p, l \o DocumentMessages(Only(t, key, v), FALSE), n, t)
          /\ Settled(h, disk, p, l \o TargetMessage("reset", t)
                                   \o DocumentMessages(Only(t, key, 0), FALSE), n, t)
      BY <1>1, <3>3, <3>4, AddedAnswered
    <3> QED
      BY <2>3, <3>5 DEF o, v, key, l
  <2> QED
    BY <1>6, <2>2, <2>3, TargetServed
<1>7. ASSUME NEW x \in Seq(Message), wire' = ends(x),
             WireTrue(h, disk.seen, Updates(r), ends(x)),
             \A t \in Target : Wanted(r, view, t) =>
               Waiting(p, t) \/ Settled(h, disk, p, x, n, t)
      PROVE  Truth'
  <2>1. ASSUME NEW t \in Target, Settled(h, disk, p, x, n, t)
        PROVE  Settled(h, disk, p, ends(x), n, t)
    <3>1. n[t].version = Latest
      BY <1>4, <2>1 DEF Settled
    <3> QED
      BY <1>1, <1>2, <2>1, <3>1, AnswerEnds
  <2> DEFINE q == ends(x)
  <2>2. wire' = q /\ WireTrue(h, disk.seen, Updates(r), q)
    BY <1>7
  <2>3. GoesOn(p, q, n)
    BY <1>7, <2>1 DEF GoesOn
  <2> HIDE DEF q
  <2> QED
    BY <1>5, <2>2, <2>3, TrueAnswer
<1>8. \A v \in 0 .. MaxVersion : WatchedTypes(Only(s, c, v))
  BY <1>2, OnlyAt
<1> HIDE DEF s, c
<1>9. CASE wire' = ends(a \o initial(m.token))
  <2> DEFINE x == a \o initial(m.token)
  <2>1. x \in Seq(Message) /\ WireTrue(h, disk.seen, Updates(r), ends(x))
    BY <1>1, <1>2, <1>8, AnswersTrue
  <2>2. \A t \in Target : Wanted(r, view, t) =>
          Waiting(p, t) \/ Settled(h, disk, p, x, n, t)
    BY <1>6
  <2> HIDE DEF x, ends
  <2> QED
    BY <1>7, <1>9, <2>1, <2>2 DEF x
<1>10. CASE wire' = ends(a \o reset \o initial(0))
  <2> DEFINE x == a \o reset \o initial(0)
  <2>1. x \in Seq(Message) /\ WireTrue(h, disk.seen, Updates(r), ends(x))
    BY <1>1, <1>2, <1>8, AnswersTrue, Versions
  <2>2. \A t \in Target : Wanted(r, view, t) =>
          Waiting(p, t) \/ Settled(h, disk, p, x, n, t)
    BY <1>6
  <2> HIDE DEF x, ends
  <2> QED
    BY <1>7, <1>10, <2>1, <2>2 DEF x
<1> QED
  BY <1>3, <1>9, <1>10

(***************************************************************************)
(* The answers of the server: one that refuses a target disturbs.          *)
(***************************************************************************)
LEMMA TrueServe ==
  ASSUME WatchInv, Truth, Undisturbed', Serve
  PROVE  Truth'
<1> DEFINE h == backend
           r == remote
           m == Head(r.requests)
           p == Unasked(r)
           s == m.target
<1>1. /\ r.requests # <<>> /\ remote' = p /\ backend' = h /\ SameClient
      /\ \/ /\ m.type = "watch" /\ AddTarget(m) /\ watched' = Watching(watched, m)
         \/ m.type = "watch" /\ RefuseTarget(m)
         \/ /\ m.type = "unwatch"
            /\ wire' = wire \o TargetMessage("removed", s)
            /\ watched' = Restrict(watched, DOMAIN watched \ {s})
  BY DEF Serve, SameClient, Unasked
<1>2. /\ r \in RemoteState /\ wire \in Seq(Message) /\ ServerTypes
      /\ faults \in [Fault -> Nat] /\ disk.seen \in Nat /\ Past(h)
      /\ disk.seen <= Len(h) /\ WireTrue(h, disk.seen, Updates(r), wire)
      /\ UpdatesTrue(h, Updates(r)) /\ KeysMatch(h, r, watched)
  BY ListeningType DEF Truth, ClientTrue, DiskTrue, StreamTrue, StreamHolds, ServerTypes
<1>3. s \in Target
  <2>1. m \in Request
    BY <1>1, <1>2, RemoteFields, Removing
  <2> QED
    BY <2>1 DEF Request
<1>4. ~RefuseTarget(m)
  BY <1>2, Faults DEF RefuseTarget, Undisturbed, Fault
<1> HIDE DEF m, p
<1>5. CASE m.type = "watch" /\ AddTarget(m) /\ watched' = Watching(watched, m)
  BY <1>1, <1>5, TrueAdd DEF m, p
<1>6. CASE /\ m.type = "unwatch"
           /\ wire' = wire \o TargetMessage("removed", s)
           /\ watched' = Restrict(watched, DOMAIN watched \ {s})
  <2> DEFINE n == Restrict(watched, DOMAIN watched \ {s})
             e == TargetMessage("removed", s)
             q == wire \o e
  <2>1. /\ DOMAIN n = DOMAIN watched \ {s} /\ \A t \in DOMAIN n : n[t] = watched[t]
        /\ watched' = n /\ wire' = q
    BY <1>6 DEF Restrict
  <2>2. WireTrue(h, disk.seen, Updates(r), q)
    BY <1>2, <1>3, FreshSingles, WireAppended
  <2> HIDE DEF n
  <2>3. Remembers(n, m)
    <3>1. \A t \in DOMAIN watched : watched[t].version \in 0 .. Latest
      BY <1>2 DEF KeysMatch, Latest
    <3> QED
      BY <2>1, <3>1 DEF Remembers
  <2>4. ASSUME NEW t \in Target, Wanted(r, view, t), ~Waiting(p, t)
        PROVE  Settled(h, disk, p, q, n, t)
    <3>1. m # WatchRequest(r, t)
      BY <1>6 DEF WatchRequest
    <3>2. s # t /\ Settled(h, disk, p, wire, watched, t)
      BY <1>1, <2>4, <3>1, TargetServed DEF m, p
    <3>3. t \in DOMAIN n /\ n[t].version = watched[t].version
      BY <2>1, <3>2 DEF Settled
    <3> HIDE DEF s
    <3> QED
      BY <1>2, <1>3, <3>2, <3>3, OthersGoOn
  <2> HIDE DEF q
  <2>5. GoesOn(p, q, n)
    BY <2>4 DEF GoesOn
  <2> QED
    BY <1>1, <2>1, <2>2, <2>3, <2>5, TrueAnswer DEF m, p
<1> QED
  BY <1>1, <1>4, <1>5, <1>6

-----------------------------------------------------------------------------
(***************************************************************************)
(* The invariant with the truth, while nothing has disturbed the stream.   *)
(***************************************************************************)
TrueInv == WatchInv /\ (Undisturbed => Truth)

LEMMA TrueInit ==
  ASSUME Init
  PROVE  Truth
<1> DEFINE docs == [k \in Key |-> [version |-> 1, kind |-> "in"]]
           h == backend
<1>1. /\ backend = <<docs>>
      /\ watched = <<>> /\ wire = <<>> /\ remote = NewRemote /\ view = NewView
      /\ disk = [cache |-> [k \in Key |-> Cached(Missing, 0)], keys |-> {},
                 seen |-> 0, token |-> 0, limboFree |-> 0]
  BY DEF Init
<1>2. /\ h \in Seq([Key -> ServerDocument]) /\ Len(h) = 1 /\ h[1] = docs
  <2>1. docs \in [Key -> ServerDocument]
    BY Versions DEF ServerDocument, Kind
  <2> HIDE DEF docs
  <2> QED
    BY <1>1, <2>1, CountOne
<1>3. Past(h)
  <2>1. ASSUME NEW k \in Key, NEW w \in 1 .. Len(h)
        PROVE  /\ h[w][k].version \in 1 .. w
               /\ \A v \in 0 .. w : \/ At(h, k, w) = At(h, k, v)
                                    \/ v < At(h, k, w).version
    <3>1. w = 1 /\ h[w][k].version = 1 /\ At(h, k, w).version = 1
      BY <1>2, <2>1 DEF At
    <3> QED
      BY <3>1
  <2> HIDE DEF docs
  <2> QED
    BY <1>2, <2>1, Versions DEF Past, History
<1> HIDE DEF docs
<1>4. /\ disk.keys = {} /\ disk.seen = 0 /\ disk.token = 0 /\ disk.limboFree = 0
      /\ \A k \in Key : disk.cache[k] = [version |-> 0, kind |-> None, read |-> 0]
  BY <1>1 DEF Cached, Missing
<1>5. \A k : At(h, k, 0) = [version |-> 0, kind |-> None]
  BY DEF At, Missing
<1>6. CacheTrue(h, disk) /\ KeysAt(h, disk, 0) /\ Leaves(h, disk, 0, 0)
  <2>1. 0 \in 0 .. 0 /\ ~(0 > 0)
    OBVIOUS
  <2>2. CacheTrue(h, disk)
    BY <1>4, <1>5, <2>1 DEF CacheTrue, Reflects
  <2>3. KeysAt(h, disk, 0)
    BY <1>4, <1>5 DEF KeysAt, None
  <2> QED
    BY <2>1, <2>2, <2>3 DEF Leaves
<1>7. DiskTrue(h, disk)
  BY <1>2, <1>4, <1>6 DEF DiskTrue, Resumes
<1>8. /\ ~view.listening /\ remote.aggregator = NewAggregator /\ remote.requests = <<>>
      /\ \A t \in LimboTarget : remote.keyOf[t] = None
  BY <1>1 DEF NewRemote, NewView
<1>9. ClientTrue
  BY <1>3, <1>7, <1>8 DEF ClientTrue, ViewTrue
<1>10. \A t \in Target : ~Wanted(remote, view, t)
  BY <1>8, Targets DEF Wanted
<1>11. StreamTrue
  BY <1>1, <1>8, <1>10, ClosedTrue DEF StreamTrue, StreamHolds
<1> QED
  BY <1>9, <1>11 DEF Truth

LEMMA TrueStutters ==
  ASSUME Truth, UNCHANGED vars
  PROVE  Truth'
<1>1. /\ backend' = backend /\ watched' = watched /\ wire' = wire /\ remote' = remote
      /\ view' = view /\ target' = target /\ disk' = disk /\ at' = at
  BY DEF vars
<1> QED
  BY <1>1 DEF Truth, ClientTrue, StreamTrue

(***************************************************************************)
(* A disturbance is not undone.                                            *)
(***************************************************************************)
LEMMA StaysDisturbed ==
  ASSUME faults \in [Fault -> Nat], [Next]_vars, Undisturbed'
  PROVE  Undisturbed
<1>1. CASE UNCHANGED faults
  BY <1>1 DEF Undisturbed
<1>2. CASE \E kind \in Fault : Happens(kind)
  BY <1>2, Faults DEF Undisturbed
<1>3. UNCHANGED faults \/ \E kind \in Fault : Happens(kind)
  <2>1. CASE Listen \/ StopListening \/ Kill \/ HandleOnlineStateChange
    BY <2>1 DEF Listen, StopListening, Kill, HandleOnlineStateChange, Fault
  <2>2. CASE OnWatchStreamOpen \/ OnWatchStreamClose \/ OnWatchStreamChange
    BY <2>2 DEF OnWatchStreamOpen, OnWatchStreamClose, OnWatchStreamChange, Fault
  <2>3. CASE \E k \in Key, kind \in Kind : ServerWrite(k, kind)
    BY <2>3 DEF ServerWrite
  <2>4. CASE Push
    BY <2>4 DEF Push, Fault
  <2>5. CASE Serve
    BY <2>5 DEF Serve, AddTarget, RefuseTarget, Fault
  <2>6. CASE UNCHANGED vars
    BY <2>6 DEF vars
  <2> QED
    BY <2>1, <2>2, <2>3, <2>4, <2>5, <2>6 DEF Next
<1> QED
  BY <1>1, <1>2, <1>3

LEMMA TrueNext ==
  ASSUME WatchInv, WatchInv', Truth, Undisturbed, Undisturbed', [Next]_vars
  PROVE  Truth'
<1>1. CASE Next
  BY <1>1, TrueListen, TrueStopListening, TrueStreamOpen, TrueStreamClose,
     TrueOffline, TrueKill, TrueOnWatchStreamChange, TrueServerWrite, TruePush,
     TrueServe DEF Next
<1>2. CASE UNCHANGED vars
  BY <1>2, TrueStutters
<1> QED
  BY <1>1, <1>2

(***************************************************************************)
(* While the server has denied no listen and sent no count of the          *)
(* documents, the caches, the view and what is under way to the client are *)
(* true: each cached document is one the server had, the keys of a target  *)
(* are the documents it had at its token, and what the aggregator holds    *)
(* with the messages on the wire brings the target to the version the      *)
(* server remembers for it.                                                *)
(***************************************************************************)
THEOREM TruthIsKept == Spec => [](Undisturbed => Truth)
<1>1. Init => TrueInv
  BY WatchInit, TrueInit DEF TrueInv
<1>2. TrueInv /\ WatchInv' /\ [Next]_vars => TrueInv'
  <2> SUFFICES ASSUME TrueInv, WatchInv', [Next]_vars, Undisturbed'
               PROVE  Truth'
    BY DEF TrueInv
  <2>1. WatchInv /\ faults \in [Fault -> Nat]
    BY ListeningType DEF TrueInv
  <2>2. Undisturbed
    BY <2>1, StaysDisturbed
  <2>3. Truth
    BY <2>2 DEF TrueInv
  <2> QED
    BY <2>1, <2>2, <2>3, TrueNext
<1>3. TrueInv => (Undisturbed => Truth)
  BY DEF TrueInv
<1> QED
  BY <1>1, <1>2, <1>3, WatchInvariant, PTL DEF Spec

(***************************************************************************)
(* A view that is said not to be from the cache agrees with the server     *)
(* whatever the streams do: breaks, resumed and restarted targets, answers *)
(* to earlier listens, lookups of documents in limbo, restarts of the app. *)
(***************************************************************************)
THEOREM SyncedAgrees == Spec => [](Undisturbed => SyncedIsServer)
<1>1. WatchInv /\ (Undisturbed => Truth) => (Undisturbed => SyncedIsServer)
  <2> SUFFICES ASSUME WatchInv, Truth
               PROVE  SyncedIsServer
    OBVIOUS
  <2> QED
    BY ListeningType, AsServer DEF Truth, ClientTrue
<1> QED
  BY <1>1, TruthIsKept, WatchInvariant, PTL

(***************************************************************************)
(* The shortcut of IndexFreeQueryEngine leaves out no cached document that *)
(* the server has with these contents at the version the next listen       *)
(* resumes at or later: what it skips was read before a view was in sync,  *)
(* and has changed on the server since.                                    *)
(***************************************************************************)
THEOREM ShortcutMissesNothing == Spec => [](Undisturbed => QueryMissesNothing)
<1>1. WatchInv /\ (Undisturbed => Truth) => (Undisturbed => QueryMissesNothing)
  <2> SUFFICES ASSUME WatchInv, Truth
               PROVE  QueryMissesNothing
    OBVIOUS
  <2> QED
    BY ListeningType, NothingMissed DEF Truth, ClientTrue
<1> QED
  BY <1>1, TruthIsKept, WatchInvariant, PTL
=============================================================================
