---------------------------- MODULE WriteLogProofs ----------------------------
(***************************************************************************)
(* Every behaviour of WriteLog commits the writes of a device in order.    *)
(***************************************************************************)
EXTENDS WriteLog, SequenceTheorems, TLAPS

(***************************************************************************)
(* What a step does to the set of committed writes.                        *)
(***************************************************************************)
LEMMA RangeOfAppend ==
  ASSUME NEW S, NEW s \in Seq(S), NEW x \in S
  PROVE  Range(Append(s, x)) = Range(s) \cup {x}
<1>1. Append(s, x) \in Seq(S) /\ Len(Append(s, x)) = Len(s) + 1
  BY AppendProperties
<1>2. DOMAIN Append(s, x) = 1 .. Len(s) + 1 /\ DOMAIN s = 1 .. Len(s)
  BY <1>1
<1>3. Append(s, x)[Len(s) + 1] = x
  BY AppendProperties
<1>4. \A i \in 1 .. Len(s) : Append(s, x)[i] = s[i]
  BY AppendProperties
<1>5. Len(s) \in Nat
  OBVIOUS
<1> QED
  BY <1>2, <1>3, <1>4, <1>5 DEF Range

(***************************************************************************)
(* A stored write keeps the writes of its device in order.                 *)
(***************************************************************************)
LEMMA StoreKeepsInvariant ==
  ASSUME Number \subseteq Nat \ {0},
         WriteLogInvariant, NEW d \in Device, NEW n \in Number, Store(d, n)
  PROVE  WriteLogInvariant'
<1> USE DEF WriteLogInvariant, Store
<1>1. TypeOK'
  BY DEF TypeOK
<1>a. outbox[d] \in Seq(Number)
  BY DEF TypeOK
<1>b. outbox'[d] = Append(outbox[d], n)
  BY DEF TypeOK
<1>c. \A e \in Device \ {d} : outbox'[e] = outbox[e]
  BY DEF TypeOK
<1>d. /\ DOMAIN outbox'[d] = 1 .. Len(outbox[d]) + 1
      /\ Len(outbox[d]) \in Nat
      /\ DOMAIN outbox[d] = 1 .. Len(outbox[d])
      /\ outbox'[d][Len(outbox[d]) + 1] = n
      /\ \A i \in DOMAIN outbox[d] : outbox'[d][i] = outbox[d][i]
  BY <1>a, <1>b, AppendProperties
<1>e. \A i \in DOMAIN outbox[d] :
        outbox[d][i] \in Number /\ outbox[d][i] \in Range(outbox[d])
  BY <1>a, <1>d DEF Range
<1>f. \A e \in Device : \A m : Committed(e, m)' <=> Committed(e, m)
  BY DEF Committed
<1>2. OutboxSorted'
  <2> SUFFICES ASSUME NEW e \in Device,
                      NEW i \in DOMAIN outbox'[e], NEW j \in DOMAIN outbox'[e],
                      i < j
               PROVE  outbox'[e][i] < outbox'[e][j]
    BY DEF OutboxSorted
  <2>1. CASE e # d
    BY <2>1, <1>c DEF OutboxSorted
  <2>2. CASE e = d /\ j = Len(outbox[d]) + 1
    <3>1. i \in DOMAIN outbox[d]
      BY <2>2, <1>d
    <3> QED
      BY <3>1, <2>2, <1>d, <1>e
  <2>3. CASE e = d /\ j # Len(outbox[d]) + 1
    <3>1. i \in DOMAIN outbox[d] /\ j \in DOMAIN outbox[d]
      BY <2>3, <1>d
    <3> QED
      BY <3>1, <2>3, <1>d DEF OutboxSorted
  <2> QED
    BY <2>1, <2>2, <2>3
<1>3. UncommittedIsLater'
  <2> SUFFICES ASSUME NEW e \in Device, NEW i \in DOMAIN outbox'[e],
                      <<e, outbox'[e][i]>> \notin Range(log'),
                      NEW m \in Number, Committed(e, m)'
               PROVE  m < outbox'[e][i]
    BY DEF UncommittedIsLater, Committed
  <2>1. Committed(e, m) /\ ~Committed(e, outbox'[e][i])
    BY DEF Committed
  <2>2. CASE e # d
    BY <2>1, <2>2, <1>c DEF UncommittedIsLater
  <2>3. CASE e = d /\ i = Len(outbox[d]) + 1
    BY <2>1, <2>3, <1>d
  <2>4. CASE e = d /\ i # Len(outbox[d]) + 1
    <3>1. i \in DOMAIN outbox[d]
      BY <2>4, <1>d
    <3> QED
      BY <3>1, <2>1, <2>4, <1>d DEF UncommittedIsLater
  <2> QED
    BY <2>2, <2>3, <2>4
<1>4. FirstCommitsInOrder'
  BY DEF FirstCommitsInOrder, FirstCommit
<1> QED
  BY <1>1, <1>2, <1>3, <1>4

(***************************************************************************)
(* A commit is a repetition, or comes after all other commits of its       *)
(* device: those before it in the outbox are committed already.            *)
(***************************************************************************)
LEMMA DeliverKeepsInvariant ==
  ASSUME Number \subseteq Nat \ {0},
         WriteLogInvariant, NEW d \in Device, NEW i \in DOMAIN outbox[d],
         Deliver(d, i)
  PROVE  WriteLogInvariant'
<1> USE DEF WriteLogInvariant
<1> DEFINE n == outbox[d][i]
<1>a. /\ outbox[d] \in Seq(Number)
      /\ DOMAIN outbox[d] = 1 .. Len(outbox[d])
      /\ i \in Nat
      /\ n \in Number
      /\ log \in Seq(Device \X Number)
  BY DEF TypeOK
<1>b. log' = Append(log, <<d, n>>) /\ outbox' = outbox /\ refused' = refused
  BY DEF Deliver
<1>c. <<d, n>> \in Device \X Number
  BY <1>a
<1>d. Range(log') = Range(log) \cup {<<d, n>>}
  BY <1>a, <1>b, <1>c, RangeOfAppend
<1>e. \A e \in Device : \A m : Committed(e, m)' <=> Committed(e, m) \/ <<e, m>> = <<d, n>>
  BY <1>b, <1>d DEF Committed
<1>1. TypeOK'
  BY <1>a, <1>b, <1>c DEF TypeOK
<1>2. OutboxSorted'
  BY <1>b DEF OutboxSorted
<1>3. UncommittedIsLater'
  <2> SUFFICES ASSUME NEW e \in Device, NEW j \in DOMAIN outbox[e],
                      ~Committed(e, outbox[e][j])',
                      NEW m \in Number, Committed(e, m)'
               PROVE  m < outbox[e][j]
    BY <1>b DEF UncommittedIsLater
  <2>1. ~Committed(e, outbox[e][j])
    BY <1>b, <1>e
  <2>2. CASE Committed(e, m)
    BY <2>1, <2>2 DEF UncommittedIsLater
  <2>3. CASE e = d /\ m = n
    <3>1. j \in Nat /\ j # i
      BY <2>3, <1>a, <1>b, <1>e
    <3>2. ~(j < i)
      <4> SUFFICES ASSUME j < i PROVE FALSE
        OBVIOUS
      <4>1. j \in 1 .. i - 1
        BY <1>a, <2>3
      <4> QED
        BY <4>1, <2>1, <2>3 DEF Deliver, Reaches
    <3>3. i < j
      BY <3>1, <3>2, <1>a
    <3> QED
      BY <3>3, <2>3 DEF OutboxSorted
  <2>4. Committed(e, m) \/ (e = d /\ m = n)
    BY <1>e
  <2> QED
    BY <2>2, <2>3, <2>4
<1>4. FirstCommitsInOrder'
  <2>a. /\ Len(log) \in Nat
        /\ DOMAIN log = 1 .. Len(log)
        /\ DOMAIN log' = 1 .. Len(log) + 1
        /\ log'[Len(log) + 1] = <<d, n>>
        /\ \A k \in DOMAIN log : log'[k] = log[k]
    BY <1>a, <1>b, <1>c, AppendProperties
  <2> SUFFICES ASSUME NEW j \in DOMAIN log', FirstCommit(j)',
                      NEW k \in 1 .. j - 1, log'[k][1] = log'[j][1]
               PROVE  log'[k][2] < log'[j][2]
    BY DEF FirstCommitsInOrder
  <2>0. k \in DOMAIN log /\ log'[k] = log[k]
    BY <2>a
  <2>1. CASE j \in DOMAIN log
    <3>1. \A l \in 1 .. j - 1 : log'[l] = log[l]
      BY <2>a, <2>1
    <3>2. FirstCommit(j)
      BY <3>1, <2>1, <2>a DEF FirstCommit
    <3> QED
      BY <3>2, <2>0, <2>1, <2>a DEF FirstCommitsInOrder
  <2>2. CASE j = Len(log) + 1
    <3>1. ~Committed(d, n)
      <4>1. \A l \in 1 .. Len(log) : log[l] # <<d, n>>
        BY <2>2, <2>a DEF FirstCommit
      <4> QED
        BY <4>1, <2>a DEF Committed, Range
    <3>2. log[k] \in Device \X Number /\ log[k] \in Range(log)
      BY <1>a, <2>0 DEF Range
    <3>3. log[k][1] = d /\ log[k] = <<d, log[k][2]>> /\ log[k][2] \in Number
      BY <3>2, <2>0, <2>2, <2>a
    <3>4. Committed(d, log[k][2])
      BY <3>2, <3>3 DEF Committed
    <3>5. log[k][2] < n
      BY <3>1, <3>3, <3>4 DEF UncommittedIsLater
    <3> QED
      BY <3>5, <2>0, <2>2, <2>a
  <2> QED
    BY <2>1, <2>2, <2>a
<1> QED
  BY <1>1, <1>2, <1>3, <1>4

LEMMA AnswerKeepsInvariant ==
  ASSUME Number \subseteq Nat \ {0}, WriteLogInvariant, NEW d \in Device, Answer(d)
  PROVE  WriteLogInvariant'
<1> USE DEF WriteLogInvariant
<1>a. /\ outbox[d] \in Seq(Number)
      /\ outbox[d] # <<>>
      /\ outbox' = [outbox EXCEPT ![d] = Tail(outbox[d])]
      /\ log' = log
  BY DEF Answer, TypeOK
<1>b. Tail(outbox[d]) \in Seq(Number)
  BY <1>a, HeadTailProperties
<1>c. outbox'[d] = Tail(outbox[d]) /\ \A e \in Device \ {d} : outbox'[e] = outbox[e]
  BY <1>a DEF TypeOK
<1>d. \A i \in DOMAIN outbox'[d] :
        /\ i \in Nat /\ i + 1 \in DOMAIN outbox[d]
        /\ outbox'[d][i] = outbox[d][i + 1]
  <2>1. /\ Len(Tail(outbox[d])) = Len(outbox[d]) - 1
        /\ \A i \in 1 .. Len(Tail(outbox[d])) : Tail(outbox[d])[i] = outbox[d][i + 1]
    BY <1>a, HeadTailProperties
  <2>2. /\ DOMAIN outbox'[d] = 1 .. Len(Tail(outbox[d]))
        /\ DOMAIN outbox[d] = 1 .. Len(outbox[d])
        /\ Len(outbox[d]) \in Nat
    <3>1. outbox[d] \in Seq(Number)
      BY <1>a
    <3>2. DOMAIN Tail(outbox[d]) = 1 .. Len(Tail(outbox[d]))
      BY <1>b
    <3> QED
      BY <3>1, <3>2, <1>c
  <2> QED
    BY <2>1, <2>2, <1>c
<1>e. \A e \in Device : \A m : Committed(e, m)' <=> Committed(e, m)
  BY <1>a DEF Committed
<1>1. TypeOK'
  <2>1. outbox' \in [Device -> Seq(Number)]
    BY <1>a, <1>b DEF TypeOK
  <2>2. refused' \in [Device -> Number \cup {0}]
    BY DEF Answer, TypeOK
  <2> QED
    BY <2>1, <2>2, <1>a DEF TypeOK
<1>2. OutboxSorted'
  <2> SUFFICES ASSUME NEW e \in Device,
                      NEW i \in DOMAIN outbox'[e], NEW j \in DOMAIN outbox'[e],
                      i < j
               PROVE  outbox'[e][i] < outbox'[e][j]
    BY DEF OutboxSorted
  <2>1. CASE e # d
    BY <2>1, <1>c DEF OutboxSorted
  <2>2. CASE e = d
    <3>1. i + 1 < j + 1
      BY <1>d, <2>2
    <3> QED
      BY <3>1, <2>2, <1>d DEF OutboxSorted
  <2> QED
    BY <2>1, <2>2
<1>3. UncommittedIsLater'
  <2> SUFFICES ASSUME NEW e \in Device, NEW i \in DOMAIN outbox'[e],
                      <<e, outbox'[e][i]>> \notin Range(log'),
                      NEW m \in Number, Committed(e, m)'
               PROVE  m < outbox'[e][i]
    BY DEF UncommittedIsLater, Committed
  <2>1. Committed(e, m) /\ ~Committed(e, outbox'[e][i])
    BY <1>a DEF Committed
  <2>2. CASE e # d
    BY <2>1, <2>2, <1>c DEF UncommittedIsLater
  <2>3. CASE e = d
    BY <2>1, <2>3, <1>d DEF UncommittedIsLater
  <2> QED
    BY <2>2, <2>3
<1>4. FirstCommitsInOrder'
  BY <1>a DEF FirstCommitsInOrder, FirstCommit
<1> QED
  BY <1>1, <1>2, <1>3, <1>4

(***************************************************************************)
(* A refusal changes neither the outbox nor the log.                       *)
(***************************************************************************)
LEMMA SameOutboxAndLog ==
  ASSUME WriteLogInvariant, outbox' = outbox, log' = log,
         refused' \in [Device -> Number \cup {0}]
  PROVE  WriteLogInvariant'
BY DEF WriteLogInvariant, TypeOK, OutboxSorted, UncommittedIsLater, Committed,
       FirstCommitsInOrder, FirstCommit

LEMMA StepKeepsInvariant ==
  ASSUME Number \subseteq Nat \ {0}, WriteLogInvariant, [Next]_writeLogVars
  PROVE  WriteLogInvariant'
<1>t. TypeOK
  BY DEF WriteLogInvariant
<1>1. ASSUME NEW d \in Device, NEW n \in Number, Store(d, n)
      PROVE  WriteLogInvariant'
  BY <1>1, StoreKeepsInvariant
<1>2. ASSUME NEW d \in Device, NEW i \in DOMAIN outbox[d], Deliver(d, i)
      PROVE  WriteLogInvariant'
  BY <1>2, DeliverKeepsInvariant
<1>3. ASSUME NEW d \in Device, NEW i \in DOMAIN outbox[d], Refuse(d, i)
      PROVE  WriteLogInvariant'
  <2>1. outbox[d][i] \in Number
    BY <1>t DEF TypeOK
  <2>2. refused' \in [Device -> Number \cup {0}]
    BY <2>1, <1>3, <1>t DEF Refuse, TypeOK
  <2> QED
    BY <2>2, <1>3, SameOutboxAndLog DEF Refuse
<1>4. ASSUME NEW d \in Device, Forget(d)
      PROVE  WriteLogInvariant'
  <2>1. refused' \in [Device -> Number \cup {0}]
    BY <1>4, <1>t DEF Forget, TypeOK
  <2> QED
    BY <2>1, <1>4, SameOutboxAndLog DEF Forget
<1>5. ASSUME NEW d \in Device, Answer(d)
      PROVE  WriteLogInvariant'
  BY <1>5, AnswerKeepsInvariant
<1>6. CASE UNCHANGED writeLogVars
  BY <1>6, <1>t, SameOutboxAndLog DEF writeLogVars, TypeOK
<1> QED
  BY <1>1, <1>2, <1>3, <1>4, <1>5, <1>6 DEF Next

(***************************************************************************)
(* Writes reach the server for the first time in the order in which they   *)
(* were stored: a refused write is left out, and one that is sent again    *)
(* comes too late to matter, however often that happens.                   *)
(***************************************************************************)
THEOREM CommitsAreOrdered ==
  ASSUME Number \subseteq Nat \ {0}
  PROVE  Spec => []FirstCommitsInOrder
<1>1. Init => WriteLogInvariant
  <2> SUFFICES ASSUME Init PROVE WriteLogInvariant
    OBVIOUS
  <2>1. \A d \in Device : outbox[d] = <<>>
    BY DEF Init
  <2>2. TypeOK
    BY DEF Init, TypeOK
  <2>3. OutboxSorted
    BY <2>1 DEF OutboxSorted
  <2>4. UncommittedIsLater
    BY <2>1 DEF UncommittedIsLater
  <2>5. FirstCommitsInOrder
    BY DEF Init, FirstCommitsInOrder
  <2> QED
    BY <2>2, <2>3, <2>4, <2>5 DEF WriteLogInvariant
<1>2. WriteLogInvariant /\ [Next]_writeLogVars => WriteLogInvariant'
  BY StepKeepsInvariant
<1>3. WriteLogInvariant => FirstCommitsInOrder
  BY DEF WriteLogInvariant
<1> QED
  BY <1>1, <1>2, <1>3, PTL DEF Spec
==============================================================================
