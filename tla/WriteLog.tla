------------------------------- MODULE WriteLog -------------------------------
(***************************************************************************)
(* What the SDK promises of the writes of a device, whatever happens to    *)
(* the network and to the app: a stored write is committed at least once,  *)
(* for the first time in the order of storing, unless the server refuses   *)
(* it, and it is forgotten only when one of the two has happened.          *)
(*                                                                         *)
(* outbox[d] holds the numbers of the writes that are stored on d; log the *)
(* commits of the server; refused[d] the write whose refusal has not yet   *)
(* reached d, or 0.  FirestoreClient is shown to implement this module.    *)
(***************************************************************************)
EXTENDS SequencesExt, Naturals

CONSTANTS
  Device,
  Number     \* the numbers writes can have, positive integers

VARIABLES outbox, log, refused

writeLogVars == <<outbox, log, refused>>

Committed(d, n) == <<d, n>> \in Range(log)

(***************************************************************************)
(* A new write has a higher number than any other of its device.           *)
(***************************************************************************)
Store(d, n) ==
  /\ \A m \in Range(outbox[d]) : m < n
  /\ \A m \in Number : Committed(d, m) => m < n
  /\ outbox' = [outbox EXCEPT ![d] = Append(@, n)]
  /\ UNCHANGED <<log, refused>>

(***************************************************************************)
(* The server gets to the ith stored write after all before it.            *)
(***************************************************************************)
Reaches(d, i) ==
  /\ refused[d] = 0
  /\ \A j \in 1 .. i - 1 : Committed(d, outbox[d][j])

Deliver(d, i) ==
  /\ Reaches(d, i)
  /\ log' = Append(log, <<d, outbox[d][i]>>)
  /\ UNCHANGED <<outbox, refused>>

Refuse(d, i) ==
  /\ Reaches(d, i)
  /\ refused' = [refused EXCEPT ![d] = outbox[d][i]]
  /\ UNCHANGED <<outbox, log>>

(***************************************************************************)
(* A lost connection takes the refusal with it.                            *)
(***************************************************************************)
Forget(d) ==
  /\ refused[d] # 0
  /\ refused' = [refused EXCEPT ![d] = 0]
  /\ UNCHANGED <<outbox, log>>

Answer(d) ==
  /\ outbox[d] # <<>>
  /\ \/ /\ Committed(d, Head(outbox[d]))
        /\ refused[d] # Head(outbox[d])
        /\ UNCHANGED refused
     \/ /\ refused[d] = Head(outbox[d])
        /\ refused' = [refused EXCEPT ![d] = 0]
  /\ outbox' = [outbox EXCEPT ![d] = Tail(@)]
  /\ UNCHANGED log

Init ==
  /\ outbox = [d \in Device |-> <<>>]
  /\ log = <<>>
  /\ refused = [d \in Device |-> 0]

Next ==
  \E d \in Device :
    \/ \E n \in Number : Store(d, n)
    \/ \E i \in DOMAIN outbox[d] : Deliver(d, i) \/ Refuse(d, i)
    \/ Forget(d)
    \/ Answer(d)

Spec == Init /\ [][Next]_writeLogVars

-----------------------------------------------------------------------------
TypeOK ==
  /\ outbox \in [Device -> Seq(Number)]
  /\ log \in Seq(Device \X Number)
  /\ refused \in [Device -> Number \cup {0}]

(***************************************************************************)
(* The first commits of the writes of one device come in the order of      *)
(* their numbers, although all of them may be committed again and again.   *)
(***************************************************************************)
FirstCommit(j) == \A i \in 1 .. j - 1 : log[i] # log[j]

FirstCommitsInOrder ==
  \A j \in DOMAIN log :
    FirstCommit(j) =>
      \A i \in 1 .. j - 1 : log[i][1] = log[j][1] => log[i][2] < log[j][2]

(***************************************************************************)
(* Why: stored writes are in order, and the ones the server has yet to     *)
(* commit come after everything it has committed.                          *)
(***************************************************************************)
OutboxSorted ==
  \A d \in Device : \A i, j \in DOMAIN outbox[d] :
    i < j => outbox[d][i] < outbox[d][j]

UncommittedIsLater ==
  \A d \in Device : \A i \in DOMAIN outbox[d] :
    ~Committed(d, outbox[d][i]) =>
      \A m \in Number : Committed(d, m) => m < outbox[d][i]

WriteLogInvariant ==
  /\ TypeOK
  /\ OutboxSorted
  /\ UncommittedIsLater
  /\ FirstCommitsInOrder
==============================================================================
