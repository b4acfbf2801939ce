------------------------------ MODULE Documents ------------------------------
(***************************************************************************)
(* Firestore documents and the writes the messaging app makes to them.     *)
(*                                                                         *)
(* A document is a record: "type" says whether the client knows of no      *)
(* document, has its fields, or only knows that some version exists;       *)
(* "version" is the server version it is based on; "state" says whether it *)
(* is exactly what the server had at that version (synced), what a write   *)
(* the server accepted makes of an older copy (committed), or carries      *)
(* writes the server has not answered (local); "data" maps the fields that *)
(* are present to their values.  Arrays are sets: the app never depends on *)
(* their order.  A time is a pair: <<0, v>> is the commit time of version  *)
(* v, <<1, n>> the estimate shown while a write is pending; every estimate *)
(* sorts after every commit time.                                          *)
(*                                                                         *)
(* A write is one setData, setData(merge) or updateData call: the set or   *)
(* patch mutation and the transform mutation the SDK makes of it.          *)
(***************************************************************************)
EXTENDS Naturals, Sequences, TLC

Kinds == {"set", "merge", "update"}

Missing == [type |-> "none", version |-> 0, state |-> "synced", data |-> <<>>]

Unknown(version) ==
  [type |-> "unknown", version |-> version, state |-> "committed",
   data |-> <<>>]

Exists(doc) == doc.type = "document"

HasPendingWrites(doc) == doc.state # "synced"

CommitTime(version) == <<0, version>>

EstimatedTime(n) == <<1, n>>

Before(s, t) == s[1] < t[1] \/ (s[1] = t[1] /\ s[2] < t[2])

(***************************************************************************)
(* Writes.  transforms maps a field to what the server does to it:         *)
(* arrayUnion, arrayRemove or serverTimestamp.                             *)
(***************************************************************************)
TransformOps == {"union", "remove", "stamp"}

ArrayUnion(elements) == [op |-> "union", elements |-> elements]

ArrayRemove(elements) == [op |-> "remove", elements |-> elements]

ServerTimestamp == [op |-> "stamp", elements |-> {}]

SetData(key, fields, transforms) ==
  [key |-> key, kind |-> "set", fields |-> fields, transforms |-> transforms]

MergeData(key, fields, transforms) ==
  [key |-> key, kind |-> "merge", fields |-> fields,
   transforms |-> transforms]

UpdateData(key, fields, transforms) ==
  [key |-> key, kind |-> "update", fields |-> fields,
   transforms |-> transforms]

IsValidFor(write, doc) == write.kind = "update" => Exists(doc)

(***************************************************************************)
(* What a write makes of the data of a document.  now is the time a        *)
(* serverTimestamp gets.                                                   *)
(***************************************************************************)
Overlay(fields, data) ==
  [f \in DOMAIN fields \cup DOMAIN data |->
     IF f \in DOMAIN fields THEN fields[f] ELSE data[f]]

(* Mutant: a merge replaces the document. *)
PatchDocumentReplaces(write, data) == write.fields

PatchDocument(write, data) ==
  IF write.kind = "set" THEN write.fields ELSE Overlay(write.fields, data)

PreviousArray(data, field) == IF field \in DOMAIN data THEN data[field] ELSE {}

Transformed(transform, previous, now) ==
  CASE transform.op = "stamp"  -> now
    [] transform.op = "union"  -> previous \cup transform.elements
    [] transform.op = "remove" -> previous \ transform.elements

TransformObject(write, data, now) ==
  Overlay([f \in DOMAIN write.transforms |->
             Transformed(write.transforms[f], PreviousArray(data, f), now)],
          data)

NewData(write, data, now) ==
  TransformObject(write, PatchDocument(write, data), now)

(***************************************************************************)
(* The client's copy after the server accepted the write at version.       *)
(***************************************************************************)
(* Mutant: the transform mutation of the write is forgotten. *)
ApplyToRemoteWithoutTransforms(write, doc, version) ==
  IF IsValidFor(write, doc)
  THEN [type |-> "document", version |-> version, state |-> "committed",
        data |-> PatchDocument(write, doc.data)]
  ELSE Unknown(version)

ApplyToRemoteDocument(write, doc, version) ==
  IF IsValidFor(write, doc)
  THEN [type |-> "document", version |-> version, state |-> "committed",
        data |-> NewData(write, doc.data, CommitTime(version))]
  ELSE Unknown(version)

(***************************************************************************)
(* What the user is shown of a write the server has not answered.          *)
(***************************************************************************)
ApplyToLocalView(write, doc, n) ==
  IF IsValidFor(write, doc)
  THEN [type |-> "document",
        version |-> IF Exists(doc) THEN doc.version ELSE 0,
        state |-> "local",
        data |-> NewData(write, doc.data, EstimatedTime(n))]
  ELSE doc

(***************************************************************************)
(* The server's copy after it accepted the write: a write that changes     *)
(* nothing leaves the version of the document alone.                       *)
(***************************************************************************)
ServerApply(write, doc, version) ==
  LET data == NewData(write, doc.data, CommitTime(version))
  IN  IF Exists(doc) /\ data = doc.data
      THEN doc
      ELSE [type |-> "document", version |-> version, state |-> "synced",
            data |-> data]

IsDocument(doc) ==
  /\ doc.type \in {"none", "document", "unknown"}
  /\ doc.version \in Nat
  /\ doc.state \in {"synced", "committed", "local"}
==============================================================================
