--------------------------- MODULE ScreensProofs ---------------------------
(***************************************************************************)
(* Whichever of the piled up listeners was told last, the tables are right *)
(* when there is nothing left to handle.  The invariant that makes it so   *)
(* looks at the events that have not been handled yet: for each handler    *)
(* that listens, either the last of its events carries the documents there *)
(* are now, or it has no event left and its array already follows from     *)
(* them.                                                                   *)
(***************************************************************************)
EXTENDS Screens, FiniteSetTheorems, SequenceTheorems, TLAPS

Handler == {"valid", "list", "options", "bubbles"}

QueryOf == [valid |-> "chat", list |-> "members", options |-> "members",
            bubbles |-> "messages"]

Tasks ==
  [kind : {"listen"}, query : Query, handler : Handler]
    \cup [kind : {"write"}, query : {"chat", "members"}, user : Person]

Listeners == [query : Query, handler : Handler, raised : BOOLEAN]

MainEvents ==
  [kind : {"error"}, handler : Handler]
    \cup [kind : {"snapshot"}, handler : {"valid"}, docs : SUBSET Person]
    \cup [kind : {"snapshot"}, handler : {"list", "options"}, docs : Colours]
    \cup [kind : {"snapshot"}, handler : {"bubbles"}, docs : Seq(Person)]
    \cup [kind : {"snapshot"}, handler : {"users"}, docs : {Person}]

(***************************************************************************)
(* The state of a queue of events, as one handler sees it.                 *)
(***************************************************************************)
IsFor(e, h) == e.kind = "snapshot" /\ e.handler = h

NoneLeft(m, h) == \A i \in DOMAIN m : ~ IsFor(m[i], h)

EndsWith(m, h, d) ==
  \E i \in DOMAIN m :
    /\ IsFor(m[i], h)
    /\ \A j \in DOMAIN m : j >= i /\ IsFor(m[j], h) => m[j].docs = d

NoCall(t, h) ==
  \A i \in DOMAIN t : ~ (t[i].kind = "listen" /\ t[i].handler = h)

-----------------------------------------------------------------------------
(***************************************************************************)
(* The inductive invariant.                                                *)
(***************************************************************************)
Typed ==
  /\ view \in Views
  /\ settled \in [Query -> BOOLEAN]
  /\ tasks \in Seq(Tasks)
  /\ \A i \in DOMAIN tasks :
       tasks[i].kind = "listen" => tasks[i].query = QueryOf[tasks[i].handler]
  /\ listeners \in Seq(Listeners)
  /\ \A i \in DOMAIN listeners :
       listeners[i].query = QueryOf[listeners[i].handler]
  /\ main \in Seq(MainEvents)
  /\ chatMemberArray \in SUBSET Person
  /\ chatMembers \in Colours
  /\ userOptions \in Colours
  /\ messages \in Seq(Person)
  /\ bubbles \in Seq([from : Person, colour : Colour])
  /\ totalUsers \in SUBSET Person
  /\ possibleUsers \in SUBSET totalUsers

(* Members never lose their document. *)
DocumentsStay ==
  /\ \A i \in DOMAIN main :
       IsFor(main[i], "list") \/ IsFor(main[i], "options")
         => DOMAIN main[i].docs \subseteq DOMAIN view["members"]
  /\ DOMAIN chatMembers \subseteq DOMAIN view["members"]
  /\ DOMAIN userOptions \subseteq DOMAIN view["members"]

ArrayFollows ==
  Listening("valid") =>
    \/ EndsWith(main, "valid", view["chat"])
    \/ NoneLeft(main, "valid") /\ chatMemberArray = view["chat"]

OptionsFollow ==
  Listening("options") =>
    \/ EndsWith(main, "options", view["members"])
    \/ NoneLeft(main, "options") /\ userOptions = view["members"]

(* A call that is waiting will bring the list up to date. *)
ListFollows ==
  Listening("list") /\ NoneLeft(main, "valid") /\ NoCall(tasks, "list") =>
    \/ EndsWith(main, "list", view["members"])
    \/ /\ NoneLeft(main, "list")
       /\ chatMembers = [u \in DOMAIN view["members"] \cap chatMemberArray |->
                           view["members"][u]]

BubblesFollow ==
  /\ Listening("bubbles")
  /\ view["messages"] # <<>>
  /\ NoneLeft(main, "options")
  /\ NoCall(tasks, "bubbles")
  => \/ EndsWith(main, "bubbles", view["messages"])
     \/ NoneLeft(main, "bubbles") /\ bubbles = Bubbles(view["messages"])

TablesFollow ==
  /\ Typed
  /\ DocumentsStay
  /\ ArrayFollows
  /\ OptionsFollow
  /\ ListFollows
  /\ BubblesFollow

-----------------------------------------------------------------------------
(***************************************************************************)
(* The places of a finite set of numbers are its elements, each of them    *)
(* once.                                                                   *)
(***************************************************************************)
LEMMA PlaceProperties ==
  ASSUME NEW I \in SUBSET Int, IsFiniteSet(I)
  PROVE  /\ Cardinality(I) \in Nat
         /\ \A k \in 1 .. Cardinality(I) : Place(I, k) \in I
         /\ \A i \in I : \E k \in 1 .. Cardinality(I) : Place(I, k) = i
<1> DEFINE n == Cardinality(I)
           Upto(i) == {j \in I : j <= i}
           Rank == [i \in I |-> Cardinality(Upto(i))]
<1>1. n \in Nat
  BY FS_CardinalityType
<1>2. \A i \in I : /\ IsFiniteSet(Upto(i))
                   /\ Cardinality(Upto(i)) \in 1 .. n
  <2> SUFFICES ASSUME NEW i \in I
               PROVE  IsFiniteSet(Upto(i)) /\ Cardinality(Upto(i)) \in 1 .. n
    OBVIOUS
  <2>1. Upto(i) \in SUBSET I /\ i \in Upto(i)
    OBVIOUS
  <2>2. IsFiniteSet(Upto(i)) /\ Cardinality(Upto(i)) <= n
    BY <2>1, FS_Subset
  <2>3. Cardinality(Upto(i)) \in Nat
    BY <2>2, FS_CardinalityType
  <2>4. Cardinality(Upto(i)) # 0
    BY <2>1, <2>2, FS_EmptySet
  <2> QED
    BY <2>2, <2>3, <2>4, <1>1
<1>3. \A i, j \in I : i < j => Cardinality(Upto(i)) # Cardinality(Upto(j))
  <2> SUFFICES ASSUME NEW i \in I, NEW j \in I, i < j
               PROVE  Cardinality(Upto(i)) # Cardinality(Upto(j))
    OBVIOUS
  <2>0. I \subseteq Int /\ i \in Int /\ j \in Int
    OBVIOUS
  <2>1. /\ \A k \in Upto(i) : k \in Upto(j)
        /\ j \in Upto(j)
        /\ j \notin Upto(i)
    BY <2>0
  <2>2. IsFiniteSet(Upto(j))
    BY <1>2
  <2>3. Upto(i) # Upto(j)
    BY <2>1
  <2> QED
    BY <2>1, <2>2, <2>3, FS_Subset
<1>4. Rank \in Injection(I, 1 .. n)
  <2>1. Rank \in [I -> 1 .. n]
    BY <1>2
  <2>2. \A i, j \in I : Rank[i] = Rank[j] => i = j
    BY <1>3
  <2> QED
    BY <2>1, <2>2 DEF Injection, IsInjective
<1>5. IsFiniteSet(1 .. n) /\ Cardinality(1 .. n) = n
  BY <1>1, FS_Interval
<1>6. Rank \in Surjection(I, 1 .. n)
  BY <1>4, <1>5, FS_Injection
<1>7. \A i \in I : Place(I, Rank[i]) = i
  <2> SUFFICES ASSUME NEW i \in I
               PROVE  Place(I, Rank[i]) = i
    OBVIOUS
  <2>1. Rank[i] = Cardinality(Upto(i))
    OBVIOUS
  <2>2. \A j \in I : Cardinality(Upto(j)) = Rank[i] => j = i
    BY <2>1, <1>3
  <2> QED
    BY <2>1, <2>2 DEF Place
<1>8. \A k \in 1 .. n : \E i \in I : Rank[i] = k
  BY <1>6 DEF Surjection
<1>9. \A i \in I : Rank[i] \in 1 .. n
  BY <1>2
<1> HIDE DEF Rank
<1> QED
  BY <1>1, <1>7, <1>8, <1>9

(* What At takes from a sequence. *)
LEMMA AtProperties ==
  ASSUME NEW S, NEW s \in Seq(S), NEW I \in SUBSET (DOMAIN s)
  PROVE  /\ At(s, I) \in Seq(S)
         /\ DOMAIN At(s, I) = 1 .. Len(At(s, I))
         /\ \A k \in DOMAIN At(s, I) : \E i \in I : At(s, I)[k] = s[i]
         /\ \A i \in I : \E k \in DOMAIN At(s, I) : At(s, I)[k] = s[i]
<1>1. DOMAIN s = 1 .. Len(s) /\ Len(s) \in Nat
  OBVIOUS
<1>2. I \in SUBSET Int /\ IsFiniteSet(I)
  <2>1. IsFiniteSet(1 .. Len(s))
    BY <1>1, FS_Interval
  <2>2. I \in SUBSET (1 .. Len(s))
    BY <1>1
  <2> QED
    BY <2>1, <2>2, FS_Subset
<1>3. /\ Cardinality(I) \in Nat
      /\ \A k \in 1 .. Cardinality(I) : Place(I, k) \in I
      /\ \A i \in I : \E k \in 1 .. Cardinality(I) : Place(I, k) = i
  BY <1>2, PlaceProperties
<1>4. \A i \in I : s[i] \in S
  BY <1>1
<1>5. At(s, I) \in [1 .. Cardinality(I) -> S]
  BY <1>3, <1>4 DEF At
<1>6. At(s, I) \in Seq(S) /\ Len(At(s, I)) = Cardinality(I)
  BY <1>3, <1>5
<1>7. \A k \in 1 .. Cardinality(I) : At(s, I)[k] = s[Place(I, k)]
  BY DEF At
<1>8. DOMAIN At(s, I) = 1 .. Cardinality(I)
  BY DEF At
<1> QED
  BY <1>3, <1>6, <1>7, <1>8

(***************************************************************************)
(* Queues of events: appending to them, and handling the first one.        *)
(***************************************************************************)
LEMMA AppendOthers ==
  ASSUME NEW S, NEW m \in Seq(S), NEW es \in Seq(S), NEW h, NoneLeft(es, h)
  PROVE  /\ NoneLeft(m, h) => NoneLeft(m \o es, h)
         /\ \A d : EndsWith(m, h, d) => EndsWith(m \o es, h, d)
<1>1. /\ m \o es \in Seq(S)
      /\ Len(m \o es) = Len(m) + Len(es)
      /\ \A i \in 1 .. Len(m) + Len(es) :
           (m \o es)[i] = IF i <= Len(m) THEN m[i] ELSE es[i - Len(m)]
  BY ConcatProperties
<1>2. \A i \in 1 .. Len(m) : (m \o es)[i] = m[i]
  BY <1>1
<1>3. \A i \in 1 .. Len(m) + Len(es) :
        i > Len(m) => ~ IsFor((m \o es)[i], h)
  BY <1>1 DEF NoneLeft
<1>4. NoneLeft(m, h) => NoneLeft(m \o es, h)
  BY <1>1, <1>2, <1>3 DEF NoneLeft
<1>5. ASSUME NEW d, EndsWith(m, h, d)
      PROVE  EndsWith(m \o es, h, d)
  <2>1. PICK i \in DOMAIN m :
          /\ IsFor(m[i], h)
          /\ \A j \in DOMAIN m : j >= i /\ IsFor(m[j], h) => m[j].docs = d
    BY <1>5 DEF EndsWith
  <2>2. i \in DOMAIN (m \o es) /\ IsFor((m \o es)[i], h)
    BY <2>1, <1>1, <1>2
  <2>3. \A j \in DOMAIN (m \o es) :
          j >= i /\ IsFor((m \o es)[j], h) => (m \o es)[j].docs = d
    BY <2>1, <1>1, <1>2, <1>3
  <2> QED
    BY <2>2, <2>3 DEF EndsWith
<1> QED
  BY <1>4, <1>5

LEMMA AppendSome ==
  ASSUME NEW S, NEW m \in Seq(S), NEW es \in Seq(S), NEW h, NEW d,
         \E k \in DOMAIN es : IsFor(es[k], h),
         \A k \in DOMAIN es : IsFor(es[k], h) => es[k].docs = d
  PROVE  EndsWith(m \o es, h, d)
<1>1. /\ m \o es \in Seq(S)
      /\ Len(m \o es) = Len(m) + Len(es)
      /\ \A i \in 1 .. Len(m) + Len(es) :
           (m \o es)[i] = IF i <= Len(m) THEN m[i] ELSE es[i - Len(m)]
  BY ConcatProperties
<1>2. PICK k \in DOMAIN es : IsFor(es[k], h)
  OBVIOUS
<1>3. Len(m) \in Nat /\ k \in 1 .. Len(es)
  OBVIOUS
<1>4. Len(m) + k \in DOMAIN (m \o es) /\ (m \o es)[Len(m) + k] = es[k]
  BY <1>1, <1>3
<1>5. \A j \in DOMAIN (m \o es) : j >= Len(m) + k
        => j - Len(m) \in DOMAIN es /\ (m \o es)[j] = es[j - Len(m)]
  BY <1>1, <1>3
<1> QED
  BY <1>2, <1>4, <1>5 DEF EndsWith

LEMMA HandleFirst ==
  ASSUME NEW S, NEW m \in Seq(S), m # <<>>, NEW h
  PROVE  /\ NoneLeft(m, h) => NoneLeft(Tail(m), h)
         /\ NoneLeft(Tail(m), h) => NoneLeft(m, h) \/ IsFor(Head(m), h)
         /\ \A d : EndsWith(m, h, d) =>
              \/ EndsWith(Tail(m), h, d)
              \/ /\ NoneLeft(Tail(m), h)
                 /\ IsFor(Head(m), h)
                 /\ Head(m).docs = d
<1>1. /\ Tail(m) \in Seq(S)
      /\ Len(Tail(m)) = Len(m) - 1
      /\ \A i \in 1 .. Len(Tail(m)) : Tail(m)[i] = m[i + 1]
      /\ Head(m) = m[1]
      /\ Len(m) \in Nat \ {0}
  BY HeadTailProperties, EmptySeq
<1>2. \A i \in DOMAIN Tail(m) : i + 1 \in DOMAIN m /\ Tail(m)[i] = m[i + 1]
  BY <1>1
<1>3. \A i \in DOMAIN m :
        i = 1 \/ (i - 1 \in DOMAIN Tail(m) /\ Tail(m)[i - 1] = m[i])
  BY <1>1
<1>4. NoneLeft(m, h) => NoneLeft(Tail(m), h)
  BY <1>2 DEF NoneLeft
<1>5. NoneLeft(Tail(m), h) => NoneLeft(m, h) \/ IsFor(Head(m), h)
  BY <1>1, <1>3 DEF NoneLeft
<1>6. ASSUME NEW d, EndsWith(m, h, d), ~ EndsWith(Tail(m), h, d)
      PROVE  /\ NoneLeft(Tail(m), h)
             /\ IsFor(Head(m), h)
             /\ Head(m).docs = d
  <2>1. PICK i \in DOMAIN m :
          /\ IsFor(m[i], h)
          /\ \A j \in DOMAIN m : j >= i /\ IsFor(m[j], h) => m[j].docs = d
    BY <1>6 DEF EndsWith
  <2>2. i = 1
    <3> SUFFICES ASSUME i # 1 PROVE FALSE
      OBVIOUS
    <3>1. i - 1 \in DOMAIN Tail(m) /\ IsFor(Tail(m)[i - 1], h)
      BY <1>3, <2>1
    <3>2. \A j \in DOMAIN Tail(m) :
            j >= i - 1 /\ IsFor(Tail(m)[j], h) => Tail(m)[j].docs = d
      BY <1>1, <1>2, <2>1
    <3> QED
      BY <3>1, <3>2, <1>6 DEF EndsWith
  <2>3. NoneLeft(Tail(m), h)
    <3> SUFFICES ASSUME NEW k \in DOMAIN Tail(m), IsFor(Tail(m)[k], h)
                 PROVE  FALSE
      BY DEF NoneLeft
    <3>1. \A j \in DOMAIN Tail(m) : IsFor(Tail(m)[j], h) => Tail(m)[j].docs = d
      BY <1>1, <1>2, <2>1, <2>2
    <3> QED
      BY <3>1, <1>6 DEF EndsWith
  <2> QED
    BY <1>1, <2>1, <2>2, <2>3
<1> QED
  BY <1>4, <1>5, <1>6

LEMMA AppendKeeps ==
  ASSUME NEW S, NEW m \in Seq(S), NEW es \in Seq(S), NEW h,
         NoneLeft(m \o es, h)
  PROVE  NoneLeft(m, h) /\ NoneLeft(es, h)
<1>1. /\ Len(m \o es) = Len(m) + Len(es)
      /\ DOMAIN (m \o es) = 1 .. Len(m \o es)
      /\ \A i \in 1 .. Len(m) + Len(es) :
           (m \o es)[i] = IF i <= Len(m) THEN m[i] ELSE es[i - Len(m)]
  BY ConcatProperties
<1>2. \A i \in DOMAIN m : i \in DOMAIN (m \o es) /\ (m \o es)[i] = m[i]
  BY <1>1
<1>3. \A i \in DOMAIN es : /\ Len(m) + i \in DOMAIN (m \o es)
                           /\ (m \o es)[Len(m) + i] = es[i]
  BY <1>1
<1> QED
  BY <1>2, <1>3 DEF NoneLeft

(***************************************************************************)
(* What has no domain is the empty view of its query.                      *)
(***************************************************************************)
LEMMA EmptyColours ==
  ASSUME NEW f \in Colours, NEW g \in Colours,
         DOMAIN f = {}, DOMAIN g = {}
  PROVE  f = g
BY DEF Colours

(* The documents of an event that some handler will see. *)
LEMMA DocsTyped ==
  ASSUME NEW e \in MainEvents
  PROVE  /\ e.kind \in {"error", "snapshot"}
         /\ e.handler \in Handler \cup {"users"}
         /\ e.kind = "error" => e.handler \in Handler
         /\ IsFor(e, "valid") => e.docs \in SUBSET Person
         /\ IsFor(e, "list") => e.docs \in Colours
         /\ IsFor(e, "options") => e.docs \in Colours
         /\ IsFor(e, "bubbles") => e.docs \in Seq(Person)
         /\ IsFor(e, "users") => e.docs = Person
BY DEF MainEvents, IsFor, Handler

(***************************************************************************)
(* Events that carry the documents there are are added, and a handler that *)
(* gets none listened before to what has not changed, or has nothing to    *)
(* show.                                                                   *)
(***************************************************************************)
LEMMA MoreToHandle ==
  ASSUME TablesFollow, Typed',
         NEW es \in Seq(MainEvents), main' = main \o es,
         \A k \in DOMAIN es : \A h \in Handler :
           IsFor(es[k], h) => es[k].docs = view'[QueryOf[h]],
         DOMAIN view["members"] \subseteq DOMAIN view'["members"],
         \A h \in Handler : Listening(h)' =>
           \/ \E k \in DOMAIN es : IsFor(es[k], h)
           \/ /\ Listening(h)
              /\ view'[QueryOf[h]] = view[QueryOf[h]]
              /\ NoCall(tasks', h) => NoCall(tasks, h)
           \/ h # "valid" /\ DOMAIN view'[QueryOf[h]] = {},
         UNCHANGED <<memberVars, messageVars>>
  PROVE  TablesFollow'
<1> DEFINE Fresh(h) == \E k \in DOMAIN es : IsFor(es[k], h)
           Kept(h) == /\ Listening(h)
                      /\ view'[QueryOf[h]] = view[QueryOf[h]]
                      /\ NoCall(tasks', h) => NoCall(tasks, h)
<1>1. /\ main \in Seq(MainEvents)
      /\ view' \in Views
      /\ userOptions \in Colours
      /\ chatMembers \in Colours
      /\ main' \in Seq(MainEvents)
  BY DEF TablesFollow, Typed
<1>2. UNCHANGED <<chatMemberArray, chatMembers, userOptions, messages, bubbles>>
  BY DEF memberVars, messageVars
<1>3. /\ QueryOf["valid"] = "chat" /\ QueryOf["bubbles"] = "messages"
      /\ QueryOf["list"] = "members" /\ QueryOf["options"] = "members"
      /\ Handler = {"valid", "list", "options", "bubbles"}
  BY DEF QueryOf, Handler
<1>4. ASSUME NEW h \in Handler, Fresh(h)
      PROVE  EndsWith(main', h, view'[QueryOf[h]])
  BY <1>1, <1>4, AppendSome
<1>5. ASSUME NEW h \in Handler, ~ Fresh(h)
      PROVE  /\ NoneLeft(main, h) => NoneLeft(main', h)
             /\ \A d : EndsWith(main, h, d) => EndsWith(main', h, d)
  <2>1. NoneLeft(es, h)
    BY <1>5 DEF NoneLeft
  <2> QED
    BY <2>1, <1>1, AppendOthers
<1>6. \A h : NoneLeft(main', h) => NoneLeft(main, h)
  BY <1>1, AppendKeeps
<1>7. DocumentsStay'
  <2>1. /\ \A i \in DOMAIN main :
             IsFor(main[i], "list") \/ IsFor(main[i], "options")
               => DOMAIN main[i].docs \subseteq DOMAIN view'["members"]
        /\ DOMAIN chatMembers' \subseteq DOMAIN view'["members"]
        /\ DOMAIN userOptions' \subseteq DOMAIN view'["members"]
    BY <1>2 DEF TablesFollow, DocumentsStay
  <2>2. \A k \in DOMAIN es :
          IsFor(es[k], "list") \/ IsFor(es[k], "options")
            => DOMAIN es[k].docs \subseteq DOMAIN view'["members"]
    BY <1>3
  <2>3. \A i \in DOMAIN main' : \/ i \in DOMAIN main /\ main'[i] = main[i]
                                \/ \E k \in DOMAIN es : main'[i] = es[k]
    <3>1. \A i \in 1 .. Len(main) + Len(es) :
            main'[i] = IF i <= Len(main) THEN main[i] ELSE es[i - Len(main)]
      BY <1>1, ConcatProperties
    <3>2. DOMAIN main' = 1 .. Len(main) + Len(es)
      BY <1>1, ConcatProperties
    <3> QED
      BY <1>1, <3>1, <3>2
  <2>4. \A i \in DOMAIN main' :
          IsFor(main'[i], "list") \/ IsFor(main'[i], "options")
            => DOMAIN main'[i].docs \subseteq DOMAIN view'["members"]
    BY <2>1, <2>2, <2>3
  <2> QED
    BY <2>1, <2>4 DEF DocumentsStay
<1>8. ASSUME NEW h \in {"list", "options"}, DOMAIN view'["members"] = {},
             ~ NoneLeft(main', h)
      PROVE  EndsWith(main', h, view'["members"])
  <2>1. \A i \in DOMAIN main' :
          IsFor(main'[i], h) => main'[i].docs = view'["members"]
    <3> SUFFICES ASSUME NEW i \in DOMAIN main', IsFor(main'[i], h)
                 PROVE  main'[i].docs = view'["members"]
      OBVIOUS
    <3>1. main'[i] \in MainEvents
      BY <1>1
    <3>2. main'[i].docs \in Colours
      BY <3>1, DocsTyped
    <3>3. DOMAIN main'[i].docs = {}
      BY <1>7, <1>8 DEF DocumentsStay
    <3>4. view'["members"] \in Colours
      BY <1>1 DEF Views
    <3> QED
      BY <3>2, <3>3, <3>4, <1>8, EmptyColours
  <2> QED
    BY <2>1, <1>8 DEF NoneLeft, EndsWith
<1>9. view'["members"] \in Colours /\ view'["messages"] \in Seq(Person)
  BY <1>1 DEF Views
<1> HIDE DEF Fresh, Kept
<1>10. \A h \in Handler : Listening(h)' =>
         Fresh(h) \/ Kept(h) \/ (h # "valid" /\ DOMAIN view'[QueryOf[h]] = {})
  BY DEF Fresh, Kept
<1>11. ArrayFollows'
  <2> SUFFICES ASSUME Listening("valid")'
               PROVE  \/ EndsWith(main', "valid", view'["chat"])
                      \/ /\ NoneLeft(main', "valid")
                         /\ chatMemberArray' = view'["chat"]
    BY DEF ArrayFollows
  <2>1. CASE Fresh("valid")
    BY <2>1, <1>3, <1>4
  <2>2. CASE ~ Fresh("valid") /\ Kept("valid")
    <3>1. Listening("valid") /\ view'["chat"] = view["chat"]
      BY <2>2, <1>3 DEF Kept
    <3>2. \/ EndsWith(main, "valid", view["chat"])
          \/ NoneLeft(main, "valid") /\ chatMemberArray = view["chat"]
      BY <3>1 DEF TablesFollow, ArrayFollows
    <3> QED
      BY <3>1, <3>2, <2>2, <1>2, <1>3, <1>5
  <2> QED
    BY <2>1, <2>2, <1>3, <1>10
<1>12. OptionsFollow'
  <2> SUFFICES ASSUME Listening("options")'
               PROVE  \/ EndsWith(main', "options", view'["members"])
                      \/ /\ NoneLeft(main', "options")
                         /\ userOptions' = view'["members"]
    BY DEF OptionsFollow
  <2>1. CASE Fresh("options")
    BY <2>1, <1>3, <1>4
  <2>2. CASE ~ Fresh("options") /\ Kept("options")
    <3>1. Listening("options") /\ view'["members"] = view["members"]
      BY <2>2, <1>3 DEF Kept
    <3>2. \/ EndsWith(main, "options", view["members"])
          \/ NoneLeft(main, "options") /\ userOptions = view["members"]
      BY <3>1 DEF TablesFollow, OptionsFollow
    <3> QED
      BY <3>1, <3>2, <2>2, <1>2, <1>3, <1>5
  <2>3. CASE DOMAIN view'["members"] = {}
    <3>1. DOMAIN userOptions = {}
      BY <2>3, <1>2, <1>7 DEF DocumentsStay
    <3>2. userOptions = view'["members"]
      BY <3>1, <2>3, <1>1, <1>9, EmptyColours
    <3> QED
      BY <3>2, <2>3, <1>2, <1>8
  <2> QED
    BY <2>1, <2>2, <2>3, <1>3, <1>10
<1>13. ListFollows'
  <2> DEFINE Shown(c, a) == [u \in DOMAIN c \cap a |-> c[u]]
  <2> SUFFICES ASSUME Listening("list")', NoneLeft(main', "valid"),
                      NoCall(tasks', "list")
               PROVE  \/ EndsWith(main', "list", view'["members"])
                      \/ /\ NoneLeft(main', "list")
                         /\ chatMembers' = Shown(view'["members"], chatMemberArray')
    BY DEF ListFollows
  <2>1. CASE Fresh("list")
    BY <2>1, <1>3, <1>4
  <2>2. CASE ~ Fresh("list") /\ Kept("list")
    <3>1. /\ Listening("list") /\ view'["members"] = view["members"]
          /\ NoCall(tasks, "list") /\ NoneLeft(main, "valid")
      BY <2>2, <1>3, <1>6 DEF Kept
    <3>2. \/ EndsWith(main, "list", view["members"])
          \/ /\ NoneLeft(main, "list")
             /\ chatMembers = Shown(view["members"], chatMemberArray)
      BY <3>1 DEF TablesFollow, ListFollows
    <3> QED
      BY <3>1, <3>2, <2>2, <1>2, <1>3, <1>5
  <2>3. CASE DOMAIN view'["members"] = {}
    <3>1. DOMAIN chatMembers = {}
      BY <2>3, <1>2, <1>7 DEF DocumentsStay
    <3>2. chatMembers = view'["members"]
      BY <3>1, <2>3, <1>1, <1>9, EmptyColours
    <3>3. chatMembers = Shown(view'["members"], chatMemberArray')
      BY <3>1, <2>3, <1>1 DEF Colours
    <3> QED
      BY <3>3, <2>3, <1>2, <1>8
  <2> QED
    BY <2>1, <2>2, <2>3, <1>3, <1>10
<1>14. BubblesFollow'
  <2> SUFFICES ASSUME Listening("bubbles")', view'["messages"] # <<>>,
                      NoneLeft(main', "options"), NoCall(tasks', "bubbles")
               PROVE  \/ EndsWith(main', "bubbles", view'["messages"])
                      \/ /\ NoneLeft(main', "bubbles")
                         /\ bubbles' = Bubbles(view["messages"])'
    BY DEF BubblesFollow
  <2>1. CASE Fresh("bubbles")
    BY <2>1, <1>3, <1>4
  <2>2. CASE ~ Fresh("bubbles") /\ Kept("bubbles")
    <3>1. /\ Listening("bubbles") /\ view'["messages"] = view["messages"]
          /\ NoCall(tasks, "bubbles") /\ NoneLeft(main, "options")
      BY <2>2, <1>3, <1>6 DEF Kept
    <3>2. \/ EndsWith(main, "bubbles", view["messages"])
          \/ NoneLeft(main, "bubbles") /\ bubbles = Bubbles(view["messages"])
      BY <3>1 DEF TablesFollow, BubblesFollow
    <3>3. Bubbles(view["messages"])' = Bubbles(view["messages"])
      BY <3>1, <1>2 DEF Bubbles, LoadMessageColour
    <3> QED
      BY <3>1, <3>2, <3>3, <2>2, <1>2, <1>3, <1>5
  <2>3. DOMAIN view'["messages"] # {}
    <3>1. Len(view'["messages"]) \in Nat \ {0}
      BY <1>9, EmptySeq
    <3>2. 1 \in DOMAIN view'["messages"]
      BY <3>1, <1>9
    <3> QED
      BY <3>2
  <2> QED
    BY <2>1, <2>2, <2>3, <1>3, <1>10
<1> QED
  BY <1>7, <1>11, <1>12, <1>13, <1>14 DEF TablesFollow

-----------------------------------------------------------------------------
(***************************************************************************)
(* The events of a query.                                                  *)
(***************************************************************************)
LEMMA QueryTyped ==
  /\ \A h \in Handler : QueryOf[h] \in Query
  /\ \A h \in Handler : QueryOf[h] = "chat" <=> h = "valid"
BY DEF Handler, QueryOf, Query

LEMMA ListenersTyped ==
  ASSUME Typed, NEW i \in DOMAIN listeners
  PROVE  /\ listeners[i].handler \in Handler
         /\ listeners[i].query = QueryOf[listeners[i].handler]
         /\ listeners[i].raised \in BOOLEAN
<1>1. listeners[i] \in Listeners
  BY DEF Typed
<1> QED
  BY <1>1 DEF Typed, Listeners

LEMMA EventTyped ==
  ASSUME view' \in Views, NEW h \in Handler
  PROVE  [kind |-> "snapshot", handler |-> h, docs |-> view'[QueryOf[h]]]
           \in MainEvents
<1>1. /\ view'["chat"] \in SUBSET Person
      /\ view'["members"] \in Colours
      /\ view'["messages"] \in Seq(Person)
  BY DEF Views
<1>2. CASE h = "valid"
  BY <1>1, <1>2 DEF MainEvents, QueryOf
<1>3. CASE h = "list" \/ h = "options"
  BY <1>1, <1>3 DEF MainEvents, QueryOf
<1>4. CASE h = "bubbles"
  BY <1>1, <1>4 DEF MainEvents, QueryOf
<1> QED
  BY <1>2, <1>3, <1>4 DEF Handler

LEMMA EventsProperties ==
  ASSUME Typed, NEW q \in Query, NEW I \in SUBSET Of(q), view' \in Views
  PROVE  /\ Events(q, I) \in Seq(MainEvents)
         /\ \A k \in DOMAIN Events(q, I) : \A h \in Handler :
              IsFor(Events(q, I)[k], h) => Events(q, I)[k].docs = view'[QueryOf[h]]
         /\ \A i \in I : \E k \in DOMAIN Events(q, I) :
              IsFor(Events(q, I)[k], listeners[i].handler)
<1> DEFINE ls == At(listeners, I)
           es == Events(q, I)
<1>1. I \in SUBSET DOMAIN listeners
  BY DEF Of
<1>2. listeners \in Seq(Listeners)
  BY DEF Typed
<1>3. /\ ls \in Seq(Listeners)
      /\ DOMAIN ls = 1 .. Len(ls)
      /\ \A k \in DOMAIN ls : \E i \in I : ls[k] = listeners[i]
      /\ \A i \in I : \E k \in DOMAIN ls : ls[k] = listeners[i]
  BY <1>1, <1>2, AtProperties, Zenon
<1>4. es = [k \in DOMAIN ls |-> Event(ls[k], q, view'[q])]
  BY DEF Events
<1> HIDE DEF ls, es
<1>5. \A k \in DOMAIN ls :
        /\ ls[k].handler \in Handler
        /\ q = QueryOf[ls[k].handler]
  <2> SUFFICES ASSUME NEW k \in DOMAIN ls
               PROVE  /\ ls[k].handler \in Handler
                      /\ q = QueryOf[ls[k].handler]
    OBVIOUS
  <2>1. PICK i \in I : ls[k] = listeners[i]
    BY <1>3
  <2>2. listeners[i].query = q /\ i \in DOMAIN listeners
    BY <1>1 DEF Of
  <2> QED
    BY <2>1, <2>2, ListenersTyped
<1>6. \A k \in DOMAIN ls :
        es[k] = [kind |-> "snapshot", handler |-> ls[k].handler,
                 docs |-> view'[q]]
  BY <1>4 DEF Event
<1>7. \A k \in DOMAIN ls : es[k] \in MainEvents
  BY <1>5, <1>6, EventTyped
<1>8. DOMAIN es = 1 .. Len(ls) /\ Len(ls) \in Nat
  BY <1>3, <1>4
<1>9. es \in Seq(MainEvents)
  BY <1>3, <1>4, <1>7, <1>8
<1>10. \A k \in DOMAIN es : \A h \in Handler :
         IsFor(es[k], h) => es[k].docs = view'[QueryOf[h]]
  BY <1>3, <1>5, <1>6, <1>8 DEF IsFor
<1>11. \A i \in I : \E k \in DOMAIN es : IsFor(es[k], listeners[i].handler)
  BY <1>3, <1>6, <1>8 DEF IsFor
<1> QED
  BY <1>9, <1>10, <1>11 DEF es

(* Being told changes no listener but for that. *)
LEMMA ToldAllProperties ==
  ASSUME Typed, NEW q \in Query, ToldAll(q)
  PROVE  /\ listeners' \in Seq(Listeners)
         /\ \A i \in DOMAIN listeners' :
              listeners'[i].query = QueryOf[listeners'[i].handler]
         /\ \A h : Listening(h)' <=> Listening(h)
<1>1. \A i \in DOMAIN listeners : listeners[i] \in Listeners
  BY DEF Typed
<1>2. \A i \in DOMAIN listeners :
        [listeners[i] EXCEPT !.raised = TRUE] \in Listeners
  BY <1>1 DEF Listeners
<1>3. /\ DOMAIN listeners' = DOMAIN listeners
      /\ \A i \in DOMAIN listeners :
           /\ listeners'[i] \in Listeners
           /\ listeners'[i].query = listeners[i].query
           /\ listeners'[i].handler = listeners[i].handler
  BY <1>1, <1>2 DEF ToldAll, Listeners
<1>4. DOMAIN listeners = 1 .. Len(listeners) /\ Len(listeners) \in Nat
  BY DEF Typed
<1>5. listeners' \in Seq(Listeners)
  BY <1>3, <1>4 DEF ToldAll
<1>6. \A i \in DOMAIN listeners :
        listeners[i].query = QueryOf[listeners[i].handler]
  BY DEF Typed
<1> QED
  BY <1>3, <1>5, <1>6 DEF Listening

(***************************************************************************)
(* A view changes, and the listeners of its query are told.                *)
(***************************************************************************)
LEMMA RaiseKeeps ==
  ASSUME TablesFollow, NEW q \in Query,
         view' \in Views,
         \A p \in Query : p # q => view'[p] = view[p],
         DOMAIN view["members"] \subseteq DOMAIN view'["members"],
         RaiseSnapshots(q),
         settled' = settled,
         tasks' \in Seq(Tasks),
         \A i \in DOMAIN tasks' : tasks'[i].kind = "listen"
           => tasks'[i].query = QueryOf[tasks'[i].handler],
         \A h : NoCall(tasks', h) => NoCall(tasks, h),
         UNCHANGED <<memberVars, messageVars, searchVars>>
  PROVE  TablesFollow'
<1> DEFINE ready == settled[q] \/ ~EmptyNext(q)
           I == IF ready THEN Of(q) ELSE Told(q)
           es == Events(q, I)
<1>1. Typed
  BY DEF TablesFollow
<1>2. I \in SUBSET Of(q)
  BY DEF Told
<1>3. /\ es \in Seq(MainEvents)
      /\ \A k \in DOMAIN es : \A h \in Handler :
           IsFor(es[k], h) => es[k].docs = view'[QueryOf[h]]
      /\ \A i \in I : \E k \in DOMAIN es : IsFor(es[k], listeners[i].handler)
  BY <1>1, <1>2, EventsProperties
<1>4. main' = main \o es
  BY DEF RaiseSnapshots
<1>5. /\ listeners' \in Seq(Listeners)
      /\ \A i \in DOMAIN listeners' :
           listeners'[i].query = QueryOf[listeners'[i].handler]
      /\ \A h : Listening(h)' <=> Listening(h)
  <2>1. CASE ready
    BY <2>1, <1>1, ToldAllProperties DEF RaiseSnapshots
  <2>2. CASE ~ ready
    BY <2>2, <1>1 DEF RaiseSnapshots, Typed, Listening
  <2> QED
    BY <2>1, <2>2
<1>6. Typed'
  <2>1. main' \in Seq(MainEvents)
    BY <1>1, <1>3, <1>4, ConcatProperties DEF Typed
  <2>2. UNCHANGED <<chatMemberArray, chatMembers, userOptions, messages, bubbles,
                    totalUsers, possibleUsers>>
    BY DEF memberVars, messageVars, searchVars
  <2> HIDE DEF es
  <2> QED
    BY <2>1, <2>2, <1>1, <1>5 DEF Typed
<1>7. ASSUME NEW h \in Handler, Listening(h)
      PROVE  \/ \E k \in DOMAIN es : IsFor(es[k], h)
             \/ /\ view'[QueryOf[h]] = view[QueryOf[h]]
                /\ NoCall(tasks', h) => NoCall(tasks, h)
             \/ h # "valid" /\ DOMAIN view'[QueryOf[h]] = {}
  <2>1. CASE QueryOf[h] # q
    BY <2>1, QueryTyped
  <2>2. CASE QueryOf[h] = q /\ ready
    <3>1. PICK i \in DOMAIN listeners : listeners[i].handler = h
      BY <1>7 DEF Listening
    <3>2. i \in Of(q)
      BY <3>1, <2>2, <1>1, ListenersTyped DEF Of
    <3>3. i \in I
      BY <3>2, <2>2
    <3> QED
      BY <3>1, <3>3, <1>3
  <2>3. CASE QueryOf[h] = q /\ ~ ready
    BY <2>3, QueryTyped DEF EmptyNext
  <2> QED
    BY <2>1, <2>2, <2>3
<1> HIDE DEF es
<1>8. \A h \in Handler : Listening(h)' =>
           \/ \E k \in DOMAIN es : IsFor(es[k], h)
           \/ /\ Listening(h)
              /\ view'[QueryOf[h]] = view[QueryOf[h]]
              /\ NoCall(tasks', h) => NoCall(tasks, h)
           \/ h # "valid" /\ DOMAIN view'[QueryOf[h]] = {}
  BY <1>5, <1>7
<1> QED
  BY <1>3, <1>4, <1>6, <1>8, MoreToHandle

(* Nothing is told, and at most writes leave or join the worker queue. *)
LEMMA QuietKeeps ==
  ASSUME TablesFollow, Typed',
         UNCHANGED <<view, listeners, main, memberVars, messageVars>>,
         \A h : NoCall(tasks', h) => NoCall(tasks, h)
  PROVE  TablesFollow'
<1> DEFINE es == <<>>
<1>1. /\ es \in Seq(MainEvents)
      /\ DOMAIN es = {}
  OBVIOUS
<1>2. main' = main \o es
  <2>1. main \in Seq(MainEvents)
    BY DEF TablesFollow, Typed
  <2> QED
    BY <2>1, ConcatEmptySeq
<1>3. UNCHANGED <<memberVars, messageVars>>
  OBVIOUS
<1>4. \A h \in Handler : Listening(h)' =>
        /\ Listening(h)
        /\ view'[QueryOf[h]] = view[QueryOf[h]]
        /\ NoCall(tasks', h) => NoCall(tasks, h)
  BY DEF Listening
<1>5. DOMAIN view["members"] \subseteq DOMAIN view'["members"]
  OBVIOUS
<1> HIDE DEF es
<1> QED
  BY <1>1, <1>2, <1>3, <1>4, <1>5, MoreToHandle

(* A task is taken from the worker queue. *)
LEMMA FirstTask ==
  ASSUME Typed, tasks # <<>>, tasks' = Tail(tasks)
  PROVE  /\ Head(tasks) \in Tasks
         /\ Head(tasks).kind = "listen"
              => Head(tasks).query = QueryOf[Head(tasks).handler]
         /\ tasks' \in Seq(Tasks)
         /\ \A i \in DOMAIN tasks' : tasks'[i].kind = "listen"
              => tasks'[i].query = QueryOf[tasks'[i].handler]
         /\ \A h : NoCall(tasks', h) =>
              \/ NoCall(tasks, h)
              \/ Head(tasks).kind = "listen" /\ Head(tasks).handler = h
<1>1. /\ tasks \in Seq(Tasks)
      /\ \A i \in DOMAIN tasks : tasks[i].kind = "listen"
           => tasks[i].query = QueryOf[tasks[i].handler]
  BY DEF Typed
<1>2. /\ Head(tasks) = tasks[1] /\ Head(tasks) \in Tasks /\ 1 \in DOMAIN tasks
      /\ tasks' \in Seq(Tasks)
      /\ Len(tasks') = Len(tasks) - 1
      /\ \A i \in 1 .. Len(tasks') : tasks'[i] = tasks[i + 1]
      /\ Len(tasks) \in Nat \ {0}
  BY <1>1, HeadTailProperties, EmptySeq
<1>3. \A i \in DOMAIN tasks' :
        i + 1 \in DOMAIN tasks /\ tasks'[i] = tasks[i + 1]
  BY <1>1, <1>2
<1>4. \A i \in DOMAIN tasks :
        i = 1 \/ (i - 1 \in DOMAIN tasks' /\ tasks'[i - 1] = tasks[i])
  BY <1>1, <1>2
<1>5. \A i \in DOMAIN tasks' : tasks'[i].kind = "listen"
        => tasks'[i].query = QueryOf[tasks'[i].handler]
  BY <1>1, <1>3
<1>6. ASSUME NEW h, NoCall(tasks', h),
             ~ (Head(tasks).kind = "listen" /\ Head(tasks).handler = h)
      PROVE  NoCall(tasks, h)
  BY <1>2, <1>4, <1>6 DEF NoCall
<1>7. Head(tasks).kind = "listen"
        => Head(tasks).query = QueryOf[Head(tasks).handler]
  BY <1>1, <1>2
<1> QED
  BY <1>2, <1>5, <1>6, <1>7

LEMMA ListenKeeps ==
  ASSUME TablesFollow, RunTask, Head(tasks).kind = "listen"
  PROVE  TablesFollow'
<1> DEFINE l == Head(tasks)
           ready == settled[l.query] \/ ~Empty(l.query)
           e == [kind |-> "snapshot", handler |-> l.handler,
                 docs |-> view[l.query]]
           es == IF ready THEN <<e>> ELSE <<>>
<1>1. /\ Typed /\ view' = view
      /\ main \in Seq(MainEvents) /\ listeners \in Seq(Listeners)
      /\ \A i \in DOMAIN listeners :
           listeners[i].query = QueryOf[listeners[i].handler]
  BY DEF TablesFollow, Typed, RunTask, AddSnapshotListener
<1>2. /\ l \in Tasks
      /\ l.query = QueryOf[l.handler]
      /\ tasks' \in Seq(Tasks)
      /\ \A i \in DOMAIN tasks' : tasks'[i].kind = "listen"
           => tasks'[i].query = QueryOf[tasks'[i].handler]
      /\ \A h : NoCall(tasks', h) => NoCall(tasks, h) \/ l.handler = h
  BY <1>1, FirstTask DEF RunTask
<1>3. l.handler \in Handler /\ l.query \in Query
  BY <1>2 DEF Tasks
<1>4. /\ listeners' = Append(listeners,
                        [query |-> l.query, handler |-> l.handler,
                         raised |-> ready])
      /\ main' = IF ready THEN Append(main, e) ELSE main
  BY DEF RunTask, AddSnapshotListener, Event
<1>5. ready \in BOOLEAN
  OBVIOUS
<1>6. e \in MainEvents
  BY <1>1, <1>2, <1>3, EventTyped DEF Typed
<1>7. /\ es \in Seq(MainEvents)
      /\ main' = main \o es
      /\ DOMAIN es = IF ready THEN {1} ELSE {}
      /\ \A k \in DOMAIN es : es[k] = e
  <2>1. CASE ready
    BY <2>1, <1>1, <1>4, <1>6
  <2>2. CASE ~ ready
    BY <2>2, <1>1, <1>4, ConcatEmptySeq
  <2> QED
    BY <2>1, <2>2
<1>8. /\ listeners' \in Seq(Listeners)
      /\ DOMAIN listeners' = 1 .. Len(listeners) + 1
      /\ \A i \in DOMAIN listeners' :
           \/ i \in DOMAIN listeners /\ listeners'[i] = listeners[i]
           \/ listeners'[i] = [query |-> l.query, handler |-> l.handler,
                               raised |-> ready]
  BY <1>1, <1>3, <1>4, <1>5 DEF Listeners
<1> HIDE DEF l, ready, e, es
<1>9. \A h : Listening(h)' => Listening(h) \/ h = l.handler
  BY <1>8 DEF Listening
<1>10. Typed'
  <2>1. main' \in Seq(MainEvents)
    BY <1>1, <1>7, ConcatProperties
  <2>2. \A i \in DOMAIN listeners' :
          listeners'[i].query = QueryOf[listeners'[i].handler]
    BY <1>1, <1>2, <1>8
  <2>3. UNCHANGED <<settled, chatMemberArray, chatMembers, userOptions,
                    messages, bubbles, totalUsers, possibleUsers>>
    BY DEF RunTask, memberVars, messageVars, searchVars
  <2> QED
    BY <2>1, <2>2, <2>3, <1>1, <1>2, <1>8 DEF Typed
<1>11. \A k \in DOMAIN es : \A h \in Handler :
         IsFor(es[k], h) => es[k].docs = view'[QueryOf[h]]
  BY <1>1, <1>2, <1>7 DEF e, IsFor
<1>12. ASSUME NEW h \in Handler, Listening(h)'
       PROVE  \/ \E k \in DOMAIN es : IsFor(es[k], h)
              \/ /\ Listening(h)
                 /\ view'[QueryOf[h]] = view[QueryOf[h]]
                 /\ NoCall(tasks', h) => NoCall(tasks, h)
              \/ h # "valid" /\ DOMAIN view'[QueryOf[h]] = {}
  <2>1. CASE h # l.handler
    BY <2>1, <1>1, <1>2, <1>9, <1>12
  <2>2. CASE h = l.handler /\ ready
    BY <2>2, <1>7 DEF e, IsFor
  <2>3. CASE h = l.handler /\ ~ ready
    BY <2>3, <1>1, <1>2, QueryTyped DEF ready, Empty
  <2> QED
    BY <2>1, <2>2, <2>3
<1>13. UNCHANGED <<memberVars, messageVars>>
  BY DEF RunTask
<1> QED
  BY <1>1, <1>7, <1>10, <1>11, <1>12, <1>13, MoreToHandle

(* A view of the members that has one more, or another colour. *)
LEMMA ColoursWith ==
  ASSUME NEW f \in Colours, NEW u \in Person, NEW c \in Colour,
         NEW g, g = [v \in DOMAIN f \cup {u} |-> IF v = u THEN c ELSE f[v]]
  PROVE  /\ g \in Colours
         /\ DOMAIN f \subseteq DOMAIN g
<1>1. PICK S \in SUBSET Person : f \in [S -> Colour]
  BY DEF Colours
<1>2. S \cup {u} \in SUBSET Person /\ g \in [S \cup {u} -> Colour]
  BY <1>1
<1> QED
  BY <1>1, <1>2 DEF Colours

LEMMA WriteKeeps ==
  ASSUME TablesFollow, RunTask, Head(tasks).kind # "listen"
  PROVE  TablesFollow'
<1> DEFINE w == Head(tasks)
<1>1. /\ Typed
      /\ view \in Views
      /\ main \in Seq(MainEvents) /\ listeners \in Seq(Listeners)
  BY DEF TablesFollow, Typed
<1>2. /\ w \in Tasks
      /\ tasks' \in Seq(Tasks)
      /\ \A i \in DOMAIN tasks' : tasks'[i].kind = "listen"
           => tasks'[i].query = QueryOf[tasks'[i].handler]
      /\ \A h : NoCall(tasks', h) => NoCall(tasks, h)
  BY <1>1, FirstTask DEF RunTask
<1>3. w.query \in {"chat", "members"} /\ w.user \in Person
  BY <1>2 DEF Tasks
<1>4. AddNewUser(w.query, w.user)
  BY DEF RunTask
<1>5. UNCHANGED <<settled, memberVars, messageVars, searchVars>>
  BY DEF RunTask
<1> HIDE DEF w
<1>6. CASE view' = view
  <2>1. UNCHANGED <<view, main, listeners>>
    BY <1>4, <1>6 DEF AddNewUser
  <2>2. Typed'
    BY <2>1, <1>1, <1>2, <1>5 DEF Typed, memberVars, messageVars, searchVars
  <2> QED
    BY <2>1, <2>2, <1>2, <1>5, QuietKeeps
<1>7. CASE view' # view
  <2>1. RaiseSnapshots(w.query) /\ w.query \in Query
    BY <1>3, <1>4, <1>7 DEF AddNewUser, Query
  <2>2. DefaultColour \in Colour
    BY PersonAssumption
  <2>3. /\ view' \in Views
        /\ \A p \in Query : p # w.query => view'[p] = view[p]
        /\ DOMAIN view["members"] \subseteq DOMAIN view'["members"]
    <3>1. CASE w.query = "chat"
      <4>1. view' = [view EXCEPT !["chat"] = view["chat"] \cup {w.user}]
        BY <3>1, <1>4 DEF AddNewUser
      <4> QED
        BY <4>1, <3>1, <1>1, <1>3 DEF Views, Query
    <3>2. CASE w.query = "members"
      <4> DEFINE g == [v \in DOMAIN view["members"] \cup {w.user} |->
                         IF v = w.user THEN DefaultColour
                         ELSE view["members"][v]]
      <4>1. view' = [view EXCEPT !["members"] = g]
        BY <3>2, <1>4 DEF AddNewUser
      <4>2. view["members"] \in Colours
        BY <1>1 DEF Views
      <4>3. g \in Colours /\ DOMAIN view["members"] \subseteq DOMAIN g
        BY <4>2, <2>2, <1>3, ColoursWith
      <4> HIDE DEF g
      <4> QED
        BY <4>1, <4>3, <3>2, <1>1 DEF Views, Query
    <3> QED
      BY <3>1, <3>2, <1>3
  <2>4. settled' = settled /\ UNCHANGED <<memberVars, messageVars, searchVars>>
    BY <1>5
  <2> QED
    BY <2>1, <2>3, <2>4, <1>2, RaiseKeeps
<1> QED
  BY <1>6, <1>7

(* Snapshots and gestures elsewhere, and the refusal of a message. *)
LEMMA ShowKeeps ==
  ASSUME TablesFollow, NEW q \in Query, NEW docs, Show(q, docs),
         view' \in Views,
         q = "members" => DOMAIN view["members"] \subseteq DOMAIN docs,
         UNCHANGED <<settled, tasks, memberVars, messageVars, searchVars>>
  PROVE  TablesFollow'
<1>1. view \in Views
  BY DEF TablesFollow, Typed
<1>2. view' = [view EXCEPT ![q] = docs] /\ RaiseSnapshots(q)
  BY DEF Show
<1>3. \A p \in Query : p # q => view'[p] = view[p]
  BY <1>1, <1>2 DEF Views, Query
<1>4. DOMAIN view["members"] \subseteq DOMAIN view'["members"]
  BY <1>1, <1>2 DEF Views, Query
<1>5. /\ tasks' \in Seq(Tasks)
      /\ \A i \in DOMAIN tasks' : tasks'[i].kind = "listen"
           => tasks'[i].query = QueryOf[tasks'[i].handler]
      /\ \A h : NoCall(tasks', h) => NoCall(tasks, h)
  BY DEF TablesFollow, Typed
<1>6. settled' = settled /\ UNCHANGED <<memberVars, messageVars, searchVars>>
  OBVIOUS
<1> QED
  BY <1>2, <1>3, <1>4, <1>5, <1>6, RaiseKeeps

LEMMA ChangeKeeps ==
  ASSUME TablesFollow, Change
  PROVE  TablesFollow'
<1>1. /\ view \in Views
      /\ view["chat"] \in SUBSET Person
      /\ view["members"] \in Colours
      /\ view["messages"] \in Seq(Person)
  BY DEF TablesFollow, Typed, Views
<1>2. UNCHANGED <<settled, tasks, memberVars, messageVars, searchVars>>
  BY DEF Change
<1>3. ASSUME NEW d \in SUBSET Person, Show("chat", d)
      PROVE  TablesFollow'
  <2>1. view' \in Views
    BY <1>1, <1>3 DEF Show, Views
  <2> QED
    BY <2>1, <1>2, <1>3, ShowKeeps DEF Query
<1>4. ASSUME NEW u \in Person, NEW c \in Colour,
             Show("members", [v \in DOMAIN view["members"] \cup {u} |->
                                IF v = u THEN c ELSE view["members"][v]])
      PROVE  TablesFollow'
  <2> DEFINE g == [v \in DOMAIN view["members"] \cup {u} |->
                     IF v = u THEN c ELSE view["members"][v]]
  <2>1. g \in Colours /\ DOMAIN view["members"] \subseteq DOMAIN g
    BY <1>1, ColoursWith
  <2>2. Show("members", g)
    BY <1>4
  <2> HIDE DEF g
  <2>3. view' \in Views
    BY <1>1, <2>1, <2>2 DEF Show, Views
  <2> QED
    BY <2>1, <2>2, <2>3, <1>2, ShowKeeps DEF Query
<1>5. ASSUME NEW u \in Person, Show("messages", <<u>> \o view["messages"])
      PROVE  TablesFollow'
  <2>1. <<u>> \o view["messages"] \in Seq(Person)
    BY <1>1, ConcatProperties
  <2>2. view' \in Views
    BY <1>1, <1>5, <2>1 DEF Show, Views
  <2> QED
    BY <2>2, <1>2, <1>5, ShowKeeps DEF Query
<1>6. \A u \in Person : /\ view["chat"] \cup {u} \in SUBSET Person
                        /\ view["chat"] \ {u} \in SUBSET Person
  BY <1>1
<1>7. CASE \E u \in Person : Show("chat", view["chat"] \cup {u})
                               \/ Show("chat", view["chat"] \ {u})
  BY <1>3, <1>6, <1>7
<1>8. CASE \E u \in Person, c \in Colour :
             Show("members", [v \in DOMAIN view["members"] \cup {u} |->
                                IF v = u THEN c ELSE view["members"][v]])
  BY <1>4, <1>8
<1>9. CASE \E u \in Person : Show("messages", <<u>> \o view["messages"])
  BY <1>5, <1>9
<1> QED
  BY <1>7, <1>8, <1>9 DEF Change

LEMMA RejectMessageKeeps ==
  ASSUME TablesFollow, RejectMessage
  PROVE  TablesFollow'
<1>1. view \in Views /\ view["messages"] \in Seq(Person)
  BY DEF TablesFollow, Typed, Views
<1>2. Tail(view["messages"]) \in Seq(Person)
  BY <1>1, HeadTailProperties DEF RejectMessage
<1>3. Show("messages", Tail(view["messages"]))
  BY DEF RejectMessage
<1>4. view' \in Views
  BY <1>1, <1>2, <1>3 DEF Show, Views
<1>5. UNCHANGED <<settled, tasks, memberVars, messageVars, searchVars>>
  BY DEF RejectMessage
<1> QED
  BY <1>3, <1>4, <1>5, ShowKeeps DEF Query

(* A query comes to be in sync: who has been told nothing yet is told. *)
LEMMA SettleKeeps ==
  ASSUME TablesFollow, NEW q \in Query, Settle(q)
  PROVE  TablesFollow'
<1> DEFINE es == Events(q, Of(q) \ Told(q))
<1>1. /\ Typed /\ view' = view /\ view' \in Views
      /\ main \in Seq(MainEvents)
  BY DEF TablesFollow, Typed, Settle
<1>2. /\ es \in Seq(MainEvents)
      /\ \A k \in DOMAIN es : \A h \in Handler :
           IsFor(es[k], h) => es[k].docs = view'[QueryOf[h]]
  <2> DEFINE I == Of(q) \ Told(q)
  <2>1. I \in SUBSET Of(q)
    OBVIOUS
  <2> HIDE DEF I
  <2>2. /\ Events(q, I) \in Seq(MainEvents)
        /\ \A k \in DOMAIN Events(q, I) : \A h \in Handler :
             IsFor(Events(q, I)[k], h)
               => Events(q, I)[k].docs = view'[QueryOf[h]]
    BY <1>1, <2>1, EventsProperties
  <2> QED
    BY <2>2 DEF I
<1>3. /\ listeners' \in Seq(Listeners)
      /\ \A i \in DOMAIN listeners' :
           listeners'[i].query = QueryOf[listeners'[i].handler]
      /\ \A h : Listening(h)' <=> Listening(h)
  BY <1>1, ToldAllProperties DEF Settle
<1>4. main' = main \o es
  BY DEF Settle
<1>5. tasks' = tasks /\ UNCHANGED <<memberVars, messageVars, searchVars>>
  BY DEF Settle
<1>6. settled' \in [Query -> BOOLEAN]
  BY <1>1 DEF Typed, Settle
<1> HIDE DEF es
<1>7. Typed'
  <2>1. main' \in Seq(MainEvents)
    BY <1>1, <1>2, <1>4, ConcatProperties
  <2> QED
    BY <2>1, <1>1, <1>3, <1>5, <1>6
    DEF Typed, memberVars, messageVars, searchVars
<1>8. \A h \in Handler : Listening(h)' =>
        /\ Listening(h)
        /\ view'[QueryOf[h]] = view[QueryOf[h]]
        /\ NoCall(tasks', h) => NoCall(tasks, h)
  BY <1>1, <1>3, <1>5
<1>9. DOMAIN view["members"] \subseteq DOMAIN view'["members"]
  BY <1>1
<1>10. UNCHANGED <<memberVars, messageVars>>
  BY <1>5
<1> QED
  BY <1>2, <1>4, <1>7, <1>8, <1>9, <1>10, MoreToHandle

(* A query is refused: its listeners are gone, the others stay. *)
LEMMA RefuseKeeps ==
  ASSUME TablesFollow, NEW q \in Query, Refuse(q)
  PROVE  TablesFollow'
<1> DEFINE ls == At(listeners, Of(q))
           es == [i \in DOMAIN ls |-> [kind |-> "error", handler |-> ls[i].handler]]
<1>1. /\ Typed /\ view' = view
      /\ main \in Seq(MainEvents) /\ listeners \in Seq(Listeners)
  BY DEF TablesFollow, Typed, Refuse
<1>2. /\ ls \in Seq(Listeners)
      /\ DOMAIN ls = 1 .. Len(ls)
  BY <1>1, AtProperties DEF Of
<1>3. main' = main \o es
  BY DEF Refuse
<1> HIDE DEF ls
<1>4. \A k \in DOMAIN es :
        /\ es[k] \in MainEvents
        /\ es[k].kind = "error"
  <2> SUFFICES ASSUME NEW k \in DOMAIN ls
               PROVE  /\ es[k] \in MainEvents
                      /\ es[k].kind = "error"
    OBVIOUS
  <2>1. ls[k] \in Listeners
    BY <1>2
  <2>2. ls[k].handler \in Handler
    BY <2>1 DEF Listeners
  <2> QED
    BY <2>2 DEF MainEvents
<1>5. DOMAIN es = 1 .. Len(ls) /\ Len(ls) \in Nat
  BY <1>2
<1>6. es \in Seq(MainEvents)
  BY <1>4, <1>5
<1> HIDE DEF es
<1>7. \A k \in DOMAIN es : \A h \in Handler :
        IsFor(es[k], h) => es[k].docs = view'[QueryOf[h]]
  BY <1>4 DEF IsFor
<1>8. /\ listeners' \in Seq(Listeners)
      /\ \A k \in DOMAIN listeners' : \E i \in DOMAIN listeners :
           listeners'[k] = listeners[i]
  <2> DEFINE I == DOMAIN listeners \ Of(q)
  <2>1. I \in SUBSET DOMAIN listeners
    OBVIOUS
  <2>2. listeners' = At(listeners, I)
    BY DEF Refuse
  <2> HIDE DEF I
  <2> QED
    BY <2>1, <2>2, <1>1, AtProperties
<1>9. \A k \in DOMAIN listeners' :
        listeners'[k].query = QueryOf[listeners'[k].handler]
  BY <1>1, <1>8 DEF Typed
<1>10. tasks' = tasks /\ UNCHANGED <<memberVars, messageVars, searchVars>>
  BY DEF Refuse
<1>11. settled' \in [Query -> BOOLEAN]
  BY <1>1 DEF Typed, Refuse
<1>12. Typed'
  <2>1. main' \in Seq(MainEvents)
    BY <1>1, <1>3, <1>6, ConcatProperties
  <2> QED
    BY <2>1, <1>1, <1>8, <1>9, <1>10, <1>11
    DEF Typed, memberVars, messageVars, searchVars
<1>13. \A h \in Handler : Listening(h)' =>
         /\ Listening(h)
         /\ view'[QueryOf[h]] = view[QueryOf[h]]
         /\ NoCall(tasks', h) => NoCall(tasks, h)
  BY <1>1, <1>8, <1>10 DEF Listening
<1>14. DOMAIN view["members"] \subseteq DOMAIN view'["members"]
  BY <1>1
<1>15. UNCHANGED <<memberVars, messageVars>>
  BY <1>10
<1> QED
  BY <1>3, <1>6, <1>7, <1>12, <1>13, <1>14, <1>15, MoreToHandle

-----------------------------------------------------------------------------
(***************************************************************************)
(* The search screen.                                                      *)
(***************************************************************************)
LEMMA GetDocumentsKeeps ==
  ASSUME TablesFollow, GetDocuments
  PROVE  TablesFollow'
<1> DEFINE e == [kind |-> "snapshot", handler |-> "users", docs |-> Person]
           es == <<e>>
<1>1. /\ Typed /\ main \in Seq(MainEvents)
      /\ UNCHANGED <<view, settled, tasks, listeners, memberVars, messageVars,
                     totalUsers, possibleUsers>>
  BY DEF TablesFollow, Typed, GetDocuments, workerVars
<1>2. e \in MainEvents
  BY DEF MainEvents
<1>3. es \in Seq(MainEvents) /\ main' = main \o es
  BY <1>1, <1>2 DEF GetDocuments
<1>4. \A k \in DOMAIN es : \A h \in Handler : ~ IsFor(es[k], h)
  BY DEF IsFor, Handler
<1> HIDE DEF es
<1>5. Typed'
  <2>1. main' \in Seq(MainEvents)
    BY <1>1, <1>3, ConcatProperties
  <2> QED
    BY <2>1, <1>1 DEF Typed, memberVars, messageVars
<1>6. \A h \in Handler : Listening(h)' =>
        /\ Listening(h)
        /\ view'[QueryOf[h]] = view[QueryOf[h]]
        /\ NoCall(tasks', h) => NoCall(tasks, h)
  BY <1>1 DEF Listening
<1>7. DOMAIN view["members"] \subseteq DOMAIN view'["members"]
  BY <1>1
<1>8. UNCHANGED <<memberVars, messageVars>>
  BY <1>1
<1> QED
  BY <1>3, <1>4, <1>5, <1>6, <1>7, <1>8, MoreToHandle

LEMMA TextFieldKeeps ==
  ASSUME TablesFollow, NEW value \in Text \cup {""}, TextFieldDidChange(value)
  PROVE  TablesFollow'
<1>1. /\ Typed
      /\ UNCHANGED <<view, settled, tasks, listeners, main, memberVars,
                     messageVars, totalUsers>>
  BY DEF TablesFollow, TextFieldDidChange, workerVars
<1>2. possibleUsers' \in SUBSET totalUsers'
  BY <1>1 DEF TextFieldDidChange, Matching
<1>3. Typed'
  BY <1>1, <1>2 DEF Typed, memberVars, messageVars
<1>4. \A h : NoCall(tasks', h) => NoCall(tasks, h)
  BY <1>1
<1> QED
  BY <1>1, <1>3, <1>4, QuietKeeps

LEMMA DidSelectRowKeeps ==
  ASSUME TablesFollow, NEW u \in Person, DidSelectRow(u)
  PROVE  TablesFollow'
<1> DEFINE ws == <<[kind |-> "write", query |-> "chat", user |-> u],
                   [kind |-> "write", query |-> "members", user |-> u]>>
<1>1. /\ Typed /\ tasks \in Seq(Tasks)
      /\ UNCHANGED <<view, settled, listeners, main, memberVars,
                     messageVars, searchVars>>
  BY DEF TablesFollow, Typed, DidSelectRow
<1>2. /\ ws \in Seq(Tasks)
      /\ \A k \in DOMAIN ws : ws[k].kind # "listen"
  BY DEF Tasks
<1>3. tasks' = tasks \o ws
  BY DEF DidSelectRow
<1> HIDE DEF ws
<1>4. /\ tasks' \in Seq(Tasks)
      /\ Len(tasks') = Len(tasks) + Len(ws)
      /\ \A i \in 1 .. Len(tasks) + Len(ws) :
           tasks'[i] = IF i <= Len(tasks) THEN tasks[i] ELSE ws[i - Len(tasks)]
  BY <1>1, <1>2, <1>3, ConcatProperties
<1>5. \A i \in DOMAIN tasks' :
        \/ i \in DOMAIN tasks /\ tasks'[i] = tasks[i]
        \/ tasks'[i].kind # "listen"
  BY <1>1, <1>2, <1>4
<1>6. \A i \in DOMAIN tasks : i \in DOMAIN tasks' /\ tasks'[i] = tasks[i]
  BY <1>1, <1>2, <1>4
<1>7. \A i \in DOMAIN tasks' : tasks'[i].kind = "listen"
        => tasks'[i].query = QueryOf[tasks'[i].handler]
  BY <1>1, <1>5 DEF Typed
<1>8. Typed'
  BY <1>1, <1>4, <1>7 DEF Typed, memberVars, messageVars, searchVars
<1>9. \A h : NoCall(tasks', h) => NoCall(tasks, h)
  BY <1>6 DEF NoCall
<1> QED
  BY <1>1, <1>8, <1>9, QuietKeeps

-----------------------------------------------------------------------------
(***************************************************************************)
(* The first event on the main queue is handled.                           *)
(***************************************************************************)
Handle(e) ==
  IF e.kind = "error" THEN Fail(e.handler)
  ELSE CASE e.handler = "valid"   -> LoadValidMembers(e.docs)
         [] e.handler = "list"    -> LoadMembers(e.docs)
         [] e.handler = "options" -> LoadUserOptions(e.docs)
         [] e.handler = "bubbles" -> LoadMessages(e.docs)
         [] e.handler = "users"   -> LoadUsers(e.docs)

ListenCall(query, handler) ==
  [kind |-> "listen", query |-> query, handler |-> handler]

(* What each kind of event does to the arrays. *)
LEMMA Effects ==
  ASSUME NEW e \in MainEvents, Handle(e)
  PROVE  /\ chatMemberArray' =
              IF IsFor(e, "valid") THEN e.docs ELSE chatMemberArray
         /\ chatMembers' =
              IF IsFor(e, "list")
              THEN [u \in DOMAIN e.docs \cap chatMemberArray |-> e.docs[u]]
              ELSE chatMembers
         /\ userOptions' =
              IF IsFor(e, "options") THEN Over(e.docs, userOptions) ELSE userOptions
         /\ bubbles' =
              IF IsFor(e, "bubbles") /\ e.docs # <<>> THEN Bubbles(e.docs)
              ELSE bubbles
         /\ \/ messages' \in {messages, <<>>}
            \/ messages' = e.docs /\ IsFor(e, "bubbles")
         /\ \/ UNCHANGED <<totalUsers, possibleUsers>>
            \/ /\ totalUsers' = totalUsers \cup Person
               /\ possibleUsers' = totalUsers'
         /\ tasks' = IF IsFor(e, "valid")
                     THEN Append(tasks, ListenCall("members", "list"))
                     ELSE IF IsFor(e, "options")
                     THEN Append(tasks, ListenCall("messages", "bubbles"))
                     ELSE tasks
<1>1. /\ e.kind \in {"error", "snapshot"}
      /\ e.handler \in Handler \cup {"users"}
      /\ e.kind = "error" => e.handler \in Handler
      /\ IsFor(e, "users") => e.docs = Person
  BY DocsTyped
<1>2. CASE e.kind = "error"
  <2>1. Fail(e.handler)
    BY <1>2 DEF Handle
  <2> QED
    BY <2>1, <1>2 DEF Fail, IsFor, memberVars, searchVars
<1>3. CASE e.kind = "snapshot" /\ e.handler = "valid"
  <2>1. LoadValidMembers(e.docs)
    BY <1>3 DEF Handle
  <2> QED
    BY <2>1, <1>3 DEF LoadValidMembers, Call, ListenCall, IsFor, messageVars, searchVars
<1>4. CASE e.kind = "snapshot" /\ e.handler = "list"
  <2>1. LoadMembers(e.docs)
    BY <1>4 DEF Handle
  <2> QED
    BY <2>1, <1>4 DEF LoadMembers, IsFor, messageVars, searchVars
<1>5. CASE e.kind = "snapshot" /\ e.handler = "options"
  <2>1. LoadUserOptions(e.docs)
    BY <1>5 DEF Handle
  <2> QED
    BY <2>1, <1>5 DEF LoadUserOptions, Call, ListenCall, IsFor, memberVars, searchVars
<1>6. CASE e.kind = "snapshot" /\ e.handler = "bubbles"
  <2>1. LoadMessages(e.docs)
    BY <1>6 DEF Handle
  <2> QED
    BY <2>1, <1>6 DEF LoadMessages, IsFor, memberVars, searchVars
<1>7. CASE e.kind = "snapshot" /\ e.handler = "users"
  <2>1. LoadUsers(e.docs)
    BY <1>7 DEF Handle
  <2>2. e.docs = Person
    BY <1>1, <1>7 DEF IsFor
  <2> QED
    BY <2>1, <2>2, <1>7 DEF LoadUsers, IsFor, memberVars, messageVars
<1> QED
  BY <1>1, <1>2, <1>3, <1>4, <1>5, <1>6, <1>7 DEF Handler

(* The colours of some over the colours of others. *)
LEMMA ColoursOver ==
  ASSUME NEW f \in Colours, NEW g \in Colours
  PROVE  /\ Over(f, g) \in Colours
         /\ DOMAIN Over(f, g) = DOMAIN f \cup DOMAIN g
         /\ DOMAIN g \subseteq DOMAIN f => Over(f, g) = f
<1>1. PICK S \in SUBSET Person : f \in [S -> Colour]
  BY DEF Colours
<1>2. PICK T \in SUBSET Person : g \in [T -> Colour]
  BY DEF Colours
<1>3. Over(f, g) = [x \in S \cup T |-> IF x \in S THEN f[x] ELSE g[x]]
  BY <1>1, <1>2 DEF Over
<1>4. S \cup T \in SUBSET Person /\ Over(f, g) \in [S \cup T -> Colour]
  BY <1>1, <1>2, <1>3
<1>5. T \subseteq S => Over(f, g) = f
  BY <1>1, <1>2, <1>3
<1> QED
  BY <1>1, <1>2, <1>4, <1>5 DEF Colours

LEMMA BubblesTyped ==
  ASSUME NEW ms \in Seq(Person), userOptions \in Colours
  PROVE  Bubbles(ms) \in Seq([from : Person, colour : Colour])
<1>1. \A u \in Person : LoadMessageColour(u) \in Colour
  BY PersonAssumption DEF LoadMessageColour, Colours
<1>2. \A i \in DOMAIN ms :
        [from |-> ms[i], colour |-> LoadMessageColour(ms[i])]
          \in [from : Person, colour : Colour]
  BY <1>1
<1>3. DOMAIN ms = 1 .. Len(ms) /\ Len(ms) \in Nat
  OBVIOUS
<1> QED
  BY <1>2, <1>3 DEF Bubbles

LEMMA RunMainTyped ==
  ASSUME TablesFollow, RunMain
  PROVE  /\ Head(main) \in MainEvents /\ Handle(Head(main))
         /\ main # <<>> /\ main' = Tail(main) /\ main \in Seq(MainEvents)
         /\ UNCHANGED <<view, settled, listeners>>
         /\ Typed'
<1> DEFINE e == Head(main)
<1>1. /\ Typed /\ main # <<>> /\ main' = Tail(main)
      /\ UNCHANGED <<view, settled, listeners>>
      /\ main \in Seq(MainEvents)
  BY DEF TablesFollow, Typed, RunMain
<1>2. e \in MainEvents /\ main' \in Seq(MainEvents)
  BY <1>1, HeadTailProperties
<1>3. Handle(e)
  BY DEF RunMain, Handle
<1> HIDE DEF e
<1>4. /\ IsFor(e, "valid") => e.docs \in SUBSET Person
      /\ IsFor(e, "list") => e.docs \in Colours
      /\ IsFor(e, "options") => e.docs \in Colours
      /\ IsFor(e, "bubbles") => e.docs \in Seq(Person)
  BY <1>2, DocsTyped
<1>5. chatMemberArray' \in SUBSET Person
  BY <1>1, <1>2, <1>3, <1>4, Effects DEF Typed
<1>6. chatMembers' \in Colours
  <2>1. chatMembers' =
          IF IsFor(e, "list")
          THEN [u \in DOMAIN e.docs \cap chatMemberArray |-> e.docs[u]]
          ELSE chatMembers
    BY <1>2, <1>3, Effects
  <2>2. ASSUME NEW f \in Colours, NEW a
        PROVE  [u \in DOMAIN f \cap a |-> f[u]] \in Colours
    <3>1. PICK S \in SUBSET Person : f \in [S -> Colour]
      BY DEF Colours
    <3>2. /\ S \cap a \in SUBSET Person
          /\ [u \in S \cap a |-> f[u]] \in [S \cap a -> Colour]
      BY <3>1
    <3> QED
      BY <3>1, <3>2 DEF Colours
  <2> QED
    BY <2>1, <2>2, <1>1, <1>4 DEF Typed
<1>7. userOptions' \in Colours
  <2>1. userOptions' =
          IF IsFor(e, "options") THEN Over(e.docs, userOptions) ELSE userOptions
    BY <1>2, <1>3, Effects
  <2> QED
    BY <2>1, <1>1, <1>4, ColoursOver DEF Typed
<1>8. bubbles' \in Seq([from : Person, colour : Colour])
  <2>1. bubbles' = IF IsFor(e, "bubbles") /\ e.docs # <<>> THEN Bubbles(e.docs)
                   ELSE bubbles
    BY <1>2, <1>3, Effects
  <2> QED
    BY <2>1, <1>1, <1>4, BubblesTyped DEF Typed
<1>9. messages' \in Seq(Person)
  <2>1. \/ messages' \in {messages, <<>>}
        \/ messages' = e.docs /\ IsFor(e, "bubbles")
    BY <1>2, <1>3, Effects
  <2>2. <<>> \in Seq(Person)
    OBVIOUS
  <2> QED
    BY <2>1, <2>2, <1>1, <1>4 DEF Typed
<1>10. totalUsers' \in SUBSET Person /\ possibleUsers' \in SUBSET totalUsers'
  <2>1. \/ UNCHANGED <<totalUsers, possibleUsers>>
        \/ /\ totalUsers' = totalUsers \cup Person
           /\ possibleUsers' = totalUsers'
    BY <1>2, <1>3, Effects
  <2> QED
    BY <2>1, <1>1 DEF Typed
<1>11. /\ tasks' \in Seq(Tasks)
       /\ \A i \in DOMAIN tasks' : tasks'[i].kind = "listen"
            => tasks'[i].query = QueryOf[tasks'[i].handler]
  <2>1. tasks' = IF IsFor(e, "valid")
                 THEN Append(tasks, ListenCall("members", "list"))
                 ELSE IF IsFor(e, "options")
                 THEN Append(tasks, ListenCall("messages", "bubbles"))
                 ELSE tasks
    BY <1>2, <1>3, Effects
  <2>2. /\ tasks \in Seq(Tasks)
        /\ \A i \in DOMAIN tasks : tasks[i].kind = "listen"
             => tasks[i].query = QueryOf[tasks[i].handler]
    BY <1>1 DEF Typed
  <2>3. ASSUME NEW t \in Tasks, tasks' = Append(tasks, t),
               t.query = QueryOf[t.handler]
        PROVE  /\ tasks' \in Seq(Tasks)
               /\ \A i \in DOMAIN tasks' : tasks'[i].kind = "listen"
                    => tasks'[i].query = QueryOf[tasks'[i].handler]
    <3>1. \A i \in DOMAIN tasks' :
            \/ i \in DOMAIN tasks /\ tasks'[i] = tasks[i]
            \/ tasks'[i] = t
      BY <2>2, <2>3
    <3> QED
      BY <3>1, <2>2, <2>3
  <2>4. /\ ListenCall("members", "list") \in Tasks
        /\ ListenCall("messages", "bubbles") \in Tasks
        /\ ListenCall("members", "list").query =
             QueryOf[ListenCall("members", "list").handler]
        /\ ListenCall("messages", "bubbles").query =
             QueryOf[ListenCall("messages", "bubbles").handler]
    BY DEF ListenCall, Tasks, Query, Handler, QueryOf
  <2> QED
    BY <2>1, <2>2, <2>3, <2>4
<1>12. Typed'
  BY <1>1, <1>2, <1>5, <1>6, <1>7, <1>8, <1>9, <1>10, <1>11 DEF Typed
<1> QED
  BY <1>1, <1>2, <1>3, <1>12 DEF e

LEMMA RunMainKeeps ==
  ASSUME TablesFollow, RunMain
  PROVE  TablesFollow'
<1> DEFINE e == Head(main)
<1>1. /\ e \in MainEvents /\ Handle(e)
      /\ main # <<>> /\ main' = Tail(main) /\ main \in Seq(MainEvents)
      /\ UNCHANGED <<view, settled, listeners>>
      /\ Typed'
  BY RunMainTyped
<1>2. /\ chatMemberArray' = IF IsFor(e, "valid") THEN e.docs ELSE chatMemberArray
      /\ chatMembers' =
           IF IsFor(e, "list")
           THEN [u \in DOMAIN e.docs \cap chatMemberArray |-> e.docs[u]]
           ELSE chatMembers
      /\ userOptions' =
           IF IsFor(e, "options") THEN Over(e.docs, userOptions)
           ELSE userOptions
      /\ bubbles' =
           IF IsFor(e, "bubbles") /\ e.docs # <<>> THEN Bubbles(e.docs)
           ELSE bubbles
      /\ tasks' = IF IsFor(e, "valid")
                  THEN Append(tasks, ListenCall("members", "list"))
                  ELSE IF IsFor(e, "options")
                  THEN Append(tasks, ListenCall("messages", "bubbles"))
                  ELSE tasks
  BY <1>1, Effects
<1>3. /\ IsFor(e, "list") => e.docs \in Colours
      /\ IsFor(e, "options") => e.docs \in Colours
  BY <1>1, DocsTyped
<1>4. e = main[1] /\ 1 \in DOMAIN main
  BY <1>1, HeadTailProperties, EmptySeq
<1>5. /\ Typed /\ DocumentsStay /\ ArrayFollows /\ OptionsFollow
      /\ ListFollows /\ BubblesFollow
  BY DEF TablesFollow
<1>6. \A h : /\ NoneLeft(main, h) => NoneLeft(main', h)
             /\ NoneLeft(main', h) => NoneLeft(main, h) \/ IsFor(e, h)
             /\ NoneLeft(main, h) => ~ IsFor(e, h)
             /\ \A d : EndsWith(main, h, d) =>
                  \/ EndsWith(main', h, d)
                  \/ NoneLeft(main', h) /\ IsFor(e, h) /\ e.docs = d
  <2>1. \A h : /\ NoneLeft(main, h) => NoneLeft(main', h)
               /\ NoneLeft(main', h) => NoneLeft(main, h) \/ IsFor(e, h)
               /\ \A d : EndsWith(main, h, d) =>
                    \/ EndsWith(main', h, d)
                    \/ NoneLeft(main', h) /\ IsFor(e, h) /\ e.docs = d
    BY <1>1, HandleFirst
  <2>2. \A h : NoneLeft(main, h) => ~ IsFor(e, h)
    BY <1>4 DEF NoneLeft
  <2> QED
    BY <2>1, <2>2
<1>7. \A h : Listening(h)' <=> Listening(h)
  BY <1>1 DEF Listening
<1>8. /\ \A h : NoCall(tasks', h) => NoCall(tasks, h)
      /\ IsFor(e, "valid") => ~ NoCall(tasks', "list")
      /\ IsFor(e, "options") => ~ NoCall(tasks', "bubbles")
  <2>1. tasks \in Seq(Tasks)
    BY <1>5 DEF Typed
  <2>2. ASSUME NEW t, tasks' = Append(tasks, t)
        PROVE  /\ \A i \in DOMAIN tasks :
                    i \in DOMAIN tasks' /\ tasks'[i] = tasks[i]
               /\ Len(tasks) + 1 \in DOMAIN tasks'
               /\ tasks'[Len(tasks) + 1] = t
    BY <2>1, <2>2
  <2>3. CASE IsFor(e, "valid")
    <3>1. tasks' = Append(tasks, ListenCall("members", "list"))
      BY <2>3, <1>2
    <3> QED
      BY <3>1, <2>2, <2>3 DEF NoCall, ListenCall, IsFor
  <2>4. CASE IsFor(e, "options")
    <3>1. tasks' = Append(tasks, ListenCall("messages", "bubbles"))
      BY <2>4, <1>2 DEF IsFor
    <3> QED
      BY <3>1, <2>2, <2>4 DEF NoCall, ListenCall, IsFor
  <2>5. CASE ~ IsFor(e, "valid") /\ ~ IsFor(e, "options")
    BY <2>5, <1>2
  <2> QED
    BY <2>3, <2>4, <2>5
<1> HIDE DEF e
<1>9. DocumentsStay'
  <2>1. \A i \in DOMAIN main' : i + 1 \in DOMAIN main /\ main'[i] = main[i + 1]
    BY <1>1, HeadTailProperties, EmptySeq
  <2>2. \A i \in DOMAIN main :
          IsFor(main[i], "list") \/ IsFor(main[i], "options")
            => DOMAIN main[i].docs \subseteq DOMAIN view["members"]
    BY <1>5 DEF DocumentsStay
  <2>3. \A i \in DOMAIN main' :
          IsFor(main'[i], "list") \/ IsFor(main'[i], "options")
            => DOMAIN main'[i].docs \subseteq DOMAIN view'["members"]
    BY <2>1, <2>2, <1>1
  <2>4. IsFor(e, "list") \/ IsFor(e, "options")
          => DOMAIN e.docs \subseteq DOMAIN view["members"]
    BY <2>2, <1>4
  <2>5. DOMAIN chatMembers' \subseteq DOMAIN view'["members"]
    BY <2>4, <1>1, <1>2, <1>5 DEF DocumentsStay
  <2>6. DOMAIN userOptions' \subseteq DOMAIN view'["members"]
    <3>1. IsFor(e, "options") => DOMAIN userOptions' = DOMAIN e.docs \cup DOMAIN userOptions
      BY <1>2 DEF Over
    <3> QED
      BY <3>1, <2>4, <1>1, <1>2, <1>5 DEF DocumentsStay
  <2> QED
    BY <2>3, <2>5, <2>6 DEF DocumentsStay
<1>10. ArrayFollows'
  <2> SUFFICES ASSUME Listening("valid")'
               PROVE  \/ EndsWith(main', "valid", view["chat"])
                      \/ /\ NoneLeft(main', "valid")
                         /\ chatMemberArray' = view["chat"]
    BY <1>1 DEF ArrayFollows
  <2>1. \/ EndsWith(main, "valid", view["chat"])
        \/ NoneLeft(main, "valid") /\ chatMemberArray = view["chat"]
    BY <1>5, <1>7 DEF ArrayFollows
  <2> QED
    BY <2>1, <1>2, <1>6
<1>11. OptionsFollow'
  <2> SUFFICES ASSUME Listening("options")'
               PROVE  \/ EndsWith(main', "options", view["members"])
                      \/ /\ NoneLeft(main', "options")
                         /\ userOptions' = view["members"]
    BY <1>1 DEF OptionsFollow
  <2>1. \/ EndsWith(main, "options", view["members"])
        \/ NoneLeft(main, "options") /\ userOptions = view["members"]
    BY <1>5, <1>7 DEF OptionsFollow
  <2>2. IsFor(e, "options") /\ e.docs = view["members"]
          => userOptions' = view["members"]
    <3>1. userOptions \in Colours
          /\ DOMAIN userOptions \subseteq DOMAIN view["members"]
      BY <1>5 DEF Typed, DocumentsStay
    <3> QED
      BY <3>1, <1>2, <1>3, ColoursOver
  <2> QED
    BY <2>1, <2>2, <1>2, <1>6
<1>12. ListFollows'
  <2> DEFINE Shown(a) == [u \in DOMAIN view["members"] \cap a |->
                            view["members"][u]]
  <2> SUFFICES ASSUME Listening("list")', NoneLeft(main', "valid"),
                      NoCall(tasks', "list")
               PROVE  \/ EndsWith(main', "list", view["members"])
                      \/ /\ NoneLeft(main', "list")
                         /\ chatMembers' = Shown(chatMemberArray')
    BY <1>1 DEF ListFollows
  <2>1. ~ IsFor(e, "valid") /\ NoneLeft(main, "valid") /\ NoCall(tasks, "list")
    BY <1>6, <1>8
  <2>2. chatMemberArray' = chatMemberArray
    BY <2>1, <1>2
  <2>3. \/ EndsWith(main, "list", view["members"])
        \/ NoneLeft(main, "list") /\ chatMembers = Shown(chatMemberArray)
    BY <2>1, <1>5, <1>7 DEF ListFollows
  <2>4. IsFor(e, "list") /\ e.docs = view["members"]
          => chatMembers' = Shown(chatMemberArray)
    BY <1>2
  <2> HIDE DEF Shown
  <2> QED
    BY <2>2, <2>3, <2>4, <1>2, <1>6
<1>13. BubblesFollow'
  <2> SUFFICES ASSUME Listening("bubbles")', view["messages"] # <<>>,
                      NoneLeft(main', "options"), NoCall(tasks', "bubbles")
               PROVE  \/ EndsWith(main', "bubbles", view["messages"])
                      \/ /\ NoneLeft(main', "bubbles")
                         /\ bubbles' = Bubbles(view["messages"])'
    BY <1>1 DEF BubblesFollow
  <2>1. /\ ~ IsFor(e, "options")
        /\ NoneLeft(main, "options") /\ NoCall(tasks, "bubbles")
    BY <1>6, <1>8
  <2>2. userOptions' = userOptions
    BY <2>1, <1>2
  <2>3. Bubbles(view["messages"])' = Bubbles(view["messages"])
    BY <2>2, <1>1 DEF Bubbles, LoadMessageColour
  <2>4. \/ EndsWith(main, "bubbles", view["messages"])
        \/ NoneLeft(main, "bubbles") /\ bubbles = Bubbles(view["messages"])
    BY <2>1, <1>5, <1>7 DEF BubblesFollow
  <2>5. IsFor(e, "bubbles") /\ e.docs = view["messages"]
          => bubbles' = Bubbles(view["messages"])
    BY <1>2
  <2> QED
    BY <2>3, <2>4, <2>5, <1>2, <1>6
<1> QED
  BY <1>1, <1>9, <1>10, <1>11, <1>12, <1>13 DEF TablesFollow

-----------------------------------------------------------------------------
(* Nothing is listened to, and the arrays are empty. *)
LEMMA InitFollows ==
  ASSUME Init
  PROVE  TablesFollow
<1>1. view \in Views
  BY PersonAssumption DEF Init
<1>0. /\ DOMAIN listeners = {} /\ DOMAIN main = {}
      /\ DOMAIN chatMembers = {} /\ DOMAIN userOptions = {}
  <2>1. DOMAIN <<>> = {}
    OBVIOUS
  <2> QED
    BY <2>1 DEF Init
<1>2. <<>> \in Colours
  BY DEF Colours
<1>3. Typed
  <2>1. settled \in [Query -> BOOLEAN]
    BY DEF Init
  <2>2. /\ tasks \in Seq(Tasks)
        /\ \A i \in DOMAIN tasks : tasks[i].kind = "listen"
             => tasks[i].query = QueryOf[tasks[i].handler]
    <3> DEFINE o == ListenCall("members", "options")
               v == ListenCall("chat", "valid")
    <3>1. tasks = <<o, v>>
      BY DEF Init, ListenCall
    <3>2. /\ o \in Tasks /\ o.query = QueryOf[o.handler]
          /\ v \in Tasks /\ v.query = QueryOf[v.handler]
      BY DEF Tasks, Query, Handler, QueryOf, ListenCall
    <3> HIDE DEF o, v
    <3> QED
      BY <3>1, <3>2
  <2>3. /\ listeners \in Seq(Listeners)
        /\ main \in Seq(MainEvents)
        /\ messages \in Seq(Person)
        /\ bubbles \in Seq([from : Person, colour : Colour])
    BY EmptySeq DEF Init
  <2>5. \A i \in DOMAIN listeners :
          listeners[i].query = QueryOf[listeners[i].handler]
    BY <1>0
  <2>4. /\ chatMembers \in Colours /\ userOptions \in Colours
        /\ chatMemberArray \in SUBSET Person
        /\ totalUsers \in SUBSET Person
        /\ possibleUsers \in SUBSET totalUsers
    BY <1>2 DEF Init
  <2> QED
    BY <1>1, <2>1, <2>2, <2>3, <2>4, <2>5 DEF Typed
<1>4. DocumentsStay
  BY <1>0 DEF DocumentsStay
<1>5. \A h : ~ Listening(h)
  BY <1>0 DEF Listening
<1> QED
  BY <1>3, <1>4, <1>5
  DEF TablesFollow, ArrayFollows, OptionsFollow, ListFollows, BubblesFollow

LEMMA NextFollows ==
  ASSUME TablesFollow, [Next]_screenVars
  PROVE  TablesFollow'
<1>1. CASE RunTask
  BY <1>1, ListenKeeps, WriteKeeps
<1>2. CASE RunMain
  BY <1>2, RunMainKeeps
<1>3. CASE Change
  BY <1>3, ChangeKeeps
<1>4. CASE RejectMessage
  BY <1>4, RejectMessageKeeps
<1>5. CASE \E q \in Query : Settle(q) \/ Refuse(q)
  BY <1>5, SettleKeeps, RefuseKeeps
<1>6. CASE GetDocuments
  BY <1>6, GetDocumentsKeeps
<1>7. CASE \E value \in Text \cup {""} : TextFieldDidChange(value)
  BY <1>7, TextFieldKeeps
<1>8. CASE \E u \in Person : DidSelectRow(u)
  BY <1>8, DidSelectRowKeeps
<1>9. CASE UNCHANGED screenVars
  <2>1. UNCHANGED <<view, settled, tasks, listeners, main, memberVars, messageVars, searchVars>>
    BY <1>9 DEF screenVars, memberVars, messageVars, searchVars
  <2>2. Typed'
    BY <2>1 DEF TablesFollow, Typed, memberVars, messageVars, searchVars
  <2> QED
    BY <2>1, <2>2, QuietKeeps
<1> QED
  BY <1>1, <1>2, <1>3, <1>4, <1>5, <1>6, <1>7, <1>8, <1>9 DEF Next

(***************************************************************************)
(* What the invariant says when both queues are empty.                     *)
(***************************************************************************)
LEMMA FollowsImplies ==
  ASSUME TablesFollow
  PROVE  ScreensInvariant
<1>1. Typed
  BY DEF TablesFollow
<1>2. ScreensTypeOK
  <2>1. \A i \in DOMAIN tasks : tasks[i].query \in Query
    <3>1. \A i \in DOMAIN tasks : tasks[i] \in Tasks
      BY <1>1 DEF Typed
    <3> QED
      BY <3>1 DEF Tasks, Query
  <2>2. \A i \in DOMAIN listeners :
          listeners[i].query \in Query /\ listeners[i].raised \in BOOLEAN
    BY <1>1, ListenersTyped, QueryTyped
  <2>3. \A i \in DOMAIN bubbles :
          bubbles[i].from \in Person /\ bubbles[i].colour \in Colour
    <3>1. \A i \in DOMAIN bubbles : bubbles[i] \in [from : Person, colour : Colour]
      BY <1>1, ElementOfSeq, LenProperties DEF Typed
    <3> QED
      BY <3>1
  <2> QED
    BY <2>1, <2>2, <2>3, <1>1 DEF ScreensTypeOK, Typed
<1>3. ASSUME Idle
      PROVE  /\ \A h : NoneLeft(main, h) /\ NoCall(tasks, h)
             /\ \A h, d : ~ EndsWith(main, h, d)
  BY <1>3 DEF Idle, NoneLeft, NoCall, EndsWith
<1>4. MembersAreCurrent
  <2> SUFFICES ASSUME Idle, Listening("valid"), Listening("list")
               PROVE  chatMembers = MembersShown
    BY DEF MembersAreCurrent
  <2>1. chatMemberArray = view["chat"]
    BY <1>3 DEF TablesFollow, ArrayFollows
  <2>2. chatMembers = [u \in DOMAIN view["members"] \cap chatMemberArray |->
                         view["members"][u]]
    BY <1>3 DEF TablesFollow, ListFollows
  <2> QED
    BY <2>1, <2>2 DEF MembersShown
<1>5. BubblesAreCurrent
  <2> SUFFICES ASSUME Idle, view["messages"] # <<>>, Listening("options"),
                      Listening("bubbles")
               PROVE  bubbles = BubblesShown
    BY DEF BubblesAreCurrent
  <2>1. userOptions = view["members"]
    BY <1>3 DEF TablesFollow, OptionsFollow
  <2>2. bubbles = Bubbles(view["messages"])
    BY <1>3 DEF TablesFollow, BubblesFollow
  <2> QED
    BY <2>1, <2>2 DEF Bubbles, LoadMessageColour, BubblesShown, ColourOf
<1> QED
  BY <1>2, <1>4, <1>5 DEF ScreensInvariant

(***************************************************************************)
(* However the listeners of the screens pile up, and in whatever order     *)
(* their events come, when all have been handled the members listed are    *)
(* those of the chat that have a document, and the messages are shown in   *)
(* the colours of now (GroupMembersModel and MessagesManager register a    *)
(* listener at each snapshot and never remove one).                        *)
(***************************************************************************)
THEOREM TablesAreCurrent == ScreensSpec => []ScreensInvariant
<1>1. Init => TablesFollow
  BY InitFollows
<1>2. TablesFollow /\ [Next]_screenVars => TablesFollow'
  BY NextFollows
<1>3. TablesFollow => ScreensInvariant
  BY FollowsImplies
<1> QED
  BY <1>1, <1>2, <1>3, PTL DEF ScreensSpec
==============================================================================
