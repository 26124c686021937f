---------------------------- MODULE MessageProofs ----------------------------
(***************************************************************************)
(* What holds of the objects and messages of Message for every set of      *)
(* objects, every number of them, every list of arguments and every wire   *)
(* that conveys one argument at a time.                                    *)
(***************************************************************************)
EXTENDS Message, FiniteSetTheorems, TLAPS

\* What the fields of an object can hold.
Values == {None} \cup UNION {{Decode(Content(said)[i]) : i \in DOMAIN said} : said \in SaidLists}
ArgumentLists == {<<>>} \cup {[i \in DOMAIN said |-> said[i][1]] : said \in Calls}
ObjectSet ==
  [msg : {0} \cup Ids, uniqueId : Int, iterInitialized : BOOLEAN, cursor : Nat,
   isExtracted : BOOLEAN, extracted : Values, arguments : ArgumentLists]

\* A message is free or has one owner, and its content is what was said.
Members == {""} \cup {call.member : call \in AgentCalls}
MessageSet == {Freed} \cup {NewMessage(member, said) : member \in Members, said \in SaidLists}

Shape ==
  /\ object \in [Objects -> ObjectSet]
  /\ heap \in [Ids -> MessageSet]
  /\ counter \in 0 .. MaxCreated
  /\ initialized \in BOOLEAN
  /\ inbox \in Seq(AgentCalls)

\* An object without a message remembers nothing of one.
BlankWithout == \A o \in Objects : object[o].msg = 0 => object[o] = Blank

\* Messages in use and objects that own one correspond one to one.
Owned ==
  /\ \A o \in Objects : object[o].msg # 0 => heap[object[o].msg].refs = 1
  /\ \A i \in Ids : heap[i].refs = 1 => \E o \in Objects : object[o].msg = i
  /\ \A o, p \in Objects : object[o].msg # 0 /\ object[o].msg = object[p].msg => o = p

\* Unique ids were given out by creation_counter, each to one object in use.
Numbered ==
  /\ \A o \in Objects : object[o].msg # 0 => object[o].uniqueId < counter
  /\ \A o, p \in Objects :
       object[o].msg # 0 /\ object[p].msg # 0 /\ object[o].uniqueId = object[p].uniqueId => o = p

\* The value an object r remembers, of a message m: the one the iterator points at,
\* or any one when the iterator of a copy has not started.
Remembers(r, m) ==
  /\ r.iterInitialized => r.cursor = 1 \/ r.cursor \in DOMAIN m.said
  /\ r.isExtracted =>
       IF m.said = <<>> THEN r.extracted = None
       ELSE \E i \in DOMAIN m.said : /\ r.iterInitialized => i = r.cursor
                                     /\ r.extracted = Decode(m.content[i])
Reading == \A o \in Objects : object[o].msg # 0 => Remembers(object[o], heap[object[o].msg])

IInv == Shape /\ BlankWithout /\ Owned /\ Numbered /\ Reading

-----------------------------------------------------------------------------
(* Messages, argument lists and Unref. *)

\* An argument list has the positions of a sequence.
LEMMA SaidIsSequence ==
  ASSUME NEW said \in SaidLists
  PROVE  /\ DOMAIN said = 1 .. Len(said)
         /\ Len(said) \in Nat
         /\ DOMAIN Content(said) = DOMAIN said
         /\ Len(Content(said)) = Len(said)
         /\ said = <<>> <=> DOMAIN said = {}
<1> DEFINE S == {said[i] : i \in DOMAIN said}
<1>1. said \in Seq(S)
  BY SaidAssumption
<1>2. DOMAIN said = 1 .. Len(said) /\ Len(said) \in Nat /\ (said = <<>> <=> Len(said) = 0)
  BY <1>1
<1>3. DOMAIN Content(said) = DOMAIN said
  BY DEF Content
<1>4. Content(said) = [i \in 1 .. Len(said) |-> Encode(said[i][1], said[i][2])]
  BY <1>2 DEF Content
<1>5. Len(Content(said)) = Len(said)
  BY <1>2, <1>4
<1>6. said = <<>> <=> DOMAIN said = {}
  BY <1>2
<1> QED
  BY <1>2, <1>3, <1>5, <1>6

\* Saying nothing puts nothing on the wire.
LEMMA NothingSaid == Content(<<>>) = <<>>
<1> DEFINE C == Content(<<>>)
<1>1. DOMAIN <<>> = 1 .. 0
  OBVIOUS
<1>2. DOMAIN C = 1 .. 0
  BY <1>1 DEF Content
<1>3. C = [i \in 1 .. 0 |-> Encode(<<>>[i][1], <<>>[i][2])]
  BY <1>1 DEF Content
<1>4. C \in [1 .. 0 -> {}]
  <2> HIDE DEF C
  <2> QED
    BY <1>3
<1>5. C \in Seq({}) /\ Len(C) = 0
  BY <1>4
<1> QED
  BY <1>5

\* What the fields of a message are.
LEMMA MessageFields ==
  ASSUME NEW m \in MessageSet
  PROVE  /\ m.refs \in {0, 1}
         /\ m.refs = 0 <=> m = Freed
         /\ m.said \in SaidLists
         /\ m.content = Content(m.said)
<1>1. CASE m = Freed
  BY <1>1, NothingSaid DEF Freed, SaidLists
<1>2. CASE \E member \in Members, said \in SaidLists : m = NewMessage(member, said)
  <2>1. PICK member \in Members, said \in SaidLists : m = NewMessage(member, said)
    BY <1>2
  <2>2. m.refs = 1 /\ m.said = said /\ m.content = Content(said)
    BY <2>1, Zenon DEF NewMessage
  <2>3. Freed.refs = 0
    BY DEF Freed
  <2> QED
    BY <2>2, <2>3
<1> QED
  BY <1>1, <1>2 DEF MessageSet

\* A new message is one of them.
LEMMA NewMessageFields ==
  ASSUME NEW member \in Members, NEW said \in SaidLists
  PROVE  /\ NewMessage(member, said) \in MessageSet
         /\ NewMessage(member, said).refs = 1
         /\ NewMessage(member, said).said = said
BY DEF MessageSet, NewMessage

\* dbus_message_unref frees what the object owned, and touches nothing else.
LEMMA UnrefFrees ==
  ASSUME Shape, Owned, NEW o \in Objects
  PROVE  /\ Unref(heap, o) \in [Ids -> MessageSet]
         /\ \A i \in Ids : Unref(heap, o)[i] = IF i = object[o].msg THEN Freed ELSE heap[i]
<1>1. Freed \in MessageSet
  BY DEF MessageSet
<1>2. object[o].msg \in {0} \cup Ids
  BY DEF Shape, ObjectSet
<1>3. CASE object[o].msg = 0
  BY <1>3, MessageAssumption DEF Unref, Shape
<1>4. CASE object[o].msg # 0
  <2> DEFINE i == object[o].msg
  <2>1. i \in Ids /\ heap[i].refs = 1
    BY <1>2, <1>4 DEF Owned
  <2>2. Unref(heap, o) = [heap EXCEPT ![i] = Freed]
    BY <2>1, <1>4 DEF Unref
  <2> QED
    BY <1>1, <2>1, <2>2 DEF Shape
<1> QED
  BY <1>3, <1>4

\* A blank object is well formed.
LEMMA BlankFields ==
  /\ Blank \in ObjectSet
  /\ Blank.msg = 0
BY DEF Blank, ObjectSet, Values, ArgumentLists

-----------------------------------------------------------------------------
(* What can happen to the owner of a message. *)

\* Counter, connection and inbox are well formed after the step, and no number is
\* taken back.
Surroundings ==
  /\ counter' \in 0 .. MaxCreated
  /\ counter <= counter'
  /\ initialized' \in BOOLEAN
  /\ inbox' \in Seq(AgentCalls)

\* An object that lets go of its message is blank; nobody else is disturbed.
LEMMA DropKeepsIInv ==
  ASSUME IInv, Surroundings, NEW o \in Objects,
         heap' = Unref(heap, o),
         object' = [object EXCEPT ![o] = Blank]
  PROVE  IInv'
<1> USE DEF IInv
<1>1. heap' \in [Ids -> MessageSet]
  BY UnrefFrees
<1>2. \A i \in Ids : heap'[i] = IF i = object[o].msg THEN Freed ELSE heap[i]
  BY UnrefFrees
<1>3. object' \in [Objects -> ObjectSet]
  BY BlankFields DEF Shape
<1>4. \A p \in Objects : object'[p] = IF p = o THEN Blank ELSE object[p]
  BY DEF Shape
<1>5. Shape'
  BY <1>1, <1>3 DEF Shape, Surroundings
<1>6. BlankWithout'
  BY <1>4 DEF BlankWithout
<1>7. Blank.msg = 0 /\ Freed.refs = 0
  BY BlankFields DEF Freed
<1>8. \A p \in Objects : object[p].msg \in {0} \cup Ids
  BY DEF Shape, ObjectSet
<1>9. \A p \in Objects : p # o /\ object[p].msg # 0 => heap'[object[p].msg] = heap[object[p].msg]
  BY <1>2, <1>8 DEF Owned
<1>10. Owned'
  BY <1>2, <1>4, <1>7, <1>8, <1>9 DEF Owned
<1>11. \A p \in Objects : object[p].uniqueId \in Int
  BY DEF Shape, ObjectSet
<1>12. Numbered'
  BY <1>4, <1>7, <1>11 DEF Numbered, Surroundings, Shape
<1>13. Reading'
  BY <1>4, <1>7, <1>9 DEF Reading, Remembers
<1> QED
  BY <1>5, <1>6, <1>10, <1>12, <1>13

\* An object that becomes the owner of message, number counter, where nobody owned
\* anything, having let go of its own.
LEMMA OwnKeepsIInv ==
  ASSUME IInv, Surroundings, NEW o \in Objects, NEW i \in FreeIds(Unref(heap, o)),
         NEW message \in MessageSet, message.refs = 1,
         NEW r \in ObjectSet, r.msg = i, r.uniqueId = counter, Remembers(r, message),
         counter' = counter + 1,
         heap' = [Unref(heap, o) EXCEPT ![i] = message],
         object' = [object EXCEPT ![o] = r]
  PROVE  IInv'
<1> USE DEF IInv
<1>1. Unref(heap, o) \in [Ids -> MessageSet]
  BY UnrefFrees
<1>2. i \in Ids /\ Unref(heap, o)[i].refs = 0
  BY DEF FreeIds
<1>3. heap' \in [Ids -> MessageSet]
  BY <1>1, <1>2
<1>4. \A j \in Ids : heap'[j] = IF j = i THEN message
                                ELSE IF j = object[o].msg THEN Freed ELSE heap[j]
  BY <1>1, <1>2, UnrefFrees
<1>5. i # object[o].msg => heap[i].refs = 0
  BY <1>2, UnrefFrees
<1>6. object' \in [Objects -> ObjectSet]
  BY DEF Shape
<1>7. \A p \in Objects : object'[p] = IF p = o THEN r ELSE object[p]
  BY DEF Shape
<1>8. Shape'
  BY <1>3, <1>6 DEF Shape, Surroundings
<1>9. r.msg # 0
  BY <1>2, MessageAssumption
<1>10. BlankWithout'
  BY <1>7, <1>9 DEF BlankWithout
<1>11. Freed.refs = 0
  BY DEF Freed
<1>12. \A p \in Objects : object[p].msg \in {0} \cup Ids
  BY DEF Shape, ObjectSet
<1>13. \A p \in Objects : p # o /\ object[p].msg # 0 =>
         /\ object[p].msg # i
         /\ object[p].msg # object[o].msg
         /\ heap'[object[p].msg] = heap[object[p].msg]
  BY <1>4, <1>5, <1>12 DEF Owned
<1>14. Owned'
  BY <1>2, <1>4, <1>7, <1>9, <1>11, <1>12, <1>13 DEF Owned
<1>15. \A p \in Objects : object[p].uniqueId \in Int
  BY DEF Shape, ObjectSet
<1>16. Numbered'
  BY <1>7, <1>9, <1>15 DEF Numbered, Shape
<1>17. Reading'
  <2> SUFFICES ASSUME NEW p \in Objects, object'[p].msg # 0
               PROVE  Remembers(object'[p], heap'[object'[p].msg])
    BY DEF Reading, Remembers
  <2>1. CASE p = o
    BY <2>1, <1>2, <1>4, <1>7
  <2>2. CASE p # o
    BY <2>2, <1>7, <1>13 DEF Reading
  <2> QED
    BY <2>1, <2>2
<1> QED
  BY <1>8, <1>10, <1>14, <1>16, <1>17

\* An object that keeps its message and number: its memory is what can change.
LEMMA RecallKeepsIInv ==
  ASSUME IInv, Surroundings, NEW o \in Objects, NEW r \in ObjectSet,
         r.msg = object[o].msg, r.uniqueId = object[o].uniqueId,
         r.msg = 0 => r = Blank,
         r.msg # 0 => Remembers(r, heap[r.msg]),
         heap' = heap,
         object' = [object EXCEPT ![o] = r]
  PROVE  IInv'
<1> USE DEF IInv
<1>1. \A p \in Objects : object'[p] = IF p = o THEN r ELSE object[p]
  BY DEF Shape
<1>2. Shape'
  BY DEF Shape, Surroundings
<1>3. BlankWithout'
  BY <1>1 DEF BlankWithout
<1>4. \A p \in Objects : object'[p].msg = object[p].msg /\ object'[p].uniqueId = object[p].uniqueId
  BY <1>1
<1>5. Owned'
  BY <1>4 DEF Owned
<1>6. \A p \in Objects : object[p].uniqueId \in Int
  BY DEF Shape, ObjectSet
<1>7. Numbered'
  BY <1>4, <1>6 DEF Numbered, Shape, Surroundings
<1>8. Reading'
  BY <1>1 DEF Reading, Remembers
<1> QED
  BY <1>2, <1>3, <1>5, <1>7, <1>8

\* o adopts a new message: CreateCall, SendWithReply, and PopMessage when there is one.
LEMMA AdoptKeepsIInv ==
  ASSUME IInv, NEW o \in Objects, NEW member \in Members, NEW said \in SaidLists,
         NEW arguments \in ArgumentLists,
         Adopt(o, NewMessage(member, said), arguments),
         initialized' \in BOOLEAN, inbox' \in Seq(AgentCalls)
  PROVE  IInv'
<1> DEFINE message == NewMessage(member, said)
<1>1. PICK i \in FreeIds(Unref(heap, o)) :
        /\ heap' = [Unref(heap, o) EXCEPT ![i] = message]
        /\ object' = [object EXCEPT ![o] = [Blank EXCEPT !.msg = i, !.uniqueId = counter,
                                                         !.arguments = arguments]]
  BY DEF Adopt
<1> DEFINE r == [Blank EXCEPT !.msg = i, !.uniqueId = counter, !.arguments = arguments]
<1>2. counter' = counter + 1 /\ counter < MaxCreated
  BY DEF Adopt
<1>3. Surroundings
  BY <1>2, MessageAssumption DEF Surroundings, IInv, Shape
<1>4. i \in Ids
  BY DEF FreeIds
<1>5. r \in ObjectSet /\ r.msg = i /\ r.uniqueId = counter
  <2>1. counter \in Int
    BY DEF IInv, Shape
  <2> QED
    BY <1>4, <2>1, BlankFields DEF ObjectSet
<1>6. Remembers(r, message)
  BY DEF Remembers, Blank
<1>7. message \in MessageSet /\ message.refs = 1
  BY NewMessageFields
<1> QED
  <2> HIDE DEF r, message
  <2> QED
    BY <1>1, <1>2, <1>3, <1>5, <1>6, <1>7, OwnKeepsIInv DEF r, message

\* A moved object takes its message and number along.
LEMMA MoveKeepsIInv ==
  ASSUME IInv, NEW o \in Objects, NEW from \in Objects, Move(o, from)
  PROVE  IInv'
<1> USE DEF IInv
<1>1. /\ o # from
      /\ heap' = Unref(heap, o)
      /\ object' = [object EXCEPT ![o] = object[from], ![from] = Blank]
      /\ UNCHANGED <<counter, initialized, inbox>>
  BY DEF Move
<1>2. \A p \in Objects : object'[p] = IF p = from THEN Blank
                                      ELSE IF p = o THEN object[from] ELSE object[p]
  BY <1>1 DEF Shape
<1>3. \A i \in Ids : heap'[i] = IF i = object[o].msg THEN Freed ELSE heap[i]
  BY <1>1, UnrefFrees
<1>4. heap' \in [Ids -> MessageSet]
  BY <1>1, UnrefFrees
<1>5. object' \in [Objects -> ObjectSet]
  BY <1>1, BlankFields DEF Shape
<1>6. Shape'
  BY <1>1, <1>4, <1>5 DEF Shape
<1>7. BlankWithout'
  BY <1>2 DEF BlankWithout
<1>8. Blank.msg = 0 /\ Freed.refs = 0
  BY BlankFields DEF Freed
<1>9. \A p \in Objects : object[p].msg \in {0} \cup Ids
  BY DEF Shape, ObjectSet
<1>10. \A p \in Objects : p # o /\ object[p].msg # 0 => heap'[object[p].msg] = heap[object[p].msg]
  BY <1>3, <1>9 DEF Owned
<1> DEFINE Source(p) == IF p = o THEN from ELSE p
<1>11. \A p \in Objects : object'[p].msg # 0 =>
         /\ p # from
         /\ Source(p) \in Objects /\ Source(p) # o
         /\ object'[p] = object[Source(p)]
         /\ heap'[object'[p].msg] = heap[object[Source(p)].msg]
  <2> SUFFICES ASSUME NEW p \in Objects, object'[p].msg # 0
               PROVE  /\ p # from
                      /\ Source(p) \in Objects /\ Source(p) # o
                      /\ object'[p] = object[Source(p)]
                      /\ heap'[object'[p].msg] = heap[object[Source(p)].msg]
    OBVIOUS
  <2>1. p # from
    BY <1>2, <1>8
  <2>2. Source(p) \in Objects /\ Source(p) # o
    BY <1>1
  <2>3. object'[p] = object[Source(p)]
    BY <1>2, <2>1
  <2> QED
    BY <2>1, <2>2, <2>3, <1>10
<1>12. \A p, q \in Objects : p # from /\ q # from /\ Source(p) = Source(q) => p = q
  BY <1>1
<1>13. Owned'
  <2>1. \A p \in Objects : object'[p].msg # 0 => heap'[object'[p].msg].refs = 1
    BY <1>11 DEF Owned
  <2>2. \A i \in Ids : heap'[i].refs = 1 => \E p \in Objects : object'[p].msg = i
    <3> SUFFICES ASSUME NEW i \in Ids, heap'[i].refs = 1
                 PROVE  \E p \in Objects : object'[p].msg = i
      OBVIOUS
    <3>1. i # object[o].msg /\ heap[i].refs = 1
      BY <1>3, <1>8
    <3>2. PICK q \in Objects : object[q].msg = i
      BY <3>1 DEF Owned
    <3>3. q # o
      BY <3>1, <3>2
    <3>4. CASE q = from
      BY <3>2, <3>4, <1>1, <1>2
    <3>5. CASE q # from
      BY <3>2, <3>3, <3>5, <1>2
    <3> QED
      BY <3>4, <3>5
  <2>3. \A p, q \in Objects : object'[p].msg # 0 /\ object'[p].msg = object'[q].msg => p = q
    <3> HIDE DEF Source
    <3> QED
      BY <1>11, <1>12 DEF Owned
  <2> QED
    BY <2>1, <2>2, <2>3 DEF Owned
<1>14. Numbered'
  <2> HIDE DEF Source
  <2>1. ASSUME NEW p \in Objects, object'[p].msg # 0
        PROVE  object'[p].uniqueId < counter'
    <3>1. object[Source(p)].uniqueId < counter
      BY <2>1, <1>11 DEF Numbered
    <3> QED
      BY <2>1, <3>1, <1>1, <1>11
  <2>2. \A p, q \in Objects :
          /\ object'[p].msg # 0 /\ object'[q].msg # 0
          /\ object'[p].uniqueId = object'[q].uniqueId
          => p = q
    BY <1>11, <1>12 DEF Numbered
  <2> QED
    BY <2>1, <2>2 DEF Numbered
<1>15. Reading'
  <2> HIDE DEF Source
  <2> QED
    BY <1>11 DEF Reading, Remembers
<1> QED
  BY <1>6, <1>7, <1>13, <1>14, <1>15

\* A copy is the one owner of a message of its own, with a number of its own.
LEMMA CopyKeepsIInv ==
  ASSUME IInv, NEW o \in Objects, NEW from \in Objects, Copy(o, from)
  PROVE  IInv'
<1>1. CASE Valid(from)
  <2>1. /\ counter < MaxCreated
        /\ counter' = counter + 1
        /\ UNCHANGED <<initialized, inbox>>
    BY <1>1 DEF Copy
  <2>2. PICK i \in CopyTarget(Unref(heap, o), from) :
          /\ heap' = [Unref(heap, o) EXCEPT ![i] = heap[object[from].msg]]
          /\ object' = [object EXCEPT ![o] = Copied(o, from, i)]
    BY <1>1 DEF Copy
  <2> DEFINE message == heap[object[from].msg]
             r == Copied(o, from, i)
  <2>3. i \in FreeIds(Unref(heap, o)) /\ i \in Ids
    BY DEF CopyTarget, FreeIds
  <2>4. object[from].msg \in Ids /\ object[from].msg # 0 /\ object[from] \in ObjectSet
    BY <1>1 DEF IInv, Shape, ObjectSet, Valid
  <2>5. message \in MessageSet /\ message.refs = 1
    BY <2>4 DEF IInv, Shape, Owned
  <2>6. r \in ObjectSet /\ r.msg = i /\ r.uniqueId = counter
    <3>1. counter \in Int
      BY DEF IInv, Shape
    <3> QED
      BY <2>3, <2>4, <3>1 DEF Copied, ObjectSet
  <2>7. r.iterInitialized = FALSE /\ r.isExtracted = object[from].isExtracted
          /\ r.extracted = object[from].extracted
    BY <2>4 DEF Copied, ObjectSet
  <2>8. Remembers(object[from], message)
    BY <2>4 DEF IInv, Reading
  <2>9. Remembers(r, message)
    BY <2>7, <2>8 DEF Remembers
  <2>10. Surroundings
    BY <2>1, MessageAssumption DEF Surroundings, IInv, Shape
  <2> QED
    <3> HIDE DEF r, message
    <3> QED
      BY <2>1, <2>2, <2>3, <2>5, <2>6, <2>9, <2>10, OwnKeepsIInv DEF r, message
<1>2. CASE ~Valid(from)
  <2>1. /\ heap' = Unref(heap, o)
        /\ object' = [object EXCEPT ![o] = Blank]
        /\ UNCHANGED <<counter, initialized, inbox>>
    BY <1>2 DEF Copy
  <2>2. Surroundings
    BY <2>1 DEF Surroundings, IInv, Shape
  <2> QED
    BY <2>1, <2>2, DropKeepsIInv
<1> QED
  BY <1>1, <1>2

-----------------------------------------------------------------------------
(* The iterator of an object. *)

\* extract remembers the argument the iterator points at.
LEMMA ExtractedRemembers ==
  ASSUME IInv, NEW o \in Objects
  PROVE  LET r == Extracted(object[o])
         IN  /\ r \in ObjectSet
             /\ r.msg = object[o].msg /\ r.uniqueId = object[o].uniqueId
             /\ r.msg = 0 => r = Blank
             /\ r.msg # 0 => Remembers(r, heap[r.msg])
<1> DEFINE q == object[o]
           r == Extracted(q)
<1>1. q \in ObjectSet
  BY DEF IInv, Shape
<1>2. CASE q.msg = 0 \/ q.isExtracted
  <2>1. r = q
    BY <1>2 DEF Extracted
  <2> QED
    BY <2>1, <1>1 DEF IInv, BlankWithout, Reading
<1>3. CASE q.msg # 0 /\ ~q.isExtracted
  <2> DEFINE m == heap[q.msg]
             at == IF q.iterInitialized THEN q.cursor ELSE 1
             value == IF at \in DOMAIN m.content THEN Decode(m.content[at]) ELSE None
  <2>1. r = [q EXCEPT !.iterInitialized = TRUE, !.cursor = at, !.isExtracted = TRUE,
                      !.extracted = value]
    BY <1>3 DEF Extracted
  <2>2. q.msg \in Ids /\ m \in MessageSet
    BY <1>1, <1>3 DEF IInv, Shape, ObjectSet
  <2>3. m.said \in SaidLists /\ m.content = Content(m.said)
    BY <2>2, MessageFields
  <2>4. DOMAIN m.content = DOMAIN m.said /\ DOMAIN m.said = 1 .. Len(m.said)
          /\ Len(m.said) \in Nat /\ (m.said = <<>> <=> DOMAIN m.said = {})
    BY <2>3, SaidIsSequence
  <2>5. value \in Values
    BY <2>3, <2>4 DEF Values
  <2>6. at \in Nat
    BY <1>1 DEF ObjectSet
  <2>7. r \in ObjectSet /\ r.msg = q.msg /\ r.uniqueId = q.uniqueId
          /\ r.iterInitialized = TRUE /\ r.cursor = at /\ r.extracted = value
    <3> HIDE DEF value, at, r, q
    <3> QED
      BY <1>1, <2>1, <2>5, <2>6 DEF ObjectSet
  <2>8. Remembers(q, m)
    BY <1>3 DEF IInv, Reading
  <2>9. at = 1 \/ at \in DOMAIN m.said
    BY <2>8 DEF Remembers
  <2>10. m.said # <<>> => at \in DOMAIN m.said
    BY <2>4, <2>9
  <2>11. Remembers(r, m)
    <3>1. m.said = <<>> => value = None
      BY <2>4
    <3>2. m.said # <<>> => value = Decode(m.content[at])
      BY <2>4, <2>10
    <3> HIDE DEF value, at, r, m
    <3> QED
      BY <2>7, <2>9, <2>10, <3>1, <3>2 DEF Remembers
  <2> QED
    BY <1>3, <2>7, <2>11
<1> QED
  BY <1>2, <1>3

\* extract_next moves on within the arguments, and forgets.
LEMMA AdvancedRemembers ==
  ASSUME IInv, NEW o \in Objects
  PROVE  LET r == Advanced(object[o])
         IN  /\ r \in ObjectSet
             /\ r.msg = object[o].msg /\ r.uniqueId = object[o].uniqueId
             /\ r.msg = 0 => r = Blank
             /\ r.msg # 0 => Remembers(r, heap[r.msg])
<1> DEFINE q == object[o]
           r == Advanced(q)
           m == heap[q.msg]
<1>1. q \in ObjectSet
  BY DEF IInv, Shape
<1>2. CASE ~HasNext(q)
  <2>1. r = q
    BY <1>2 DEF Advanced
  <2> QED
    BY <2>1, <1>1 DEF IInv, BlankWithout, Reading
<1>3. CASE HasNext(q)
  <2>1. q.msg # 0
    BY <1>3 DEF HasNext, IInv, BlankWithout, Blank
  <2>2. r = [q EXCEPT !.cursor = q.cursor + 1, !.isExtracted = FALSE]
    BY <1>3 DEF Advanced
  <2>3. q.msg \in Ids /\ m \in MessageSet
    BY <1>1, <2>1 DEF IInv, Shape, ObjectSet
  <2>4. m.said \in SaidLists /\ m.content = Content(m.said)
    BY <2>3, MessageFields
  <2>5. DOMAIN m.said = 1 .. Len(m.said) /\ Len(m.said) \in Nat /\ Len(m.content) = Len(m.said)
    BY <2>4, SaidIsSequence
  <2>6. q.iterInitialized /\ q.cursor < Len(m.said) /\ q.cursor \in Nat
    BY <1>1, <1>3, <2>5 DEF HasNext, ObjectSet
  <2>7. q.cursor + 1 \in DOMAIN m.said
    BY <2>5, <2>6
  <2>8. r \in ObjectSet /\ r.msg = q.msg /\ r.uniqueId = q.uniqueId
          /\ r.cursor = q.cursor + 1 /\ r.isExtracted = FALSE
    <3>1. q.cursor + 1 \in Nat
      BY <2>6
    <3> HIDE DEF r, q
    <3> QED
      BY <1>1, <2>2, <3>1 DEF ObjectSet
  <2>9. Remembers(r, m)
    <3> HIDE DEF r, m
    <3> QED
      BY <2>7, <2>8 DEF Remembers
  <2> QED
    BY <2>1, <2>8, <2>9
<1> QED
  BY <1>2, <1>3

-----------------------------------------------------------------------------
(* The invariant. *)

LEMMA InitEstablishes == Init => IInv
<1> SUFFICES ASSUME Init
             PROVE  IInv
  OBVIOUS
<1>1. Freed \in MessageSet /\ Freed.refs = 0
  BY DEF MessageSet, Freed
<1>2. Shape
  <2>1. object \in [Objects -> ObjectSet] /\ heap \in [Ids -> MessageSet]
    BY <1>1, BlankFields DEF Init
  <2>2. counter = 0 /\ initialized = FALSE /\ inbox = <<>>
    BY DEF Init
  <2>3. counter \in 0 .. MaxCreated
    BY <2>2, MessageAssumption
  <2>4. inbox \in Seq(AgentCalls)
    BY <2>2
  <2> QED
    BY <2>1, <2>2, <2>3, <2>4 DEF Shape
<1>3. \A o \in Objects : object[o] = Blank
  BY DEF Init
<1>4. \A i \in Ids : heap[i].refs = 0
  BY <1>1 DEF Init
<1> QED
  BY <1>2, <1>3, <1>4, BlankFields DEF IInv, BlankWithout, Owned, Numbered, Reading

LEMMA NextKeepsIInv == IInv /\ [Next]_vars => IInv'
<1> SUFFICES ASSUME IInv, [Next]_vars
             PROVE  IInv'
  OBVIOUS
<1>1. CASE UNCHANGED vars
  BY <1>1 DEF vars, IInv, Shape, BlankWithout, Owned, Numbered, Reading, Remembers
<1> DEFINE Kept == UNCHANGED <<object, heap>> /\ Surroundings
<1>2. Kept => IInv'
  <2> SUFFICES ASSUME Kept
               PROVE  IInv'
    OBVIOUS
  <2>1. Shape'
    BY DEF IInv, Shape, Surroundings
  <2>2. BlankWithout' /\ Owned' /\ Reading'
    BY DEF IInv, BlankWithout, Owned, Reading, Remembers
  <2>3. \A o \in Objects : object[o].uniqueId \in Int
    BY DEF IInv, Shape, ObjectSet
  <2>4. Numbered'
    BY <2>3 DEF IInv, Numbered, Shape, Surroundings
  <2> QED
    BY <2>1, <2>2, <2>4 DEF IInv
<1>3. counter \in 0 .. MaxCreated /\ initialized \in BOOLEAN /\ inbox \in Seq(AgentCalls)
  BY DEF IInv, Shape
<1>4. CASE ConnectionInit
  BY <1>2, <1>3, <1>4 DEF ConnectionInit, Surroundings
<1>5. CASE ConnectionUninit
  <2>1. /\ counter' = counter + Len(inbox) /\ counter + Len(inbox) <= MaxCreated
        /\ inbox' = <<>> /\ initialized' = FALSE
        /\ UNCHANGED <<object, heap>>
    BY <1>5 DEF ConnectionUninit
  <2>2. Len(inbox) \in Nat
    BY <1>3
  <2>3. counter' \in 0 .. MaxCreated /\ counter <= counter'
    BY <1>3, <2>1, <2>2, MessageAssumption
  <2>4. inbox' \in Seq(AgentCalls)
    BY <2>1
  <2> QED
    BY <1>2, <2>1, <2>3, <2>4 DEF Surroundings
<1>6. ASSUME NEW call \in AgentCalls, DaemonCalls(call)
      PROVE  IInv'
  BY <1>2, <1>3, <1>6 DEF DaemonCalls, Surroundings
<1>7. ASSUME NEW o \in Objects, NEW said \in Calls, CreateCall(o, said)
      PROVE  IInv'
  <2>1. "" \in Members /\ said \in SaidLists
    BY DEF Members, SaidLists
  <2>2. [i \in DOMAIN said |-> said[i][1]] \in ArgumentLists
    BY DEF ArgumentLists
  <2> QED
    BY <1>3, <1>7, <2>1, <2>2, AdoptKeepsIInv DEF CreateCall
<1>8. ASSUME NEW o \in Objects, NEW said \in Calls, SendWithReply(o, said)
      PROVE  IInv'
  <2>1. "" \in Members /\ said \in SaidLists /\ <<>> \in ArgumentLists
    BY DEF Members, SaidLists, ArgumentLists
  <2> QED
    BY <1>3, <1>8, <2>1, AdoptKeepsIInv DEF SendWithReply
<1>9. ASSUME NEW o \in Objects, NEW from \in Objects, Move(o, from)
      PROVE  IInv'
  BY <1>9, MoveKeepsIInv
<1>10. ASSUME NEW o \in Objects, NEW from \in Objects, Copy(o, from)
       PROVE  IInv'
  BY <1>10, CopyKeepsIInv
<1>11. ASSUME NEW o \in Objects, Destroy(o)
       PROVE  IInv'
  <2>1. /\ heap' = Unref(heap, o)
        /\ object' = [object EXCEPT ![o] = Blank]
        /\ UNCHANGED <<counter, initialized, inbox>>
    BY <1>11 DEF Destroy
  <2>2. Surroundings
    BY <1>3, <2>1 DEF Surroundings
  <2> QED
    BY <2>1, <2>2, DropKeepsIInv
<1>12. ASSUME NEW o \in Objects, Extract(o)
       PROVE  IInv'
  <2>1. /\ object' = [object EXCEPT ![o] = Extracted(object[o])]
        /\ UNCHANGED <<heap, counter, initialized, inbox>>
    BY <1>12 DEF Extract
  <2>2. Surroundings
    BY <1>3, <2>1 DEF Surroundings
  <2> QED
    BY <2>1, <2>2, ExtractedRemembers, RecallKeepsIInv
<1>13. ASSUME NEW o \in Objects, ExtractNext(o)
       PROVE  IInv'
  <2>1. /\ object' = [object EXCEPT ![o] = Advanced(object[o])]
        /\ UNCHANGED <<heap, counter, initialized, inbox>>
    BY <1>13 DEF ExtractNext
  <2>2. Surroundings
    BY <1>3, <2>1 DEF Surroundings
  <2> QED
    BY <2>1, <2>2, AdvancedRemembers, RecallKeepsIInv
<1>14. ASSUME NEW o \in Objects, PopMessage(o)
       PROVE  IInv'
  <2>1. CASE inbox = <<>>
    BY <1>3, <1>14, <2>1, DropKeepsIInv DEF PopMessage, Surroundings
  <2>2. CASE inbox # <<>>
    <3>1. Head(inbox) \in AgentCalls /\ Tail(inbox) \in Seq(AgentCalls)
      BY <1>3, <2>2
    <3>2. /\ Head(inbox).member \in Members
          /\ Head(inbox).said \in SaidLists
          /\ <<>> \in ArgumentLists
      BY <3>1 DEF Members, SaidLists, ArgumentLists
    <3>3. /\ Adopt(o, NewMessage(Head(inbox).member, Head(inbox).said), <<>>)
          /\ inbox' = Tail(inbox)
          /\ initialized' = initialized
      BY <1>14, <2>2 DEF PopMessage
    <3> QED
      BY <1>3, <3>1, <3>2, <3>3, AdoptKeepsIInv
  <2> QED
    BY <2>1, <2>2
<1>15. ASSUME NEW o \in Objects, NEW answer \in Answers, HandleCall(o, answer)
       PROVE  IInv'
  <2>1. /\ counter' \in {counter + 1, counter + 2}
        /\ counter' <= MaxCreated
        /\ UNCHANGED <<heap, initialized, inbox>>
    BY <1>15 DEF HandleCall
  <2>2. Surroundings
    <3>1. counter \in Nat /\ MaxCreated \in Nat
      BY <1>3, MessageAssumption
    <3>2. counter' \in 0 .. MaxCreated /\ counter <= counter'
      BY <2>1, <3>1
    <3> QED
      BY <1>3, <2>1, <3>2 DEF Surroundings
  <2>3. \/ object' = [object EXCEPT ![o] = object[o]]
        \/ object' = [object EXCEPT ![o] = Extracted(object[o])]
    BY <1>15 DEF HandleCall
  <2>4. CASE object' = [object EXCEPT ![o] = object[o]]
    <3>1. object' = object
      BY <2>4 DEF IInv, Shape
    <3> QED
      BY <1>2, <2>1, <2>2, <3>1
  <2>5. CASE object' = [object EXCEPT ![o] = Extracted(object[o])]
    BY <2>1, <2>2, <2>5, ExtractedRemembers, RecallKeepsIInv
  <2> QED
    BY <2>3, <2>4, <2>5
<1> QED
  BY <1>1, <1>4, <1>5, <1>6, <1>7, <1>8, <1>9, <1>10, <1>11, <1>12, <1>13, <1>14, <1>15 DEF Next

\* The invariant the theorems below rest on.
THEOREM MessageInvariant == Spec => []IInv
BY InitEstablishes, NextKeepsIInv, PTL DEF Spec

-----------------------------------------------------------------------------
\* Objects of Message stay well formed: one without a message, moved from or
\* destroyed, remembers nothing, and unique ids stay within what was counted.
THEOREM MessageTypes == Spec => []TypeOK
<1>1. IInv => TypeOK
  BY DEF IInv, Shape, ObjectSet, BlankWithout, TypeOK, Valid
<1> QED
  BY <1>1, MessageInvariant, PTL

\* However objects are created, copied, moved, assigned, received and destroyed, the
\* references of a message of libdbus are the objects that will unref it, and no two
\* objects have a unique id in common.
THEOREM MessagesHaveOneOwner == Spec => []OneOwner
<1>1. ASSUME IInv
      PROVE  OneOwner
  <2>1. ASSUME NEW i \in Ids
        PROVE  heap[i].refs = Cardinality({o \in Objects : object[o].msg = i})
    <3> DEFINE S == {o \in Objects : object[o].msg = i}
    <3>1. i # 0
      BY MessageAssumption
    <3>2. heap[i].refs \in {0, 1}
      BY <1>1, MessageFields DEF IInv, Shape
    <3>3. CASE heap[i].refs = 1
      <4>1. PICK o \in Objects : object[o].msg = i
        BY <1>1, <3>3 DEF IInv, Owned
      <4>2. S = {o}
        BY <1>1, <3>1, <4>1 DEF IInv, Owned
      <4> HIDE DEF S
      <4>3. Cardinality(S) = 1
        <5>1. Cardinality({o}) = 1
          BY FS_Singleton, Zenon
        <5> QED
          BY <4>2, <5>1, Zenon
      <4> QED
        BY <3>3, <4>3 DEF S
    <3>4. CASE heap[i].refs = 0
      <4>1. S = {}
        BY <1>1, <3>1, <3>4 DEF IInv, Owned
      <4> HIDE DEF S
      <4>2. Cardinality(S) = 0
        BY <4>1, FS_EmptySet, Zenon
      <4> QED
        BY <3>4, <4>2 DEF S
    <3> QED
      BY <3>2, <3>3, <3>4
  <2>2. \A o, p \in Objects :
          o # p /\ Valid(o) /\ Valid(p) => object[o].uniqueId # object[p].uniqueId
    BY <1>1 DEF IInv, Numbered, Valid
  <2> QED
    BY <2>1, <2>2 DEF OneOwner
<1> QED
  BY <1>1, MessageInvariant, PTL

\* With a wire that conveys one argument at a time, whatever was sent is what extract
\* gives at every position of the iterator, copies of half-read messages included.
THEOREM ExtractsWhatWasAppended == Spec => []ExtractedIsAppended
<1>1. ASSUME IInv
      PROVE  ExtractedIsAppended
  <2> SUFFICES ASSUME NEW o \in Objects, object[o].isExtracted
               PROVE  LET said == heap[object[o].msg].said
                          r == object[o]
                      IN  IF said = <<>> THEN r.extracted = None
                          ELSE \E i \in DOMAIN said :
                                 /\ r.iterInitialized => i = r.cursor
                                 /\ Conveys(r.extracted, said[i][1], said[i][2])
    BY DEF ExtractedIsAppended
  <2> DEFINE r == object[o]
             m == heap[r.msg]
  <2>1. r.msg # 0
    BY <1>1 DEF IInv, BlankWithout, Blank
  <2>2. m \in MessageSet
    BY <1>1, <2>1 DEF IInv, Shape, ObjectSet
  <2>3. m.said \in SaidLists /\ m.content = Content(m.said)
    BY <2>2, MessageFields
  <2>4. Remembers(r, m)
    BY <1>1, <2>1 DEF IInv, Reading
  <2>5. CASE m.said = <<>>
    <3>1. r.extracted = None
      BY <2>4, <2>5, Zenon DEF Remembers
    <3> QED
      BY <2>5, <3>1, Zenon
  <2>6. CASE m.said # <<>>
    <3>1. PICK i \in DOMAIN m.said : /\ r.iterInitialized => i = r.cursor
                                     /\ r.extracted = Decode(m.content[i])
      BY <2>4, <2>6 DEF Remembers
    <3>2. m.content[i] = Encode(m.said[i][1], m.said[i][2])
      BY <2>3 DEF Content
    <3>3. Conveys(r.extracted, m.said[i][1], m.said[i][2])
      BY <2>3, <3>1, <3>2, WireAssumption
    <3> QED
      BY <2>6, <3>1, <3>3
  <2> QED
    BY <2>5, <2>6
<1> QED
  BY <1>1, MessageInvariant, PTL
=============================================================================
