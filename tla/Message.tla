------------------------------ MODULE Message ------------------------------
(***************************************************************************)
(* The objects of SimpleDBus::Message, which own messages of libdbus, the  *)
(* calls SimpleBluez makes with them over SimpleDBus::Connection and the   *)
(* calls of the daemon that Agent1 answers.                                *)
(*                                                                         *)
(* Every object owns at most one message of libdbus, whose arguments are   *)
(* on the wire as the constants below say (Wire gives them).  An object remembers the argument it     *)
(* took off last, so that extract can be repeated until extract_next.      *)
(***************************************************************************)
EXTENDS BluezCalls, FiniteSets

CONSTANTS
  Objects,     \* variables of type Message in the program
  Ids,         \* messages of libdbus that exist at one time
  MaxCreated,  \* bound: messages numbered by creation_counter
  Calls,       \* argument lists the client sends
  AgentCalls,  \* [member, said]: calls of the daemon, with their arguments
  Answers,     \* what the user's callbacks return
  Encode(_, _),      \* what _append_argument puts on the wire for a holder, as a signature
  Decode(_),         \* what _extract_generic makes of a value on the wire
  Conveys(_, _, _)   \* whether a holder is what was meant by one sent, as a signature

ASSUME MessageAssumption == MaxCreated \in Nat /\ 0 \notin Ids

\* The argument lists that anybody sends are sequences.
SaidLists == {<<>>} \cup Calls \cup {call.said : call \in AgentCalls}
ASSUME SaidAssumption ==
  \A said \in SaidLists : said \in Seq({said[i] : i \in DOMAIN said})

\* One argument at a time, the wire conveys what is put on it.
ASSUME WireAssumption ==
  \A said \in SaidLists : \A i \in DOMAIN said :
    Conveys(Decode(Encode(said[i][1], said[i][2])), said[i][1], said[i][2])

VARIABLES
  object,       \* the objects
  heap,         \* the messages of libdbus
  counter,      \* creation_counter
  initialized,  \* Connection::_initialized
  inbox,        \* what the daemon sent and nobody has read
  told          \* what the agent's callback was given, should have been given, and replied
vars == <<object, heap, counter, initialized, inbox, told>>

\* Message(): owns nothing.
Blank == [msg |-> 0, uniqueId |-> -1, iterInitialized |-> FALSE, cursor |-> 1,
          isExtracted |-> FALSE, extracted |-> None, arguments |-> <<>>]
\* A message nobody refers to.  said is what its sender meant.
Freed == [refs |-> 0, member |-> "", content |-> <<>>, said |-> <<>>]

Valid(o) == object[o].msg # 0

Init ==
  /\ object = [o \in Objects |-> Blank]
  /\ heap = [i \in Ids |-> Freed]
  /\ counter = 0
  /\ initialized = FALSE
  /\ inbox = <<>>
  /\ told = [given |-> <<>>, said |-> <<>>, reply |-> <<>>]

-----------------------------------------------------------------------------
\* What append_argument puts into a message.
Content(said) == [i \in DOMAIN said |-> Encode(said[i][1], said[i][2])]
NewMessage(member, said) ==
  [refs |-> 1, member |-> member, content |-> Content(said), said |-> said]

\* dbus_message_unref of what o owns.
Unref(h, o) ==
  LET i == object[o].msg
  IN  IF i = 0 THEN h
      ELSE [h EXCEPT ![i] = IF @.refs > 1 THEN [@ EXCEPT !.refs = @ - 1] ELSE Freed]

FreeIds(h) == {i \in Ids : h[i].refs = 0}

\* o, rid of what it owned, becomes the owner of a message that is new.
Adopt(o, message, arguments) ==
  /\ counter < MaxCreated
  /\ \E i \in FreeIds(Unref(heap, o)) :
       /\ \A j \in FreeIds(Unref(heap, o)) : i <= j
       /\ heap' = [Unref(heap, o) EXCEPT ![i] = message]
       /\ object' = [object EXCEPT ![o] = [Blank EXCEPT !.msg = i, !.uniqueId = counter,
                                                        !.arguments = arguments]]
  /\ counter' = counter + 1

\* create_method_call and every append_argument, assigned to o.
CreateCall(o, said) ==
  /\ Adopt(o, NewMessage("", said), [i \in DOMAIN said |-> said[i][1]])
  /\ UNCHANGED <<initialized, inbox, told>>

\* The move constructor and assignment: the source is left with nothing.
Move(o, from) ==
  /\ o # from
  /\ heap' = Unref(heap, o)
  /\ object' = [object EXCEPT ![o] = object[from], ![from] = Blank]
  /\ UNCHANGED <<counter, initialized, inbox, told>>

\* What a copy takes over: not the iterator, which starts again.
Copied(o, from, i) ==
  [object[from] EXCEPT !.msg = i, !.uniqueId = counter, !.iterInitialized = FALSE,
                       !.cursor = 1]

\* Mutant of CopyTarget: the pointer is copied and the message is not.
CopyTarget_Shared(h, from) == {object[from].msg}

\* dbus_message_copy: where the new message goes.
CopyTarget(h, from) == {i \in FreeIds(h) : \A j \in FreeIds(h) : i <= j}

\* The copy constructor and assignment.
Copy(o, from) ==
  /\ o # from
  /\ IF Valid(from)
     THEN /\ counter < MaxCreated
          /\ \E i \in CopyTarget(Unref(heap, o), from) :
               /\ heap' = [Unref(heap, o) EXCEPT ![i] = heap[object[from].msg]]
               /\ object' = [object EXCEPT ![o] = Copied(o, from, i)]
          /\ counter' = counter + 1
     ELSE /\ heap' = Unref(heap, o)
          /\ object' = [object EXCEPT ![o] = Blank]
          /\ UNCHANGED counter
  /\ UNCHANGED <<initialized, inbox, told>>

\* ~Message
Destroy(o) ==
  /\ Valid(o)
  /\ heap' = Unref(heap, o)
  /\ object' = [object EXCEPT ![o] = Blank]
  /\ UNCHANGED <<counter, initialized, inbox, told>>

-----------------------------------------------------------------------------
\* Mutant of Extracted: an invalid message counts as extracted.
Extracted_Invalid(r) ==
  IF r.isExtracted THEN r
  ELSE IF r.msg = 0 THEN [r EXCEPT !.isExtracted = TRUE]
  ELSE [r EXCEPT !.iterInitialized = TRUE, !.isExtracted = TRUE,
                 !.extracted = IF r.cursor \in DOMAIN heap[r.msg].content
                               THEN Decode(heap[r.msg].content[r.cursor]) ELSE None]

\* extract on an object r: the same value until extract_next; an iterator that
\* points nowhere gives nothing.
Extracted(r) ==
  IF r.msg = 0 \/ r.isExtracted THEN r
  ELSE LET content == heap[r.msg].content
           at == IF r.iterInitialized THEN r.cursor ELSE 1
       IN  [r EXCEPT !.iterInitialized = TRUE, !.cursor = at, !.isExtracted = TRUE,
                     !.extracted = IF at \in DOMAIN content
                                   THEN Decode(content[at]) ELSE None]

\* extract_next on an object r: only when extraction has begun and more follows.
HasNext(r) == r.iterInitialized /\ r.cursor < Len(heap[r.msg].content)

\* Mutant of Advanced: the value taken off before is still remembered.
Advanced_Stale(r) == IF HasNext(r) THEN [r EXCEPT !.cursor = @ + 1] ELSE r

Advanced(r) ==
  IF HasNext(r) THEN [r EXCEPT !.cursor = @ + 1, !.isExtracted = FALSE] ELSE r

Extract(o) ==
  /\ object' = [object EXCEPT ![o] = Extracted(@)]
  /\ UNCHANGED <<heap, counter, initialized, inbox, told>>

ExtractNext(o) ==
  /\ object' = [object EXCEPT ![o] = Advanced(@)]
  /\ UNCHANGED <<heap, counter, initialized, inbox, told>>

-----------------------------------------------------------------------------
ConnectionInit ==
  /\ ~initialized
  /\ initialized' = TRUE
  /\ UNCHANGED <<object, heap, counter, inbox, told>>

\* uninit: reads until nothing is left, then lets go of the connection.  Each of
\* the messages it throws away was numbered.
ConnectionUninit ==
  /\ initialized
  /\ counter + Len(inbox) <= MaxCreated
  /\ counter' = counter + Len(inbox)
  /\ inbox' = <<>>
  /\ initialized' = FALSE
  /\ UNCHANGED <<object, heap, told>>

\* The daemon calls a method of the agent.
DaemonCalls(call) ==
  /\ initialized
  /\ Len(inbox) < 1
  /\ inbox' = Append(inbox, call)
  /\ UNCHANGED <<object, heap, counter, initialized, told>>

\* pop_message, assigned to o: an invalid message when there is none.
PopMessage(o) ==
  /\ initialized
  /\ IF inbox = <<>>
     THEN /\ heap' = Unref(heap, o)
          /\ object' = [object EXCEPT ![o] = Blank]
          /\ UNCHANGED <<counter, inbox>>
     ELSE /\ Adopt(o, NewMessage(Head(inbox).member, Head(inbox).said), <<>>)
          /\ inbox' = Tail(inbox)
  /\ UNCHANGED <<initialized, told>>

\* send_with_reply_and_block of o, the reply assigned to it: the value the daemon
\* answers with, or an exception that leaves o alone.
SendWithReply(o, said) ==
  /\ initialized
  /\ Valid(o)
  /\ heap[object[o].msg].member = ""
  /\ Adopt(o, NewMessage("", said), <<>>)
  /\ UNCHANGED <<initialized, inbox, told>>

-----------------------------------------------------------------------------
\* The values message_handle reads: extract, once per argument.
Read(r, n) ==
  LET after[i \in 0 .. n] == IF i = 0 THEN r ELSE Extracted(after[i - 1])
  IN  [i \in 1 .. n |-> after[i].extracted]

\* The type in which each member hands its arguments to the user's callback.
\* RequestAuthorization reads the device and hands over nothing.
CallbackTypes ==
  [DisplayPinCode |-> <<"STRING">>, DisplayPasskey |-> <<"UINT32", "UINT16">>,
   RequestConfirmation |-> <<"UINT32">>, AuthorizeService |-> <<"STRING">>]

\* get_string, get_uint32, get_uint16: what a getter makes of any holder.
Got(h, t) == IF t \in Strings THEN h.string ELSE GetInteger(h, t)

\* What the callback is given, from the values read.
Given(member, values) ==
  IF member \in DOMAIN CallbackTypes
  THEN LET types == CallbackTypes[member]
       IN  [i \in DOMAIN types |-> Got(values[i + 1], types[i])]
  ELSE <<>>

\* message_handle of Agent1, with what the user answers; the reply is numbered,
\* sent and destroyed, and so is the error that is made besides it on refusal.
HandleCall(o, answer) ==
  /\ initialized
  /\ Valid(o)
  /\ LET message == heap[object[o].msg]
         member == message.member
         reads == IF member \in DOMAIN CallbackTypes \cup {"RequestAuthorization"}
                  THEN AgentArguments[member] ELSE 0
         refused == AgentReply(member, answer).kind = "ERROR"
     IN  /\ member # ""
         /\ counter' = counter + (IF refused THEN 2 ELSE 1)
         /\ counter' <= MaxCreated
         /\ object' = [object EXCEPT ![o] = IF reads = 0 THEN @ ELSE Extracted(@)]
         /\ told' = [given |-> Given(member, Read(object[o], reads)),
                     said |-> Given(member, [i \in DOMAIN message.said |-> message.said[i][1]]),
                     reply |-> Content(AgentReply(member, answer).args)]
  /\ UNCHANGED <<heap, initialized, inbox>>

-----------------------------------------------------------------------------
Next ==
  \/ ConnectionInit
  \/ ConnectionUninit
  \/ \E call \in AgentCalls : DaemonCalls(call)
  \/ \E o \in Objects :
       \/ \E said \in Calls : CreateCall(o, said)
       \/ \E said \in Calls : SendWithReply(o, said)
       \/ \E from \in Objects : Move(o, from)
       \/ \E from \in Objects : Copy(o, from)
       \/ Destroy(o)
       \/ Extract(o)
       \/ ExtractNext(o)
       \/ PopMessage(o)
       \/ \E answer \in Answers : HandleCall(o, answer)

Spec == Init /\ [][Next]_vars

-----------------------------------------------------------------------------
\* The state is well formed: an object without a message remembers nothing of one.
TypeOK ==
  /\ \A o \in Objects : object[o].msg \in {0} \cup Ids
  /\ \A o \in Objects : ~Valid(o) => object[o] = Blank
  /\ counter \in 0 .. MaxCreated
  /\ initialized \in BOOLEAN

\* Every message of libdbus is referred to by exactly the objects that will unref
\* it: none is leaked and none is freed under an object that still holds it, in
\* whatever order objects are copied, moved, assigned and destroyed.  The unique
\* id tells an object from every other, from the source of a copy too.
OneOwner ==
  /\ \A i \in Ids : heap[i].refs = Cardinality({o \in Objects : object[o].msg = i})
  /\ \A o, p \in Objects :
       o # p /\ Valid(o) /\ Valid(p) => object[o].uniqueId # object[p].uniqueId

\* What an object gives as its current argument is what the sender meant by the
\* argument the iterator points at, and compares equal to it; of some argument,
\* when the object is a copy whose iterator has not started.
ExtractedIsAppended ==
  \A o \in Objects : object[o].isExtracted =>
    LET said == heap[object[o].msg].said
        r == object[o]
    IN  IF said = <<>> THEN r.extracted = None
        ELSE \E i \in DOMAIN said :
               /\ r.iterInitialized => i = r.cursor
               /\ Conveys(r.extracted, said[i][1], said[i][2])

\* The callbacks of the agent are given the arguments the daemon sent:
\* Agent1.h says of DisplayPasskey that "The entered parameter indicates the
\* number of already typed keys on the remote side."
AgentIsToldArguments == told.given = told.said
=============================================================================
