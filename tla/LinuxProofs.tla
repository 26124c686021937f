---------------------------- MODULE LinuxProofs ----------------------------
(***************************************************************************)
(* Proofs about the Linux backend: a disconnection is not reported while   *)
(* connect still tries, the copy of the properties catches up with BlueZ,  *)
(* and the loss of a link the program was told of is not missed.           *)
(***************************************************************************)
EXTENDS LinuxAdapter, SequenceTheorems, TLAPS

(***************************************************************************)
(* Calls.                                                                  *)
(***************************************************************************)

Ops == PeripheralOps \cup AdapterOps \cup {"none"}
Places == Ops \cup
  {"idle", "clear", "cleanup", "call", "load", "check", "lost", "look", "checkResolved",
   "lookResolved", "operation", "start", "scanFor", "clearSeen", "listen", "discover",
   "scanning", "stop", "fetched", "data", "parse", "parsed"}
Users == [op : Ops, at : Places, tries : Nat, final : BOOLEAN, wakes : Nat]

LEMMA PlaceNames ==
  /\ {"idle", "clear", "cleanup", "call", "load", "check", "lost", "look", "checkResolved",
      "lookResolved", "operation", "start", "scanFor", "clearSeen", "listen", "discover",
      "scanning", "stop", "fetched", "data", "parse", "parsed"} \subseteq Places
  /\ Ops \subseteq Places
  /\ Ops \cap {"clear", "load", "call", "cleanup"} = {}
BY DEF Places, Ops, PeripheralOps, AdapterOps

LEMMA IdleUser ==
  Idle \in Users /\ Idle.op = "none" /\ Idle.at = "idle" /\ Idle.tries = 0 /\ Idle.wakes = 0
                 /\ Idle.final = FALSE
BY DEF Users, Idle, Ops, Places

\* How a call goes on.
LEMMA GotoAt ==
  ASSUME user \in Users, NEW at \in Places, Goto(at)
  PROVE  /\ user' \in Users /\ user'.at = at
         /\ user'.op = user.op /\ user'.final = user.final /\ user'.tries = user.tries
         /\ user'.wakes = user.wakes
BY DEF Users, Goto

LEMMA AnswerAt ==
  ASSUME NEW reply, Answer(reply)
  PROVE  user' = Idle
BY DEF Answer

LEMMA CallAt ==
  ASSUME NEW op \in Ops, NEW at \in Places, user' = [Idle EXCEPT !.op = op, !.at = at]
  PROVE  /\ user' \in Users /\ user'.op = op /\ user'.at = at
         /\ user'.tries = 0 /\ user'.wakes = 0 /\ ~user'.final
BY IdleUser DEF Users

\* Calls that return at once change nothing but what they return.
LEMMA AtOnceFrame ==
  ASSUME \/ \E op \in Getters, h \in {Null, Handle} : Get(op, h)
         \/ \E h \in {Null, Handle} : AskAdapter(h)
  PROVE  UNCHANGED <<bluezVars, copyVars, user, async, callbackVars>>
BY DEF Get, AskAdapter

LEMMA EntryPlaces ==
  /\ \A op \in PeripheralOps :
       op \in Ops /\ Entry(op) \in Places /\ Entry(op) # "load" /\ Entry(op) # "call"
  /\ \A op \in AdapterOps :
       /\ op \in Ops /\ op # "connect"
       /\ AdapterEntry(op) \in Places
       /\ AdapterEntry(op) \notin {"clear", "load", "call", "cleanup"}
BY PlaceNames DEF Ops, PeripheralOps, AdapterOps, Entry, AdapterEntry

(***************************************************************************)
(* The callback of a disconnection.                                        *)
(***************************************************************************)

\* connect makes its attempts, has set its callback.
Trying == user.op = "connect" /\ user.at # "clear" /\ ~user.final
Set    == user.op = "connect" /\ user.final /\ user.at # "load"

\* The callback is off while connect tries, on once it is done trying, and on for as
\* long as a report is owed.
CallbackInv ==
  /\ user \in Users
  /\ reporter \in {"none", "async"} /\ (reporter = "async" <=> async = "report")
  /\ onDisconnected \in BOOLEAN /\ owed \in BOOLEAN
  /\ user.at = "clear" => ~user.final
  /\ Trying => ~onDisconnected /\ user.at # "load" /\ reporter = "none"
  /\ Set => onDisconnected
  /\ owed => onDisconnected

LEMMA CallbackInit == Init => CallbackInv
BY IdleUser DEF Init, PeripheralInit, CallbackInv, Trying, Set

\* The part of the state CallbackInv is about, but for the call.
LEMMA CallbackFrame ==
  ASSUME CallbackInv, UNCHANGED <<user, async, onDisconnected, reporter>>,
         owed' \in BOOLEAN, owed' => owed
  PROVE  CallbackInv'
BY DEF CallbackInv, Trying, Set

\* A call goes on to where connect neither begins nor sets its callback.
LEMMA GotoKeepsCallback ==
  ASSUME CallbackInv, NEW at \in Places, at \notin {"clear", "load"}, Goto(at),
         user.at \notin {"clear", "load"},
         UNCHANGED <<async, onDisconnected, reporter>>, owed' \in BOOLEAN, owed' => owed
  PROVE  CallbackInv'
<1>1. user \in Users
  BY DEF CallbackInv
<1>. QED
  BY <1>1, GotoAt DEF CallbackInv, Trying, Set

LEMMA AnswerKeepsCallback ==
  ASSUME CallbackInv, user' = Idle, UNCHANGED <<async, reporter>>,
         onDisconnected' \in BOOLEAN, owed' \in BOOLEAN, owed' => onDisconnected'
  PROVE  CallbackInv'
BY IdleUser DEF CallbackInv, Trying, Set

LEMMA CallsKeepCallback ==
  ASSUME CallbackInv, ProgramCalls
  PROVE  CallbackInv'
<1>1. CASE \E h \in {Null, Handle}, op \in PeripheralOps : Call(op, h)
  <2>1. PICK h \in {Null, Handle}, op \in PeripheralOps : Call(op, h)
    BY <1>1
  <2>2. CASE h = Null
    BY <2>1, <2>2, CallbackFrame DEF Call, callbackVars, CallbackInv
  <2>3. CASE h # Null
    <3>1. user' = [Idle EXCEPT !.op = op, !.at = Entry(op)]
      BY <2>1, <2>3 DEF Call
    <3>2. user' \in Users /\ user'.op = op /\ user'.at = Entry(op) /\ ~user'.final
      BY <3>1, CallAt, EntryPlaces
    <3>3. user'.op = "connect" => user'.at = "clear"
      BY <3>2 DEF Entry
    <3>. QED
      BY <2>1, <3>2, <3>3 DEF Call, callbackVars, CallbackInv, Trying, Set
  <2>. QED
    BY <2>2, <2>3
<1>2. CASE \E h \in {Null, Handle}, op \in AdapterOps : CallAdapter(op, h)
  <2>1. PICK h \in {Null, Handle}, op \in AdapterOps : CallAdapter(op, h)
    BY <1>2
  <2>2. CASE h = Null
    BY <2>1, <2>2, CallbackFrame DEF CallAdapter, callbackVars, CallbackInv
  <2>3. CASE h # Null
    <3>1. user' = [Idle EXCEPT !.op = op, !.at = AdapterEntry(op)]
      BY <2>1, <2>3 DEF CallAdapter
    <3>2. user' \in Users /\ user'.op # "connect" /\ user'.at # "clear"
      BY <3>1, CallAt, EntryPlaces
    <3>. QED
      BY <2>1, <3>2 DEF CallAdapter, callbackVars, CallbackInv, Trying, Set
  <2>. QED
    BY <2>2, <2>3
<1>3. CASE \/ \E op \in Getters, h \in {Null, Handle} : Get(op, h)
           \/ \E h \in {Null, Handle} : AskAdapter(h)
  BY <1>3, AtOnceFrame, CallbackFrame DEF callbackVars, CallbackInv
<1>. QED
  BY <1>1, <1>2, <1>3 DEF ProgramCalls

LEMMA FinalAt ==
  ASSUME user \in Users, NEW at \in Places, Final(at)
  PROVE  /\ user' \in Users /\ user'.op = user.op /\ user'.tries = user.tries
         /\ user'.at = at /\ user'.final /\ user'.wakes = 0
BY DEF Final, Users

LEMMA RetryAt ==
  ASSUME user \in Users, NEW at \in Places, Retry(at)
  PROVE  /\ user' \in Users /\ user'.op = user.op /\ user'.tries = user.tries
         /\ user'.at = at /\ ~user'.final /\ user'.wakes = 0
BY DEF Retry, Users

LEMMA WokenUser ==
  ASSUME user \in Users, NEW at \in Places, NEW wakes \in Nat,
         user' = [user EXCEPT !.at = at, !.wakes = wakes]
  PROVE  /\ user' \in Users /\ user'.op = user.op /\ user'.tries = user.tries
         /\ user'.at = at /\ user'.final = user.final /\ user'.wakes = wakes
BY DEF Users

LEMMA WaitOnAt ==
  ASSUME user \in Users, WaitOn
  PROVE  /\ user' \in Users /\ user'.op = user.op /\ user'.tries = user.tries
         /\ user'.at = "check" /\ user'.final = user.final /\ user'.wakes = user.wakes + 1
<1>1. "check" \in Places /\ user.wakes + 1 \in Nat
  BY PlaceNames DEF Users
<1>2. user' = [user EXCEPT !.at = "check", !.wakes = user.wakes + 1]
  BY DEF WaitOn
<1>. QED
  BY <1>1, <1>2, WokenUser

\* The wait of connect or disconnect is over, goes on, or times out, after which
\* there is another attempt or the last look.
LEMMA WaitAt ==
  ASSUME user \in Users, NEW retry \in Places, NEW done \in Places,
         NEW connected, NEW goal, WaitEnds(connected, goal, retry, done)
  PROVE  /\ user' \in Users /\ user'.op = user.op /\ user'.tries = user.tries
         /\ \/ user'.at = done /\ user'.final
            \/ user'.at = "check" /\ user'.final = user.final
            \/ user'.at = retry /\ ~user'.final /\ user.tries < MaxAttempts
         /\ user.wakes <= MaxWakes => user'.wakes <= MaxWakes
<1>1. MaxWakes \in Nat /\ user.wakes \in Nat
  BY PeripheralAssumption DEF Users
<1>2. CASE Final(done)
  BY <1>1, <1>2, FinalAt
<1>3. CASE user.wakes < MaxWakes /\ WaitOn
  BY <1>1, <1>3, WaitOnAt
<1>4. CASE user.tries < MaxAttempts /\ Retry(retry)
  BY <1>1, <1>4, RetryAt
<1>. QED
  BY <1>2, <1>3, <1>4 DEF WaitEnds, TimedOut

LEMMA ConcludeKeepsCallback ==
  ASSUME CallbackInv, NEW connected \in BOOLEAN, Conclude(connected),
         user.at \in {"look", "lookResolved"},
         UNCHANGED <<async, onDisconnected, reporter>>
  PROVE  CallbackInv'
<1>1. user \in Users
  BY DEF CallbackInv
<1>2. CASE user.op = "connect" /\ ~user.final /\ UNCHANGED owed
           /\ WaitEnds(connected, TRUE, "call", "load")
  <2>1. "call" \in Places /\ "load" \in Places
    BY PlaceNames
  <2>2. /\ user' \in Users /\ user'.op = "connect"
        /\ \/ user'.at = "load" /\ user'.final
           \/ user'.at \in {"check", "call"} /\ ~user'.final
    BY <1>1, <1>2, <2>1, WaitAt
  <2>. QED
    BY <1>2, <2>2 DEF CallbackInv, Trying, Set
<1>3. CASE user.op = "disconnect" /\ ~user.final /\ UNCHANGED owed
           /\ WaitEnds(connected, FALSE, "cleanup", "check")
  <2>1. "cleanup" \in Places /\ "check" \in Places
    BY PlaceNames
  <2>2. user' \in Users /\ user'.at \in {"check", "cleanup"} /\ user'.op = "disconnect"
    BY <1>1, <1>3, <2>1, WaitAt
  <2>. QED
    BY <1>3, <2>2 DEF CallbackInv, Trying, Set
<1>4. CASE user.op = "connect" /\ user.final /\ owed' = connected
           /\ Did(IF connected THEN Returned(TRUE) ELSE Thrown)
  <2>1. onDisconnected
    BY <1>4 DEF CallbackInv, Set
  <2>. QED
    BY <1>4, <2>1, AnswerAt, AnswerKeepsCallback DEF Did, CallbackInv
<1>5. CASE UNCHANGED owed /\ \E reply : Answer(reply)
  BY <1>5, AnswerAt, AnswerKeepsCallback DEF CallbackInv
<1>6. CASE UNCHANGED owed /\ Goto("operation")
  BY <1>6, GotoKeepsCallback, PlaceNames DEF CallbackInv
<1>. QED
  BY <1>2, <1>3, <1>4, <1>5, <1>6 DEF Conclude, Did

LEMMA CountedUser ==
  ASSUME user \in Users, NEW at \in Places, NEW tries \in Nat,
         user' = [user EXCEPT !.at = at, !.tries = tries]
  PROVE  /\ user' \in Users /\ user'.op = user.op /\ user'.tries = tries
         /\ user'.at = at /\ user'.final = user.final /\ user'.wakes = user.wakes
BY DEF Users

LEMMA LastUser ==
  ASSUME user \in Users, NEW at \in Places, NEW tries \in Nat,
         user' = [user EXCEPT !.at = at, !.tries = tries, !.final = TRUE]
  PROVE  /\ user' \in Users /\ user'.op = user.op /\ user'.tries = tries
         /\ user'.at = at /\ user'.final /\ user'.wakes = user.wakes
BY DEF Users

LEMMA AttemptConnectAt ==
  ASSUME user \in Users, AttemptConnect
  PROVE  /\ user' \in Users /\ user'.op = user.op /\ user'.wakes = user.wakes
         /\ user'.tries = user.tries + 1
         /\ \/ user'.at = "check" /\ user'.final = user.final
            \/ user'.at = "call" /\ user'.final = user.final /\ user'.tries < MaxAttempts
            \/ user'.at = "load" /\ user'.final
<1>1. /\ "check" \in Places /\ "call" \in Places /\ "load" \in Places
      /\ user.tries + 1 \in Nat
  BY PlaceNames DEF Users
<1>2. CASE user' = [user EXCEPT !.at = "check", !.tries = user.tries + 1]
  BY <1>1, <1>2, CountedUser
<1>3. CASE /\ user.tries + 1 < MaxAttempts
           /\ user' = [user EXCEPT !.at = "call", !.tries = user.tries + 1]
  BY <1>1, <1>3, CountedUser
<1>4. CASE user' = [user EXCEPT !.at = "load", !.tries = user.tries + 1, !.final = TRUE]
  BY <1>1, <1>4, LastUser
<1>. QED
  BY <1>2, <1>3, <1>4 DEF AttemptConnect

LEMMA AttemptDisconnectAt ==
  ASSUME user \in Users, AttemptDisconnect
  PROVE  \/ /\ user' \in Users /\ user'.op = user.op /\ user'.wakes = user.wakes
            /\ user'.tries = user.tries + 1
            /\ user'.at = "check" /\ user'.final = user.final
         \/ user' = Idle
<1>1. "check" \in Places /\ user.tries + 1 \in Nat
  BY PlaceNames DEF Users
<1>2. CASE user' = [user EXCEPT !.at = "check", !.tries = user.tries + 1]
  BY <1>1, <1>2, CountedUser
<1>3. CASE Did(Thrown)
  BY <1>3, AnswerAt DEF Did
<1>. QED
  BY <1>2, <1>3 DEF AttemptDisconnect

\* The calls of a peripheral.
LEMMA PeripheralKeepsCallback ==
  ASSUME CallbackInv, UserStep, cache.ServicesResolved \in BOOLEAN
  PROVE  CallbackInv'
<1>1. user \in Users /\ onDisconnected \in BOOLEAN /\ owed \in BOOLEAN
  BY DEF CallbackInv
<1>2. CASE Check \/ CheckChanged \/ Lost \/ CheckResolved \/ FetchData \/ ParseData
  <2>1. \E at \in {"fetched", "lost", "look", "lookResolved", "parse", "parsed"} : Goto(at)
    BY <1>2 DEF Check, CheckChanged, Lost, CheckResolved, FetchData, ParseData
  <2>2. user.at \notin {"clear", "load"}
    BY <1>2 DEF Check, CheckChanged, Lost, CheckResolved, FetchData, ParseData
  <2>3. UNCHANGED <<async, onDisconnected, reporter>>
    BY <1>2 DEF Check, CheckChanged, Lost, CheckResolved, FetchData, ParseData, callbackVars
  <2>4. CASE UNCHANGED owed
    BY <1>1, <2>1, <2>2, <2>3, <2>4, GotoKeepsCallback, PlaceNames
  <2>5. CASE ~owed' /\ owed' \in BOOLEAN
    BY <1>1, <2>1, <2>2, <2>3, <2>5, GotoKeepsCallback, PlaceNames
  <2>. QED
    BY <1>2, <2>4, <2>5 DEF Check, CheckChanged, Lost, CheckResolved, FetchData, ParseData,
       callbackVars
<1>3. CASE Look
  <2>1. UNCHANGED <<async, onDisconnected, reporter>>
    BY <1>3 DEF Look
  <2>2. CASE user.at = "look" /\ Goto("checkResolved") /\ UNCHANGED owed
    BY <1>1, <2>1, <2>2, GotoKeepsCallback, PlaceNames
  <2>3. CASE user.at = "look" /\ Conclude(FALSE)
    BY <2>1, <2>3, ConcludeKeepsCallback
  <2>4. CASE user.at = "lookResolved" /\ Conclude(cache.ServicesResolved)
    BY <2>1, <2>4, ConcludeKeepsCallback
  <2>. QED
    BY <1>3, <2>2, <2>3, <2>4 DEF Look
<1>4. CASE ClearOnDisconnected
  <2>1. user'.at = "call" /\ user' \in Users /\ ~user'.final
    BY <1>1, <1>4, GotoAt, PlaceNames DEF ClearOnDisconnected, CallbackInv
  <2>2. reporter = "none"
    BY <1>4 DEF ClearOnDisconnected, MutexFree, CallbackInv
  <2>. QED
    BY <1>4, <2>1, <2>2 DEF ClearOnDisconnected, CallbackInv, Trying, Set
<1>5. CASE AttemptConnect
  <2>1. /\ user' \in Users /\ user'.op = user.op
        /\ \/ user'.at \in {"check", "call"} /\ user'.final = user.final
           \/ user'.at = "load" /\ user'.final
    BY <1>1, <1>5, AttemptConnectAt
  <2>2. user.at = "call" /\ UNCHANGED <<async, callbackVars>>
    BY <1>5 DEF AttemptConnect
  <2>. QED
    BY <2>1, <2>2 DEF callbackVars, CallbackInv, Trying, Set
<1>6. CASE SetOnDisconnected
  <2>1. /\ user' \in Users /\ user'.at = "check"
        /\ user'.op = user.op /\ user'.final = user.final
    BY <1>1, <1>6, GotoAt, PlaceNames DEF SetOnDisconnected
  <2>2. user.op = "connect" => user.final
    BY <1>6 DEF SetOnDisconnected, CallbackInv, Trying
  <2>. QED
    BY <1>6, <2>1, <2>2 DEF SetOnDisconnected, CallbackInv, Trying, Set
<1>7. CASE DisconnectCleanup
  BY <1>1, <1>7, GotoKeepsCallback, PlaceNames DEF DisconnectCleanup
<1>8. CASE AttemptDisconnect
  <2>1. CASE user' = Idle
    BY <1>1, <1>8, <2>1, AnswerKeepsCallback DEF AttemptDisconnect, CallbackInv
  <2>2. CASE /\ user' \in Users /\ user'.op = user.op
             /\ user'.at = "check" /\ user'.final = user.final
    BY <1>8, <2>2 DEF AttemptDisconnect, CallbackInv, Trying, Set
  <2>. QED
    BY <1>1, <1>8, <2>1, <2>2, AttemptDisconnectAt
<1>9. CASE \/ ReadWrite \/ ReadWriteDescriptor \/ Mtu \/ Notify \/ StartNotify \/ Unsubscribe
           \/ GetManufacturerData
  <2>1. /\ user.at \notin {"clear", "load"}
        /\ UNCHANGED <<async, onDisconnected, reporter, owed>>
    BY <1>9 DEF ReadWrite, ReadWriteDescriptor, Transfer, Mtu, Notify, StartNotify,
       Unsubscribe, GetManufacturerData, callbackVars
  <2>2. Goto("start") \/ \E reply : Answer(reply)
    BY <1>9 DEF ReadWrite, ReadWriteDescriptor, Transfer, Mtu, Notify, StartNotify,
       Unsubscribe, GetManufacturerData, Refuse, Did
  <2>3. CASE Goto("start")
    BY <1>1, <2>1, <2>3, GotoKeepsCallback, PlaceNames
  <2>4. CASE \E reply : Answer(reply)
    BY <1>1, <2>1, <2>4, AnswerAt, AnswerKeepsCallback DEF CallbackInv
  <2>. QED
    BY <2>2, <2>3, <2>4
<1>. QED
  BY <1>2, <1>3, <1>4, <1>5, <1>6, <1>7, <1>8, <1>9 DEF UserStep

\* The calls of the adapter.
LEMMA AdapterGoes ==
  ASSUME CallbackInv, user.at \notin {"clear", "load"},
         UNCHANGED <<async, onDisconnected, reporter, owed>>,
         \/ \E at \in {"clearSeen", "listen", "discover", "scanning", "stop"} : Goto(at)
         \/ \E reply : Answer(reply)
  PROVE  CallbackInv'
<1>1. CASE \E at \in {"clearSeen", "listen", "discover", "scanning", "stop"} : Goto(at)
  BY <1>1, GotoKeepsCallback, PlaceNames DEF CallbackInv
<1>2. CASE \E reply : Answer(reply)
  BY <1>2, AnswerAt, AnswerKeepsCallback DEF CallbackInv
<1>. QED
  BY <1>1, <1>2

LEMMA AdapterKeepsCallback ==
  ASSUME CallbackInv,
         \/ ScanFor \/ ClearSeen \/ Listen \/ DiscoveryStart \/ Scanning \/ ScanStop
         \/ ScanIsActive \/ ScanGetResults \/ GetAdapters \/ GetPaired
  PROVE  CallbackInv'
<1>1. CASE ScanFor \/ ClearSeen \/ Listen \/ DiscoveryStart \/ Scanning
  <2>1. /\ user.at \notin {"clear", "load"}
        /\ UNCHANGED <<async, onDisconnected, reporter, owed>>
    BY <1>1 DEF ScanFor, ClearSeen, Listen, DiscoveryStart, Scanning, callbackVars
  <2>2. \/ \E at \in {"clearSeen", "listen", "discover", "scanning", "stop"} : Goto(at)
        \/ \E reply : Answer(reply)
    BY <1>1 DEF ScanFor, ClearSeen, Listen, DiscoveryStart, Scanning, Started, AdapterAnswer
  <2>. QED
    BY <2>1, <2>2, AdapterGoes
<1>2. CASE ScanStop \/ ScanIsActive \/ ScanGetResults \/ GetAdapters
  <2>1. /\ user.at \notin {"clear", "load"}
        /\ UNCHANGED <<async, onDisconnected, reporter, owed>>
    BY <1>2 DEF ScanStop, ScanIsActive, ScanGetResults, GetAdapters, callbackVars
  <2>2. \E reply : Answer(reply)
    BY <1>2 DEF ScanStop, ScanIsActive, ScanGetResults, GetAdapters, AdapterAnswer
  <2>. QED
    BY <2>1, <2>2, AdapterGoes
<1>3. CASE GetPaired
  <2>1. user' = Idle /\ UNCHANGED <<async, reporter>>
    BY <1>3, AnswerAt DEF GetPaired
  <2>2. CASE UNCHANGED <<onDisconnected, owed>>
    BY <2>1, <2>2, AnswerKeepsCallback DEF CallbackInv
  <2>3. CASE onDisconnected' \in BOOLEAN /\ owed' \in BOOLEAN /\ ~owed'
    BY <2>1, <2>3, AnswerKeepsCallback
  <2>. QED
    BY <1>3, <2>2, <2>3 DEF GetPaired
<1>. QED
  BY <1>1, <1>2, <1>3

\* The thread of Bluez.
LEMMA AsyncKeepsCallback ==
  ASSUME CallbackInv, Async
  PROVE  CallbackInv'
<1>1. CASE Take
  BY <1>1 DEF Take, programVars, callbackVars, CallbackInv, Trying, Set
<1>2. CASE ConnectedChanged \/ DataChanged
  BY <1>2 DEF ConnectedChanged, DataChanged, programVars, callbackVars, CallbackInv, Trying, Set
<1>3. CASE EnterCallback
  BY <1>3 DEF EnterCallback, programVars, CallbackInv, Trying, Set
<1>4. CASE Report
  BY <1>4 DEF Report, programVars, CallbackInv, Trying, Set
<1>5. CASE OnDeviceUpdated \/ Deliver
  BY <1>5 DEF OnDeviceUpdated, Deliver, programVars, callbackVars, CallbackInv, Trying, Set
<1>. QED
  BY <1>1, <1>2, <1>3, <1>4, <1>5 DEF Async, AsyncStep

(***************************************************************************)
(* The queue of signals.                                                   *)
(***************************************************************************)

Contents == Data \cup {NoData}
Sent ==
  {LinkDown[1], LinkDown[2], Up[1], Resolved[1], Resolved[2]}
    \cup {[n \in {"ManufacturerData"} |-> d] : d \in Contents}

\* What a signal says, one kind at a time.
SaysDown(s) ==
  DOMAIN s = {"Connected", "ServicesResolved"} /\ s["Connected"] = FALSE /\ s["ServicesResolved"] = FALSE
SaysGone(s) == DOMAIN s = {"Services"} /\ s["Services"] = FALSE
SaysUp(s) == DOMAIN s = {"Connected"} /\ s["Connected"] = TRUE
SaysNew(s) == DOMAIN s = {"Services"} /\ s["Services"] = TRUE
SaysResolved(s) == DOMAIN s = {"ServicesResolved"} /\ s["ServicesResolved"] = TRUE
SaysData(s) == DOMAIN s = {"ManufacturerData"} /\ s["ManufacturerData"] \in Contents

LEMMA SentSays ==
  ASSUME NEW s \in Sent
  PROVE  SaysDown(s) \/ SaysGone(s) \/ SaysUp(s) \/ SaysNew(s) \/ SaysResolved(s) \/ SaysData(s)
<1>1. s = LinkDown[1] => SaysDown(s)
  BY DEF LinkDown, SaysDown
<1>2. s = LinkDown[2] => SaysGone(s)
  BY DEF LinkDown, SaysGone
<1>3. s = Up[1] => SaysUp(s)
  BY DEF Up, SaysUp
<1>4. s = Resolved[1] => SaysNew(s)
  BY DEF Resolved, SaysNew
<1>5. s = Resolved[2] => SaysResolved(s)
  BY DEF Resolved, SaysResolved
<1>6. ASSUME NEW d \in Contents, s = [n \in {"ManufacturerData"} |-> d] PROVE SaysData(s)
  BY <1>6 DEF SaysData
<1>. QED
  BY <1>1, <1>2, <1>3, <1>4, <1>5, <1>6 DEF Sent

\* The queue tells that n is v; the last it tells of n, if it tells any, is v.
Told(q, n, v) == \E j \in DOMAIN q : n \in DOMAIN q[j] /\ q[j][n] = v
Latest(q, n, v) ==
  \A i \in DOMAIN q :
    n \in DOMAIN q[i] /\ q[i][n] # v
      => \E j \in DOMAIN q : j > i /\ n \in DOMAIN q[j] /\ q[j][n] = v

LEMMA AppendNews ==
  ASSUME NEW q \in Seq(Sent), NEW s \in Sent, NEW n \in DOMAIN s
  PROVE  Told(Append(q, s), n, s[n]) /\ Latest(Append(q, s), n, s[n])
<1>. DEFINE a == Append(q, s)
<1>1. Len(q) \in Nat /\ DOMAIN a = 1 .. Len(q) + 1 /\ a[Len(q) + 1] = s
  OBVIOUS
<1>2. \A i \in DOMAIN a : a[i][n] # s[n] => Len(q) + 1 > i
  BY <1>1
<1>. QED
  BY <1>1, <1>2 DEF Told, Latest

LEMMA AppendOther ==
  ASSUME NEW q \in Seq(Sent), NEW s \in Sent, NEW n, n \notin DOMAIN s, NEW v
  PROVE  /\ Told(q, n, v) => Told(Append(q, s), n, v)
         /\ Latest(q, n, v) => Latest(Append(q, s), n, v)
<1>. DEFINE a == Append(q, s)
<1>1. /\ Len(q) \in Nat /\ DOMAIN q = 1 .. Len(q)
      /\ DOMAIN a = 1 .. Len(q) + 1 /\ a[Len(q) + 1] = s
      /\ \A i \in DOMAIN q : i \in DOMAIN a /\ a[i] = q[i]
  OBVIOUS
<1>2. \A i \in DOMAIN a : n \in DOMAIN a[i] => i \in DOMAIN q
  BY <1>1
<1>. QED
  BY <1>1, <1>2 DEF Told, Latest

LEMMA TailKeeps ==
  ASSUME NEW q \in Seq(Sent), q # <<>>, NEW n, NEW v
  PROVE  /\ Told(q, n, v) => Told(Tail(q), n, v) \/ (n \in DOMAIN Head(q) /\ Head(q)[n] = v)
         /\ Latest(q, n, v) => Latest(Tail(q), n, v)
         /\ Latest(q, n, v) /\ n \in DOMAIN Head(q) /\ Head(q)[n] # v => Told(Tail(q), n, v)
<1>. DEFINE t == Tail(q)
<1>1. /\ Len(q) \in Nat \ {0} /\ DOMAIN q = 1 .. Len(q) /\ Head(q) = q[1]
      /\ DOMAIN t = 1 .. Len(q) - 1
      /\ \A i \in DOMAIN t : i + 1 \in DOMAIN q /\ t[i] = q[i + 1]
  OBVIOUS
<1>2. \A j \in DOMAIN q : j > 1 => j - 1 \in DOMAIN t /\ t[j - 1] = q[j]
  BY <1>1
<1>3. ASSUME Told(q, n, v)
      PROVE  Told(t, n, v) \/ (n \in DOMAIN Head(q) /\ Head(q)[n] = v)
  <2>1. PICK j \in DOMAIN q : n \in DOMAIN q[j] /\ q[j][n] = v
    BY <1>3 DEF Told
  <2>2. CASE j = 1
    BY <1>1, <2>1, <2>2
  <2>3. CASE j > 1
    <3>1. j - 1 \in DOMAIN t /\ t[j - 1] = q[j]
      BY <1>2, <2>3
    <3>. QED
      BY <2>1, <3>1 DEF Told
  <2>. QED
    BY <1>1, <2>2, <2>3
<1>4. ASSUME Latest(q, n, v), NEW i \in DOMAIN t, n \in DOMAIN t[i], t[i][n] # v
      PROVE  \E j \in DOMAIN t : j > i /\ n \in DOMAIN t[j] /\ t[j][n] = v
  <2>1. i + 1 \in DOMAIN q /\ t[i] = q[i + 1]
    BY <1>1
  <2>2. PICK j \in DOMAIN q : j > i + 1 /\ n \in DOMAIN q[j] /\ q[j][n] = v
    BY <1>4, <2>1 DEF Latest
  <2>3. j - 1 \in DOMAIN t /\ t[j - 1] = q[j] /\ j - 1 > i
    BY <1>1, <1>2, <2>2
  <2>. QED
    BY <2>2, <2>3
<1>5. ASSUME Latest(q, n, v), n \in DOMAIN Head(q), Head(q)[n] # v
      PROVE  Told(t, n, v)
  <2>1. PICK j \in DOMAIN q : j > 1 /\ n \in DOMAIN q[j] /\ q[j][n] = v
    BY <1>1, <1>5 DEF Latest
  <2>2. j - 1 \in DOMAIN t /\ t[j - 1] = q[j]
    BY <1>2, <2>1
  <2>. QED
    BY <2>1, <2>2 DEF Told
<1>. QED
  BY <1>3, <1>4, <1>5 DEF Latest

\* What b, which is q and a burst of signals, tells of n.
Adds(b, n, v) == Told(b, n, v) /\ Latest(b, n, v)
Keeps(q, b, n) == \A v : (Told(q, n, v) => Told(b, n, v)) /\ (Latest(q, n, v) => Latest(b, n, v))

LEMMA OneSignal ==
  ASSUME NEW q \in Seq(Sent), NEW s \in Sent, NEW b, b = q \o <<s>>
  PROVE  /\ b \in Seq(Sent)
         /\ \A n \in DOMAIN s : Adds(b, n, s[n])
         /\ \A n : n \notin DOMAIN s => Keeps(q, b, n)
<1>1. b = Append(q, s) /\ b \in Seq(Sent)
  OBVIOUS
<1>2. \A n \in DOMAIN s : Adds(b, n, s[n])
  BY <1>1, AppendNews DEF Adds
<1>3. \A n : n \notin DOMAIN s => Keeps(q, b, n)
  BY <1>1, AppendOther DEF Keeps
<1>. QED
  BY <1>1, <1>2, <1>3

LEMMA TwoSignals ==
  ASSUME NEW q \in Seq(Sent), NEW s \in Sent, NEW t \in Sent, NEW b, b = q \o <<s, t>>,
         DOMAIN s \cap DOMAIN t = {}
  PROVE  /\ b \in Seq(Sent)
         /\ \A n \in DOMAIN s : Adds(b, n, s[n])
         /\ \A n \in DOMAIN t : Adds(b, n, t[n])
         /\ \A n : n \notin DOMAIN s \cup DOMAIN t => Keeps(q, b, n)
<1>. DEFINE a == Append(q, s)
<1>1. a \in Seq(Sent) /\ b = Append(a, t) /\ b \in Seq(Sent)
  OBVIOUS
<1>2. \A n \in DOMAIN s : Adds(a, n, s[n])
  BY AppendNews DEF Adds
<1>3. \A n : n \notin DOMAIN s => Keeps(q, a, n)
  BY AppendOther DEF Keeps
<1>4. \A n \in DOMAIN t : Adds(b, n, t[n])
  BY <1>1, AppendNews DEF Adds
<1>5. \A n : n \notin DOMAIN t => Keeps(a, b, n)
  BY <1>1, AppendOther DEF Keeps
<1>. HIDE DEF a
<1>6. \A n \in DOMAIN s : Adds(b, n, s[n])
  BY <1>2, <1>5 DEF Adds, Keeps
<1>7. \A n : n \notin DOMAIN s \cup DOMAIN t => Keeps(q, b, n)
  BY <1>3, <1>5 DEF Keeps
<1>. QED
  BY <1>1, <1>4, <1>6, <1>7

(***************************************************************************)
(* The copy of the properties.                                             *)
(***************************************************************************)

Props(f) ==
  /\ f \in [Names -> Contents \cup BOOLEAN]
  /\ f["Connected"] \in BOOLEAN /\ f["ServicesResolved"] \in BOOLEAN
  /\ f["ManufacturerData"] \in Contents

CopyTypes ==
  /\ Props(device) /\ Props(cache) /\ signals \in Seq(Sent)
  /\ valid \subseteq Names /\ services \in BOOLEAN /\ parsed \in Contents
  /\ ~device["Connected"] => ~device["ServicesResolved"]

\* A property, the proxies of the services and the parsed data are what BlueZ has,
\* or a signal that says so is on its way, with none after it that says otherwise.
Follows(n) ==
  /\ Latest(signals, n, device[n])
  /\ \/ device[n] = NoData
     \/ n \in valid /\ cache[n] = device[n]
     \/ Told(signals, n, device[n])
ServicesFollow ==
  /\ Latest(signals, "Services", device["ServicesResolved"])
  /\ \/ services = device["ServicesResolved"]
     \/ Told(signals, "Services", device["ServicesResolved"])
DataFollows ==
  \/ device["ManufacturerData"] = NoData
  \/ parsed = device["ManufacturerData"]
  \/ async = "dataChanged"
  \/ Told(signals, "ManufacturerData", device["ManufacturerData"])
CopyInv == CopyTypes /\ (\A n \in Names : Follows(n)) /\ ServicesFollow /\ DataFollows

LEMMA CopyInit == Init => CopyInv
<1>1. SUFFICES ASSUME DeviceInit PROVE CopyInv
  BY DEF Init, PeripheralInit
<1>2. PICK d \in Contents :
        device = [n \in Names |-> IF n = "ManufacturerData" THEN d ELSE FALSE]
  BY <1>1 DEF DeviceInit, Contents
<1>3. Props(device) /\ device["ServicesResolved"] = FALSE
  BY <1>2 DEF Props, Names
<1>4. CopyTypes
  <2>1. signals = <<>> /\ cache = device /\ services = FALSE
    BY <1>1 DEF DeviceInit
  <2>2. parsed = device["ManufacturerData"] /\ valid \subseteq Names
    BY <1>1 DEF DeviceInit
  <2>3. signals \in Seq(Sent)
    BY <2>1
  <2>. QED
    BY <1>3, <2>1, <2>2, <2>3 DEF CopyTypes, Props
<1>5. \A n, v : Latest(signals, n, v)
  <2>1. DOMAIN signals = {}
    BY <1>1 DEF DeviceInit
  <2>. QED
    BY <2>1 DEF Latest
<1>6. \A n \in Names : Follows(n)
  <2>1. cache = device /\ valid = {n \in Names : device[n] # NoData}
    BY <1>1 DEF DeviceInit
  <2>. QED
    BY <1>5, <2>1 DEF Follows
<1>7. ServicesFollow /\ DataFollows
  <2>1. services = FALSE /\ parsed = device["ManufacturerData"]
    BY <1>1 DEF DeviceInit
  <2>. QED
    BY <1>3, <1>5, <2>1 DEF ServicesFollow, DataFollows
<1>. QED
  BY <1>4, <1>6, <1>7 DEF CopyInv

\* The device changes, with the signals that say so.
LEMMA DeviceKeepsCopy ==
  ASSUME CopyInv, Props(device'), signals' \in Seq(Sent), UNCHANGED <<copyVars, async>>,
         ~device'["Connected"] => ~device'["ServicesResolved"],
         \A n \in Names :
           \/ Adds(signals', n, device'[n])
           \/ device'[n] = device[n] /\ Keeps(signals, signals', n),
         \/ Adds(signals', "Services", device'["ServicesResolved"])
         \/ /\ device'["ServicesResolved"] = device["ServicesResolved"]
            /\ Keeps(signals, signals', "Services")
  PROVE  CopyInv'
<1>1. CopyTypes'
  BY DEF CopyInv, CopyTypes, copyVars
<1>2. ASSUME NEW n \in Names PROVE Follows(n)'
  BY DEF CopyInv, Follows, copyVars, Adds, Keeps
<1>3. ServicesFollow'
  BY DEF CopyInv, ServicesFollow, copyVars, Adds, Keeps
<1>4. DataFollows'
  <2>1. "ManufacturerData" \in Names
    BY DEF Names
  <2>2. CASE Adds(signals', "ManufacturerData", device'["ManufacturerData"])
    BY <2>2 DEF DataFollows, Adds
  <2>3. CASE /\ device'["ManufacturerData"] = device["ManufacturerData"]
             /\ Keeps(signals, signals', "ManufacturerData")
    BY <2>3 DEF CopyInv, DataFollows, copyVars, Keeps
  <2>. QED
    BY <2>1, <2>2, <2>3
<1>. QED
  BY <1>1, <1>2, <1>3, <1>4 DEF CopyInv

LEMMA BringUpKeepsCopy ==
  ASSUME CopyInv, BringUp, UNCHANGED <<copyVars, async>>
  PROVE  CopyInv'
<1>1. Props(device) /\ signals \in Seq(Sent)
  BY DEF CopyInv, CopyTypes
<1>2. /\ Props(device') /\ device'["Connected"] = TRUE
      /\ \A n \in Names \ {"Connected"} : device'[n] = device[n]
  BY <1>1 DEF BringUp, Props, Names
<1>3. Up[1] \in Sent /\ DOMAIN Up[1] = {"Connected"} /\ Up[1]["Connected"] = TRUE
  BY DEF Up, Sent
<1>4. signals' = signals \o <<Up[1]>>
  BY DEF BringUp, Emit, Up
<1>5. /\ signals' \in Seq(Sent)
      /\ Adds(signals', "Connected", TRUE)
      /\ \A n : n # "Connected" => Keeps(signals, signals', n)
  BY <1>1, <1>3, <1>4, OneSignal
<1>6. "ServicesResolved" \in Names /\ "Services" # "Connected"
  BY DEF Names
<1>. QED
  BY <1>2, <1>5, <1>6, DeviceKeepsCopy

LEMMA BringDownSays ==
  ASSUME CopyInv, BringDown
  PROVE  /\ Props(device') /\ device'["Connected"] = FALSE /\ device'["ServicesResolved"] = FALSE
         /\ device'["ManufacturerData"] = device["ManufacturerData"]
         /\ signals' \in Seq(Sent)
         /\ Adds(signals', "Connected", FALSE) /\ Adds(signals', "ServicesResolved", FALSE)
         /\ Adds(signals', "Services", FALSE)
         /\ Keeps(signals, signals', "ManufacturerData")
<1>. DEFINE s == LinkDown[1]
            t == LinkDown[2]
<1>1. Props(device) /\ signals \in Seq(Sent)
  BY DEF CopyInv, CopyTypes
<1>2. /\ Props(device') /\ device'["Connected"] = FALSE /\ device'["ServicesResolved"] = FALSE
      /\ device'["ManufacturerData"] = device["ManufacturerData"]
  BY <1>1 DEF BringDown, Props, Names
<1>3. /\ s \in Sent /\ DOMAIN s = {"Connected", "ServicesResolved"}
      /\ s["Connected"] = FALSE /\ s["ServicesResolved"] = FALSE
  BY DEF LinkDown, Sent
<1>4. t \in Sent /\ DOMAIN t = {"Services"} /\ t["Services"] = FALSE
  BY DEF LinkDown, Sent
<1>5. signals' = signals \o <<s, t>>
  BY DEF BringDown, Emit, LinkDown
<1>. HIDE DEF s, t
<1>6. DOMAIN s \cap DOMAIN t = {}
  BY <1>3, <1>4
<1>7. /\ signals' \in Seq(Sent)
      /\ \A n \in DOMAIN s : Adds(signals', n, s[n])
      /\ \A n \in DOMAIN t : Adds(signals', n, t[n])
      /\ \A n : n \notin DOMAIN s \cup DOMAIN t => Keeps(signals, signals', n)
  BY <1>1, <1>3, <1>4, <1>5, <1>6, TwoSignals
<1>8. /\ Adds(signals', "Connected", FALSE) /\ Adds(signals', "ServicesResolved", FALSE)
      /\ Adds(signals', "Services", FALSE)
      /\ Keeps(signals, signals', "ManufacturerData")
  BY <1>3, <1>4, <1>7
<1>. QED
  BY <1>2, <1>7, <1>8

LEMMA BringDownKeepsCopy ==
  ASSUME CopyInv, BringDown, UNCHANGED <<copyVars, async>>
  PROVE  CopyInv'
<1>1. \A n \in Names :
        \/ Adds(signals', n, device'[n])
        \/ device'[n] = device[n] /\ Keeps(signals, signals', n)
  BY BringDownSays DEF Names
<1>. QED
  BY <1>1, BringDownSays, DeviceKeepsCopy

LEMMA ResolveKeepsCopy ==
  ASSUME CopyInv, Resolve, UNCHANGED <<copyVars, async>>
  PROVE  CopyInv'
<1>. DEFINE s == Resolved[1]
            t == Resolved[2]
<1>1. Props(device) /\ signals \in Seq(Sent)
  BY DEF CopyInv, CopyTypes
<1>2. /\ Props(device') /\ device'["ServicesResolved"] = TRUE /\ device'["Connected"]
      /\ \A n \in Names \ {"ServicesResolved"} : device'[n] = device[n]
  BY <1>1 DEF Resolve, Props, Names
<1>3. s \in Sent /\ DOMAIN s = {"Services"} /\ s["Services"] = TRUE
  BY DEF Resolved, Sent
<1>4. t \in Sent /\ DOMAIN t = {"ServicesResolved"} /\ t["ServicesResolved"] = TRUE
  BY DEF Resolved, Sent
<1>5. signals' = signals \o <<s, t>>
  BY DEF Resolve, Emit, Resolved
<1>. HIDE DEF s, t
<1>6. DOMAIN s \cap DOMAIN t = {}
  BY <1>3, <1>4
<1>7. /\ signals' \in Seq(Sent)
      /\ \A n \in DOMAIN s : Adds(signals', n, s[n])
      /\ \A n \in DOMAIN t : Adds(signals', n, t[n])
      /\ \A n : n \notin DOMAIN s \cup DOMAIN t => Keeps(signals, signals', n)
  BY <1>1, <1>3, <1>4, <1>5, <1>6, TwoSignals
<1>8. /\ Adds(signals', "Services", TRUE) /\ Adds(signals', "ServicesResolved", TRUE)
      /\ Keeps(signals, signals', "Connected")
      /\ Keeps(signals, signals', "ManufacturerData")
  BY <1>3, <1>4, <1>7
<1>9. \A n \in Names :
        \/ Adds(signals', n, device'[n])
        \/ device'[n] = device[n] /\ Keeps(signals, signals', n)
  BY <1>2, <1>8 DEF Names
<1>. QED
  BY <1>2, <1>7, <1>8, <1>9, DeviceKeepsCopy

LEMMA AdvertiseKeepsCopy ==
  ASSUME CopyInv, NEW d \in Contents, Advertise(d), UNCHANGED <<copyVars, async>>
  PROVE  CopyInv'
<1>. DEFINE s == [n \in {"ManufacturerData"} |-> d]
<1>1. Props(device) /\ signals \in Seq(Sent)
  BY DEF CopyInv, CopyTypes
<1>2. /\ Props(device') /\ device'["ManufacturerData"] = d
      /\ \A n \in Names \ {"ManufacturerData"} : device'[n] = device[n]
  BY <1>1 DEF Advertise, Props, Names
<1>3. s \in Sent /\ DOMAIN s = {"ManufacturerData"} /\ s["ManufacturerData"] = d
  BY DEF Sent
<1>4. signals' = signals \o <<s>>
  BY DEF Advertise, Emit
<1>. HIDE DEF s
<1>5. /\ signals' \in Seq(Sent)
      /\ Adds(signals', "ManufacturerData", d)
      /\ \A n : n # "ManufacturerData" => Keeps(signals, signals', n)
  BY <1>1, <1>3, <1>4, OneSignal
<1>6. {"Connected", "ServicesResolved"} \subseteq Names \ {"ManufacturerData"}
  BY DEF Names
<1>7. ~device'["Connected"] => ~device'["ServicesResolved"]
  BY <1>2, <1>6 DEF CopyInv, CopyTypes
<1>8. device'["ServicesResolved"] = device["ServicesResolved"]
  BY <1>2, <1>6
<1>. QED
  BY <1>2, <1>5, <1>7, <1>8, DeviceKeepsCopy

\* Nothing is sent and nothing is stored, but the data may be parsed.
LEMMA CopyFrame ==
  ASSUME CopyInv, UNCHANGED <<device, signals, cache, valid, services>>,
         \/ UNCHANGED parsed /\ (async' # async => async # "dataChanged")
         \/ parsed' = cache["ManufacturerData"]
  PROVE  CopyInv'
<1>1. CopyTypes'
  BY DEF CopyInv, CopyTypes, Props
<1>2. (\A n \in Names : Follows(n))' /\ ServicesFollow'
  BY DEF CopyInv, Follows, ServicesFollow
<1>3. Follows("ManufacturerData")
  BY DEF CopyInv, Names
<1>4. DataFollows'
  BY <1>3 DEF CopyInv, DataFollows, Follows
<1>. QED
  BY <1>1, <1>2, <1>4 DEF CopyInv

\* A property is fetched.
LEMMA FetchKeepsCopy ==
  ASSUME CopyInv, NEW name \in Names, Fetch(name),
         UNCHANGED <<device, signals, parsed, services, async>>
  PROVE  CopyInv'
<1>1. /\ Props(cache') /\ valid' = valid \cup {name}
      /\ \A n \in Names : cache'[n] = cache[n] \/ cache'[n] = device[n]
  BY DEF Fetch, CopyInv, CopyTypes, Props, Names
<1>2. CopyTypes'
  BY <1>1 DEF CopyInv, CopyTypes, Props
<1>3. ASSUME NEW n \in Names PROVE Follows(n)'
  BY <1>1 DEF CopyInv, Follows
<1>4. ServicesFollow' /\ DataFollows'
  BY <1>1 DEF CopyInv, ServicesFollow, DataFollows
<1>. QED
  BY <1>2, <1>3, <1>4 DEF CopyInv

\* What Take does with a signal.
LEMMA TakeStores ==
  ASSUME CopyInv, Take, NEW s, s = Head(signals)
  PROVE  /\ s \in Sent /\ signals # <<>> /\ signals' = Tail(signals) /\ async = "idle"
         /\ UNCHANGED <<device, parsed>>
         /\ SaysGone(s) \/ SaysNew(s) =>
              services' = s["Services"] /\ UNCHANGED <<cache, valid, async>>
         /\ ~SaysGone(s) /\ ~SaysNew(s) => Store(s) /\ UNCHANGED services
         /\ SaysDown(s) \/ SaysUp(s) => async' = "connectedChanged"
         /\ SaysData(s) /\ s["ManufacturerData"] # NoData => async' = "dataChanged"
<1>1. s \in Sent /\ signals # <<>>
  BY DEF Take, CopyInv, CopyTypes
<1>2. SaysDown(s) \/ SaysGone(s) \/ SaysUp(s) \/ SaysNew(s) \/ SaysResolved(s) \/ SaysData(s)
  BY <1>1, SentSays
<1>3. "Services" \in DOMAIN s <=> SaysGone(s) \/ SaysNew(s)
  BY <1>2 DEF SaysDown, SaysGone, SaysUp, SaysNew, SaysResolved, SaysData
<1>4. "Connected" \in DOMAIN s <=> SaysDown(s) \/ SaysUp(s)
  BY <1>2 DEF SaysDown, SaysGone, SaysUp, SaysNew, SaysResolved, SaysData
<1>5. /\ signals' = Tail(signals) /\ async = "idle" /\ UNCHANGED <<device, parsed>>
      /\ "Services" \in DOMAIN s =>
           services' = s["Services"] /\ UNCHANGED <<cache, valid, async>>
      /\ "Services" \notin DOMAIN s => Store(s) /\ UNCHANGED services
  BY DEF Take
<1>6. CASE SaysDown(s) \/ SaysUp(s)
  <2>1. "Connected" \in DOMAIN s /\ "ManufacturerData" \notin DOMAIN s /\ "Services" \notin DOMAIN s
    BY <1>6 DEF SaysDown, SaysUp
  <2>2. async' = "connectedChanged"
    BY <2>1 DEF Take, Changed
  <2>. QED
    BY <1>1, <1>3, <1>5, <2>1, <2>2 DEF SaysData
<1>7. CASE SaysData(s) /\ s["ManufacturerData"] # NoData
  <2>1. "ManufacturerData" \in Changed(s) /\ DOMAIN s = {"ManufacturerData"}
    BY <1>7 DEF SaysData, Changed, Gone
  <2>2. async' = "dataChanged"
    BY <2>1 DEF Take
  <2>. QED
    BY <1>1, <1>3, <1>4, <1>5, <2>1, <2>2
<1>. QED
  BY <1>1, <1>3, <1>5, <1>6, <1>7

LEMMA TakeKeepsCopy ==
  ASSUME CopyInv, Take
  PROVE  CopyInv'
<1>. DEFINE s == Head(signals)
<1>1. /\ s \in Sent /\ signals # <<>> /\ signals' = Tail(signals) /\ async = "idle"
      /\ UNCHANGED <<device, parsed>>
      /\ SaysGone(s) \/ SaysNew(s) =>
           services' = s["Services"] /\ UNCHANGED <<cache, valid, async>>
      /\ ~SaysGone(s) /\ ~SaysNew(s) => Store(s) /\ UNCHANGED services
      /\ SaysData(s) /\ s["ManufacturerData"] # NoData => async' = "dataChanged"
  BY TakeStores
<1>2. SaysDown(s) \/ SaysGone(s) \/ SaysUp(s) \/ SaysNew(s) \/ SaysResolved(s) \/ SaysData(s)
  BY <1>1, SentSays
<1>3. \A n, v :
        /\ Told(signals, n, v) => Told(signals', n, v) \/ (n \in DOMAIN s /\ s[n] = v)
        /\ Latest(signals, n, v) => Latest(signals', n, v)
        /\ Latest(signals, n, v) /\ n \in DOMAIN s /\ s[n] # v => Told(signals', n, v)
  BY <1>1, TailKeeps DEF CopyInv, CopyTypes
<1>4. signals' \in Seq(Sent)
  BY <1>1 DEF CopyInv, CopyTypes
<1>. HIDE DEF s
<1>5. /\ Props(cache') /\ valid' \subseteq Names
      /\ \A n \in Names :
           /\ n \notin DOMAIN s => cache'[n] = cache[n] /\ (n \in valid' <=> n \in valid)
           /\ n \in DOMAIN s /\ s[n] # NoData => cache'[n] = s[n] /\ n \in valid'
  <2>1. CASE SaysGone(s) \/ SaysNew(s)
    BY <1>1, <2>1 DEF SaysGone, SaysNew, Names, CopyInv, CopyTypes, Props
  <2>2. CASE ~SaysGone(s) /\ ~SaysNew(s)
    <3>1. /\ cache' = [n \in Names |-> IF n \in Changed(s) THEN s[n] ELSE cache[n]]
          /\ valid' = (valid \cup Changed(s)) \ Gone(s)
      BY <1>1, <2>2 DEF Store
    <3>2. DOMAIN s \subseteq Names
      BY <1>2, <2>2 DEF SaysDown, SaysUp, SaysResolved, SaysData, Names
    <3>3. \A n : n \in Changed(s) <=> n \in DOMAIN s /\ s[n] # NoData
      BY DEF Changed, Gone
    <3>4. \A n \in DOMAIN s :
            /\ s[n] \in Contents \cup BOOLEAN
            /\ n \in {"Connected", "ServicesResolved"} => s[n] \in BOOLEAN
            /\ n = "ManufacturerData" => s[n] \in Contents
      BY <1>2, <2>2 DEF SaysDown, SaysUp, SaysResolved, SaysData
    <3>5. Props(cache')
      <4>1. cache' \in [Names -> Contents \cup BOOLEAN]
        BY <3>1, <3>3, <3>4 DEF CopyInv, CopyTypes, Props
      <4>2. /\ cache'["Connected"] \in BOOLEAN /\ cache'["ServicesResolved"] \in BOOLEAN
            /\ cache'["ManufacturerData"] \in Contents
        BY <3>1, <3>3, <3>4 DEF CopyInv, CopyTypes, Props, Names
      <4>. QED
        BY <4>1, <4>2 DEF Props
    <3>6. valid' \subseteq Names
      BY <3>1, <3>2, <3>3 DEF CopyInv, CopyTypes
    <3>. QED
      BY <3>1, <3>3, <3>5, <3>6 DEF Gone
  <2>. QED
    BY <2>1, <2>2
<1>6. services' \in BOOLEAN
  BY <1>1 DEF SaysGone, SaysNew, CopyInv, CopyTypes
<1>7. CopyTypes'
  BY <1>1, <1>4, <1>5, <1>6 DEF CopyInv, CopyTypes
<1>8. ASSUME NEW n \in Names PROVE Follows(n)'
  <2>1. Follows(n) /\ device'[n] = device[n]
    BY <1>1 DEF CopyInv
  <2>2. CASE n \notin DOMAIN s
    BY <1>3, <1>5, <2>1, <2>2 DEF Follows
  <2>3. CASE n \in DOMAIN s /\ s[n] # device[n]
    BY <1>3, <2>1, <2>3 DEF Follows
  <2>4. CASE n \in DOMAIN s /\ s[n] = device[n]
    BY <1>3, <1>5, <2>1, <2>4 DEF Follows
  <2>. QED
    BY <2>2, <2>3, <2>4
<1>9. ServicesFollow'
  <2>1. ServicesFollow /\ device'["ServicesResolved"] = device["ServicesResolved"]
    BY <1>1 DEF CopyInv
  <2>2. "Services" \in DOMAIN s => services' = s["Services"]
    BY <1>1, <1>2 DEF SaysDown, SaysGone, SaysUp, SaysNew, SaysResolved, SaysData
  <2>3. "Services" \notin DOMAIN s => services' = services
    BY <1>1, <1>2 DEF SaysGone, SaysNew
  <2>. QED
    BY <1>3, <2>1, <2>2, <2>3 DEF ServicesFollow
<1>10. DataFollows'
  <2>. DEFINE v == device["ManufacturerData"]
  <2>1. /\ v = NoData \/ parsed = v \/ Told(signals, "ManufacturerData", v)
        /\ UNCHANGED <<device, parsed>>
    BY <1>1 DEF CopyInv, DataFollows
  <2>2. CASE "ManufacturerData" \notin DOMAIN s
    BY <1>3, <2>1, <2>2 DEF DataFollows
  <2>3. CASE "ManufacturerData" \in DOMAIN s
    <3>1. SaysData(s)
      BY <1>2, <2>3 DEF SaysDown, SaysGone, SaysUp, SaysNew, SaysResolved
    <3>. QED
      BY <1>1, <1>3, <2>1, <3>1 DEF DataFollows
  <2>. QED
    BY <2>2, <2>3
<1>. QED
  BY <1>7, <1>8, <1>9, <1>10 DEF CopyInv

LEMMA CallsKeepCopy ==
  ASSUME CopyInv, ProgramCalls
  PROVE  CopyInv'
<1>1. CASE \E h \in {Null, Handle}, op \in PeripheralOps : Call(op, h)
  BY <1>1, CopyFrame DEF Call, bluezVars, copyVars
<1>2. CASE \E h \in {Null, Handle}, op \in AdapterOps : CallAdapter(op, h)
  BY <1>2, CopyFrame DEF CallAdapter, bluezVars, copyVars
<1>3. CASE \/ \E op \in Getters, h \in {Null, Handle} : Get(op, h)
           \/ \E h \in {Null, Handle} : AskAdapter(h)
  BY <1>3, AtOnceFrame, CopyFrame DEF bluezVars, copyVars
<1>. QED
  BY <1>1, <1>2, <1>3 DEF ProgramCalls

LEMMA UserKeepsCopy ==
  ASSUME CopyInv, User
  PROVE  CopyInv'
<1>1. CASE Check
  BY <1>1, FetchKeepsCopy DEF Check, bluezVars, Names
<1>2. CASE CheckResolved
  BY <1>2, FetchKeepsCopy DEF CheckResolved, bluezVars, Names
<1>3. CASE AttemptConnect
  <2>1. UNCHANGED <<copyVars, async>>
    BY <1>3 DEF AttemptConnect
  <2>2. BringUp \/ UNCHANGED bluezVars
    BY <1>3 DEF AttemptConnect
  <2>. QED
    BY <2>1, <2>2, BringUpKeepsCopy, CopyFrame DEF bluezVars, copyVars
<1>4. CASE AttemptDisconnect
  <2>1. UNCHANGED <<copyVars, async>>
    BY <1>4 DEF AttemptDisconnect
  <2>2. BringDown \/ UNCHANGED bluezVars
    BY <1>4 DEF AttemptDisconnect
  <2>. QED
    BY <2>1, <2>2, BringDownKeepsCopy, CopyFrame DEF bluezVars, copyVars
<1>5. CASE \/ CheckChanged \/ Lost \/ Look \/ ClearOnDisconnected \/ SetOnDisconnected
           \/ DisconnectCleanup \/ ReadWrite \/ ReadWriteDescriptor \/ Mtu \/ Notify
           \/ StartNotify \/ Unsubscribe \/ GetManufacturerData
  BY <1>5, CopyFrame DEF CheckChanged, Lost, Look, ClearOnDisconnected, SetOnDisconnected,
     DisconnectCleanup, ReadWrite, ReadWriteDescriptor, Transfer, Mtu, Notify, StartNotify,
     Unsubscribe, GetManufacturerData, bluezVars, copyVars
<1>6. CASE \/ ScanFor \/ ClearSeen \/ Listen \/ DiscoveryStart \/ Scanning \/ ScanStop
           \/ ScanIsActive \/ ScanGetResults \/ GetAdapters \/ GetPaired
  BY <1>6, CopyFrame DEF ScanFor, ClearSeen, Listen, DiscoveryStart, Scanning, ScanStop,
     ScanIsActive, ScanGetResults, GetAdapters, GetPaired, bluezVars, copyVars
<1>7. CASE FetchData
  <2>1. UNCHANGED <<device, signals, parsed, services, async>>
    BY <1>7 DEF FetchData, bluezVars
  <2>2. CASE Fetch("ManufacturerData")
    BY <2>1, <2>2, FetchKeepsCopy DEF Names
  <2>3. CASE UNCHANGED <<cache, valid>>
    BY <2>1, <2>3, CopyFrame
  <2>. QED
    BY <1>7, <2>2, <2>3 DEF FetchData
<1>8. CASE ParseData
  BY <1>8, CopyFrame DEF ParseData, bluezVars
<1>. QED
  BY <1>1, <1>2, <1>3, <1>4, <1>5, <1>6, <1>7, <1>8 DEF User, UserStep

LEMMA AsyncKeepsCopy ==
  ASSUME CopyInv, Async
  PROVE  CopyInv'
<1>1. CASE ConnectedChanged \/ EnterCallback \/ Report \/ OnDeviceUpdated \/ Deliver
  BY <1>1, CopyFrame DEF ConnectedChanged, EnterCallback, Report, OnDeviceUpdated, Deliver,
     bluezVars, copyVars
<1>2. CASE DataChanged
  BY <1>2, CopyFrame DEF DataChanged, bluezVars
<1>. QED
  BY <1>1, <1>2, TakeKeepsCopy DEF Async, AsyncStep

LEMMA EnvironmentKeepsCopy ==
  ASSUME CopyInv, Environment
  PROVE  CopyInv'
<1>1. UNCHANGED <<copyVars, async>>
  BY DEF Environment
<1>2. Resolve \/ (\E d \in Contents : Advertise(d)) \/ BringDown
  BY DEF Environment, Contents
<1>. QED
  BY <1>1, <1>2, ResolveKeepsCopy, AdvertiseKeepsCopy, BringDownKeepsCopy

(***************************************************************************)
(* The two invariants, and what they give.                                 *)
(***************************************************************************)

LEMMA SpecCopy == Spec => []CopyInv
<1>1. ASSUME CopyInv, [Next]_vars PROVE CopyInv'
  <2>1. CASE Power
    BY <1>1, <2>1, CopyFrame DEF Power, peripheralVars, bluezVars, copyVars
  <2>2. CASE UNCHANGED vars
    BY <1>1, <2>2, CopyFrame DEF vars, peripheralVars, bluezVars, copyVars
  <2>. QED
    BY <1>1, <2>1, <2>2, CallsKeepCopy, UserKeepsCopy, AsyncKeepsCopy, EnvironmentKeepsCopy DEF Next
<1>. QED
  BY CopyInit, <1>1, PTL DEF Spec

\* Once every signal is handled, the copy, the parsed data and the proxies of the
\* services are what BlueZ has (Interface.cpp:80-130, Device1.cpp:100-118).
THEOREM CopyCatchesUpHolds == Spec => []CopyCatchesUp
<1>1. ASSUME CopyInv PROVE CopyCatchesUp
  <2>1. SUFFICES ASSUME signals = <<>>, async = "idle"
                 PROVE  /\ \A n \in Names : device[n] # NoData => n \in valid /\ cache[n] = device[n]
                        /\ device.ManufacturerData # NoData => parsed = device.ManufacturerData
                        /\ services = device.ServicesResolved
    BY DEF CopyCatchesUp
  <2>2. \A n, v : ~Told(signals, n, v)
    BY <2>1 DEF Told
  <2>. QED
    BY <1>1, <2>1, <2>2 DEF CopyInv, Follows, ServicesFollow, DataFollows
<1>. QED
  BY <1>1, SpecCopy, PTL

LEMMA NextKeepsCallback ==
  ASSUME CopyInv, CallbackInv, [Next]_vars
  PROVE  CallbackInv'
<1>1. cache.ServicesResolved \in BOOLEAN
  BY DEF CopyInv, CopyTypes, Props
<1>2. CASE Environment \/ Power \/ UNCHANGED vars
  BY <1>2, CallbackFrame DEF Environment, Power, programVars, peripheralVars, vars, callbackVars, CallbackInv
<1>. QED
  BY <1>1, <1>2, CallsKeepCallback, PeripheralKeepsCallback, AdapterKeepsCallback,
     AsyncKeepsCallback DEF Next, User

LEMMA SpecCallback == Spec => []CallbackInv
BY CallbackInit, SpecCopy, NextKeepsCallback, PTL DEF Spec

\* No callback of an earlier connection runs while connect makes its attempts
\* (PeripheralBase.cpp:67 and 77).
THEOREM NoReportDuringRetriesHolds == Spec => []NoReportDuringRetries
<1>1. CallbackInv => NoReportDuringRetries
  BY DEF CallbackInv, NoReportDuringRetries, Trying
<1>. QED
  BY <1>1, SpecCallback, PTL

(***************************************************************************)
(* The loss of a link.                                                     *)
(***************************************************************************)

\* News that a thread is about to tell: that of Bluez, or that of the call.
Telling == cache["Connected"] = FALSE /\ async \in {"connectedChanged", "enter"}
Fetched == user.at = "lost" \/ (user.at = "fetched" /\ cache["Connected"] = FALSE)

LEMMA NewsAre ==
  ASSUME CopyInv
  PROVE  News <=> Told(signals, "Connected", FALSE) \/ Telling \/ Fetched
<1>1. ASSUME NEW i \in DOMAIN signals, "Connected" \in DOMAIN signals[i]
      PROVE  signals[i]["Connected"] \in BOOLEAN
  <2>1. signals[i] \in Sent
    BY DEF CopyInv, CopyTypes
  <2>. DEFINE s == signals[i]
  <2>2. SaysDown(s) \/ SaysGone(s) \/ SaysUp(s) \/ SaysNew(s) \/ SaysResolved(s) \/ SaysData(s)
    BY <2>1, SentSays
  <2>3. "Connected" \in DOMAIN s
    BY <1>1
  <2>. HIDE DEF s
  <2>4. SaysDown(s) \/ SaysUp(s)
    BY <2>2, <2>3 DEF SaysGone, SaysNew, SaysResolved, SaysData
  <2>5. s["Connected"] \in BOOLEAN
    <3>1. SaysDown(s) => s["Connected"] = FALSE
      BY DEF SaysDown
    <3>2. SaysUp(s) => s["Connected"] = TRUE
      BY DEF SaysUp
    <3>. QED
      BY <2>4, <3>1, <3>2
  <2>. QED
    BY <2>5 DEF s
<1>2. cache["Connected"] \in BOOLEAN
  BY DEF CopyInv, CopyTypes, Props
<1>. QED
  BY <1>1, <1>2 DEF News, Told, Telling, Fetched

\* The invariant, in these terms.
LossInv ==
  owed /\ ~device["Connected"] =>
    Told(signals, "Connected", FALSE) \/ Telling \/ Fetched

\* What is on its way stays so, in a step that is not about the link.
LEMMA LossFrame ==
  ASSUME LossInv, owed' => owed, UNCHANGED <<device, signals>>,
         cache'["Connected"] = cache["Connected"],
         UNCHANGED async \/ async \notin {"connectedChanged", "enter"},
         user.at \in {"lost", "fetched"} => user'.at = user.at
  PROVE  LossInv'
BY DEF LossInv, Telling, Fetched

LEMMA CallsKeepLoss ==
  ASSUME CopyInv, LossInv, ProgramCalls
  PROVE  LossInv'
<1>1. CASE \E h \in {Null, Handle}, op \in PeripheralOps : Call(op, h)
  BY <1>1, LossFrame DEF Call, bluezVars, copyVars, callbackVars
<1>2. CASE \E h \in {Null, Handle}, op \in AdapterOps : CallAdapter(op, h)
  BY <1>2, LossFrame DEF CallAdapter, bluezVars, copyVars, callbackVars
<1>3. CASE \/ \E op \in Getters, h \in {Null, Handle} : Get(op, h)
           \/ \E h \in {Null, Handle} : AskAdapter(h)
  BY <1>3, AtOnceFrame, LossFrame DEF bluezVars, copyVars, callbackVars
<1>. QED
  BY <1>1, <1>2, <1>3 DEF ProgramCalls

\* is_connected fetches: whoever finds the link down goes to tell it.
LEMMA CheckKeepsLoss ==
  ASSUME CopyInv, CallbackInv, LossInv, Check
  PROVE  LossInv'
<1>1. UNCHANGED <<device, signals, async, owed>> /\ user.at = "check"
  BY DEF Check, bluezVars, callbackVars
<1>2. CASE UNCHANGED cache
  BY <1>1, <1>2, LossFrame
<1>3. CASE cache' # cache
  <2>1. cache'["Connected"] = device["Connected"] /\ device["Connected"] \in BOOLEAN
    BY <1>3 DEF Check, Fetch, CopyInv, CopyTypes, Props, Names
  <2>2. user'.at = "fetched"
    BY <1>3, GotoAt, PlaceNames DEF Check, CallbackInv
  <2>. QED
    BY <1>1, <2>1, <2>2 DEF LossInv, Fetched
<1>. QED
  BY <1>2, <1>3

\* It looks at the copy again: what is still down is told on this thread.
LEMMA CheckChangedKeepsLoss ==
  ASSUME CallbackInv, LossInv, CheckChanged
  PROVE  LossInv'
<1>1. UNCHANGED <<device, signals, cache, async, owed>> /\ user.at = "fetched"
  BY DEF CheckChanged, bluezVars, copyVars, callbackVars
<1>2. CASE ~cache["Connected"] /\ onDisconnected
  <2>1. user'.at = "lost"
    BY <1>2, GotoAt, PlaceNames DEF CheckChanged, CallbackInv
  <2>. QED
    BY <2>1 DEF LossInv, Fetched
<1>3. CASE cache["Connected"]
  BY <1>1, <1>3 DEF LossInv, Telling, Fetched
<1>4. CASE ~onDisconnected
  BY <1>1, <1>4 DEF LossInv, CallbackInv
<1>. QED
  BY <1>2, <1>3, <1>4

\* connect answers that there is a link: if it is lost by then, the signal is on its way.
LEMMA LookKeepsLoss ==
  ASSUME CopyInv, LossInv, Look
  PROVE  LossInv'
<1>1. UNCHANGED <<device, signals, cache, async>> /\ user.at \notin {"lost", "fetched"}
  BY DEF Look, bluezVars, copyVars
<1>2. CASE UNCHANGED owed \/ owed' = FALSE
  BY <1>1, <1>2, LossFrame
<1>3. CASE owed' = cache.ServicesResolved /\ cache.ServicesResolved
  <2>1. SUFFICES ASSUME ~device["Connected"] PROVE Told(signals, "Connected", FALSE)
    BY <1>1 DEF LossInv
  <2>2. device["ServicesResolved"] = FALSE /\ cache["ServicesResolved"] = TRUE
    BY <1>3, <2>1 DEF CopyInv, CopyTypes, Props
  <2>3. Told(signals, "ServicesResolved", FALSE)
    <3>1. Follows("ServicesResolved")
      BY DEF CopyInv, Names
    <3>. QED
      BY <2>2, <3>1, DeviceAssumption DEF Follows
  <2>4. PICK j \in DOMAIN signals :
          "ServicesResolved" \in DOMAIN signals[j] /\ signals[j]["ServicesResolved"] = FALSE
    BY <2>3 DEF Told
  <2>5. signals[j] \in Sent
    BY DEF CopyInv, CopyTypes
  <2>. DEFINE s == signals[j]
  <2>6. SaysDown(s) \/ SaysGone(s) \/ SaysUp(s) \/ SaysNew(s) \/ SaysResolved(s) \/ SaysData(s)
    BY <2>5, SentSays
  <2>7. "ServicesResolved" \in DOMAIN s /\ s["ServicesResolved"] = FALSE
    BY <2>4
  <2>. HIDE DEF s
  <2>8. SaysDown(s)
    BY <2>6, <2>7 DEF SaysGone, SaysUp, SaysNew, SaysResolved, SaysData
  <2>9. "Connected" \in DOMAIN s /\ s["Connected"] = FALSE
    BY <2>8 DEF SaysDown
  <2>. QED
    BY <2>9 DEF Told, s
<1>4. \/ UNCHANGED owed \/ owed' = FALSE
      \/ owed' = cache.ServicesResolved /\ cache.ServicesResolved \in BOOLEAN
  BY DEF Look, Conclude, CopyInv, CopyTypes, Props
<1>. QED
  BY <1>2, <1>3, <1>4

LEMMA BringDownKeepsLoss ==
  ASSUME CopyInv, BringDown
  PROVE  LossInv'
BY BringDownSays DEF LossInv, Adds

LEMMA BringUpKeepsLoss ==
  ASSUME CopyInv, BringUp
  PROVE  LossInv'
BY DEF BringUp, LossInv, CopyInv, CopyTypes, Props, Names

LEMMA UserKeepsLoss ==
  ASSUME CopyInv, CallbackInv, LossInv, User
  PROVE  LossInv'
<1>1. CASE Lost \/ ClearOnDisconnected
  BY <1>1 DEF Lost, ClearOnDisconnected, LossInv
<1>2. CASE CheckResolved
  <2>1. cache'["Connected"] = cache["Connected"]
    BY <1>2 DEF CheckResolved, Fetch, CopyInv, CopyTypes, Props, Names
  <2>. QED
    BY <1>2, <2>1, LossFrame DEF CheckResolved, bluezVars, callbackVars
<1>3. CASE AttemptConnect
  <2>1. BringUp \/ UNCHANGED bluezVars
    BY <1>3 DEF AttemptConnect
  <2>2. CASE UNCHANGED bluezVars
    BY <1>3, <2>2, LossFrame DEF AttemptConnect, bluezVars, copyVars, callbackVars
  <2>. QED
    BY <2>1, <2>2, BringUpKeepsLoss
<1>4. CASE AttemptDisconnect
  <2>1. BringDown \/ UNCHANGED bluezVars
    BY <1>4 DEF AttemptDisconnect
  <2>2. CASE UNCHANGED bluezVars
    BY <1>4, <2>2, LossFrame DEF AttemptDisconnect, bluezVars, copyVars
  <2>. QED
    BY <2>1, <2>2, BringDownKeepsLoss
<1>5. CASE \/ SetOnDisconnected \/ DisconnectCleanup \/ ReadWrite \/ ReadWriteDescriptor \/ Mtu
           \/ Notify \/ StartNotify \/ Unsubscribe \/ ParseData \/ GetManufacturerData
  <2>1. UNCHANGED <<device, signals, cache, async, owed>> /\ user.at \notin {"lost", "fetched"}
    BY <1>5 DEF SetOnDisconnected, DisconnectCleanup, ReadWrite, ReadWriteDescriptor, Transfer, Mtu,
       Notify, StartNotify, Unsubscribe, ParseData, GetManufacturerData, bluezVars, copyVars,
       callbackVars
  <2>. QED
    BY <2>1, LossFrame
<1>6. CASE \/ ScanFor \/ ClearSeen \/ Listen \/ DiscoveryStart \/ Scanning \/ ScanStop
           \/ ScanIsActive \/ ScanGetResults \/ GetAdapters
  <2>1. UNCHANGED <<device, signals, cache, async, owed>> /\ user.at \notin {"lost", "fetched"}
    BY <1>6 DEF ScanFor, ClearSeen, Listen, DiscoveryStart, Scanning, ScanStop, ScanIsActive,
       ScanGetResults, GetAdapters, bluezVars, copyVars, callbackVars
  <2>. QED
    BY <2>1, LossFrame
<1>7. CASE GetPaired
  <2>1. CASE owed' = FALSE
    BY <2>1 DEF LossInv
  <2>2. CASE UNCHANGED owed
    BY <1>7, <2>2, LossFrame DEF GetPaired, bluezVars, copyVars
  <2>. QED
    BY <1>7, <2>1, <2>2 DEF GetPaired
<1>8. CASE FetchData
  <2>1. cache'["Connected"] = cache["Connected"]
    BY <1>8 DEF FetchData, Fetch, CopyInv, CopyTypes, Props, Names
  <2>. QED
    BY <1>8, <2>1, LossFrame DEF FetchData, bluezVars, callbackVars
<1>. QED
  BY <1>1, <1>2, <1>3, <1>4, <1>5, <1>6, <1>7, <1>8, CheckKeepsLoss, CheckChangedKeepsLoss,
     LookKeepsLoss DEF User, UserStep

\* A signal that says the link is down is handled: the thread goes to tell.
LEMMA TakeKeepsLoss ==
  ASSUME CopyInv, LossInv, Take
  PROVE  LossInv'
<1>. DEFINE s == Head(signals)
<1>1. UNCHANGED <<device, user, owed>>
  BY DEF Take, programVars, callbackVars
<1>2. SUFFICES ASSUME owed, ~device["Connected"]
               PROVE  Told(signals', "Connected", FALSE) \/ Telling' \/ Fetched'
  BY <1>1 DEF LossInv
<1>3. /\ s \in Sent /\ signals # <<>> /\ signals' = Tail(signals) /\ async = "idle"
      /\ SaysGone(s) \/ SaysNew(s) => UNCHANGED cache
      /\ ~SaysGone(s) /\ ~SaysNew(s) => Store(s)
      /\ SaysDown(s) \/ SaysUp(s) => async' = "connectedChanged"
  BY TakeStores
<1>4. SaysDown(s) \/ SaysGone(s) \/ SaysUp(s) \/ SaysNew(s) \/ SaysResolved(s) \/ SaysData(s)
  BY <1>3, SentSays
<1>5. Follows("Connected") /\ device["Connected"] = FALSE
  BY <1>2 DEF CopyInv, CopyTypes, Props, Names
<1>6. /\ Latest(signals, "Connected", FALSE) /\ "Connected" \in DOMAIN s /\ s["Connected"] # FALSE
           => Told(signals', "Connected", FALSE)
      /\ Told(signals, "Connected", FALSE)
           => \/ Told(signals', "Connected", FALSE)
              \/ "Connected" \in DOMAIN s /\ s["Connected"] = FALSE
  BY <1>3, TailKeeps DEF CopyInv, CopyTypes
<1>. HIDE DEF s
<1>7. CASE SaysDown(s)
  <2>1. ~SaysGone(s) /\ ~SaysNew(s) /\ "Connected" \in Changed(s) /\ s["Connected"] = FALSE
    BY <1>7, DeviceAssumption DEF SaysDown, SaysGone, SaysNew, Changed, Gone
  <2>2. cache'["Connected"] = FALSE
    BY <1>3, <2>1 DEF Store, Names
  <2>. QED
    BY <1>3, <1>7, <2>2 DEF Telling
<1>8. CASE SaysUp(s)
  BY <1>5, <1>6, <1>8, DeviceAssumption DEF SaysUp, Follows
<1>9. CASE ~SaysDown(s) /\ ~SaysUp(s)
  <2>1. "Connected" \notin DOMAIN s
    BY <1>4, <1>9 DEF SaysGone, SaysNew, SaysResolved, SaysData
  <2>2. cache'["Connected"] = cache["Connected"]
    BY <1>3, <2>1 DEF Store, Changed, Names
  <2>. QED
    BY <1>1, <1>2, <1>3, <1>6, <2>1, <2>2 DEF LossInv, Telling, Fetched
<1>. QED
  BY <1>7, <1>8, <1>9

LEMMA AsyncKeepsLoss ==
  ASSUME CopyInv, CallbackInv, LossInv, Async
  PROVE  LossInv'
<1>1. CASE ConnectedChanged
  <2>1. /\ UNCHANGED <<device, signals, cache, user, owed>>
        /\ async = "connectedChanged"
        /\ async' = IF ~cache["Connected"] /\ onDisconnected THEN "enter" ELSE "updated"
    BY <1>1 DEF ConnectedChanged, bluezVars, copyVars, programVars, callbackVars
  <2>2. owed => onDisconnected
    BY DEF CallbackInv
  <2>. QED
    BY <2>1, <2>2 DEF LossInv, Telling, Fetched
<1>2. CASE EnterCallback
  <2>1. CASE onDisconnected
    BY <1>2, <2>1 DEF EnterCallback, LossInv
  <2>2. CASE ~onDisconnected
    BY <1>2, <2>2 DEF EnterCallback, LossInv, CallbackInv
  <2>. QED
    BY <2>1, <2>2
<1>3. CASE Report \/ DataChanged \/ OnDeviceUpdated \/ Deliver
  <2>1. /\ UNCHANGED <<device, signals, cache, user, owed>>
        /\ async \notin {"connectedChanged", "enter"}
    BY <1>3 DEF Report, DataChanged, OnDeviceUpdated, Deliver, bluezVars, copyVars, programVars,
       callbackVars
  <2>. QED
    BY <2>1, LossFrame
<1>. QED
  BY <1>1, <1>2, <1>3, TakeKeepsLoss DEF Async, AsyncStep

LEMMA EnvironmentKeepsLoss ==
  ASSUME CopyInv, LossInv, Environment
  PROVE  LossInv'
<1>1. UNCHANGED <<cache, async, user, owed>> /\ Props(device) /\ signals \in Seq(Sent)
  BY DEF Environment, copyVars, programVars, CopyInv, CopyTypes
<1>2. CASE Resolve
  <2>1. device' = [device EXCEPT !.ServicesResolved = TRUE] /\ device["Connected"]
    BY <1>2 DEF Resolve
  <2>2. device'["Connected"]
    BY <1>1, <2>1 DEF Props, Names
  <2>. QED
    BY <2>2 DEF LossInv
<1>3. ASSUME NEW d \in Contents, Advertise(d) PROVE LossInv'
  <2>. DEFINE s == [n \in {"ManufacturerData"} |-> d]
  <2>1. device'["Connected"] = device["Connected"] /\ signals' = signals \o <<s>>
    BY <1>1, <1>3 DEF Advertise, Emit, Props, Names
  <2>2. s \in Sent /\ "Connected" \notin DOMAIN s
    BY DEF Sent
  <2>. HIDE DEF s
  <2>3. Keeps(signals, signals', "Connected")
    BY <1>1, <2>1, <2>2, OneSignal
  <2>. QED
    BY <1>1, <2>1, <2>3 DEF LossInv, Telling, Fetched, Keeps
<1>. QED
  BY <1>2, <1>3, BringDownKeepsLoss DEF Environment, Contents

\* A program that was told it is connected is told of the loss of its link, or news
\* of it are on their way (PeripheralBase.cpp:79-90, Device1.cpp:108-112).
THEOREM LossIsNotMissedHolds == Spec => []LossIsNotMissed
<1>1. Init => LossInv
  BY DEF Init, PeripheralInit, LossInv
<1>2. ASSUME CopyInv, CallbackInv, LossInv, [Next]_vars PROVE LossInv'
  <2>1. CASE Power \/ UNCHANGED vars
    BY <1>2, <2>1, LossFrame DEF Power, peripheralVars, bluezVars, copyVars, programVars,
       callbackVars, vars
  <2>. QED
    BY <1>2, <2>1, CallsKeepLoss, UserKeepsLoss, AsyncKeepsLoss, EnvironmentKeepsLoss DEF Next
<1>3. CopyInv /\ LossInv => LossIsNotMissed
  <2>1. CopyInv => (~device.Connected <=> ~device["Connected"])
    OBVIOUS
  <2>. QED
    BY <2>1, NewsAre DEF LossInv, LossIsNotMissed
<1>. QED
  BY <1>1, <1>2, <1>3, SpecCopy, SpecCallback, PTL DEF Spec

(***************************************************************************)
(* What the types and bounds of the adapter and the peripheral are.        *)
(***************************************************************************)

\* The attempts and waits of a call: one more attempt begins only while there is
\* one left.
CountsInv ==
  /\ user \in Users
  /\ user.tries <= MaxAttempts /\ user.wakes <= MaxWakes
  /\ user.at \in {"clear", "cleanup", "call"} => user.tries < MaxAttempts

QueueInv ==
  /\ Len(signals) <= MaxSignals
  /\ losses \in 0 .. MaxLosses /\ calls \in 0 .. MaxCalls

FlagsInv ==
  /\ valueCallback \in BOOLEAN /\ notifying \in BOOLEAN
  /\ powered \in BOOLEAN /\ discovering \in BOOLEAN /\ isScanning \in BOOLEAN
  /\ onUpdated \in BOOLEAN /\ seen \in BOOLEAN

LEMMA BoundsInit == Init => CountsInv /\ QueueInv /\ FlagsInv
<1>. SUFFICES ASSUME Init PROVE CountsInv /\ QueueInv /\ FlagsInv
  OBVIOUS
<1>1. CountsInv
  BY IdleUser, PeripheralAssumption DEF Init, PeripheralInit, CountsInv
<1>2. signals = <<>> /\ losses = 0 /\ calls = 0
  BY DEF Init, PeripheralInit, DeviceInit
<1>3. QueueInv
  BY <1>2, PeripheralAssumption, DeviceAssumption DEF QueueInv
<1>4. FlagsInv
  BY DEF Init, PeripheralInit, FlagsInv
<1>. QED
  BY <1>1, <1>3, <1>4

\* A call that goes on without another attempt.
LEMMA GotoKeepsCounts ==
  ASSUME CountsInv, NEW at \in Places, at \notin {"clear", "cleanup"},
         at = "call" => user.at \in {"clear", "cleanup"}, Goto(at)
  PROVE  CountsInv'
BY GotoAt DEF CountsInv

LEMMA AnswerKeepsCounts ==
  ASSUME CountsInv, user' = Idle
  PROVE  CountsInv'
BY IdleUser, PeripheralAssumption DEF CountsInv

\* A call that begins has made no attempt.
LEMMA CallsKeepCounts ==
  ASSUME CountsInv, ProgramCalls
  PROVE  CountsInv'
<1>1. UNCHANGED user => CountsInv'
  BY DEF CountsInv
<1>2. ASSUME user' \in Users, user'.tries = 0, user'.wakes = 0
      PROVE  CountsInv'
  BY <1>2, PeripheralAssumption DEF CountsInv
<1>3. ASSUME NEW h \in {Null, Handle}, NEW op \in PeripheralOps, Call(op, h)
      PROVE  CountsInv'
  BY <1>1, <1>2, <1>3, CallAt, EntryPlaces DEF Call
<1>4. ASSUME NEW h \in {Null, Handle}, NEW op \in AdapterOps, CallAdapter(op, h)
      PROVE  CountsInv'
  BY <1>1, <1>2, <1>4, CallAt, EntryPlaces DEF CallAdapter
<1>5. CASE \/ \E op \in Getters, h \in {Null, Handle} : Get(op, h)
           \/ \E h \in {Null, Handle} : AskAdapter(h)
  BY <1>1, <1>5, AtOnceFrame
<1>. QED
  BY <1>3, <1>4, <1>5 DEF ProgramCalls

\* The result of is_connected leads to an answer, a wait or, with one left, an attempt.
LEMMA ConcludeKeepsCounts ==
  ASSUME CountsInv, NEW connected \in BOOLEAN, Conclude(connected)
  PROVE  CountsInv'
<1>1. {"call", "load", "cleanup", "check"} \subseteq Places
  BY PlaceNames
<1>2. CASE WaitEnds(connected, TRUE, "call", "load")
  <2>1. /\ user' \in Users /\ user'.tries = user.tries /\ user'.wakes <= MaxWakes
        /\ user'.at \in {"load", "check"} \/ user.tries < MaxAttempts
    BY <1>1, <1>2, WaitAt DEF CountsInv
  <2>. QED
    BY <2>1 DEF CountsInv
<1>3. CASE WaitEnds(connected, FALSE, "cleanup", "check")
  <2>1. /\ user' \in Users /\ user'.tries = user.tries /\ user'.wakes <= MaxWakes
        /\ user'.at = "check" \/ user.tries < MaxAttempts
    BY <1>1, <1>3, WaitAt DEF CountsInv
  <2>. QED
    BY <2>1 DEF CountsInv
<1>4. CASE \E reply : Answer(reply)
  BY <1>4, AnswerAt, AnswerKeepsCounts
<1>5. CASE Goto("operation")
  BY <1>5, GotoKeepsCounts, PlaceNames
<1>. QED
  BY <1>2, <1>3, <1>4, <1>5 DEF Conclude, Did

LEMMA UserKeepsCounts ==
  ASSUME CountsInv, cache.ServicesResolved \in BOOLEAN, User
  PROVE  CountsInv'
<1>1. CASE Check \/ CheckChanged \/ Lost \/ CheckResolved \/ FetchData \/ ParseData
  <2>1. \E at \in {"fetched", "lost", "look", "lookResolved", "parse", "parsed"} : Goto(at)
    BY <1>1 DEF Check, CheckChanged, Lost, CheckResolved, FetchData, ParseData
  <2>. QED
    BY <2>1, GotoKeepsCounts, PlaceNames
<1>2. CASE Look
  BY <1>2, ConcludeKeepsCounts, GotoKeepsCounts, PlaceNames DEF Look
<1>3. CASE ClearOnDisconnected \/ DisconnectCleanup
  BY <1>3, GotoKeepsCounts, PlaceNames DEF ClearOnDisconnected, DisconnectCleanup
<1>4. CASE SetOnDisconnected
  BY <1>4, GotoKeepsCounts, PlaceNames DEF SetOnDisconnected
<1>5. CASE AttemptConnect
  <2>1. user.at = "call" /\ user.tries < MaxAttempts /\ user.tries \in Nat /\ MaxAttempts \in Nat
    BY <1>5, PeripheralAssumption DEF AttemptConnect, CountsInv, Users
  <2>2. user \in Users
    BY DEF CountsInv
  <2>3. /\ user' \in Users /\ user'.wakes = user.wakes /\ user'.tries = user.tries + 1
        /\ user'.at \notin {"clear", "cleanup"}
        /\ user'.at = "call" => user'.tries < MaxAttempts
    BY <1>5, <2>2, AttemptConnectAt
  <2>. QED
    BY <2>1, <2>3 DEF CountsInv
<1>6. CASE AttemptDisconnect
  <2>1. user.at = "call" /\ user.tries < MaxAttempts /\ user.tries \in Nat /\ MaxAttempts \in Nat
    BY <1>6, PeripheralAssumption DEF AttemptDisconnect, CountsInv, Users
  <2>2. CASE /\ user' \in Users /\ user'.wakes = user.wakes /\ user'.tries = user.tries + 1
             /\ user'.at = "check"
    BY <2>1, <2>2 DEF CountsInv
  <2>. QED
    BY <1>6, <2>2, AttemptDisconnectAt, AnswerKeepsCounts DEF CountsInv
<1>7. CASE \/ ReadWrite \/ ReadWriteDescriptor \/ Mtu \/ Notify \/ StartNotify \/ Unsubscribe
           \/ GetManufacturerData
  <2>1. Goto("start") \/ \E reply : Answer(reply)
    BY <1>7 DEF ReadWrite, ReadWriteDescriptor, Transfer, Mtu, Notify, StartNotify,
       Unsubscribe, GetManufacturerData, Refuse, Did
  <2>. QED
    BY <2>1, AnswerAt, AnswerKeepsCounts, GotoKeepsCounts, PlaceNames
<1>8. CASE \/ ScanFor \/ ClearSeen \/ Listen \/ DiscoveryStart \/ Scanning \/ ScanStop
           \/ ScanIsActive \/ ScanGetResults \/ GetAdapters \/ GetPaired
  <2>1. \/ \E at \in {"clearSeen", "listen", "discover", "scanning", "stop"} : Goto(at)
        \/ \E reply : Answer(reply)
    BY <1>8 DEF ScanFor, ClearSeen, Listen, DiscoveryStart, Scanning, Started, AdapterAnswer,
       ScanStop, ScanIsActive, ScanGetResults, GetAdapters, GetPaired
  <2>. QED
    BY <2>1, AnswerAt, AnswerKeepsCounts, GotoKeepsCounts, PlaceNames
<1>. QED
  BY <1>1, <1>2, <1>3, <1>4, <1>5, <1>6, <1>7, <1>8 DEF User, UserStep

LEMMA NextKeepsCounts ==
  ASSUME CopyInv, CountsInv, [Next]_vars
  PROVE  CountsInv'
<1>1. cache.ServicesResolved \in BOOLEAN
  BY DEF CopyInv, CopyTypes, Props
<1>2. CASE Async \/ Environment \/ Power \/ UNCHANGED vars
  <2>1. UNCHANGED user
    BY <1>2 DEF Async, AsyncStep, Take, ConnectedChanged, EnterCallback, Report, DataChanged,
       OnDeviceUpdated, Deliver, Environment, Power, vars, peripheralVars, programVars
  <2>. QED
    BY <2>1 DEF CountsInv
<1>. QED
  BY <1>1, <1>2, CallsKeepCounts, UserKeepsCounts DEF Next

\* A burst of signals fits, or it is not sent; a signal that is taken makes room.
LEMMA NextKeepsQueue ==
  ASSUME CopyInv, QueueInv, [Next]_vars
  PROVE  QueueInv'
<1>1. signals \in Seq(Sent) /\ Len(signals) \in Nat
  BY DEF CopyInv, CopyTypes
<1>2. /\ MaxSignals \in Nat /\ MaxLosses \in Nat /\ MaxCalls \in Nat
      /\ losses \in 0 .. MaxLosses /\ calls \in 0 .. MaxCalls
  BY PeripheralAssumption, DeviceAssumption DEF QueueInv
<1>3. ASSUME NEW burst \in Seq(Sent), Emit(burst)
      PROVE  Len(signals') <= MaxSignals
  BY <1>1, <1>2, <1>3 DEF Emit
<1>4. LinkDown \in Seq(Sent) /\ Up \in Seq(Sent) /\ Resolved \in Seq(Sent)
  BY DEF LinkDown, Up, Resolved, Sent
<1>5. BringUp \/ Resolve \/ (\E d \in Contents : Advertise(d))
        => Len(signals') <= MaxSignals /\ UNCHANGED losses
  <2>1. ASSUME NEW d \in Contents PROVE <<[n \in {"ManufacturerData"} |-> d]>> \in Seq(Sent)
    BY DEF Sent
  <2>. QED
    BY <1>3, <1>4, <2>1 DEF BringUp, Resolve, Advertise
<1>6. BringDown => Len(signals') <= MaxSignals /\ losses' \in 0 .. MaxLosses
  BY <1>2, <1>3, <1>4 DEF BringDown
<1>7. CASE Environment
  BY <1>2, <1>5, <1>6, <1>7 DEF Environment, Contents, programVars, QueueInv
<1>8. CASE ProgramCalls
  <2>1. UNCHANGED bluezVars
    BY <1>8, AtOnceFrame DEF ProgramCalls, Call, CallAdapter
  <2>2. calls < MaxCalls /\ calls' = calls + 1
    BY <1>8 DEF ProgramCalls, Call, Get, CallAdapter, AskAdapter
  <2>. QED
    BY <1>2, <2>1, <2>2 DEF bluezVars, QueueInv
<1>9. CASE AttemptConnect
  BY <1>2, <1>5, <1>9 DEF AttemptConnect, bluezVars, QueueInv
<1>10. CASE AttemptDisconnect
  BY <1>2, <1>6, <1>10 DEF AttemptDisconnect, bluezVars, QueueInv, Did, Answer
<1>11. CASE /\ UserStep \/ ScanFor \/ ClearSeen \/ Listen \/ DiscoveryStart \/ Scanning
               \/ ScanStop \/ ScanIsActive \/ ScanGetResults \/ GetAdapters \/ GetPaired
            /\ ~AttemptConnect /\ ~AttemptDisconnect
  <2>1. UNCHANGED bluezVars
    BY <1>11 DEF UserStep, Check, CheckChanged, Lost, CheckResolved, Look,
       ClearOnDisconnected, SetOnDisconnected, DisconnectCleanup, ReadWrite, ReadWriteDescriptor,
       Transfer, Mtu, Notify, StartNotify, Unsubscribe, FetchData, ParseData, GetManufacturerData,
       ScanFor, ClearSeen, Listen, DiscoveryStart, Scanning,
       ScanStop, ScanIsActive, ScanGetResults, GetAdapters, GetPaired
  <2>2. UNCHANGED calls
    BY <1>11 DEF UserStep, Check, CheckChanged, Lost, CheckResolved, Look, Conclude, WaitEnds,
       TimedOut, WaitOn, Retry, Final, ClearOnDisconnected,
       SetOnDisconnected, DisconnectCleanup, ReadWrite, ReadWriteDescriptor, Transfer, Mtu,
       Notify, StartNotify, Unsubscribe, FetchData, ParseData, GetManufacturerData, ScanFor, ClearSeen, Listen, DiscoveryStart, Scanning,
       ScanStop, ScanIsActive, ScanGetResults, GetAdapters, GetPaired, Started, AdapterAnswer,
       Goto, Answer, Did, Refuse
  <2>. QED
    BY <2>1, <2>2 DEF bluezVars, QueueInv
<1>12. CASE Take
  <2>1. Len(Tail(signals)) <= MaxSignals
    BY <1>1, <1>2, <1>12 DEF Take, QueueInv
  <2>. QED
    BY <1>12, <2>1 DEF Take, programVars, QueueInv
<1>13. CASE \/ ConnectedChanged \/ EnterCallback \/ Report \/ DataChanged \/ OnDeviceUpdated
            \/ Deliver \/ Power \/ UNCHANGED vars
  BY <1>13 DEF ConnectedChanged, EnterCallback, Report, DataChanged, OnDeviceUpdated, Deliver,
     Power, vars, peripheralVars, programVars, bluezVars, QueueInv
<1>. QED
  BY <1>7, <1>8, <1>9, <1>10, <1>11, <1>12, <1>13 DEF Next, User, Async, AsyncStep

LEMMA NextKeepsFlags ==
  ASSUME FlagsInv, [Next]_vars
  PROVE  FlagsInv'
<1>1. Cleanup => valueCallback' \in BOOLEAN /\ notifying' \in BOOLEAN
  BY DEF Cleanup, FlagsInv
<1>2. CASE ProgramCalls
  <2>1. UNCHANGED <<callbackVars, adapterVars>>
    BY <1>2, AtOnceFrame DEF ProgramCalls, Call, CallAdapter, AskAdapter
  <2>. QED
    BY <2>1 DEF callbackVars, adapterVars, FlagsInv
<1>3. CASE UserStep /\ UNCHANGED adapterVars
  <2>1. valueCallback' \in BOOLEAN /\ notifying' \in BOOLEAN
    BY <1>1, <1>3 DEF UserStep, Check, CheckChanged, Lost, CheckResolved, Look,
       ClearOnDisconnected, AttemptConnect, SetOnDisconnected, DisconnectCleanup,
       AttemptDisconnect, ReadWrite, ReadWriteDescriptor, Transfer, Mtu, Notify, StartNotify,
       Unsubscribe, FetchData, ParseData, GetManufacturerData, callbackVars, FlagsInv
  <2>. QED
    BY <1>3, <2>1 DEF adapterVars, FlagsInv
<1>4. CASE ScanFor \/ ClearSeen \/ Listen \/ DiscoveryStart \/ Scanning
  BY <1>4 DEF ScanFor, ClearSeen, Listen, DiscoveryStart, Scanning, callbackVars, adapterVars, FlagsInv
<1>5. CASE ScanStop \/ ScanIsActive \/ ScanGetResults \/ GetAdapters
  BY <1>5 DEF ScanStop, ScanIsActive, ScanGetResults, GetAdapters, callbackVars, adapterVars, FlagsInv
<1>6. CASE GetPaired
  BY <1>1, <1>6 DEF GetPaired, adapterVars, FlagsInv
<1>7. CASE Async
  BY <1>1, <1>7 DEF Async, AsyncStep, Take, ConnectedChanged, EnterCallback, Report, DataChanged,
     OnDeviceUpdated, Deliver, callbackVars, adapterVars, FlagsInv
<1>8. CASE Environment /\ UNCHANGED adapterVars
  BY <1>8 DEF Environment, adapterVars, FlagsInv
<1>9. CASE Power \/ UNCHANGED vars
  BY <1>9 DEF Power, vars, peripheralVars, callbackVars, adapterVars, FlagsInv
<1>. QED
  BY <1>2, <1>3, <1>4, <1>5, <1>6, <1>7, <1>8, <1>9 DEF Next, User

\* The properties of a device, as a record.
LEMMA PropsRecord ==
  ASSUME NEW f, Props(f)
  PROVE  f \in [Connected : BOOLEAN, ServicesResolved : BOOLEAN, ManufacturerData : Contents]
BY DEF Props, Names

\* The state of the peripheral and the adapter is well formed; a call makes MaxAttempts
\* attempts at the most (PeripheralBase.cpp:69-75, 98-104), and waits and signals stay
\* within their bounds.
THEOREM LinuxTypes == Spec => []TypeOK
<1>1. ASSUME CopyInv, CallbackInv, CountsInv, QueueInv, FlagsInv
      PROVE  TypeOK
  <2>1. /\ device \in [Connected : BOOLEAN, ServicesResolved : BOOLEAN, ManufacturerData : Contents]
        /\ cache \in [Connected : BOOLEAN, ServicesResolved : BOOLEAN, ManufacturerData : Contents]
    BY <1>1, PropsRecord DEF CopyInv, CopyTypes
  <2>2. valid \subseteq Names /\ parsed \in Contents /\ services \in BOOLEAN
    BY <1>1 DEF CopyInv, CopyTypes
  <2>3. /\ Len(signals) <= MaxSignals /\ losses <= MaxLosses /\ calls <= MaxCalls
        /\ user.tries <= MaxAttempts /\ user.wakes <= MaxWakes
    BY <1>1 DEF QueueInv, CountsInv
  <2>4. reporter \in {"none", "async"} /\ reporter = "async" <=> async = "report"
    BY <1>1 DEF CallbackInv
  <2>5. /\ {onDisconnected, valueCallback, notifying, owed} \subseteq BOOLEAN
        /\ {powered, discovering, isScanning, onUpdated, seen} \subseteq BOOLEAN
    BY <1>1 DEF CallbackInv, FlagsInv
  <2>. QED
    BY <2>1, <2>2, <2>3, <2>4, <2>5 DEF TypeOK, Contents
<1>2. ASSUME CopyInv, CountsInv, QueueInv, FlagsInv, [Next]_vars
      PROVE  CountsInv' /\ QueueInv' /\ FlagsInv'
  BY <1>2, NextKeepsCounts, NextKeepsQueue, NextKeepsFlags
<1>. QED
  BY <1>1, <1>2, BoundsInit, SpecCopy, SpecCallback, PTL DEF Spec
=============================================================================
