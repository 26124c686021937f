--------------------------- MODULE WindowsProofs ---------------------------
(***************************************************************************)
(* Proofs about the Windows backend: when the flag of a scan is right,     *)
(* that no advertisement wipes out what another said, and its types and    *)
(* bounds.                                                                 *)
(***************************************************************************)
EXTENDS WindowsAdapter, TLAPS

Ops == PeripheralOps \cup AdapterOps \cup {"none"}
Places == Ops \cup
  {"idle", "attempt", "services", "connected", "register", "announce", "close", "closing",
   "asleepClosing", "startNotify", "clearSeen", "activate", "start", "stop", "stopping",
   "asleepStopping"}
Users == [op : Ops, at : Places, tries : Nat]

\* FlagFollowsWatcher, and what is left of it between the flag and Start: the only
\* event that can have reset it there is a late one.
ScanInv ==
  /\ user \in Users /\ stops \in Nat
  /\ FlagFollowsWatcher
  /\ user.at = "start" => scanIsActive \/ wrong = "lateStop"

\* A step that leaves the scan alone and neither gets to Start nor leaves it.
LEMMA ScanFrame ==
  ASSUME ScanInv, UNCHANGED scanVars, user' \in Users, user'.at = "start" <=> user.at = "start"
  PROVE  ScanInv'
BY DEF ScanInv, FlagFollowsWatcher, scanVars

LEMMA IdleUser == Idle \in Users /\ Idle.at = "idle"
BY DEF Users, Idle, Ops, Places

LEMMA UserTypes ==
  ASSUME user \in Users
  PROVE  /\ \A at \in Places : [user EXCEPT !.at = at] \in Users
         /\ \A at \in Places : [user EXCEPT !.at = at].at = at
BY DEF Users

LEMMA PlaceNames ==
  /\ {"idle", "attempt", "services", "connected", "register", "announce", "close", "closing",
      "asleepClosing", "startNotify", "clearSeen", "activate", "start", "stop", "stopping",
      "asleepStopping"} \subseteq Places
  /\ Ops \subseteq Places
  /\ "start" \notin Ops
BY DEF Places, Ops, PeripheralOps, AdapterOps

LEMMA ScanInit == Init => ScanInv
BY IdleUser DEF Init, PeripheralInit, ScanInv, FlagFollowsWatcher

\* How a call goes on.
LEMMA GotoAt ==
  ASSUME user \in Users, NEW at \in Places, Goto(at)
  PROVE  user' \in Users /\ user'.at = at
BY UserTypes DEF Goto

LEMMA AnswerAt ==
  ASSUME user \in Users, NEW reply, Answer(reply)
  PROVE  user' \in Users /\ user'.at = "idle"
BY IdleUser DEF Answer

LEMMA DidAt ==
  ASSUME user \in Users, NEW outcome, Did(outcome) \/ AdapterAnswer(outcome)
  PROVE  user' \in Users /\ user'.at = "idle"
BY AnswerAt DEF Did, AdapterAnswer

LEMMA FailedAt ==
  ASSUME user \in Users, NEW tries \in Nat, Failed(tries)
  PROVE  user' \in Users /\ user'.at \in {"attempt", "connected"}
BY PlaceNames DEF Users, Failed

LEMMA StartedAt ==
  ASSUME user \in Users, NEW outcome, Started(outcome)
  PROVE  user' \in Users /\ user'.at \in {"stop", "idle"}
BY GotoAt, DidAt, PlaceNames DEF Started

LEMMA CallAt ==
  ASSUME user \in Users, NEW op \in Ops, NEW handle, NEW entry \in Places,
         Call(op, handle, entry), entry # "start"
  PROVE  user.at = "idle" /\ user' \in Users /\ user'.at # "start"
<1>1. CASE handle = Null
  BY <1>1, IdleUser DEF Call
<1>2. CASE handle # Null
  BY <1>2, IdleUser DEF Call, Users
<1>. QED
  BY <1>1, <1>2

LEMMA CallsKeepScan ==
  ASSUME ScanInv, ProgramCalls
  PROVE  ScanInv'
<1>1. user \in Users /\ UNCHANGED scanVars
  BY DEF ScanInv, ProgramCalls, adapterVars
<1>2. CASE \E op \in PeripheralOps : \E h \in {Null, Handle} : Call(op, h, Entry(op))
  <2>1. PICK op \in PeripheralOps, h \in {Null, Handle} : Call(op, h, Entry(op))
    BY <1>2
  <2>2. op \in Ops /\ Entry(op) \in Places /\ Entry(op) # "start"
    BY PlaceNames DEF Ops, PeripheralOps, Entry
  <2>. QED
    BY <1>1, <2>1, <2>2, CallAt, ScanFrame
<1>3. CASE \E op \in AdapterOps, h \in {Null, Handle} : Call(op, h, AdapterEntry(op))
  <2>1. PICK op \in AdapterOps, h \in {Null, Handle} : Call(op, h, AdapterEntry(op))
    BY <1>3
  <2>2. op \in Ops /\ AdapterEntry(op) \in Places /\ AdapterEntry(op) # "start"
    BY PlaceNames DEF Ops, AdapterOps, AdapterEntry
  <2>. QED
    BY <1>1, <2>1, <2>2, CallAt, ScanFrame
<1>4. CASE AtOnce
  BY <1>1, <1>4, ScanFrame DEF AtOnce
<1>. QED
  BY <1>2, <1>3, <1>4 DEF ProgramCalls, Get, GetManufacturerData, AskAdapter

\* No step of the peripheral is at a place of the adapter.
LEMMA PeripheralStepAt ==
  ASSUME user \in Users, UserStep \/ Services(Cardinality(peripheral.services))
  PROVE  user' \in Users /\ user.at # "start" /\ user'.at # "start"
<1>1. CASE Attempt
  <2>1. user.tries + 1 \in Nat
    BY DEF Users
  <2>. QED
    BY <1>1, <2>1, GotoAt, FailedAt, DidAt, PlaceNames DEF Attempt
<1>2. CASE AttemptService
  <2>1. user.tries + 1 \in Nat
    BY DEF Users
  <2>. QED
    BY <1>2, <2>1, GotoAt, FailedAt, DidAt, PlaceNames DEF AttemptService, programVars
<1>3. CASE Connected \/ Register \/ Announce \/ Close \/ Closing \/ GiveUp
  BY <1>3, GotoAt, DidAt, PlaceNames DEF Connected, Register, Announce, Close, Closing, GiveUp
<1>4. CASE IsConnected \/ Unsupported \/ Mtu \/ ReadWrite \/ ReadWriteDescriptor
  BY <1>4, AnswerAt, DidAt, PlaceNames
  DEF IsConnected, Unsupported, Mtu, ReadWrite, ReadWriteDescriptor, Transfer
<1>5. CASE Notify \/ StartNotify \/ Unsubscribe
  BY <1>5, GotoAt, DidAt, PlaceNames DEF Notify, StartNotify, Unsubscribe
<1>6. CASE Services(Cardinality(peripheral.services))
  BY <1>6, AnswerAt DEF Services
<1>. QED
  BY <1>1, <1>2, <1>3, <1>4, <1>5, <1>6 DEF UserStep

LEMMA UserKeepsScan ==
  ASSUME ScanInv, User
  PROVE  ScanInv'
<1>1. user \in Users
  BY DEF ScanInv
<1>2. CASE (UserStep \/ Services(Cardinality(peripheral.services))) /\ UNCHANGED adapterVars
  BY <1>1, <1>2, PeripheralStepAt, ScanFrame DEF adapterVars
<1>3. CASE ScanFor \/ Stopping \/ StopWaiting \/ Ask
  <2>1. user' \in Users /\ user.at # "start" /\ user'.at # "start"
    BY <1>1, <1>3, GotoAt, DidAt, AnswerAt, PlaceNames DEF ScanFor, Stopping, StopWaiting, Ask, IfEnabled
  <2>2. UNCHANGED scanVars
    BY <1>3 DEF ScanFor, Stopping, StopWaiting, Ask, adapterVars
  <2>. QED
    BY <2>1, <2>2, ScanFrame
<1>4. CASE ClearSeen
  BY <1>1, <1>4, GotoAt, StartedAt, PlaceNames, ScanFrame DEF ClearSeen
<1>5. CASE Activate
  BY <1>1, <1>5, GotoAt, PlaceNames DEF Activate, ScanInv, FlagFollowsWatcher
<1>6. CASE Start
  <2>1. user' \in Users /\ user.at = "start" /\ user'.at # "start"
    BY <1>1, <1>6, StartedAt, DidAt DEF Start
  <2>2. stops' \in Nat /\ UNCHANGED scanIsActive
    BY <1>6 DEF Start, ScanInv
  <2>3. CASE watching' = TRUE /\ UNCHANGED wrong
    BY <2>1, <2>2, <2>3 DEF ScanInv, FlagFollowsWatcher
  <2>4. CASE UNCHANGED watching /\ wrong' = IF watching THEN wrong ELSE "failedStart"
    BY <2>1, <2>2, <2>4 DEF ScanInv, FlagFollowsWatcher
  <2>. QED
    BY <1>6, <2>3, <2>4 DEF Start
<1>7. CASE Stop
  <2>1. user' \in Users /\ user.at = "stop" /\ user'.at # "start"
    BY <1>1, <1>7, GotoAt, DidAt, PlaceNames DEF Stop, IfEnabled
  <2>. QED
    BY <1>7, <2>1 DEF Stop, StopWatching, ScanInv, FlagFollowsWatcher
<1>. QED
  BY <1>2, <1>3, <1>4, <1>5, <1>6, <1>7 DEF User

\* A Stopped event wakes scan_stop, the event of a lost link disconnect.
LEMMA HandlersKeepScan ==
  ASSUME ScanInv, Handlers
  PROVE  ScanInv'
<1>1. user \in Users
  BY DEF ScanInv
<1>2. CASE HandlerStep /\ UNCHANGED adapterVars
  <2>1. \/ user' = user
        \/ user.at = "asleepClosing" /\ user' = [user EXCEPT !.at = "closing"]
    BY <1>2 DEF HandlerStep, StatusChanged, Report, programVars
  <2>2. user' \in Users /\ (user'.at = "start" <=> user.at = "start")
    BY <1>1, <2>1, UserTypes, PlaceNames
  <2>. QED
    BY <1>2, <2>2, ScanFrame DEF adapterVars
<1>3. CASE ScanStopped
  <2>1. user' \in Users /\ (user'.at = "start" <=> user.at = "start")
    BY <1>1, <1>3, UserTypes, PlaceNames DEF ScanStopped
  <2>. QED
    BY <1>3, <2>1 DEF ScanStopped, ScanInv, FlagFollowsWatcher
<1>4. CASE ScanReceived \/ ScanFound \/ ScanUpdated
  BY <1>1, <1>4, ScanFrame DEF ScanReceived, ScanFound, ScanUpdated, peripheralVars, programVars
<1>. QED
  BY <1>2, <1>3, <1>4 DEF Handlers

LEMMA ScanStep == ScanInv /\ [Next]_vars => ScanInv'
<1>. SUFFICES ASSUME ScanInv, [Next]_vars PROVE ScanInv'
  OBVIOUS
<1>1. user \in Users
  BY DEF ScanInv
<1>2. CASE LoseLink /\ UNCHANGED adapterVars
  BY <1>1, <1>2, ScanFrame DEF LoseLink, programVars, adapterVars
<1>3. CASE Hear
  BY <1>1, <1>3, ScanFrame DEF Hear, peripheralVars, programVars
<1>4. CASE Power
  BY <1>1, <1>4 DEF Power, StopWatching, peripheralVars, programVars, ScanInv, FlagFollowsWatcher
<1>5. CASE UNCHANGED vars
  BY <1>1, <1>5, ScanFrame DEF vars, peripheralVars, programVars, adapterVars
<1>. QED
  BY <1>2, <1>3, <1>4, <1>5, CallsKeepScan, UserKeepsScan, HandlersKeepScan DEF Next

\* While the watcher runs scan_is_active_ is TRUE, and while it does not the flag is
\* FALSE or about to be, except for a late Stopped event and a Start that threw
\* (AdapterBase.cpp:150-151, 165, 233).
THEOREM FlagFollowsWatcherHolds == Spec => []FlagFollowsWatcher
<1>1. ScanInv => FlagFollowsWatcher
  BY DEF ScanInv
<1>. QED
  BY <1>1, ScanInit, ScanStep, PTL DEF Spec

-----------------------------------------------------------------------------
\* NothingHeardIsForgotten, and what the handler of Received has in hand.
HeardInv ==
  /\ heard \in Seq(Adverts)
  /\ receiver = "received" => received \in Adverts
  /\ NothingHeardIsForgotten

\* update_advertising_data loses no name and no service, and takes those of a over.
LEMMA MergeKeeps ==
  ASSUME NEW p, NEW a
  PROVE  LET merged == UpdateAdvertisingData(p, a)
         IN  /\ p.identifier # NoName \/ a.identifier # NoName => merged.identifier # NoName
             /\ p.services \subseteq merged.services /\ a.services \subseteq merged.services
BY DEF UpdateAdvertisingData

LEMMA ReceivedKeepsHeard ==
  ASSUME HeardInv, ScanReceived
  PROVE  HeardInv'
<1>1. CASE UNCHANGED <<heard, peripheral>>
  <2>1. receiver' # "received"
    BY DEF ScanReceived
  <2>. QED
    BY <1>1, <2>1 DEF HeardInv, NothingHeardIsForgotten
<1>2. CASE heard' = Append(heard, received)
           /\ peripheral' = UpdateAdvertisingData(peripheral, received)
  <2>1. heard \in Seq(Adverts) /\ received \in Adverts /\ UNCHANGED received
    BY DEF HeardInv, ScanReceived
  <2>2. heard' \in Seq(Adverts)
    BY <1>2, <2>1
  <2>3. \A i \in DOMAIN heard' :
          \/ i \in DOMAIN heard /\ heard'[i] = heard[i]
          \/ heard'[i] = received
    BY <1>2, <2>1
  <2>4. NothingHeardIsForgotten'
    BY <1>2, <2>3, MergeKeeps DEF HeardInv, NothingHeardIsForgotten
  <2>. QED
    BY <2>1, <2>2, <2>4 DEF HeardInv
<1>. QED
  BY <1>1, <1>2 DEF ScanReceived

LEMMA HeardInit == Init => HeardInv
BY DEF Init, HeardInv, NothingHeardIsForgotten

LEMMA HeardStep == HeardInv /\ [Next]_vars => HeardInv'
<1>. SUFFICES ASSUME HeardInv, [Next]_vars PROVE HeardInv'
  OBVIOUS
<1>1. CASE UNCHANGED receiverVars
  BY <1>1 DEF receiverVars, HeardInv, NothingHeardIsForgotten
<1>2. CASE Hear
  BY <1>2 DEF Hear, HeardInv, NothingHeardIsForgotten
<1>3. CASE ScanFound \/ ScanUpdated
  BY <1>3 DEF ScanFound, ScanUpdated, HeardInv, NothingHeardIsForgotten
<1>4. ProgramCalls \/ (LoseLink /\ UNCHANGED adapterVars) \/ Power \/ UNCHANGED vars
        => UNCHANGED receiverVars
  BY DEF ProgramCalls, Power, vars, adapterVars
<1>5. User => UNCHANGED receiverVars
  BY DEF User, adapterVars, ScanFor, ClearSeen, Activate, Start, Stop, Stopping, StopWaiting, Ask
<1>6. (HandlerStep /\ UNCHANGED adapterVars) \/ ScanStopped => UNCHANGED receiverVars
  BY DEF ScanStopped, adapterVars
<1>. QED
  BY <1>1, <1>2, <1>3, <1>4, <1>5, <1>6, ReceivedKeepsHeard DEF Next, Handlers

\* A name and services that were received stay known, in whatever order
\* advertisements and responses to a scan arrive (PeripheralBase.cpp:64-80).
THEOREM NothingHeardIsForgottenHolds == Spec => []NothingHeardIsForgotten
<1>1. HeardInv => NothingHeardIsForgotten
  BY DEF HeardInv
<1>. QED
  BY <1>1, HeardInit, HeardStep, PTL DEF Spec

-----------------------------------------------------------------------------
\* A call of connect that has not added its handler.
ToRegister == {"attempt", "services", "connected", "register"}

\* The attempts of a call, and the handlers: one at most for each call of connect,
\* one for each of notify, so a call that is to add one has left room for it.
CallsInv ==
  /\ calls \in 0 .. MaxCalls
  /\ user.tries \in 0 .. MaxAttempts
  /\ user.at \in {"attempt", "services"} => user.tries < MaxAttempts
  /\ handlers \in 0 .. calls /\ valueHandlers \in 0 .. calls
  /\ user.at \in ToRegister => handlers < calls
  /\ user.at = "notify" => valueHandlers < calls

\* Handlers are to run only as far as events counts them.
LinkInv ==
  /\ events \in 0 .. MaxEvents /\ gattMap \in 0 .. Len(Gatt)
  /\ link \in BOOLEAN /\ notifying \in BOOLEAN /\ owed \in BOOLEAN
  /\ status \in {"idle", "report"}

AdapterInv ==
  /\ powered \in BOOLEAN /\ watching \in BOOLEAN /\ scanIsActive \in BOOLEAN /\ seen \in BOOLEAN
  /\ receiver \in {"idle", "received", "found", "updated"}

LEMMA Bounds ==
  /\ MaxEvents \in Nat /\ MaxCalls \in Nat /\ MaxAttempts \in Nat /\ MaxAttempts > 0
  /\ Len(Gatt) \in Nat
<1>1. /\ Gatt \in Seq(Nat) /\ {MaxEvents, MaxLosses, MaxCalls} \subseteq Nat
      /\ MaxAttempts \in Nat \ {0}
  BY PeripheralAssumption
<1>2. Len(Gatt) \in Nat
  BY <1>1
<1>3. MaxEvents \in Nat /\ MaxCalls \in Nat
  BY <1>1
<1>. QED
  BY <1>1, <1>2, <1>3

LEMMA WindowsBoundsInit == Init => CallsInv /\ LinkInv /\ AdapterInv
<1>. SUFFICES ASSUME Init PROVE CallsInv /\ LinkInv /\ AdapterInv
  OBVIOUS
<1>1. CallsInv
  BY Bounds DEF Init, PeripheralInit, Idle, ToRegister, CallsInv
<1>2. 0 \in 0 .. MaxEvents /\ 0 \in 0 .. Len(Gatt)
  BY Bounds
<1>3. LinkInv
  BY <1>2 DEF Init, PeripheralInit, LinkInv
<1>4. AdapterInv
  BY DEF Init, AdapterInv
<1>. QED
  BY <1>1, <1>3, <1>4

\* How a step of a call keeps the counts: it goes to a place where no handler is to be
\* added, or ends, or is the first one.
LEMMA GotoKeepsCounts ==
  ASSUME user \in Users, CallsInv, NEW at \in Places, Goto(at),
         at \notin ToRegister \cup {"notify"}, UNCHANGED <<handlers, valueHandlers>>
  PROVE  CallsInv'
<1>1. user'.at = at /\ user'.tries = user.tries /\ calls' = calls
  BY DEF Goto, Users
<1>. QED
  BY <1>1 DEF CallsInv, ToRegister

LEMMA EndKeepsCounts ==
  ASSUME CallsInv, user' = Idle, UNCHANGED <<calls, handlers>>,
         valueHandlers' = valueHandlers \/ valueHandlers' = 0
  PROVE  CallsInv'
BY Bounds DEF CallsInv, Idle, ToRegister

LEMMA AnswerKeepsCounts ==
  ASSUME CallsInv, NEW outcome, Did(outcome) \/ AdapterAnswer(outcome) \/ Answer(outcome),
         handlers' = handlers, valueHandlers' = valueHandlers \/ valueHandlers' = 0
  PROVE  CallsInv'
<1>1. user' = Idle /\ calls' = calls
  BY DEF Did, AdapterAnswer, Answer
<1>. QED
  BY <1>1, EndKeepsCounts

LEMMA FailedKeepsCounts ==
  ASSUME user \in Users, CallsInv, user.at \in {"attempt", "services"}, Failed(user.tries + 1),
         handlers' = handlers, valueHandlers' = valueHandlers \/ valueHandlers' = 0
  PROVE  CallsInv'
<1>1. /\ user'.at = IF user.tries + 1 < MaxAttempts THEN "attempt" ELSE "connected"
      /\ user'.tries = user.tries + 1 /\ calls' = calls
  BY DEF Failed, Users
<1>2. user.tries + 1 \in 0 .. MaxAttempts /\ handlers < calls
  BY Bounds DEF CallsInv, ToRegister
<1>. QED
  BY <1>1, <1>2 DEF CallsInv, ToRegister

\* A new call makes room for one more handler of each kind.
LEMMA NewCallKeepsCounts ==
  ASSUME CallsInv, calls < MaxCalls, calls' = calls + 1, UNCHANGED <<handlers, valueHandlers>>,
         user'.tries = 0 \/ (UNCHANGED user /\ user.at = "idle")
  PROVE  CallsInv'
<1>1. user'.tries \in 0 .. MaxAttempts
      /\ (user'.at \in {"attempt", "services"} => user'.tries < MaxAttempts)
  BY Bounds DEF CallsInv
<1>2. handlers \in 0 .. calls /\ valueHandlers \in 0 .. calls /\ calls \in 0 .. MaxCalls
  BY DEF CallsInv
<1>3. calls' \in 0 .. MaxCalls /\ handlers' \in 0 .. calls' /\ handlers' < calls'
      /\ valueHandlers' \in 0 .. calls' /\ valueHandlers' < calls'
  BY <1>2, Bounds
<1>. QED
  BY <1>1, <1>3 DEF CallsInv

LEMMA CallTries ==
  ASSUME NEW op, NEW handle, NEW entry, Call(op, handle, entry)
  PROVE  /\ calls < MaxCalls /\ calls' = calls + 1
         /\ user'.tries = 0 \/ (UNCHANGED user /\ user.at = "idle")
BY DEF Call, Idle

LEMMA ProgramCallsKeepCounts ==
  ASSUME CallsInv, ProgramCalls
  PROVE  CallsInv'
<1>1. UNCHANGED <<handlers, valueHandlers>>
  BY DEF ProgramCalls, linkVars, gattVars
<1>2. CASE \E op \in PeripheralOps : \E h \in {Null, Handle} : Call(op, h, Entry(op))
  BY <1>1, <1>2, CallTries, NewCallKeepsCounts
<1>3. CASE \E op \in AdapterOps, h \in {Null, Handle} : Call(op, h, AdapterEntry(op))
  BY <1>1, <1>3, CallTries, NewCallKeepsCounts
<1>4. CASE AtOnce
  BY <1>1, <1>4, NewCallKeepsCounts DEF AtOnce
<1>. QED
  BY <1>2, <1>3, <1>4 DEF ProgramCalls, Get, GetManufacturerData, AskAdapter

LEMMA PeripheralKeepsCounts ==
  ASSUME user \in Users, CallsInv, UserStep \/ Services(Cardinality(peripheral.services))
  PROVE  CallsInv'
<1>1. CASE Attempt
  <2>1. handlers' = handlers /\ valueHandlers' = 0 /\ user.at = "attempt"
    BY <1>1 DEF Attempt
  <2>2. CASE Goto("services")
    <3>1. user'.at = "services" /\ user'.tries = user.tries /\ calls' = calls
      BY <2>2 DEF Goto, Users
    <3>. QED
      BY <2>1, <3>1 DEF CallsInv, ToRegister
  <2>3. CASE Failed(user.tries + 1)
    BY <2>1, <2>3, FailedKeepsCounts
  <2>4. CASE Did(Thrown)
    BY <2>1, <2>4, AnswerKeepsCounts
  <2>. QED
    BY <1>1, <2>2, <2>3, <2>4 DEF Attempt
<1>2. CASE AttemptService
  <2>1. UNCHANGED <<handlers, valueHandlers>> /\ user.at = "services"
    BY <1>2 DEF AttemptService, linkVars
  <2>2. CASE Goto("connected")
    <3>1. user'.at = "connected" /\ user'.tries = user.tries /\ calls' = calls
      BY <2>2 DEF Goto, Users
    <3>. QED
      BY <2>1, <3>1 DEF CallsInv, ToRegister
  <2>3. CASE UNCHANGED programVars
    BY <2>1, <2>3 DEF CallsInv, programVars
  <2>4. CASE Failed(user.tries + 1)
    BY <2>1, <2>4, FailedKeepsCounts
  <2>5. CASE Did(Thrown)
    BY <2>1, <2>5, AnswerKeepsCounts
  <2>. QED
    BY <1>2, <2>2, <2>3, <2>4, <2>5 DEF AttemptService
<1>3. CASE Connected
  <2>1. UNCHANGED <<handlers, valueHandlers>> /\ user.at = "connected"
    BY <1>3 DEF Connected, linkVars, gattVars
  <2>2. CASE Goto("register")
    <3>1. user'.at = "register" /\ user'.tries = user.tries /\ calls' = calls
      BY <2>2 DEF Goto, Users
    <3>. QED
      BY <2>1, <3>1 DEF CallsInv, ToRegister
  <2>. QED
    BY <1>3, <2>1, <2>2, AnswerKeepsCounts DEF Connected
<1>4. CASE Register
  <2>1. user'.at = "announce" /\ user'.tries = user.tries /\ calls' = calls
    BY <1>4 DEF Register, Goto, Users
  <2>2. handlers' = handlers + 1 /\ valueHandlers' = valueHandlers /\ user.at = "register"
    BY <1>4 DEF Register, gattVars
  <2>. QED
    BY <2>1, <2>2 DEF CallsInv, ToRegister
<1>5. CASE Notify
  <2>1. handlers' = handlers /\ user.at = "notify"
    BY <1>5 DEF Notify, linkVars
  <2>2. CASE valueHandlers' = valueHandlers + 1 /\ Goto("startNotify")
    <3>1. user'.at = "startNotify" /\ user'.tries = user.tries /\ calls' = calls
      BY <2>2 DEF Goto, Users
    <3>. QED
      BY <2>1, <2>2, <3>1 DEF CallsInv, ToRegister
  <2>3. CASE Did(Thrown) /\ UNCHANGED valueHandlers
    BY <2>1, <2>3, AnswerKeepsCounts
  <2>. QED
    BY <1>5, <2>2, <2>3 DEF Notify
<1>6. CASE Close
  <2>1. handlers' = handlers /\ valueHandlers' = 0
    BY <1>6 DEF Close
  <2>2. user'.at = "closing" /\ user'.tries = user.tries /\ calls' = calls
    BY <1>6 DEF Close, Goto, Users
  <2>. QED
    BY <2>1, <2>2 DEF CallsInv, ToRegister
<1>7. CASE Closing
  BY <1>7, GotoKeepsCounts, AnswerKeepsCounts, PlaceNames DEF Closing, ToRegister, linkVars, gattVars
<1>8. CASE Announce \/ GiveUp \/ IsConnected \/ Unsupported \/ Mtu \/ ReadWrite
           \/ ReadWriteDescriptor \/ StartNotify \/ Unsubscribe
           \/ Services(Cardinality(peripheral.services))
  <2>1. UNCHANGED <<handlers, valueHandlers>>
    BY <1>8 DEF Announce, GiveUp, IsConnected, Unsupported, Mtu, ReadWrite, ReadWriteDescriptor,
                Transfer, StartNotify, Unsubscribe, Services, linkVars, gattVars
  <2>2. user' = Idle /\ calls' = calls
    BY <1>8 DEF Announce, GiveUp, IsConnected, Unsupported, Mtu, ReadWrite, ReadWriteDescriptor,
                Transfer, StartNotify, Unsubscribe, Services, Did, Answer
  <2>. QED
    BY <2>1, <2>2, EndKeepsCounts
<1>. QED
  BY <1>1, <1>2, <1>3, <1>4, <1>5, <1>6, <1>7, <1>8 DEF UserStep

LEMMA UserKeepsCounts ==
  ASSUME user \in Users, CallsInv, User
  PROVE  CallsInv'
<1>1. CASE (UserStep \/ Services(Cardinality(peripheral.services))) /\ UNCHANGED adapterVars
  BY <1>1, PeripheralKeepsCounts
<1>2. CASE ScanFor \/ ClearSeen \/ Activate \/ Start \/ Stop \/ Stopping \/ StopWaiting \/ Ask
  <2>1. UNCHANGED <<handlers, valueHandlers>>
    BY <1>2 DEF ScanFor, ClearSeen, Activate, Start, Stop, Stopping, StopWaiting, Ask,
                linkVars, gattVars
  <2>2. \/ \E at \in {"clearSeen", "activate", "start", "stop", "stopping", "asleepStopping"} :
             Goto(at)
        \/ user' = Idle /\ calls' = calls
    BY <1>2 DEF ScanFor, ClearSeen, Activate, Start, Stop, Stopping, StopWaiting, Ask,
                IfEnabled, Started, AdapterAnswer, Answer
  <2>3. \A at \in {"clearSeen", "activate", "start", "stop", "stopping", "asleepStopping"} :
          at \in Places /\ at \notin ToRegister \cup {"notify"}
    BY PlaceNames DEF ToRegister
  <2>. QED
    BY <2>1, <2>2, <2>3, GotoKeepsCounts, EndKeepsCounts
<1>. QED
  BY <1>1, <1>2 DEF User

\* A handler wakes a call that waits, and moves it nowhere else.
LEMMA HandlersKeepCounts ==
  ASSUME user \in Users, CallsInv, Handlers
  PROVE  CallsInv'
<1>1. UNCHANGED <<calls, handlers, valueHandlers>>
  BY DEF Handlers, HandlerStep, StatusChanged, Report, ScanStopped, ScanReceived, ScanFound,
         ScanUpdated, peripheralVars, programVars, linkVars, gattVars
<1>2. user' = user \/ \E at \in {"closing", "stopping"} : user' = [user EXCEPT !.at = at]
  BY DEF Handlers, HandlerStep, StatusChanged, Report, ScanStopped, ScanReceived, ScanFound,
         ScanUpdated, peripheralVars, programVars
<1>3. ASSUME NEW at \in {"closing", "stopping"}, user' = [user EXCEPT !.at = at]
      PROVE  user'.at = at /\ user'.tries = user.tries
  BY <1>3 DEF Users
<1>. QED
  BY <1>1, <1>2, <1>3 DEF CallsInv, ToRegister

LEMMA CountsStep ==
  ASSUME user \in Users, CallsInv, [Next]_vars
  PROVE  CallsInv'
<1>1. (LoseLink /\ UNCHANGED adapterVars) \/ Hear \/ Power \/ UNCHANGED vars
        => UNCHANGED <<user, calls, handlers, valueHandlers>>
  BY DEF LoseLink, Hear, Power, vars, peripheralVars, programVars, linkVars, gattVars
<1>2. UNCHANGED <<user, calls, handlers, valueHandlers>> => CallsInv'
  BY DEF CallsInv
<1>. QED
  BY <1>1, <1>2, ProgramCallsKeepCounts, UserKeepsCounts, HandlersKeepCounts DEF Next

\* The handlers that are to run stay within the bound.
LEMMA RaiseKeepsEvents ==
  ASSUME LinkInv, handlers \in Nat, Raise
  PROVE  events' \in 0 .. MaxEvents
BY Bounds DEF LinkInv, Raise

LEMMA LinkStep ==
  ASSUME handlers \in Nat, LinkInv, [Next]_vars
  PROVE  LinkInv'
<1>. Len(Gatt) \in Nat
  BY Bounds
<1>1. CASE UNCHANGED <<link, events, gattMap, notifying, owed, status>>
  BY <1>1 DEF LinkInv
<1>2. CASE Attempt
  <2>1. gattMap' \in 0 .. Len(Gatt)
    BY <1>2 DEF Attempt
  <2>2. link' \in BOOLEAN /\ events' \in 0 .. MaxEvents
    BY <1>2, RaiseKeepsEvents DEF Attempt, LinkInv
  <2>. QED
    BY <1>2, <2>1, <2>2 DEF Attempt, LinkInv
<1>3. CASE AttemptService
  <2>1. \/ gattMap' = gattMap
        \/ gattMap < Len(Gatt) /\ gattMap' = gattMap + 1
    BY <1>3 DEF AttemptService
  <2>2. gattMap' \in 0 .. Len(Gatt)
    BY <2>1 DEF LinkInv
  <2>. QED
    BY <1>3, <2>2 DEF AttemptService, LinkInv, linkVars
<1>4. CASE Register \/ Announce
  BY <1>4 DEF Register, Announce, LinkInv, linkVars, gattVars
<1>5. CASE Close
  <2>1. gattMap' \in 0 .. Len(Gatt)
    BY <1>5 DEF Close
  <2>2. link' \in BOOLEAN /\ notifying' \in BOOLEAN /\ events' \in 0 .. MaxEvents
    BY <1>5, RaiseKeepsEvents DEF Close, LinkInv
  <2>. QED
    BY <1>5, <2>1, <2>2 DEF Close, LinkInv
<1>6. CASE StartNotify \/ Unsubscribe
  BY <1>6 DEF StartNotify, Unsubscribe, LinkInv, linkVars
<1>7. CASE StatusChanged
  BY <1>7, Bounds DEF StatusChanged, LinkInv, gattVars
<1>8. CASE Report
  BY <1>8 DEF Report, LinkInv, linkVars, gattVars
<1>9. CASE LoseLink
  BY <1>9, RaiseKeepsEvents DEF LoseLink, LinkInv
<1>10. CASE Connected \/ Closing \/ GiveUp \/ IsConnected \/ Unsupported \/ Mtu \/ ReadWrite
            \/ ReadWriteDescriptor \/ Notify \/ Services(Cardinality(peripheral.services))
  BY <1>1, <1>10
  DEF Connected, Closing, GiveUp, IsConnected, Unsupported, Mtu, ReadWrite, ReadWriteDescriptor,
      Transfer, Notify, Services, linkVars, gattVars
<1>11. CASE ScanFor \/ ClearSeen \/ Activate \/ Start \/ Stop \/ Stopping \/ StopWaiting \/ Ask
  BY <1>1, <1>11
  DEF ScanFor, ClearSeen, Activate, Start, Stop, Stopping, StopWaiting, Ask, linkVars, gattVars
<1>12. CASE ScanStopped \/ ScanReceived \/ ScanFound \/ ScanUpdated \/ Hear \/ Power
            \/ ProgramCalls \/ UNCHANGED vars
  BY <1>1, <1>12
  DEF ScanStopped, ScanReceived, ScanFound, ScanUpdated, Hear, Power, ProgramCalls, vars,
      peripheralVars, linkVars, gattVars
<1>. QED
  BY <1>2, <1>3, <1>4, <1>5, <1>6, <1>7, <1>8, <1>9, <1>10, <1>11, <1>12
  DEF Next, User, UserStep, Handlers, HandlerStep

LEMMA AdapterStep ==
  ASSUME AdapterInv, [Next]_vars
  PROVE  AdapterInv'
<1>1. CASE UNCHANGED adapterVars
  BY <1>1 DEF AdapterInv, adapterVars, scanVars, receiverVars
<1>2. CASE ScanFor \/ ClearSeen \/ Activate \/ Start \/ Stop \/ Stopping \/ StopWaiting \/ Ask
  BY <1>1, <1>2
  DEF ScanFor, ClearSeen, Activate, Start, Stop, StopWatching, Stopping, StopWaiting, Ask,
      AdapterInv, scanVars, receiverVars
<1>3. CASE ScanStopped \/ ScanReceived \/ ScanFound \/ ScanUpdated \/ Hear
  BY <1>3 DEF ScanStopped, ScanReceived, ScanFound, ScanUpdated, Hear, AdapterInv, scanVars,
              receiverVars
<1>4. CASE Power
  BY <1>4 DEF Power, StopWatching, AdapterInv, receiverVars
<1>. QED
  BY <1>1, <1>2, <1>3, <1>4 DEF Next, ProgramCalls, User, Handlers, vars

\* A connect is tried no more than MaxAttempts times; no more handlers are registered
\* than connect and notify were called, though none is ever taken back
\* (PeripheralBase.cpp:88-112 and 244-330).
THEOREM WindowsTypes == Spec => []TypeOK
<1> DEFINE IInv == ScanInv /\ CallsInv /\ LinkInv /\ AdapterInv
<1>1. Init => IInv
  BY ScanInit, WindowsBoundsInit
<1>2. IInv /\ [Next]_vars => IInv'
  <2>. SUFFICES ASSUME IInv, [Next]_vars PROVE IInv'
    OBVIOUS
  <2>1. user \in Users
    BY DEF ScanInv
  <2>2. handlers \in Nat
    BY DEF CallsInv
  <2>. QED
    BY <2>1, <2>2, ScanStep, CountsStep, LinkStep, AdapterStep
<1>3. IInv => TypeOK
  BY Bounds DEF CallsInv, LinkInv, AdapterInv, TypeOK
<1>. QED
  BY <1>1, <1>2, <1>3, PTL DEF Spec
=============================================================================
