--------------------------- MODULE WindowsAdapter ---------------------------
(***************************************************************************)
(* AdapterBase of the Windows backend of SimpleBLE, together with the      *)
(* peripheral it finds: scanner_, the watcher of WinRT, runs between Start *)
(* and Stop, and tells of advertisements and of its own end by events.     *)
(***************************************************************************)
EXTENDS WindowsPeripheral

CONSTANTS
  Adverts,   \* what the device sends: advertisements and responses to a scan
  NoName,    \* no name is in it
  MaxAdverts \* bound: how often it is heard

VARIABLES
  powered,      \* a radio for Bluetooth is on
  watching,     \* the watcher runs
  stops,        \* Stopped events that are not handled
  scanIsActive, \* scan_is_active_
  wrong,        \* what made it wrong: nothing, a late event, a start that failed
  heard,        \* everything the device sent and WinRT told of
  receiver,     \* where the handler of Received is
  received,     \* the advertisement it has
  peripheral,   \* the device's entry in peripherals_: what it advertised, as merged
  seen          \* seen_peripherals_ has the device
scanVars == <<watching, stops, scanIsActive, wrong>>
receiverVars == <<heard, receiver, received, peripheral>>
adapterVars == <<powered, scanVars, receiverVars, seen>>
vars == <<peripheralVars, adapterVars>>

\* The device when it was not seen yet.
Unknown == [identifier |-> NoName, data |-> {}, services |-> {}]
Known == heard # <<>> /\ peripheral # Unknown

Init ==
  /\ PeripheralInit
  /\ powered \in BOOLEAN
  /\ watching = FALSE /\ stops = 0 /\ scanIsActive = FALSE /\ wrong = "no"
  /\ heard = <<>> /\ receiver = "idle" /\ received = Unknown /\ peripheral = Unknown
  /\ seen = FALSE

AdapterOps == {"scan_start", "scan_stop", "scan_for", "scan_is_active",
               "scan_get_results_count", "scan_get_results_handle",
               "get_paired_peripherals_count", "adapter_get_count", "adapter_get_handle"}
\* Of them, those that take no handle.
Static == {"adapter_get_count", "adapter_get_handle"}
AdapterEntry(op) == CASE op = "scan_start" -> "clearSeen" [] op = "scan_stop" -> "stop" [] OTHER -> op

\* A call that returns at once.
AtOnce == user.at = "idle" /\ calls < MaxCalls /\ calls' = calls + 1 /\ UNCHANGED user

\* identifier, address, address_type, rssi, tx_power: what was advertised last, which
\* need not tell the power.
Advertised(op) ==
  CASE op = "identifier" -> {IF peripheral.identifier = NoName THEN 0 ELSE 1}
    [] op = "tx_power" -> {1, INT16_MIN}
    [] op = "address_type" -> {PUBLIC, UNSPECIFIED}
    [] OTHER -> {1}
Get(op, handle) ==
  /\ AtOnce
  /\ IF handle = Null THEN answer' = OfNull(op)
     ELSE \E v \in Advertised(op) : answer' = Getter(op, Returned(v))

\* manufacturer_data_get, _count; what an entry says does not matter.
GetManufacturerData(index) ==
  /\ AtOnce
  /\ LET entries == Returned([i \in 1 .. Cardinality(peripheral.data) |-> 1])
     IN  answer' \in {ManufacturerDataGet(entries, index), ManufacturerDataCount(entries)}

\* is_bluetooth_enabled, which may throw inside; identifier and address of the adapter.
AskAdapter(handle) ==
  /\ AtOnce
  /\ answer' \in {Reply("returned", Bool(BluetoothEnabled(Returned(powered)))),
                  Reply("returned", Bool(BluetoothEnabled(Thrown))),
                  IF handle = Null THEN OfNull("identifier") ELSE AdapterTextOf(Returned(1))}

\* The program has a peripheral once a scan gave it one.
ProgramCalls ==
  /\ \/ \E op \in PeripheralOps :
          \E h \in {Null} \cup (IF Known THEN {Handle} ELSE {}) : Call(op, h, Entry(op))
     \/ \E op \in AdapterOps, h \in {Null, Handle} :
          (h = Null => op \notin Static) /\ Call(op, h, AdapterEntry(op))
     \/ \E op \in Getters :
          \E h \in {Null} \cup (IF Known THEN {Handle} ELSE {}) : Get(op, h)
     \/ \E index \in {0, 1} : Known /\ GetManufacturerData(index)
     \/ \E h \in {Null, Handle} : AskAdapter(h)
  /\ UNCHANGED <<linkVars, status, gattVars, owed, adapterVars>>

AdapterAnswer(outcome) == Answer(AdapterCommand(AdapterCall(TRUE, outcome)))
\* bluetooth_enabled of the backend: a call goes on, returns or throws.
IfEnabled(go) ==
  \/ powered /\ Goto(go)
  \/ ~powered /\ AdapterAnswer(Returned(TRUE))
  \/ AdapterAnswer(Thrown)

-----------------------------------------------------------------------------
ScanFor ==
  /\ user.at = "scan_for"
  /\ IfEnabled("clearSeen")
  /\ UNCHANGED <<linkVars, status, gattVars, owed, adapterVars>>

\* scan_start is over: the call is, or scan_for sleeps.
Started(outcome) ==
  IF user.op = "scan_for" /\ outcome.ok THEN Goto("stop") ELSE AdapterAnswer(outcome)

\* The results of the last scan go, with bluetooth off too.
ClearSeen ==
  /\ user.at = "clearSeen"
  /\ seen' = FALSE
  /\ \/ powered /\ Goto("activate")
     \/ ~powered /\ Started(Returned(TRUE))
     \/ Started(Thrown)
  /\ UNCHANGED <<linkVars, status, gattVars, owed, powered, scanVars, receiverVars>>

\* Mutant of Activate: the flag is left to what comes after Start.
Activate_Late ==
  /\ user.at = "activate"
  /\ Goto("start")
  /\ UNCHANGED <<linkVars, status, gattVars, owed, adapterVars>>

Activate ==
  /\ user.at = "activate"
  /\ scanIsActive' = TRUE /\ wrong' = "no"
  /\ Goto("start")
  /\ UNCHANGED <<linkVars, status, gattVars, owed, powered, watching, stops, receiverVars, seen>>

\* The watcher starts, or throws and leaves the flag as it is.
Start ==
  /\ user.at = "start"
  /\ \/ watching' = TRUE /\ Started(Returned(TRUE)) /\ UNCHANGED wrong
     \/ /\ AdapterAnswer(Thrown)
        /\ wrong' = IF watching THEN wrong ELSE "failedStart"
        /\ UNCHANGED watching
  /\ UNCHANGED <<linkVars, status, gattVars, owed, powered, stops, scanIsActive, receiverVars, seen>>

\* A watcher that ends raises Stopped.
StopWatching == watching' = FALSE /\ stops' = IF watching THEN stops + 1 ELSE stops

Stop ==
  /\ user.at = "stop"
  /\ IfEnabled("stopping")
  /\ IF user'.at = "stopping" THEN StopWatching ELSE UNCHANGED <<watching, stops>>
  /\ UNCHANGED <<linkVars, status, gattVars, owed, powered, scanIsActive, wrong, receiverVars, seen>>

\* The predicate, then the wait of 1 s, which ends in success whatever became of it.
Stopping ==
  /\ user.at = "stopping"
  /\ IF scanIsActive THEN Goto("asleepStopping") ELSE AdapterAnswer(Returned(TRUE))
  /\ UNCHANGED <<linkVars, status, gattVars, owed, adapterVars>>

StopWaiting ==
  /\ user.at = "asleepStopping"
  /\ AdapterAnswer(Returned(TRUE))
  /\ UNCHANGED <<linkVars, status, gattVars, owed, adapterVars>>

Results == Returned(IF seen THEN <<Handle>> ELSE <<>>)
Ask ==
  /\ \/ user.at = "scan_is_active" /\ Answer(AdapterFlag(Returned(scanIsActive)))
     \/ user.at = "scan_get_results_count" /\ Answer(Value(AdapterCount(Results)))
     \/ user.at = "scan_get_results_handle" /\ Answer(Value(NewHandle(Results, 0)))
     \/ /\ user.at = "get_paired_peripherals_count"
        /\ Answer(Value(AdapterCount(Returned(<<>>))))
     \/ /\ user.at \in Static
        /\ \E outcome \in {Returned(<<Handle>>), Thrown} :
             \/ user.at = "adapter_get_count" /\ Answer(Value(AdapterCount(outcome)))
             \/ /\ user.at = "adapter_get_handle"
                /\ \E index \in {0, 1} : Answer(Value(NewHandle(outcome, index)))
  /\ UNCHANGED <<linkVars, status, gattVars, owed, adapterVars>>

-----------------------------------------------------------------------------
\* _scan_stopped_callback: of this scan, or late and of one before.
ScanStopped ==
  /\ stops > 0
  /\ stops' = stops - 1
  /\ scanIsActive' = FALSE
  /\ wrong' = IF watching \/ user.at = "start" THEN "lateStop" ELSE "no"
  /\ user' = IF user.at = "asleepStopping" THEN [user EXCEPT !.at = "stopping"] ELSE user
  /\ UNCHANGED <<calls, answer, linkVars, status, gattVars, owed, powered, watching,
                 receiverVars, seen>>

\* Mutant of UpdateAdvertisingData: the name is that of a.
UpdateAdvertisingData_Replace(p, a) ==
  [identifier |-> a.identifier, data |-> a.data, services |-> p.services \cup a.services]

\* update_advertising_data: a name is kept when there is none in a; data are those
\* of a, services are added.
UpdateAdvertisingData(p, a) ==
  [identifier |-> IF a.identifier = NoName THEN p.identifier ELSE a.identifier,
   data |-> a.data, services |-> p.services \cup a.services]

\* _scan_received_callback up to the question whether the device was seen.  The
\* constructor of a new peripheral may throw.
ScanReceived ==
  /\ receiver = "received"
  /\ \/ /\ peripheral' = UpdateAdvertisingData(peripheral, received)
        /\ heard' = Append(heard, received)
        /\ receiver' = IF seen THEN "updated" ELSE "found"
     \/ ~Known /\ receiver' = "idle" /\ UNCHANGED <<heard, peripheral>>
  /\ UNCHANGED <<peripheralVars, powered, scanVars, received, seen>>

ScanFound ==
  /\ receiver = "found"
  /\ seen' = TRUE
  /\ receiver' = "idle"
  /\ UNCHANGED <<peripheralVars, powered, scanVars, heard, received, peripheral>>

ScanUpdated ==
  /\ receiver = "updated"
  /\ receiver' = "idle"
  /\ UNCHANGED <<peripheralVars, powered, scanVars, heard, received, peripheral, seen>>

-----------------------------------------------------------------------------
\* WinRT hears the device.
Hear ==
  /\ watching /\ receiver = "idle" /\ Len(heard) < MaxAdverts
  /\ receiver' = "received" /\ received' \in Adverts
  /\ UNCHANGED <<peripheralVars, powered, scanVars, heard, peripheral, seen>>

\* A radio is switched, off when there is no link; the watcher ends with it.
Power ==
  /\ ~link /\ powered' = ~powered
  /\ StopWatching
  /\ UNCHANGED <<peripheralVars, scanIsActive, wrong, receiverVars, seen>>

User ==
  \/ (UserStep \/ Services(Cardinality(peripheral.services))) /\ UNCHANGED adapterVars
  \/ ScanFor \/ ClearSeen \/ Activate \/ Start \/ Stop \/ Stopping \/ StopWaiting \/ Ask
Handlers ==
  \/ HandlerStep /\ UNCHANGED adapterVars
  \/ ScanStopped \/ ScanReceived \/ ScanFound \/ ScanUpdated

Next ==
  \/ ProgramCalls \/ User \/ Handlers
  \/ LoseLink /\ UNCHANGED adapterVars
  \/ Hear \/ Power

\* A call goes on once it is made, and WinRT runs the handlers.
Spec == Init /\ [][Next]_vars /\ WF_vars(User) /\ WF_vars(HandlerStep /\ UNCHANGED adapterVars)
             /\ WF_vars(ScanStopped)

-----------------------------------------------------------------------------
\* Type invariant.
TypeOK ==
  /\ user.tries <= MaxAttempts /\ calls <= MaxCalls
  /\ {link, notifying, owed, powered, watching, scanIsActive, seen} \subseteq BOOLEAN
  /\ handlers <= calls /\ valueHandlers <= calls /\ events <= MaxEvents
  /\ status \in {"idle", "report"} /\ receiver \in {"idle", "received", "found", "updated"}
  /\ gattMap <= Len(Gatt)

\* While the watcher runs scan_is_active_ is TRUE, and while it does not the flag is
\* FALSE or the event that resets it is on its way; the two exceptions are a Stopped
\* event that is handled after the next scan_start, and a Start that throws
\* (AdapterBase.cpp:150-151 and 233).
FlagFollowsWatcher ==
  /\ watching /\ ~scanIsActive => wrong = "lateStop"
  /\ scanIsActive /\ ~watching => stops > 0 \/ user.at = "start" \/ wrong = "failedStart"

\* A name and services that were received stay known, in whatever order
\* advertisements and responses to a scan arrive (PeripheralBase.cpp:64-80).
NothingHeardIsForgotten ==
  \A i \in DOMAIN heard :
    /\ heard[i].identifier # NoName => peripheral.identifier # NoName
    /\ heard[i].services \subseteq peripheral.services

\* A link that was up when the program was told it is connected, and is lost, is
\* reported, unless the link comes back before (PeripheralBase.cpp:91-100).
LostLinkIsReported == (owed /\ ~link) ~> (~owed \/ link)

\* Every call returns, though the handlers notify without the mutex of the wait
\* (PeripheralBase.cpp:94 and 111, AdapterBase.cpp:165 and 234).
CallsReturn == (user.at # "idle") ~> (user.at = "idle")
=============================================================================
