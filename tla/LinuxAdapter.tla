---------------------------- MODULE LinuxAdapter ----------------------------
(***************************************************************************)
(* AdapterBase of the Linux backend of SimpleBLE: scanning, what a scan    *)
(* tells the program, and the lists of adapters and of paired devices,     *)
(* together with LinuxPeripheral: the device that is scanned for is the    *)
(* one that is connected, and one thread handles the signals of both.      *)
(***************************************************************************)
EXTENDS LinuxPeripheral

VARIABLES
  powered,      \* the adapter is on
  discovering,  \* BlueZ scans
  isScanning,   \* is_scanning_
  onUpdated,    \* Adapter::set_on_device_updated is in effect
  seen          \* seen_peripherals_ has the device
adapterVars == <<powered, discovering, isScanning, onUpdated, seen>>
vars == <<peripheralVars, adapterVars>>

Init ==
  /\ PeripheralInit
  /\ powered \in BOOLEAN /\ discovering = FALSE
  /\ isScanning = FALSE /\ onUpdated = FALSE /\ seen = FALSE

AdapterOps == {"scan_start", "scan_stop", "scan_for", "scan_is_active",
               "scan_get_results_count", "scan_get_results_handle",
               "get_paired_peripherals_count", "adapter_get_count", "adapter_get_handle"}
\* Of them, those that take no handle.
Static == {"adapter_get_count", "adapter_get_handle"}
AdapterEntry(op) ==
  CASE op = "scan_start" -> "clearSeen" [] op = "scan_stop" -> "stop"
    [] op = "scan_for" -> "scanFor" [] OTHER -> op

CallAdapter(op, handle) ==
  /\ user.at = "idle" /\ calls < MaxCalls
  /\ calls' = calls + 1
  /\ IF handle = Null
     THEN op \notin Static /\ answer' = OfNull(op) /\ UNCHANGED user
     ELSE user' = [Idle EXCEPT !.op = op, !.at = AdapterEntry(op)] /\ answer' = NoAnswer
  /\ UNCHANGED <<bluezVars, copyVars, async, callbackVars, adapterVars>>

AdapterAnswer(outcome) == Answer(AdapterCommand(AdapterCall(TRUE, outcome)))
\* An update is delivered under the mutex of the callback.
UpdatedMutexFree == async # "deliver"

-----------------------------------------------------------------------------
\* scan_for returns at once when bluetooth is off.
ScanFor ==
  /\ user.at = "scanFor"
  /\ IF BluetoothEnabled(Returned(powered)) THEN Goto("clearSeen") ELSE AdapterAnswer(Returned(TRUE))
  /\ UNCHANGED <<bluezVars, copyVars, async, callbackVars, adapterVars>>

\* scan_start is over: the call is, or scan_for sleeps.
Started(outcome) ==
  IF user.op = "scan_for" /\ outcome.ok THEN Goto("stop") ELSE AdapterAnswer(outcome)

ClearSeen ==
  /\ user.at = "clearSeen"
  /\ seen' = FALSE
  /\ IF powered THEN Goto("listen") ELSE Started(Returned(TRUE))
  /\ UNCHANGED <<bluezVars, copyVars, async, callbackVars,
                 powered, discovering, isScanning, onUpdated>>

Listen ==
  /\ user.at = "listen" /\ UpdatedMutexFree
  /\ onUpdated' = TRUE
  /\ Goto("discover")
  /\ UNCHANGED <<bluezVars, copyVars, async, callbackVars,
                 powered, discovering, isScanning, seen>>

\* StartDiscovery, or an exception that leaves the callback where it is.
DiscoveryStart ==
  /\ user.at = "discover"
  /\ \/ powered /\ discovering' = TRUE /\ Goto("scanning")
     \/ Started(Thrown) /\ UNCHANGED discovering
  /\ UNCHANGED <<bluezVars, copyVars, async, callbackVars,
                 powered, isScanning, onUpdated, seen>>

\* After the callback of the program.
Scanning ==
  /\ user.at = "scanning"
  /\ isScanning' = TRUE
  /\ Started(Returned(TRUE))
  /\ UNCHANGED <<bluezVars, copyVars, async, callbackVars, powered, discovering, onUpdated, seen>>

\* scan_stop: nothing when bluetooth is off; the flag stays when StopDiscovery throws.
ScanStop ==
  /\ user.at = "stop"
  /\ \/ ~powered /\ AdapterAnswer(Returned(TRUE)) /\ UNCHANGED <<discovering, isScanning>>
     \/ /\ powered /\ discovering
        /\ discovering' = FALSE /\ isScanning' = FALSE
        /\ AdapterAnswer(Returned(TRUE))
     \/ powered /\ AdapterAnswer(Thrown) /\ UNCHANGED <<discovering, isScanning>>
  /\ UNCHANGED <<bluezVars, copyVars, async, callbackVars, powered, onUpdated, seen>>

ScanIsActive ==
  /\ user.at = "scan_is_active"
  /\ Answer(AdapterFlag(Returned(isScanning /\ discovering)))
  /\ UNCHANGED <<bluezVars, copyVars, async, callbackVars, adapterVars>>

ScanGetResults ==
  /\ LET results == Returned(IF seen THEN <<Handle>> ELSE <<>>)
     IN  \/ user.at = "scan_get_results_count" /\ Answer(Value(AdapterCount(results)))
         \/ user.at = "scan_get_results_handle" /\ Answer(Value(NewHandle(results, 0)))
  /\ UNCHANGED <<bluezVars, copyVars, async, callbackVars, adapterVars>>

\* A list of adapters is one of new AdapterBase objects over the same adapters;
\* when it goes, their destructors clear the callback, but for the object the
\* program is given.
Adapters == Returned(<<Handle>>)
GetAdapters ==
  /\ UpdatedMutexFree
  /\ \/ user.at = "adapter_get_count" /\ Answer(Value(AdapterCount(Adapters))) /\ onUpdated' = FALSE
     \/ /\ user.at = "adapter_get_handle"
        /\ \E index \in {0, 1} :
             /\ Answer(Value(NewHandle(Adapters, index)))
             /\ onUpdated' = (onUpdated /\ index = 0)
  /\ UNCHANGED <<bluezVars, copyVars, async, callbackVars,
                 powered, discovering, isScanning, seen>>

\* A list of paired devices is one of new PeripheralBase objects over the same
\* devices; when it goes, their destructors clear the callbacks and clean up.
GetPaired ==
  /\ user.at = "get_paired_peripherals_count" /\ MutexFree
  /\ \/ /\ Answer(Value(AdapterCount(Returned(<<Handle>>))))
        /\ onDisconnected' = FALSE /\ owed' = FALSE /\ Cleanup
     \/ /\ Answer(Value(AdapterCount(Returned(<<>>))))
        /\ UNCHANGED <<onDisconnected, owed, valueCallback, notifying>>
  /\ UNCHANGED <<bluezVars, copyVars, async, reporter, adapterVars>>

-----------------------------------------------------------------------------
\* Mutant of OnDeviceUpdated: the device is not put into the results.
OnDeviceUpdated_Stuck ==
  /\ async = "updated"
  /\ async' = IF onUpdated /\ isScanning THEN "deliver" ELSE "idle"
  /\ UNCHANGED <<bluezVars, copyVars, programVars, callbackVars, adapterVars>>

\* The callback of scan_start, on the thread of Bluez, once a signal of the device
\* is handled: found if it is new, updated if not.
OnDeviceUpdated ==
  /\ async = "updated"
  /\ IF onUpdated /\ isScanning
     THEN async' = "deliver" /\ seen' = TRUE
     ELSE async' = "idle" /\ UNCHANGED seen
  /\ UNCHANGED <<bluezVars, copyVars, programVars, callbackVars,
                 powered, discovering, isScanning, onUpdated>>

Deliver ==
  /\ async = "deliver"
  /\ async' = "idle"
  /\ UNCHANGED <<bluezVars, copyVars, programVars, callbackVars,
                 powered, discovering, isScanning, onUpdated, seen>>

\* The adapter is switched, off only once no link is up.
Power ==
  /\ ~device.Connected
  /\ powered' = ~powered /\ discovering' = FALSE
  /\ UNCHANGED <<peripheralVars, isScanning, onUpdated, seen>>

\* is_bluetooth_enabled; identifier and address, which nothing changes.
AskAdapter(handle) ==
  /\ user.at = "idle" /\ calls < MaxCalls
  /\ calls' = calls + 1
  /\ answer' \in {Reply("returned", Bool(BluetoothEnabled(Returned(powered)))),
                  IF handle = Null THEN OfNull("identifier") ELSE AdapterTextOf(Returned(1))}
  /\ UNCHANGED <<bluezVars, copyVars, user, async, callbackVars, adapterVars>>

-----------------------------------------------------------------------------
ProgramCalls ==
  \E h \in {Null, Handle} :
    \/ \E op \in PeripheralOps : Call(op, h) /\ UNCHANGED adapterVars
    \/ \E op \in Getters : Get(op, h) /\ UNCHANGED adapterVars
    \/ \E op \in AdapterOps : CallAdapter(op, h)
    \/ AskAdapter(h)

User ==
  \/ UserStep /\ UNCHANGED adapterVars
  \/ ScanFor \/ ClearSeen \/ Listen \/ DiscoveryStart \/ Scanning \/ ScanStop
  \/ ScanIsActive \/ ScanGetResults \/ GetAdapters \/ GetPaired
Async == (AsyncStep /\ UNCHANGED adapterVars) \/ OnDeviceUpdated \/ Deliver

Next ==
  \/ ProgramCalls \/ User \/ Async
  \/ Environment /\ UNCHANGED adapterVars
  \/ Power

\* A call goes on once it is made, and the thread of Bluez runs.
Spec == Init /\ [][Next]_vars /\ WF_vars(User) /\ WF_vars(Async)

-----------------------------------------------------------------------------
\* Type invariant.
TypeOK ==
  /\ device \in [Connected : BOOLEAN, ServicesResolved : BOOLEAN,
                 ManufacturerData : Data \cup {NoData}]
  /\ cache \in [Connected : BOOLEAN, ServicesResolved : BOOLEAN, ManufacturerData : Data \cup {NoData}]
  /\ valid \subseteq Names /\ parsed \in Data \cup {NoData} /\ services \in BOOLEAN
  /\ Len(signals) <= MaxSignals /\ losses <= MaxLosses /\ calls <= MaxCalls
  /\ user.tries <= MaxAttempts /\ user.wakes <= MaxWakes
  /\ reporter \in {"none", "async"} /\ reporter = "async" <=> async = "report"
  /\ {onDisconnected, valueCallback, notifying, owed} \subseteq BOOLEAN
  /\ {powered, discovering, isScanning, onUpdated, seen} \subseteq BOOLEAN

\* While connect makes its attempts no callback of an earlier connection runs:
\* it clears OnDisconnected first, under its mutex, and sets it last
\* (PeripheralBase.cpp:67 and 77).
NoReportDuringRetries ==
  user.op = "connect" /\ user.at # "clear" /\ ~user.final => reporter = "none"

\* News of a lost link: a signal that says so, or a thread that is about to tell.
News ==
  \/ \E i \in DOMAIN signals : "Connected" \in DOMAIN signals[i] /\ ~signals[i]["Connected"]
  \/ ~cache.Connected /\ async \in {"connectedChanged", "enter"}
  \/ user.at = "lost" \/ (user.at = "fetched" /\ ~cache.Connected)

\* A program that was told it is connected, and whose callback nothing cleared,
\* is told of the loss of the link or news of it are on their way, wherever the
\* loss falls between the fetches and signals of connect
\* (PeripheralBase.cpp:79-90, Device1.cpp:108-112).
LossIsNotMissed == owed /\ ~device.Connected => News

\* Once every signal is handled the copy of a property is what BlueZ has, though
\* fetches put newer values before older signals (Interface.cpp:80-130).  A
\* property that is gone keeps its last value.
CopyCatchesUp ==
  signals = <<>> /\ async = "idle" =>
    /\ \A n \in Names : device[n] # NoData => n \in valid /\ cache[n] = device[n]
    /\ device.ManufacturerData # NoData => parsed = device.ManufacturerData
    /\ services = device.ServicesResolved

\* A loss the program is owed is told: by a signal on the thread of Bluez, or by
\* the fetch of a call that comes before it.
LostLinkIsReported == (owed /\ ~device.Connected) ~> ~owed

\* Every call returns: no wait for a callback's mutex or a signal is for ever.
CallsReturn == (user.at # "idle") ~> (user.at = "idle")

\* A device that sends other data while the program scans, and while nothing
\* cleared the callback of the scan, is among the results.
SenderIsFound ==
  (/\ isScanning /\ onUpdated
   /\ \E i \in DOMAIN signals : "ManufacturerData" \in DOMAIN signals[i])
    ~> (seen \/ ~isScanning \/ ~onUpdated)
=============================================================================
