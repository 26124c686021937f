-------------------------- MODULE LinuxPeripheral --------------------------
(***************************************************************************)
(* PeripheralBase of the Linux backend of SimpleBLE, over the device of    *)
(* BlueZ it shares with the thread that handles signals, called through    *)
(* the C bindings by one thread of the program.                            *)
(*                                                                         *)
(* A callback runs under the mutex of its kvn::safe_callback, and loading  *)
(* and clearing it take the same mutex.                                    *)
(***************************************************************************)
EXTENDS BluezDevice, Facade

CONSTANTS
  Gatt,        \* the services of the device: how many characteristics each has
  Advertised,  \* how many services it advertises
  MaxAttempts, \* attempts to connect or disconnect, 5 in the code
  MaxWakes,    \* bound: how often a wait looks again before it times out
  MaxCalls     \* bound: calls of the program

ASSUME PeripheralAssumption ==
  /\ Gatt \in Seq(Nat)
  /\ {Advertised, MaxWakes, MaxCalls} \subseteq Nat /\ MaxAttempts \in Nat \ {0}

VARIABLES
  user,            \* the call under way, where it is, its attempts, waits and how often it woke
  calls,           \* calls so far
  answer,          \* what the last call came to
  async,           \* where the thread that handles signals is
  onDisconnected,  \* Device1::OnDisconnected is loaded
  reporter,        \* who holds its mutex
  valueCallback,   \* a characteristic has a callback for its values
  notifying,       \* BlueZ notifies this client of the characteristic
  owed             \* the program was told it is connected, and nothing since
programVars == <<user, calls, answer>>
callbackVars == <<onDisconnected, reporter, valueCallback, notifying, owed>>
peripheralVars == <<bluezVars, copyVars, programVars, async, callbackVars>>

Idle == [op |-> "none", at |-> "idle", tries |-> 0, final |-> FALSE, wakes |-> 0]
NoAnswer == Reply("none", Untouched)

PeripheralInit ==
  /\ DeviceInit
  /\ user = Idle /\ calls = 0 /\ answer = NoAnswer /\ async = "idle"
  /\ onDisconnected = FALSE /\ reporter = "none"
  /\ valueCallback = FALSE /\ notifying = FALSE /\ owed = FALSE

-----------------------------------------------------------------------------
PeripheralOps == {"connect", "disconnect", "is_connected", "services_count", "services_get",
                  "mtu", "read", "write_request", "read_descriptor", "write_descriptor",
                  "notify", "unsubscribe", "manufacturer_data_get", "manufacturer_data_count"}
\* Where an operation begins: the rest asks is_connected first.
Entry(op) ==
  CASE op = "connect" -> "clear" [] op = "disconnect" -> "cleanup"
    [] op \in {"manufacturer_data_get", "manufacturer_data_count"} -> "data"
    [] OTHER -> "check"

\* A call of the bindings; a null handle is refused at once.
Call(op, handle) ==
  /\ user.at = "idle" /\ calls < MaxCalls
  /\ calls' = calls + 1
  /\ IF handle = Null
     THEN answer' = OfNull(op) /\ UNCHANGED user
     ELSE user' = [Idle EXCEPT !.op = op, !.at = Entry(op)] /\ answer' = NoAnswer
  /\ UNCHANGED <<bluezVars, copyVars, async, callbackVars>>

Goto(at) == user' = [user EXCEPT !.at = at] /\ UNCHANGED <<calls, answer>>
Answer(reply) == user' = Idle /\ answer' = reply /\ UNCHANGED calls
Did(outcome) == Answer(PeripheralCommand(outcome))

MutexFree == reporter # "async"

\* _cleanup_characteristics: callbacks first; an exception of StopNotify is swallowed.
Cleanup == /\ valueCallback' = FALSE
           /\ notifying' \in {FALSE, notifying}

-----------------------------------------------------------------------------
\* is_connected: both properties are fetched, and each is looked at after the fetch.
\* property_refresh calls property_changed when what it fetched is another value.
Check ==
  /\ user.at = "check"
  /\ Fetch("Connected")
  /\ Goto(IF cache' = cache THEN "look" ELSE "fetched")
  /\ UNCHANGED <<bluezVars, parsed, services, async, callbackVars>>

\* It looks at the copy once more, without the lock of the fetch, and runs
\* OnDisconnected on this thread.
CheckChanged ==
  /\ user.at = "fetched"
  /\ Goto(IF ~cache.Connected /\ onDisconnected THEN "lost" ELSE "look")
  /\ UNCHANGED <<bluezVars, copyVars, async, callbackVars>>

Lost ==
  /\ user.at = "lost" /\ MutexFree
  /\ Cleanup /\ owed' = FALSE
  /\ Goto("look")
  /\ UNCHANGED <<bluezVars, copyVars, async, onDisconnected, reporter>>

CheckResolved ==
  /\ user.at = "checkResolved"
  /\ Fetch("ServicesResolved")
  /\ Goto("lookResolved")
  /\ UNCHANGED <<bluezVars, parsed, services, async, callbackVars>>

\* A wait with a predicate: woken to look again, or timed out.
WaitOn == user' = [user EXCEPT !.at = "check", !.wakes = @ + 1] /\ UNCHANGED <<calls, answer>>
Retry(at) ==
  user' = [user EXCEPT !.at = at, !.wakes = 0, !.final = FALSE] /\ UNCHANGED <<calls, answer>>
Final(at) ==
  user' = [user EXCEPT !.at = at, !.wakes = 0, !.final = TRUE] /\ UNCHANGED <<calls, answer>>
TimedOut(retry, done) == IF user.tries < MaxAttempts THEN Retry(retry) ELSE Final(done)

\* connect goes on once it is TRUE, disconnect once it is FALSE.
WaitEnds(connected, goal, retry, done) ==
  \/ connected = goal /\ Final(done)
  \/ connected # goal /\ user.wakes < MaxWakes /\ WaitOn
  \/ connected # goal /\ TimedOut(retry, done)

\* services(): of the connected device, as far as there are proxies, or advertised.
Services(connected) ==
  CASE connected /\ services -> Gatt
    [] connected /\ ~services -> <<>>
    [] ~connected -> [i \in 1 .. Advertised |-> 0]

\* What each call does with the result of is_connected.
Conclude(connected) ==
  \/ /\ user.op = "connect" /\ ~user.final
     /\ WaitEnds(connected, TRUE, "call", "load") /\ UNCHANGED owed
  \/ /\ user.op = "disconnect" /\ ~user.final
     /\ WaitEnds(connected, FALSE, "cleanup", "check") /\ UNCHANGED owed
  \/ /\ user.op = "connect" /\ user.final
     /\ Did(IF connected THEN Returned(TRUE) ELSE Thrown)
     /\ owed' = connected
  \/ /\ user.op = "disconnect" /\ user.final
     /\ Did(IF connected THEN Thrown ELSE Returned(TRUE))
     /\ UNCHANGED owed
  \/ user.op = "is_connected" /\ Answer(PeripheralFlag(Returned(connected))) /\ UNCHANGED owed
  \/ /\ user.op = "services_count"
     /\ Answer(Value(PeripheralCount(Returned(Services(connected)))))
     /\ UNCHANGED owed
  \/ /\ user.op = "services_get"
     /\ \E index \in 0 .. Len(Gatt) :
          Answer(ServicesGet(Returned(Services(connected)), index))
     /\ UNCHANGED owed
  \/ /\ user.op = "mtu"
     /\ IF connected THEN Goto("operation") ELSE Answer(MtuOf(Returned(0)))
     /\ UNCHANGED owed
  \/ /\ user.op \in NeedLink
     /\ IF CheckedCall(TRUE, connected, Returned(TRUE)).ok THEN Goto("operation")
        ELSE Answer(Transferred(user.op, Thrown))
     /\ UNCHANGED owed

Look ==
  /\ \/ user.at = "look" /\ cache.Connected /\ Goto("checkResolved") /\ UNCHANGED owed
     \/ user.at = "look" /\ ~cache.Connected /\ Conclude(FALSE)
     \/ user.at = "lookResolved" /\ Conclude(cache.ServicesResolved)
  /\ UNCHANGED <<bluezVars, copyVars, async, onDisconnected, reporter, valueCallback, notifying>>

-----------------------------------------------------------------------------
\* Mutant of ClearOnDisconnected: left out.
ClearOnDisconnected_Not ==
  /\ user.at = "clear"
  /\ owed' = FALSE
  /\ Goto("call")
  /\ UNCHANGED <<bluezVars, copyVars, async, onDisconnected, reporter, valueCallback, notifying>>

\* connect: clear_on_disconnected, up to MaxAttempts attempts, set_on_disconnected.
ClearOnDisconnected ==
  /\ user.at = "clear" /\ MutexFree
  /\ onDisconnected' = FALSE /\ owed' = FALSE
  /\ Goto("call")
  /\ UNCHANGED <<bluezVars, copyVars, async, reporter, valueCallback, notifying>>

\* Mutant of AttemptConnect: one attempt more.
AttemptConnect_OneMore ==
  /\ user.op = "connect" /\ user.at = "call"
  /\ user' = [user EXCEPT !.at = IF user.tries <= MaxAttempts THEN "call" ELSE "load",
                          !.tries = @ + 1, !.final = user.tries > MaxAttempts]
  /\ UNCHANGED <<bluezVars, copyVars, calls, answer, async, callbackVars>>

\* Connect() succeeds with a link; when it fails, or times out, there may be one yet.
AttemptConnect ==
  /\ user.op = "connect" /\ user.at = "call"
  /\ \/ /\ BringUp \/ (device.Connected /\ UNCHANGED bluezVars)
        /\ user' = [user EXCEPT !.at = "check", !.tries = @ + 1]
     \/ /\ BringUp \/ UNCHANGED bluezVars
        /\ user' = IF user.tries + 1 < MaxAttempts
                   THEN [user EXCEPT !.at = "call", !.tries = @ + 1]
                   ELSE [user EXCEPT !.at = "load", !.tries = @ + 1, !.final = TRUE]
  /\ UNCHANGED <<copyVars, calls, answer, async, callbackVars>>

\* Mutant of SetOnDisconnected: is_connected is not asked again once it is set.
SetOnDisconnected_Trusts ==
  /\ user.at = "load" /\ MutexFree
  /\ onDisconnected' = TRUE
  /\ Did(Returned(TRUE)) /\ owed' = TRUE
  /\ UNCHANGED <<bluezVars, copyVars, async, reporter, valueCallback, notifying>>

SetOnDisconnected ==
  /\ user.at = "load" /\ MutexFree
  /\ onDisconnected' = TRUE
  /\ Goto("check")
  /\ UNCHANGED <<bluezVars, copyVars, async, reporter, valueCallback, notifying, owed>>

DisconnectCleanup ==
  /\ user.at = "cleanup"
  /\ Cleanup
  /\ Goto("call")
  /\ UNCHANGED <<bluezVars, copyVars, async, onDisconnected, reporter, owed>>

\* Disconnect() ends the link, or throws, which disconnect lets pass.
AttemptDisconnect ==
  /\ user.op = "disconnect" /\ user.at = "call"
  /\ \/ /\ BringDown
        /\ user' = [user EXCEPT !.at = "check", !.tries = @ + 1]
        /\ notifying' = FALSE
        /\ UNCHANGED <<calls, answer>>
     \/ UNCHANGED <<bluezVars, notifying>> /\ Did(Thrown)
  /\ UNCHANGED <<copyVars, async, onDisconnected, reporter, valueCallback, owed>>

-----------------------------------------------------------------------------
\* What the program asks for is in the first service: the service, the characteristic
\* and its descriptor are looked up among the proxies, which may be gone by now.
HasService == services /\ Gatt # <<>>
HasCharacteristic == HasService /\ Gatt[1] > 0
HasDescriptor == HasCharacteristic

\* Then BlueZ is called, which refuses without a resolved link and may fail with one.
Refuse == Answer(Transferred(user.op, Thrown))
Transfer(has) ==
  /\ user.at = "operation"
  /\ \/ has /\ device.ServicesResolved /\ Answer(Transferred(user.op, Returned(1)))
     \/ Refuse
  /\ UNCHANGED <<bluezVars, copyVars, async, callbackVars>>

\* write_command is a write_request, indicate a notify, as far as the program can tell.
ReadWrite == user.op \in {"read", "write_request"} /\ Transfer(HasCharacteristic)
ReadWriteDescriptor ==
  user.op \in {"read_descriptor", "write_descriptor"} /\ Transfer(HasDescriptor)

\* mtu: that of the first characteristic there is, 0 if BlueZ never told it.
Mtu ==
  /\ user.op = "mtu" /\ user.at = "operation"
  /\ IF services /\ \E i \in DOMAIN Gatt : Gatt[i] > 0
     THEN \E told \in {0, LeastMtu} : Answer(MtuOf(Returned(WithoutHeader(told))))
     ELSE Answer(MtuOf(Returned(0)))
  /\ UNCHANGED <<bluezVars, copyVars, async, callbackVars>>

Notify ==
  /\ user.op = "notify" /\ user.at = "operation"
  /\ \/ HasCharacteristic /\ valueCallback' = TRUE /\ Goto("start")
     \/ ~HasCharacteristic /\ Refuse /\ UNCHANGED valueCallback
  /\ UNCHANGED <<bluezVars, copyVars, async, onDisconnected, reporter, notifying, owed>>

\* The callback stays when StartNotify throws.
StartNotify ==
  /\ user.at = "start"
  /\ \/ device.ServicesResolved /\ notifying' = TRUE /\ Did(Returned(TRUE))
     \/ Refuse /\ UNCHANGED notifying
  /\ UNCHANGED <<bluezVars, copyVars, async, onDisconnected, reporter, valueCallback, owed>>

\* unsubscribe leaves the callback.
Unsubscribe ==
  /\ user.op = "unsubscribe" /\ user.at = "operation"
  /\ \/ HasCharacteristic /\ notifying /\ notifying' = FALSE /\ Did(Returned(TRUE))
     \/ Refuse /\ UNCHANGED notifying
  /\ UNCHANGED <<bluezVars, copyVars, async, onDisconnected, reporter, valueCallback, owed>>

\* What a getter of the copy returns that BlueZ never told of, an empty text, 0 or
\* what the member was made with; and what it returns of what was told.  No
\* random address is recognised.
NeverHeard(op) ==
  CASE op = "tx_power" -> INT16_MIN [] op = "address_type" -> UNSPECIFIED [] OTHER -> 0
AddressType(kind) == IF kind = "public" THEN PUBLIC ELSE UNSPECIFIED
HeardOf(op) == IF op = "address_type" THEN {AddressType("public"), AddressType("random")} ELSE {1}

\* identifier, address, address_type, rssi, tx_power: of the copy, without a fetch.
Get(op, handle) ==
  /\ user.at = "idle" /\ calls < MaxCalls
  /\ calls' = calls + 1
  /\ IF handle = Null THEN answer' = OfNull(op)
     ELSE \E v \in HeardOf(op) \cup {NeverHeard(op)} : answer' = Getter(op, Returned(v))
  /\ UNCHANGED <<bluezVars, copyVars, user, async, callbackVars>>

\* manufacturer_data_get, _count: fetched, unless a signal made it invalid, parsed when
\* it was another value, under the lock again, and read under a third one.
FetchData ==
  /\ user.at = "data"
  /\ IF "ManufacturerData" \in valid THEN Fetch("ManufacturerData") ELSE UNCHANGED <<cache, valid>>
  /\ Goto(IF cache' = cache THEN "parsed" ELSE "parse")
  /\ UNCHANGED <<bluezVars, parsed, services, async, callbackVars>>

ParseData ==
  /\ user.at = "parse"
  /\ parsed' = cache.ManufacturerData
  /\ Goto("parsed")
  /\ UNCHANGED <<bluezVars, cache, valid, services, async, callbackVars>>

GetManufacturerData ==
  /\ user.at = "parsed"
  /\ LET entries == Returned(IF parsed = NoData THEN <<>> ELSE <<parsed>>)
     IN  \/ user.op = "manufacturer_data_count" /\ Answer(ManufacturerDataCount(entries))
         \/ /\ user.op = "manufacturer_data_get"
            /\ \E index \in {0, 1} : Answer(ManufacturerDataGet(entries, index))
  /\ UNCHANGED <<bluezVars, copyVars, async, callbackVars>>

-----------------------------------------------------------------------------
\* The thread of Bluez takes a signal, stores it, and tells who has to know.
Take ==
  /\ async = "idle" /\ signals # <<>>
  /\ signals' = Tail(signals)
  /\ LET signal == Head(signals)
     IN  IF "Services" \in DOMAIN signal
         THEN services' = signal["Services"] /\ UNCHANGED <<cache, valid, async>>
         ELSE /\ Store(signal)
              /\ async' = CASE "Connected" \in DOMAIN signal -> "connectedChanged"
                            [] "ManufacturerData" \in Changed(signal) -> "dataChanged"
                            [] OTHER -> "updated"
              /\ UNCHANGED services
  /\ UNCHANGED <<device, losses, adverts, parsed, programVars, callbackVars>>

\* Mutant of ConnectedChanged: services that are gone are taken for the news.
ConnectedChanged_Resolved ==
  /\ async = "connectedChanged"
  /\ async' = IF cache.ServicesResolved /\ ~cache.Connected /\ onDisconnected
              THEN "enter" ELSE "updated"
  /\ UNCHANGED <<bluezVars, copyVars, programVars, callbackVars>>

\* property_changed("Connected") looks at the copy, which may have changed since,
\* and safe_callback at _is_loaded, before it has the mutex.
ConnectedChanged ==
  /\ async = "connectedChanged"
  /\ async' = IF ~cache.Connected /\ onDisconnected THEN "enter" ELSE "updated"
  /\ UNCHANGED <<bluezVars, copyVars, programVars, callbackVars>>

\* A callback that was cleared meanwhile is called for all that: the exception
\* ends the handling of the signal.
EnterCallback ==
  /\ async = "enter" /\ reporter = "none"
  /\ IF onDisconnected
     THEN async' = "report" /\ reporter' = "async" /\ owed' = FALSE
     ELSE async' = "idle" /\ UNCHANGED <<reporter, owed>>
  /\ UNCHANGED <<bluezVars, copyVars, programVars, onDisconnected, valueCallback, notifying>>

\* Mutant of Report: the mutex is not given back.
Report_KeepsMutex ==
  /\ async = "report"
  /\ Cleanup
  /\ async' = "updated"
  /\ UNCHANGED <<bluezVars, copyVars, programVars, onDisconnected, reporter, owed>>

\* The callback of connect: cleanup, and the callback of the program.
Report ==
  /\ async = "report"
  /\ Cleanup
  /\ reporter' = "none" /\ async' = "updated"
  /\ UNCHANGED <<bluezVars, copyVars, programVars, onDisconnected, owed>>

DataChanged ==
  /\ async = "dataChanged"
  /\ parsed' = cache.ManufacturerData
  /\ async' = "updated"
  /\ UNCHANGED <<bluezVars, cache, valid, services, programVars, callbackVars>>

-----------------------------------------------------------------------------
\* BlueZ on its own: services are resolved, the link is lost (and with it what
\* this client subscribed to), the device advertises other data.
Environment ==
  /\ \/ (Resolve \/ \E d \in Data \cup {NoData} : Advertise(d)) /\ UNCHANGED notifying
     \/ BringDown /\ notifying' = FALSE
  /\ UNCHANGED <<copyVars, programVars, async, onDisconnected, reporter, valueCallback, owed>>

UserStep ==
  \/ Check \/ CheckChanged \/ Lost \/ CheckResolved \/ Look
  \/ ClearOnDisconnected \/ AttemptConnect \/ SetOnDisconnected
  \/ DisconnectCleanup \/ AttemptDisconnect
  \/ ReadWrite \/ ReadWriteDescriptor \/ Mtu \/ Notify \/ StartNotify \/ Unsubscribe
  \/ FetchData \/ ParseData \/ GetManufacturerData
AsyncStep == Take \/ ConnectedChanged \/ EnterCallback \/ Report \/ DataChanged
=============================================================================
