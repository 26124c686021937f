------------------------- MODULE WindowsPeripheral -------------------------
(***************************************************************************)
(* PeripheralBase of the Windows backend of SimpleBLE, called through the  *)
(* C bindings by one thread of the program.  The events of WinRT (the      *)
(* status of the connection, what is received of a device) are handled on  *)
(* threads of its own.                                                     *)
(*                                                                         *)
(* A result of WinRT that is waited for is there (and tells of success or  *)
(* not), or async_get throws.                                              *)
(***************************************************************************)
EXTENDS Facade, FiniteSets

CONSTANTS
  Gatt,        \* the services of the device: how many characteristics each has
  Garbage,     \* what mtu_ may be before it is written
  MaxAttempts, \* attempts to connect, 3 in the code
  MaxEvents,   \* bound: handlers of a changed status that wait to run
  MaxLosses,   \* bound: links lost
  MaxCalls     \* bound: calls of the program

ASSUME PeripheralAssumption ==
  /\ Gatt \in Seq(Nat)
  /\ {MaxEvents, MaxLosses, MaxCalls} \subseteq Nat /\ MaxAttempts \in Nat \ {0}
ASSUME GarbageAssumption == Garbage \subseteq 0 .. 65535

VARIABLES
  user,          \* the call under way, where it is and its attempts
  calls,         \* calls so far
  answer,        \* what the last call came to
  link,          \* BluetoothLEDevice::ConnectionStatus is Connected
  losses,        \* links lost
  handlers,      \* handlers of ConnectionStatusChanged
  events,        \* of them, those a change of status has yet to run
  status,        \* where the handler that runs is
  gattMap,       \* gatt_map_: how many of the services it has
  mtuKnown,      \* mtu_ was written
  valueHandlers, \* handlers of ValueChanged of a characteristic in it
  notifying,     \* the device notifies that characteristic
  owed           \* the program was told it is connected, and nothing since
programVars == <<user, calls, answer>>
linkVars == <<link, losses, handlers, events>>
gattVars == <<gattMap, mtuKnown, valueHandlers, notifying>>
peripheralVars == <<programVars, linkVars, status, gattVars, owed>>

Idle == [op |-> "none", at |-> "idle", tries |-> 0]
NoAnswer == Reply("none", Untouched)

PeripheralInit ==
  /\ user = Idle /\ calls = 0 /\ answer = NoAnswer
  /\ link = FALSE /\ losses = 0 /\ handlers = 0 /\ events = 0 /\ status = "idle"
  /\ gattMap = 0 /\ mtuKnown = FALSE /\ valueHandlers = 0 /\ notifying = FALSE /\ owed = FALSE

-----------------------------------------------------------------------------
PeripheralOps == {"connect", "disconnect", "is_connected", "is_paired", "unpair",
                  "services_count", "services_get", "mtu", "read", "write_request",
                  "read_descriptor", "write_descriptor", "notify", "unsubscribe"}
Entry(op) == CASE op = "connect" -> "attempt" [] op = "disconnect" -> "close" [] OTHER -> op

\* A call of the bindings; a null handle is refused at once.
Call(op, handle, entry) ==
  /\ user.at = "idle" /\ calls < MaxCalls
  /\ calls' = calls + 1
  /\ IF handle = Null
     THEN answer' = OfNull(op) /\ UNCHANGED user
     ELSE user' = [Idle EXCEPT !.op = op, !.at = entry] /\ answer' = NoAnswer

Goto(at) == user' = [user EXCEPT !.at = at] /\ UNCHANGED <<calls, answer>>
Answer(reply) == user' = Idle /\ answer' = reply /\ UNCHANGED calls
Did(outcome) == Answer(PeripheralCommand(PeripheralCall(TRUE, outcome)))

\* The status changed: every handler that is registered is to run.
Raise == events + handlers <= MaxEvents /\ events' = events + handlers

-----------------------------------------------------------------------------
\* Mutant of Failed: one attempt more.
Failed_OneMore(tries) ==
  /\ user' = [user EXCEPT !.at = IF tries <= MaxAttempts THEN "attempt" ELSE "connected",
                          !.tries = tries]
  /\ UNCHANGED <<calls, answer>>

\* A failed attempt is followed by another, or by the look at the link.
Failed(tries) ==
  /\ user' = [user EXCEPT !.at = IF tries < MaxAttempts THEN "attempt" ELSE "connected",
                          !.tries = tries]
  /\ UNCHANGED <<calls, answer>>

\* _attempt_connect: the map is cleared and the services are asked for, which
\* brings up the link.
Attempt ==
  /\ user.at = "attempt"
  /\ gattMap' = 0 /\ valueHandlers' = 0
  /\ \/ link' = TRUE /\ (IF link THEN UNCHANGED events ELSE Raise) /\ Goto("services")
     \/ UNCHANGED <<link, events>> /\ Failed(user.tries + 1)
     \/ UNCHANGED <<link, events>> /\ Did(Thrown)
  /\ UNCHANGED <<losses, handlers, status, mtuKnown, notifying, owed>>

\* One service after the other with all it has; one that fails ends the attempt
\* and leaves those before it in the map.  Each brings the MTU first.
AttemptService ==
  /\ user.at = "services"
  /\ \/ gattMap = Len(Gatt) /\ Goto("connected") /\ UNCHANGED <<gattMap, mtuKnown>>
     \/ /\ gattMap < Len(Gatt)
        /\ gattMap' = gattMap + 1 /\ mtuKnown' = TRUE
        /\ UNCHANGED programVars
     \/ gattMap < Len(Gatt) /\ Failed(user.tries + 1) /\ mtuKnown' = TRUE /\ UNCHANGED gattMap
     \/ gattMap < Len(Gatt) /\ Did(Thrown) /\ mtuKnown' \in {mtuKnown, TRUE} /\ UNCHANGED gattMap
  /\ UNCHANGED <<linkVars, status, valueHandlers, notifying, owed>>

\* connect throws nothing of its own: it returns when there is no link, too.
Connected ==
  /\ user.at = "connected"
  /\ IF link THEN Goto("register") ELSE Did(Returned(TRUE))
  /\ UNCHANGED <<linkVars, status, gattVars, owed>>

\* Mutant of Register: the program is told first.
Register_AfterAnnounce ==
  /\ user.at = "register"
  /\ owed' = link
  /\ Goto("announce")
  /\ UNCHANGED <<linkVars, status, gattVars>>

\* A handler for each call of connect; only the token of the last is kept.
Register ==
  /\ user.at = "register"
  /\ handlers' = handlers + 1
  /\ Goto("announce")
  /\ UNCHANGED <<link, losses, events, status, gattVars, owed>>

\* callback_on_connected_
Announce ==
  /\ user.at = "announce"
  /\ owed' = link
  /\ Did(Returned(TRUE))
  /\ UNCHANGED <<linkVars, status, gattVars>>

-----------------------------------------------------------------------------
\* disconnect: the map goes, the device is closed, with it the link unless
\* another program holds it.  A closed device may tell its handlers or not.
Close ==
  /\ user.at = "close"
  /\ gattMap' = 0 /\ valueHandlers' = 0 /\ owed' = FALSE
  /\ \/ link /\ link' = FALSE /\ notifying' = FALSE /\ (Raise \/ UNCHANGED events)
     \/ UNCHANGED <<link, notifying, events>>
  /\ Goto("closing")
  /\ UNCHANGED <<losses, handlers, status, mtuKnown>>

\* The predicate of the wait, then the wait.  A handler notifies without the mutex,
\* so it may do so between the two.
Closing ==
  /\ user.at = "closing"
  /\ IF link THEN Goto("asleepClosing") ELSE Did(Returned(TRUE))
  /\ UNCHANGED <<linkVars, status, gattVars, owed>>

\* Mutant of GiveUp: a wait without end.
GiveUp_Never == FALSE

\* After 5 s the wait is over, and the call as good as any.
GiveUp ==
  /\ user.at = "asleepClosing"
  /\ Did(Returned(TRUE))
  /\ UNCHANGED <<linkVars, status, gattVars, owed>>

-----------------------------------------------------------------------------
IsConnected ==
  /\ user.at = "is_connected"
  /\ Answer(PeripheralFlag(PeripheralCall(TRUE, Returned(link))))
  /\ UNCHANGED <<linkVars, status, gattVars, owed>>

\* is_paired and unpair are not supported.
Unsupported ==
  /\ \/ user.at = "is_paired" /\ Answer(PeripheralFlag(Thrown))
     \/ user.at = "unpair" /\ Did(Thrown)
  /\ UNCHANGED <<linkVars, status, gattVars, owed>>

\* services() of the frontend: what is in the map while there is a link, else what
\* is advertised (how many services).
Services(advertised) ==
  /\ LET services == IF link THEN SubSeq(Gatt, 1, gattMap)
                     ELSE [i \in 1 .. advertised |-> 0]
     IN  \/ user.at = "services_count" /\ Answer(Value(PeripheralCount(Returned(services))))
         \/ /\ user.at = "services_get"
            /\ \E index \in 0 .. Len(Gatt) : Answer(ServicesGet(Returned(services), index))
  /\ UNCHANGED <<linkVars, status, gattVars, owed>>

\* mtu: what mtu_ happens to be, if the link came up and no service was read.
Mtu ==
  /\ user.at = "mtu"
  /\ IF link
     THEN \E size \in IF mtuKnown THEN {LeastMtu} ELSE Garbage :
            Answer(MtuOf(Returned(WithoutHeader(size))))
     ELSE Answer(MtuOf(Returned(0)))
  /\ UNCHANGED <<linkVars, status, gattVars, owed>>

\* The characteristic is one of the first service, the descriptor one of it.
\* _fetch_characteristic and _fetch_descriptor throw unless the map has them.
Found == gattMap > 0 /\ Gatt[1] > 0
FoundDescriptor == Found
Reachable == CheckedCall(TRUE, link, IF Found THEN Returned(TRUE) ELSE Thrown).ok
DescriptorReachable ==
  CheckedCall(TRUE, link, IF FoundDescriptor THEN Returned(TRUE) ELSE Thrown).ok

Transfer(reachable) ==
  /\ \E outcome \in {Thrown} \cup (IF reachable THEN {Returned(1)} ELSE {}) :
       Answer(Transferred(user.op, outcome))
  /\ UNCHANGED <<linkVars, status, gattVars, owed>>

\* write_command is a write_request, indicate a notify, as far as the program can tell.
ReadWrite == user.at \in {"read", "write_request"} /\ Transfer(Reachable)
ReadWriteDescriptor ==
  user.at \in {"read_descriptor", "write_descriptor"} /\ Transfer(DescriptorReachable)

\* The handler comes before the write that may fail, and stays when it does.
Notify ==
  /\ user.at = "notify"
  /\ IF Reachable
     THEN valueHandlers' = valueHandlers + 1 /\ Goto("startNotify")
     ELSE Did(Thrown) /\ UNCHANGED valueHandlers
  /\ UNCHANGED <<linkVars, status, gattMap, mtuKnown, notifying, owed>>

StartNotify ==
  /\ user.at = "startNotify"
  /\ \/ link /\ notifying' = TRUE /\ Did(Returned(TRUE))
     \/ Did(Thrown) /\ UNCHANGED notifying
  /\ UNCHANGED <<linkVars, status, gattMap, mtuKnown, valueHandlers, owed>>

\* The handlers stay.
Unsubscribe ==
  /\ user.at = "unsubscribe"
  /\ \/ Reachable /\ notifying' = FALSE /\ Did(Returned(TRUE))
     \/ Did(Thrown) /\ UNCHANGED notifying
  /\ UNCHANGED <<linkVars, status, gattMap, mtuKnown, valueHandlers, owed>>

-----------------------------------------------------------------------------
\* A handler of ConnectionStatusChanged looks at the status as it is by now and
\* wakes disconnect.
StatusChanged ==
  /\ events > 0 /\ status = "idle"
  /\ events' = events - 1
  /\ IF link THEN UNCHANGED <<status, user>>
     ELSE /\ status' = "report"
          /\ user' = IF user.at = "asleepClosing" THEN [user EXCEPT !.at = "closing"] ELSE user
  /\ UNCHANGED <<calls, answer, link, losses, handlers, gattVars, owed>>

\* callback_on_disconnected_
Report ==
  /\ status = "report"
  /\ status' = "idle" /\ owed' = FALSE
  /\ UNCHANGED <<programVars, linkVars, gattVars>>

LoseLink ==
  /\ link /\ losses < MaxLosses
  /\ link' = FALSE /\ notifying' = FALSE /\ losses' = losses + 1
  /\ Raise
  /\ UNCHANGED <<programVars, handlers, status, gattMap, mtuKnown, valueHandlers, owed>>

UserStep ==
  \/ Attempt \/ AttemptService \/ Connected \/ Register \/ Announce
  \/ Close \/ Closing \/ GiveUp
  \/ IsConnected \/ Unsupported \/ Mtu \/ ReadWrite \/ ReadWriteDescriptor
  \/ Notify \/ StartNotify \/ Unsubscribe
HandlerStep == StatusChanged \/ Report
=============================================================================
