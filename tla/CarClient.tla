----------------------------- MODULE CarClient -----------------------------
(***************************************************************************)
(* The client program: main.cpp on top of class BLERCCar_client, as the    *)
(* threads they start see it.                                              *)
(*                                                                         *)
(*   main       connects, starts the printing thread, reads keys, leaves;  *)
(*   printer    prints while the car is connected and reconnects when it   *)
(*              is not, until a reconnection fails;                        *)
(*   keepAlive  runs the callbacks of SimpleBluez (thread BluezKeepAlive); *)
(*   rssi[i]    the i-th thread called ConnectionRssi, one a connection.   *)
(*                                                                         *)
(* Of the values it prints the model keeps the distances, which the car    *)
(* sends ten times a second, and of these the connection they are from.    *)
(*                                                                         *)
(* External: SimpleBluez and the Bluetooth service, whose calls succeed or *)
(* throw SendFailed.  Where nothing catches it the program is aborted.     *)
(***************************************************************************)
EXTENDS Integers, FiniteSets, Sequences

CONSTANTS
  ConnectionAttempts,  \* m_ConnectionAttempts
  LossBound,           \* how often a link may be lost (bound of the runs)
  ReportBound          \* reports of the car on their way (bound of the runs)

ASSUME AttemptsAssumption == ConnectionAttempts \in Nat \ {0}
ASSUME LossAssumption == LossBound \in Nat
ASSUME ReportAssumption == ReportBound \in Nat \ {0}

VARIABLES
  main,         \* where the main thread is
  printer,      \* where the printing thread is
  step,         \* where whoever is inside Connect is
  attempt,      \* attempt of Connect
  keepRunning,  \* keep_running
  active,       \* m_AsyncThreadActive
  found,        \* the car is in m_Peripherals
  peripheral,   \* m_Peripheral is the car, not nullptr
  keepAlive,    \* the keep-alive thread
  rssi,         \* the RSSI threads, in the order they were started
  entry,        \* the RSSI thread m_Async_thread_map points to, 0 for none
  joined,       \* entries of m_Async_thread_map that disconnect has joined
  link,         \* the car is connected
  subscribed,   \* the callbacks of this connection are in place
  losses,       \* links lost so far
  reports,      \* the connections of the reports that are on their way
  shown         \* the connection m_DistanceMeasurements are from, 0 at first

threadVars  == <<keepAlive, rssi>>
programVars == <<main, printer, keepRunning>>
clientVars  == <<active, found, peripheral, entry, joined>>
linkVars    == <<link, subscribed, losses>>
reportVars  == <<reports, shown>>
vars == <<programVars, step, attempt, clientVars, threadVars, linkVars,
          reportVars>>

RssiThreads == 1 .. LossBound + 1
NoThread    == 0

Started  == Cardinality({i \in RssiThreads : rssi[i] # "none"})
InProcess == main \notin {"exited", "aborted"}
Aborted   == main = "aborted"

\* The client is constructed and its keep-alive thread started.
Init ==
  /\ main = "connect"        /\ printer = "off"
  /\ step = "adapter"        /\ attempt = 0
  /\ keepRunning = TRUE      /\ active = TRUE
  /\ found = FALSE           /\ peripheral = FALSE
  /\ keepAlive = "running"   /\ rssi = [i \in RssiThreads |-> "none"]
  /\ entry = NoThread        /\ joined = {}
  /\ link = FALSE            /\ subscribed = FALSE
  /\ losses = 0
  /\ reports = <<>>        /\ shown = 0

-----------------------------------------------------------------------------
(***************************************************************************)
(* BLERCCar_client::Connect, run by main at first and by printer later.    *)
(***************************************************************************)
ConnectAt(place) == InProcess /\ step = place

\* Connect returns to its caller: main starts the printing thread or leaves,
\* printer goes on or gives up.
ConnectReturns(connected) ==
  /\ step' = "outside" /\ attempt' = 0
  /\ UNCHANGED keepRunning
  /\ IF printer = "connect"
     THEN /\ printer' = IF connected THEN "check" ELSE "done"
          /\ UNCHANGED main
     ELSE /\ printer' = IF connected THEN "check" ELSE "off"
          /\ main' = IF connected THEN "keys" ELSE "destroy"

\* An exception nobody catches.
Abort == main' = "aborted" /\ UNCHANGED <<printer, keepRunning>>

\* There is one adapter, or the user picks one, and may pick badly.
ChooseAdapter ==
  /\ ConnectAt("adapter")
  /\ \/ step' = "scan" /\ UNCHANGED <<programVars, attempt>>
     \/ ConnectReturns(FALSE)
  /\ UNCHANGED <<clientVars, threadVars, linkVars, reportVars>>

\* Discovery takes three seconds, in which keepAlive may report the car.
Scan ==
  /\ ConnectAt("scan")
  /\ \/ step' = "search" /\ UNCHANGED programVars
     \/ step' = step /\ Abort
  /\ UNCHANGED <<attempt, clientVars, threadVars, linkVars, reportVars>>

\* A reconnection finds the car where the first connection left it.
Search ==
  /\ ConnectAt("search")
  /\ IF found
     THEN /\ peripheral' = TRUE
          /\ step' = "attempt" /\ attempt' = 0
          /\ UNCHANGED programVars
     ELSE ConnectReturns(FALSE) /\ UNCHANGED peripheral
  /\ UNCHANGED <<active, found, entry, joined, threadVars, linkVars, reportVars>>

\* Mutant of Attempt: as often as it takes.
Attempt_UntilConnected ==
  /\ ConnectAt("attempt")
  /\ IF ~link
     THEN /\ attempt' = (attempt + 1) % ConnectionAttempts /\ UNCHANGED step
          /\ link' \in {link, TRUE}
     ELSE step' = "verify" /\ UNCHANGED <<attempt, link>>
  /\ UNCHANGED <<programVars, clientVars, threadVars, subscribed, losses, reportVars>>

\* The loop does not end with a success: it connects a connected car again.
Attempt ==
  /\ ConnectAt("attempt")
  /\ IF attempt < ConnectionAttempts
     THEN /\ attempt' = attempt + 1 /\ UNCHANGED step
          /\ link' \in {link, TRUE}
     ELSE step' = "verify" /\ UNCHANGED <<attempt, link>>
  /\ UNCHANGED <<programVars, clientVars, threadVars, subscribed, losses, reportVars>>

\* A connected car may not have its services resolved yet.
Verify ==
  /\ ConnectAt("verify")
  /\ \/ link /\ step' = "rssi" /\ UNCHANGED <<programVars, attempt>>
     \/ ConnectReturns(FALSE)
  /\ UNCHANGED <<clientVars, threadVars, linkVars, reportVars>>

\* initRssiReadThread: the map forgets the thread of the last connection.
InitRssiReadThread ==
  /\ ConnectAt("rssi")
  /\ LET new == Started + 1
     IN  rssi' = [rssi EXCEPT ![new] = "running"] /\ entry' = new
  /\ step' = "map"
  /\ UNCHANGED <<programVars, attempt, active, found, peripheral, joined,
                 keepAlive, linkVars, reportVars>>

MapCharacteristics ==
  /\ ConnectAt("map")
  /\ step' = "attach"
  /\ UNCHANGED <<programVars, attempt, clientVars, threadVars, linkVars, reportVars>>

\* Mutant of AttachCallbacks: those of the first connection are kept.
AttachCallbacks_Once ==
  /\ ConnectAt("attach")
  /\ ConnectReturns(TRUE)
  /\ subscribed' = (Started = 1)
  /\ UNCHANGED <<clientVars, threadVars, link, losses, reportVars>>

\* attachDistanceMeasurementsCallback and attachNewDriveModeCallback:
\* start_notify throws if the car is gone by now.
AttachCallbacks ==
  /\ ConnectAt("attach")
  /\ IF link THEN ConnectReturns(TRUE) /\ subscribed' = TRUE
             ELSE Abort /\ UNCHANGED <<step, attempt, subscribed>>
  /\ UNCHANGED <<clientVars, threadVars, link, losses, reportVars>>

Connect == \/ ChooseAdapter \/ Scan   \/ Search             \/ Attempt
           \/ Verify        \/ InitRssiReadThread           \/ MapCharacteristics
           \/ AttachCallbacks

-----------------------------------------------------------------------------
(* print_thread: it stays in its loop while the car is connected. *)

PrinterEnds ==
  /\ InProcess /\ printer = "check" /\ ~keepRunning
  /\ printer' = "done"
  /\ UNCHANGED <<main, keepRunning, step, attempt, clientVars, threadVars, linkVars, reportVars>>

Reconnect ==
  /\ InProcess /\ printer = "check" /\ keepRunning /\ ~link
  /\ printer' = "connect" /\ step' = "adapter"
  /\ UNCHANGED <<main, keepRunning, attempt, clientVars, threadVars, linkVars, reportVars>>

Printer == PrinterEnds \/ Reconnect

-----------------------------------------------------------------------------
(* main, and ~BLERCCar_client when it leaves. *)

\* A command to a car that is gone throws.
Command ==
  /\ main = "keys" /\ ~link
  /\ Abort
  /\ UNCHANGED <<step, attempt, clientVars, threadVars, linkVars, reportVars>>

QuitKey ==
  /\ main = "keys"
  /\ keepRunning' = FALSE /\ main' = "leave"
  /\ UNCHANGED <<printer, step, attempt, clientVars, threadVars, linkVars, reportVars>>

JoinPrinter ==
  /\ main = "leave" /\ printer = "done"
  /\ main' = "destroy"
  /\ UNCHANGED <<printer, keepRunning, step, attempt, clientVars, threadVars, linkVars, reportVars>>

\* disconnect: without a peripheral it does nothing, and disconnecting a car
\* that is gone may throw, out of a destructor.
DisconnectPeripheral ==
  /\ main = "destroy"
  /\ \/ ~peripheral /\ main' = "destroyed"
     \/ peripheral /\ main' = "stop"
     \/ peripheral /\ ~link /\ main' = "aborted"
  /\ link' = FALSE /\ subscribed' = FALSE
  /\ UNCHANGED <<printer, keepRunning, step, attempt, clientVars, threadVars, losses,
                 reportVars>>

\* Mutant of StopThreads: the flag is left to the destructor of the member.
StopThreads_KeepFlag ==
  /\ main = "stop"
  /\ main' = "join"
  /\ UNCHANGED <<printer, keepRunning, step, attempt, clientVars, threadVars, linkVars, reportVars>>

StopThreads ==
  /\ main = "stop"
  /\ active' = FALSE
  /\ main' = "join"
  /\ UNCHANGED <<printer, keepRunning, step, attempt, found, peripheral, entry,
                 joined, threadVars, linkVars, reportVars>>

Entries == {"keepAlive"} \cup IF entry = NoThread THEN {} ELSE {"rssi"}
Ended(name) == IF name = "rssi" THEN rssi[entry] = "ended" ELSE keepAlive = "ended"

\* Mutant of JoinThread: it asks for joinable and does not join.
JoinThread_NoWait ==
  /\ main = "join"
  /\ \E name \in Entries \ joined : joined' = joined \cup {name}
  /\ UNCHANGED <<programVars, step, attempt, active, found, peripheral, entry,
                 threadVars, linkVars, reportVars>>

JoinThread ==
  /\ main = "join"
  /\ \E name \in Entries \ joined : Ended(name) /\ joined' = joined \cup {name}
  /\ UNCHANGED <<programVars, step, attempt, active, found, peripheral, entry,
                 threadVars, linkVars, reportVars>>

ClientDestroyed ==
  /\ main = "join" /\ joined = Entries
  /\ main' = "destroyed"
  /\ UNCHANGED <<printer, keepRunning, step, attempt, clientVars, threadVars, linkVars, reportVars>>

Exit ==
  /\ main = "destroyed"
  /\ main' = "exited"
  /\ UNCHANGED <<printer, keepRunning, step, attempt, clientVars, threadVars, linkVars, reportVars>>

Leave == \/ JoinPrinter \/ DisconnectPeripheral \/ StopThreads
         \/ JoinThread  \/ ClientDestroyed      \/ Exit

-----------------------------------------------------------------------------
(* The threads of the client, and the car. *)

\* The callback given to set_on_device_updated adds the car to m_Peripherals.
DeviceUpdated ==
  /\ InProcess /\ keepAlive = "running" /\ step # "adapter" /\ ~found
  /\ found' = TRUE
  /\ UNCHANGED <<programVars, step, attempt, active, peripheral, entry, joined,
                 threadVars, linkVars, reportVars>>

KeepAliveEnds ==
  /\ InProcess /\ keepAlive = "running" /\ ~active
  /\ keepAlive' = "ended"
  /\ UNCHANGED <<programVars, step, attempt, clientVars, rssi, linkVars, reportVars>>

RssiEnds(i) ==
  /\ InProcess /\ rssi[i] = "running" /\ ~active
  /\ rssi' = [rssi EXCEPT ![i] = "ended"]
  /\ UNCHANGED <<programVars, step, attempt, clientVars, keepAlive, linkVars, reportVars>>

LinkLost ==
  /\ InProcess /\ link /\ losses < LossBound
  /\ link' = FALSE /\ subscribed' = FALSE /\ losses' = losses + 1
  /\ UNCHANGED <<programVars, step, attempt, clientVars, threadVars, reportVars>>

\* ConnectivityManagementTask_t of the car: it sends the distances in every round
\* of a session, to a client that has asked for them.
NotifyNewDistanceRead ==
  /\ InProcess /\ link /\ subscribed /\ Len(reports) < ReportBound
  /\ reports' = Append(reports, Started)
  /\ UNCHANGED <<programVars, step, attempt, clientVars, threadVars, linkVars, shown>>

\* run_async of the keep-alive thread: the callback stores the values of a report,
\* also when its connection is gone.
RunAsync ==
  /\ InProcess /\ keepAlive = "running" /\ reports # <<>>
  /\ shown' = Head(reports) /\ reports' = Tail(reports)
  /\ UNCHANGED <<programVars, step, attempt, clientVars, threadVars, linkVars>>

Next == \/ Connect \/ Printer \/ Leave
        \/ Command \/ QuitKey \/ LinkLost \/ DeviceUpdated
        \/ NotifyNewDistanceRead \/ RunAsync
        \/ KeepAliveEnds \/ \E i \in RssiThreads : RssiEnds(i)

Spec == Init /\ [][Next]_vars

\* The operating system runs every thread, calls of the Bluetooth service
\* return or throw, and the bus is quiet now and then, so that the keep-alive
\* thread gets to look at its flag.  The car sends its distances for as long as
\* the link stands.  Nothing is assumed of the user and the link.
Fairness == /\ WF_vars(Connect) /\ WF_vars(Printer) /\ WF_vars(Leave)
            /\ WF_vars(KeepAliveEnds) /\ WF_vars(RunAsync)
            /\ WF_vars(NotifyNewDistanceRead)
            /\ \A i \in RssiThreads : WF_vars(RssiEnds(i))

FairSpec == Spec /\ Fairness

-----------------------------------------------------------------------------
\* A client that had found its car outlives the callbacks, which use it by
\* reference, and the RSSI thread of the last connection (disconnect).
KnownThreadsEnd ==
  (main = "destroyed" /\ peripheral) => \A name \in Entries : Ended(name)

\* When the printing thread finds the car connected, the distances it prints may be
\* those of an earlier connection, which nothing resets and late reports may still
\* write; but those of this one replace them, unless the link is lost first
\* (GetDistanceMeasurements, attachDistanceMeasurementsCallback).
StaleValuesAreReplaced == (printer = "check" /\ link) ~> (shown = Started \/ ~link)

\* The quit key ends the program, also in the middle of a reconnection, unless
\* a call that fails aborts it (main, print_thread, disconnect).
QuitEnds == (main = "leave") ~> (main \in {"exited", "aborted"})

\* A lost car is sought until it is there again or a reconnection has failed
\* (print_thread, "Car is disconnected, Reconnecting").
LostCarIsSought ==
  (printer = "check" /\ ~link) ~>
    (link \/ printer = "done" \/ ~keepRunning \/ Aborted)

\* Before a client that had found its car is gone it waits for its threads:
\* "Disconnecting from {}. Waiting for {} to stop working" (disconnect).
NoThreadOutlivesClient ==
  (main = "destroyed" /\ peripheral) =>
    keepAlive = "ended" /\ \A i \in RssiThreads : rssi[i] # "running"
=============================================================================
