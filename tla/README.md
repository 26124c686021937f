# Verification of BLEControlledCar

A radio-controlled car rebuilt around an ESP32.  The firmware is a BLE server
that drives two motors; a console program on a Linux computer is its client and
reaches it through SimpleBLE.  This directory holds a TLA+ model of that chain,
the TLC runs that check it on small instances, and theorems about it whose
proofs TLAPS checks.

- [The system](#the-system)
- [The modules](#the-modules)
- [The runs](#the-runs)
- [Assumptions, bounds and fairness](#assumptions-bounds-and-fairness)
- [The proofs](#the-proofs)
- [Disagreements found](#disagreements-found)
- [Noted without a run](#noted-without-a-run)
- [Not modelled](#not-modelled)
- [What is left](#what-is-left)

Paths below are relative to `src/BLERCcar/`; those of the library, to
`src/BLERCcar/BLERCcar_client/lib/SimpleBLE/`.

## The system

### Components

| component | source | state | operations |
|---|---|---|---|
| packets and drive modes | `common/BLERCCar_packets.hpp`, `common/common.hpp` | two bytes: command, amount | construct, `GetPayload`, `GetDriveMode` |
| car and motors | `BLERCcar_server/Car.hpp`, `Motor.hpp` | `m_Mode`; two pins and a PWM duty for each of two motors | `SetDriveMode`, `SetSpeed`, `TurnLeft`, `TurnRight`, `CurrentDriveMode` |
| BLE callbacks | `BLERCcar_server/BLECallbacks.hpp`, `BLEManager_context.hpp` | `Context`: `DeviceConnected`, `DisconnectionTime`, the controller | `onConnect`, `onDisconnect`, `onWrite` |
| connectivity task | `BLERCcar_server/BLEManager.hpp` | `tmp_drive_mode`, its place in its loops | `ConnectivityManagementTask_t`, `manage_disconnection_timeout`, `NotifyNewDriveMode`, `NotifyNewDistanceRead`, `Advertise`, the constructor |
| distance sensors | `BLERCcar_server/DistanceSensor.hpp` | none | one measurement |
| client | `BLERCcar_client/BLERCCar_client.cpp` | `m_Peripherals`, `m_Peripheral`, `m_CharMap`, `m_Async_thread_map`, `m_AsyncThreadActive`, the last mode, distances and RSSI | `Connect`, `Disconnect`, `TurnLeft`, `TurnRight`, `SetDriveMode`, `SetSpeed`, the notification callbacks |
| console program | `BLERCcar_client/main.cpp` | `keep_running` | the key loop; a thread that prints and reconnects |
| SimpleDBus | `simpledbus` | messages of libdbus and the objects that own them; values; a tree of proxies with their interfaces; cached properties | create, copy, move, append, extract; add, remove and prune paths; load and unload interfaces; fetch and store properties |
| SimpleBluez | `simplebluez` | the root of that tree, the agent, the callbacks of devices | `init`, `run_async`, the calls of each interface, `Agent1::message_handle` |
| SimpleBLE, Linux backend | `simpleble/src/backends/linux` | `is_scanning_`, `seen_peripherals_`, callbacks, two condition variables | `connect`, `disconnect`, scans, reads, subscriptions |
| SimpleBLE, Windows backend | `simpleble/src/backends/windows` | `scan_is_active_`, `peripherals_`, `gatt_map_`, event handlers | the same |
| frontends and C bindings | `simpleble/src/frontends`, `simpleble/src_c` | none | a result or an exception becomes a status and values written through pointers |

### How they interact

The client writes two-byte packets to two characteristics of the car: drive
(mode, speed) and steering (`'L'` or `'R'`, percentage).  The BLE library of the
ESP32 runs the callbacks on a task of its own, one at a time; a callback calls
methods of `Car` through `Icontroller`.  A second task, the connectivity task,
polls `DeviceConnected`.  While a client is there it compares the drive mode
with the one it last reported, notifies a change, measures distances and sleeps
100 ms.  When the flag falls it stops the car and advertises again.  While
nobody is there it blinks for over a second at a time and, after each blink,
stops the car if the last disconnection is more than ten seconds ago.  The two
tasks share `Context` and `Car` without a lock.

On the computer, SimpleBLE turns a call into calls on proxies of SimpleBluez,
these into D-Bus messages, which SimpleDBus encodes.  Signals of BlueZ come back
on a thread that calls `run_async` every 100 us: it takes a message, walks the
tree of proxies to the object it is about, stores the changed properties in that
object's interface and runs callbacks.  The calling thread fetches properties
into the same copy.  A callback runs under the mutex of its
`kvn::safe_callback`.  On Windows, threads of WinRT run the handlers of events
while the calling thread waits on a condition variable.

### What is hard here

- *Interleaving.* Both tasks of the firmware call `SetDriveMode`.  On the
  computer, the thread of signals reports a loss while the program connects,
  disconnects or clears the callback.
- *Stale reads.* The connectivity task acts on a `DeviceConnected` it read
  before a sleep; the copy of a property is newer than a signal that is still to
  come, or older.
- *Order.* Commands may still be queued when a link is lost; the stop of one
  session must not reach the next; signals about objects arrive after their
  parents are gone; a `Stopped` event belongs to a scan that is over.
- *Liveness.* Only the connectivity task can make the car visible again; every
  wait of a backend must end although its wake-up may be lost; a loss must be
  told.
- *Retries.* An attempt to connect that failed may have brought up the link; its
  signals arrive during the next one.
- *Lifetime.* Threads are started at each connection and joined once; proxies
  are held by the program while their objects go; libdbus messages are copied,
  moved and freed.
- *Numbers and encoding.* An amount is any byte, `map()` does not clamp,
  `millis()` wraps, a packet of raw bytes is passed where a C string is expected,
  a getter narrows 64 bits to the type it was asked for.

### What makes each part correct

| part | correct when |
|---|---|
| packets | the receiver reads the command and amount that were sent |
| car | the pins are those of the reported mode; the steering motor is pushed one way or not at all; duties stay in range |
| callbacks and task | no client, no motion; nobody's session is stopped for another's loss; every session starts by being told the mode; a lost car becomes visible again |
| client | every thread is joined once; a lost car is sought; what is printed does not stay that of an earlier connection; `q` ends the program |
| messages and values | every message of libdbus has exactly the owners that free it; what is extracted is what was appended |
| proxies | when the signals are handled the tree is that of BlueZ; a proxy in use stays reachable; a change reaches its proxy; a path is found under its parent |
| property copy | when the signals are handled it is what BlueZ has |
| Linux backend | a loss is reported once the program was told it is connected, and no report comes while it still tries; calls return; what sends is found |
| Windows backend | the flag of a scan is that of the watcher; no advertisement wipes out another; losses are reported; calls return |

`PROJECT.json` lists the hazards one by one, each at its line, with the
properties aimed at it.

## The modules

| module | models | extends |
|---|---|---|
| `Packets` | drive modes, packet encoding and decoding, as operators | |
| `Car` | class `Car` with both motors, one action per write | `Packets` |
| `CarServer` | the firmware: callbacks, connectivity task, constructor, radio, clock | `Car` |
| `DeadMan` | what the firmware promises: motion only for a client, and a halt when it is lost | |
| `CarClient` | the client program: its threads, `Connect`, reconnection and the way out | |
| `Holder` | `SimpleDBus::Holder`, but for what goes into the values inside it | |
| `Wire` | that: a holder appended to a message and extracted, `get_dict_*`, `operator==` | `Holder` |
| `BluezCalls` | the arguments of the calls SimpleBluez makes, the answers of its agent | `Holder` |
| `Message` | objects of `SimpleDBus::Message`, the connection, the agent's calls | `BluezCalls` |
| `PacketTrip` | a packet through D-Bus to the car, or from it, and what the car does | `Car`, `BluezCalls` |
| `Path`, `ProxyTree` | paths and the tree of proxies | |
| `BluezDevice` | a device as BlueZ has it, its signals, the copy of its properties | |
| `Facade` | frontends, safe frontends and C bindings, as operators on outcomes | |
| `LinuxPeripheral`, `LinuxAdapter` | the Linux backend: `PeripheralBase`; `AdapterBase` with it | `BluezDevice`, `Facade` |
| `WindowsPeripheral`, `WindowsAdapter` | the Windows backend, likewise | `Facade` |
| `CarProofs`, `CarServerProofs`, `CarClientProofs`, `MessageProofs`, `PacketTripProofs`, `ProxyTreeProofs`, `LinuxProofs`, `WindowsProofs` | the theorems | what they prove about |
| `MC...` | values of the constants for TLC | |

An operator called `X_Something` just before a definition `X` is a plausible
slip in the code behind `X`; no specification uses it.  It serves to see that a
run notices such a slip (`PROJECT.json`, "mutants").

### The firmware

**Packets.** `Payload` is `GetPayload` as the client uses it: the C string
starting at `raw`, which is followed by arbitrary memory (`tail`) because `raw`
has no terminator.  `ByteAt` is a read through the data pointer of a received
value, which is terminated.

**Car.** `call[t]` is the method of `Car` that task `t` is in: the write it
makes next (`step`) and the arguments.  `SetDriveMode`, `SetSpeed` and `Turn`
enter a method; `WriteMode`, `WriteDrivePin1`, ... are its writes, in source
order.  `Return` leaves it.  Reading the mode in `SetSpeed` is a step of its
own (`CheckStopped`).  Printing is left out; so is `CurrentSpeedPercentage`,
which is only printed.  The output pins are taken to be low when the motors
are constructed, the reset level of the chip.

**CarServer.** `bt` and `mgmt` are the two tasks.  `btAt` and `mgmtAt` say
where each is outside `Car`: a task whose frame is not `ready` is inside `Car`,
and its next step is one of `CarStep`.

| code | actions |
|---|---|
| constructor of `BLEManager` | `InitConnectivityMaintenanceTask`, `CreateServer`, `CreateCharacteristics`, `StartAdvertising` |
| `onConnect` | `OnConnect` |
| `onDisconnect` | `OnDisconnect` (the time), `DropClient` (the flag, and the call of `SetDriveMode`) |
| `onWrite`, drive | `OnDriveWrite`, then `OnDriveWriteSpeed` unless the mode is unsupported |
| `onWrite`, steering | `OnSteerWrite` |
| task, outer loop | `Branch` |
| task, loop with a client | `StayConnected`, `ReadDriveMode`, `NotifyNewDriveMode`, `NotifyNewDistanceRead`, and on leaving it `ControllerDisconnected`, `Advertise` |
| task, loop without | `Blink` (the test), `ReadCurrentTime`, `CompareElapsedTime`, `StopAfterTimeout` |
| inside `Car` | `BtInCar`, `MgmtInCar` |
| radio and clock | `LinkUp`, `ClientWrite`, `LinkDown`, `Tick` |

The sleeps have no action: a task may always rest between two of its steps,
and the other may make any number of its own meanwhile.

**DeadMan** has two variables: whether a session is open, closing or closed,
and whether a motor is powered.  `CarServer` instantiates it (`Watch`): a
session is open while `DeviceConnected`, and closing from then until
`onDisconnect` has returned.

### The client and the trip of a packet

**CarClient.** `main` and `printer` say where the main thread and the printing
thread are, `step` where the one of them that is inside `Connect` is: `main` at
first, `printer` afterwards.  Each statement of `Connect` that may fail, wait or
be overtaken is an action.  Of the values the program prints the model has the
distances: `reports` are the notifications that nobody has handled, each of them by
the connection it is from, and `shown` is the connection whose distances
`m_DistanceMeasurements` holds.  The readings of both sensors are one report.

| code | actions |
|---|---|
| `Connect` | `ChooseAdapter`, `Scan`, `Search`, `Attempt` (once per attempt), `Verify`, `InitRssiReadThread`, `MapCharacteristics`, `AttachCallbacks` |
| `print_thread` | `Reconnect`, `PrinterEnds` |
| `main` | `Command`, `QuitKey`, `JoinPrinter`, `Exit` |
| `disconnect`, from the destructor | `DisconnectPeripheral`, `StopThreads`, `JoinThread`, `ClientDestroyed` |
| keep-alive thread | `DeviceUpdated`, `RunAsync` (the callback of a report), `KeepAliveEnds` |
| RSSI threads | `RssiEnds` |
| car and link | `NotifyNewDistanceRead`, `LinkLost` |

`Abort` is an exception nobody catches: a call of the Bluetooth service that
fails where the code has no `try`.  `Command` appears only where it changes
something, on a car that is gone.  The numbering of `rssi` remembers every
thread ever started; the code remembers only the last (`entry`), and that
difference is the subject of `client_leak`.

**PacketTrip.** `Send` makes a packet, its payload (with whatever follows it on
the stack) and sends it through D-Bus: `ThroughDBus` appends the bytes as
`GattCharacteristic1::WriteValue` does and extracts them as the other side
would.  How a holder becomes bytes on the wire and back are constants here
(`Encode`, `Decode`); `MCPacketTrip` gives them the operators of `Wire`, and
`WireAssumption` says what the trip relies on: the payloads that are sent come
out as they went in.  TLC evaluates it with the real encoding.  `ReceiveDrive`, `ReceiveDriveSpeed` and `ReceiveSteer` are `onWrite`,
`ReceiveReport` the notification callback of the client, `BtInCar` the steps of
`Car` that follow.  Its property `DrivesTheCar` says that the trip calls the
car as `Car` alone is specified (`CarSpec`), so the properties of the car hold
at its end.

### SimpleDBus and SimpleBluez

**Holder, Wire, BluezCalls.** A holder is a record with the fields of the
class; a getter narrows the 64 stored bits to the width of the type it returns
(`GetInteger`); a dictionary keeps its entries in order of insertion and hands
them out by key, the last one winning (`GetDict`); `SignatureOf` and
`SameHolder` are `signature` and `operator==`.  `AppendValue` follows the
signature like `_append_argument`; `ExtractValue` is `_extract_generic` and its
helpers.  Strings are numbers and signatures are records: what matters of them
is equality, order and structure.

Only `Wire` is recursive, over the values inside a holder.  `Message` and
`PacketTrip` reach it through the constants `Encode`, `Decode` and `Conveys`, so
that theorems about them can be stated.

**Message.** `object[o]` is a variable of type `Message`; `heap` holds the
messages of libdbus with their reference counts.  `WireAssumption`: each argument
that is sent, extracted, is what was meant by it.  TLC evaluates it in `MCMessage`
with the operators of `Wire`, for every argument of that run.

| code | actions |
|---|---|
| `create_method_call` and `append_argument` | `CreateCall` |
| copy and move, constructors and assignments; destructor | `Copy`, `Move`, `Destroy` |
| `extract`, `extract_next` | `Extract`, `ExtractNext` |
| `Connection::init`, `uninit`, `pop_message`, `send_with_reply_and_block` | `ConnectionInit`, `ConnectionUninit`, `PopMessage`, `SendWithReply` |
| `Agent1::message_handle` | `HandleCall` |
| the daemon calls the agent | `DaemonCalls` |

**Path, ProxyTree.** A proxy is named by its *chain*, the paths from the first
level to its own, since the code decides by comparing strings under which child
a path belongs, and may decide wrongly.  `nodes` are the proxies, `existing` and
`loaded` their interfaces, `held` those the program keeps a `shared_ptr` to.
`path_add` and `message_forward` call themselves on a child; the model says where
that ends: at the proxy at which `path_add` `Stops`, having gone everywhere before
to the first child it may go by (`Arrives`), and from there on it makes what is
missing (`Below`).  `MCProxyTree` also has the recursion of the code, and its
assumptions `PathAddIsRecursive` and `ReceiverIsRecursive` have TLC compare the two
on the 53 trees that adding its paths, or the paths above them, can make.

| code | actions and operators |
|---|---|
| `Bluez::init` | `GetManagedObjects`; `LoadManagedObject`, once per object of the `reply`; `AddMatch`, `AppendAgent` |
| `run_async`: one message | `RunAsync`: `Add` (`PathAdd`), `PathRemove` with `PathPrune`, or `ForwardChange` (`message_forward`) to the `Receiver` |
| `interfaces_load`, `interfaces_unload`, `path_append_child` | `InterfacesLoad`, `InterfacesUnload`, `AppendChild` |
| a `shared_ptr` to a child is given out, or dropped | `Hold`, `Release` |
| BlueZ | `Appears`, `Goes`, `Change` |

**BluezDevice.** `device` is the truth, `signals` what BlueZ said about it and
nobody has handled, `cache` and `valid` the maps of `SimpleDBus::Interface`,
`parsed` what `Device1` made of the manufacturer data, `services` whether there
are proxies for the are proxies for the services.  `Fetch` is the locked part of `property_refresh`, once a
property was found valid: it may fail, which leaves the value.  `Store` is the locked
part of `signal_property_changed`.  What either calls after the unlock is a step of
its own, which looks at the copy again.

### SimpleBLE

**Facade.** A call of a backend comes to an outcome, `Returned(v)` or `Thrown`.
The operators turn it into what the frontends (`PeripheralCall`,
`CheckedCall`, `BluetoothEnabled`), the safe frontends (`OptionalOf...`,
`...Did`) and the C bindings (`PeripheralCommand`, `PeripheralFlag`,
`ServicesGet`, `ReadInto`, `Getter`, `MtuOf`, ...) make of it; `OfNull` is what
each function answers to a null handle.  A text is its length and a payload too:
what matters is whether there is one.  Both backends are called through it.

**LinuxPeripheral, LinuxAdapter.** `user` is the call under way: which one,
where it is, its attempts, whether its loop is over, and how often its wait
woke.  `answer` is the reply to the last call: a status and what was written, or
a value.  `async` is where the thread of signals is.  `owed` records that the
program was told it is connected and has heard nothing since, nor cleared the
callback.

| code | actions |
|---|---|
| `connect` | `ClearOnDisconnected`; `AttemptConnect` and a wait on `is_connected`, up to five times; `SetOnDisconnected`; `is_connected` once more |
| `disconnect` | `DisconnectCleanup`, `AttemptDisconnect` and the wait, repeated; `is_connected` once more |
| `is_connected` | `Check` (fetches `Connected`), `CheckChanged` (when that was another value), `Lost` (the callback, on this thread, when the copy says the link is gone), `Look`, `CheckResolved` (fetches `ServicesResolved`), `Look` |
| what a call does with the result | `Conclude`, inside `Look` |
| `read`, `write_request`, of a characteristic or of a descriptor | `ReadWrite`, `ReadWriteDescriptor`: the lookup among the proxies and the call of BlueZ |
| `mtu`, `notify`, `unsubscribe` | `Mtu`, `Notify` and `StartNotify`, `Unsubscribe` |
| `identifier`, `address`, `address_type`, `rssi`, `tx_power` | `Get`, which fetches nothing |
| `manufacturer_data_get`, `manufacturer_data_count` | `FetchData`, `ParseData` (when that was another value), `GetManufacturerData` |
| thread of signals | `Take` (stores the properties), `ConnectedChanged`, `EnterCallback`, `Report`, `DataChanged`, then `OnDeviceUpdated` and `Deliver` |
| `scan_for`, `scan_start` | `ScanFor`, `ClearSeen`, `Listen`, `DiscoveryStart`, `Scanning` |
| `scan_stop`, `scan_is_active`, `scan_get_results` | `ScanStop`, `ScanIsActive`, `ScanGetResults` |
| lists of adapters, of paired devices | `GetAdapters`, `GetPaired`, with the destructors of the temporary objects; an adapter of the list that is given out lives on |
| the questions of the adapter that fetch nothing | `AskAdapter` |
| BlueZ | `Environment` (`Resolve`, `BringDown`, `Advertise`), `Power` |

**WindowsPeripheral, WindowsAdapter.** As above; `handlers` counts the
registered handlers of the connection status, `events` those a change of status
has yet to run, `stops` the `Stopped` events of the watcher that nobody handled,
`mtuKnown` whether `mtu_`, which starts as anything (`Garbage`), was ever written.

| code | actions |
|---|---|
| `connect`, `_attempt_connect` | `Attempt`, `AttemptService` (one service), `Connected`, `Register`, `Announce` |
| `disconnect` | `Close`, `Closing`, `GiveUp` |
| `is_connected`, `services`, `mtu`; `is_paired`, `unpair` | `IsConnected`, `Services`, `Mtu`; `Unsupported` |
| `read`, `write_request`, of a characteristic or of a descriptor | `ReadWrite`, `ReadWriteDescriptor` |
| the getters of what was advertised | `Get`, `GetManufacturerData` |
| `notify`, `unsubscribe` | `Notify`, `StartNotify`, `Unsubscribe` |
| handler of the status | `StatusChanged`, `Report` |
| `scan_for`, `scan_start`, `scan_stop` | `ScanFor`, `ClearSeen`, `Activate`, `Start`; `Stop`, `Stopping`, `StopWaiting` |
| the questions of the adapter | `Ask`, `AskAdapter` |
| `_scan_stopped_callback`, `_scan_received_callback` | `ScanStopped`; `ScanReceived` (with `UpdateAdvertisingData`), `ScanFound`, `ScanUpdated` |
| WinRT | `LoseLink`, `Hear`, `Power` |

A wait with a time-out is two steps, the look at its predicate and the wait
itself, and a notification that comes between them is lost, since the handlers
notify without the mutex.

## The runs

| run | shows |
|---|---|
| `packet_to_car` | with any bytes behind the packet, an amount of 0 that shortens it, and D-Bus between, the receiver reads what was sent; the trip calls the car as its own specification says, and mode, pins and duties agree at the end of it |
| `server_safety` | the two tasks interleaved at every write, the clock wrapping: the safety properties and the inductive invariant of the proofs |
| `server_liveness` | with both tasks scheduled: a lost link halts the car, a session the task noticed ends in advertising, a mode that lasts is reported; the firmware implements `DeadMan`, its fairness included |
| `client_threads` | with the car lost twice: a reconnection replaces all callbacks, a lost car is sought until found or given up, distances of an earlier connection are replaced, `q` ends the program unless a failed call aborts it first, and the threads the client remembers have ended when it is gone |
| `dbus_message` | whatever is copied, moved, assigned, popped and destroyed, messages are neither leaked nor freed twice, and extraction gives what was appended, for a call of every kind with boundary values |
| `proxy_tree` | with objects coming and going in any order, while the program holds and releases proxies, and with a device of `hci1` and one of `hci10`: the tree loses nothing in use and ends up as BlueZ has it, nothing being claimed of `hci10` and its device |
| `simpleble_linux` | every call of the backend against the thread of signals, losses, failed attempts, late and stale signals |
| `simpleble_windows` | the same for the Windows backend against the handlers of WinRT |
| `server_readvertise`, `server_race`, `client_leak`, `agent_arguments` | counterexamples, see [Disagreements found](#disagreements-found) |

**The firmware**

- `PacketArrives`: the receiver reads the command and amount that were sent.
- `DrivesTheCar`: each step of the trip is a step of `CarSpec` or leaves the car
  alone: one method at a time, with amounts somebody sent.
- `ModeTellsMotion`: when no task is inside `Car`, the drive pins are those of
  `m_Mode`.  `SteeredOneWay`: the steering motor is never pushed both ways at
  once when `Car` is at rest.  `DutyInRange`: no duty is below 150, and one above 255
  is that of an amount above 100, which `map()` does not clamp.
- `HaltedWhenClosed`: from the return of `onDisconnect` to the next `onConnect`
  both motors are off.
- `LateStopHitsNobody`: between the stop the connectivity task gives and its
  `Advertise`, nobody is or can get connected.
- `TaskUsesInitialisedServer`: the task never uses the server and the
  characteristics before the constructor has set them, although it is started
  first: it needs a client for that, and there is none before advertising.
- `ReportIsOfThisSession`: what the task compares the mode with was sent to the
  present client.
- `LostLinkHalts`, `NoticedSessionEndsInAdvertising`, `ModeIsReported`: the
  liveness properties of `server_liveness`.

**The client**

- `StaleValuesAreReplaced`: when the printing thread finds the car connected, what it
  prints may be of an earlier connection, since nothing resets the stored values and
  reports of that connection may still be in the queue of the bus; but the distances
  of this one follow, unless the link is lost first.  It needs every reconnection to
  attach the callbacks, to the characteristics of the new connection.  Nothing alike
  is true of the mode, which the car reports only when it changes.
- `QuitEnds`: the quit key ends the program from wherever the printing thread
  is.  It rests on the flag being cleared before the joins, and on attempts
  being limited.
- `LostCarIsSought`: a lost car is connected again, or given up.
- `KnownThreadsEnd`: when the client is gone the keep-alive thread and the last
  RSSI thread have ended.  It is what is left of `NoThreadOutlivesClient`, which
  does not hold.

**SimpleDBus**

- `OneOwner`: the reference count of every message of libdbus is the number of
  objects that will unref it, and no two objects have the same unique id.
- `ExtractedIsAppended`: what an object gives as its current argument means what
  the sender meant by the argument its iterator points at, and compares equal to
  it.  The meaning is defined independently of the encoding (`Means`).
- `DrainedTreeMirrorsBluez`: when no signal is left, the interfaces loaded are
  those of BlueZ, for every object with a plain path, unless BlueZ changed between
  the two calls of `init`.
- `HeldStaysReachable`: a proxy in the tree or in the program's hands has all of
  its ancestors in the tree, so signals reach it.
- `UnderTrueParent`: a proxy is under one whose path is the beginning of its own, as
  text, and one element shorter; under that of its parent path, where the path is
  plain: no name in it begins with another name there is, as `hci10` does with
  `hci1`.
- `NewProxiesAreAnnounced`: a step announces the proxies it adds, intermediate
  ones included, and no others.
- `ChangeReachesProxy`: a change of a property reaches the proxy of the object,
  and its parent hears of it, when the path is plain.  Without that word both are
  false (see [Noted without a run](#noted-without-a-run)); the run shows that `hci10`
  and its device take nothing else with them.

**SimpleBLE on Linux**

- `NoReportDuringRetries`: no callback of an earlier connection runs while
  `connect` makes its attempts.
- `LossIsNotMissed`: a program that was told it is connected, and is not, has
  news on their way: a signal, the thread of signals about to report, or the
  call that just found out, before or after it looked at the copy again.
- `CopyCatchesUp`: once all signals are handled, every property that exists is
  valid and has the value of BlueZ, the manufacturer data is parsed and the
  services have proxies, although fetches put newer values before older signals.
- `LostLinkIsReported`, `CallsReturn`, `SenderIsFound`: a loss that is owed is
  told; every call returns; what sends other data during a scan is found.

**SimpleBLE on Windows**

- `FlagFollowsWatcher`: `scan_is_active_` is that of the watcher, or the event
  that makes it so is on its way; the two exceptions, a `Stopped` event handled
  after the next start and a `Start` that throws, are named by `wrong`.
- `NothingHeardIsForgotten`: a name and services that were heard stay known, in
  whatever order advertisements and responses arrive.
- `LostLinkIsReported`, `CallsReturn`: as above, the latter resting on the
  time-outs of the waits.

## Assumptions, bounds and fairness

**The radio of the car** is external.  It holds at most one link, accepts one
only while the car advertises, stops advertising then and does not resume by
itself (the code calls `startAdvertising` for that), and hands the events of a
link over in order, the connection first and the loss last.  Its library runs
one callback at a time.  A notification reaches whoever is connected.

**BlueZ** is external.  In `CarClient`, `connect`, `connected`, `start_notify`
and the writes report what the link is at that moment; a link is made only by
an attempt, also by one that reports failure; a lost one takes its subscriptions
with it.  In `ProxyTree` an object appears under an object that is there and
goes when it has no children.  In `BluezDevice` a change of a property and the
sending of its signal are one step, signals arrive in order, and proxies of
services are announced before `ServicesResolved`.  An adapter is not switched off
under a link.

**WinRT** is external.  A change of the connection status runs every registered
handler, later; a watcher that ends raises one `Stopped` event; a closed device
ends the link, unless another program holds it, and tells its handlers or not.

**Bounds.** The theorems hold for every value of the constants; the runs use:

- Packets: the amounts 0 and 100, both ends of the range of `map()`, and 101 and 255,
  the first and the last that are beyond it; as a command every drive mode, both letters, and 200, which is
  neither and negative as a `char`; behind the packet a terminator at once, later
  or not at all.
- `QueueBound` 1: one command waits while another is being handled.  A second
  waiting one is handled like the first, and since the loss of the link may be
  queued behind it, and a connection before it, queues of three events occur.
- `ClockRange` 3 with `DisconnectionTimeout` 1: elapsed times within the
  timeout, beyond it, and the underflow when a disconnection falls between the
  two readings.  The liveness run has 2 and 0, where every difference but 0
  expires, so the timeout may act at any moment.
- `Amounts` in `CarServer`: 0, which takes the longer way through a turn.  No
  property of `CarServer` looks at a duty.
- `ClientWrites`: in `server_safety` one direction (the other differs in the pins only, and
  `packet_to_car` drives both), a stop, a byte that is no
  mode, both turns and a first byte that is neither.  In `server_liveness`, where
  liveness and a refinement with fairness are checked, a drive and a turn; with a
  stop as well it holds too (194 thousand states).  Sessions of the firmware are
  not bounded: links go up and down for ever.
- `ConnectionAttempts` 5, the value in the code; `LossBound` 2: there are up to
  three connections and two forgotten threads, the second of which starts from a
  state with one forgotten thread already there.  `ReportBound` 2 (1 in
  `client_leak`): a report of an earlier connection may wait before one of this, and
  as the queue is in order a longer one only repeats these.
- Messages: two objects and a third id, so that an assignment has somewhere to
  copy to while its target still owns a message; three creations.  Integers keep
  their order of width but are narrow (a `BYTE` has two bits, a `UINT64` five),
  so that every one has its boundaries among the arguments.
- The tree: two adapters, `hci1` and `hci10`, and a device of each; two signals
  on their way: a parent and its child can go, or come back, in either order
  before anything is handled, and the adapters in either order.
- Linux: two calls, two attempts of each, one loss, one change of the data, a
  wait that wakes once before it times out, three signals on their way.  That is a
  connection whose first attempt fails or is overtaken, then a loss before,
  during or after the next call.  All the properties were also checked with four
  signals on their way, a whole connection and its loss before any is handled (495
  thousand states), and the safety properties explored with three calls and two
  losses (4.3 million), without an error.
- Windows: three calls (a scan, a connection, and one after it), two attempts of
  three, one loss, three handlers waiting, two advertisements (one with the name,
  one with the services).  The safety properties were also explored with four
  calls (2.2 million states), without an error.
- `MaxCount` 1 with a service of two characteristics, so the array of the C
  bindings is too short.  `Garbage` has both ends of 16 bits, so that taking the
  header off wraps.

Deadlock is not looked for where the bounds end the calls and a program that is
done stops; it is in `server_safety`, `server_liveness` and `packet_to_car`.

**Fairness of the firmware** is weak fairness of `Setup`, `Bt` and `Mgmt`, each
as a whole: the FreeRTOS scheduler gives time to every task that is ready, the
constructor runs to its end, and no task here spins or waits for the other.
Nothing is assumed of the client, the link or the clock: a client may stay
silent, a link may last for ever, and time need not pass.

**Of the client**, weak fairness of `Connect`, `Printer` and `Leave`, and of the
end of each of its threads: Linux runs every thread, each call of the Bluetooth
service returns or throws, and the delays of `Connect` are finite.  That the
keep-alive thread gets back to its flag supposes that the bus is quiet now and
then; that the question for an adapter is answered, that the user does.  The
keep-alive thread handles what is in the queue (`RunAsync`), and the car sends its
distances while the link stands (`NotifyNewDistanceRead`): its task does so in every
round of a session.  No key and no loss need ever come.

**Of SimpleBLE**, weak fairness of the steps of a call that was made and of the
thread of signals (`User`, `Async`), on Windows of the handlers of the status and
of the end of a scan (`HandlerStep`, `ScanStopped`).  Both kinds of thread
run in a loop or are woken by the system; nobody holds a mutex for ever, which
`CallsReturn` checks rather than supposes.  No program need call, no link need be
made or lost, no device need advertise.

**Memory.** `DeviceConnected`, `DisconnectionTime` and `m_Mode` are plain
variables read by one task and written by the other.  The model takes each
access to be atomic and seen at once, as aligned words are on this chip when
the loop bodies call into the runtime between two accesses, which they do.
In `CarClient` a step of one thread on `m_Peripherals`, `m_CharMap` or
`m_Peripheral` is atomic too, and so is one on `seen_peripherals_` and
`peripherals_` in the backends.  The code does not make it so: two threads can
overlap inside a container, and what happens then is undefined and not explored.

## The proofs

All theorems are for every value of the constants, from the assumptions named in
the modules (`...Assumption`), which the runs evaluate.

| module | theorem | says |
|---|---|---|
| `CarProofs` | `CarTypeCorrect` | types of the car's state, for any callers and any bytes |
| | `DutyInRangeHolds` | duties start at 150, and only an amount above 100 gives one above 255, for any bytes |
| | `ModeTellsMotionHolds`, `SteeredOneWayHolds` | with one calling task |
| `CarServerProofs` | `TypeCorrect` | types of the firmware's state, for any commands, amounts, clock, timeout and queue |
| | `SessionInvHolds` | the inductive invariant below |
| | `HaltedWhenClosedHolds`, `LateStopHitsNobodyHolds`, `TaskUsesInitialisedServerHolds`, `ReportIsOfThisSessionHolds` | the safety properties of `server_safety` |
| | `AdvertisedCarStandsStillHolds` | while the car advertises both motors are off, even if the callback of the loss is still inside `Car` |
| | `ImplementsDeadManSafety` | `Spec => Watch!Safety`: every behaviour of the firmware is one of `DeadMan`, but for its fairness |
| `CarClientProofs` | `KnownThreadsEndHolds` | for any number of attempts and losses |
| | `CallbacksInPlaceHolds` | whenever the printing thread finds the car connected, the callbacks are attached to this connection |
| | `ShownNeverGoesBackHolds` | stored distances are never replaced by those of an earlier connection |
| `MessageProofs` | `MessageTypes`, `MessagesHaveOneOwner`, `ExtractsWhatWasAppended` | for any objects, messages, calls and answers, and any encoding that conveys one argument |
| `PacketTripProofs` | `PacketArrivesHolds` | what the receiver reads is what was sent, for any amounts, any memory after the payload |
| | `DrivesTheCarHolds`, `CarAtTheEnd` | the trip calls the car as `Car` is specified, so its properties hold at the end of the trip |
| `ProxyTreeProofs` | `HeldStaysReachableHolds`, `NewProxiesAreAnnouncedHolds` | for any objects, signals and names |
| | `UnderTrueParentHolds`, `ChangeReachesProxyHolds`, `DrainedTreeMirrorsBluezHolds`, `PathAddArrivesOnce` | the same, whatever names begin with others; what they say of an object they say when its own path is plain |
| `LinuxProofs` | `LinuxTypes` | types of the backend's state, with every bound of it |
| | `CopyCatchesUpHolds`, `NoReportDuringRetriesHolds`, `LossIsNotMissedHolds` | for any number of calls, attempts, signals and losses, and any data |
| `WindowsProofs` | `WindowsTypes` | likewise |
| | `FlagFollowsWatcherHolds`, `NothingHeardIsForgottenHolds` | for any number of calls, scans and advertisements |

None of these properties but the types is inductive.

**One caller of the car.** Between two writes the pins match nothing.
`SingleInv` says what they match instead: how far the call under way has come,
the writes already made being those of its mode, or of its side.  At the return
nothing is left to say and the two properties follow.

**The firmware.** `SessionInv` strengthens the safety properties:

- `EventOrder`: a waiting connection is the first event and the flag is still
  down; a waiting loss is the last and the link is gone; without the flag the
  queue is empty or starts with a connection.
- `AdvertisingAlone`: advertising means no flag, no link, no event, and a halted
  car.
- `TaskInSession`: while the task is in the branch of a session nobody
  advertises, so if the flag is down nobody is left at all; at `Advertise` its own
  stop is done, or what it has written so far holds.
- `ClosedByCallback`: without the flag, `bt` is in no callback but the end of
  `onDisconnect`, and what its stop has written so far holds.
- `TaskOnlyStops`: `mgmt` is never inside `Car` except to stop it.
- `SetupFirst`: before the end of the constructor there is no client.

The heart of it is `StopStepKeeps`: a task that is stopping the car only lowers
pins, so it disturbs nothing another stop has already lowered.  That is why two
unlocked stops are harmless while a stop and a start are not
(`server_race`).

**The refinement.** Under the mapping of `Watch` each action of the firmware is a
step of `DeadMan` or a stutter.  Two cases are not obvious: a write inside `Car`
while the session is closed or closing must not power a motor (from
`ClosedByCallback` and `TaskOnlyStops`), and the step that returns from
`onDisconnect` must find both motors off (from `SessionInv` after that step).

**The client.** `ClientInv`: one thread at a time is inside `Connect`
(`OneConnects`); the RSSI threads are numbered as they are started and the map
has the last (`Numbered`); as many connections as losses came before this one
(`Counted`), without which a thread could be started beyond the last number;
what was joined has ended (`JoinedEnded`).  `ReportsInOrder`: the reports on their
way are in the order of their connections, none of them of an earlier one than what
is stored, none of a later one than the last that began.

**Messages.** `IInv`: objects that have a message and messages in use correspond
one to one (`Owned`), so `Destroy`, `Move` and assignment free each message once;
an object without a message is blank (`BlankWithout`); ids in use are distinct and
below the counter (`Numbered`), without which a new id could be taken already; and
what an object remembers is the value its iterator points at, or any one of the
message when it is a copy whose iterator has not started (`Reading`).  The second
case is why `ExtractedIsAppended` says no more of such a copy than that its value
is one of the arguments: it keeps the value and loses the place.

**The trip of a packet.** `PayloadIsReceived` is what the two ends agree on: the
string starting at the payload stops at the first zero, which lies behind the
amount, so that both bytes travel, or is the amount itself, and then the receiver
reads the terminator as the amount.
That a first zero exists is `LeastNumber`, from the well-founded order of finite
sets.  `TripInv` adds that a packet is under way only when the car is free.

**The tree of proxies.** `TreeInv` is closed under ancestors; that an erased proxy
leaves none below it (`path_prune`) and none that is held is all it needs, with
any names.  So does what follows, but speaks of plain paths:

- `ChainInv`: every proxy is below, by text and one element longer, the one it is the
  child of, and one with a plain path is under its true parent.  The lemma it takes is
  `ArrivesOnTheWay`: although `path_add` compares strings, for a plain path it only
  goes through proxies of ancestors, which are plain themselves (`PlainBeginning`), so
  wrong parents elsewhere in the tree do not meet it.  `PathAddArrivesOnce` adds that
  it arrives at exactly one, so a message that adds such an object is never stuck.
- `MirrorInv`: during the loading the tree has what was in the reply and is added
  (`LoadingInv`); afterwards the latest signal about an interface of an object with a
  plain path tells whether BlueZ has it, and where none is on its way the tree does
  (`SignalInv`).  `BluezInv` says what signals there can be.

**The Linux backend.** Three invariants, each resting on the ones before:

- `CopyInv`: each property of the copy, the proxies of the services and the
  parsed data are what BlueZ has, or a signal on its way says so, and no later
  one says otherwise.  The second half is what survives a fetch that overtakes
  signals: it makes the copy right at once, older signals make it wrong again,
  and the latest puts it right for good.  `Told` and `Latest` say the two halves
  of a queue; the lemmas about `Append` and `Tail` are all that is known of it.
- `CallbackInv`: the callback is off while `connect` tries, on once it is done
  trying, and on for as long as a report is owed.
- `LossInv`: an owed loss is told by a queued signal, by the thread of signals
  between storing the signal and the callback, or by the call that fetched it, before
  or after it looked at the copy again.
  The delicate steps are a fetch between two signals, which makes the thread of
  signals see the copy and not what its signal said, and an older signal between a
  fetch and the second look, which hides from the call what it fetched: then the
  signal of the loss is still to come.

The types need the bounds of the counters with the places at which they may
still grow: an attempt is counted only where fewer were made (`CountsInv`,
`QueueInv`, `FlagsInv`).

**The Windows backend.** `ScanInv` adds to `FlagFollowsWatcher` what holds between
the flag and `Start`; `HeardInv` adds what the handler has in hand.  For the types,
`CallsInv` bounds the handlers by the calls that registered them, `LinkInv` and
`AdapterInv` the rest.

**Only model-checked:** the liveness properties (`LostLinkHalts`,
`NoticedSessionEndsInAdvertising`, `ModeIsReported`, `QuitEnds`, `LostCarIsSought`,
`StaleValuesAreReplaced`,
`LostLinkIsReported`, `CallsReturn`, `SenderIsFound`) and the fairness of
`ImplementsDeadMan`, which are beyond this prover; that `Wire`, which is recursive
over values, satisfies the two `WireAssumption`s, which TLC evaluates on the values
of the runs; that `PathAdd` and `Receiver` are what the code's recursion comes to,
which TLC compares on the trees of `MCProxyTree`.

## Disagreements found

1. `server_readvertise`: a client that comes and goes while the task blinks or
   sleeps after the branch is never noticed, and nothing makes the car advertise
   again (`BLERCcar_server/BLEManager.hpp:157`; `onDisconnect` only prints that it
   does).
2. `server_race`: a stop by the timeout of an earlier disconnection, given while
   a client has connected during a blink, interleaves with that client's
   `Forward` inside `Car`; the mode reads `DisconnectionStop` and the drive shaft
   is powered (`BLERCcar_server/Car.hpp:153`).  When the timeout never expires,
   `ModeTellsMotion` holds for both tasks: the late stop is the only source of it.
3. `client_leak`: each connection starts an RSSI thread and overwrites the map
   entry of the one before.  After a reconnection nobody joins the first, which
   may still be using the client when it is destroyed
   (`BLERCcar_client/BLERCCar_client.cpp:172`).
4. `agent_arguments`: the agent reads several arguments of a call with `extract`
   and no `extract_next`, and is given the first one again and again
   (`simplebluez/src/interfaces/Agent1.cpp:66`).

## Noted without a run

Read in the code, or seen in traces, while modelling.

*Firmware and client*

- `TurnLeft(0)`, which the client sends to straighten the wheels on every `w`,
  zeroes the steering and then powers it to the left at the minimum duty, because
  nothing returns after `zeroSteer` (`Car.hpp:130`, `Car.hpp:142`).
- `GetDriveMode` does not list `DisconnectionStop`, though the car sends it: the
  client shows "Unsupported" (`BLERCCar_packets.hpp:88`).
- A client that connects during a blink has its car stopped by the timeout of the
  previous disconnection, or of the boot (`BLEManager.hpp:161`).
- `Disconnect` of the client, which nothing calls, would leave threads in the map
  for the destructor to join again (`BLERCCar_client.cpp:190`).  A client that
  never found its car joins none (`BLERCCar_client.cpp:185`); the model contains
  that path, and `NoThreadOutlivesClient` leaves it aside.
- The client prints the mode, distances and RSSI of an earlier connection until others
  arrive (`main.cpp:12-14`, `BLERCCar_client.cpp:134-138`); nothing makes a new mode
  arrive before it changes.

*SimpleDBus and SimpleBluez*

- `Path::is_descendant` compares strings: `hci1` passes for an ancestor of what is
  below `hci10` (`Path.cpp:73`, `Proxy.cpp:145`).  A device of `hci10` that is added
  while `hci1` has a proxy becomes a child of `hci1`; when it goes, `path_remove`
  looks for it under `hci10`, so it stays loaded where it is; and a property change of
  `hci10` or of its device is handed to `hci1` (`Proxy.cpp:236`).  All of it is in
  the model and in `proxy_tree`, whose properties say what holds in spite of it.
- Objects that change between `GetManagedObjects` and `add_match` are missed
  (`simplebluez/src/Bluez.cpp:25-30`); `missed` marks it.
- A held proxy whose object comes back is not announced.
- The options of `SetDiscoveryFilter` are filed in the dictionary under the type
  of their value, so those that are not strings are dropped
  (`Adapter1.cpp:34-72`); the copy of a message keeps the extracted value but
  not the iterator.
- A property a signal made invalid is not fetched again (`Interface.cpp:81`), and
  one whose fetch failed is valid (`Interface.cpp:99`).

*SimpleBLE on Linux*

- The last signals of a retry may be handled after `connect` has succeeded and
  set its callback: the program hears of a disconnection that is over, and its
  fresh subscriptions are cleaned up.  One loss may be reported twice; a
  `connect` that fails may report one, and leaves the link up.
- The temporary objects behind a list of adapters or of paired devices clear the
  callbacks of the live ones when they go (`AdapterBase.cpp:34`,
  `PeripheralBase.cpp:25-29`): a scan falls silent, a loss is not reported.
- `scan_start` and `scan_stop` succeed with bluetooth off, the latter leaving
  `is_scanning_` set; what is advertised between `discovery_start` and the flag
  is lost (`AdapterBase.cpp:78-80`); one update may come after `scan_stop`.
- `kvn_safe_callback.hpp:50` looks at `_is_loaded` before it has the mutex, so a
  callback cleared in between is called and throws; `EnterCallback` has the step.
- `notify` leaves its callback when `StartNotify` throws, `unsubscribe` always;
  `services` right after `connect` may be empty; a random address is never
  recognised as one (`PeripheralBase.cpp:40-43`).
- A property BlueZ never told is 0 or empty: an RSSI that is not known is 0,
  although a power that is not known is `INT16_MIN` (`Device1.cpp:33-38`), and an
  MTU that is not known becomes 65533 (`PeripheralBase.cpp:60`).
- `simpleble_adapter_get_handle` clears the scan callback of every adapter but
  the one it returns, and of all of them for an index that is too large.

*SimpleBLE on Windows*

- `connect` succeeds without a link, and with the services of a failed attempt
  in the map.
- A loss between the look at the status and the registration of the handler
  (`PeripheralBase.cpp:90-91`) is never reported; one between the registration and
  `on_connected` is reported before it.  Each `connect` registers a handler and
  keeps the last token, so one loss is reported several times.
- Handlers of values stay after a failed `notify` and after `unsubscribe`
  (`PeripheralBase.cpp:237-249`, `278-288`); `connect` while connected drops them
  although the device still notifies.
- `disconnect` and `scan_stop` succeed when their wait times out.
- Empty data in a response to a scan overwrites those of an advertisement
  (`PeripheralBase.cpp:71`).
- `mtu` with the link up and no service read returns what was never written
  (`PeripheralBase.h:95`); after a reconnection that reads none, the MTU of the
  link before.
- The handler of advertisements assigns strings and containers the program's
  thread may be copying (`PeripheralBase.cpp:66`).

## Not modelled

- `DistanceSensor`: converts a pulse width; no decision depends on it.  The LED,
  the serial output, `mode_to_str`, UUIDs: text and lights.  The destructor of
  `BLEManager`, `loop()`: nothing calls the one, the other is empty.
- `Disconnect` of the client.  Of what it keeps of the car, the mode and the RSSI; of
  the distances, the numbers.
- SimpleDBus: `to_string`, introspection XML, locks of `Connection` (one thread
  at a time uses it), a container that was moved from.
- SimpleBluez: the getters of the remaining properties, the properties of
  descriptors, `Battery1`.
- SimpleBLE: `unpair` on Linux, the emulated battery service, `release_handle` and
  the functions that set a callback of the program (a run has all of them set);
  the stub backend, the macOS backend, examples, Python and Rust bindings.
- The tests drive a real car over a real link; they were read as documentation.

Hazards without a property:

- What the code does, the model contains, and a property would only repeat: a stop
  after a blink, the mode the parser does not list, the wheels steered by an amount of
  0 (`BLEManager.hpp:161`, `BLERCCar_packets.hpp:88`, `Car.hpp:130`); a connect
  repeated after success, an exception nobody catches (`BLERCCar_client.cpp:115`,
  `150`); a property that is never fetched again (`Interface.cpp:81`); on Linux
  callbacks cleared by a list that goes, a late signal taken for news, an MTU nobody
  told (`AdapterBase.cpp:34`, `PeripheralBase.cpp:83`, `60`); on Windows the two ways
  to a wrong flag (`AdapterBase.cpp:151`, `233`).
- What does no harm here, in the model as in the code: an elapsed time that underflows
  (`BLEManager.hpp:58`), a wake-up that is lost to a wait with a time-out (Windows
  `PeripheralBase.cpp:94`).
- Threads that overlap inside a container, or replace it under a reader
  (`BLERCCar_client.cpp:88`, `main.cpp:19`): undefined behaviour of the C++
  containers.
- The first notification before the subscription (`BLEManager.hpp:132`), which needs
  the product of firmware and client.

## What is left

- `CarServer` with `CarClient` over one link: does the client's mode follow the
  car's, given that the first notification may precede the subscription?  The
  product of the two modules needs an abstract client to stay small.
- `Device1` and `GattCharacteristic1` with all their properties, and callbacks of
  the program that are set and cleared while the backends run.
