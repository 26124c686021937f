---------------------------- MODULE BluezDevice ----------------------------
(***************************************************************************)
(* A device as BlueZ has it, the signals about it that nobody has handled, *)
(* and the copy of its properties in SimpleDBus::Interface (Device1).      *)
(*                                                                         *)
(* The copy is written by two threads: the thread of Bluez stores what a   *)
(* signal says, and the thread of the program fetches a property before it *)
(* looks at it.  _property_update_mutex makes each of these one step.      *)
(***************************************************************************)
EXTENDS Naturals, Sequences

CONSTANTS
  Data,        \* contents of ManufacturerData
  NoData,      \* there are none
  MaxSignals,  \* bound: signals on their way
  MaxLosses,   \* bound: links lost, or ended by a call
  MaxAdverts   \* bound: advertisements with other data

ASSUME DeviceAssumption ==
  /\ NoData \notin Data \cup BOOLEAN /\ Data # {}
  /\ {MaxSignals, MaxLosses, MaxAdverts} \subseteq Nat

VARIABLES
  device,   \* the properties, as BlueZ has them
  signals,  \* signals on their way
  losses,   \* how often the link went down
  adverts,  \* advertisements with other data so far
  cache,    \* _properties
  valid,    \* the names with _property_valid_map
  parsed,   \* _manufacturer_data
  services  \* there are proxies for the services
bluezVars == <<device, signals, losses, adverts>>
copyVars == <<cache, valid, parsed, services>>

Names == {"Connected", "ServicesResolved", "ManufacturerData"}

DeviceInit ==
  /\ \E d \in Data \cup {NoData} :
       device = [n \in Names |-> IF n = "ManufacturerData" THEN d ELSE FALSE]
  /\ signals = <<>> /\ losses = 0 /\ adverts = 0
  /\ cache = device /\ valid = {n \in Names : device[n] # NoData} /\ parsed = device.ManufacturerData
  /\ services = FALSE

-----------------------------------------------------------------------------
\* BlueZ: a signal is a function from the names that changed to their values;
\* objects that came or went (the services) are a signal of their own.
LinkDown == <<[n \in {"Connected", "ServicesResolved"} |-> FALSE], [n \in {"Services"} |-> FALSE]>>
Up == <<[n \in {"Connected"} |-> TRUE]>>
Resolved == <<[n \in {"Services"} |-> TRUE], [n \in {"ServicesResolved"} |-> TRUE]>>

Emit(burst) ==
  /\ Len(signals) + Len(burst) <= MaxSignals
  /\ signals' = signals \o burst

BringUp ==
  /\ ~device.Connected
  /\ device' = [device EXCEPT !.Connected = TRUE]
  /\ Emit(Up)
  /\ UNCHANGED <<losses, adverts>>

BringDown ==
  /\ device.Connected /\ losses < MaxLosses
  /\ device' = [device EXCEPT !.Connected = FALSE, !.ServicesResolved = FALSE]
  /\ losses' = losses + 1
  /\ Emit(LinkDown)
  /\ UNCHANGED adverts

Resolve ==
  /\ device.Connected /\ ~device.ServicesResolved
  /\ device' = [device EXCEPT !.ServicesResolved = TRUE]
  /\ Emit(Resolved)
  /\ UNCHANGED <<losses, adverts>>

\* Other data, or none any more: the property is gone, which invalidates it.
Advertise(d) ==
  /\ adverts < MaxAdverts /\ d # device.ManufacturerData
  /\ adverts' = adverts + 1
  /\ device' = [device EXCEPT !.ManufacturerData = d]
  /\ Emit(<<[n \in {"ManufacturerData"} |-> d]>>)
  /\ UNCHANGED losses

-----------------------------------------------------------------------------
\* The locked part of property_refresh, once a property was found valid.  A property
\* that cannot be fetched, because it is gone or BlueZ does not answer, keeps its value,
\* and is marked valid all the same.
Fetch(name) ==
  /\ \/ UNCHANGED cache
     \/ device[name] # NoData /\ cache' = [cache EXCEPT ![name] = device[name]]
  /\ valid' = valid \cup {name}

\* The locked part of signal_property_changed.
Gone(signal) == {n \in DOMAIN signal : signal[n] = NoData}
Changed(signal) == DOMAIN signal \ Gone(signal)
\* Mutant of Store: a value that is there is not overwritten.
Store_KeepsValid(signal) ==
  /\ cache' = [n \in Names |-> IF n \in Changed(signal) \ valid THEN signal[n] ELSE cache[n]]
  /\ valid' = (valid \cup Changed(signal)) \ Gone(signal)

Store(signal) ==
  /\ cache' = [n \in Names |-> IF n \in Changed(signal) THEN signal[n] ELSE cache[n]]
  /\ valid' = (valid \cup Changed(signal)) \ Gone(signal)
=============================================================================
