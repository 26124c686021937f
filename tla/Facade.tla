------------------------------- MODULE Facade -------------------------------
(***************************************************************************)
(* What lies between a program and a backend of SimpleBLE: the frontends   *)
(* (SimpleBLE::Peripheral and Adapter), the safe frontends, which turn     *)
(* exceptions into values, and the C bindings, which turn those into a     *)
(* status and values written through pointers.                             *)
(*                                                                         *)
(* A call of a backend comes to an outcome: it returned a value or threw.  *)
(***************************************************************************)
EXTENDS Integers, Sequences

CONSTANTS
  Null,     \* a null handle or pointer
  Handle,   \* an object the program was given
  MaxCount  \* SIMPLEBLE_CHARACTERISTIC_MAX_COUNT

ASSUME FacadeAssumption == MaxCount \in Nat

SUCCESS == "SIMPLEBLE_SUCCESS"
FAILURE == "SIMPLEBLE_FAILURE"
\* What a call writes through the pointers of its caller: nothing, or one value.
Untouched == <<>>
Bool(b) == <<IF b THEN 1 ELSE 0>>

Returned(v) == [ok |-> TRUE, value |-> v]
Thrown == [ok |-> FALSE, value |-> <<>>]

-----------------------------------------------------------------------------
\* The frontends: an object without a backend throws NotInitialized.
PeripheralCall(initialized, o) == IF initialized THEN o ELSE Thrown
AdapterCall(initialized, o) == IF initialized THEN o ELSE Thrown

\* Calls that throw NotConnected unless is_connected, before the backend sees them.
NeedLink == {"read", "write_request", "write_command", "notify", "indicate", "unsubscribe",
             "read_descriptor", "write_descriptor"}
CheckedCall(initialized, connected, o) ==
  IF initialized /\ connected THEN o ELSE Thrown

\* bluetooth_enabled is noexcept: an exception is FALSE.
BluetoothEnabled(o) == o.ok /\ o.value

\* The safe frontends: nullopt, here the empty sequence, for an exception ...
OptionalOfPeripheral(o) == IF o.ok THEN <<o.value>> ELSE <<>>
OptionalOfAdapter(o) == IF o.ok THEN <<o.value>> ELSE <<>>
\* ... or false where there is nothing to return.
PeripheralDid(o) == o.ok
AdapterDid(o) == o.ok

HasValue(optional) == optional # <<>>
ValueOr(optional, default) == IF HasValue(optional) THEN optional[1] ELSE default

-----------------------------------------------------------------------------
\* The C bindings.
Status(did) == IF did THEN SUCCESS ELSE FAILURE
Reply(status, out) == [status |-> status, out |-> out]
Refused == Reply(FAILURE, Untouched)
\* Of a function that returns a value and no status.
Value(v) == Reply("returned", <<v>>)

\* A null handle, or a null pointer, fails before anything is done or written; a
\* function that returns a value returns a default.
INT16_MIN == -32768
PUBLIC == 0
UNSPECIFIED == 2
Texts == {"identifier", "address"}
Levels == {"rssi", "tx_power"}
Counts == {"mtu", "services_count", "manufacturer_data_count", "scan_get_results_count",
           "get_paired_peripherals_count"}
OfNull(op) ==
  CASE op \in Texts \cup {"scan_get_results_handle"} -> Value(Null)
    [] op \in Levels -> Value(INT16_MIN)
    [] op = "address_type" -> Value(UNSPECIFIED)
    [] op \in Counts -> Value(0)
    [] OTHER -> Refused

\* identifier, address: a copy the caller frees, empty after an exception.  A text is
\* its length.
TextOf(o) == Value(ValueOr(OptionalOfPeripheral(o), 0))
\* rssi, tx_power
LevelOf(o) == Value(ValueOr(OptionalOfPeripheral(o), INT16_MIN))
AddressTypeOf(o) == Value(ValueOr(OptionalOfPeripheral(o), UNSPECIFIED))
MtuOf(o) == Value(ValueOr(OptionalOfPeripheral(o), 0))
AdapterTextOf(o) == Value(ValueOr(OptionalOfAdapter(o), 0))

\* What each of the getters of a peripheral returns, whose backend came to o.
Getters == Texts \cup Levels \cup {"address_type"}
Getter(op, o) ==
  CASE op \in Texts -> TextOf(o) [] op \in Levels -> LevelOf(o) [] OTHER -> AddressTypeOf(o)

\* The backends take the header of 3 bytes off an MTU, in 16 bits.
WithoutHeader(mtu) == (mtu + 65536 - 3) % 65536
\* The MTU of a link, at the least.
LeastMtu == 23

\* connect, disconnect, unpair, write_request, notify, set_callback_on_...
PeripheralCommand(o) == Reply(Status(PeripheralDid(o)), Untouched)
\* scan_start, scan_stop, scan_for
AdapterCommand(o) == Reply(Status(AdapterDid(o)), Untouched)

\* is_connected, is_connectable, is_paired
PeripheralFlag(o) ==
  LET flag == OptionalOfPeripheral(o)
  IN  Reply(Status(HasValue(flag)), Bool(ValueOr(flag, FALSE)))
\* scan_is_active
AdapterFlag(o) ==
  LET flag == OptionalOfAdapter(o)
  IN  Reply(Status(HasValue(flag)), Bool(ValueOr(flag, FALSE)))

\* services_count
PeripheralCount(o) == Len(ValueOr(OptionalOfPeripheral(o), <<>>))
\* get_count, scan_get_results_count, get_paired_peripherals_count
AdapterCount(o) == Len(ValueOr(OptionalOfAdapter(o), <<>>))

\* scan_get_results_handle, get_paired_peripherals_handle, adapter_get_handle
NewHandle(o, index) == IF index >= AdapterCount(o) THEN Null ELSE Handle

\* services_get: the struct is zeroed, then filled as far as its arrays go.  A
\* service is the number of its characteristics.
Zeroed == <<0>>
ServicesGet(o, index) ==
  LET services == ValueOr(OptionalOfPeripheral(o), <<>>)
      count == services[index + 1]
  IN  IF index >= Len(services) THEN Reply(FAILURE, Zeroed)
      ELSE Reply(SUCCESS, <<IF count > MaxCount THEN MaxCount ELSE count>>)

ManufacturerDataCount(o) == Value(PeripheralCount(o))

\* manufacturer_data_get: nothing is written unless there is an entry.
ManufacturerDataGet(o, index) ==
  LET entries == ValueOr(OptionalOfPeripheral(o), <<>>)
  IN  IF index >= Len(entries) THEN Refused ELSE Reply(SUCCESS, <<entries[index + 1]>>)

\* read, read_descriptor: pointer and length are cleared first.  Data is its length.
Cleared == <<0>>
ReadInto(o) ==
  LET data == OptionalOfPeripheral(o)
  IN  IF HasValue(data) THEN Reply(SUCCESS, data) ELSE Reply(FAILURE, Cleared)
WriteDescriptor(o) == PeripheralCommand(o)

\* What the functions return that read or write something of a connected device.
Transferred(op, o) ==
  CASE op \in {"read", "read_descriptor"} -> ReadInto(o)
    [] op = "write_descriptor" -> WriteDescriptor(o)
    [] OTHER -> PeripheralCommand(o)
=============================================================================
