----------------------------- MODULE BluezCalls -----------------------------
(***************************************************************************)
(* What SimpleBluez says to the daemon: the arguments of the method calls  *)
(* its interfaces make, as <<holder, signature>> pairs, and the answers of *)
(* Agent1 to the calls the daemon makes.                                   *)
(***************************************************************************)
EXTENDS Holder

\* Names that travel as strings; 0 is the empty string.
Name == [request |-> 1, command |-> 2, type |-> 3, uuids |-> 4, rssi |-> 5,
         pathloss |-> 6, transport |-> 7, duplicates |-> 8, discoverable |-> 9,
         pattern |-> 10, agent |-> 11, capability |-> 12, interface |-> 13,
         property |-> 14, device |-> 15, pin |-> 16]

ByteArray(bytes) ==
  [CreateArray EXCEPT !.array = [i \in DOMAIN bytes |-> CreateInteger("BYTE", bytes[i])]]

StringDict == DictOf("STRING", Variant)

\* WriteValue of a characteristic, as a request or a command.
WriteValue(bytes, kind) ==
  << <<ByteArray(bytes), ArrayOf(Basic("BYTE"))>>,
     <<DictAppend(CreateDict, "STRING", CreateString("STRING", Name.type),
                  CreateString("STRING", Name[kind])), StringDict>> >>

\* WriteValue of a descriptor, ReadValue of either: no options.
WriteDescriptor(bytes) ==
  << <<ByteArray(bytes), ArrayOf(Basic("BYTE"))>>, <<CreateDict, StringDict>> >>
ReadValue == << <<CreateDict, StringDict>> >>

\* update_value: the bytes of an array that came back.
UpdateValue(h) == [i \in DOMAIN h.array |-> GetInteger(h.array[i], "BYTE")]

\* RegisterAgent, RequestDefaultAgent, UnregisterAgent, RemoveDevice
RegisterAgent ==
  << <<CreateString("OBJ_PATH", Name.agent), Basic("OBJ_PATH")>>,
     <<CreateString("STRING", Name.capability), Basic("STRING")>> >>
OnPath(path) == << <<CreateString("OBJ_PATH", path), Basic("OBJ_PATH")>> >>

\* property_get, property_get_all (without the name), property_set
PropertyGet ==
  << <<CreateString("STRING", Name.interface), Basic("STRING")>>,
     <<CreateString("STRING", Name.property), Basic("STRING")>> >>
PropertyGetAll == SubSeq(PropertyGet, 1, 1)
PropertySet(value) == Append(PropertyGet, <<value, Variant>>)

-----------------------------------------------------------------------------
\* The options of SetDiscoveryFilter, with the type the call files each under:
\* the type of the value, although the name is a string.
FilterOptions(filter) ==
  LET option(present, keyType, name, value) ==
        IF present THEN << <<keyType, CreateString("STRING", name), value>> >> ELSE <<>>
  IN  option(filter.uuids # <<>>, "ARRAY", Name.uuids,
             [CreateArray EXCEPT !.array =
                [i \in DOMAIN filter.uuids |-> CreateString("STRING", filter.uuids[i])]])
      \o option(filter.rssi # 0, "INT16", Name.rssi, CreateInteger("INT16", filter.rssi))
      \o option(filter.pathloss # 0, "UINT16", Name.pathloss,
                CreateInteger("UINT16", filter.pathloss))
      \o option(TRUE, "STRING", Name.transport, CreateString("STRING", filter.transport))
      \o option(~filter.duplicates, "BOOLEAN", Name.duplicates, CreateBoolean(FALSE))
      \o option(filter.discoverable, "BOOLEAN", Name.discoverable, CreateBoolean(FALSE))
      \o option(filter.pattern # 0, "STRING", Name.pattern,
                CreateString("STRING", filter.pattern))

SetDiscoveryFilter(filter) ==
  LET options == FilterOptions(filter)
  IN  << <<[CreateDict EXCEPT !.dict =
              [i \in DOMAIN options |->
                 [keyType |-> options[i][1], key |-> options[i][2], value |-> options[i][3]]]],
           StringDict>> >>

-----------------------------------------------------------------------------
\* The calls of the daemon that carry arguments, and how many.
AgentArguments ==
  [RequestPinCode |-> 1, RequestPasskey |-> 1, DisplayPinCode |-> 2,
   DisplayPasskey |-> 3, RequestConfirmation |-> 2, RequestAuthorization |-> 1,
   AuthorizeService |-> 2, Release |-> 0, Cancel |-> 0]

\* A callback the user may refuse in, by its result or by an invalid value.
Refusable == DOMAIN AgentArguments \ {"DisplayPasskey", "Release", "Cancel"}

\* The reply to a call, given what the callback returned: an error when the user
\* refuses (or the pin is empty, or the passkey out of range), else a return,
\* with the pin or the passkey for the two calls that ask for one.
AgentReply(member, answer) ==
  CASE member \in Refusable /\ ~answer.accepted -> [kind |-> "ERROR", args |-> <<>>]
    [] member = "RequestPinCode" ->
         [kind |-> "RETURN",
          args |-> << <<CreateString("STRING", answer.value), Basic("STRING")>> >>]
    [] member = "RequestPasskey" ->
         [kind |-> "RETURN",
          args |-> << <<CreateInteger("UINT32", answer.value), Basic("UINT32")>> >>]
    [] OTHER -> [kind |-> "RETURN", args |-> <<>>]
=============================================================================
