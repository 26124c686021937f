------------------------------ MODULE MCMessage ------------------------------
(* Integers keep their order of width and lose most of it: a BYTE has two    *)
(* bits and a UINT64 five.                                                   *)
EXTENDS Message, Wire

WidthDef == [t \in IntTypes |->
  CASE t = "BYTE" -> 2 [] t \in {"INT16", "UINT16"} -> 3 [] t \in {"INT32", "UINT32"} -> 4
    [] OTHER -> 5]

\* One call of every kind, with boundary values; the last has a dictionary whose
\* keys repeat and are out of order.
CallsDef ==
  { WriteValue(<<0, 3>>, "request"),
    WriteDescriptor(<<1>>), ReadValue, RegisterAgent, OnPath(Name.device),
    PropertyGet, PropertyGetAll,
    PropertySet(CreateBoolean(TRUE)),
    PropertySet(CreateInteger("INT16", -4)),
    SetDiscoveryFilter([uuids |-> <<>>, rssi |-> 0, pathloss |-> 0, transport |-> 5,
                        duplicates |-> TRUE, discoverable |-> FALSE, pattern |-> 6]),
    << <<DictAppend(DictAppend(DictAppend(CreateDict,
             "INT32", CreateInteger("INT32", 1), CreateInteger("UINT64", 31)),
             "INT32", CreateInteger("INT32", -8), CreateDouble(1)),
             "INT32", CreateInteger("INT32", 1), CreateInteger("INT64", -1)),
         DictOf("INT32", Variant)>> >> }

Device == <<CreateString("OBJ_PATH", Name.device), Basic("OBJ_PATH")>>
AgentCallsDef ==
  { [member |-> "RequestPinCode", said |-> <<Device>>],
    [member |-> "DisplayPasskey",
     said |-> <<Device, <<CreateInteger("UINT32", 9), Basic("UINT32")>>,
                <<CreateInteger("UINT16", 2), Basic("UINT16")>> >>],
    [member |-> "AuthorizeService",
     said |-> <<Device, <<CreateString("STRING", Name.uuids), Basic("STRING")>> >>] }
AnswersDef == {[accepted |-> TRUE, value |-> Name.pin], [accepted |-> FALSE, value |-> 0]}
=============================================================================
