------------------------------- MODULE Holder -------------------------------
(***************************************************************************)
(* SimpleDBus::Holder, the value that crosses D-Bus: a tagged union of the *)
(* D-Bus types.  It is created by type, read back by a getter that narrows *)
(* the 64 stored bits, and asked for its signature; Wire compares it.              *)
(*                                                                         *)
(* A string is a number here, 0 the empty one: only equality and the order *)
(* of std::map matter.  A signature is a record instead of a string:       *)
(* [code, key, of] is the type code, the key type of a dictionary and the  *)
(* signature of what a container holds, in a sequence that is empty when   *)
(* there is nothing.                                                       *)
(***************************************************************************)
EXTENDS Integers, Sequences

CONSTANT Width  \* bits of each integer type

Signed   == {"INT16", "INT32", "INT64"}
IntTypes == Signed \cup {"BYTE", "UINT16", "UINT32", "UINT64"}
Strings  == {"STRING", "OBJ_PATH", "SIGNATURE"}
Simple   == IntTypes \cup Strings \cup {"BOOLEAN", "DOUBLE"}

ASSUME WidthAssumption ==
  /\ Width \in [IntTypes -> Nat \ {0}]
  /\ \A t \in IntTypes : Width[t] <= Width["UINT64"]
  /\ Width["INT64"] = Width["UINT64"]

-----------------------------------------------------------------------------
\* Holder(): holds nothing.
None == [type |-> "NONE", boolean |-> FALSE, integer |-> 0, double |-> 0,
         string |-> 0, array |-> <<>>, dict |-> <<>>]

\* create_byte ... create_uint64: kept as 64 unsigned bits, whatever the type.
CreateInteger(t, n) ==
  [None EXCEPT !.type = t, !.integer = n % 2 ^ Width["UINT64"]]
CreateBoolean(b)   == [None EXCEPT !.type = "BOOLEAN", !.boolean = b]
CreateDouble(d)    == [None EXCEPT !.type = "DOUBLE", !.double = d]
\* create_string, create_object_path, create_signature
CreateString(t, s) == [None EXCEPT !.type = t, !.string = s]
CreateArray        == [None EXCEPT !.type = "ARRAY"]
CreateDict         == [None EXCEPT !.type = "DICT"]

ArrayAppend(h, element) == [h EXCEPT !.array = Append(@, element)]

\* dict_append: the key type is the caller's word for it, and is not compared
\* with the key ("TODO : VALIDATE THAT THE SPECIFIED KEY TYPE IS CORRECT").
DictAppend(h, keyType, key, value) ==
  [h EXCEPT !.dict = Append(@, [keyType |-> keyType, key |-> key, value |-> value])]

-----------------------------------------------------------------------------
\* get_byte ... get_uint64: mask to the width, then reinterpret.
GetInteger(h, t) ==
  LET bits == h.integer % 2 ^ Width[t]
  IN  IF t \in Signed /\ bits >= 2 ^ (Width[t] - 1) THEN bits - 2 ^ Width[t] ELSE bits

\* get_contents: a simple value by the getter of its own type.
GetContents(h) ==
  CASE h.type \in IntTypes -> CreateInteger(h.type, GetInteger(h, h.type))
    [] h.type \in Strings \cup {"BOOLEAN", "DOUBLE"} -> h
    [] OTHER -> None

-----------------------------------------------------------------------------
Basic(code)      == [code |-> code, key |-> "", of |-> <<>>]
Variant          == Basic("VARIANT")
NoSignature      == Basic("")
ArrayOf(sig)     == [code |-> "ARRAY", key |-> "", of |-> <<sig>>]
DictOf(key, sig) == [code |-> "DICT", key |-> key, of |-> <<sig>>]

\* _signature_simple: a container has none, "" is appended for it.
SignatureSimple(h) == IF h.type \in Simple THEN Basic(h.type) ELSE NoSignature

\* The signature of a homogeneous content, "v" for a mixed or an empty one.
ContentSignature(holders) ==
  IF holders # <<>> /\ \A i \in DOMAIN holders : holders[i].type = holders[1].type
  THEN SignatureSimple(holders[1])
  ELSE Variant

\* _signature_type of the keys; "v" for mixed ones, "s" when there are none.
KeySignature(entries) ==
  CASE entries = <<>> -> "STRING"
    [] \A i \in DOMAIN entries : entries[i].keyType = entries[1].keyType ->
         IF entries[1].keyType \in Simple THEN entries[1].keyType ELSE ""
    [] OTHER -> "VARIANT"

SignatureOf(h) ==
  CASE h.type = "ARRAY" -> ArrayOf(ContentSignature(h.array))
    [] h.type = "DICT"  -> DictOf(KeySignature(h.dict),
                                  ContentSignature([i \in DOMAIN h.dict |-> h.dict[i].value]))
    [] OTHER -> SignatureSimple(h)
=============================================================================
