-------------------------------- MODULE Wire --------------------------------
(***************************************************************************)
(* What goes into the values inside a Holder: its maps, comparing two of   *)
(* them, and how SimpleDBus::Message puts one on the wire and takes one    *)
(* off it.  A value on the wire is a tree: [code, leaf, of], the D-Bus     *)
(* type, the bits of a simple value (a simple Holder), the values inside.  *)
(***************************************************************************)
EXTENDS Holder
LOCAL INSTANCE SequencesExt

\* What a std::map orders its keys by.
KeyOrder(key) ==
  IF key.type \in IntTypes THEN GetInteger(key, key.type) ELSE key.string

\* get_dict_*: the entries filed under one key type, as a map: in the order of
\* the keys, the last entry of a key the one that stays.
GetDict(h, t) ==
  LET own == SelectSeq(h.dict, LAMBDA e : e.keyType = t)
      last == {i \in 1 .. Len(own) :
                 \A j \in i + 1 .. Len(own) : KeyOrder(own[j].key) # KeyOrder(own[i].key)}
      order == SetToSortSeq(last, LAMBDA i, j : KeyOrder(own[i].key) < KeyOrder(own[j].key))
  IN  [i \in 1 .. Len(order) |-> own[order[i]]]

\* The key types that have a get_dict_*: booleans and doubles have none.
KeyTypes == IntTypes \cup Strings

RECURSIVE SameHolder(_, _)

\* operator==: by the getters, so entries whose key type has none are not seen.
SameHolder(a, b) ==
  /\ a.type = b.type
  /\ CASE a.type \in IntTypes  -> GetInteger(a, a.type) = GetInteger(b, b.type)
       [] a.type = "BOOLEAN"   -> a.boolean = b.boolean
       [] a.type = "DOUBLE"    -> a.double = b.double
       [] a.type \in Strings   -> a.string = b.string
       [] a.type = "ARRAY"     ->
            /\ Len(a.array) = Len(b.array)
            /\ \A i \in DOMAIN a.array : SameHolder(a.array[i], b.array[i])
       [] a.type = "DICT"      ->
            \A t \in KeyTypes :
              LET da == GetDict(a, t)
                  db == GetDict(b, t)
              IN  /\ Len(da) = Len(db)
                  /\ \A i \in DOMAIN da :
                       /\ KeyOrder(da[i].key) = KeyOrder(db[i].key)
                       /\ SameHolder(da[i].value, db[i].value)
       [] OTHER -> TRUE

-----------------------------------------------------------------------------
Leaf(h)         == [code |-> h.type, leaf |-> h, of |-> <<>>]
Container(c, s) == [code |-> c, leaf |-> None, of |-> s]

\* A simple argument: the type is the signature's, the getter is that type's,
\* so the value is narrowed to what was announced.
AppendSimple(h, t) ==
  Leaf(CASE t \in IntTypes  -> CreateInteger(t, GetInteger(h, t))
         [] t = "BOOLEAN"   -> CreateBoolean(h.boolean)
         [] t = "DOUBLE"    -> CreateDouble(h.double)
         [] t \in Strings   -> CreateString(t, h.string))

\* The entries a dictionary argument writes: those of the key type announced.
DictEntries(h, keyType) == IF keyType \in KeyTypes THEN GetDict(h, keyType) ELSE <<>>

RECURSIVE AppendValue(_, _)

\* _append_argument: directed by the signature, not by the type of the holder;
\* inside a variant by the signature the holder gives itself.
AppendValue(h, sig) ==
  CASE sig.code \in Simple    -> AppendSimple(h, sig.code)
    [] sig.code = "VARIANT" -> Container("VARIANT", <<AppendValue(h, SignatureOf(h))>>)
    [] sig.code = "ARRAY"   ->
         Container("ARRAY", [i \in DOMAIN h.array |-> AppendValue(h.array[i], sig.of[1])])
    [] sig.code = "DICT"    ->
         LET entries == DictEntries(h, sig.key)
         IN  Container("ARRAY",
               [i \in DOMAIN entries |->
                  Container("DICT_ENTRY", <<AppendSimple(entries[i].key, sig.key),
                                            AppendValue(entries[i].value, sig.of[1])>>)])

-----------------------------------------------------------------------------
\* _extract_dict: every entry filed under the type its key has on the wire.
ExtractDict(keys, values) ==
  [CreateDict EXCEPT !.dict =
     [i \in DOMAIN keys |->
        [keyType |-> keys[i].type, key |-> GetContents(keys[i]), value |-> values[i]]]]

RECURSIVE ExtractValue(_)

\* _extract_generic: a variant is looked through, an array whose first element
\* is an entry is a dictionary, so an empty dictionary comes out as an array.
ExtractValue(w) ==
  CASE w.code \in Simple    -> w.leaf
    [] w.code = "VARIANT" -> ExtractValue(w.of[1])
    [] w.code = "ARRAY"   ->
         IF w.of # <<>> /\ w.of[1].code = "DICT_ENTRY"
         THEN ExtractDict([i \in DOMAIN w.of |-> ExtractValue(w.of[i].of[1])],
                          [i \in DOMAIN w.of |-> ExtractValue(w.of[i].of[2])])
         ELSE [CreateArray EXCEPT !.array =
                 SelectSeq([i \in DOMAIN w.of |-> ExtractValue(w.of[i])],
                           LAMBDA h : h.type # "NONE")]
    [] OTHER -> None
-----------------------------------------------------------------------------
\* The number of type t that has the bits of n.
Narrow(t, n) ==
  CHOOSE k \in (IF t \in Signed THEN - 2 ^ (Width[t] - 1) .. 2 ^ (Width[t] - 1) - 1
                ELSE 0 .. 2 ^ Width[t] - 1) : (k - n) % 2 ^ Width[t] = 0

RECURSIVE Means(_, _, _)

\* Holder h is what was meant by argument a, announced as sig: numbers with the
\* type's range, sequences element by element, a dictionary by the last value of
\* each key; an empty one cannot be told from an empty array.
Means(h, a, sig) ==
  CASE sig.code \in IntTypes -> h.type = sig.code /\ GetInteger(h, sig.code) = Narrow(sig.code, a.integer)
    [] sig.code = "VARIANT" -> Means(h, a, SignatureOf(a))
    [] sig.code = "ARRAY" ->
         /\ h.type = "ARRAY"
         /\ Len(h.array) = Len(a.array)
         /\ \A i \in DOMAIN h.array : Means(h.array[i], a.array[i], sig.of[1])
    [] sig.code = "DICT" ->
         LET own == {i \in DOMAIN a.dict : a.dict[i].keyType = sig.key}
             same(key, i) == KeyOrder(a.dict[i].key) = KeyOrder(key)
         IN  /\ own = {} => h = CreateArray
             /\ \A i \in own : \E j \in DOMAIN h.dict : same(h.dict[j].key, i)
             /\ \A j \in DOMAIN h.dict :
                  \E i \in own : /\ same(h.dict[j].key, i)
                                 /\ \A k \in own : same(h.dict[j].key, k) => k <= i
                                 /\ Means(h.dict[j].value, a.dict[i].value, sig.of[1])
    [] OTHER -> h.type = sig.code /\ h.string = a.string /\ h.boolean = a.boolean /\ h.double = a.double

\* h is what the other end should find for the argument a: it means the same and
\* compares equal, but for an empty dictionary.
ConveysArgument(h, a, sig) == Means(h, a, sig) /\ (a # CreateDict => SameHolder(h, a))
=============================================================================
