-------------------------------- MODULE Path --------------------------------
(***************************************************************************)
(* SimpleDBus::Path.  A path is the sequence of its elements, <<>> for     *)
(* "/"; an element is a number, and their order is that of the strings.    *)
(* The code compares paths as strings, so an element that is the beginning *)
(* of another one matters, as hci1 is of hci10: NamePrefix has such pairs. *)
(*                                                                         *)
(* is_descendant asks for the last place the text of base is at in path,   *)
(* rfind; no path of BlueZ repeats one of its beginnings further on.       *)
(***************************************************************************)
EXTENDS Naturals, Sequences

CONSTANT NamePrefix  \* <<a, b>>: the name a is the beginning of the name b

\* A string comes before those it is the beginning of.
ASSUME NamesAssumption ==
  NamePrefix \subseteq Nat \X Nat /\ \A pair \in NamePrefix : pair[1] < pair[2]

\* fetch_elements and next_child
FetchElements(path, count) == SubSeq(path, 1, IF count > Len(path) THEN Len(path) ELSE count)
NextChild(base, path) == FetchElements(path, Len(base) + 1)

\* Mutant of IsDescendant: any path that is longer.
IsDescendant_Longer(base, path) == Len(base) < Len(path)

\* is_descendant: the string of path begins with the string of base.
IsDescendant(base, path) ==
  /\ base # path
  /\ base # <<>> =>
       /\ Len(base) <= Len(path)
       /\ \A i \in 1 .. Len(base) - 1 : base[i] = path[i]
       /\ LET last == Len(base)
          IN  base[last] = path[last] \/ <<base[last], path[last]>> \in NamePrefix

\* is_child
IsChild(base, path) == IsDescendant(base, path) /\ Len(path) = Len(base) + 1

\* A path of which no element begins with another name: the text of another path is
\* its beginning only where that path is.
Plain(path) == \A i \in 1 .. Len(path) : \A pair \in NamePrefix : pair[2] # path[i]

\* The order of the keys of a std::map.
Before(p, q) ==
  \E i \in 1 .. Len(q) :
    /\ \A j \in 1 .. i - 1 : j <= Len(p) /\ p[j] = q[j]
    /\ i <= Len(p) => p[i] < q[i]
=============================================================================
