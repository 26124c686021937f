----------------------------- MODULE ProxyTree -----------------------------
(***************************************************************************)
(* The tree of proxies that SimpleBluez keeps of the objects of BlueZ:     *)
(* SimpleDBus::Proxy, under the root Bluez, fed by the signals of the      *)
(* ObjectManager.  A proxy is named by its chain, the paths from the first *)
(* level down to its own, because the code looks for the parent of a path  *)
(* and may find another one.                                               *)
(*                                                                         *)
(* One thread handles messages; the program holds proxies (shared_ptr)     *)
(* while it does.                                                          *)
(***************************************************************************)
EXTENDS Path, FiniteSets, SequencesExt

CONSTANTS
  Paths,      \* objects BlueZ may have
  Ifaces,     \* interfaces an object may have
  AgentPath,  \* "/agent"
  MaxSignals  \* bound: signals on their way

\* Adapters are the first objects, at "/org/bluez/hci0"; the agent is at the top, and
\* nothing of BlueZ is below it.
ASSUME ProxyTreeAssumption ==
  /\ Paths \subseteq Seq(Nat) /\ \A p \in Paths : Len(p) > 2 /\ SubSeq(p, 1, 1) # AgentPath
  /\ AgentPath \in Seq(Nat) /\ Len(AgentPath) = 1
  /\ MaxSignals \in Nat

VARIABLES
  objects,   \* BlueZ: the interfaces of every path, none where there is no object
  signals,   \* signals of BlueZ on their way
  phase,     \* how far Bluez::init is
  reply,     \* GetManagedObjects: the interfaces of the objects that are not added yet
  missed,    \* BlueZ changed while init was under way
  nodes,     \* the chains of the proxies
  existing,  \* <<chain, interface>>: the interfaces each proxy has objects for
  loaded,    \* those of them that are loaded
  held,      \* the chains of proxies the program holds
  created,   \* the proxies the last step announced (on_child_created)
  signalled  \* the proxy that took the last signal, and who was told (on_child_signal_received)
treeVars == <<nodes, existing, loaded, created, signalled>>
vars == <<objects, signals, phase, reply, missed, treeVars, held>>

PathOf(chain) == IF chain = <<>> THEN <<>> ELSE Last(chain)
ParentPath(path) == Front(path)
TrueChain(path) == [i \in 1 .. Len(path) |-> SubSeq(path, 1, i)]

\* What a path_create of the parent makes: Bluez, ProxyOrg, ... by level.
Kinds == <<"ProxyOrg", "ProxyOrgBluez", "Adapter", "Device", "Service",
           "Characteristic", "Descriptor">>
Kind(chain) == IF chain = <<AgentPath>> THEN "Agent" ELSE Kinds[Len(chain)]

\* A tree as one value, so that a step can be computed over several proxies.
Tree == [nodes |-> nodes, existing |-> existing, loaded |-> loaded, created |-> {}]
Of(pairs, chain) == {i \in Ifaces : <<chain, i>> \in pairs}
Children(t, n) == {c \in t.nodes : c # <<>> /\ Front(c) = n}

\* The first of the children in the order of the map.
IsFirst(c, children) == c \in children /\ \A d \in children \ {c} : Before(PathOf(c), PathOf(d))

-----------------------------------------------------------------------------
\* Mutant of InterfacesLoad: only interfaces that are created are loaded.
InterfacesLoad_NewOnly(t, c, ifaces) ==
  [t EXCEPT !.existing = @ \cup {c} \X ifaces,
            !.loaded = @ \cup (({c} \X ifaces) \ t.existing)]

\* interfaces_load: interfaces that are missing are created, all are loaded.
InterfacesLoad(t, c, ifaces) ==
  [t EXCEPT !.existing = @ \cup {c} \X ifaces, !.loaded = @ \cup {c} \X ifaces]

\* interfaces_unload: the objects stay.
InterfacesUnload(t, c, ifaces) == [t EXCEPT !.loaded = @ \ ({c} \X ifaces)]

\* path_append_child
AppendChild(t, n, path) ==
  IF IsChild(PathOf(n), path) THEN [t EXCEPT !.nodes = @ \cup {Append(n, path)}] ELSE t

\* path_add goes from the root to the first child whose path the new one seems to
\* descend from, and on from there, to a proxy e that has or makes a child of that
\* path, or has no child to go on to.
Via(t, n, path) == {c \in Children(t, n) : IsDescendant(PathOf(c), path)}
Stops(t, n, path) ==
  Append(n, path) \in t.nodes \/ IsChild(PathOf(n), path) \/ Via(t, n, path) = {}
Arrives(t, e, path) ==
  /\ e \in t.nodes
  /\ \A i \in 1 .. Len(e) :
       LET n == SubSeq(e, 1, i - 1)
       IN  ~Stops(t, n, path) /\ IsFirst(SubSeq(e, 1, i), Via(t, n, path))
  /\ Stops(t, e, path)

\* From e on there is a proxy for every further element of the path.
Below(e, path) ==
  e \o [i \in 1 .. Len(path) - Len(e) |-> FetchElements(path, Len(e) + i)]
NewBelow(t, e, path) ==
  {SubSeq(Below(e, path), 1, i) : i \in Len(e) + 1 .. Len(path)} \ t.nodes

\* Mutant of Announce: an intermediate proxy is created in silence.
Announce_Loaded(t, new) == [t EXCEPT !.created = @ \cup {c \in new : Of(t.loaded, c) # {}}]

Announce(t, new) == [t EXCEPT !.created = @ \cup new]

\* path_add, once it is at e: the child that is known has the interfaces loaded; one
\* that is not is created, loaded and announced, each one between likewise but for
\* the interfaces.
PathAdd(t, e, path, ifaces) ==
  LET new == NewBelow(t, e, path)
  IN  Announce(InterfacesLoad([t EXCEPT !.nodes = @ \cup new], Below(e, path), ifaces), new)

Within(n, c) == IsPrefix(n, c)
InUse(t, c) == Of(t.loaded, c) # {} \/ c \in held

\* Mutant of Needed: whether a proxy is held is not asked (use_count).
Needed_Unheld(t, m) == \E c \in t.nodes : Within(m, c) /\ Of(t.loaded, c) # {}

\* A proxy is erased by path_prune of an ancestor unless it, or a proxy below
\* it, has an interface loaded or is held: then it has children, or users.
Needed(t, m) == \E c \in t.nodes : Within(m, c) /\ InUse(t, c)

\* The tree without the proxies that are gone: they are destroyed.
Erase(t, gone) ==
  LET left(pairs) == {x \in pairs : x[1] \notin gone}
  IN  [t EXCEPT !.nodes = @ \ gone, !.existing = left(@), !.loaded = left(@)]

\* path_prune of n
PathPrune(t, n) ==
  Erase(t, {m \in t.nodes : m # n /\ Within(n, m) /\ ~Needed(t, m)})

\* path_remove, from the root: the path is followed exactly, element by element;
\* the proxy at its end is pruned, and erased if nothing needs it.
PathRemove(t, path, ifaces) ==
  LET n == TrueChain(path)
      pruned == PathPrune(InterfacesUnload(t, n, ifaces), n)
  IN  IF n \notin t.nodes THEN t
      ELSE IF Needed(pruned, n) THEN pruned ELSE Erase(pruned, {n})

\* Mutant of Forward: the child of that very path is left out.
Forward_Above(t, n, path) == {c \in Children(t, n) : IsDescendant(PathOf(c), path)}

\* message_forward at n goes on to the first child of that path or above it.
Forward(t, n, path) == {c \in Children(t, n) : PathOf(c) = path \/ IsDescendant(PathOf(c), path)}

\* The proxy a message ends at, from the root on: the first one of its path, or none.
Receiver(t, path) ==
  {c \in t.nodes :
     /\ PathOf(c) = path
     /\ \A i \in 1 .. Len(c) :
          LET n == SubSeq(c, 1, i - 1)
          IN  PathOf(n) # path /\ IsFirst(SubSeq(c, 1, i), Forward(t, n, path))}

-----------------------------------------------------------------------------
Init ==
  /\ objects \in {o \in [Paths -> SUBSET Ifaces] :
                    \A p \in Paths : ParentPath(p) \in Paths /\ o[p] # {} /\ Len(p) > 3
                                       => o[ParentPath(p)] # {}}
  /\ signals = <<>>
  /\ phase = "new"
  /\ reply = [p \in Paths |-> {}]
  /\ missed = FALSE
  /\ nodes = {<<>>}
  /\ existing = {} /\ loaded = {}
  /\ held = {}
  /\ created = {}
  /\ signalled = [by |-> {}, told |-> {}]

Quiet == created' = {} /\ signalled' = [by |-> {}, told |-> {}]

Becomes(t) ==
  /\ nodes' = t.nodes
  /\ existing' = t.existing
  /\ loaded' = t.loaded
  /\ created' = t.created
  /\ signalled' = [by |-> {}, told |-> {}]

\* path_add at the root
Add(path, ifaces) ==
  \E e \in nodes : Arrives(Tree, e, path) /\ Becomes(PathAdd(Tree, e, path, ifaces))

GetManagedObjects ==
  /\ phase = "new"
  /\ phase' = "loading"
  /\ reply' = objects
  /\ Quiet
  /\ UNCHANGED <<objects, signals, missed, nodes, existing, loaded, held>>

\* The objects of the reply are added in the order of the map.
LoadManagedObject(path) ==
  /\ phase = "loading"
  /\ reply[path] # {} /\ \A p \in Paths \ {path} : reply[p] # {} => Before(path, p)
  /\ reply' = [reply EXCEPT ![path] = {}]
  /\ Add(path, reply[path])
  /\ UNCHANGED <<objects, signals, phase, missed, held>>

\* add_match: from here on signals are delivered.
AddMatch ==
  /\ phase = "loading" /\ \A p \in Paths : reply[p] = {}
  /\ phase' = "matched"
  /\ Quiet
  /\ UNCHANGED <<objects, signals, reply, missed, nodes, existing, loaded, held>>

\* The agent becomes a child of the root.
AppendAgent ==
  /\ phase = "matched"
  /\ phase' = "ready"
  /\ Becomes(InterfacesLoad(AppendChild(Tree, <<>>, AgentPath), <<AgentPath>>, Ifaces))
  /\ UNCHANGED <<objects, signals, reply, missed, held>>

\* message_forward of a property change: the parent is told when the message was for
\* one of its children.
ForwardChange(path) ==
  LET by == Receiver(Tree, path)
  IN  /\ signalled' = [by |-> by, told |-> {Front(c) : c \in by}]
      /\ created' = {}
      /\ UNCHANGED <<nodes, existing, loaded>>

\* run_async: one message.  Signals of the ObjectManager are for "/"; others find
\* their proxy.
RunAsync ==
  /\ phase = "ready"
  /\ signals # <<>>
  /\ signals' = Tail(signals)
  /\ LET s == Head(signals)
     IN  \/ s.kind = "added" /\ Add(s.path, s.ifaces)
         \/ s.kind = "removed" /\ Becomes(PathRemove(Tree, s.path, s.ifaces))
         \/ s.kind = "changed" /\ ForwardChange(s.path)
  /\ UNCHANGED <<objects, phase, reply, missed, held>>

\* The program takes hold of a proxy: get_adapters, device_get, services, ... and
\* get_agent; the two levels above the adapters are not handed out.
Hold(c) ==
  /\ c \in nodes \ (held \cup {<<>>})
  /\ Kind(c) \notin {"ProxyOrg", "ProxyOrgBluez"}
  /\ held' = held \cup {c}
  /\ Quiet
  /\ UNCHANGED <<objects, signals, phase, reply, missed, nodes, existing, loaded>>

Release(c) ==
  /\ c \in held
  /\ held' = held \ {c}
  /\ Quiet
  /\ UNCHANGED <<objects, signals, phase, reply, missed, nodes, existing, loaded>>

-----------------------------------------------------------------------------
(* BlueZ: what happens to its objects, and the signals it sends. *)

Emit(kind, path, ifaces) ==
  /\ Len(signals) < MaxSignals
  /\ signals' = IF phase \in {"new", "loading"} THEN signals
                ELSE Append(signals, [kind |-> kind, path |-> path, ifaces |-> ifaces])
  /\ missed' = (missed \/ (phase = "loading" /\ kind # "changed"))
  /\ Quiet
  /\ UNCHANGED <<phase, reply, nodes, existing, loaded, held>>

\* An object appears under an object that is there, or gains an interface.
Appears(path, ifaces) ==
  /\ ifaces # {}
  /\ objects[path] \cap ifaces = {}
  /\ ParentPath(path) \in Paths => objects[ParentPath(path)] # {}
  /\ objects' = [objects EXCEPT ![path] = @ \cup ifaces]
  /\ Emit("added", path, ifaces)

\* An object without children goes, or loses an interface.
Goes(path, ifaces) ==
  /\ ifaces # {}
  /\ ifaces \subseteq objects[path]
  /\ ifaces = objects[path] =>
       \A p \in Paths : objects[p] # {} => ParentPath(p) # path
  /\ objects' = [objects EXCEPT ![path] = @ \ ifaces]
  /\ Emit("removed", path, ifaces)

\* A property of an object changes.
Change(path) ==
  /\ objects[path] # {}
  /\ UNCHANGED objects
  /\ Emit("changed", path, {})

Bluez ==
  \E path \in Paths :
    \/ \E ifaces \in SUBSET Ifaces : Appears(path, ifaces) \/ Goes(path, ifaces)
    \/ Change(path)

Next ==
  \/ GetManagedObjects \/ AddMatch \/ AppendAgent
  \/ \E path \in Paths : LoadManagedObject(path)
  \/ RunAsync
  \/ \E c \in nodes : Hold(c) \/ Release(c)
  \/ Bluez

Spec == Init /\ [][Next]_vars

-----------------------------------------------------------------------------
\* Once every signal is handled, the interfaces loaded are those of BlueZ, for every
\* object with a plain path, whatever names the others have, in whatever order objects
\* came and went and whoever held their proxies meanwhile - unless BlueZ changed between
\* GetManagedObjects and add_match.
DrainedTreeMirrorsBluez ==
  phase = "ready" /\ signals = <<>> /\ ~missed =>
    \A p \in Paths : Plain(p) => Of(loaded, TrueChain(p)) = objects[p]

\* A proxy, and above all one the program holds, stays in the tree with all of its
\* ancestors, so that signals still reach it (path_prune and path_remove look at
\* use_count), and with the objects of the interfaces that are loaded.
HeldStaysReachable ==
  /\ \A c \in held \cup nodes : \A i \in 1 .. Len(c) : SubSeq(c, 1, i) \in nodes
  /\ loaded \subseteq existing /\ existing \subseteq nodes \X Ifaces

\* A proxy is the child of one whose path is the beginning of its own and one element
\* shorter, and therefore of the kind its interfaces and casts expect: a device is found
\* under an adapter.  It is under the proxy of its parent path when its path is plain; a
\* device of hci10 may be under hci1, and must not bring one of another there
\* (path_add, Path::is_child).
UnderTrueParent ==
  \A c \in nodes \ {<<>>} :
    /\ IsChild(PathOf(Front(c)), PathOf(c))
    /\ Plain(PathOf(c)) => c = TrueChain(PathOf(c))

\* A step announces exactly the proxies it adds for BlueZ, the intermediate ones
\* included: one that stayed in the tree because it was held is not announced when
\* its object comes back.
NewProxiesAreAnnounced ==
  [][created' = (nodes' \ nodes) \ {<<AgentPath>>}]_vars

\* A property change of an object with a plain path reaches its proxy, and its parent
\* hears of it, whatever names the other objects have (message_forward).
ChangeReachesProxy ==
  [][\A c \in nodes :
       (signals # <<>> /\ signals' = Tail(signals) /\ Head(signals).kind = "changed"
          /\ c # <<>> /\ c = TrueChain(Head(signals).path) /\ Plain(Head(signals).path))
         => signalled' = [by |-> {c}, told |-> {Front(c)}]]_vars
=============================================================================
