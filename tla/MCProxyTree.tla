---------------------------- MODULE MCProxyTree ----------------------------
(* 0 is agent, 1 org, 2 bluez, 3 hci1, 4 hci10, 5 a device.                  *)
EXTENDS ProxyTree

MCAgent == <<0>>
MCIfaces == {"main"}
\* /org has no object and /org/bluez never changes; two adapters, the name of the one
\* the beginning of the other's, and a device of each.
MCPaths == {<<1, 2, 3>>, <<1, 2, 4>>, <<1, 2, 3, 5>>, <<1, 2, 4, 5>>}
MCPrefix == {<<3, 4>>}

-----------------------------------------------------------------------------
(* path_add and message_forward as the code has them, from proxy to proxy.   *)

RECURSIVE PathAddAt(_, _, _, _), ForwardAt(_, _, _)

PathAddAt(t, n, path, ifaces) ==
  LET child == Append(n, path)
      with(c) == [t EXCEPT !.nodes = @ \cup {c}]
      between == Append(n, NextChild(PathOf(n), path))
  IN  IF ~IsDescendant(PathOf(n), path) THEN t
      ELSE IF child \in t.nodes THEN InterfacesLoad(t, child, ifaces)
      ELSE IF IsChild(PathOf(n), path)
           THEN Announce(InterfacesLoad(with(child), child, ifaces), {child})
      ELSE IF Via(t, n, path) # {}
           THEN PathAddAt(t, CHOOSE c \in Via(t, n, path) : IsFirst(c, Via(t, n, path)), path, ifaces)
      ELSE Announce(PathAddAt(with(between), between, path, ifaces), {between})

ForwardAt(t, n, path) ==
  LET on == Forward(t, n, path)
  IN  IF PathOf(n) = path THEN {n}
      ELSE IF on = {} THEN {}
      ELSE ForwardAt(t, CHOOSE c \in on : IsFirst(c, on), path)

\* The trees that adding up to three paths can make, of these paths and what is above
\* them, with the agent in the tree.
Grown(trees) ==
  LET names == UNION {{SubSeq(p, 1, i) : i \in 1 .. Len(p)} : p \in Paths}
  IN  trees \cup {[PathAddAt(t, <<>>, p, Ifaces) EXCEPT !.created = {}] : t \in trees, p \in names}
Trees ==
  LET agentOnly == [nodes |-> {<<>>, <<AgentPath>>}, existing |-> {}, loaded |-> {}, created |-> {}]
  IN  Grown(Grown(Grown({agentOnly})))

\* PathAdd and Receiver are what the code's recursion comes to.
ASSUME PathAddIsRecursive ==
  \A t \in Trees, p \in Paths :
    {PathAdd(t, e, p, Ifaces) : e \in {n \in t.nodes : Arrives(t, n, p)}}
      = {PathAddAt(t, <<>>, p, Ifaces)}
ASSUME ReceiverIsRecursive == \A t \in Trees, p \in Paths : Receiver(t, p) = ForwardAt(t, <<>>, p)
=============================================================================
