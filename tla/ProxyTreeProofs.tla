-------------------------- MODULE ProxyTreeProofs --------------------------
(***************************************************************************)
(* Proofs about the tree of proxies, for any paths and any number of       *)
(* signals.                                                                *)
(***************************************************************************)
EXTENDS ProxyTree, FiniteSetTheorems, SequenceTheorems, TLAPS

Names == Seq(Nat)
Chains == Seq(Names)
Kinded == {"added", "removed", "changed"}

-----------------------------------------------------------------------------
(* Sequences and their beginnings. *)

LEMMA Beginning ==
  ASSUME NEW S, NEW s \in Seq(S), NEW m \in 0 .. Len(s)
  PROVE  /\ SubSeq(s, 1, m) \in Seq(S) /\ Len(SubSeq(s, 1, m)) = m
         /\ \A i \in 1 .. m : SubSeq(s, 1, m)[i] = s[i]
OBVIOUS

LEMMA BeginningOfBeginning ==
  ASSUME NEW S, NEW s \in Seq(S), NEW m \in 0 .. Len(s), NEW i \in 0 .. m
  PROVE  SubSeq(SubSeq(s, 1, m), 1, i) = SubSeq(s, 1, i)
<1>1. /\ SubSeq(s, 1, m) \in Seq(S) /\ Len(SubSeq(s, 1, m)) = m
      /\ \A j \in 1 .. m : SubSeq(s, 1, m)[j] = s[j]
  BY Beginning
<1>2. i \in 0 .. Len(s) /\ i \in 0 .. Len(SubSeq(s, 1, m))
  BY <1>1
<1>3. /\ SubSeq(s, 1, i) \in Seq(S) /\ Len(SubSeq(s, 1, i)) = i
      /\ \A j \in 1 .. i : SubSeq(s, 1, i)[j] = s[j]
  BY <1>2, Beginning
<1>4. /\ SubSeq(SubSeq(s, 1, m), 1, i) \in Seq(S) /\ Len(SubSeq(SubSeq(s, 1, m), 1, i)) = i
      /\ \A j \in 1 .. i : SubSeq(SubSeq(s, 1, m), 1, i)[j] = SubSeq(s, 1, m)[j]
  BY <1>1, <1>2, Beginning
<1>. QED
  BY <1>1, <1>3, <1>4, SeqEqual

\* How prefixes relate to beginnings, and to each other.
LEMMA PrefixIsBeginning ==
  ASSUME NEW S, NEW s \in Seq(S), NEW t \in Seq(S)
  PROVE  IsPrefix(s, t) <=> Len(s) <= Len(t) /\ s = SubSeq(t, 1, Len(s))
<1>1. SubSeq(s, 1, Len(s)) = s
  BY SubSeqFull
<1>. QED
  BY <1>1 DEF IsPrefix

LEMMA BeginningIsPrefix ==
  ASSUME NEW S, NEW s \in Seq(S), NEW m \in 0 .. Len(s)
  PROVE  IsPrefix(SubSeq(s, 1, m), s)
<1> DEFINE p == SubSeq(s, 1, m)
<1>1. p \in Seq(S) /\ Len(p) = m /\ p = SubSeq(s, 1, Len(p)) /\ Len(p) <= Len(s)
  BY Beginning
<1>. HIDE DEF p
<1>2. IsPrefix(p, s)
  BY <1>1, PrefixIsBeginning
<1>. QED
  BY <1>2 DEF p

LEMMA PrefixReflexive ==
  ASSUME NEW S, NEW s \in Seq(S)
  PROVE  IsPrefix(s, s)
BY DEF IsPrefix

LEMMA PrefixTransitive ==
  ASSUME NEW S, NEW s \in Seq(S), NEW t \in Seq(S), NEW u \in Seq(S),
         IsPrefix(s, t), IsPrefix(t, u)
  PROVE  IsPrefix(s, u)
<1>1. Len(s) <= Len(t) /\ s = SubSeq(t, 1, Len(s)) /\ Len(t) <= Len(u) /\ t = SubSeq(u, 1, Len(t))
  BY PrefixIsBeginning
<1>2. Len(s) \in 0 .. Len(t) /\ Len(t) \in 0 .. Len(u)
  BY <1>1
<1>3. SubSeq(t, 1, Len(s)) = SubSeq(u, 1, Len(s))
  BY <1>1, <1>2, BeginningOfBeginning
<1>. QED
  BY <1>1, <1>2, <1>3, PrefixIsBeginning

-----------------------------------------------------------------------------
(* The chain below a proxy. *)

LEMMA BelowIsChain ==
  ASSUME NEW e \in Chains, NEW path \in Names
  PROVE  /\ Below(e, path) \in Chains
         /\ Len(Below(e, path)) = IF Len(e) < Len(path) THEN Len(path) ELSE Len(e)
         /\ \A i \in 1 .. Len(e) : Below(e, path)[i] = e[i]
         /\ \A i \in Len(e) + 1 .. Len(path) : Below(e, path)[i] = SubSeq(path, 1, i)
<1> DEFINE n == IF Len(e) < Len(path) THEN Len(path) - Len(e) ELSE 0
           f == [i \in 1 .. Len(path) - Len(e) |-> FetchElements(path, Len(e) + i)]
<1>1. n \in Nat /\ 1 .. Len(path) - Len(e) = 1 .. n
  BY DEF Chains, Names
<1>2. ASSUME NEW i \in 1 .. n
      PROVE  f[i] = SubSeq(path, 1, Len(e) + i) /\ f[i] \in Names
  <2>1. Len(e) + i \in 0 .. Len(path) /\ ~(Len(e) + i > Len(path)) /\ i \in 1 .. Len(path) - Len(e)
    BY <1>1 DEF Chains, Names
  <2>2. f[i] = SubSeq(path, 1, Len(e) + i)
    BY <2>1 DEF FetchElements
  <2>. QED
    BY <2>1, <2>2, Beginning DEF Names
<1>3. f \in [1 .. n -> Names]
  BY <1>1, <1>2
<1>5. Below(e, path) = e \o f
  BY DEF Below
<1>. HIDE DEF f, n
<1>4. f \in Chains /\ Len(f) = n
  BY <1>1, <1>3, IsASeq DEF Chains
<1>6. /\ e \o f \in Chains /\ Len(e \o f) = Len(e) + n
      /\ \A i \in 1 .. Len(e) + n : (e \o f)[i] = IF i <= Len(e) THEN e[i] ELSE f[i - Len(e)]
  <2>1. e \in Seq(Names) /\ f \in Seq(Names) /\ Len(f) = n
    BY <1>4 DEF Chains
  <2>. QED
    BY <2>1, ConcatProperties DEF Chains
<1>7. ASSUME NEW i \in Len(e) + 1 .. Len(path)
      PROVE  (e \o f)[i] = SubSeq(path, 1, i)
  <2>1. i - Len(e) \in 1 .. n /\ i \in 1 .. Len(e) + n /\ ~(i <= Len(e))
        /\ Len(e) + (i - Len(e)) = i
    BY DEF n, Chains, Names
  <2>. QED
    BY <1>2, <1>6, <2>1
<1>8. Len(e) + n = IF Len(e) < Len(path) THEN Len(path) ELSE Len(e)
  BY DEF n, Chains, Names
<1>9. \A i \in 1 .. Len(e) : i \in 1 .. Len(e) + n /\ i <= Len(e)
  BY <1>1 DEF Chains
<1>. QED
  BY <1>5, <1>6, <1>7, <1>8, <1>9

\* What PathAdd may load is a node, or among the new ones.
LEMMA BelowIsNode ==
  ASSUME NEW t, NEW e \in Chains, NEW path \in Names, e \in t.nodes
  PROVE  Below(e, path) \in t.nodes \cup NewBelow(t, e, path)
<1>1. CASE Len(e) < Len(path)
  <2>1. Below(e, path) \in Chains /\ Len(Below(e, path)) = Len(path)
    BY <1>1, BelowIsChain
  <2>2. SubSeq(Below(e, path), 1, Len(path)) = Below(e, path)
    BY <2>1, SubSeqFull DEF Chains
  <2>3. Len(path) \in Len(e) + 1 .. Len(path)
    BY <1>1 DEF Chains, Names
  <2>. QED
    BY <2>2, <2>3 DEF NewBelow
<1>2. CASE ~(Len(e) < Len(path))
  <2>1. Below(e, path) \in Chains /\ Len(Below(e, path)) = Len(e)
        /\ \A i \in 1 .. Len(e) : Below(e, path)[i] = e[i]
    BY <1>2, BelowIsChain
  <2>2. Below(e, path) = e
    BY <2>1, SeqEqual DEF Chains
  <2>. QED
    BY <2>2
<1>. QED
  BY <1>1, <1>2

\* The tree stays closed under prefixes.
LEMMA NewBelowKeepsClosed ==
  ASSUME NEW t, NEW e \in t.nodes, NEW path \in Names, t.nodes \subseteq Chains,
         \A c \in t.nodes : \A i \in 0 .. Len(c) : SubSeq(c, 1, i) \in t.nodes,
         NEW c \in NewBelow(t, e, path)
  PROVE  /\ c \in Chains /\ Len(c) \in Len(e) + 1 .. Len(path)
         /\ \A i \in 0 .. Len(c) : SubSeq(c, 1, i) \in t.nodes \cup NewBelow(t, e, path)
<1> DEFINE b == Below(e, path)
<1>1. e \in Chains
  OBVIOUS
<1>2. PICK m \in Len(e) + 1 .. Len(path) : c = SubSeq(b, 1, m)
  BY DEF NewBelow
<1>3. Len(e) < Len(path) /\ m \in 0 .. Len(path)
  BY <1>1, <1>2 DEF Chains, Names
<1>4. b \in Chains /\ Len(b) = Len(path) /\ \A i \in 1 .. Len(e) : b[i] = e[i]
  BY <1>1, <1>3, BelowIsChain
<1>. HIDE DEF b
<1>5. c \in Chains /\ Len(c) = m
  BY <1>2, <1>3, <1>4, Beginning DEF Chains
<1>6. ASSUME NEW i \in 0 .. m
      PROVE  SubSeq(c, 1, i) \in t.nodes \cup NewBelow(t, e, path)
  <2>1. SubSeq(c, 1, i) = SubSeq(b, 1, i)
    BY <1>2, <1>3, <1>4, BeginningOfBeginning DEF Chains
  <2>2. CASE i <= Len(e)
    <3>1. i \in 0 .. Len(e) /\ i \in 0 .. Len(b)
      BY <1>1, <1>3, <1>4, <2>2 DEF Chains
    <3>2. /\ SubSeq(b, 1, i) \in Chains /\ Len(SubSeq(b, 1, i)) = i
          /\ \A j \in 1 .. i : SubSeq(b, 1, i)[j] = b[j]
      BY <1>4, <3>1, Beginning DEF Chains
    <3>3. /\ SubSeq(e, 1, i) \in Chains /\ Len(SubSeq(e, 1, i)) = i
          /\ \A j \in 1 .. i : SubSeq(e, 1, i)[j] = e[j]
      BY <1>1, <3>1, Beginning DEF Chains
    <3>4. SubSeq(b, 1, i) = SubSeq(e, 1, i)
      BY <1>4, <3>1, <3>2, <3>3, SeqEqual DEF Chains
    <3>. QED
      BY <2>1, <3>1, <3>4
  <2>3. CASE ~(i <= Len(e))
    <3>1. i \in Len(e) + 1 .. Len(path)
      BY <1>1, <1>2, <2>3 DEF Chains, Names
    <3>. QED
      BY <2>1, <3>1 DEF NewBelow, b
  <2>. QED
    BY <2>2, <2>3
<1>. QED
  BY <1>2, <1>5, <1>6

-----------------------------------------------------------------------------
(* The tree is closed under prefixes: a proxy has all its ancestors. *)

TreeInv ==
  /\ nodes \subseteq Chains /\ <<>> \in nodes
  /\ \A c \in nodes : \A i \in 0 .. Len(c) : SubSeq(c, 1, i) \in nodes
  /\ held \subseteq nodes
  /\ loaded \subseteq existing /\ existing \subseteq nodes \X Ifaces

LEMMA AddFields ==
  ASSUME NEW e, NEW path, NEW ifaces
  PROVE  LET u == PathAdd(Tree, e, path, ifaces)
             new == NewBelow(Tree, e, path)
         IN  /\ u.nodes = nodes \cup new /\ u.created = new
             /\ u.existing = existing \cup {Below(e, path)} \X ifaces
             /\ u.loaded = loaded \cup {Below(e, path)} \X ifaces
BY DEF PathAdd, Announce, InterfacesLoad, Tree

\* path_add
LEMMA AddKeepsTree ==
  ASSUME TreeInv, NEW path \in Names, NEW ifaces \in SUBSET Ifaces, Add(path, ifaces),
         held' = held
  PROVE  TreeInv'
<1>1. PICK e \in nodes : Becomes(PathAdd(Tree, e, path, ifaces))
  BY DEF Add
<1> DEFINE new == NewBelow(Tree, e, path)
           below == Below(e, path)
<1>2. /\ nodes' = nodes \cup new
      /\ existing' = existing \cup {below} \X ifaces /\ loaded' = loaded \cup {below} \X ifaces
  BY <1>1, AddFields DEF Becomes
<1>3. Tree.nodes = nodes /\ nodes \subseteq Chains
  BY DEF Tree, TreeInv
<1>4. below \in nodes \cup new
  BY <1>3, BelowIsNode
<1>5. ASSUME NEW c \in new
      PROVE  c \in Chains /\ \A i \in 0 .. Len(c) : SubSeq(c, 1, i) \in nodes \cup new
  BY <1>3, <1>5, NewBelowKeepsClosed DEF TreeInv
<1>. HIDE DEF new, below
<1>. QED
  BY <1>2, <1>4, <1>5 DEF TreeInv

\* path_append_child
LEMMA AgentFields ==
  LET u == InterfacesLoad(AppendChild(Tree, <<>>, AgentPath), <<AgentPath>>, Ifaces)
  IN  /\ u.nodes = nodes \cup {<<AgentPath>>} /\ u.created = {}
      /\ u.existing = existing \cup {<<AgentPath>>} \X Ifaces
      /\ u.loaded = loaded \cup {<<AgentPath>>} \X Ifaces
<1>0. AgentPath \in Seq(Nat) /\ Len(AgentPath) = 1
  BY ProxyTreeAssumption
<1>1. AgentPath # <<>> /\ Len(AgentPath) = Len(<<>>) + 1
  <2>1. Len(<<>>) # 1 /\ 1 = Len(<<>>) + 1
    OBVIOUS
  <2>2. AgentPath # <<>>
    BY <1>0, <2>1, Zenon
  <2>. QED
    BY <1>0, <2>1, <2>2
<1>2. IsChild(PathOf(<<>>), AgentPath)
  BY <1>1 DEF IsChild, IsDescendant, PathOf
<1>3. Append(<<>>, AgentPath) = <<AgentPath>>
  OBVIOUS
<1>. QED
  BY <1>2, <1>3 DEF AppendChild, InterfacesLoad, Tree

LEMMA AgentKeepsTree ==
  ASSUME TreeInv, AppendAgent
  PROVE  TreeInv'
<1>1. /\ nodes' = nodes \cup {<<AgentPath>>} /\ held' = held
      /\ existing' = existing \cup {<<AgentPath>>} \X Ifaces
      /\ loaded' = loaded \cup {<<AgentPath>>} \X Ifaces
  BY AgentFields DEF AppendAgent, Becomes
<1>2. <<AgentPath>> \in Chains /\ Len(<<AgentPath>>) = 1
  BY ProxyTreeAssumption DEF Chains, Names
<1>3. SubSeq(<<AgentPath>>, 1, 0) = <<>> /\ SubSeq(<<AgentPath>>, 1, 1) = <<AgentPath>>
  <2>1. SubSeq(<<AgentPath>>, 1, 0) = <<>>
    BY SubSeqEmpty
  <2>2. SubSeq(<<AgentPath>>, 1, Len(<<AgentPath>>)) = <<AgentPath>>
    BY <1>2, SubSeqFull DEF Chains
  <2>. QED
    BY <1>2, <2>1, <2>2
<1>4. \A i \in 0 .. 1 : i = 0 \/ i = 1
  OBVIOUS
<1>. DEFINE a == <<AgentPath>>
<1>. HIDE DEF a
<1>. QED
  BY <1>1, <1>2, <1>3, <1>4 DEF TreeInv, a

-----------------------------------------------------------------------------
(* path_remove and path_prune *)

\* The proxies path_remove takes away: those below n that nothing needs, and n.
Gone(n, left) ==
  {m \in nodes : /\ Within(n, m)
                 /\ \A c \in nodes : Within(m, c) => Of(left, c) = {} /\ c \notin held}

\* What is left of the pairs when path_remove is done.
LEMMA RemoveFields ==
  ASSUME TreeInv, NEW path \in Names, NEW ifaces, TrueChain(path) \in nodes
  PROVE  LET n == TrueChain(path)
             u == PathRemove(Tree, path, ifaces)
             left == loaded \ ({n} \X ifaces)
         IN  /\ u.nodes = nodes \ Gone(n, left) /\ u.created = {}
             /\ u.existing = {x \in existing : x[1] \notin Gone(n, left)}
             /\ u.loaded = {x \in left : x[1] \notin Gone(n, left)}
<1> DEFINE n == TrueChain(path)
           left == loaded \ ({n} \X ifaces)
           t == InterfacesUnload(Tree, n, ifaces)
           below == {m \in nodes : m # n /\ Within(n, m) /\ ~Needed(t, m)}
           pruned == PathPrune(t, n)
           kept == {x \in left : x[1] \notin below}
           known == {x \in existing : x[1] \notin below}
<1>1. t = [nodes |-> nodes, existing |-> existing, loaded |-> left, created |-> {}]
  <2>1. t = [Tree EXCEPT !.loaded = Tree.loaded \ ({n} \X ifaces)]
    BY DEF InterfacesUnload
  <2>2. Tree.loaded \ ({n} \X ifaces) = left
    BY DEF Tree
  <2>. HIDE DEF t, left, n
  <2>. QED
    BY <2>1, <2>2 DEF Tree
<1>. HIDE DEF t
<1>2. t.nodes = nodes /\ t.loaded = left
  BY <1>1
<1>. HIDE DEF n, left
<1> DEFINE v == Erase(pruned, {n})
<1>3. /\ pruned.nodes = nodes \ below /\ pruned.created = {}
      /\ pruned.existing = known /\ pruned.loaded = kept
      /\ v.nodes = (nodes \ below) \ {n} /\ v.created = {}
      /\ v.existing = {x \in known : x[1] \notin {n}}
      /\ v.loaded = {x \in kept : x[1] \notin {n}}
  <2>1. pruned = Erase(t, below)
    BY <1>2 DEF PathPrune
  <2>. HIDE DEF below
  <2>2. /\ pruned.nodes = nodes \ below /\ pruned.created = {}
        /\ pruned.existing = known /\ pruned.loaded = kept
    BY <1>1, <2>1 DEF Erase
  <2>3. /\ v.nodes = (nodes \ below) \ {n} /\ v.created = {}
        /\ v.existing = {x \in known : x[1] \notin {n}}
        /\ v.loaded = {x \in kept : x[1] \notin {n}}
    BY <1>1, <2>1 DEF Erase
  <2>. QED
    BY <2>2, <2>3
<1>. HIDE DEF pruned
<1>4. \A m \in nodes : Needed(t, m) <=> \E c \in nodes : Within(m, c) /\ (Of(left, c) # {} \/ c \in held)
  BY <1>2 DEF Needed, InUse
<1>5. Gone(n, left) = {m \in nodes : Within(n, m) /\ ~Needed(t, m)}
  BY <1>4 DEF Gone
<1>6. \A m \in nodes : Within(m, m)
  BY PrefixReflexive DEF TreeInv, Within, Chains
<1>7. n \in nodes /\ n \notin below
  BY DEF n
<1>8. Needed(pruned, n) <=> Needed(t, n)
  <2>1. ASSUME NEW c \in nodes, Within(n, c), Of(left, c) # {} \/ c \in held
        PROVE  c \notin below
    BY <1>4, <1>6, <2>1
  <2>2. \A c \in nodes \ below : Of(kept, c) = Of(left, c)
    BY DEF Of
  <2>3. pruned.nodes = nodes \ below /\ pruned.loaded = kept
    BY <1>3
  <2>. HIDE DEF below, kept
  <2>4. Needed(pruned, n) <=>
          \E c \in nodes \ below : Within(n, c) /\ (Of(left, c) # {} \/ c \in held)
    BY <2>2, <2>3 DEF Needed, InUse
  <2>. QED
    BY <1>4, <1>7, <2>1, <2>4
<1>9. PathRemove(Tree, path, ifaces) = IF Needed(t, n) THEN pruned ELSE v
  BY <1>7, <1>8 DEF PathRemove, Tree, n, t, pruned
<1> DEFINE u == PathRemove(Tree, path, ifaces)
           gone == Gone(n, left)
<1>10. CASE Needed(t, n)
  <2>1. gone = below
    BY <1>5, <1>7, <1>10
  <2>2. u = pruned
    BY <1>9, <1>10
  <2>3. u.nodes = nodes \ below /\ u.created = {} /\ u.existing = known /\ u.loaded = kept
    BY <1>3, <2>2
  <2>. QED
    BY <2>1, <2>3 DEF n, left
<1>11. CASE ~Needed(t, n)
  <2>1. gone = below \cup {n}
    BY <1>5, <1>6, <1>7, <1>11
  <2>2. u = v
    BY <1>9, <1>11
  <2>3. /\ u.nodes = (nodes \ below) \ {n} /\ u.created = {}
        /\ u.existing = {x \in known : x[1] \notin {n}}
        /\ u.loaded = {x \in kept : x[1] \notin {n}}
    BY <1>3, <2>2
  <2>4. /\ (nodes \ below) \ {n} = nodes \ gone
        /\ {x \in known : x[1] \notin {n}} = {x \in existing : x[1] \notin gone}
        /\ {x \in kept : x[1] \notin {n}} = {x \in left : x[1] \notin gone}
    BY <2>1
  <2>. QED
    BY <2>3, <2>4 DEF n, left
<1>. QED
  BY <1>10, <1>11

\* Nothing is loaded that goes.
LEMMA GoneIsNotLoaded ==
  ASSUME TreeInv, NEW n, NEW left \in SUBSET loaded
  PROVE  {x \in left : x[1] \notin Gone(n, left)} = left
<1>1. ASSUME NEW x \in left, x[1] \in Gone(n, left)
      PROVE  FALSE
  <2>1. PICK c \in nodes, i \in Ifaces : x = <<c, i>>
    BY DEF TreeInv
  <2>2. Within(c, c)
    BY PrefixReflexive DEF TreeInv, Within, Chains
  <2>3. Of(left, c) = {}
    BY <1>1, <2>1, <2>2 DEF Gone
  <2>. QED
    BY <2>1, <2>3 DEF Of
<1>. QED
  BY <1>1

LEMMA TrueChainIsChain ==
  ASSUME NEW path \in Names
  PROVE  /\ TrueChain(path) \in Chains /\ Len(TrueChain(path)) = Len(path)
         /\ \A i \in 1 .. Len(path) : TrueChain(path)[i] = SubSeq(path, 1, i)
<1>1. \A i \in 1 .. Len(path) : SubSeq(path, 1, i) \in Names
  BY Beginning DEF Names
<1>2. TrueChain(path) \in [1 .. Len(path) -> Names]
  BY <1>1 DEF TrueChain
<1>3. Len(path) \in Nat
  BY DEF Names
<1>4. TrueChain(path) \in Chains /\ Len(TrueChain(path)) = Len(path)
  BY <1>2, <1>3 DEF Chains
<1>. QED
  BY <1>4 DEF TrueChain

LEMMA RemoveKeepsTree ==
  ASSUME TreeInv, NEW path \in Names, path # <<>>, NEW ifaces, held' = held,
         Becomes(PathRemove(Tree, path, ifaces))
  PROVE  TreeInv'
<1> DEFINE n == TrueChain(path)
           left == loaded \ ({n} \X ifaces)
           gone == Gone(n, left)
<1>1. CASE n \notin nodes
  <2>1. UNCHANGED <<nodes, existing, loaded>>
    BY <1>1 DEF Becomes, PathRemove, Tree
  <2>. QED
    BY <2>1 DEF TreeInv
<1>2. CASE n \in nodes
  <2>1. /\ nodes' = nodes \ gone /\ existing' = {x \in existing : x[1] \notin gone}
        /\ loaded' = left
    <3>1. /\ nodes' = nodes \ gone /\ existing' = {x \in existing : x[1] \notin gone}
          /\ loaded' = {x \in left : x[1] \notin gone}
      BY <1>2, RemoveFields DEF Becomes
    <3>2. {x \in left : x[1] \notin gone} = left
      BY GoneIsNotLoaded
    <3>. QED
      BY <3>1, <3>2
  <2>2. n \in Chains /\ Len(n) # 0
    BY TrueChainIsChain, EmptySeq DEF Names
  <2>3. nodes \subseteq Chains /\ \A m \in gone : m \in nodes /\ Within(n, m)
    BY DEF TreeInv, Gone
  <2>. HIDE DEF n
  <2>4. <<>> \notin gone
    <3>1. ~Within(n, <<>>)
      BY <2>2 DEF Within, IsPrefix, Chains
    <3>. QED
      BY <2>3, <3>1
  <2>5. held \cap gone = {}
    BY <2>3, PrefixReflexive DEF Gone, Within, TreeInv, Chains
  <2>6. ASSUME NEW c \in nodes, NEW i \in 0 .. Len(c), SubSeq(c, 1, i) \in gone
        PROVE  c \in gone
    <3>1. c \in Chains /\ SubSeq(c, 1, i) \in Chains /\ Within(SubSeq(c, 1, i), c)
      BY <2>3, BeginningIsPrefix, Beginning DEF Within, Chains
    <3>2. \A d \in nodes : Within(c, d) => Within(SubSeq(c, 1, i), d)
      BY <2>3, <3>1, PrefixTransitive DEF Within, Chains
    <3>3. Within(n, c)
      BY <2>2, <2>3, <2>6, <3>1, PrefixTransitive DEF Within, Chains
    <3>. QED
      BY <2>6, <3>2, <3>3 DEF Gone
  <2>7. existing' \subseteq nodes' \X Ifaces /\ loaded' \subseteq existing'
    <3>1. loaded' = {x \in left : x[1] \notin gone}
      BY <2>1, GoneIsNotLoaded
    <3>2. left \subseteq existing
      BY DEF TreeInv
    <3>3. \A x \in existing : x[1] \in nodes /\ x = <<x[1], x[2]>> /\ x[2] \in Ifaces
      BY DEF TreeInv
    <3>. HIDE DEF gone, left
    <3>. QED
      BY <2>1, <3>1, <3>2, <3>3
  <2>. HIDE DEF gone, left
  <2>. QED
    BY <2>1, <2>4, <2>5, <2>6, <2>7 DEF TreeInv
<1>. QED
  BY <1>1, <1>2

-----------------------------------------------------------------------------
(* What BlueZ has and sends. *)

Signals == [kind : Kinded, path : Paths, ifaces : SUBSET Ifaces]

BluezInv ==
  /\ objects \in [Paths -> SUBSET Ifaces] /\ reply \in [Paths -> SUBSET Ifaces]
  /\ phase \in {"new", "loading", "matched", "ready"}
  /\ signals \in Seq(Signals)
  /\ \A k \in 1 .. Len(signals) : signals[k].kind = "changed" => signals[k].ifaces = {}
  /\ phase \in {"new", "loading"} => signals = <<>>

LEMMA BluezInit == Init => BluezInv
<1>. SUFFICES ASSUME Init PROVE BluezInv
  OBVIOUS
<1>1. signals = <<>> /\ phase = "new" /\ Len(<<>>) = 0 /\ <<>> \in Seq(Signals)
  BY DEF Init
<1>. QED
  BY <1>1 DEF Init, BluezInv

\* How a signal gets on its way, and off it.
LEMMA EmitKeepsSignals ==
  ASSUME BluezInv, NEW kind \in Kinded, NEW path \in Paths, NEW ifaces \in SUBSET Ifaces,
         Emit(kind, path, ifaces), kind = "changed" => ifaces = {},
         objects' \in [Paths -> SUBSET Ifaces]
  PROVE  BluezInv'
<1>1. phase' = phase /\ reply' = reply
  BY DEF Emit
<1>2. CASE phase \in {"new", "loading"}
  BY <1>1, <1>2 DEF Emit, BluezInv
<1>3. CASE phase \notin {"new", "loading"}
  <2> DEFINE s == [kind |-> kind, path |-> path, ifaces |-> ifaces]
  <2>1. s \in Signals /\ (s.kind = "changed" => s.ifaces = {})
    BY DEF Signals
  <2>2. signals' = Append(signals, s) /\ signals \in Seq(Signals)
    BY <1>3 DEF Emit, BluezInv
  <2>. HIDE DEF s
  <2>3. /\ signals' \in Seq(Signals) /\ Len(signals') = Len(signals) + 1
        /\ \A k \in 1 .. Len(signals) : signals'[k] = signals[k]
        /\ signals'[Len(signals) + 1] = s
    BY <2>1, <2>2, AppendProperties
  <2>4. \A k \in 1 .. Len(signals) + 1 : k \in 1 .. Len(signals) \/ k = Len(signals) + 1
    BY <2>2
  <2>5. \A k \in 1 .. Len(signals') : signals'[k].kind = "changed" => signals'[k].ifaces = {}
    BY <2>1, <2>3, <2>4 DEF BluezInv
  <2>. QED
    BY <1>1, <1>3, <2>3, <2>5 DEF BluezInv
<1>. QED
  BY <1>2, <1>3

LEMMA HeadIsSignal ==
  ASSUME BluezInv, signals # <<>>
  PROVE  /\ Head(signals) = signals[1] /\ signals[1] \in Signals
         /\ Len(signals) \in Nat /\ Len(signals) > 0
         /\ signals[1].kind = "changed" => signals[1].ifaces = {}
<1>1. signals \in Seq(Signals) /\ Len(signals) \in Nat /\ Len(signals) > 0
  BY EmptySeq DEF BluezInv
<1>. QED
  BY <1>1 DEF BluezInv

LEMMA TailKeepsSignals ==
  ASSUME BluezInv, RunAsync
  PROVE  BluezInv'
<1>1. signals \in Seq(Signals) /\ signals # <<>> /\ signals' = Tail(signals)
  BY DEF BluezInv, RunAsync
<1>2. /\ signals' \in Seq(Signals) /\ Len(signals') = Len(signals) - 1
      /\ \A k \in 1 .. Len(signals') : signals'[k] = signals[k + 1]
  BY <1>1, HeadTailProperties
<1>3. Len(signals) \in Nat /\ Len(signals) > 0
  BY <1>1, HeadIsSignal
<1>4. ASSUME NEW k \in 1 .. Len(signals')
      PROVE  k + 1 \in 1 .. Len(signals)
  BY <1>2, <1>3
<1>. QED
  BY <1>2, <1>4 DEF RunAsync, BluezInv

LEMMA BluezStep == BluezInv /\ [Next]_vars => BluezInv'
<1>. SUFFICES ASSUME BluezInv, [Next]_vars PROVE BluezInv'
  OBVIOUS
<1>1. CASE GetManagedObjects
  BY <1>1 DEF GetManagedObjects, BluezInv
<1>2. ASSUME NEW path \in Paths, LoadManagedObject(path)
      PROVE  BluezInv'
  BY <1>2 DEF LoadManagedObject, BluezInv
<1>3. CASE AddMatch
  BY <1>3 DEF AddMatch, BluezInv
<1>4. CASE AppendAgent
  BY <1>4 DEF AppendAgent, BluezInv
<1>5. CASE RunAsync
  BY <1>5, TailKeepsSignals
<1>6. ASSUME NEW c \in nodes, Hold(c) \/ Release(c)
      PROVE  BluezInv'
  BY <1>6 DEF Hold, Release, BluezInv
<1>7. CASE Bluez
  <2>1. PICK path \in Paths :
          (\E ifaces \in SUBSET Ifaces : Appears(path, ifaces) \/ Goes(path, ifaces)) \/ Change(path)
    BY <1>7 DEF Bluez
  <2>2. ASSUME NEW ifaces \in SUBSET Ifaces, Appears(path, ifaces)
        PROVE  BluezInv'
    <3>1. objects' \in [Paths -> SUBSET Ifaces]
      BY <2>2 DEF Appears, BluezInv
    <3>. QED
      BY <2>2, <3>1, EmitKeepsSignals DEF Appears, Kinded
  <2>3. ASSUME NEW ifaces \in SUBSET Ifaces, Goes(path, ifaces)
        PROVE  BluezInv'
    <3>1. objects' \in [Paths -> SUBSET Ifaces]
      BY <2>3 DEF Goes, BluezInv
    <3>. QED
      BY <2>3, <3>1, EmitKeepsSignals DEF Goes, Kinded
  <2>4. CASE Change(path)
    <3>1. objects' \in [Paths -> SUBSET Ifaces]
      BY <2>4 DEF Change, BluezInv
    <3>. QED
      BY <2>4, <3>1, EmitKeepsSignals DEF Change, Kinded
  <2>. QED
    BY <2>1, <2>2, <2>3, <2>4
<1>8. CASE UNCHANGED vars
  BY <1>8 DEF vars, BluezInv
<1>. QED
  BY <1>1, <1>2, <1>3, <1>4, <1>5, <1>6, <1>7, <1>8 DEF Next

\* A path is one of names, and not the root's.
LEMMA PathsAreNames ==
  ASSUME NEW path \in Paths
  PROVE  path \in Names /\ path # <<>> /\ Len(path) > 2 /\ SubSeq(path, 1, 1) # AgentPath
<1>1. path \in Names /\ Len(path) > 2 /\ SubSeq(path, 1, 1) # AgentPath
  BY ProxyTreeAssumption DEF Names
<1>2. ~(Len(<<>>) > 2)
  OBVIOUS
<1>. QED
  BY <1>1, <1>2, Zenon

LEMMA TreeInit == Init => TreeInv
<1>. SUFFICES ASSUME Init PROVE TreeInv
  OBVIOUS
<1>1. <<>> \in Chains /\ Len(<<>>) = 0 /\ SubSeq(<<>>, 1, 0) = <<>>
  BY EmptySeq, SubSeqEmpty DEF Chains
<1>2. \A i \in 0 .. 0 : i = 0
  OBVIOUS
<1>3. nodes = {<<>>} /\ existing = {} /\ loaded = {} /\ held = {}
  BY DEF Init
<1>. QED
  BY <1>1, <1>2, <1>3 DEF TreeInv

LEMMA TreeStep ==
  ASSUME TreeInv, BluezInv, [Next]_vars
  PROVE  TreeInv'
<1>1. CASE UNCHANGED <<nodes, existing, loaded>> /\ held' \subseteq nodes
  BY <1>1 DEF TreeInv
<1>2. CASE GetManagedObjects \/ AddMatch \/ Bluez \/ UNCHANGED vars
  <2>1. UNCHANGED <<nodes, existing, loaded, held>>
    BY <1>2 DEF GetManagedObjects, AddMatch, Bluez, Appears, Goes, Change, Emit, vars, treeVars
  <2>. QED
    BY <1>1, <2>1 DEF TreeInv
<1>3. ASSUME NEW path \in Paths, LoadManagedObject(path)
      PROVE  TreeInv'
  <2>1. reply[path] \in SUBSET Ifaces
    BY DEF BluezInv
  <2>. QED
    BY <1>3, <2>1, PathsAreNames, AddKeepsTree DEF LoadManagedObject
<1>4. CASE AppendAgent
  BY <1>4, AgentKeepsTree
<1>5. CASE RunAsync
  <2> DEFINE s == Head(signals)
  <2>1. s.path \in Paths /\ s.ifaces \in SUBSET Ifaces /\ held' = held
    BY <1>5, HeadIsSignal DEF RunAsync, Signals
  <2>2. s.path \in Names /\ s.path # <<>>
    BY <2>1, PathsAreNames
  <2>3. \/ Add(s.path, s.ifaces)
        \/ Becomes(PathRemove(Tree, s.path, s.ifaces))
        \/ UNCHANGED <<nodes, existing, loaded>>
    BY <1>5 DEF RunAsync, ForwardChange
  <2>. HIDE DEF s
  <2>4. UNCHANGED <<nodes, existing, loaded>> => TreeInv'
    BY <1>1, <2>1 DEF TreeInv
  <2>. QED
    BY <2>1, <2>2, <2>3, <2>4, AddKeepsTree, RemoveKeepsTree
<1>6. ASSUME NEW c \in nodes, Hold(c) \/ Release(c)
      PROVE  TreeInv'
  BY <1>1, <1>6 DEF Hold, Release, TreeInv
<1>. QED
  BY <1>2, <1>3, <1>4, <1>5, <1>6 DEF Next

\* A proxy, and above all one the program holds, stays in the tree with all of its
\* ancestors, whatever names are the beginning of others, and has the objects of what
\* is loaded (Proxy.cpp:122-221).
THEOREM HeldStaysReachableHolds == Spec => []HeldStaysReachable
<1>1. TreeInv => HeldStaysReachable
  <2>. SUFFICES ASSUME TreeInv PROVE HeldStaysReachable
    OBVIOUS
  <2>1. \A c \in held \cup nodes : c \in nodes /\ Len(c) \in Nat
    BY DEF TreeInv, Chains
  <2>2. \A c \in nodes : \A i \in 1 .. Len(c) : i \in 0 .. Len(c)
    OBVIOUS
  <2>. QED
    BY <2>1, <2>2 DEF TreeInv, HeldStaysReachable
<1>2. TreeInv /\ BluezInv /\ [Next]_vars => (TreeInv /\ BluezInv)'
  BY TreeStep, BluezStep
<1>. QED
  BY <1>1, <1>2, TreeInit, BluezInit, PTL DEF Spec

-----------------------------------------------------------------------------
(* What is announced. *)

\* The agent is never among the proxies path_add makes.
LEMMA AgentIsNotBelow ==
  ASSUME TreeInv, NEW e \in nodes, NEW path \in Names, SubSeq(path, 1, 1) # AgentPath
  PROVE  <<AgentPath>> \notin NewBelow(Tree, e, path)
<1>. SUFFICES ASSUME <<AgentPath>> \in NewBelow(Tree, e, path)
              PROVE  FALSE
  OBVIOUS
<1> DEFINE b == Below(e, path)
<1>1. PICK m \in Len(e) + 1 .. Len(path) : <<AgentPath>> = SubSeq(b, 1, m)
  BY DEF NewBelow
<1>2. e \in Chains /\ Len(e) \in Nat
  BY DEF TreeInv, Chains
<1>3. Len(e) < Len(path) /\ m \in 1 .. Len(path)
  BY <1>1, <1>2 DEF Names
<1>4. b \in Chains /\ Len(b) = Len(path)
      /\ \A i \in Len(e) + 1 .. Len(path) : b[i] = SubSeq(path, 1, i)
  BY <1>2, <1>3, BelowIsChain
<1>. HIDE DEF b
<1>5. m \in 0 .. Len(b) /\ b \in Seq(Names)
  BY <1>3, <1>4 DEF Names, Chains
<1>6. Len(SubSeq(b, 1, m)) = m /\ \A i \in 1 .. m : SubSeq(b, 1, m)[i] = b[i]
  BY <1>5, Beginning
<1>7. Len(<<AgentPath>>) = 1 /\ <<AgentPath>>[1] = AgentPath
  OBVIOUS
<1>8. m = 1
  BY <1>1, <1>6, <1>7
<1>9. 1 \in 1 .. m /\ 1 \in Len(e) + 1 .. Len(path)
  BY <1>1, <1>2, <1>8
<1>10. b[1] = AgentPath /\ b[1] = SubSeq(path, 1, 1)
  BY <1>1, <1>4, <1>6, <1>7, <1>9
<1>. QED
  BY <1>10

LEMMA AddAnnounces ==
  ASSUME TreeInv, NEW path \in Paths, NEW ifaces, Add(path, ifaces)
  PROVE  created' = (nodes' \ nodes) \ {<<AgentPath>>}
<1>1. PICK e \in nodes : Becomes(PathAdd(Tree, e, path, ifaces))
  BY DEF Add
<1> DEFINE new == NewBelow(Tree, e, path)
<1>2. nodes' = nodes \cup new /\ created' = new
  BY <1>1, AddFields DEF Becomes
<1>3. <<AgentPath>> \notin new
  BY PathsAreNames, AgentIsNotBelow
<1>4. new \cap nodes = {}
  BY DEF NewBelow, Tree
<1>. HIDE DEF new
<1>. QED
  BY <1>2, <1>3, <1>4

LEMMA RemoveAnnouncesNothing ==
  ASSUME TreeInv, NEW path \in Names, NEW ifaces, Becomes(PathRemove(Tree, path, ifaces))
  PROVE  created' = {} /\ nodes' \subseteq nodes
<1>1. CASE TrueChain(path) \notin nodes
  BY <1>1 DEF Becomes, PathRemove, Tree
<1>2. CASE TrueChain(path) \in nodes
  <2> DEFINE u == PathRemove(Tree, path, ifaces)
             gone == Gone(TrueChain(path), loaded \ ({TrueChain(path)} \X ifaces))
  <2>1. u.nodes = nodes \ gone /\ u.created = {}
    BY <1>2, RemoveFields
  <2>2. nodes' = u.nodes /\ created' = u.created
    BY DEF Becomes
  <2>. HIDE DEF u, gone
  <2>. QED
    BY <2>1, <2>2
<1>. QED
  BY <1>1, <1>2

LEMMA StepAnnounces ==
  ASSUME TreeInv, BluezInv, Next
  PROVE  created' = (nodes' \ nodes) \ {<<AgentPath>>}
<1>1. CASE created' = {} /\ nodes' \subseteq nodes \cup {<<AgentPath>>}
  BY <1>1
<1>2. CASE GetManagedObjects \/ AddMatch \/ Bluez
  <2>1. created' = {} /\ nodes' = nodes
    BY <1>2 DEF GetManagedObjects, AddMatch, Bluez, Appears, Goes, Change, Emit, Quiet
  <2>. QED
    BY <2>1
<1>3. ASSUME NEW path \in Paths, LoadManagedObject(path)
      PROVE  created' = (nodes' \ nodes) \ {<<AgentPath>>}
  BY <1>3, AddAnnounces DEF LoadManagedObject
<1>4. CASE AppendAgent
  <2>1. created' = {} /\ nodes' = nodes \cup {<<AgentPath>>}
    BY <1>4, AgentFields DEF AppendAgent, Becomes
  <2>. QED
    BY <1>1, <2>1
<1>5. CASE RunAsync
  <2> DEFINE s == Head(signals)
  <2>1. s.path \in Paths
    BY <1>5, HeadIsSignal DEF RunAsync, Signals
  <2>2. s.path \in Names
    BY <2>1, PathsAreNames
  <2>3. \/ Add(s.path, s.ifaces)
        \/ Becomes(PathRemove(Tree, s.path, s.ifaces))
        \/ created' = {} /\ nodes' = nodes
    BY <1>5 DEF RunAsync, ForwardChange
  <2>. HIDE DEF s
  <2>. QED
    BY <1>1, <2>1, <2>2, <2>3, AddAnnounces, RemoveAnnouncesNothing
<1>6. ASSUME NEW c \in nodes, Hold(c) \/ Release(c)
      PROVE  created' = {} /\ nodes' = nodes
  BY <1>6 DEF Hold, Release, Quiet
<1>. QED
  BY <1>1, <1>2, <1>3, <1>4, <1>5, <1>6 DEF Next

\* Every step announces exactly the proxies it adds for BlueZ, whatever names are the
\* beginning of others (Proxy.cpp:122-165, on_child_created).
THEOREM NewProxiesAreAnnouncedHolds == Spec => NewProxiesAreAnnounced
<1>1. TreeInv /\ BluezInv /\ [Next]_vars
        => [created' = (nodes' \ nodes) \ {<<AgentPath>>}]_vars
  BY StepAnnounces
<1>2. TreeInv /\ BluezInv /\ [Next]_vars => (TreeInv /\ BluezInv)'
  BY TreeStep, BluezStep
<1>. QED
  BY <1>1, <1>2, TreeInit, BluezInit, PTL DEF Spec, NewProxiesAreAnnounced

-----------------------------------------------------------------------------
(* Names may be the beginning of others.  What is above a plain path by its text is *)
(* above it in truth.                                                               *)

LEMMA BeginningOfName ==
  ASSUME NEW path \in Names, NEW m \in 0 .. Len(path)
  PROVE  /\ SubSeq(path, 1, m) \in Names /\ Len(SubSeq(path, 1, m)) = m
         /\ \A i \in 1 .. m : SubSeq(path, 1, m)[i] = path[i]
BY Beginning DEF Names

LEMMA PlainBeginning ==
  ASSUME NEW path \in Names, NEW m \in 0 .. Len(path), Plain(path)
  PROVE  Plain(SubSeq(path, 1, m))
<1>1. \A i \in 1 .. m : i \in 1 .. Len(path)
  BY DEF Names
<1>. QED
  BY <1>1, BeginningOfName DEF Plain

\* A beginning by its text is shorter, or as long and different only in its last name.
LEMMA DescendantByText ==
  ASSUME NEW base \in Names, NEW path \in Names, IsDescendant(base, path)
  PROVE  /\ Len(base) \in Nat /\ Len(path) \in Nat /\ Len(base) <= Len(path) /\ base # path
         /\ \A i \in 1 .. Len(base) - 1 : base[i] = path[i]
         /\ base # <<>> => \/ base[Len(base)] = path[Len(base)]
                          \/ <<base[Len(base)], path[Len(base)]>> \in NamePrefix
<1>1. Len(base) \in Nat /\ Len(path) \in Nat
  BY DEF Names
<1>. QED
  BY <1>1 DEF IsDescendant

LEMMA DescendantIsBeginning ==
  ASSUME NEW base \in Names, NEW path \in Names, IsDescendant(base, path),
         Plain(SubSeq(path, 1, Len(base)))
  PROVE  Len(base) < Len(path) /\ base = SubSeq(path, 1, Len(base))
<1>0. Len(base) \in Nat /\ Len(path) \in Nat /\ Len(base) <= Len(path) /\ Len(base) \in 0 .. Len(path)
  <2>1. Len(base) \in Nat /\ Len(path) \in Nat /\ Len(base) <= Len(path)
    BY DescendantByText, Zenon
  <2>. QED
    BY <2>1
<1>1. /\ SubSeq(path, 1, Len(base)) \in Names /\ Len(SubSeq(path, 1, Len(base))) = Len(base)
      /\ \A i \in 1 .. Len(base) : SubSeq(path, 1, Len(base))[i] = path[i]
  BY <1>0, BeginningOfName, Zenon
<1>2. \A i \in 1 .. Len(base) : base[i] = path[i]
  <2>1. CASE base = <<>>
    BY <1>0, <2>1
  <2>2. CASE base # <<>>
    <3>1. Len(base) \in 1 .. Len(base)
      BY <1>0, <2>2, EmptySeq DEF Names
    <3>2. \A pair \in NamePrefix : pair[2] # path[Len(base)]
      BY <1>1, <3>1 DEF Plain
    <3>3. <<base[Len(base)], path[Len(base)]>>[2] = path[Len(base)]
      OBVIOUS
    <3>4. base[Len(base)] = path[Len(base)]
      BY <2>2, <3>2, <3>3, DescendantByText, Zenon
    <3>5. \A i \in 1 .. Len(base) : i \in 1 .. Len(base) - 1 \/ i = Len(base)
      BY <1>0
    <3>. QED
      BY <3>4, <3>5, DescendantByText
  <2>. QED
    BY <2>1, <2>2
<1>3. base = SubSeq(path, 1, Len(base))
  <2>1. base \in Seq(Nat) /\ SubSeq(path, 1, Len(base)) \in Seq(Nat)
    BY <1>1 DEF Names
  <2>2. ASSUME NEW i \in 1 .. Len(base)
        PROVE  base[i] = SubSeq(path, 1, Len(base))[i]
    <3>1. base[i] = path[i]
      BY <1>2, Zenon
    <3>2. SubSeq(path, 1, Len(base))[i] = path[i]
      BY <1>1, Zenon
    <3>. QED
      BY <3>1, <3>2, Zenon
  <2>. QED
    BY <1>1, <2>1, <2>2, SeqEqual, Zenon
<1>4. Len(base) # Len(path)
  <2>1. SubSeq(path, 1, Len(path)) = path
    BY SubSeqFull DEF Names
  <2>. QED
    BY <1>3, <2>1 DEF IsDescendant
<1>. QED
  BY <1>0, <1>3, <1>4

LEMMA BeginningIsAbove ==
  ASSUME NEW base \in Names, NEW path \in Names,
         Len(base) < Len(path), base = SubSeq(path, 1, Len(base))
  PROVE  IsDescendant(base, path)
<1>0. Len(base) \in Nat /\ Len(path) \in Nat
  BY DEF Names
<1>1. Len(base) \in 0 .. Len(path)
  BY <1>0
<1>2. \A i \in 1 .. Len(base) : base[i] = path[i]
  BY <1>1, Beginning DEF Names
<1>3. base # <<>> => Len(base) \in 1 .. Len(base)
  BY <1>0, EmptySeq DEF Names
<1>4. \A i \in 1 .. Len(base) - 1 : i \in 1 .. Len(base)
  BY <1>0
<1>5. base # path
  BY <1>0
<1>. QED
  BY <1>0, <1>2, <1>3, <1>4, <1>5 DEF IsDescendant

LEMMA DescendantHasBeginning ==
  ASSUME NEW base \in Names, NEW path \in Names, Plain(path)
  PROVE  IsDescendant(base, path) <=> Len(base) < Len(path) /\ base = SubSeq(path, 1, Len(base))
<1>1. ASSUME IsDescendant(base, path)
      PROVE  Len(base) < Len(path) /\ base = SubSeq(path, 1, Len(base))
  <2>0. Len(base) \in Nat /\ Len(path) \in Nat /\ Len(base) <= Len(path)
    BY <1>1, DescendantByText, Zenon
  <2>1. Len(base) \in 0 .. Len(path)
    BY <2>0
  <2>2. Plain(SubSeq(path, 1, Len(base)))
    BY <2>1, PlainBeginning
  <2>. QED
    BY <1>1, <2>2, DescendantIsBeginning
<1>. QED
  BY <1>1, BeginningIsAbove

\* Above what is above, by the text.
LEMMA DescendantOfDescendant ==
  ASSUME NEW a \in Names, NEW b \in Names, NEW c \in Names,
         IsDescendant(a, b), IsDescendant(b, c), Len(a) < Len(b)
  PROVE  IsDescendant(a, c)
<1>0. Len(a) \in Nat /\ Len(b) \in Nat /\ Len(c) \in Nat /\ Len(b) <= Len(c)
  BY DescendantByText, Zenon
<1>1. Len(a) \in Nat /\ Len(b) \in Nat /\ Len(c) \in Nat /\ Len(a) < Len(c)
  BY <1>0
<1>2. a # c
  BY <1>1
<1>3. \A i \in 1 .. Len(a) : i \in 1 .. Len(b) - 1
  BY <1>1
<1>4. \A i \in 1 .. Len(a) : b[i] = c[i]
  BY <1>3, DescendantByText
<1>5. a # <<>> => Len(a) \in 1 .. Len(a)
  BY <1>1, EmptySeq DEF Names
<1>6. \A i \in 1 .. Len(a) - 1 : i \in 1 .. Len(a)
  BY <1>1
<1>7. \A i \in 1 .. Len(a) - 1 : a[i] = c[i]
  BY <1>4, <1>6, DescendantByText
<1>8. a # <<>> => a[Len(a)] = c[Len(a)] \/ <<a[Len(a)], c[Len(a)]>> \in NamePrefix
  BY <1>4, <1>5, DescendantByText
<1>. QED
  BY <1>1, <1>2, <1>7, <1>8 DEF IsDescendant

LEMMA PathOfTrueChain ==
  ASSUME NEW p \in Names
  PROVE  PathOf(TrueChain(p)) = p
<1>1. TrueChain(p) \in Chains /\ Len(TrueChain(p)) = Len(p) /\ Len(p) \in Nat
      /\ \A i \in 1 .. Len(p) : TrueChain(p)[i] = SubSeq(p, 1, i)
  BY TrueChainIsChain DEF Names
<1> DEFINE c == TrueChain(p)
<1>. HIDE DEF c
<1>2. CASE p = <<>>
  <2>1. Len(c) = 0 /\ c \in Seq(Names)
    BY <1>1, <1>2 DEF c, Chains
  <2>2. c = <<>>
    BY <2>1, EmptySeq
  <2>. QED
    BY <1>2, <2>2 DEF PathOf, c
<1>3. CASE p # <<>>
  <2>1. Len(p) \in 1 .. Len(p)
    BY <1>3, <1>1, EmptySeq DEF Names
  <2>2. Len(c) # 0 /\ c[Len(c)] = SubSeq(p, 1, Len(p))
    BY <1>1, <2>1 DEF c
  <2>3. SubSeq(p, 1, Len(p)) = p
    BY SubSeqFull DEF Names
  <2>4. c # <<>>
    BY <2>2
  <2>. QED
    BY <2>2, <2>3, <2>4 DEF PathOf, Last, c
<1>. QED
  BY <1>2, <1>3

LEMMA BeginningOfTrueChain ==
  ASSUME NEW p \in Names, NEW m \in 0 .. Len(p)
  PROVE  SubSeq(TrueChain(p), 1, m) = TrueChain(SubSeq(p, 1, m))
<1> DEFINE c == TrueChain(p)
           q == SubSeq(p, 1, m)
           d == TrueChain(q)
<1>1. c \in Chains /\ Len(c) = Len(p) /\ \A i \in 1 .. Len(p) : c[i] = SubSeq(p, 1, i)
  BY TrueChainIsChain
<1>2. q \in Names /\ Len(q) = m
  BY Beginning DEF Names
<1>3. d \in Chains /\ Len(d) = m /\ \A i \in 1 .. m : d[i] = SubSeq(q, 1, i)
  BY <1>2, TrueChainIsChain
<1>4. \A i \in 1 .. m : SubSeq(q, 1, i) = SubSeq(p, 1, i) /\ i \in 1 .. Len(p)
  BY BeginningOfBeginning DEF Names
<1>. HIDE DEF c, d
<1>5. /\ SubSeq(c, 1, m) \in Chains /\ Len(SubSeq(c, 1, m)) = m
      /\ \A i \in 1 .. m : SubSeq(c, 1, m)[i] = c[i]
  BY <1>1, Beginning DEF Chains
<1>6. SubSeq(c, 1, m) = d
  BY <1>1, <1>3, <1>4, <1>5, SeqEqual DEF Chains
<1>. QED
  BY <1>6 DEF c, d

-----------------------------------------------------------------------------
(* Every chain is one of paths, each an element longer and by its text below the    *)
(* one before; that of a plain path is its own.                                     *)

ChainInv ==
  \A c \in nodes :
    /\ Len(PathOf(c)) = Len(c)
    /\ c # <<>> => IsDescendant(PathOf(Front(c)), PathOf(c))
    /\ Plain(PathOf(c)) => c = TrueChain(PathOf(c))

LEMMA PathOfNode ==
  ASSUME TreeInv, NEW c \in nodes
  PROVE  PathOf(c) \in Names /\ c \in Chains
<1>1. c \in Chains /\ <<>> \in Names
  BY DEF TreeInv, Names
<1>2. c # <<>> => Len(c) \in 1 .. Len(c)
  BY <1>1, EmptySeq DEF Chains
<1>. QED
  BY <1>1, <1>2 DEF PathOf, Last, Chains

\* A proxy with a plain path is told by it.
LEMMA NodeIsTrueChain ==
  ASSUME TreeInv, ChainInv, NEW c \in nodes, Plain(PathOf(c))
  PROVE  PathOf(c) \in Names /\ c = TrueChain(PathOf(c)) /\ Len(c) = Len(PathOf(c))
BY PathOfNode DEF ChainInv

\* So is one above a plain path by its text, and it is above it in truth.
LEMMA PlainAbove ==
  ASSUME TreeInv, ChainInv, NEW c \in nodes, NEW path \in Names, Plain(path),
         PathOf(c) = path \/ IsDescendant(PathOf(c), path)
  PROVE  /\ c = TrueChain(PathOf(c)) /\ Len(c) = Len(PathOf(c))
         /\ PathOf(c) = SubSeq(path, 1, Len(PathOf(c)))
<1>1. PathOf(c) \in Names
  BY PathOfNode
<1>2. CASE PathOf(c) = path
  BY <1>2, NodeIsTrueChain, SubSeqFull DEF Names
<1>3. CASE IsDescendant(PathOf(c), path)
  <2>1. /\ Len(PathOf(c)) < Len(path) /\ PathOf(c) = SubSeq(path, 1, Len(PathOf(c)))
        /\ Len(PathOf(c)) \in Nat /\ Len(path) \in Nat
    BY <1>1, <1>3, DescendantHasBeginning DEF Names
  <2>2. Len(PathOf(c)) \in 0 .. Len(path)
    BY <2>1
  <2>3. Plain(PathOf(c))
    BY <2>1, <2>2, PlainBeginning
  <2>. QED
    BY <2>1, <2>3, NodeIsTrueChain
<1>. QED
  BY <1>2, <1>3

\* path_add stops above the path, as its text has it.
LEMMA ArrivesAbove ==
  ASSUME TreeInv, ChainInv, NEW e \in nodes, NEW path \in Names, path # <<>>,
         Arrives(Tree, e, path)
  PROVE  Len(e) < Len(path) /\ IsDescendant(PathOf(e), path)
<1>1. e \in Chains /\ PathOf(e) \in Names /\ Len(PathOf(e)) = Len(e) /\ Len(e) \in Nat
  BY PathOfNode DEF ChainInv, Chains
<1>2. Len(path) \in Nat /\ Len(path) > 0
  BY EmptySeq DEF Names
<1>3. CASE e = <<>>
  BY <1>2, <1>3 DEF PathOf, IsDescendant
<1>4. CASE e # <<>>
  <2> DEFINE n == SubSeq(e, 1, Len(e) - 1)
  <2>1. Len(e) \in 1 .. Len(e) /\ Len(e) - 1 \in 0 .. Len(e)
    BY <1>1, <1>4, EmptySeq DEF Chains
  <2>2. SubSeq(e, 1, Len(e)) = e
    BY <1>1, SubSeqFull DEF Chains
  <2>3. n \in nodes /\ Front(e) = n /\ Len(n) = Len(e) - 1
    BY <1>1, <2>1, Beginning DEF TreeInv, Front, Chains
  <2>4. ~Stops(Tree, n, path) /\ IsFirst(e, Via(Tree, n, path))
    BY <2>1, <2>2 DEF Arrives
  <2>5. IsDescendant(PathOf(e), path) /\ ~IsChild(PathOf(n), path)
    BY <2>4 DEF IsFirst, Via, Stops
  <2>6. IsDescendant(PathOf(n), PathOf(e))
    BY <1>4, <2>3 DEF ChainInv
  <2>. HIDE DEF n
  <2>7. PathOf(n) \in Names /\ Len(PathOf(n)) = Len(e) - 1
    BY <2>3, PathOfNode DEF ChainInv
  <2>8. IsDescendant(PathOf(n), path)
    BY <1>1, <2>5, <2>6, <2>7, DescendantOfDescendant
  <2>9. Len(path) # Len(PathOf(n)) + 1
    BY <2>5, <2>8 DEF IsChild
  <2>10. Len(e) <= Len(path)
    BY <1>1, <2>5, DescendantByText
  <2>. QED
    BY <1>1, <1>2, <2>5, <2>7, <2>9, <2>10
<1>. QED
  BY <1>3, <1>4

\* Every proxy it has or makes below has the path that far, and its own chain where
\* that path is plain.
LEMMA BelowOnTheWay ==
  ASSUME TreeInv, ChainInv, NEW e \in nodes, NEW path \in Names, path # <<>>,
         Arrives(Tree, e, path), NEW m \in Len(e) + 1 .. Len(path)
  PROVE  LET c == SubSeq(Below(e, path), 1, m)
             q == SubSeq(path, 1, m)
         IN  /\ c \in Chains /\ Len(c) = m /\ q \in Names /\ Len(q) = m
             /\ PathOf(c) = q
             /\ IsDescendant(PathOf(Front(c)), q)
             /\ Plain(q) => c = TrueChain(q)
<1> DEFINE b == Below(e, path)
           c == SubSeq(b, 1, m)
           q == SubSeq(path, 1, m)
           o == PathOf(e)
<1>1. /\ e \in Chains /\ o \in Names /\ Len(o) = Len(e) /\ Len(e) \in Nat /\ Len(path) \in Nat
      /\ Len(e) < Len(path) /\ IsDescendant(o, path)
  BY PathOfNode, ArrivesAbove DEF ChainInv, Chains, Names
<1>2. /\ m \in Nat /\ m > 0 /\ m \in 0 .. Len(path) /\ m - 1 \in 0 .. m /\ m - 1 \in 0 .. Len(path)
      /\ Len(e) <= m - 1 /\ m \in 1 .. m
  BY <1>1
<1>. HIDE DEF o
<1>3. /\ b \in Chains /\ Len(b) = Len(path)
      /\ \A i \in 1 .. Len(e) : b[i] = e[i]
      /\ \A i \in Len(e) + 1 .. Len(path) : b[i] = SubSeq(path, 1, i)
  BY <1>1, BelowIsChain
<1>4. q \in Names /\ Len(q) = m /\ \A i \in 1 .. m : q[i] = path[i]
  BY <1>2, BeginningOfName
<1>. HIDE DEF b
<1>5. c \in Chains /\ Len(c) = m /\ \A i \in 1 .. m : c[i] = b[i]
  BY <1>2, <1>3, Beginning DEF Chains
<1>6. PathOf(c) = q
  <2>. HIDE DEF c
  <2>1. c # <<>>
    BY <1>2, <1>5
  <2>2. m \in Len(e) + 1 .. Len(path) /\ c[m] = b[m]
    BY <1>2, <1>5
  <2>. QED
    BY <1>3, <1>5, <2>1, <2>2 DEF PathOf, Last
<1>7. Front(c) = SubSeq(b, 1, m - 1)
  <2>1. Front(c) = SubSeq(c, 1, m - 1)
    BY <1>5 DEF Front
  <2>2. m \in 0 .. Len(b)
    BY <1>2, <1>3
  <2>. QED
    BY <1>2, <1>3, <2>1, <2>2, BeginningOfBeginning DEF Chains
<1>8. ASSUME Len(e) = m - 1
      PROVE  IsDescendant(PathOf(Front(c)), q)
  <2>1. SubSeq(b, 1, Len(e)) = e
    <3>1. Len(e) \in 0 .. Len(b)
      BY <1>1, <1>3
    <3>2. /\ SubSeq(b, 1, Len(e)) \in Chains /\ Len(SubSeq(b, 1, Len(e))) = Len(e)
          /\ \A i \in 1 .. Len(e) : SubSeq(b, 1, Len(e))[i] = b[i]
      BY <1>3, <3>1, Beginning DEF Chains
    <3>. QED
      BY <1>1, <1>3, <3>2, SeqEqual DEF Chains
  <2>2. PathOf(Front(c)) = o
    BY <1>7, <1>8, <2>1 DEF o
  <2>3. /\ Len(o) <= Len(q) /\ o # q
        /\ \A i \in 1 .. Len(o) : i \in 1 .. m
        /\ \A i \in 1 .. Len(o) - 1 : i \in 1 .. m
    BY <1>1, <1>2, <1>4, <1>8
  <2>4. o # <<>> => Len(o) \in 1 .. Len(o)
    BY <1>1, EmptySeq DEF Names
  <2>5. /\ \A i \in 1 .. Len(o) - 1 : o[i] = path[i]
        /\ o # <<>> => \/ o[Len(o)] = path[Len(o)]
                      \/ <<o[Len(o)], path[Len(o)]>> \in NamePrefix
    BY <1>1, DescendantByText, Zenon
  <2>. HIDE DEF q, c
  <2>6. IsDescendant(o, q)
    BY <1>4, <2>3, <2>4, <2>5 DEF IsDescendant
  <2>. QED
    BY <2>2, <2>6
<1>9. ASSUME Len(e) # m - 1
      PROVE  IsDescendant(PathOf(Front(c)), q)
  <2> DEFINE f == SubSeq(b, 1, m - 1)
             g == SubSeq(path, 1, m - 1)
  <2>1. m - 1 \in Len(e) + 1 .. Len(path) /\ m - 1 \in 1 .. m - 1 /\ m - 1 \in 0 .. Len(b) /\ m - 1 # 0
    BY <1>1, <1>2, <1>3, <1>9
  <2>2. f \in Chains /\ Len(f) = m - 1 /\ f[m - 1] = b[m - 1]
    BY <1>3, <2>1, Beginning DEF Chains
  <2>3. f # <<>>
    BY <2>1, <2>2
  <2>4. PathOf(f) = g
    BY <1>3, <2>1, <2>2, <2>3 DEF PathOf, Last
  <2>5. g \in Names /\ Len(g) = m - 1 /\ g = SubSeq(q, 1, m - 1)
    BY <1>2, BeginningOfName, BeginningOfBeginning DEF Names
  <2>. HIDE DEF f, g, c, q
  <2>6. Len(g) < Len(q) /\ g = SubSeq(q, 1, Len(g))
    BY <1>2, <1>4, <2>5
  <2>7. IsDescendant(g, q)
    BY <1>4, <2>5, <2>6, BeginningIsAbove
  <2>. QED
    BY <1>7, <2>4, <2>7 DEF f
<1>10. IsDescendant(PathOf(Front(c)), q)
  BY <1>8, <1>9
<1>11. ASSUME Plain(q)
       PROVE  c = TrueChain(q)
  <2>1. Len(e) \in 0 .. m /\ SubSeq(path, 1, Len(e)) = SubSeq(q, 1, Len(e))
    BY <1>1, <1>2, BeginningOfBeginning DEF Names
  <2>2. Plain(SubSeq(path, 1, Len(o)))
    BY <1>1, <1>4, <1>11, <2>1, PlainBeginning
  <2>3. o = SubSeq(path, 1, Len(e)) /\ Plain(o)
    BY <1>1, <2>2, DescendantIsBeginning
  <2>4. e = TrueChain(o)
    BY <2>3 DEF ChainInv, o
  <2>5. ASSUME NEW i \in 1 .. m
        PROVE  b[i] = SubSeq(path, 1, i)
    <3>1. CASE i <= Len(e)
      <4>1. i \in 1 .. Len(o) /\ i \in 0 .. Len(e) /\ Len(e) \in 0 .. Len(path)
        BY <1>1, <3>1
      <4>2. e[i] = SubSeq(o, 1, i)
        BY <1>1, <2>4, <4>1, TrueChainIsChain
      <4>3. SubSeq(SubSeq(path, 1, Len(e)), 1, i) = SubSeq(path, 1, i)
        BY <4>1, BeginningOfBeginning DEF Names
      <4>4. b[i] = e[i]
        BY <1>1, <1>3, <4>1
      <4>. QED
        BY <2>3, <4>2, <4>3, <4>4
    <3>2. CASE ~(i <= Len(e))
      <4>1. i \in Len(e) + 1 .. Len(path)
        BY <1>1, <1>2, <3>2
      <4>. QED
        BY <1>3, <4>1
    <3>. QED
      BY <3>1, <3>2
  <2> DEFINE d == TrueChain(q)
  <2>6. d \in Chains /\ Len(d) = m /\ \A i \in 1 .. m : d[i] = SubSeq(q, 1, i)
    BY <1>4, TrueChainIsChain
  <2>7. \A i \in 1 .. m : i \in 0 .. m /\ SubSeq(q, 1, i) = SubSeq(path, 1, i)
    BY <1>2, BeginningOfBeginning DEF Names
  <2>. HIDE DEF d, c
  <2>8. c = d
    BY <1>5, <2>5, <2>6, <2>7, SeqEqual DEF Chains
  <2>. QED
    BY <2>8 DEF d
<1>. QED
  BY <1>4, <1>5, <1>6, <1>10, <1>11 DEF b

\* So path_add comes to a proxy with the path it was given, the right one if that is plain.
LEMMA ArrivesAtPath ==
  ASSUME TreeInv, ChainInv, NEW e \in nodes, NEW path \in Names, path # <<>>,
         Arrives(Tree, e, path)
  PROVE  /\ PathOf(Below(e, path)) = path
         /\ Plain(path) => Below(e, path) = TrueChain(path)
<1>1. e \in Chains /\ Len(e) \in Nat /\ Len(path) \in Nat /\ Len(e) < Len(path)
  BY PathOfNode, ArrivesAbove DEF Chains, Names
<1>2. Len(path) \in Len(e) + 1 .. Len(path)
  BY <1>1
<1>3. Below(e, path) \in Chains /\ Len(Below(e, path)) = Len(path)
  BY <1>1, BelowIsChain
<1>4. SubSeq(Below(e, path), 1, Len(path)) = Below(e, path) /\ SubSeq(path, 1, Len(path)) = path
  BY <1>3, SubSeqFull DEF Chains, Names
<1>. QED
  BY <1>2, <1>4, BelowOnTheWay

LEMMA ArrivesOnTheWay ==
  ASSUME TreeInv, ChainInv, NEW e \in nodes, NEW path \in Names, path # <<>>, Plain(path),
         Arrives(Tree, e, path)
  PROVE  Below(e, path) = TrueChain(path)
BY ArrivesAtPath

\* A set of numbers has a least one.  Finite sets are well ordered by inclusion, and
\* n is least when 1 .. n is.
LEMMA LeastNumber ==
  ASSUME NEW T \in SUBSET Nat, T # {}
  PROVE  \E x \in T : \A y \in T : x <= y
<1> DEFINE R == StrictSubsetOrdering(Nat)
           U == {1 .. n : n \in T}
<1>1. IsWellFoundedOn(R, FiniteSubsetsOf(Nat))
  BY FS_StrictSubsetOrderingWellFounded
<1>2. U # {} /\ U \subseteq FiniteSubsetsOf(Nat)
  <2>1. ASSUME NEW n \in T
        PROVE  1 .. n \in FiniteSubsetsOf(Nat)
    <3>1. n \in Int /\ 1 \in Int /\ 1 .. n \subseteq Nat
      OBVIOUS
    <3>2. IsFiniteSet(1 .. n)
      BY <3>1, FS_Interval
    <3>. QED
      BY <3>1, <3>2 DEF FiniteSubsetsOf
  <2>. QED
    BY <2>1
<1>3. \A X, Y \in SUBSET Nat : X \subseteq Y /\ X # Y => <<X, Y>> \in R
  BY DEF StrictSubsetOrdering
<1>. HIDE DEF R, U
<1>4. PICK X \in U : \A Y \in U : ~(<<Y, X>> \in R)
  BY <1>1, <1>2, WFMin
<1>5. PICK n \in T : X = 1 .. n
  BY DEF U
<1>6. ASSUME NEW m \in T, m < n
      PROVE  FALSE
  <2>1. 1 .. m \in U /\ 1 .. m \in SUBSET Nat /\ 1 .. n \in SUBSET Nat
    BY DEF U
  <2>2. 1 .. m \subseteq 1 .. n /\ n \in 1 .. n /\ n \notin 1 .. m
    BY <1>6
  <2>. QED
    BY <1>3, <1>4, <1>5, <2>1, <2>2, Zenon
<1>. QED
  BY <1>6

\* On the way to a path, path_add stops where the next proxy is missing, and at the
\* parent of the path.
LEMMA StopsOnTheWay ==
  ASSUME TreeInv, ChainInv, NEW path \in Names, Plain(path), NEW k \in 0 .. Len(path) - 1,
         SubSeq(TrueChain(path), 1, k) \in nodes
  PROVE  LET n == SubSeq(TrueChain(path), 1, k)
             next == SubSeq(TrueChain(path), 1, k + 1)
         IN  IF next \notin nodes \/ k = Len(path) - 1 THEN Stops(Tree, n, path)
             ELSE ~Stops(Tree, n, path) /\ IsFirst(next, Via(Tree, n, path))
<1> DEFINE c == TrueChain(path)
           n == SubSeq(c, 1, k)
           d == SubSeq(c, 1, k + 1)
<1>1. Len(path) \in Nat /\ k \in 0 .. Len(path) /\ k + 1 \in 1 .. Len(path) /\ k + 1 \in 0 .. Len(path)
      /\ (k + 1) - 1 = k
  BY DEF Names
<1>2. c \in Chains /\ Len(c) = Len(path)
  BY TrueChainIsChain
<1>3. n = TrueChain(SubSeq(path, 1, k)) /\ d = TrueChain(SubSeq(path, 1, k + 1))
      /\ SubSeq(path, 1, k) \in Names /\ SubSeq(path, 1, k + 1) \in Names
      /\ Len(SubSeq(path, 1, k)) = k /\ Len(SubSeq(path, 1, k + 1)) = k + 1
  BY <1>1, BeginningOfTrueChain, Beginning DEF Names
<1>4. PathOf(n) = SubSeq(path, 1, k) /\ PathOf(d) = SubSeq(path, 1, k + 1)
  BY <1>3, PathOfTrueChain
<1>5. n \in Chains /\ Len(n) = k /\ d \in Chains /\ Len(d) = k + 1
  BY <1>1, <1>2, Beginning DEF Chains
<1>6. IsDescendant(PathOf(n), path)
  <2>1. Len(PathOf(n)) = k /\ PathOf(n) \in Names
    BY <1>3, <1>4, Zenon
  <2>2. PathOf(n) = SubSeq(path, 1, Len(PathOf(n)))
    BY <1>4, <2>1, Zenon
  <2>3. k < Len(path)
    BY <1>1
  <2>. QED
    BY <2>1, <2>2, <2>3, DescendantHasBeginning
<1>7. IsChild(PathOf(n), path) <=> k = Len(path) - 1
  BY <1>1, <1>3, <1>4, <1>6 DEF IsChild
<1>8. ASSUME Append(n, path) \in nodes
      PROVE  k = Len(path) - 1
  <2>1. Append(n, path) \in Seq(Names) /\ Len(Append(n, path)) = k + 1
        /\ Append(n, path)[k + 1] = path
    BY <1>5, AppendProperties DEF Chains
  <2>2. Append(n, path) # <<>>
    BY <1>1, <2>1, EmptySeq
  <2>3. PathOf(Append(n, path)) = path
    BY <2>1, <2>2 DEF PathOf, Last
  <2>4. Len(Append(n, path)) = Len(path)
    BY <1>8, <2>3 DEF ChainInv
  <2>. QED
    BY <1>1, <2>1, <2>4
<1>. HIDE DEF c
<1>9. ASSUME NEW e \in nodes, e # <<>>, Front(e) = n, IsDescendant(PathOf(e), path)
      PROVE  e = d
  <2>0. /\ e \in Chains /\ PathOf(e) \in Names
        /\ PathOf(e) = path \/ IsDescendant(PathOf(e), path)
    BY <1>9, PathOfNode
  <2>1. e = TrueChain(PathOf(e)) /\ Len(e) = Len(PathOf(e))
        /\ PathOf(e) = SubSeq(path, 1, Len(PathOf(e)))
    BY <2>0, PlainAbove
  <2>2. Len(e) \in Nat /\ Len(e) > 0
    BY <1>9, <2>0, EmptySeq DEF Chains
  <2>3. Len(e) - 1 \in 0 .. Len(e)
    BY <2>2
  <2>4. Len(Front(e)) = Len(e) - 1
    BY <2>0, <2>3, Beginning DEF Front, Chains
  <2>5. Len(e) = k + 1
    <3>1. Len(Front(e)) = k
      BY <1>5, <1>9, Zenon
    <3>. QED
      BY <1>1, <2>2, <2>4, <3>1
  <2>. QED
    BY <1>3, <2>1, <2>5
<1>10. d # <<>> /\ Front(d) = n
  <2>1. SubSeq(d, 1, k) = SubSeq(c, 1, k)
    <3>1. k \in 0 .. k + 1 /\ k + 1 \in 0 .. Len(c)
      BY <1>1, <1>2
    <3>. QED
      BY <1>2, <3>1, BeginningOfBeginning DEF Chains
  <2>2. d # <<>>
    <3>1. Len(d) # 0
      BY <1>1, <1>5
    <3>. QED
      BY <1>5, <3>1, EmptySeq DEF Chains
  <2>3. Len(d) - 1 = k
    BY <1>1, <1>5
  <2>. QED
    BY <2>1, <2>2, <2>3 DEF Front
<1>. HIDE DEF d, n
<1>11. CASE k = Len(path) - 1
  BY <1>7, <1>11 DEF Stops, n, d, c
<1>12. CASE k # Len(path) - 1 /\ d \notin nodes
  <2>1. Via(Tree, n, path) = {}
    BY <1>9, <1>12 DEF Via, Children, Tree
  <2>. QED
    BY <1>12, <2>1 DEF Stops, n, d, c
<1>13. CASE k # Len(path) - 1 /\ d \in nodes
  <2>1. IsDescendant(PathOf(d), path)
    <3>1. Len(PathOf(d)) = k + 1 /\ PathOf(d) \in Names
      BY <1>3, <1>4, Zenon
    <3>2. PathOf(d) = SubSeq(path, 1, Len(PathOf(d)))
      BY <1>4, <3>1, Zenon
    <3>3. k + 1 < Len(path)
      BY <1>1, <1>13
    <3>. QED
      BY <3>1, <3>2, <3>3, DescendantHasBeginning
  <2>2. Via(Tree, n, path) = {d}
    BY <1>9, <1>10, <1>13, <2>1 DEF Via, Children, Tree
  <2>3. ~Stops(Tree, n, path)
    BY <1>7, <1>8, <1>13, <2>2 DEF Stops, Tree
  <2>. QED
    BY <1>13, <2>2, <2>3 DEF IsFirst, n, d, c
<1>. QED
  BY <1>11, <1>12, <1>13

\* For a plain path, whatever the other names, path_add always arrives somewhere, and at
\* one proxy: a message that adds it is never stuck and leaves nothing open
\* (Proxy.cpp:122-165).
THEOREM PathAddArrivesOnce ==
  ASSUME TreeInv, ChainInv, NEW path \in Names, Plain(path), path # <<>>
  PROVE  \E e \in nodes : Arrives(Tree, e, path) /\ \A d \in nodes : Arrives(Tree, d, path) => d = e
<1> DEFINE c == TrueChain(path)
           n(k) == SubSeq(c, 1, k)
           ends == {k \in 0 .. Len(path) - 1 : n(k + 1) \notin nodes \/ k = Len(path) - 1}
<1>1. Len(path) \in Nat /\ Len(path) > 0
  BY EmptySeq DEF Names
<1>2. c \in Chains /\ Len(c) = Len(path)
  BY TrueChainIsChain
<1>3. Len(path) - 1 \in ends /\ ends \in SUBSET Nat
  BY <1>1
<1>4. PICK k \in ends : \A j \in ends : k <= j
  BY <1>3, LeastNumber
<1>5. k \in 0 .. Len(path) - 1 /\ k \in 0 .. Len(c)
  BY <1>1, <1>2
<1>. HIDE DEF c
<1>6. n(k) \in nodes
  <2>1. CASE k = 0
    <3>1. n(0) = <<>>
      BY SubSeqEmpty
    <3>. QED
      BY <2>1, <3>1 DEF TreeInv
  <2>2. CASE k # 0
    <3>1. k - 1 \in 0 .. Len(path) - 1 /\ k - 1 \notin ends /\ (k - 1) + 1 = k
      BY <1>4, <1>5, <2>2
    <3>. QED
      BY <3>1
  <2>. QED
    BY <2>1, <2>2
<1>7. n(k) \in Chains /\ Len(n(k)) = k
  BY <1>2, <1>5, Beginning DEF Chains
<1>8. \A j \in 0 .. k : SubSeq(n(k), 1, j) = n(j) /\ n(j) \in nodes
  <2>1. \A j \in 0 .. k : SubSeq(n(k), 1, j) = n(j)
    BY <1>2, <1>5, BeginningOfBeginning DEF Chains
  <2>2. \A j \in 0 .. k : SubSeq(n(k), 1, j) \in nodes
    BY <1>6, <1>7 DEF TreeInv
  <2>. QED
    BY <2>1, <2>2
<1>9. \A j \in 0 .. k - 1 : /\ ~Stops(Tree, n(j), path)
                            /\ IsFirst(n(j + 1), Via(Tree, n(j), path))
  <2>1. SUFFICES ASSUME NEW j \in 0 .. k - 1
                 PROVE  ~Stops(Tree, n(j), path) /\ IsFirst(n(j + 1), Via(Tree, n(j), path))
    OBVIOUS
  <2>2. j \in 0 .. Len(path) - 1 /\ j \in 0 .. k /\ j \notin ends
    BY <1>4, <1>5
  <2>3. n(j) \in nodes /\ n(j + 1) \in nodes /\ j # Len(path) - 1
    BY <1>8, <2>2
  <2>. QED
    BY <2>2, <2>3, StopsOnTheWay DEF c
<1>10. Stops(Tree, n(k), path)
  BY <1>4, <1>5, <1>6, StopsOnTheWay DEF c
<1>11. Arrives(Tree, n(k), path)
  <2>1. ASSUME NEW i \in 1 .. k
        PROVE  /\ ~Stops(Tree, SubSeq(n(k), 1, i - 1), path)
               /\ IsFirst(SubSeq(n(k), 1, i), Via(Tree, SubSeq(n(k), 1, i - 1), path))
    <3>1. i - 1 \in 0 .. k - 1 /\ i - 1 \in 0 .. k /\ i \in 0 .. k /\ (i - 1) + 1 = i
      BY <1>5
    <3>. QED
      BY <1>8, <1>9, <3>1
  <2>. QED
    BY <1>6, <1>7, <1>10, <2>1 DEF Arrives, Tree
<1>12. ASSUME NEW d \in nodes, Arrives(Tree, d, path)
       PROVE  d = n(k)
  <2>1. Below(d, path) = c /\ d \in Chains /\ Len(d) \in Nat
    BY <1>12, ArrivesOnTheWay DEF c, TreeInv, Chains
  <2>2. Len(Below(d, path)) = Len(path) /\ Len(d) <= Len(path)
        /\ \A i \in 1 .. Len(d) : c[i] = d[i]
    <3>1. /\ Len(Below(d, path)) = IF Len(d) < Len(path) THEN Len(path) ELSE Len(d)
          /\ \A i \in 1 .. Len(d) : Below(d, path)[i] = d[i]
      BY <2>1, BelowIsChain
    <3>. QED
      BY <1>1, <1>2, <2>1, <3>1
  <2>3. Len(d) \in 0 .. Len(c)
    BY <1>2, <2>1, <2>2
  <2>4. n(Len(d)) \in Chains /\ Len(n(Len(d))) = Len(d)
        /\ \A i \in 1 .. Len(d) : n(Len(d))[i] = c[i]
    BY <1>2, <2>3, Beginning DEF Chains
  <2>5. d = n(Len(d))
    BY <2>1, <2>2, <2>4, SeqEqual DEF Chains
  <2>6. Stops(Tree, d, path)
    BY <1>12 DEF Arrives
  <2>7. ~(Len(d) < k)
    <3>1. SUFFICES ASSUME Len(d) < k
                   PROVE  FALSE
      OBVIOUS
    <3>2. Len(d) \in 0 .. k - 1
      BY <1>5, <2>1, <3>1
    <3>3. ~Stops(Tree, n(Len(d)), path)
      BY <1>9, <3>2, Zenon
    <3>. QED
      BY <2>5, <2>6, <3>3, Zenon
  <2>8. ASSUME k < Len(d)
        PROVE  FALSE
    <3>1. k + 1 \in 1 .. Len(d) /\ (k + 1) - 1 = k /\ k \in 0 .. Len(d)
      BY <1>5, <2>1, <2>8
    <3>2. ~Stops(Tree, SubSeq(d, 1, k), path)
      BY <1>12, <3>1 DEF Arrives
    <3>3. SubSeq(n(Len(d)), 1, k) = n(k)
      BY <1>2, <2>3, <3>1, BeginningOfBeginning DEF Chains
    <3>. QED
      BY <1>10, <2>5, <3>2, <3>3
  <2>9. Len(d) = k
    BY <1>5, <2>1, <2>7, <2>8
  <2>. QED
    BY <2>5, <2>9
<1>. QED
  BY <1>6, <1>11, <1>12

LEMMA AddKeepsChains ==
  ASSUME ChainInv, TreeInv, NEW path \in Names, path # <<>>, NEW ifaces, Add(path, ifaces)
  PROVE  ChainInv'
<1>1. PICK e \in nodes : Arrives(Tree, e, path) /\ Becomes(PathAdd(Tree, e, path, ifaces))
  BY DEF Add
<1> DEFINE new == NewBelow(Tree, e, path)
<1>2. nodes' = nodes \cup new
  BY <1>1, AddFields DEF Becomes
<1>3. ASSUME NEW c \in new
      PROVE  /\ Len(PathOf(c)) = Len(c)
             /\ IsDescendant(PathOf(Front(c)), PathOf(c))
             /\ Plain(PathOf(c)) => c = TrueChain(PathOf(c))
  <2>1. PICK m \in Len(e) + 1 .. Len(path) : c = SubSeq(Below(e, path), 1, m)
    BY DEF NewBelow
  <2>. QED
    BY <1>1, <2>1, BelowOnTheWay
<1>. HIDE DEF new
<1>4. ASSUME NEW c \in nodes'
      PROVE  /\ Len(PathOf(c)) = Len(c)
             /\ c # <<>> => IsDescendant(PathOf(Front(c)), PathOf(c))
             /\ Plain(PathOf(c)) => c = TrueChain(PathOf(c))
  BY <1>2, <1>3 DEF ChainInv
<1>. QED
  BY <1>4 DEF ChainInv, PathOf, TrueChain

\* The interfaces are loaded for a proxy with the path that was given.
LEMMA AddLoads ==
  ASSUME ChainInv, TreeInv, NEW path \in Names, path # <<>>, NEW ifaces, Add(path, ifaces)
  PROVE  \E b : /\ PathOf(b) = path /\ (Plain(path) => b = TrueChain(path))
                /\ loaded' = loaded \cup {b} \X ifaces
<1>1. PICK e \in nodes : Arrives(Tree, e, path) /\ Becomes(PathAdd(Tree, e, path, ifaces))
  BY DEF Add
<1>2. loaded' = loaded \cup {Below(e, path)} \X ifaces
  BY <1>1, AddFields DEF Becomes
<1>. QED
  BY <1>1, <1>2, ArrivesAtPath

\* The agent is the child of the root, and not a proxy of an object of BlueZ.
LEMMA AgentChain ==
  /\ <<AgentPath>> = TrueChain(AgentPath) /\ AgentPath \in Names
  /\ \A p \in Paths : TrueChain(p) # <<AgentPath>>
<1>1. AgentPath \in Names /\ Len(AgentPath) = 1
  BY ProxyTreeAssumption DEF Names
<1>2. TrueChain(AgentPath) \in Chains /\ Len(TrueChain(AgentPath)) = 1
      /\ TrueChain(AgentPath)[1] = SubSeq(AgentPath, 1, 1)
  BY <1>1, TrueChainIsChain
<1>3. SubSeq(AgentPath, 1, 1) = AgentPath
  BY <1>1, SubSeqFull DEF Names
<1>4. <<AgentPath>> \in Seq(Names) /\ Len(<<AgentPath>>) = 1 /\ <<AgentPath>>[1] = AgentPath
  BY <1>1
<1> DEFINE a == <<AgentPath>>
           c == TrueChain(AgentPath)
<1>. HIDE DEF a, c
<1>5. \A i \in 1 .. 1 : i = 1
  OBVIOUS
<1>6. a = c
  BY <1>2, <1>3, <1>4, <1>5, SeqEqual DEF a, c, Chains
<1>7. \A p \in Paths : Len(TrueChain(p)) = Len(p) /\ Len(p) > 2
  BY PathsAreNames, TrueChainIsChain
<1>8. ~(1 > 2)
  OBVIOUS
<1>9. \A p \in Paths : TrueChain(p) # <<AgentPath>>
  BY <1>4, <1>7, <1>8, Zenon
<1>. QED
  BY <1>1, <1>6, <1>9 DEF a, c

LEMMA ChainInit == Init => ChainInv
<1>. SUFFICES ASSUME Init PROVE ChainInv
  OBVIOUS
<1>1. nodes = {<<>>} /\ <<>> \in Names /\ Len(<<>>) = 0 /\ PathOf(<<>>) = <<>>
  BY DEF Init, Names, PathOf
<1>2. TrueChain(<<>>) \in Chains /\ Len(TrueChain(<<>>)) = 0
  BY <1>1, TrueChainIsChain
<1>3. TrueChain(<<>>) = <<>>
  BY <1>2, EmptySeq DEF Chains
<1>. QED
  BY <1>1, <1>3 DEF ChainInv

LEMMA AgentKeepsChains ==
  ASSUME ChainInv, nodes' = nodes \cup {<<AgentPath>>}
  PROVE  ChainInv'
<1>1. AgentPath \in Names /\ Len(AgentPath) = 1 /\ AgentPath # <<>>
  BY ProxyTreeAssumption, EmptySeq DEF Names
<1> DEFINE a == <<AgentPath>>
<1>2. Len(a) = 1 /\ a # <<>> /\ PathOf(a) = AgentPath
  BY <1>1 DEF PathOf, Last
<1>3. Front(a) = <<>>
  BY <1>2, SubSeqEmpty DEF Front
<1>4. IsDescendant(PathOf(Front(a)), AgentPath)
  BY <1>1, <1>3 DEF PathOf, IsDescendant
<1>5. a = TrueChain(AgentPath)
  BY AgentChain
<1>. HIDE DEF a
<1>6. nodes' = nodes \cup {a}
  BY DEF a
<1>7. ASSUME NEW c \in nodes'
      PROVE  /\ Len(PathOf(c)) = Len(c)
             /\ c # <<>> => IsDescendant(PathOf(Front(c)), PathOf(c))
             /\ Plain(PathOf(c)) => c = TrueChain(PathOf(c))
  BY <1>1, <1>2, <1>4, <1>5, <1>6 DEF ChainInv
<1>. QED
  BY <1>7 DEF ChainInv, PathOf, TrueChain

LEMMA FewerNodesKeepChains ==
  ASSUME ChainInv, nodes' \subseteq nodes
  PROVE  ChainInv'
BY DEF ChainInv, PathOf, TrueChain

LEMMA ChainStep ==
  ASSUME TreeInv, BluezInv, ChainInv, [Next]_vars
  PROVE  ChainInv'
<1>1. CASE GetManagedObjects \/ AddMatch \/ Bluez \/ UNCHANGED vars
  <2>1. nodes' = nodes
    BY <1>1 DEF GetManagedObjects, AddMatch, Bluez, Appears, Goes, Change, Emit, vars, treeVars
  <2>. QED
    BY <2>1, FewerNodesKeepChains
<1>2. ASSUME NEW path \in Paths, LoadManagedObject(path)
      PROVE  ChainInv'
  BY <1>2, PathsAreNames, AddKeepsChains DEF LoadManagedObject
<1>3. CASE AppendAgent
  <2>1. nodes' = nodes \cup {<<AgentPath>>}
    BY <1>3, AgentFields DEF AppendAgent, Becomes
  <2>. QED
    BY <2>1, AgentKeepsChains
<1>4. CASE RunAsync
  <2> DEFINE s == Head(signals)
  <2>1. s.path \in Paths
    BY <1>4, HeadIsSignal DEF RunAsync, Signals
  <2>2. s.path \in Names /\ s.path # <<>>
    BY <2>1, PathsAreNames
  <2>3. \/ Add(s.path, s.ifaces)
        \/ Becomes(PathRemove(Tree, s.path, s.ifaces))
        \/ nodes' = nodes
    BY <1>4 DEF RunAsync, ForwardChange
  <2>. HIDE DEF s
  <2>4. nodes' \subseteq nodes \/ ChainInv'
    BY <2>2, <2>3, AddKeepsChains, RemoveAnnouncesNothing
  <2>. QED
    BY <2>4, FewerNodesKeepChains
<1>5. ASSUME NEW c \in nodes, Hold(c) \/ Release(c)
      PROVE  ChainInv'
  <2>1. nodes' = nodes
    BY <1>5 DEF Hold, Release
  <2>. QED
    BY <2>1, FewerNodesKeepChains
<1>. QED
  BY <1>1, <1>2, <1>3, <1>4, <1>5 DEF Next

\* A proxy is the child of one whose path is the beginning of its own and one element
\* shorter, whatever the names, and of its parent path's where its path is plain
\* (Proxy.cpp:122-165, Path.cpp:57-79).
THEOREM UnderTrueParentHolds == Spec => []UnderTrueParent
<1>1. ASSUME TreeInv, ChainInv
      PROVE  UnderTrueParent
  <2>. SUFFICES ASSUME NEW c \in nodes, c # <<>>
                PROVE  /\ IsChild(PathOf(Front(c)), PathOf(c))
                       /\ Plain(PathOf(c)) => c = TrueChain(PathOf(c))
    BY DEF UnderTrueParent
  <2>1. c \in Chains /\ Len(c) \in Nat /\ Len(c) > 0
    BY <1>1, PathOfNode, EmptySeq DEF Chains
  <2>2. Len(c) - 1 \in 0 .. Len(c)
    BY <2>1
  <2>3. Front(c) \in nodes /\ Len(Front(c)) = Len(c) - 1
    BY <1>1, <2>1, <2>2, Beginning DEF TreeInv, Front, Chains
  <2>4. Len(PathOf(c)) = Len(c) /\ Len(PathOf(Front(c))) = Len(c) - 1
    BY <1>1, <2>3 DEF ChainInv
  <2>5. Len(PathOf(c)) = Len(PathOf(Front(c))) + 1
    BY <2>1, <2>4
  <2>. QED
    BY <1>1, <2>5 DEF ChainInv, IsChild
<1>2. TreeInv /\ BluezInv /\ ChainInv /\ [Next]_vars => (TreeInv /\ BluezInv /\ ChainInv)'
  BY TreeStep, BluezStep, ChainStep
<1>. QED
  BY <1>1, <1>2, TreeInit, BluezInit, ChainInit, PTL DEF Spec

-----------------------------------------------------------------------------
(* Where a message ends. *)

\* On the way to a proxy there is one child to forward to: the next on the way.
LEMMA OneWay ==
  ASSUME TreeInv, ChainInv, NEW path \in Names, Plain(path), TrueChain(path) \in nodes,
         NEW i \in 1 .. Len(path)
  PROVE  LET c == TrueChain(path)
             n == SubSeq(c, 1, i - 1)
         IN  PathOf(n) # path /\ Forward(Tree, n, path) = {SubSeq(c, 1, i)}
<1> DEFINE c == TrueChain(path)
           n == SubSeq(c, 1, i - 1)
           d == SubSeq(c, 1, i)
<1>1. i - 1 \in 0 .. Len(path) /\ i \in 0 .. Len(path) /\ Len(path) \in Nat
  BY DEF Names
<1>2. c \in Chains /\ Len(c) = Len(path)
  BY TrueChainIsChain
<1>3. n = TrueChain(SubSeq(path, 1, i - 1)) /\ d = TrueChain(SubSeq(path, 1, i))
      /\ SubSeq(path, 1, i - 1) \in Names /\ SubSeq(path, 1, i) \in Names
      /\ Len(SubSeq(path, 1, i - 1)) = i - 1 /\ Len(SubSeq(path, 1, i)) = i
  BY <1>1, BeginningOfTrueChain, Beginning DEF Names
<1>4. PathOf(n) = SubSeq(path, 1, i - 1) /\ PathOf(d) = SubSeq(path, 1, i)
  BY <1>3, PathOfTrueChain
<1>5. PathOf(n) # path
  BY <1>1, <1>3, <1>4
<1>6. d \in nodes /\ d \in Chains /\ Len(d) = i /\ n \in Chains
  BY <1>1, <1>2, <1>3, TrueChainIsChain DEF TreeInv
<1>. HIDE DEF c, n, d
<1>7. d # <<>> /\ Front(d) = n
  <2>1. SubSeq(d, 1, i - 1) = SubSeq(c, 1, i - 1)
    <3>1. i - 1 \in 0 .. i /\ i \in 0 .. Len(c)
      BY <1>1, <1>2
    <3>. QED
      BY <1>2, <3>1, BeginningOfBeginning DEF d, Chains
  <2>2. Len(d) # 0
    BY <1>1, <1>6
  <2>3. d # <<>>
    BY <2>2
  <2>. QED
    BY <1>6, <2>1, <2>3 DEF Front, n
<1>8. PathOf(d) = path \/ IsDescendant(PathOf(d), path)
  <2>1. CASE i = Len(path)
    BY <1>4, <2>1, SubSeqFull DEF Names
  <2>2. CASE i # Len(path)
    <3>0. i < Len(path)
      BY <1>1, <2>2
    <3>1. i < Len(path) /\ PathOf(d) \in Names /\ Len(PathOf(d)) = i
      BY <1>3, <1>4, <3>0, Zenon
    <3>2. PathOf(d) = SubSeq(path, 1, Len(PathOf(d)))
      BY <1>4, <3>1, Zenon
    <3>. QED
      BY <3>1, <3>2, DescendantHasBeginning
  <2>. QED
    BY <2>1, <2>2
<1>9. ASSUME NEW e \in nodes, e # <<>>, Front(e) = n,
             PathOf(e) = path \/ IsDescendant(PathOf(e), path)
      PROVE  e = d
  <2>0. /\ e \in Chains /\ PathOf(e) \in Names
        /\ PathOf(e) = path \/ IsDescendant(PathOf(e), path)
    BY <1>9, PathOfNode
  <2>1. e = TrueChain(PathOf(e)) /\ Len(e) = Len(PathOf(e))
        /\ PathOf(e) = SubSeq(path, 1, Len(PathOf(e)))
    BY <2>0, PlainAbove
  <2>2. Len(e) \in Nat /\ Len(e) > 0
    BY <1>9, <2>0, EmptySeq DEF Chains
  <2>3. Len(n) = i - 1
    BY <1>3, TrueChainIsChain
  <2>4. Len(e) - 1 \in 0 .. Len(e) /\ Len(Front(e)) = Len(e) - 1
    <3>1. Len(e) - 1 \in 0 .. Len(e)
      BY <2>2
    <3>. QED
      BY <2>0, <3>1, Beginning DEF Front, Chains
  <2>5. Len(e) = i
    BY <1>9, <2>2, <2>3, <2>4
  <2>. QED
    BY <1>3, <2>1, <2>5
<1>10. Forward(Tree, n, path) = {d}
  BY <1>6, <1>7, <1>8, <1>9 DEF Forward, Children, Tree
<1>. QED
  BY <1>5, <1>10 DEF c, n, d

LEMMA MessageEndsAtProxy ==
  ASSUME TreeInv, ChainInv, NEW path \in Names, Plain(path), TrueChain(path) \in nodes
  PROVE  Receiver(Tree, path) = {TrueChain(path)}
<1> DEFINE c == TrueChain(path)
<1>1. PathOf(c) = path /\ Len(c) = Len(path) /\ c \in Tree.nodes /\ Tree.nodes = nodes
  BY PathOfTrueChain, TrueChainIsChain DEF Tree
<1>2. ASSUME NEW i \in 1 .. Len(c)
      PROVE  LET n == SubSeq(c, 1, i - 1)
             IN  PathOf(n) # path /\ IsFirst(SubSeq(c, 1, i), Forward(Tree, n, path))
  BY <1>1, OneWay DEF IsFirst
<1>3. ASSUME NEW d \in nodes, PathOf(d) = path
      PROVE  d = c
  BY <1>3, NodeIsTrueChain
<1>. HIDE DEF c
<1>. QED
  BY <1>1, <1>2, <1>3 DEF Receiver, c

\* Only run_async takes a signal off.
LEMMA TakenByRunAsync ==
  ASSUME BluezInv, signals # <<>>, signals' = Tail(signals), Next
  PROVE  RunAsync
<1>1. signals \in Seq(Signals) /\ Len(signals) \in Nat /\ Len(signals) > 0
  BY HeadIsSignal DEF BluezInv
<1>2. Len(signals') = Len(signals) - 1
  BY <1>1, HeadTailProperties
<1>3. signals' # signals
  <2>1. Len(signals) # Len(signals) - 1
    BY <1>1
  <2>. QED
    BY <1>2, <2>1, Zenon
<1>4. ~Bluez
  <2>1. SUFFICES ASSUME NEW kind, NEW path, NEW ifaces, Emit(kind, path, ifaces)
                 PROVE  FALSE
    BY DEF Bluez, Appears, Goes, Change
  <2> DEFINE s == [kind |-> kind, path |-> path, ifaces |-> ifaces]
  <2>2. signals' = Append(signals, s)
    BY <1>3, <2>1 DEF Emit
  <2>. HIDE DEF s
  <2>3. Len(Append(signals, s)) = Len(signals) + 1
    BY <1>1
  <2>. QED
    BY <1>1, <1>2, <2>2, <2>3
<1>. QED
  BY <1>3, <1>4 DEF Next, GetManagedObjects, AddMatch, AppendAgent, LoadManagedObject, Hold, Release

\* A property change of an object with a plain path reaches its proxy, and only that one's
\* parent hears of it, whatever the names of the others (Proxy.cpp:236-277).
THEOREM ChangeReachesProxyHolds == Spec => ChangeReachesProxy
<1> DEFINE Reaches ==
      \A c \in nodes :
        (signals # <<>> /\ signals' = Tail(signals) /\ Head(signals).kind = "changed"
           /\ c # <<>> /\ c = TrueChain(Head(signals).path) /\ Plain(Head(signals).path))
          => signalled' = [by |-> {c}, told |-> {Front(c)}]
<1>1. ASSUME TreeInv, BluezInv, ChainInv, Next
      PROVE  Reaches
  <2>1. SUFFICES ASSUME NEW c \in nodes, signals # <<>>, signals' = Tail(signals),
                        Head(signals).kind = "changed", c = TrueChain(Head(signals).path),
                        Plain(Head(signals).path)
                 PROVE  signalled' = [by |-> {c}, told |-> {Front(c)}]
    OBVIOUS
  <2>2. Head(signals).path \in Paths
    BY <1>1, <2>1, HeadIsSignal DEF Signals
  <2>3. ForwardChange(Head(signals).path)
    BY <1>1, <2>1, TakenByRunAsync DEF RunAsync
  <2>4. Receiver(Tree, Head(signals).path) = {c}
    BY <1>1, <2>1, <2>2, PathsAreNames, MessageEndsAtProxy
  <2>. QED
    BY <2>3, <2>4 DEF ForwardChange
<1>2. TreeInv /\ BluezInv /\ ChainInv /\ [Next]_vars => [Reaches]_vars
  BY <1>1
<1>3. TreeInv /\ BluezInv /\ ChainInv /\ [Next]_vars => (TreeInv /\ BluezInv /\ ChainInv)'
  BY TreeStep, BluezStep, ChainStep
<1>. QED
  BY <1>2, <1>3, TreeInit, BluezInit, ChainInit, PTL DEF Spec, ChangeReachesProxy

-----------------------------------------------------------------------------
(* What is loaded, and what is still to be told. *)

Mentions(k, p, i) == signals[k].path = p /\ i \in signals[k].ifaces
\* The k-th signal is the last that tells of interface i of p.
IsLatest(k, p, i) == Mentions(k, p, i) /\ \A l \in k + 1 .. Len(signals) : ~Mentions(l, p, i)
IsLoaded(p, i) == <<TrueChain(p), i>> \in loaded
PlainPaths == {p \in Paths : Plain(p)}

\* Before the signals: what is not added yet is as in the reply, and not loaded.
LoadingInv ==
  \A p \in PlainPaths : \A i \in Ifaces :
    IF reply[p] = {} THEN IsLoaded(p, i) <=> i \in objects[p]
    ELSE reply[p] = objects[p] /\ ~IsLoaded(p, i)

\* After: the latest signal about an interface tells what BlueZ has, and where there
\* is none the tree does.
SignalInv ==
  \A p \in PlainPaths : \A i \in Ifaces :
    /\ \A k \in 1 .. Len(signals) :
         IsLatest(k, p, i) => (signals[k].kind = "added" <=> i \in objects[p])
    /\ (\A k \in 1 .. Len(signals) : ~Mentions(k, p, i)) => (IsLoaded(p, i) <=> i \in objects[p])

MirrorInv ==
  ~missed =>
    /\ phase = "new" => loaded = {}
    /\ phase = "loading" => LoadingInv
    /\ phase \in {"matched", "ready"} => SignalInv

LEMMA TrueChainsDiffer ==
  ASSUME NEW p \in Paths, NEW q \in Paths, TrueChain(p) = TrueChain(q)
  PROVE  p = q
BY PathsAreNames, PathOfTrueChain

\* What path_add loads is known by its path, and so is what a plain path has loaded.
LEMMA LoadedAfterAdd ==
  ASSUME NEW path \in Paths, NEW ifaces, NEW p \in PlainPaths, NEW i \in Ifaces,
         \E b : /\ PathOf(b) = path /\ (Plain(path) => b = TrueChain(path))
               /\ loaded' = loaded \cup {b} \X ifaces
  PROVE  IsLoaded(p, i)' <=> IsLoaded(p, i) \/ (path = p /\ i \in ifaces)
<1>1. IsLoaded(p, i)' <=> <<TrueChain(p), i>> \in loaded'
  BY DEF IsLoaded, TrueChain
<1>2. PICK b : /\ PathOf(b) = path /\ (Plain(path) => b = TrueChain(path))
               /\ loaded' = loaded \cup {b} \X ifaces
  OBVIOUS
<1> DEFINE c == TrueChain(p)
<1>3. c = b <=> path = p
  <2>1. p \in Paths /\ Plain(p) /\ PathOf(c) = p /\ (path = p => c = TrueChain(path))
    BY PathsAreNames, PathOfTrueChain DEF PlainPaths
  <2>. HIDE DEF c
  <2>. QED
    BY <1>2, <2>1
<1>4. (<<c, i>> \in loaded') <=> (<<c, i>> \in loaded \/ (c = b /\ i \in ifaces))
  <2>. HIDE DEF c
  <2>. QED
    BY <1>2
<1>. QED
  BY <1>1, <1>3, <1>4 DEF IsLoaded

LEMMA LoadedAfterRemove ==
  ASSUME NEW path \in Paths, NEW ifaces, loaded' = loaded \ ({TrueChain(path)} \X ifaces),
         NEW p \in Paths, NEW i \in Ifaces
  PROVE  IsLoaded(p, i)' <=> IsLoaded(p, i) /\ ~(path = p /\ i \in ifaces)
<1>1. IsLoaded(p, i)' <=> <<TrueChain(p), i>> \in loaded'
  BY DEF IsLoaded, TrueChain
<1> DEFINE c == TrueChain(p)
           d == TrueChain(path)
<1>2. c = d <=> path = p
  BY TrueChainsDiffer
<1>3. (<<c, i>> \in loaded') <=> (<<c, i>> \in loaded /\ ~(c = d /\ i \in ifaces))
  <2>. HIDE DEF c, d
  <2>1. loaded' = loaded \ ({d} \X ifaces)
    BY DEF d
  <2>. QED
    BY <2>1
<1>. QED
  BY <1>1, <1>2, <1>3 DEF IsLoaded

\* path_remove unloads the interfaces, and nothing else.
LEMMA RemoveUnloads ==
  ASSUME TreeInv, NEW path \in Names, NEW ifaces, Becomes(PathRemove(Tree, path, ifaces))
  PROVE  loaded' = loaded \ ({TrueChain(path)} \X ifaces)
<1> DEFINE n == TrueChain(path)
           left == loaded \ ({n} \X ifaces)
<1>1. CASE n \notin nodes
  <2>1. loaded' = loaded
    BY <1>1 DEF Becomes, PathRemove, Tree
  <2>2. \A x \in loaded : x[1] \in nodes
    BY DEF TreeInv
  <2>. HIDE DEF n
  <2>3. left = loaded
    BY <1>1, <2>2
  <2>. QED
    BY <2>1, <2>3 DEF n
<1>2. CASE n \in nodes
  <2>1. loaded' = {x \in left : x[1] \notin Gone(n, left)}
    BY <1>2, RemoveFields DEF Becomes
  <2>. QED
    BY <2>1, GoneIsNotLoaded
<1>. QED
  BY <1>1, <1>2

\* A signal is taken off, and done what it tells.
LEMMA HeadIsDone ==
  ASSUME BluezInv, SignalInv, signals # <<>>, signals' = Tail(signals), objects' = objects,
         \A p \in PlainPaths : \A i \in Ifaces :
           IsLoaded(p, i)' <=> IF Mentions(1, p, i) THEN signals[1].kind = "added" ELSE IsLoaded(p, i)
  PROVE  SignalInv'
<1>1. signals \in Seq(Signals) /\ Len(signals) \in Nat /\ Len(signals) > 0
  BY HeadIsSignal DEF BluezInv
<1>2. /\ signals' \in Seq(Signals) /\ Len(signals') = Len(signals) - 1
      /\ \A k \in 1 .. Len(signals') : signals'[k] = signals[k + 1]
  BY <1>1, HeadTailProperties
<1>. SUFFICES ASSUME NEW p \in PlainPaths, NEW i \in Ifaces
              PROVE  /\ \A k \in 1 .. Len(signals') :
                          IsLatest(k, p, i)' => (signals'[k].kind = "added" <=> i \in objects[p])
                     /\ (\A k \in 1 .. Len(signals') : ~Mentions(k, p, i)')
                          => (IsLoaded(p, i)' <=> i \in objects[p])
  BY DEF SignalInv, PlainPaths, Plain
<1>3. \A k \in 1 .. Len(signals') : Mentions(k, p, i)' <=> Mentions(k + 1, p, i)
  BY <1>2 DEF Mentions
<1>4. \A l \in 2 .. Len(signals) : l - 1 \in 1 .. Len(signals') /\ (l - 1) + 1 = l
  BY <1>1, <1>2
<1>5. \A l \in 2 .. Len(signals) : Mentions(l - 1, p, i)' <=> Mentions(l, p, i)
  BY <1>3, <1>4
<1>6. ASSUME NEW k \in 1 .. Len(signals'), IsLatest(k, p, i)'
      PROVE  signals'[k].kind = "added" <=> i \in objects[p]
  <2>1. k + 1 \in 1 .. Len(signals)
    BY <1>1, <1>2
  <2>2. Mentions(k, p, i)' /\ \A l \in k + 1 .. Len(signals') : ~Mentions(l, p, i)'
    BY <1>6 DEF IsLatest
  <2>3. ASSUME NEW l \in (k + 1) + 1 .. Len(signals)
        PROVE  ~Mentions(l, p, i)
    <3>1. l \in 2 .. Len(signals) /\ l - 1 \in k + 1 .. Len(signals')
      BY <1>1, <1>2
    <3>. QED
      BY <1>5, <2>2, <3>1
  <2>4. IsLatest(k + 1, p, i)
    BY <1>3, <2>2, <2>3 DEF IsLatest
  <2>. QED
    BY <1>2, <2>1, <2>4 DEF SignalInv
<1>7. ASSUME \A k \in 1 .. Len(signals') : ~Mentions(k, p, i)'
      PROVE  IsLoaded(p, i)' <=> i \in objects[p]
  <2>1. \A l \in 2 .. Len(signals) : ~Mentions(l, p, i)
    BY <1>4, <1>5, <1>7
  <2>2. 1 \in 1 .. Len(signals) /\ 1 + 1 = 2
    BY <1>1
  <2>3. CASE Mentions(1, p, i)
    <3>1. IsLatest(1, p, i)
      BY <2>1, <2>2, <2>3 DEF IsLatest
    <3>. QED
      BY <2>2, <2>3, <3>1 DEF SignalInv
  <2>4. CASE ~Mentions(1, p, i)
    <3>1. \A k \in 1 .. Len(signals) : k = 1 \/ k \in 2 .. Len(signals)
      BY <1>1
    <3>2. \A k \in 1 .. Len(signals) : ~Mentions(k, p, i)
      BY <2>1, <2>4, <3>1
    <3>. QED
      BY <2>4, <3>2 DEF SignalInv
  <2>. QED
    BY <2>3, <2>4
<1>. QED
  BY <1>6, <1>7

\* BlueZ changes, and sends a signal of what it changed.
LEMMA SignalIsToldOf ==
  ASSUME BluezInv, SignalInv, NEW s \in Signals, signals' = Append(signals, s), loaded' = loaded,
         \A p \in PlainPaths : \A i \in Ifaces :
           IF s.path = p /\ i \in s.ifaces THEN s.kind = "added" <=> i \in objects'[p]
           ELSE i \in objects'[p] <=> i \in objects[p]
  PROVE  SignalInv'
<1>1. PICK n \in Nat : n = Len(signals) /\ signals \in Seq(Signals)
  BY DEF BluezInv
<1>2. /\ Len(signals') = n + 1 /\ signals'[n + 1] = s
      /\ \A k \in 1 .. n : signals'[k] = signals[k]
  BY <1>1, AppendProperties
<1>. SUFFICES ASSUME NEW p \in PlainPaths, NEW i \in Ifaces
              PROVE  /\ \A k \in 1 .. n + 1 :
                          IsLatest(k, p, i)' => (signals'[k].kind = "added" <=> i \in objects'[p])
                     /\ (\A k \in 1 .. n + 1 : ~Mentions(k, p, i)')
                          => (IsLoaded(p, i)' <=> i \in objects'[p])
  BY <1>2 DEF SignalInv, PlainPaths, Plain
<1>3. \A k \in 1 .. n : Mentions(k, p, i)' <=> Mentions(k, p, i)
  BY <1>2 DEF Mentions
<1>4. Mentions(n + 1, p, i)' <=> s.path = p /\ i \in s.ifaces
  BY <1>2 DEF Mentions
<1>5. \A k \in 1 .. n + 1 : k \in 1 .. n \/ k = n + 1
  BY <1>1
<1>6. \A k \in 1 .. n : n + 1 \in k + 1 .. n + 1 /\ k \in 1 .. n + 1
  BY <1>1
<1>7. n + 1 \in 1 .. n + 1
  BY <1>1
<1>8. IsLoaded(p, i)' <=> IsLoaded(p, i)
  BY DEF IsLoaded, TrueChain
<1>9. CASE s.path = p /\ i \in s.ifaces
  <2>1. s.kind = "added" <=> i \in objects'[p]
    BY <1>9
  <2>2. Mentions(n + 1, p, i)'
    BY <1>4, <1>9
  <2>3. \A k \in 1 .. n : ~IsLatest(k, p, i)'
    BY <1>2, <1>6, <2>2 DEF IsLatest
  <2>. QED
    BY <1>2, <1>5, <1>7, <2>1, <2>2, <2>3
<1>10. CASE ~(s.path = p /\ i \in s.ifaces)
  <2>1. i \in objects'[p] <=> i \in objects[p]
    BY <1>10
  <2>2. ~Mentions(n + 1, p, i)'
    BY <1>4, <1>10
  <2>3. ASSUME NEW k \in 1 .. n, IsLatest(k, p, i)'
        PROVE  IsLatest(k, p, i)
    <3>1. \A l \in k + 1 .. n : l \in 1 .. n /\ l \in k + 1 .. n + 1
      BY <1>1
    <3>. QED
      BY <1>1, <1>2, <1>3, <2>3, <3>1 DEF IsLatest
  <2>4. ASSUME NEW k \in 1 .. n + 1, IsLatest(k, p, i)'
        PROVE  signals'[k].kind = "added" <=> i \in objects'[p]
    <3>1. k \in 1 .. n /\ IsLatest(k, p, i)
      BY <1>5, <2>2, <2>3, <2>4 DEF IsLatest
    <3>. QED
      BY <1>1, <1>2, <2>1, <3>1 DEF SignalInv
  <2>5. ASSUME \A k \in 1 .. n + 1 : ~Mentions(k, p, i)'
        PROVE  IsLoaded(p, i)' <=> i \in objects'[p]
    BY <1>1, <1>3, <1>6, <1>8, <2>1, <2>5 DEF SignalInv
  <2>. QED
    BY <2>4, <2>5
<1>. QED
  BY <1>9, <1>10

\* What BlueZ does, before its signals are delivered and after.
LEMMA EmitKeepsMirror ==
  ASSUME BluezInv, MirrorInv, NEW kind \in Kinded, NEW path \in Paths, NEW ifaces \in SUBSET Ifaces,
         Emit(kind, path, ifaces), kind = "changed" => objects' = objects,
         \A p \in Paths : \A i \in Ifaces :
           IF path = p /\ i \in ifaces THEN kind = "added" <=> i \in objects'[p]
           ELSE i \in objects'[p] <=> i \in objects[p]
  PROVE  MirrorInv'
<1>. SUFFICES ASSUME ~missed' PROVE MirrorInv'
  BY DEF MirrorInv
<1>1. ~missed /\ phase' = phase /\ reply' = reply /\ loaded' = loaded
      /\ (phase = "loading" => kind = "changed")
  BY DEF Emit
<1>2. CASE phase = "new"
  BY <1>1, <1>2 DEF MirrorInv
<1>3. CASE phase = "loading"
  <2>1. objects' = objects /\ LoadingInv
    BY <1>1, <1>3 DEF MirrorInv
  <2>2. LoadingInv'
    BY <1>1, <2>1 DEF LoadingInv, IsLoaded, TrueChain
  <2>. QED
    BY <1>1, <1>3, <2>2 DEF MirrorInv
<1>4. CASE phase \in {"matched", "ready"}
  <2> DEFINE s == [kind |-> kind, path |-> path, ifaces |-> ifaces]
  <2>1. s \in Signals /\ s.kind = kind /\ s.path = path /\ s.ifaces = ifaces
    BY DEF Signals
  <2>2. signals' = Append(signals, s)
    BY <1>4 DEF Emit
  <2>3. SignalInv
    BY <1>1, <1>4 DEF MirrorInv
  <2>. HIDE DEF s
  <2>4. SignalInv'
    BY <1>1, <2>1, <2>2, <2>3, SignalIsToldOf DEF PlainPaths
  <2>. QED
    BY <1>1, <1>4, <2>4 DEF MirrorInv
<1>. QED
  BY <1>1, <1>2, <1>3, <1>4 DEF BluezInv

LEMMA BluezKeepsMirror ==
  ASSUME BluezInv, MirrorInv, Bluez
  PROVE  MirrorInv'
<1>1. PICK path \in Paths :
        (\E ifaces \in SUBSET Ifaces : Appears(path, ifaces) \/ Goes(path, ifaces)) \/ Change(path)
  BY DEF Bluez
<1>2. ASSUME NEW ifaces \in SUBSET Ifaces, Appears(path, ifaces)
      PROVE  MirrorInv'
  <2>1. \A p \in Paths : objects'[p] = IF path = p THEN objects[p] \cup ifaces ELSE objects[p]
    BY <1>2 DEF Appears, BluezInv
  <2>. QED
    BY <1>2, <2>1, EmitKeepsMirror DEF Appears, Kinded
<1>3. ASSUME NEW ifaces \in SUBSET Ifaces, Goes(path, ifaces)
      PROVE  MirrorInv'
  <2>1. \A p \in Paths : objects'[p] = IF path = p THEN objects[p] \ ifaces ELSE objects[p]
    BY <1>3 DEF Goes, BluezInv
  <2>. QED
    BY <1>3, <2>1, EmitKeepsMirror DEF Goes, Kinded
<1>4. CASE Change(path)
  BY <1>4, EmitKeepsMirror DEF Change, Kinded
<1>. QED
  BY <1>1, <1>2, <1>3, <1>4

LEMMA RunAsyncKeepsMirror ==
  ASSUME TreeInv, BluezInv, ChainInv, MirrorInv, RunAsync
  PROVE  MirrorInv'
<1>. SUFFICES ASSUME ~missed' PROVE MirrorInv'
  BY DEF MirrorInv
<1>1. ~missed /\ phase = "ready" /\ phase' = phase /\ SignalInv
      /\ signals # <<>> /\ signals' = Tail(signals) /\ objects' = objects
  BY DEF RunAsync, MirrorInv
<1> DEFINE s == signals[1]
<1>2. /\ s = Head(signals) /\ s.kind \in Kinded /\ s.path \in Paths /\ s.ifaces \in SUBSET Ifaces
      /\ s.kind = "changed" => s.ifaces = {}
  BY <1>1, HeadIsSignal DEF Signals
<1>3. s.path \in Names /\ s.path # <<>>
  BY <1>2, PathsAreNames
<1>4. \/ s.kind = "added" /\ Add(s.path, s.ifaces)
      \/ s.kind = "removed" /\ Becomes(PathRemove(Tree, s.path, s.ifaces))
      \/ s.kind = "changed" /\ loaded' = loaded
  BY <1>2 DEF RunAsync, ForwardChange
<1>5. \A p \in PlainPaths : \A i \in Ifaces : Mentions(1, p, i) <=> s.path = p /\ i \in s.ifaces
  BY DEF Mentions
<1>. HIDE DEF s
<1>6. ASSUME NEW p \in PlainPaths, NEW i \in Ifaces
      PROVE  IsLoaded(p, i)' <=> IF Mentions(1, p, i) THEN s.kind = "added" ELSE IsLoaded(p, i)
  <2>1. CASE s.kind = "added" /\ Add(s.path, s.ifaces)
    <3>1. \E b : /\ PathOf(b) = s.path /\ (Plain(s.path) => b = TrueChain(s.path))
                /\ loaded' = loaded \cup {b} \X s.ifaces
      BY <1>3, <2>1, AddLoads
    <3>2. IsLoaded(p, i)' <=> IsLoaded(p, i) \/ (s.path = p /\ i \in s.ifaces)
      BY <1>2, <3>1, LoadedAfterAdd
    <3>. QED
      BY <1>5, <2>1, <3>2
  <2>2. CASE s.kind = "removed" /\ Becomes(PathRemove(Tree, s.path, s.ifaces))
    <3>1. loaded' = loaded \ ({TrueChain(s.path)} \X s.ifaces)
      BY <1>3, <2>2, RemoveUnloads
    <3>2. IsLoaded(p, i)' <=> IsLoaded(p, i) /\ ~(s.path = p /\ i \in s.ifaces)
      BY <1>2, <3>1, LoadedAfterRemove DEF PlainPaths
    <3>. QED
      BY <1>5, <2>2, <3>2
  <2>3. CASE s.kind = "changed" /\ loaded' = loaded
    <3>1. ~Mentions(1, p, i)
      BY <1>2, <1>5, <2>3
    <3>2. IsLoaded(p, i)' <=> IsLoaded(p, i)
      BY <2>3 DEF IsLoaded, TrueChain
    <3>. QED
      BY <3>1, <3>2
  <2>. QED
    BY <1>4, <2>1, <2>2, <2>3
<1>7. SignalInv'
  BY <1>1, <1>6, HeadIsDone DEF s
<1>. QED
  BY <1>1, <1>7 DEF MirrorInv

LEMMA LoadKeepsMirror ==
  ASSUME TreeInv, BluezInv, ChainInv, MirrorInv,
         NEW path \in Paths, LoadManagedObject(path)
  PROVE  MirrorInv'
<1>. SUFFICES ASSUME ~missed' PROVE MirrorInv'
  BY DEF MirrorInv
<1>1. ~missed /\ phase = "loading" /\ phase' = phase /\ LoadingInv /\ objects' = objects
      /\ reply[path] # {} /\ reply' = [reply EXCEPT ![path] = {}] /\ reply[path] \in SUBSET Ifaces
  BY DEF LoadManagedObject, MirrorInv, BluezInv
<1>2. \E b : /\ PathOf(b) = path /\ (Plain(path) => b = TrueChain(path))
            /\ loaded' = loaded \cup {b} \X reply[path]
  BY PathsAreNames, AddLoads DEF LoadManagedObject
<1>3. \A p \in Paths : reply'[p] = IF p = path THEN {} ELSE reply[p]
  BY <1>1 DEF BluezInv
<1>4. ASSUME NEW p \in PlainPaths, NEW i \in Ifaces
      PROVE  IF reply'[p] = {} THEN IsLoaded(p, i)' <=> i \in objects[p]
             ELSE reply'[p] = objects[p] /\ ~IsLoaded(p, i)'
  <2>1. IsLoaded(p, i)' <=> IsLoaded(p, i) \/ (path = p /\ i \in reply[path])
    BY <1>2, LoadedAfterAdd
  <2>2. IF reply[p] = {} THEN IsLoaded(p, i) <=> i \in objects[p]
        ELSE reply[p] = objects[p] /\ ~IsLoaded(p, i)
    BY <1>1 DEF LoadingInv
  <2>. QED
    BY <1>1, <1>3, <2>1, <2>2
<1>5. LoadingInv'
  BY <1>1, <1>4 DEF LoadingInv
<1>. QED
  BY <1>1, <1>5 DEF MirrorInv

LEMMA MirrorInit == Init => MirrorInv
BY DEF Init, MirrorInv

LEMMA MirrorStep ==
  ASSUME TreeInv, BluezInv, ChainInv, MirrorInv, [Next]_vars
  PROVE  MirrorInv'
<1>1. CASE GetManagedObjects
  <2>1. phase = "new" /\ phase' = "loading" /\ reply' = objects /\ objects' = objects
        /\ missed' = missed /\ loaded' = loaded
    BY <1>1 DEF GetManagedObjects
  <2>2. ~missed => LoadingInv'
    BY <2>1 DEF MirrorInv, LoadingInv, IsLoaded
  <2>. QED
    BY <2>1, <2>2 DEF MirrorInv
<1>2. ASSUME NEW path \in Paths, LoadManagedObject(path)
      PROVE  MirrorInv'
  BY <1>2, LoadKeepsMirror
<1>3. CASE AddMatch
  <2>1. /\ phase = "loading" /\ phase' = "matched" /\ \A p \in Paths : reply[p] = {}
        /\ objects' = objects /\ signals' = signals /\ missed' = missed /\ loaded' = loaded
        /\ signals = <<>>
    BY <1>3 DEF AddMatch, BluezInv
  <2>2. 1 .. Len(signals') = {}
    BY <2>1
  <2>3. ~missed => SignalInv'
    BY <2>1, <2>2 DEF MirrorInv, LoadingInv, SignalInv, IsLoaded, TrueChain, PlainPaths, Plain
  <2>. QED
    BY <2>1, <2>3 DEF MirrorInv
<1>4. CASE AppendAgent
  <2>1. /\ phase = "matched" /\ phase' = "ready" /\ missed' = missed
        /\ objects' = objects /\ signals' = signals
        /\ loaded' = loaded \cup {<<AgentPath>>} \X Ifaces
    BY <1>4, AgentFields DEF AppendAgent, Becomes
  <2>2. ASSUME NEW p \in PlainPaths, NEW i \in Ifaces
        PROVE  IsLoaded(p, i)' <=> IsLoaded(p, i)
    <3> DEFINE c == TrueChain(p)
               a == <<AgentPath>>
    <3>1. c # a
      BY AgentChain DEF PlainPaths
    <3>2. IsLoaded(p, i)' <=> <<c, i>> \in loaded'
      BY DEF IsLoaded, TrueChain
    <3>3. loaded' = loaded \cup {a} \X Ifaces
      BY <2>1
    <3>. HIDE DEF c, a
    <3>4. (<<c, i>> \in loaded') <=> (<<c, i>> \in loaded)
      BY <3>1, <3>3
    <3>. QED
      BY <3>2, <3>4 DEF IsLoaded, c
  <2>3. SignalInv => SignalInv'
    BY <2>1, <2>2 DEF SignalInv, IsLatest, Mentions
  <2>. QED
    BY <2>1, <2>3 DEF MirrorInv
<1>5. CASE RunAsync
  BY <1>5, RunAsyncKeepsMirror
<1>6. CASE (\E c \in nodes : Hold(c) \/ Release(c)) \/ UNCHANGED vars
  <2>1. UNCHANGED <<objects, signals, phase, reply, missed, loaded>>
    BY <1>6 DEF Hold, Release, vars, treeVars
  <2>2. LoadingInv' <=> LoadingInv
    BY <2>1 DEF LoadingInv, IsLoaded, TrueChain
  <2>3. SignalInv' <=> SignalInv
    BY <2>1 DEF SignalInv, IsLatest, Mentions, IsLoaded, TrueChain
  <2>. QED
    BY <2>1, <2>2, <2>3 DEF MirrorInv
<1>7. CASE Bluez
  BY <1>7, BluezKeepsMirror
<1>. QED
  BY <1>1, <1>2, <1>3, <1>4, <1>5, <1>6, <1>7 DEF Next

\* Once every signal is handled the tree mirrors BlueZ for every object with a plain path,
\* whatever the names of the others, when nothing changed between GetManagedObjects and
\* add_match (Proxy.cpp:122-221, Bluez.cpp:20-37).
THEOREM DrainedTreeMirrorsBluezHolds == Spec => []DrainedTreeMirrorsBluez
<1> DEFINE IInv == TreeInv /\ BluezInv /\ ChainInv /\ MirrorInv
<1>1. IInv => DrainedTreeMirrorsBluez
  <2>. SUFFICES ASSUME BluezInv, MirrorInv, phase = "ready", signals = <<>>, ~missed,
                       NEW p \in PlainPaths
                PROVE  Of(loaded, TrueChain(p)) = objects[p]
    BY DEF DrainedTreeMirrorsBluez, PlainPaths
  <2>1. 1 .. Len(signals) = {}
    OBVIOUS
  <2>2. \A i \in Ifaces : IsLoaded(p, i) <=> i \in objects[p]
    BY <2>1 DEF MirrorInv, SignalInv
  <2>3. objects[p] \subseteq Ifaces
    BY DEF BluezInv, PlainPaths
  <2>. QED
    BY <2>2, <2>3 DEF Of, IsLoaded
<1>2. Init => IInv
  BY TreeInit, BluezInit, ChainInit, MirrorInit
<1>3. IInv /\ [Next]_vars => IInv'
  BY TreeStep, BluezStep, ChainStep, MirrorStep
<1>. QED
  BY <1>1, <1>2, <1>3, PTL DEF Spec
=============================================================================
