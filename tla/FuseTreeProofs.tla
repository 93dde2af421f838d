--------------------------- MODULE FuseTreeProofs ---------------------------
(***************************************************************************)
(* The node table, for any number of threads, ids and names.  First the    *)
(* references and the ids (RInv), in every case; then the tree lock, the   *)
(* paths and the assertions (QInv), as long as no request is given up      *)
(* while it waits for its path.                                            *)
(***************************************************************************)
EXTENDS FuseLocksProofs

\* The table of nodes, field by field.
NodeKeys == {"parent", "name", "refctr", "nlookup", "open", "hidden", "treelock", "ticket", "locks"}
NodeOK(n) ==
    /\ NodeKeys \subseteq DOMAIN n
    /\ n.parent \in Ids \cup {0} /\ n.refctr \in Nat /\ n.nlookup \in Nat /\ n.open \in Nat
    /\ n.treelock \in Int /\ n.hidden \in BOOLEAN
Table(ns) == DOMAIN ns = Ids /\ \A i \in Ids : NodeOK(ns[i])
KidsOf(ns, i) == {c \in Ids \ {Root} : ns[c].parent = i}
Looked(n) == IF n.nlookup > 0 THEN 1 ELSE 0

\* Every node has a name exactly if it has a parent, and then a lookup; its
\* references are its children and its lookups; a name is there once.
Counted(ns) == \A i \in Ids : ns[i].refctr = Cardinality(KidsOf(ns, i)) + Looked(ns[i])
Named(ns) ==
    /\ \A i \in Ids \ {Root} : /\ ns[i].name = Null <=> ns[i].parent = 0
                               /\ ns[i].parent # 0 => ns[i].nlookup > 0
    /\ ns[Root].parent = 0 /\ ns[Root].nlookup = 1 /\ ns[Root].name # Null
Once(ns) ==
    \A i, j \in Ids \ {Root} :
      ns[i].parent # 0 /\ ns[i].parent = ns[j].parent /\ ns[i].name = ns[j].name => i = j
RefOK(ns) == Table(ns) /\ Counted(ns) /\ Named(ns) /\ Once(ns)

\* The ids, if there is a case at all.
LEMMA IdFacts ==
    ASSUME case \in Cases
    PROVE  /\ IdSpace \in Nat /\ IdSpace >= 3 /\ Ids \subseteq Nat /\ Root \in Ids /\ 0 \notin Ids
           /\ IsFiniteSet(Ids) /\ Root = 1 /\ Unknown = IdSpace - 1 /\ Ids = 1 .. IdSpace - 1
<1>1. IdSpace \in Nat /\ case.ctr \in 1 .. Unknown - 1
  BY TreeAssumption
<1>2. IdSpace >= 3
  BY <1>1 DEF Unknown
<1>3. IsFiniteSet(1 .. IdSpace - 1)
  BY <1>1, FS_Interval
<1> QED
  BY <1>1, <1>2, <1>3 DEF Ids, Root, Unknown

\* The children are a finite set, and in a table with counted references
\* they are live.
LEMMA KidsFinite ==
    ASSUME case \in Cases, NEW ns, NEW i
    PROVE  IsFiniteSet(KidsOf(ns, i)) /\ Cardinality(KidsOf(ns, i)) \in Nat
<1>1. KidsOf(ns, i) \subseteq Ids
  BY DEF KidsOf
<1>2. IsFiniteSet(KidsOf(ns, i))
  BY <1>1, IdFacts, FS_Subset
<1> QED
  BY <1>2, FS_CardinalityType

\* A node that is not live has no lookups, no children, no parent and no
\* name.
LEMMA DeadFacts ==
    ASSUME case \in Cases, NEW ns, RefOK(ns), NEW i \in Ids, ~Live(ns, i)
    PROVE  /\ i # Root /\ ns[i].refctr = 0 /\ ns[i].nlookup = 0 /\ KidsOf(ns, i) = {}
           /\ ns[i].parent = 0 /\ ns[i].name = Null
<1>1. ns[i].refctr = 0
  BY DEF Live, RefOK, Table, NodeOK
<1>2. ns[i].refctr = Cardinality(KidsOf(ns, i)) + Looked(ns[i]) /\ ns[i].nlookup \in Nat
  BY DEF RefOK, Counted, Table, NodeOK
<1>3. Cardinality(KidsOf(ns, i)) = 0 /\ Looked(ns[i]) = 0
  BY <1>1, <1>2, KidsFinite DEF Looked
<1>4. KidsOf(ns, i) = {}
  BY <1>3, KidsFinite, FS_EmptySet
<1>5. ns[i].nlookup = 0
  BY <1>2, <1>3 DEF Looked
<1>6. i # Root
  BY <1>5 DEF RefOK, Named
<1> QED
  BY <1>1, <1>4, <1>5, <1>6 DEF RefOK, Named

\* A node with a lookup or a child is live; so the children are those of
\* CountsExact.
LEMMA LiveFacts ==
    ASSUME case \in Cases, NEW ns, RefOK(ns), NEW i \in Ids
    PROVE  /\ ns[i].nlookup > 0 => Live(ns, i)
           /\ ns[i].parent # 0 => Live(ns, i)
           /\ \A c \in KidsOf(ns, i) : Live(ns, i) /\ Live(ns, c) /\ ns[i].refctr >= 1
           /\ Children(ns, i) = KidsOf(ns, i)
<1>1. ASSUME NEW j \in Ids, ~Live(ns, j)
      PROVE  ns[j].nlookup = 0 /\ KidsOf(ns, j) = {} /\ ns[j].parent = 0
  BY <1>1, DeadFacts
<1>2. ns[i].nlookup > 0 => Live(ns, i)
  BY <1>1
<1>3. \A c \in KidsOf(ns, i) : Live(ns, i) /\ Live(ns, c)
  BY <1>1, IdFacts DEF KidsOf
<1>4. Live(ns, i) => ns[i].refctr >= 1
  BY DEF Live, RefOK, Table, NodeOK
<1>5. Children(ns, i) = KidsOf(ns, i)
  BY <1>3 DEF Children, KidsOf
<1> QED
  BY <1>1, <1>2, <1>3, <1>4, <1>5

\* lookup_node finds the one node that has the name.
LEMMA LookupIs ==
    ASSUME case \in Cases, NEW ns, RefOK(ns), NEW p \in Ids, NEW n
    PROVE  /\ lookup_node(ns, p, n) \in (Ids \ {Root}) \cup {0}
           /\ lookup_node(ns, p, n) # 0 =>
                ns[lookup_node(ns, p, n)].parent = p /\ ns[lookup_node(ns, p, n)].name = n
           /\ \A i \in Ids \ {Root} : ns[i].parent = p /\ ns[i].name = n => lookup_node(ns, p, n) = i
<1> DEFINE hits == {i \in Ids : Live(ns, i) /\ i # Root /\ ns[i].parent = p /\ ns[i].name = n}
<1>1. PICK x : x = lookup_node(ns, p, n)
  OBVIOUS
<1>2. /\ hits = {} => x = 0
      /\ hits # {} => x \in hits
  BY <1>1 DEF lookup_node
<1>3. \A i \in Ids \ {Root} : ns[i].parent = p /\ ns[i].name = n => i \in hits
  BY LiveFacts, IdFacts
<1>4. \A i, j \in hits : i = j
  BY IdFacts DEF RefOK, Once
<1> HIDE DEF hits
<1>5. x \in (Ids \ {Root}) \cup {0} /\ (x # 0 => ns[x].parent = p /\ ns[x].name = n)
  BY <1>2 DEF hits
<1>6. \A i \in Ids \ {Root} : ns[i].parent = p /\ ns[i].name = n => x = i
  BY <1>2, <1>3, <1>4
<1> QED
  BY <1>1, <1>5, <1>6

----------------------------------------------------------------------------
\* A child less, and a child more.
LEMMA KidsLess ==
    ASSUME case \in Cases, NEW ns, NEW ms, NEW c, NEW i, c \in KidsOf(ns, i), KidsOf(ms, i) = KidsOf(ns, i) \ {c}
    PROVE  Cardinality(KidsOf(ms, i)) = Cardinality(KidsOf(ns, i)) - 1
BY KidsFinite, FS_RemoveElement
LEMMA KidsMore ==
    ASSUME case \in Cases, NEW ns, NEW ms, NEW c, NEW i, c \notin KidsOf(ns, i), KidsOf(ms, i) = KidsOf(ns, i) \cup {c}
    PROVE  Cardinality(KidsOf(ms, i)) = Cardinality(KidsOf(ns, i)) + 1
BY KidsFinite, FS_AddElement

\* No node, and a new one.
LEMMA NoNodeFacts ==
    /\ NoNode.parent = 0 /\ NoNode.name = Null /\ NoNode.refctr = 0 /\ NoNode.nlookup = 0 /\ NoNode.open = 0
    /\ NoNode.hidden = FALSE /\ NoNode.treelock = 0 /\ NodeOK(NoNode)
BY DEF NoNode, NewNode, NodeOK, NodeKeys

\* What unref_node does to a node: the count goes down, and the rest stays
\* or goes with the node.
Same(n, m) ==
    /\ m.parent = n.parent /\ m.name = n.name /\ m.nlookup = n.nlookup
    /\ m.open = n.open /\ m.hidden = n.hidden /\ m.treelock = n.treelock
LEMMA UnrefIs ==
    ASSUME NEW ns, Table(ns), NEW p \in Ids, ns[p].refctr >= 1, NEW ms, ms = unref_node(ns, p)
    PROVE  /\ Table(ms) /\ \A j \in Ids \ {p} : ms[j] = ns[j]
           /\ ms[p].refctr = ns[p].refctr - 1
           /\ ns[p].refctr = 1 => ms[p] = NoNode
           /\ ns[p].refctr # 1 => Same(ns[p], ms[p])
<1>1. CASE ns[p].refctr = 1
  <2>1. ms = [ns EXCEPT ![p] = NoNode]
    BY <1>1 DEF unref_node
  <2>2. Table(ms) /\ ms[p] = NoNode /\ \A j \in Ids \ {p} : ms[j] = ns[j]
    BY <2>1, NoNodeFacts DEF Table
  <2> QED
    BY <1>1, <2>2, NoNodeFacts
<1>2. CASE ns[p].refctr # 1
  <2>1. ms = [ns EXCEPT ![p].refctr = @ - 1]
    BY <1>2 DEF unref_node
  <2>2. NodeOK(ns[p])
    BY DEF Table
  <2>3. NodeOK(ms[p]) /\ ms[p].refctr = ns[p].refctr - 1 /\ Same(ns[p], ms[p])
    BY <2>1, <2>2 DEF NodeOK, NodeKeys, Table, Same
  <2>4. DOMAIN ms = Ids /\ \A j \in Ids \ {p} : ms[j] = ns[j]
    BY <2>1 DEF Table
  <2> QED
    BY <1>2, <2>3, <2>4 DEF Table
<1> QED
  BY <1>1, <1>2

\* What unhash_name does: the node has no parent and no name, its parent a
\* reference less.
Rest(n, m) == m.open = n.open /\ m.hidden = n.hidden /\ m.treelock = n.treelock
Unhashed(ns, ms, i, p) ==
    /\ \A j \in Ids :
         /\ ms[j].parent = IF j = i THEN 0 ELSE ns[j].parent
         /\ ms[j].name = IF j = i THEN Null ELSE ns[j].name
         /\ ms[j].refctr = IF j = p THEN ns[j].refctr - 1 ELSE ns[j].refctr
         /\ ms[j].nlookup = ns[j].nlookup
         /\ j # p \/ ns[p].refctr # 1 => Rest(ns[j], ms[j])
    /\ ns[p].refctr = 1 => ms[p] = NoNode
LEMMA UnhashIs ==
    ASSUME case \in Cases, NEW ns, Table(ns), NEW i \in Ids, ns[i].name # Null, NEW p \in Ids, ns[i].parent = p,
           ns[p].refctr >= 1,
           ns[p].refctr = 1 => p # i /\ ns[p].parent = 0 /\ ns[p].name = Null /\ ns[p].nlookup = 0,
           NEW ms, ms = unhash_name(ns, i)
    PROVE  Table(ms) /\ Unhashed(ns, ms, i, p)
<1>1. PICK ls : ls = [ns EXCEPT ![i].name = Null, ![i].parent = 0]
  OBVIOUS
<1>2. ms = unref_node(ls, p)
  BY <1>1 DEF unhash_name
<1>3. NodeOK(ns[i]) /\ DOMAIN ns = Ids
  BY DEF Table
<1>4. NodeOK(ls[i]) /\ ls[i].parent = 0 /\ ls[i].name = Null /\ ls[i].refctr = ns[i].refctr
      /\ ls[i].nlookup = ns[i].nlookup /\ Rest(ns[i], ls[i])
  BY <1>1, <1>3 DEF NodeOK, NodeKeys, Rest
<1>5. DOMAIN ls = Ids /\ \A j \in Ids \ {i} : ls[j] = ns[j]
  BY <1>1, <1>3
<1>6. Table(ls) /\ ls[p].refctr = ns[p].refctr
  BY <1>4, <1>5 DEF Table
<1>7. /\ Table(ms) /\ \A j \in Ids \ {p} : ms[j] = ls[j]
      /\ ms[p].refctr = ls[p].refctr - 1
      /\ ls[p].refctr = 1 => ms[p] = NoNode
      /\ ls[p].refctr # 1 => Same(ls[p], ms[p])
  BY <1>2, <1>6, UnrefIs
<1>8. ASSUME NEW j \in Ids
      PROVE  /\ ms[j].parent = IF j = i THEN 0 ELSE ns[j].parent
             /\ ms[j].name = IF j = i THEN Null ELSE ns[j].name
             /\ ms[j].refctr = IF j = p THEN ns[j].refctr - 1 ELSE ns[j].refctr
             /\ ms[j].nlookup = ns[j].nlookup
             /\ j # p \/ ns[p].refctr # 1 => Rest(ns[j], ms[j])
  <2>1. CASE j # p
    BY <1>4, <1>5, <1>7, <2>1 DEF Rest
  <2>2. CASE j = p /\ ns[p].refctr = 1
    BY <1>5, <1>6, <1>7, <2>2, NoNodeFacts
  <2>3. CASE j = p /\ ns[p].refctr # 1
    BY <1>4, <1>5, <1>6, <1>7, <2>3 DEF Same, Rest
  <2> QED
    BY <2>1, <2>2, <2>3
<1> QED
  BY <1>6, <1>7, <1>8 DEF Unhashed

\* The references of a table in which a node has lost its name.
LEMMA UnhashOK ==
    ASSUME case \in Cases, NEW ns, RefOK(ns), NEW i \in Ids \ {Root}, ns[i].parent # 0,
           NEW ms, ms = unhash_name(ns, i)
    PROVE  RefOK(ms) /\ Unhashed(ns, ms, i, ns[i].parent) /\ ns[i].parent \in Ids
<1>1. PICK p : p = ns[i].parent
  OBVIOUS
<1>2. p \in Ids /\ ns[i].name # Null /\ ns[i].nlookup > 0 /\ i \in KidsOf(ns, p) /\ Table(ns)
  BY <1>1 DEF RefOK, Table, NodeOK, Named, KidsOf
<1>3. ns[p].refctr = Cardinality(KidsOf(ns, p)) + Looked(ns[p]) /\ Cardinality(KidsOf(ns, p)) >= 1
  <2>1. Cardinality(KidsOf(ns, p)) # 0
    BY <1>2, KidsFinite, FS_EmptySet
  <2> QED
    BY <1>2, <2>1, KidsFinite DEF RefOK, Counted
<1>4. ns[p].refctr >= 1 /\ (ns[p].refctr = 1 => ns[p].nlookup = 0)
  BY <1>2, <1>3, KidsFinite DEF Looked, Table, NodeOK
<1>5. ns[p].refctr = 1 => p # i /\ p # Root /\ ns[p].parent = 0 /\ ns[p].name = Null
  BY <1>1, <1>2, <1>4 DEF RefOK, Named
<1>6. Table(ms) /\ Unhashed(ns, ms, i, p)
  BY <1>1, <1>2, <1>4, <1>5, UnhashIs
<1>7. Counted(ms)
  <2> SUFFICES ASSUME NEW j \in Ids PROVE ms[j].refctr = Cardinality(KidsOf(ms, j)) + Looked(ms[j])
    BY DEF Counted
  <2>1. Looked(ms[j]) = Looked(ns[j]) /\ Looked(ns[j]) \in Nat
    BY <1>6 DEF Unhashed, Looked
  <2>2. ns[j].refctr = Cardinality(KidsOf(ns, j)) + Looked(ns[j])
    BY DEF RefOK, Counted
  <2>3. ms[i].parent = 0 /\ \A k \in Ids \ {i} : ms[k].parent = ns[k].parent
    BY <1>6 DEF Unhashed
  <2>0. ms[i].parent # j /\ (j = p <=> ns[i].parent = j)
    BY <1>1, <2>3, IdFacts
  <2>4. j = p => Cardinality(KidsOf(ms, j)) = Cardinality(KidsOf(ns, j)) - 1
    <3>1. j = p => i \in KidsOf(ns, j) /\ KidsOf(ms, j) = KidsOf(ns, j) \ {i}
      BY <2>0, <2>3 DEF KidsOf
    <3> QED
      BY <3>1, KidsLess
  <2>5. j # p => KidsOf(ms, j) = KidsOf(ns, j)
    BY <2>0, <2>3 DEF KidsOf
  <2>6. ms[j].refctr = IF j = p THEN ns[j].refctr - 1 ELSE ns[j].refctr
    BY <1>6 DEF Unhashed
  <2> QED
    BY <2>1, <2>2, <2>4, <2>5, <2>6, KidsFinite
<1>8. Named(ms)
  BY <1>6, IdFacts DEF RefOK, Named, Unhashed
<1>9. Once(ms)
  BY <1>6 DEF RefOK, Once, Unhashed
<1> QED
  BY <1>1, <1>2, <1>6, <1>7, <1>8, <1>9 DEF RefOK

\* What hash_name does.
Hashed(ns, ms, i, p, n) ==
    \A j \in Ids :
      /\ ms[j].parent = IF j = i THEN p ELSE ns[j].parent
      /\ ms[j].name = IF j = i THEN n ELSE ns[j].name
      /\ ms[j].refctr = IF j = p THEN ns[j].refctr + 1 ELSE ns[j].refctr
      /\ ms[j].nlookup = ns[j].nlookup
      /\ Rest(ns[j], ms[j])
LEMMA HashOK ==
    ASSUME case \in Cases, NEW ns, RefOK(ns), NEW i \in Ids \ {Root}, ns[i].parent = 0, ns[i].nlookup > 0,
           NEW p \in Ids, NEW n, n # Null, \A j \in Ids \ {Root} : ~(ns[j].parent = p /\ ns[j].name = n),
           NEW ms, ms = hash_name(ns, i, p, n)
    PROVE  RefOK(ms) /\ Hashed(ns, ms, i, p, n)
<1>1. ms = [ns EXCEPT ![p].refctr = @ + 1, ![i].parent = p, ![i].name = n]
  BY DEF hash_name
<1>2. Table(ns) /\ DOMAIN ns = Ids /\ NodeOK(ns[i]) /\ NodeOK(ns[p])
  BY DEF RefOK, Table
<1>3. PICK ls : ls = [ns EXCEPT ![p].refctr = @ + 1]
  OBVIOUS
<1>4. /\ NodeOK(ls[p]) /\ Same(ns[p], ls[p]) /\ ls[p].refctr = ns[p].refctr + 1
      /\ DOMAIN ls = Ids /\ \A j \in Ids \ {p} : ls[j] = ns[j]
  BY <1>2, <1>3 DEF NodeOK, NodeKeys, Same
<1>5. ms = [ls EXCEPT ![i].parent = p, ![i].name = n] /\ NodeOK(ls[i])
  <2>1. ms = [ls EXCEPT ![i].parent = p, ![i].name = n]
    BY <1>1, <1>3
  <2>2. NodeOK(ls[i])
    BY <1>2, <1>4
  <2> QED
    BY <2>1, <2>2
<1>6. /\ NodeOK(ms[i]) /\ ms[i].parent = p /\ ms[i].name = n /\ ms[i].refctr = ls[i].refctr
      /\ ms[i].nlookup = ls[i].nlookup /\ Rest(ls[i], ms[i])
      /\ DOMAIN ms = Ids /\ \A j \in Ids \ {i} : ms[j] = ls[j]
  BY <1>4, <1>5 DEF NodeOK, NodeKeys, Rest
<1>7. Table(ms)
  BY <1>2, <1>4, <1>6 DEF Table
<1>8. Hashed(ns, ms, i, p, n)
  BY <1>4, <1>6 DEF Hashed, Rest, Same
<1>9. Counted(ms)
  <2> SUFFICES ASSUME NEW j \in Ids PROVE ms[j].refctr = Cardinality(KidsOf(ms, j)) + Looked(ms[j])
    BY DEF Counted
  <2>1. Looked(ms[j]) = Looked(ns[j]) /\ Looked(ns[j]) \in Nat
    BY <1>8 DEF Hashed, Looked
  <2>2. ns[j].refctr = Cardinality(KidsOf(ns, j)) + Looked(ns[j])
    BY DEF RefOK, Counted
  <2>3. ms[i].parent = p /\ \A k \in Ids \ {i} : ms[k].parent = ns[k].parent
    BY <1>8 DEF Hashed
  <2>4. j = p => Cardinality(KidsOf(ms, j)) = Cardinality(KidsOf(ns, j)) + 1
    <3>1. j = p => i \notin KidsOf(ns, j) /\ KidsOf(ms, j) = KidsOf(ns, j) \cup {i}
      BY <2>3, IdFacts DEF KidsOf
    <3> QED
      BY <3>1, KidsMore
  <2>5. j # p => KidsOf(ms, j) = KidsOf(ns, j)
    BY <2>3, IdFacts DEF KidsOf
  <2>6. ms[j].refctr = IF j = p THEN ns[j].refctr + 1 ELSE ns[j].refctr
    BY <1>8 DEF Hashed
  <2> QED
    BY <2>1, <2>2, <2>4, <2>5, <2>6, KidsFinite
<1>10. Named(ms)
  BY <1>8, IdFacts DEF RefOK, Named, Hashed
<1>11. Once(ms)
  BY <1>8 DEF RefOK, Once, Hashed
<1> QED
  BY <1>7, <1>8, <1>9, <1>10, <1>11 DEF RefOK

\* A new node in the place of none.
Made == [NewNode(0, Null) EXCEPT !.nlookup = 1]
WithNode(ns, i) == [ns EXCEPT ![i] = Made]
Blank(n) ==
    /\ n.nlookup = 1 /\ n.parent = 0 /\ n.name = Null /\ n.open = 0
    /\ n.treelock = 0 /\ ~n.hidden /\ n.refctr = 1
LEMMA MadeOK ==
    ASSUME case \in Cases, NEW ns, RefOK(ns), NEW i \in Ids, ~Live(ns, i), NEW ms, ms = WithNode(ns, i)
    PROVE  RefOK(ms) /\ Blank(ms[i]) /\ \A j \in Ids \ {i} : ms[j] = ns[j]
<1>1. NodeOK(Made) /\ Made.nlookup = 1 /\ Made.parent = 0 /\ Made.name = Null /\ Made.open = 0
      /\ Made.treelock = 0 /\ Made.hidden = FALSE /\ Made.refctr = 1
  BY DEF Made, NewNode, NodeOK, NodeKeys
<1>2. DOMAIN ms = Ids /\ ms[i] = Made /\ \A j \in Ids \ {i} : ms[j] = ns[j]
  BY DEF RefOK, Table, WithNode
<1>3. /\ i # Root /\ ns[i].refctr = 0 /\ ns[i].nlookup = 0 /\ KidsOf(ns, i) = {}
      /\ ns[i].parent = 0 /\ ns[i].name = Null
  BY DeadFacts
<1> HIDE DEF Made
<1>4. Table(ms)
  BY <1>1, <1>2 DEF RefOK, Table
<1>5. \A j \in Ids : KidsOf(ms, j) = KidsOf(ns, j)
  <2>1. \A j \in Ids : ms[j].parent = ns[j].parent
    BY <1>1, <1>2, <1>3
  <2> QED
    BY <2>1 DEF KidsOf
<1>6. Counted(ms)
  <2>1. ms[i].refctr = Cardinality(KidsOf(ms, i)) + Looked(ms[i])
    <3>1. Cardinality(KidsOf(ms, i)) = 0
      BY <1>3, <1>5, FS_EmptySet
    <3>2. Looked(ms[i]) = 1
      BY <1>1, <1>2 DEF Looked
    <3> QED
      BY <1>1, <1>2, <3>1, <3>2
  <2> QED
    BY <1>2, <1>5, <2>1 DEF RefOK, Counted
<1>7. Named(ms)
  BY <1>1, <1>2, <1>3, IdFacts DEF RefOK, Named
<1>8. Once(ms)
  BY <1>1, <1>2 DEF RefOK, Once
<1> QED
  BY <1>1, <1>2, <1>4, <1>6, <1>7, <1>8 DEF RefOK, Blank

\* What forget_node does when the last lookups are given back.
Forgot(ns, ms, i) ==
    \A j \in Ids :
      /\ ms[j].parent = IF j = i THEN 0 ELSE ns[j].parent
      /\ ms[j].name = IF j = i THEN Null ELSE ns[j].name
      /\ ms[j].nlookup = IF j = i THEN 0 ELSE ns[j].nlookup
      /\ ms[j].refctr = (ns[j].refctr - (IF j = i THEN 1 ELSE 0)) - (IF j = ns[i].parent THEN 1 ELSE 0)
      /\ Rest(ns[j], ms[j]) \/ ms[j] = NoNode
LEMMA ForgotIs ==
    ASSUME case \in Cases, NEW ns, RefOK(ns), NEW i \in Ids \ {Root}, ns[i].nlookup > 0,
           NEW ms, ms = unref_node(unhash_name([ns EXCEPT ![i].nlookup = 0], i), i)
    PROVE  Table(ms) /\ Forgot(ns, ms, i)
<1>1. PICK ls : ls = [ns EXCEPT ![i].nlookup = 0]
  OBVIOUS
<1>2. Table(ns) /\ NodeOK(ns[i]) /\ DOMAIN ns = Ids
  BY DEF RefOK, Table
<1>3. /\ NodeOK(ls[i]) /\ ls[i].parent = ns[i].parent /\ ls[i].name = ns[i].name /\ ls[i].refctr = ns[i].refctr
      /\ ls[i].nlookup = 0 /\ Rest(ns[i], ls[i])
      /\ DOMAIN ls = Ids /\ \A j \in Ids \ {i} : ls[j] = ns[j]
  BY <1>1, <1>2 DEF NodeOK, NodeKeys, Rest
<1>4. Table(ls)
  BY <1>2, <1>3 DEF Table
<1>5. PICK ks : ks = unhash_name(ls, i)
  OBVIOUS
<1>6. ms = unref_node(ks, i)
  BY <1>1, <1>5
<1>7. ns[i].refctr >= 1 /\ ns[i].refctr = Cardinality(KidsOf(ns, i)) + 1
  BY KidsFinite DEF RefOK, Counted, Looked
<1>8. CASE ns[i].parent = 0
  <2>1. ks = ls
    BY <1>3, <1>5, <1>8 DEF unhash_name, RefOK, Named
  <2>2. /\ Table(ms) /\ \A j \in Ids \ {i} : ms[j] = ls[j]
        /\ ms[i].refctr = ls[i].refctr - 1
        /\ ls[i].refctr = 1 => ms[i] = NoNode
        /\ ls[i].refctr # 1 => Same(ls[i], ms[i])
    BY <1>3, <1>4, <1>6, <1>7, <2>1, UnrefIs
  <2>3. ms[i].parent = 0 /\ ms[i].name = Null /\ ms[i].nlookup = 0 /\ (Rest(ns[i], ms[i]) \/ ms[i] = NoNode)
    <3>1. ls[i].name = Null
      BY <1>3, <1>8 DEF RefOK, Named
    <3> QED
      BY <1>3, <1>8, <2>2, <3>1, NoNodeFacts DEF Same, Rest
  <2>4. ASSUME NEW j \in Ids
        PROVE  /\ ms[j].parent = IF j = i THEN 0 ELSE ns[j].parent
               /\ ms[j].name = IF j = i THEN Null ELSE ns[j].name
               /\ ms[j].nlookup = IF j = i THEN 0 ELSE ns[j].nlookup
               /\ ms[j].refctr = (ns[j].refctr - (IF j = i THEN 1 ELSE 0)) - (IF j = ns[i].parent THEN 1 ELSE 0)
               /\ Rest(ns[j], ms[j]) \/ ms[j] = NoNode
    <3>1. CASE j = i
      <4>1. ms[i].refctr = ns[i].refctr - 1 /\ ns[i].refctr \in Nat /\ i # 0
        BY <1>2, <1>3, <2>2, IdFacts DEF NodeOK
      <4>2. ms[j].refctr = (ns[j].refctr - (IF j = i THEN 1 ELSE 0)) - (IF j = ns[i].parent THEN 1 ELSE 0)
        BY <1>8, <3>1, <4>1
      <4> QED
        BY <2>3, <3>1, <4>2
    <3>2. CASE j # i
      <4>1. ms[j] = ns[j] /\ j # 0 /\ NodeOK(ns[j])
        BY <1>2, <1>3, <2>2, <3>2, IdFacts DEF Table
      <4> QED
        BY <1>8, <3>2, <4>1 DEF Rest, NodeOK
    <3> QED
      BY <3>1, <3>2
  <2> QED
    BY <2>2, <2>4 DEF Forgot
<1>9. CASE ns[i].parent # 0
  <2>0. PICK p : p = ns[i].parent
    OBVIOUS
  <2>1. p \in Ids /\ ls[i].name # Null /\ ls[i].parent = p /\ i \in KidsOf(ns, p)
    BY <1>2, <1>3, <1>9, <2>0 DEF NodeOK, RefOK, Named, KidsOf
  <2>2. Cardinality(KidsOf(ns, p)) >= 1
    <3>1. Cardinality(KidsOf(ns, p)) # 0
      BY <2>1, KidsFinite, FS_EmptySet
    <3> QED
      BY <3>1, KidsFinite
  <2>3. ns[p].refctr = Cardinality(KidsOf(ns, p)) + Looked(ns[p]) /\ ns[p].nlookup \in Nat
    BY <1>2, <2>1 DEF RefOK, Counted, Table, NodeOK
  <2>4. ns[p].refctr >= 1 /\ (ns[p].refctr = 1 => ns[p].nlookup = 0)
    BY <2>2, <2>3, KidsFinite DEF Looked
  <2>5. p = i => ns[p].refctr >= 2
    BY <1>7, <2>2, KidsFinite
  <2>6. ns[p].refctr = 1 => p # i /\ p # Root /\ ns[p].parent = 0 /\ ns[p].name = Null /\ ns[p].nlookup = 0
    BY <2>1, <2>4, <2>5 DEF RefOK, Named
  <2>7. /\ ls[p].refctr >= 1
        /\ ls[p].refctr = 1 => p # i /\ ls[p].parent = 0 /\ ls[p].name = Null /\ ls[p].nlookup = 0
    BY <1>3, <2>1, <2>4, <2>5, <2>6
  <2>8. Table(ks) /\ Unhashed(ls, ks, i, p)
    BY <1>4, <1>5, <2>1, <2>7, UnhashIs
  <2>9. ks[i].refctr >= 1 /\ ks[i].refctr = (IF p = i THEN ns[i].refctr - 1 ELSE ns[i].refctr)
    BY <1>3, <1>7, <2>5, <2>8, KidsFinite DEF Unhashed
  <2>10. /\ Table(ms) /\ \A j \in Ids \ {i} : ms[j] = ks[j]
         /\ ms[i].refctr = ks[i].refctr - 1
         /\ ks[i].refctr = 1 => ms[i] = NoNode
         /\ ks[i].refctr # 1 => Same(ks[i], ms[i])
    BY <1>6, <2>8, <2>9, UnrefIs
  <2>11. ks[i].parent = 0 /\ ks[i].name = Null /\ ks[i].nlookup = 0 /\ (Rest(ns[i], ks[i]) \/ ks[i] = NoNode)
    <3>1. ks[i].parent = 0 /\ ks[i].name = Null /\ ks[i].nlookup = 0
      BY <1>3, <2>8 DEF Unhashed
    <3>2. Rest(ls[i], ks[i]) \/ ks[i] = NoNode
      BY <2>8 DEF Unhashed
    <3> QED
      BY <1>3, <3>1, <3>2 DEF Rest
  <2>12. ms[i].parent = 0 /\ ms[i].name = Null /\ ms[i].nlookup = 0 /\ (Rest(ns[i], ms[i]) \/ ms[i] = NoNode)
    <3>1. CASE ks[i].refctr = 1
      BY <2>10, <3>1, NoNodeFacts
    <3>2. CASE ks[i].refctr # 1 /\ Rest(ns[i], ks[i])
      BY <2>10, <2>11, <3>2 DEF Same, Rest
    <3>3. CASE ks[i] = NoNode
      BY <2>9, <3>3, NoNodeFacts
    <3> QED
      BY <2>11, <3>1, <3>2, <3>3
  <2>13. ASSUME NEW j \in Ids
         PROVE  /\ ms[j].parent = IF j = i THEN 0 ELSE ns[j].parent
                /\ ms[j].name = IF j = i THEN Null ELSE ns[j].name
                /\ ms[j].nlookup = IF j = i THEN 0 ELSE ns[j].nlookup
                /\ ms[j].refctr = (ns[j].refctr - (IF j = i THEN 1 ELSE 0)) - (IF j = ns[i].parent THEN 1 ELSE 0)
                /\ Rest(ns[j], ms[j]) \/ ms[j] = NoNode
    <3>1. CASE j = i
      BY <1>3, <1>7, <2>0, <2>9, <2>10, <2>12, <3>1, KidsFinite
    <3>2. CASE j # i
      <4>1. ms[j] = ks[j] /\ ls[j] = ns[j] /\ NodeOK(ns[j])
        BY <1>2, <1>3, <2>10, <3>2 DEF Table
      <4>2. /\ ks[j].parent = ls[j].parent /\ ks[j].name = ls[j].name /\ ks[j].nlookup = ls[j].nlookup
            /\ ks[j].refctr = IF j = p THEN ls[j].refctr - 1 ELSE ls[j].refctr
            /\ Rest(ls[j], ks[j]) \/ ks[j] = NoNode
        BY <2>8, <3>2 DEF Unhashed
      <4>3. ms[j].refctr = (ns[j].refctr - 0) - (IF j = p THEN 1 ELSE 0)
        BY <4>1, <4>2 DEF NodeOK
      <4> QED
        BY <2>0, <3>2, <4>1, <4>2, <4>3
    <3> QED
      BY <3>1, <3>2
  <2> QED
    BY <2>10, <2>13 DEF Forgot
<1> QED
  BY <1>8, <1>9

\* The references of a table from which a node has gone.
LEMMA ForgotOK ==
    ASSUME case \in Cases, NEW ns, RefOK(ns), NEW i \in Ids \ {Root}, ns[i].nlookup > 0,
           NEW ms, Table(ms), Forgot(ns, ms, i)
    PROVE  RefOK(ms)
<1>1. Table(ms) /\ Forgot(ns, ms, i)
  OBVIOUS
<1>2. Counted(ms)
  <2> SUFFICES ASSUME NEW j \in Ids PROVE ms[j].refctr = Cardinality(KidsOf(ms, j)) + Looked(ms[j])
    BY DEF Counted
  <2>1. ns[j].refctr = Cardinality(KidsOf(ns, j)) + Looked(ns[j])
    BY DEF RefOK, Counted
  <2>2. ms[j].refctr = (ns[j].refctr - (IF j = i THEN 1 ELSE 0)) - (IF j = ns[i].parent THEN 1 ELSE 0)
    BY <1>1 DEF Forgot
  <2>3. Looked(ms[j]) = IF j = i THEN 0 ELSE Looked(ns[j])
    BY <1>1 DEF Forgot, Looked
  <2>4. ms[i].parent = 0 /\ \A k \in Ids \ {i} : ms[k].parent = ns[k].parent
    BY <1>1 DEF Forgot
  <2>5. j = ns[i].parent => Cardinality(KidsOf(ms, j)) = Cardinality(KidsOf(ns, j)) - 1
    <3>1. j = ns[i].parent => i \in KidsOf(ns, j) /\ KidsOf(ms, j) = KidsOf(ns, j) \ {i}
      BY <2>4, IdFacts DEF KidsOf
    <3> QED
      BY <3>1, KidsLess
  <2>6. j # ns[i].parent => KidsOf(ms, j) = KidsOf(ns, j)
    BY <2>4, IdFacts DEF KidsOf
  <2>7. Looked(ns[i]) = 1 /\ Looked(ns[j]) \in Nat
    BY DEF Looked
  <2> QED
    BY <2>1, <2>2, <2>3, <2>5, <2>6, <2>7, KidsFinite
<1>3. Named(ms)
  BY <1>1, IdFacts DEF RefOK, Named, Forgot
<1>4. Once(ms)
  BY <1>1 DEF RefOK, Once, Forgot
<1> QED
  BY <1>1, <1>2, <1>3, <1>4 DEF RefOK

\* A lookup more or less, of a node that keeps at least one.
WithLookups(ns, i, n) == [ns EXCEPT ![i].nlookup = n]
LEMMA LookedOK ==
    ASSUME case \in Cases, NEW ns, RefOK(ns), NEW i \in Ids \ {Root}, NEW n \in Nat, n > 0, ns[i].nlookup > 0,
           NEW ms, ms = WithLookups(ns, i, n)
    PROVE  /\ RefOK(ms) /\ \A j \in Ids \ {i} : ms[j] = ns[j]
           /\ ms[i].nlookup = n /\ ms[i].parent = ns[i].parent /\ ms[i].name = ns[i].name
           /\ ms[i].refctr = ns[i].refctr /\ Rest(ns[i], ms[i])
<1>1. Table(ns) /\ NodeOK(ns[i]) /\ DOMAIN ns = Ids
  BY DEF RefOK, Table
<1>2. /\ NodeOK(ms[i]) /\ ms[i].nlookup = n /\ ms[i].parent = ns[i].parent /\ ms[i].name = ns[i].name
      /\ ms[i].refctr = ns[i].refctr /\ Rest(ns[i], ms[i])
      /\ DOMAIN ms = Ids /\ \A j \in Ids \ {i} : ms[j] = ns[j]
  BY <1>1 DEF NodeOK, NodeKeys, Rest, WithLookups
<1>3. Table(ms)
  BY <1>1, <1>2 DEF Table
<1>4. \A j \in Ids : KidsOf(ms, j) = KidsOf(ns, j) /\ Looked(ms[j]) = Looked(ns[j]) /\ ms[j].refctr = ns[j].refctr
  BY <1>2 DEF KidsOf, Looked
<1>5. Counted(ms)
  BY <1>4 DEF RefOK, Counted
<1>6. Named(ms)
  BY <1>2, IdFacts DEF RefOK, Named
<1>7. Once(ms)
  BY <1>2 DEF RefOK, Once
<1> QED
  BY <1>2, <1>3, <1>5, <1>6, <1>7 DEF RefOK

\* A step that leaves names and references alone.
SameTree(ns, ms) ==
    \A j \in Ids : /\ ms[j].parent = ns[j].parent /\ ms[j].name = ns[j].name
                   /\ ms[j].refctr = ns[j].refctr /\ ms[j].nlookup = ns[j].nlookup
LEMMA SameOK ==
    ASSUME case \in Cases, NEW ns, RefOK(ns), NEW ms, Table(ms), SameTree(ns, ms)
    PROVE  RefOK(ms) /\ \A i : KidsOf(ms, i) = KidsOf(ns, i)
<1>1. \A j : KidsOf(ms, j) = KidsOf(ns, j)
  BY DEF KidsOf, SameTree
<1>2. Counted(ms)
  BY <1>1 DEF RefOK, Counted, SameTree, Looked
<1>3. Named(ms)
  BY IdFacts DEF RefOK, Named, SameTree
<1>4. Once(ms)
  BY DEF RefOK, Once, SameTree
<1> QED
  BY <1>1, <1>2, <1>3, <1>4 DEF RefOK

\* A node is as it was, or it is gone and had no lookups.
Near(n, m) == Rest(n, m) \/ (n.nlookup = 0 /\ m.treelock = 0 /\ m.open = 0 /\ m.hidden = FALSE)

\* What unhash_name does, without the counts.
Loses(ns, ms, i) ==
    \A k \in Ids :
      /\ ms[k].parent = IF k = i THEN 0 ELSE ns[k].parent
      /\ ms[k].name = IF k = i THEN Null ELSE ns[k].name
      /\ ms[k].nlookup = ns[k].nlookup
      /\ Near(ns[k], ms[k])
LEMMA UnhashLoses ==
    ASSUME case \in Cases, NEW ns, RefOK(ns), NEW i \in Ids \ {Root}, ns[i].nlookup > 0,
           NEW ms, ms = unhash_name(ns, i)
    PROVE  RefOK(ms) /\ Loses(ns, ms, i)
<1>1. CASE ns[i].parent = 0
  <2>1. ms = ns /\ ns[i].name = Null
    BY <1>1 DEF RefOK, Named, unhash_name
  <2> QED
    BY <1>1, <2>1 DEF Loses, Near, Rest
<1>2. CASE ns[i].parent # 0
  <2>1. PICK p : p = ns[i].parent
    OBVIOUS
  <2>2. RefOK(ms) /\ Unhashed(ns, ms, i, p) /\ p \in Ids
    BY <1>2, <2>1, UnhashOK
  <2>3. ns[p].refctr = 1 => ns[p].nlookup = 0
    <3>1. i \in KidsOf(ns, p)
      BY <2>1 DEF KidsOf
    <3>2. Cardinality(KidsOf(ns, p)) # 0 /\ Cardinality(KidsOf(ns, p)) \in Nat
      BY <3>1, KidsFinite, FS_EmptySet
    <3>3. ns[p].refctr = Cardinality(KidsOf(ns, p)) + Looked(ns[p]) /\ ns[p].nlookup \in Nat
      BY <2>2 DEF RefOK, Counted, Table, NodeOK
    <3> QED
      BY <3>2, <3>3 DEF Looked
  <2>4. ns[p].refctr = 1 => Near(ns[p], ms[p])
    BY <2>2, <2>3, NoNodeFacts DEF Unhashed, Near
  <2> QED
    BY <2>2, <2>4 DEF Unhashed, Loses, Near
<1> QED
  BY <1>1, <1>2

\* remove_node.
LEMMA RemoveOK ==
    ASSUME case \in Cases, NEW ns, RefOK(ns), NEW d \in Ids, NEW n, NEW ms, ms = remove_node(ns, d, n)
    PROVE  /\ RefOK(ms)
           /\ lookup_node(ns, d, n) = 0 => ms = ns
           /\ lookup_node(ns, d, n) # 0 => Loses(ns, ms, lookup_node(ns, d, n))
<1>1. PICK i : i = lookup_node(ns, d, n)
  OBVIOUS
<1>2. i \in (Ids \ {Root}) \cup {0} /\ (i # 0 => ns[i].parent = d)
  BY <1>1, LookupIs
<1>3. i # 0 => ns[i].nlookup > 0
  BY <1>2, IdFacts DEF RefOK, Named
<1>4. i = 0 => ms = ns
  BY <1>1 DEF remove_node
<1>5. i # 0 => RefOK(ms) /\ Loses(ns, ms, i)
  <2>1. i # 0 => ms = unhash_name(ns, i)
    BY <1>1 DEF remove_node
  <2> QED
    BY <1>2, <1>3, <2>1, UnhashLoses
<1> QED
  BY <1>1, <1>4, <1>5

\* rename_node moves node i and takes its name from what had it.
Renamed(ns, ms, i, e, m) ==
    \A k \in Ids :
      /\ ms[k].parent = IF k = i THEN e ELSE IF k = lookup_node(ns, e, m) THEN 0 ELSE ns[k].parent
      /\ ms[k].name = IF k = i THEN m ELSE IF k = lookup_node(ns, e, m) THEN Null ELSE ns[k].name
      /\ ms[k].nlookup = ns[k].nlookup
      /\ Near(ns[k], ms[k])
LEMMA NearTwice ==
    ASSUME NEW a, NEW b, NEW c, Near(a, b), Near(b, c), b.nlookup = a.nlookup
    PROVE  Near(a, c)
BY DEF Near, Rest
LEMMA RenameOK ==
    ASSUME case \in Cases, NEW ns, RefOK(ns), NEW d \in Ids, NEW e \in Ids, NEW n, NEW m, m # Null,
           NEW i, i = lookup_node(ns, d, n), i # 0, NEW ms, ms = rename_node(ns, d, n, e, m)
    PROVE  RefOK(ms) /\ Renamed(ns, ms, i, e, m)
<1>1. PICK j, fr, un : j = lookup_node(ns, e, m) /\ fr = remove_node(ns, e, m) /\ un = unhash_name(fr, i)
  OBVIOUS
<1>2. ms = hash_name(un, i, e, m)
  BY <1>1 DEF rename_node
<1>3. i \in Ids \ {Root} /\ ns[i].parent = d
  BY LookupIs
<1>4. ns[i].nlookup > 0
  BY <1>3, IdFacts DEF RefOK, Named
<1>5. RefOK(fr) /\ (j = 0 => fr = ns) /\ (j # 0 => Loses(ns, fr, j))
  BY <1>1, RemoveOK
<1>6. j \in (Ids \ {Root}) \cup {0} /\ \A k \in Ids \ {Root} : ns[k].parent = e /\ ns[k].name = m => k = j
  BY <1>1, LookupIs
<1>7. \A k \in Ids : /\ fr[k].parent = IF k = j THEN 0 ELSE ns[k].parent
                     /\ fr[k].name = IF k = j THEN Null ELSE ns[k].name
                     /\ fr[k].nlookup = ns[k].nlookup
                     /\ Near(ns[k], fr[k])
  <2>1. CASE j = 0
    BY <1>5, <2>1, IdFacts DEF Near, Rest
  <2>2. CASE j # 0
    BY <1>5, <2>2 DEF Loses
  <2> QED
    BY <2>1, <2>2
<1>8. RefOK(un) /\ Loses(fr, un, i)
  <2>1. fr[i].nlookup > 0
    BY <1>3, <1>4, <1>7
  <2> QED
    BY <1>1, <1>3, <1>5, <2>1, UnhashLoses
<1>9. \A k \in Ids : /\ un[k].parent = IF k \in {i, j} THEN 0 ELSE ns[k].parent
                     /\ un[k].name = IF k \in {i, j} THEN Null ELSE ns[k].name
                     /\ un[k].nlookup = ns[k].nlookup
                     /\ Near(fr[k], un[k])
  BY <1>7, <1>8 DEF Loses
<1>10. \A k \in Ids : Near(ns[k], un[k])
  BY <1>7, <1>9, NearTwice
<1>11. \A k \in Ids \ {Root} : ~(un[k].parent = e /\ un[k].name = m)
  BY <1>6, <1>9, IdFacts
<1>12. un[i].parent = 0 /\ un[i].nlookup > 0
  BY <1>3, <1>4, <1>9
<1>13. RefOK(ms) /\ Hashed(un, ms, i, e, m)
  BY <1>2, <1>3, <1>8, <1>11, <1>12, HashOK
<1>14. ASSUME NEW k \in Ids
       PROVE  /\ ms[k].parent = IF k = i THEN e ELSE IF k = j THEN 0 ELSE ns[k].parent
              /\ ms[k].name = IF k = i THEN m ELSE IF k = j THEN Null ELSE ns[k].name
              /\ ms[k].nlookup = ns[k].nlookup
              /\ Near(ns[k], ms[k])
  <2>1. /\ ms[k].parent = IF k = i THEN e ELSE un[k].parent
        /\ ms[k].name = IF k = i THEN m ELSE un[k].name
        /\ ms[k].nlookup = un[k].nlookup /\ Rest(un[k], ms[k])
    BY <1>13 DEF Hashed
  <2>2. Near(ns[k], ms[k])
    BY <1>10, <2>1 DEF Near, Rest
  <2> QED
    BY <1>9, <2>1, <2>2
<1> QED
  BY <1>1, <1>13, <1>14 DEF Renamed

\* The mark of hide_node.
LEMMA MarkIs ==
    ASSUME NEW ns, Table(ns), NEW i \in Ids, NEW ms, ms = Mark(ns, i)
    PROVE  /\ Table(ms) /\ SameTree(ns, ms) /\ ms[i].hidden = TRUE
           /\ \A k \in Ids : /\ ms[k].open = ns[k].open /\ ms[k].treelock = ns[k].treelock
                             /\ k # i => ms[k].hidden = ns[k].hidden
<1>1. ms = [ns EXCEPT ![i].hidden = TRUE] /\ NodeOK(ns[i]) /\ DOMAIN ns = Ids
  BY DEF Mark, Table
<1>2. /\ DOMAIN ms = Ids /\ \A k \in Ids \ {i} : ms[k] = ns[k]
      /\ NodeOK(ms[i]) /\ ms[i].hidden = TRUE /\ ms[i].parent = ns[i].parent /\ ms[i].name = ns[i].name
      /\ ms[i].refctr = ns[i].refctr /\ ms[i].nlookup = ns[i].nlookup
      /\ ms[i].open = ns[i].open /\ ms[i].treelock = ns[i].treelock
  BY <1>1 DEF NodeOK, NodeKeys
<1> QED
  BY <1>2 DEF Table, SameTree

----------------------------------------------------------------------------
\* The tree lock leaves everything of a node alone but the lock.
CalmNode(n, m) ==
    /\ NodeOK(m) /\ m.parent = n.parent /\ m.name = n.name /\ m.refctr = n.refctr
    /\ m.nlookup = n.nlookup /\ m.open = n.open /\ m.hidden = n.hidden
Calm(ns, ms) == DOMAIN ms = Ids /\ \A j \in Ids : CalmNode(ns[j], ms[j])

\* A calm step is one of SameTree, and two of them are one.
LEMMA CalmFacts ==
    ASSUME NEW ns, NEW ms, Calm(ns, ms)
    PROVE  Table(ms) /\ SameTree(ns, ms) /\ \A ls : Calm(ms, ls) => Calm(ns, ls)
BY DEF Calm, CalmNode, Table, SameTree
LEMMA CalmSame ==
    ASSUME NEW ns, Table(ns)
    PROVE  Calm(ns, ns)
BY DEF Calm, CalmNode, Table

\* The changes of a node: unlocked, locked, reserved.
LEMMA LeaveCalm ==
    ASSUME NEW n, NodeOK(n), NEW by \in Int, NEW tk, NEW m, m = Leave(n, by, tk)
    PROVE  CalmNode(n, m) /\ m.treelock = n.treelock + by
BY DEF Leave, NodeOK, NodeKeys, CalmNode
LEMMA ReadCalm ==
    ASSUME NEW n, NodeOK(n), NEW m, m = [n EXCEPT !.treelock = @ + 1, !.ticket = 0]
    PROVE  CalmNode(n, m) /\ m.treelock = n.treelock + 1
BY DEF NodeOK, NodeKeys, CalmNode
LEMMA WriteCalm ==
    ASSUME NEW n, NodeOK(n), NEW m, m = [n EXCEPT !.treelock = -1, !.ticket = 0]
    PROVE  CalmNode(n, m) /\ m.treelock = -1
BY DEF NodeOK, NodeKeys, CalmNode
LEMMA TicketCalm ==
    ASSUME NEW n, NodeOK(n), NEW tk, NEW m, m = [n EXCEPT !.ticket = tk]
    PROVE  CalmNode(n, m) /\ m.treelock = n.treelock
BY DEF NodeOK, NodeKeys, CalmNode
LEMMA SameCalm ==
    ASSUME NEW n, NodeOK(n)
    PROVE  CalmNode(n, n)
BY DEF CalmNode

\* unlock_path.
Left(ns, ms, U, w) ==
    \A j \in Ids : ms[j].treelock = IF j \in U THEN ns[j].treelock - 1
                                    ELSE IF j = w THEN ns[j].treelock + 1 ELSE ns[j].treelock
LEMMA UnlockIs ==
    ASSUME case \in Cases, NEW ns, Table(ns), NEW i, NEW w, NEW tk, NEW ms, ms = unlock_path(ns, i, w, tk),
           NEW U, U = ToSet(Up(ns, i)) \ {Root}
    PROVE  Calm(ns, ms) /\ Left(ns, ms, U, w)
<1>1. ms = [j \in DOMAIN ns |-> IF j \in U THEN Leave(ns[j], -1, tk)
                                ELSE IF j = w THEN Leave(ns[j], 1, tk) ELSE ns[j]]
  BY DEF unlock_path
<1>2. DOMAIN ns = Ids /\ \A j \in Ids : NodeOK(ns[j])
  BY DEF Table
<1>3. DOMAIN ms = Ids
  BY <1>1, <1>2
<1>4. ASSUME NEW j \in Ids
      PROVE  /\ CalmNode(ns[j], ms[j])
             /\ ms[j].treelock = IF j \in U THEN ns[j].treelock - 1
                                 ELSE IF j = w THEN ns[j].treelock + 1 ELSE ns[j].treelock
  <2>1. NodeOK(ns[j])
    BY <1>2
  <2>2. CASE j \in U
    <3>1. ms[j] = Leave(ns[j], -1, tk)
      BY <1>1, <1>2, <2>2
    <3>2. CalmNode(ns[j], ms[j]) /\ ms[j].treelock = ns[j].treelock + (-1)
      BY <2>1, <3>1, LeaveCalm
    <3> QED
      BY <2>1, <2>2, <3>2 DEF NodeOK
  <2>3. CASE j \notin U /\ j = w
    <3>1. ms[j] = Leave(ns[j], 1, tk)
      BY <1>1, <1>2, <2>3
    <3>2. CalmNode(ns[j], ms[j]) /\ ms[j].treelock = ns[j].treelock + 1
      BY <2>1, <3>1, LeaveCalm
    <3> QED
      BY <2>3, <3>2
  <2>4. CASE j \notin U /\ j # w
    <3>1. ms[j] = ns[j]
      BY <1>1, <1>2, <2>4
    <3> QED
      BY <2>1, <2>4, <3>1, SameCalm
  <2> QED
    BY <2>2, <2>3, <2>4
<1> QED
  BY <1>3, <1>4 DEF Calm, Left

\* The locks and the tickets that try_get_path takes.
LEMMA TakenIs ==
    ASSUME NEW ns, Table(ns), NEW got, NEW w, NEW ms, ms = Taken(ns, got, w)
    PROVE  /\ Calm(ns, ms)
           /\ \A j \in Ids : ms[j].treelock = IF j \in got THEN ns[j].treelock + 1
                                              ELSE IF j = w THEN -1 ELSE ns[j].treelock
<1>1. ms = [j \in DOMAIN ns |-> IF j \in got THEN [ns[j] EXCEPT !.treelock = @ + 1, !.ticket = 0]
                                ELSE IF j = w THEN [ns[j] EXCEPT !.treelock = -1, !.ticket = 0] ELSE ns[j]]
  BY DEF Taken
<1>2. DOMAIN ns = Ids /\ \A j \in Ids : NodeOK(ns[j])
  BY SMTT(20) DEF Table
<1>3. DOMAIN ms = Ids
  BY <1>1, <1>2
<1>4. ASSUME NEW j \in Ids
      PROVE  /\ CalmNode(ns[j], ms[j])
             /\ ms[j].treelock = IF j \in got THEN ns[j].treelock + 1
                                 ELSE IF j = w THEN -1 ELSE ns[j].treelock
  <2>1. NodeOK(ns[j])
    BY <1>2
  <2>2. CASE j \in got
    <3>1. ms[j] = [ns[j] EXCEPT !.treelock = @ + 1, !.ticket = 0]
      BY <1>1, <1>2, <2>2
    <3>2. CalmNode(ns[j], ms[j]) /\ ms[j].treelock = ns[j].treelock + 1
      BY <2>1, <3>1, ReadCalm, Zenon
    <3> QED
      BY <2>2, <3>2, SMTT(20)
  <2>3. CASE j \notin got /\ j = w
    <3>1. ms[j] = [ns[j] EXCEPT !.treelock = -1, !.ticket = 0]
      BY <1>1, <1>2, <2>3
    <3>2. CalmNode(ns[j], ms[j]) /\ ms[j].treelock = -1
      BY <2>1, <3>1, WriteCalm, Zenon
    <3> QED
      BY <2>3, <3>2, SMTT(20)
  <2>4. CASE j \notin got /\ j # w
    <3>1. ms[j] = ns[j]
      BY <1>1, <1>2, <2>4
    <3> QED
      BY <2>1, <2>4, <3>1, SameCalm, SMTT(20)
  <2> QED
    BY <2>2, <2>3, <2>4
<1> QED
  BY <1>3, <1>4 DEF Calm
\* A step that does not even change the lock, only tickets.
Ticketed(ns, ms) == Calm(ns, ms) /\ \A j \in Ids : ms[j].treelock = ns[j].treelock
LEMMA ReservedIs ==
    ASSUME NEW ns, Table(ns), NEW got, NEW tk, NEW ms, ms = Reserved(ns, got, tk)
    PROVE  Ticketed(ns, ms)
<1>1. ms = [j \in DOMAIN ns |-> IF j \in got THEN [ns[j] EXCEPT !.ticket = tk] ELSE ns[j]]
  BY DEF Reserved
<1>2. DOMAIN ns = Ids /\ \A j \in Ids : NodeOK(ns[j])
  BY DEF Table
<1>3. DOMAIN ms = Ids
  BY <1>1, <1>2
<1>4. ASSUME NEW j \in Ids
      PROVE  CalmNode(ns[j], ms[j]) /\ ms[j].treelock = ns[j].treelock
  <2>1. NodeOK(ns[j])
    BY <1>2
  <2>2. ms[j] = ns[j] \/ ms[j] = [ns[j] EXCEPT !.ticket = tk]
    BY <1>1, <1>2
  <2>3. CASE ms[j] = ns[j]
    BY <2>1, <2>3, SameCalm
  <2>4. CASE ms[j] = [ns[j] EXCEPT !.ticket = tk]
    BY <2>1, <2>4 DEF NodeOK, NodeKeys, CalmNode
  <2> QED
    BY <2>2, <2>3, <2>4
<1> QED
  BY <1>3, <1>4 DEF Calm, Ticketed
\* try_get_path: it takes the locks, or it leaves tickets.  FirstStop is
\* only looked at where it matters.
Climbs(up, stop) == {up[k] : k \in 1 .. stop - 1}
TookPath(ns, ms, i, w, tk) ==
    \E up, stop : /\ up = Up(ns, i) /\ stop = FirstStop(ns, up, tk) /\ up[stop] = Root
                  /\ ms = Taken(ns, Climbs(up, stop), w)
LEMMA TriedFields ==
    ASSUME NEW a, NEW e, NEW m, NEW w, a = [err |-> e, ns |-> m, wnode |-> w]
    PROVE  a.err = e /\ a.ns = m /\ a.wnode = w
OBVIOUS
AttemptIs(ns, a, i, w, tk) ==
    /\ Calm(ns, a.ns) /\ Table(a.ns)
    /\ a.err = "" => TookPath(ns, a.ns, i, w, tk) /\ a.wnode = w /\ (w # 0 => ~WBlocked(ns, w, tk))
    /\ a.err # "" => Ticketed(ns, a.ns) /\ a.wnode = 0
LEMMA TryOneIs ==
    ASSUME case \in Cases, NEW ns, Table(ns), NEW i, NEW n, NEW wr, NEW tk,
           NEW w, w = IF wr THEN lookup_node(ns, i, n) ELSE 0,
           NEW a, a = try_get_path(ns, i, n, wr, tk)
    PROVE  AttemptIs(ns, a, i, w, tk)
<1>0. a = TryWrite(ns, i, w, tk)
  BY DEF try_get_path
<1>1. CASE w # 0 /\ WBlocked(ns, w, tk)
  <2>1. PICK ms : ms = [ns EXCEPT ![w].ticket = IF @ = 0 THEN tk ELSE @]
    OBVIOUS
  <2>2. a = [err |-> "EAGAIN", ns |-> ms, wnode |-> 0]
    BY <1>0, <1>1, <2>1 DEF TryWrite, Again
  <2>3. a.err = "EAGAIN" /\ a.ns = ms /\ a.wnode = 0
    BY <2>2
  <2>4. DOMAIN ms = Ids
    BY <2>1 DEF Table
  <2>5. ASSUME NEW j \in Ids
        PROVE  CalmNode(ns[j], ms[j]) /\ ms[j].treelock = ns[j].treelock
    <3>1. NodeOK(ns[j]) /\ DOMAIN ns = Ids
      BY DEF Table
    <3>2. PICK x : ms[j] = ns[j] \/ ms[j] = [ns[j] EXCEPT !.ticket = x]
      BY <2>1, <3>1
    <3> QED
      BY <3>1, <3>2 DEF NodeOK, NodeKeys, CalmNode
  <2>6. Ticketed(ns, ms)
    BY <2>4, <2>5 DEF Ticketed, Calm
  <2> QED
    BY <2>3, <2>6, CalmFacts DEF Ticketed, AttemptIs
<1>2. CASE ~(w # 0 /\ WBlocked(ns, w, tk))
  <2>1. PICK up, stop : up = Up(ns, i) /\ stop = FirstStop(ns, up, tk)
    OBVIOUS
  <2>2. PICK got : got = Climbs(up, stop)
    OBVIOUS
  <2>3. a = Climbed(ns, up, stop, w, tk)
    BY <1>0, <1>2, <2>1 DEF TryWrite, TryRead, Climb
  <2>4. CASE up[stop] = Root
    <3>1. PICK ms : ms = Taken(ns, got, w)
      OBVIOUS
    <3>2. a = [err |-> "", ns |-> ms, wnode |-> w]
      BY <2>2, <2>3, <2>4, <3>1 DEF Climbed, Climbs
    <3>3. ASSUME NEW v, NEW b, b = [err |-> "", ns |-> ms, wnode |-> v]
          PROVE  b.err = "" /\ b.ns = ms /\ b.wnode = v
      BY <3>3
    <3>6. a.err = "" /\ a.ns = ms /\ a.wnode = w
      BY <3>2, <3>3, Zenon
    <3>4. Calm(ns, ms)
      BY <3>1, TakenIs
    <3>5. TookPath(ns, ms, i, w, tk)
      BY <2>1, <2>2, <2>4, <3>1, Zenon DEF TookPath
    <3> QED
      BY <1>2, <3>6, <3>4, <3>5, CalmFacts DEF AttemptIs
  <2>5. CASE up[stop] # Root
    <3>1. PICK ms, er : ms = Reserved(ns, got \cup {w}, tk)
                        /\ er = IF ns[up[stop]].name = Null THEN "ENOENT" ELSE "EAGAIN"
      OBVIOUS
    <3>2. a = [err |-> er, ns |-> ms, wnode |-> 0]
      BY <2>2, <2>3, <2>5, <3>1 DEF Climbed, Climbs
    <3>3. a.err = er /\ a.ns = ms /\ a.wnode = 0 /\ er # ""
      BY <3>1, <3>2
    <3>4. Ticketed(ns, ms)
      BY <3>1, ReservedIs
    <3> QED
      BY <3>3, <3>4, CalmFacts DEF Ticketed, AttemptIs
  <2> QED
    BY <2>4, <2>5
<1> QED
  BY <1>1, <1>2

LEMMA TryOneCalm ==
    ASSUME case \in Cases, NEW ns, Table(ns), NEW i, NEW n, NEW wr, NEW tk
    PROVE  Calm(ns, try_get_path(ns, i, n, wr, tk).ns) /\ Table(try_get_path(ns, i, n, wr, tk).ns)
<1>1. PICK a, w : a = try_get_path(ns, i, n, wr, tk) /\ w = IF wr THEN lookup_node(ns, i, n) ELSE 0
  OBVIOUS
<1>2. Calm(ns, a.ns) /\ Table(a.ns)
  BY <1>1, TryOneIs DEF AttemptIs
<1> QED
  BY <1>1, <1>2
LEMMA UnlockCalm ==
    ASSUME case \in Cases, NEW ns, Table(ns), NEW i, NEW w, NEW tk
    PROVE  Calm(ns, unlock_path(ns, i, w, tk)) /\ Table(unlock_path(ns, i, w, tk))
<1>1. PICK ms, U : ms = unlock_path(ns, i, w, tk) /\ U = ToSet(Up(ns, i)) \ {Root}
  OBVIOUS
<1>2. Calm(ns, ms)
  BY <1>1, UnlockIs
<1> QED
  BY <1>1, <1>2, CalmFacts

\* All the paths of a request.
LEMMA TryCalm ==
    ASSUME case \in Cases, NEW ns, Table(ns), NEW r, NEW tk, NEW z, z = TryLock(ns, r, tk)
    PROVE  Calm(ns, z.ns)
<1>1. CASE r.op \notin TwoPathOps
  <2>1. PICK a, wr : a = try_get_path(ns, r.ino, r.name, wr, tk) /\ wr = Writes(r)
    OBVIOUS
  <2>2. z.ns = a.ns
    BY <1>1, <2>1 DEF TryLock, OnePath
  <2> QED
    BY <2>1, <2>2, TryOneCalm
<1>2. CASE r.op \in TwoPathOps
  <2>0. PICK wr : wr = Exclusive(r)
    OBVIOUS
  <2>1. PICK a : a = try_get_path(ns, r.ino, r.name, wr, tk)
    OBVIOUS
  <2>2. Calm(ns, a.ns) /\ Table(a.ns)
    BY <2>1, TryOneCalm
  <2>3. PICK b : b = try_get_path(a.ns, r.ino2, r.name2, wr, tk)
    OBVIOUS
  <2>4. Calm(a.ns, b.ns) /\ Table(b.ns)
    BY <2>2, <2>3, TryOneCalm
  <2>5. PICK u : u = unlock_path(b.ns, r.ino, a.wnode, tk)
    OBVIOUS
  <2>6. Calm(b.ns, u)
    BY <2>4, <2>5, UnlockCalm
  <2>7. Calm(ns, a.ns) /\ Calm(ns, b.ns) /\ Calm(ns, u)
    BY <2>2, <2>4, <2>6, CalmFacts
  <2>8. z = OneTried(a, r, tk)
    BY <1>2, <2>0, <2>1 DEF TryLock, try_get_path2
  <2>9. CASE a.err # ""
    <3>1. z = [err |-> a.err, ns |-> a.ns, wnode |-> 0, wnode2 |-> 0]
      BY <2>8, <2>9, Zenon DEF OneTried
    <3>2. z.ns = a.ns
      BY <3>1
    <3> QED
      BY <2>7, <3>2
  <2>10. CASE a.err = ""
    <3>1. z = BothTried(a, b, r, tk)
      BY <2>0, <2>3, <2>8, <2>10, Zenon DEF OneTried
    <3>2. \/ z = [err |-> "", ns |-> b.ns, wnode |-> a.wnode, wnode2 |-> b.wnode]
          \/ z = [err |-> b.err, ns |-> u, wnode |-> 0, wnode2 |-> 0]
      BY <2>5, <3>1, Zenon DEF BothTried
    <3>3. ASSUME NEW er, NEW m, NEW x, NEW y, z = [err |-> er, ns |-> m, wnode |-> x, wnode2 |-> y]
          PROVE  z.ns = m
      BY <3>3
    <3>4. z.ns = b.ns \/ z.ns = u
      BY <3>2, <3>3, Zenon
    <3> QED
      BY <2>7, <3>4
  <2> QED
    BY <2>9, <2>10
<1> QED
  BY <1>1, <1>2

\* free_path and free_path2.
LEMMA UnlockAllCalm ==
    ASSUME case \in Cases, NEW ns, Table(ns), NEW r, NEW ms, ms = UnlockAll(ns, r)
    PROVE  Calm(ns, ms)
<1>1. PICK one : one = unlock_path(ns, r.ino, r.wnode, 0)
  OBVIOUS
<1>2. Calm(ns, one) /\ Table(one)
  BY <1>1, UnlockCalm
<1>3. PICK two : two = unlock_path(one, r.ino2, r.wnode2, 0)
  OBVIOUS
<1>4. Calm(one, two)
  BY <1>2, <1>3, UnlockCalm
<1>5. ms = one \/ ms = two
  BY <1>1, <1>3 DEF UnlockAll
<1> QED
  BY <1>2, <1>4, <1>5, CalmFacts

----------------------------------------------------------------------------
(***************************************************************************)
(* Lookups and references.  A lookup of a node is with the kernel or with  *)
(* a thread that is about to hand it over or to give it back.              *)
(***************************************************************************)

\* The shapes of the operations that have handlers of their own.
LEMMA ShapeNames ==
    ASSUME NEW op \in DOMAIN fuse_path_ops
    PROVE  /\ fuse_path_ops[op] = "create" <=> op = "create"
           /\ fuse_path_ops[op] = "rename" <=> op = "rename"
           /\ fuse_path_ops[op] = "link" <=> op = "link"
           /\ fuse_path_ops[op] = "forget" <=> op = "forget"
           /\ fuse_path_ops[op] = "unlink" <=> op = "unlink"
           /\ fuse_path_ops[op] = "rmdir" <=> op = "rmdir"
           /\ fuse_path_ops[op] = "release" <=> op = "release"
           /\ fuse_path_ops[op] = "flush" <=> op = "flush"
           /\ fuse_path_ops[op] = "open" <=> op = "open"
           /\ fuse_path_ops[op] = "lock" <=> op \in {"setlk", "getlk"}
<1> DEFINE T == {fuse_lib_name, fuse_lib_attr, fuse_lib_make, fuse_lib_file, fuse_lib_dir,
                 fuse_lib_xattr, fuse_lib_lock, fuse_lib_misc}
<1>1. fuse_path_ops = [o \in UNION {DOMAIN f : f \in T} |-> (CHOOSE f \in T : o \in DOMAIN f)[o]]
  BY DEF fuse_path_ops
<1>2. PICK f \in T : op \in DOMAIN f /\ fuse_path_ops[op] = f[op]
  <2> HIDE DEF T
  <2>1. op \in UNION {DOMAIN g : g \in T}
    BY <1>1
  <2>2. PICK g \in T : op \in DOMAIN g
    BY <2>1
  <2>3. PICK h : h = CHOOSE x \in T : op \in DOMAIN x
    OBVIOUS
  <2>4. h \in T /\ op \in DOMAIN h
    BY <2>2, <2>3
  <2>5. fuse_path_ops[op] = h[op]
    BY <1>1, <2>1, <2>3, Zenon
  <2> QED
    BY <2>4, <2>5
<1>3. CASE f = fuse_lib_name
  <2>1. /\ f = [lookup |-> "entry", forget |-> "forget", unlink |-> "unlink",
                rmdir |-> "rmdir", symlink |-> "entry", rename |-> "rename",
                link |-> "link", create |-> "create", open |-> "open",
                release |-> "release", opendir |-> "path"]
    BY <1>3 DEF fuse_lib_name
  <2> QED
    BY <1>2, <2>1
<1>4. CASE f = fuse_lib_lock
  BY <1>2, <1>4 DEF fuse_lib_lock
<1>5. CASE f = fuse_lib_attr
  BY <1>2, <1>5 DEF fuse_lib_attr
<1>6. CASE f = fuse_lib_make
  BY <1>2, <1>6 DEF fuse_lib_make
<1>7. CASE f = fuse_lib_file
  BY <1>2, <1>7 DEF fuse_lib_file
<1>8. CASE f = fuse_lib_dir
  BY <1>2, <1>8 DEF fuse_lib_dir
<1>9. CASE f = fuse_lib_xattr
  BY <1>2, <1>9 DEF fuse_lib_xattr
<1>10. CASE f = fuse_lib_misc
  BY <1>2, <1>10 DEF fuse_lib_misc
<1> QED
  BY <1>2, <1>3, <1>4, <1>5, <1>6, <1>7, <1>8, <1>9, <1>10

\* The requests: their fields, and the arguments by shape.
ReqKeys == {"op", "ino", "name", "ino2", "name2", "n", "ticket", "wnode", "wnode2", "path", "held",
            "killed", "done", "victim", "entry", "hide", "lock"}
ReqOK(r) ==
    /\ ReqKeys \subseteq DOMAIN r /\ r.n \in Nat /\ r.entry \in (Ids \ {Root}) \cup {0}
    /\ r.ino \in Ids \cup {0} /\ r.ino2 \in Ids \cup {0}
    /\ r.held \in BOOLEAN /\ r.killed \in BOOLEAN /\ r.done \in BOOLEAN
Args(r) ==
    Shape(r) # "forget" =>
      /\ r.ino \in Ids
      /\ r.op \in TwoPathOps => r.ino2 \in Ids /\ r.name2 # Null
      /\ r.op \notin TwoPathOps => r.ino2 = 0
      /\ Shape(r) \in {"entry", "create", "unlink", "rmdir", "rename"} => r.name # Null

\* Which thread has what: the lookups of an entry it has found or is to
\* forget, and the tree lock.
Unfound == {"start", "wait", "locked", "getlk", "hide", "hiding", "change", "insert"}
Loaded(p, r) ==
    /\ p \in Unfound => r.entry = 0
    /\ p \in {"found", "opened", "release", "unhide"} =>
         IF r.op = "create" THEN r.entry # 0 /\ r.n = 1 ELSE r.entry = 0
    /\ p \in {"reply", "forget", "fwait"} => r.entry # 0 /\ r.n >= 1 /\ (r.op # "forget" => r.n = 1)
    /\ p = "free" /\ r.entry # 0 /\ ~r.done => Shape(r) \in {"entry", "link"} /\ r.n = 1
    /\ r.done => p = "free" /\ Shape(r) \in {"open", "create"}
    /\ p = "getlk" => Shape(r) = "lock"
Holding(p, r) ==
    /\ r.held => p \notin {"start", "wait", "getlk", "idle", "reply"}
    /\ r.held /\ p \in {"forget", "fwait"} => r.op = "create"
    /\ p \in {"found", "opened", "hide", "hiding", "change"} => r.held
    /\ p = "locked" /\ ~PathErr(r) => r.held
RStage(p, r) ==
    /\ ReqOK(r) /\ Loaded(p, r) /\ Holding(p, r)
    /\ p = "idle" => r = NoReq
    /\ p # "idle" => Args(r)
    /\ p = "hiding" => r.hide # Null

\* The lookups of node i with a thread, and with all threads.
Load(p, r, i) == IF Carries(p, r, i) THEN r.n ELSE 0
Flight(P, R, i) == UNION {{t} \X (1 .. R[t].n) : t \in {u \in Threads : Carries(P[u], R[u], i)}}
Rows(P, R, i, t) == {x \in Flight(P, R, i) : x[1] # t}

\* {t} \X 1 .. n has n elements.
LEMMA RowSize ==
    ASSUME NEW t, NEW n \in Nat
    PROVE  IsFiniteSet({t} \X (1 .. n)) /\ Cardinality({t} \X (1 .. n)) = n
<1>1. IsFiniteSet({t}) /\ Cardinality({t}) = 1
  BY FS_Singleton
<1>2. IsFiniteSet(1 .. n) /\ Cardinality(1 .. n) = n
  BY FS_Interval
<1>3. IsFiniteSet({t} \X (1 .. n)) /\ Cardinality({t} \X (1 .. n)) = Cardinality({t}) * Cardinality(1 .. n)
  BY <1>1, <1>2, FS_Product
<1> QED
  BY <1>1, <1>2, <1>3

\* The lookups with thread t, and those with the others.
LEMMA FlightSplit ==
    ASSUME NEW P, NEW R, \A u \in Threads : R[u].n \in Nat, NEW i, NEW t \in Threads
    PROVE  /\ IsFiniteSet(Flight(P, R, i)) /\ Cardinality(Rows(P, R, i, t)) \in Nat
           /\ Cardinality(Flight(P, R, i)) = Cardinality(Rows(P, R, i, t)) + Load(P[t], R[t], i)
<1> DEFINE C == {u \in Threads : Carries(P[u], R[u], i)}
           Row(u) == {u} \X (1 .. R[u].n)
           own == IF Carries(P[t], R[t], i) THEN Row(t) ELSE {}
<1>1. IsFiniteSet(Threads)
  BY TreeAssumption
<1>2. IsFiniteSet(C)
  BY <1>1, FS_Subset
<1>3. Flight(P, R, i) = UNION {Row(u) : u \in C}
  BY DEF Flight
<1>4. \A u \in Threads : IsFiniteSet(Row(u)) /\ Cardinality(Row(u)) = R[u].n
  BY RowSize
<1>5. IsFiniteSet({Row(u) : u \in C})
  <2>1. PICK f : f = [u \in C |-> Row(u)]
    OBVIOUS
  <2>2. f \in Surjection(C, {Row(u) : u \in C})
    <3> HIDE DEF C, Row
    <3> QED
      BY <2>1 DEF Surjection
  <2> QED
    BY <1>2, <2>2, FS_Surjection
<1>6. \A S \in {Row(u) : u \in C} : IsFiniteSet(S)
  BY <1>4
<1>7. IsFiniteSet(UNION {Row(u) : u \in C})
  BY <1>5, <1>6, FS_UNION
<1>8. IsFiniteSet(Flight(P, R, i))
  BY <1>3, <1>7
<1>9. Flight(P, R, i) = Rows(P, R, i, t) \cup own /\ Rows(P, R, i, t) \cap own = {}
  <2>1. \A x : x \in Flight(P, R, i) <=> \E u \in C : x \in Row(u)
    BY <1>3
  <2>2. \A u \in C : \A x \in Row(u) : x[1] = u
    OBVIOUS
  <2>3. \A x \in own : x \in Flight(P, R, i) /\ x[1] = t
    BY <2>1, <2>2
  <2>4. \A x \in Flight(P, R, i) : x[1] = t => x \in own
    BY <2>1, <2>2
  <2> HIDE DEF own, C, Row
  <2> QED
    BY <2>3, <2>4 DEF Rows
<1>10. IsFiniteSet(own) /\ Cardinality(own) = Load(P[t], R[t], i)
  <2>1. CASE Carries(P[t], R[t], i)
    <3>1. own = Row(t)
      BY <2>1
    <3> HIDE DEF own, Row
    <3> QED
      BY <1>4, <2>1, <3>1 DEF Load
  <2>2. CASE ~Carries(P[t], R[t], i)
    <3>1. own = {}
      BY <2>2
    <3> HIDE DEF own
    <3> QED
      BY <2>2, <3>1, FS_EmptySet DEF Load
  <2> QED
    BY <2>1, <2>2
<1> HIDE DEF own, C, Row
<1>11. IsFiniteSet(Rows(P, R, i, t))
  <2>1. Rows(P, R, i, t) \subseteq Flight(P, R, i)
    BY DEF Rows
  <2> QED
    BY <1>8, <2>1, FS_Subset
<1>12. Cardinality(Rows(P, R, i, t) \cup own) = Cardinality(Rows(P, R, i, t)) + Cardinality(own)
  <2>1. Cardinality(Rows(P, R, i, t) \cup own) =
          Cardinality(Rows(P, R, i, t)) + Cardinality(own) - Cardinality(Rows(P, R, i, t) \cap own)
    BY <1>10, <1>11, FS_Union
  <2>2. Cardinality(Rows(P, R, i, t) \cap own) = 0
    BY <1>9, FS_EmptySet
  <2>3. Cardinality(Rows(P, R, i, t)) \in Nat /\ Cardinality(own) \in Nat
    BY <1>10, <1>11, FS_CardinalityType
  <2> QED
    BY <2>1, <2>2, <2>3
<1> QED
  BY <1>8, <1>9, <1>10, <1>11, <1>12, FS_CardinalityType

\* If only thread t moves, the lookups of the others stay.
LEMMA FlightMove ==
    ASSUME NEW P, NEW R, \A u \in Threads : R[u].n \in Nat,
           NEW P2, NEW R2, \A u \in Threads : R2[u].n \in Nat, NEW i, NEW t \in Threads,
           \A u \in Threads \ {t} : P2[u] = P[u] /\ R2[u] = R[u]
    PROVE  /\ Cardinality(Flight(P2, R2, i)) + Load(P[t], R[t], i) =
                Cardinality(Flight(P, R, i)) + Load(P2[t], R2[t], i)
           /\ Cardinality(Flight(P, R, i)) \in Nat /\ Load(P[t], R[t], i) \in Nat
           /\ Cardinality(Flight(P2, R2, i)) \in Nat /\ Load(P2[t], R2[t], i) \in Nat
<1>1. Rows(P2, R2, i, t) = Rows(P, R, i, t)
  <2>1. ASSUME NEW A, NEW B, NEW x
        PROVE  x \in Rows(A, B, i, t) <=> x \in UNION {{u} \X (1 .. B[u].n) :
                                                 u \in {v \in Threads \ {t} : Carries(A[v], B[v], i)}}
    BY DEF Rows, Flight
  <2> DEFINE D(A, B) == {v \in Threads \ {t} : Carries(A[v], B[v], i)}
  <2>2. D(P2, R2) = D(P, R)
    OBVIOUS
  <2>3. \A u \in D(P, R) : {u} \X (1 .. R2[u].n) = {u} \X (1 .. R[u].n)
    OBVIOUS
  <2>4. ASSUME NEW A, NEW B, NEW x
        PROVE  x \in Rows(A, B, i, t) <=> \E u \in D(A, B) : x \in {u} \X (1 .. B[u].n)
    BY <2>1
  <2> HIDE DEF D
  <2>5. \A x : x \in Rows(P2, R2, i, t) <=> x \in Rows(P, R, i, t)
    BY <2>2, <2>3, <2>4
  <2> QED
    BY <2>5
<1>2. /\ IsFiniteSet(Flight(P, R, i)) /\ Cardinality(Rows(P, R, i, t)) \in Nat
      /\ Cardinality(Flight(P, R, i)) = Cardinality(Rows(P, R, i, t)) + Load(P[t], R[t], i)
  BY FlightSplit
<1>3. /\ IsFiniteSet(Flight(P2, R2, i)) /\ Cardinality(Rows(P2, R2, i, t)) \in Nat
      /\ Cardinality(Flight(P2, R2, i)) = Cardinality(Rows(P2, R2, i, t)) + Load(P2[t], R2[t], i)
  BY FlightSplit
<1>4. Load(P[t], R[t], i) \in Nat /\ Load(P2[t], R2[t], i) \in Nat
  BY DEF Load
<1> QED
  BY <1>1, <1>2, <1>3, <1>4

\* The invariant.  Makers may still make a node: there is room for theirs.
LiveSet(ns) == {i \in Ids : Live(ns, i)}
Maker(p, r) == p \in {"start", "wait", "locked"} /\ Shape(r) \in {"entry", "create", "link"}
MakersOf(P, R) == {t \in Threads : Maker(P[t], R[t])}
RoomFor(ns, P, R) == Cardinality(LiveSet(ns)) + Cardinality(MakersOf(P, R)) <= IdSpace - 2
FlightsOK(ns, P, R, kl) == \A i \in Ids \ {Root} : ns[i].nlookup = kl[i] + Cardinality(Flight(P, R, i))
Numbered ==
    /\ ctr \in 0 .. IdSpace - 1 /\ gen \in Nat
    /\ \A x \in given : x[1] \in Nat /\ x[2] \in Nat /\ (x[2] < gen \/ (x[2] = gen /\ x[1] <= ctr))
RInv ==
    /\ RefOK(nodes) /\ klook \in [Ids -> Nat]
    /\ \A t \in Threads : RStage(pc[t], req[t])
    /\ FlightsOK(nodes, pc, req, klook)
    /\ RoomFor(nodes, pc, req)
    /\ Numbered

\* A step of thread t.
Moves(t, p, r) ==
    pc' = [pc EXCEPT ![t] = p] /\ req' = [req EXCEPT ![t] = r] /\ case' = case /\ t \in Threads

LEMMA MovesFacts ==
    ASSUME LInv, NEW t, NEW p, NEW r, Moves(t, p, r)
    PROVE  /\ pc'[t] = p /\ req'[t] = r /\ t \in Threads
           /\ \A u \in Threads \ {t} : pc'[u] = pc[u] /\ req'[u] = req[u]
<1>1. DOMAIN pc = Threads /\ DOMAIN req = Threads
  BY DEF LInv, Threading
<1> QED
  BY <1>1 DEF Moves

\* What is to be shown of it: the lookups balance, and there is room.
Balanced(t, p, r) ==
    \A i \in Ids \ {Root} :
      nodes'[i].nlookup + klook[i] + Load(pc[t], req[t], i) = nodes[i].nlookup + klook'[i] + Load(p, r, i)
LEMMA RMoves ==
    ASSUME LInv, RInv, NEW t, NEW p, NEW r, Moves(t, p, r), RStage(p, r), RefOK(nodes'),
           klook' \in [Ids -> Nat], Balanced(t, p, r), RoomFor(nodes', pc', req'), Numbered'
    PROVE  RInv'
<1>0. case \in Cases /\ case' = case
  BY DEF LInv, Threading, Moves
<1>1. /\ pc'[t] = p /\ req'[t] = r /\ t \in Threads
      /\ \A u \in Threads \ {t} : pc'[u] = pc[u] /\ req'[u] = req[u]
  BY MovesFacts
<1>2. \A u \in Threads : RStage(pc'[u], req'[u])
  BY <1>1 DEF RInv
<1>3. \A u \in Threads : req[u].n \in Nat /\ req'[u].n \in Nat
  BY <1>2 DEF RInv, RStage, ReqOK
<1>4. ASSUME NEW i \in Ids \ {Root}
      PROVE  nodes'[i].nlookup = klook'[i] + Cardinality(Flight(pc', req', i))
  <2>1. /\ Cardinality(Flight(pc', req', i)) + Load(pc[t], req[t], i) =
             Cardinality(Flight(pc, req, i)) + Load(p, r, i)
        /\ Cardinality(Flight(pc, req, i)) \in Nat /\ Load(pc[t], req[t], i) \in Nat
        /\ Cardinality(Flight(pc', req', i)) \in Nat /\ Load(p, r, i) \in Nat
    BY <1>1, <1>3, FlightMove
  <2>2. nodes[i].nlookup = klook[i] + Cardinality(Flight(pc, req, i))
    BY DEF RInv, FlightsOK
  <2>3. nodes'[i].nlookup + klook[i] + Load(pc[t], req[t], i) = nodes[i].nlookup + klook'[i] + Load(p, r, i)
    BY DEF Balanced
  <2>4. klook[i] \in Nat /\ klook'[i] \in Nat /\ nodes'[i].nlookup \in Nat /\ nodes[i].nlookup \in Nat
    BY DEF RInv, RefOK, Table, NodeOK
  <2> QED
    BY <2>1, <2>2, <2>3, <2>4
<1> QED
  BY <1>2, <1>4 DEF RInv, FlightsOK

\* There is room if no node and no maker is new.
LEMMA RoomSame ==
    ASSUME LInv, RInv, NEW t, NEW p, NEW r, Moves(t, p, r), LiveSet(nodes') \subseteq LiveSet(nodes),
           Maker(p, r) => Maker(pc[t], req[t])
    PROVE  RoomFor(nodes', pc', req')
<1>0. case \in Cases
  BY DEF LInv, Threading
<1>1. /\ pc'[t] = p /\ req'[t] = r /\ t \in Threads
      /\ \A u \in Threads \ {t} : pc'[u] = pc[u] /\ req'[u] = req[u]
  BY MovesFacts
<1>2. MakersOf(pc', req') \subseteq MakersOf(pc, req)
  BY <1>1 DEF MakersOf
<1>3. IsFiniteSet(LiveSet(nodes)) /\ IsFiniteSet(MakersOf(pc, req))
  <2>1. LiveSet(nodes) \subseteq Ids /\ MakersOf(pc, req) \subseteq Threads
    BY DEF LiveSet, MakersOf
  <2>2. IsFiniteSet(Threads)
    BY TreeAssumption
  <2> QED
    BY <1>0, <2>1, <2>2, IdFacts, FS_Subset
<1>4. /\ Cardinality(LiveSet(nodes')) <= Cardinality(LiveSet(nodes))
      /\ Cardinality(MakersOf(pc', req')) <= Cardinality(MakersOf(pc, req))
      /\ Cardinality(LiveSet(nodes')) \in Nat /\ Cardinality(LiveSet(nodes)) \in Nat
      /\ Cardinality(MakersOf(pc', req')) \in Nat /\ Cardinality(MakersOf(pc, req)) \in Nat
  BY <1>2, <1>3, FS_Subset, FS_CardinalityType
<1>5. IdSpace \in Nat
  BY <1>0, IdFacts
<1> QED
  BY <1>4, <1>5 DEF RInv, RoomFor

\* What every step keeps: the invariant, and a node that is new has an id
\* and generation that no node had before.
Onward == RInv' /\ \A i \in Ids : Live(nodes', i) /\ ~Live(nodes, i) => <<i, gen'>> \notin given
LEMMA NoneNew ==
    ASSUME RInv', LiveSet(nodes') \subseteq LiveSet(nodes)
    PROVE  Onward
BY DEF Onward, LiveSet

\* A step that is not about lookups: the references, the lookups and the
\* load of the thread stay.
SameLoad(p0, r0, p, r) ==
    (p0 # "idle" /\ p # "idle" /\ r.entry = r0.entry /\ r.done = r0.done /\ (r.entry = 0 \/ r.n = r0.n))
      \/ ((p0 = "idle" \/ r0.entry = 0 \/ r0.done) /\ (p = "idle" \/ r.entry = 0 \/ r.done))
LEMMA SameLoadFacts ==
    ASSUME case \in Cases, NEW p0, NEW r0, NEW p, NEW r, SameLoad(p0, r0, p, r), NEW i \in Ids
    PROVE  Load(p, r, i) = Load(p0, r0, i)
<1>1. i # 0
  BY IdFacts
<1> QED
  BY <1>1 DEF SameLoad, Load, Carries
LEMMA CalmStep ==
    ASSUME LInv, RInv, NEW t, NEW p, NEW r, Moves(t, p, r), RStage(p, r),
           Table(nodes'), SameTree(nodes, nodes'), SameLoad(pc[t], req[t], p, r),
           Maker(p, r) => Maker(pc[t], req[t]), UNCHANGED <<klook, ctr, gen, given>>
    PROVE  Onward
<1>0. case \in Cases
  BY DEF LInv, Threading
<1>1. RefOK(nodes')
  BY <1>0, SameOK DEF RInv
<1>2. LiveSet(nodes') \subseteq LiveSet(nodes)
  BY DEF RInv, RefOK, Table, LiveSet, Live, SameTree
<1>3. RoomFor(nodes', pc', req')
  BY <1>2, RoomSame
<1>4. \A i \in Ids : Load(p, r, i) = Load(pc[t], req[t], i)
  BY <1>0, SameLoadFacts
<1>5. Balanced(t, p, r)
  BY <1>4 DEF Balanced, SameTree
<1>6. klook' \in [Ids -> Nat] /\ Numbered'
  BY DEF RInv, Numbered
<1> QED
  BY <1>1, <1>2, <1>3, <1>5, <1>6, RMoves, NoneNew

----------------------------------------------------------------------------
\* A request that has the same arguments and the same lookups, and one that
\* also has the same locks.
Alike(r0, r) ==
    /\ ReqOK(r) /\ r.op = r0.op /\ r.ino = r0.ino /\ r.name = r0.name /\ r.ino2 = r0.ino2
    /\ r.name2 = r0.name2 /\ r.victim = r0.victim /\ r.lock = r0.lock
    /\ r.n = r0.n /\ r.entry = r0.entry /\ r.done = r0.done
SameHold(r0, r) == r.held = r0.held /\ r.wnode = r0.wnode /\ r.wnode2 = r0.wnode2 /\ r.path = r0.path

LEMMA AlikeFacts ==
    ASSUME NEW r0, NEW r, Alike(r0, r)
    PROVE  /\ Shape(r) = Shape(r0) /\ (Args(r0) => Args(r)) /\ (PathErr(r) <=> PathErr(r0))
           /\ File(r) = File(r0)
           /\ \A p : (Loaded(p, r0) => Loaded(p, r)) /\ (Maker(p, r) <=> Maker(p, r0))
           /\ \A p0, p : p0 # "idle" /\ p # "idle" => SameLoad(p0, r0, p, r)
<1>1. Shape(r) = Shape(r0) /\ File(r) = File(r0)
  BY DEF Alike, Shape, File
<1>2. Args(r0) => Args(r)
  BY <1>1 DEF Alike, Args
<1>3. \A p : Loaded(p, r0) => Loaded(p, r)
  BY <1>1 DEF Alike, Loaded
<1>4. PathErr(r) <=> PathErr(r0)
  BY <1>1 DEF PathErr
<1>5. \A p : Maker(p, r) <=> Maker(p, r0)
  BY <1>1 DEF Maker
<1>6. \A p0, p : p0 # "idle" /\ p # "idle" => SameLoad(p0, r0, p, r)
  BY DEF Alike, SameLoad
<1> QED
  BY <1>1, <1>2, <1>3, <1>4, <1>5, <1>6

\* The forms that differ in a ticket, the locks, the mark or the hidden name.
LEMMA FormSame ==
    ASSUME NEW r0, ReqOK(r0)
    PROVE  Alike(r0, r0) /\ SameHold(r0, r0)
BY DEF Alike, SameHold
LEMMA FormTicket ==
    ASSUME NEW r0, ReqOK(r0), NEW a, NEW r, r = [r0 EXCEPT !.ticket = a]
    PROVE  Alike(r0, r) /\ SameHold(r0, r) /\ r.hide = r0.hide /\ r.killed = r0.killed
BY DEF Alike, SameHold, ReqOK, ReqKeys
LEMMA FormKilled ==
    ASSUME NEW r0, ReqOK(r0), NEW r, r = [r0 EXCEPT !.killed = TRUE]
    PROVE  Alike(r0, r) /\ SameHold(r0, r) /\ r.hide = r0.hide /\ r.killed = TRUE
BY DEF Alike, SameHold, ReqOK, ReqKeys
LEMMA FormHide ==
    ASSUME NEW r0, ReqOK(r0), NEW a, NEW r, r = [r0 EXCEPT !.hide = a]
    PROVE  Alike(r0, r) /\ SameHold(r0, r) /\ r.hide = a /\ r.killed = r0.killed
BY DEF Alike, SameHold, ReqOK, ReqKeys
LEMMA FormFreed ==
    ASSUME NEW r0, ReqOK(r0), NEW r, r = [r0 EXCEPT !.held = FALSE]
    PROVE  Alike(r0, r) /\ r.held = FALSE /\ r.hide = r0.hide /\ r.killed = r0.killed
BY DEF Alike, ReqOK, ReqKeys
WithLocks(r0, a, b, c, d) ==
    [r0 EXCEPT !.wnode = a, !.wnode2 = b, !.held = TRUE, !.ticket = c, !.path = d]
GrantedForm(r0, r, a, b, d) ==
    /\ Alike(r0, r) /\ r.held = TRUE /\ r.killed = r0.killed /\ r.wnode = a /\ r.wnode2 = b /\ r.path = d
LEMMA FormGranted ==
    ASSUME NEW r0, ReqOK(r0), NEW a, NEW b, NEW c, NEW d, NEW r, r = WithLocks(r0, a, b, c, d)
    PROVE  GrantedForm(r0, r, a, b, d)
<1>0. r = [r0 EXCEPT !.wnode = a, !.wnode2 = b, !.held = TRUE, !.ticket = c, !.path = d]
  BY DEF WithLocks
<1>1. ReqOK(r) /\ r.held = TRUE
  BY <1>0 DEF ReqOK, ReqKeys
<1>2. /\ r.op = r0.op /\ r.ino = r0.ino /\ r.name = r0.name /\ r.ino2 = r0.ino2
      /\ r.name2 = r0.name2 /\ r.victim = r0.victim /\ r.lock = r0.lock
      /\ r.n = r0.n /\ r.entry = r0.entry /\ r.done = r0.done
  BY <1>0 DEF ReqOK, ReqKeys
<1>3. r.killed = r0.killed /\ r.wnode = a /\ r.wnode2 = b /\ r.path = d
  BY <1>0 DEF ReqOK, ReqKeys
<1> QED
  BY <1>1, <1>2, <1>3 DEF Alike, GrantedForm

\* The forms that change the lookups of a thread.
Kin(r0, r) ==
    /\ ReqOK(r) /\ r.op = r0.op /\ r.ino = r0.ino /\ r.name = r0.name /\ r.ino2 = r0.ino2
    /\ r.name2 = r0.name2 /\ r.victim = r0.victim /\ r.lock = r0.lock /\ r.hide = r0.hide
    /\ r.killed = r0.killed /\ SameHold(r0, r)
LEMMA KinFacts ==
    ASSUME NEW r0, NEW r, Kin(r0, r)
    PROVE  /\ Shape(r) = Shape(r0) /\ (Args(r0) => Args(r)) /\ (PathErr(r) <=> PathErr(r0))
           /\ \A p : (Holding(p, r0) => Holding(p, r)) /\ (Maker(p, r) <=> Maker(p, r0))
<1>1. Shape(r) = Shape(r0)
  BY DEF Kin, Shape
<1>2. Args(r0) => Args(r)
  BY <1>1 DEF Kin, Args
<1>3. PathErr(r) <=> PathErr(r0)
  BY <1>1 DEF PathErr
<1>4. \A p : Holding(p, r0) => Holding(p, r)
  BY <1>3 DEF Kin, SameHold, Holding
<1>5. \A p : Maker(p, r) <=> Maker(p, r0)
  BY <1>1 DEF Maker
<1> QED
  BY <1>1, <1>2, <1>3, <1>4, <1>5
LEMMA FormDone ==
    ASSUME NEW r0, ReqOK(r0), NEW r, r = [r0 EXCEPT !.done = TRUE]
    PROVE  Kin(r0, r) /\ r.done = TRUE /\ r.n = r0.n /\ r.entry = r0.entry
BY DEF Kin, SameHold, ReqOK, ReqKeys
LEMMA FormLocked ==
    ASSUME NEW r0, ReqOK(r0), NEW r, r = [r0 EXCEPT !.n = 1]
    PROVE  Kin(r0, r) /\ r.done = r0.done /\ r.n = 1 /\ r.entry = r0.entry
BY DEF Kin, SameHold, ReqOK, ReqKeys
WithEntry(r0, i) == [r0 EXCEPT !.entry = i, !.n = 1]
LEMMA FormFound ==
    ASSUME NEW r0, ReqOK(r0), NEW i \in Ids \ {Root}, NEW r, r = WithEntry(r0, i)
    PROVE  Kin(r0, r) /\ r.done = r0.done /\ r.n = 1 /\ r.entry = i
BY DEF Kin, SameHold, ReqOK, ReqKeys, WithEntry
LEMMA FormForgotten ==
    ASSUME NEW r0, ReqOK(r0), NEW r, r = [r0 EXCEPT !.entry = 0]
    PROVE  Kin(r0, r) /\ r.done = r0.done /\ r.n = r0.n /\ r.entry = 0
BY DEF Kin, SameHold, ReqOK, ReqKeys

\* No request.
LEMMA NoReqStage ==
    ASSUME case \in Cases
    PROVE  RStage("idle", NoReq) /\ ~NoReq.held /\ ~NoReq.done /\ NoReq.entry = 0
<1>1. /\ ReqOK(NoReq) /\ NoReq.entry = 0 /\ NoReq.done = FALSE /\ NoReq.held = FALSE
  BY DEF NoReq, ReqOK, ReqKeys
<1> QED
  BY <1>1 DEF RStage, Loaded, Holding, Unfound

\* What is known of a thread.
LEMMA RFacts ==
    ASSUME LInv, RInv, NEW t \in Threads
    PROVE  /\ case \in Cases /\ RStage(pc[t], req[t]) /\ ReqOK(req[t]) /\ Loaded(pc[t], req[t])
           /\ Holding(pc[t], req[t]) /\ Stage(pc[t], req[t], case)
           /\ pc[t] # "idle" => Args(req[t]) /\ req[t].op \in DOMAIN fuse_path_ops
           /\ DOMAIN pc = Threads /\ DOMAIN req = Threads /\ Table(nodes) /\ RefOK(nodes)
           /\ req = [req EXCEPT ![t] = req[t]] /\ pc = [pc EXCEPT ![t] = pc[t]]
<1>1. RStage(pc[t], req[t]) /\ Table(nodes) /\ RefOK(nodes)
  BY DEF RInv, RefOK
<1>2. case \in Cases /\ DOMAIN pc = Threads /\ DOMAIN req = Threads /\ Stage(pc[t], req[t], case)
  BY ThreadFacts
<1>3. pc[t] # "idle" => req[t].op \in DOMAIN fuse_path_ops
  <2>1. case.sent \subseteq DOMAIN fuse_path_ops
    BY <1>2, TreeAssumption
  <2> QED
    BY <1>2, <2>1 DEF Stage
<1>4. req = [req EXCEPT ![t] = req[t]]
  BY ThreadFacts
<1>5. pc = [pc EXCEPT ![t] = pc[t]]
  <2>1. pc = [u \in Threads |-> pc[u]]
    BY DEF LInv, Threading
  <2> QED
    BY <2>1
<1> QED
  BY <1>1, <1>2, <1>3, <1>4, <1>5 DEF RStage

\* A thread goes on with a request like its own, or is done.
LEMMA AlikeStep ==
    ASSUME LInv, RInv, NEW t, NEW p, NEW r, Moves(t, p, r), Alike(req[t], r), pc[t] # "idle", p # "idle",
           Loaded(p, req[t]), Holding(p, r), p = "hiding" => r.hide # Null,
           Table(nodes'), SameTree(nodes, nodes'), Maker(p, req[t]) => Maker(pc[t], req[t]),
           UNCHANGED <<klook, ctr, gen, given>>
    PROVE  Onward
<1>0. t \in Threads
  BY DEF Moves
<1>1. Args(r) /\ Loaded(p, r) /\ SameLoad(pc[t], req[t], p, r) /\ (Maker(p, r) <=> Maker(p, req[t]))
  BY <1>0, AlikeFacts, RFacts
<1>2. RStage(p, r)
  BY <1>1 DEF RStage, Alike
<1> QED
  BY <1>1, <1>2, CalmStep
LEMMA RIdleStep ==
    ASSUME LInv, RInv, NEW t, Moves(t, "idle", NoReq), req[t].entry = 0 \/ req[t].done,
           Table(nodes'), SameTree(nodes, nodes'), UNCHANGED <<klook, ctr, gen, given>>
    PROVE  Onward
<1>0. case \in Cases
  BY DEF LInv, Threading
<1>1. RStage("idle", NoReq) /\ SameLoad(pc[t], req[t], "idle", NoReq) /\ ~Maker("idle", NoReq)
  BY <1>0, NoReqStage DEF SameLoad, Maker
<1> QED
  BY <1>1, CalmStep
LEMMA RAbortStep ==
    ASSUME LInv, RInv, NEW t \in Threads, NEW why, Abort(t, why), pc[t] # "idle", ~req[t].done,
           UNCHANGED <<klook, ctr, gen, given, case>>
    PROVE  Onward
<1>1. pc' = [pc EXCEPT ![t] = "aborted"] /\ req' = req /\ nodes' = nodes
  BY DEF Abort
<1>2. Moves(t, "aborted", req[t])
  BY <1>1, RFacts DEF Moves
<1>3. Alike(req[t], req[t]) /\ Loaded(pc[t], req[t]) /\ Table(nodes)
  BY FormSame, RFacts
<1>4. Loaded("aborted", req[t])
  BY <1>3 DEF Loaded, Unfound
<1>5. Holding("aborted", req[t]) /\ ~Maker("aborted", req[t])
  BY DEF Holding, Maker
<1>6. Table(nodes') /\ SameTree(nodes, nodes')
  BY <1>1, <1>3 DEF SameTree
<1> QED
  BY <1>2, <1>3, <1>4, <1>5, <1>6, AlikeStep

----------------------------------------------------------------------------
\* The steps, one handler after the other.
LEMMA RAttempt ==
    ASSUME LInv, RInv, NEW t \in Threads, NEW tk, Attempt(t, tk), pc[t] \in {"start", "wait"},
           UNCHANGED <<klook, ctr, gen, given, case>>
    PROVE  Onward
<1>0. /\ ReqOK(req[t]) /\ Loaded(pc[t], req[t]) /\ Holding(pc[t], req[t]) /\ case \in Cases
      /\ DOMAIN req = Threads /\ Table(nodes)
  BY RFacts
<1>1. PICK a : /\ a = TryLock(nodes, req[t], tk) /\ nodes' = a.ns
               /\ IF a.err = "EAGAIN"
                  THEN pc' = [pc EXCEPT ![t] = "wait"] /\ req' = [req EXCEPT ![t].ticket = tk]
                  ELSE Granted(t, a, tk)
  BY DEF Attempt
<1>2. Table(nodes') /\ SameTree(nodes, nodes')
  BY <1>0, <1>1, TryCalm, CalmFacts
<1>3. /\ req[t].entry = 0 /\ ~req[t].done /\ ~req[t].held /\ pc[t] # "idle"
      /\ \A p \in {"wait", "locked"} : Loaded(p, req[t]) /\ (Maker(p, req[t]) => Maker(pc[t], req[t]))
  BY <1>0 DEF Loaded, Holding, Unfound, Maker
<1>4. CASE a.err = "EAGAIN"
  <2>1. PICK r : r = [req[t] EXCEPT !.ticket = tk]
    OBVIOUS
  <2>2. Moves(t, "wait", r)
    BY <1>0, <1>1, <1>4, <2>1 DEF Moves
  <2>3. Alike(req[t], r) /\ SameHold(req[t], r)
    BY <1>0, <2>1, FormTicket
  <2>4. Holding("wait", r)
    BY <1>3, <2>3 DEF Holding, SameHold
  <2> QED
    BY <1>2, <1>3, <2>2, <2>3, <2>4, AlikeStep
<1>5. CASE a.err = ""
  <2>0. PICK w, w2, path : w = a.wnode /\ w2 = a.wnode2 /\ path = PathOf2(nodes, req[t])
    OBVIOUS
  <2>1. PICK r : r = WithLocks(req[t], w, w2, tk, path)
    OBVIOUS
  <2>2. Moves(t, "locked", r)
    BY <1>0, <1>1, <1>5, <2>0, <2>1 DEF Moves, Granted, WithLocks
  <2>3. Alike(req[t], r) /\ r.held = TRUE
    BY <1>0, <2>1, FormGranted DEF GrantedForm
  <2>4. Holding("locked", r)
    BY <2>3 DEF Holding
  <2> QED
    BY <1>2, <1>3, <2>2, <2>3, <2>4, AlikeStep
<1>6. CASE a.err \notin {"EAGAIN", ""} /\ PathErr(req[t])
  <2>2. Moves(t, "locked", req[t])
    BY <1>0, <1>1, <1>6 DEF Moves, Granted
  <2>3. Alike(req[t], req[t])
    BY <1>0, FormSame
  <2>4. Holding("locked", req[t])
    BY <1>3, <1>6 DEF Holding
  <2> QED
    BY <1>2, <1>3, <2>2, <2>3, <2>4, AlikeStep
<1>7. CASE a.err \notin {"EAGAIN", ""} /\ ~PathErr(req[t])
  <2>2. Moves(t, "idle", NoReq)
    BY <1>0, <1>1, <1>7 DEF Moves, Granted
  <2> QED
    BY <1>2, <1>3, <2>2, RIdleStep
<1> QED
  BY <1>4, <1>5, <1>6, <1>7
LEMMA RPath ==
    ASSUME LInv, RInv, NEW t \in Threads, get_path_common(t) \/ get_path_retry(t)
    PROVE  Onward
<1>1. UNCHANGED <<klook, ctr, gen, given, case>> /\ pc[t] \in {"start", "wait"}
  BY DEF get_path_common, get_path_retry, kvars
<1>2. (\E tk : Attempt(t, tk)) \/ Abort(t, "get_node")
  BY DEF get_path_common, get_path_retry
<1>3. ~req[t].done
  BY <1>1, RFacts DEF Loaded
<1> QED
  BY <1>1, <1>2, <1>3, RAttempt, RAbortStep

\* free_path: only the locks change.
LEMMA FreeCalm ==
    ASSUME LInv, RInv, NEW t \in Threads, free_path(t)
    PROVE  Calm(nodes, nodes') /\ Table(nodes') /\ SameTree(nodes, nodes')
<1>1. Table(nodes) /\ case \in Cases
  BY RFacts
<1>2. nodes' = nodes \/ nodes' = UnlockAll(nodes, req[t])
  BY DEF free_path
<1>3. Calm(nodes, nodes')
  BY <1>1, <1>2, CalmSame, UnlockAllCalm
<1> QED
  BY <1>3, CalmFacts
LEMMA RFree ==
    ASSUME LInv, RInv, NEW t \in Threads, free_path(t)
    PROVE  Onward
<1>0. /\ ReqOK(req[t]) /\ Loaded(pc[t], req[t]) /\ case \in Cases /\ DOMAIN req = Threads
      /\ (pc[t] # "idle" => req[t].op \in DOMAIN fuse_path_ops)
  BY RFacts
<1>1. UNCHANGED <<klook, ctr, gen, given, case>>
  BY DEF free_path, kvars
<1>2. pc[t] = "free" \/ (pc[t] = "locked" /\ Shape(req[t]) \in {"path", "nullok", "always"})
  BY DEF free_path
<1>3. Table(nodes') /\ SameTree(nodes, nodes')
  BY FreeCalm
<1>4. /\ pc' = [pc EXCEPT ![t] = AfterFree(req[t])]
      /\ req' = [req EXCEPT ![t] = IF AfterFree(req[t]) = "idle" THEN NoReq
                                   ELSE [req[t] EXCEPT !.held = FALSE]]
  BY <1>0 DEF free_path
<1>5. pc[t] # "idle" /\ (pc[t] = "locked" => req[t].entry = 0 /\ ~req[t].done)
      /\ (Shape(req[t]) \in {"entry", "link", "lock"} => ~req[t].done)
  BY <1>0, <1>2 DEF Loaded, Unfound
<1>6. CASE AfterFree(req[t]) = "idle"
  <2>1. Moves(t, "idle", NoReq)
    BY <1>1, <1>4, <1>6 DEF Moves
  <2>2. req[t].entry = 0 \/ req[t].done
    BY <1>0, <1>2, <1>5, <1>6 DEF AfterFree, Loaded
  <2> QED
    BY <1>1, <1>3, <2>1, <2>2, RIdleStep
<1>7. CASE AfterFree(req[t]) \in {"reply", "insert"}
  <2>1. PICK r, p : r = [req[t] EXCEPT !.held = FALSE] /\ p = AfterFree(req[t])
    OBVIOUS
  <2>2. Moves(t, p, r)
    BY <1>1, <1>4, <1>7, <2>1 DEF Moves
  <2>3. Alike(req[t], r) /\ ~r.held
    BY <1>0, <2>1, FormFreed
  <2>4. Loaded(p, req[t])
    <3>1. CASE p = "reply"
      <4>1. Shape(req[t]) \in {"entry", "link"} /\ req[t].entry # 0
        BY <2>1, <3>1 DEF AfterFree
      <4>2. pc[t] = "free" /\ ~req[t].done /\ req[t].n = 1
        BY <1>0, <1>2, <1>5, <4>1 DEF Loaded
      <4> QED
        BY <3>1, <4>1, <4>2 DEF Loaded, Unfound
    <3>2. CASE p = "insert"
      <4>1. req[t].op = "setlk"
        BY <2>1, <3>2 DEF AfterFree
      <4>2. Shape(req[t]) = "lock"
        BY <4>1, ShapeOf DEF Shape
      <4>3. ~req[t].done /\ req[t].entry = 0
        BY <1>0, <1>2, <1>5, <4>2 DEF Loaded
      <4> QED
        BY <3>2, <4>3 DEF Loaded, Unfound
    <3> QED
      BY <1>7, <2>1, <3>1, <3>2
  <2>5. Holding(p, r) /\ ~Maker(p, req[t]) /\ p # "idle" /\ p # "hiding"
    BY <1>7, <2>1, <2>3 DEF Holding, Maker
  <2> QED
    BY <1>1, <1>3, <1>5, <2>2, <2>3, <2>4, <2>5, AlikeStep
<1> QED
  BY <1>6, <1>7 DEF AfterFree

\* Handlers that touch neither the table nor the request.
LEMMA RPlain ==
    ASSUME LInv, RInv, NEW t \in Threads, NEW p, pc' = [pc EXCEPT ![t] = p], UNCHANGED <<fvars, kvars, req>>,
           pc[t] # "idle", p # "idle", p # "hiding", Loaded(p, req[t]), Holding(p, req[t]), ~Maker(p, req[t])
    PROVE  Onward
<1>1. Moves(t, p, req[t])
  BY RFacts DEF Moves, kvars
<1>2. Alike(req[t], req[t]) /\ Table(nodes') /\ SameTree(nodes, nodes')
  BY FormSame, RFacts DEF SameTree, fvars
<1>3. UNCHANGED <<klook, ctr, gen, given>>
  BY DEF fvars, kvars
<1> QED
  BY <1>1, <1>2, <1>3, AlikeStep
LEMMA ROpen ==
    ASSUME LInv, RInv, NEW t \in Threads, fuse_lib_open(t) \/ CreateNotRegular(t) \/ IsOpen(t)
    PROVE  Onward
<1>0. /\ Loaded(pc[t], req[t]) /\ Holding(pc[t], req[t])
      /\ (pc[t] # "idle" => req[t].op \in DOMAIN fuse_path_ops)
  BY RFacts
<1>1. CASE fuse_lib_open(t)
  <2>1. PICK p \in {"found", "free"} : pc' = [pc EXCEPT ![t] = p]
    BY <1>1 DEF fuse_lib_open
  <2>2. pc[t] = "locked" /\ Shape(req[t]) = "open" /\ UNCHANGED <<fvars, kvars, req>>
    BY <1>1 DEF fuse_lib_open
  <2>3. req[t].op # "create"
    BY <2>2, ShapeOf DEF Shape
  <2>4. req[t].held /\ req[t].entry = 0 /\ ~req[t].done
    BY <1>0, <2>2 DEF Holding, PathErr, Loaded, Unfound
  <2>5. Loaded(p, req[t]) /\ Holding(p, req[t]) /\ ~Maker(p, req[t])
    BY <2>1, <2>3, <2>4 DEF Holding, Loaded, Unfound, Maker
  <2> QED
    BY <2>1, <2>2, <2>5, RPlain
<1>2. CASE CreateNotRegular(t)
  <2>1. /\ pc[t] = "found" /\ req[t].op = "create" /\ pc' = [pc EXCEPT ![t] = "forget"]
        /\ UNCHANGED <<fvars, kvars, req>>
    BY <1>2 DEF CreateNotRegular
  <2>2. Loaded("forget", req[t]) /\ Holding("forget", req[t]) /\ ~Maker("forget", req[t])
    BY <1>0, <2>1 DEF Holding, Loaded, Unfound, Maker
  <2> QED
    BY <2>1, <2>2, RPlain
<1>3. CASE IsOpen(t)
  <2>1. PICK p \in {"hide", "change"} : pc' = [pc EXCEPT ![t] = p]
    BY <1>3 DEF IsOpen
  <2>2. pc[t] = "locked" /\ Shape(req[t]) \in {"unlink", "rmdir", "rename"} /\ UNCHANGED <<fvars, kvars, req>>
    BY <1>3 DEF IsOpen
  <2>3. Loaded(p, req[t]) /\ Holding(p, req[t]) /\ ~Maker(p, req[t])
    BY <1>0, <2>1, <2>2 DEF Holding, Loaded, Unfound, Maker, PathErr
  <2> QED
    BY <2>1, <2>2, <2>3, RPlain
<1> QED
  BY <1>1, <1>2, <1>3

\* hidden_name.
LEMMA RHideName ==
    ASSUME LInv, RInv, NEW t \in Threads, hidden_name(t)
    PROVE  Onward
<1>0. /\ Loaded(pc[t], req[t]) /\ Holding(pc[t], req[t]) /\ ReqOK(req[t]) /\ DOMAIN req = Threads
      /\ Table(nodes) /\ req = [req EXCEPT ![t] = req[t]]
  BY RFacts
<1>1. pc[t] = "hide" /\ UNCHANGED <<nodes, klook, ctr, gen, given, case>>
  BY DEF hidden_name, kvars
<1>2. Table(nodes') /\ SameTree(nodes, nodes')
  BY <1>0, <1>1 DEF SameTree
<1>3. req[t].held /\ req[t].entry = 0 /\ ~req[t].done
  BY <1>0, <1>1 DEF Holding, Loaded, Unfound
<1>4. \A p \in {"hiding", "free"} : Loaded(p, req[t]) /\ Holding(p, req[t]) /\ ~Maker(p, req[t])
  BY <1>3 DEF Loaded, Unfound, Holding, Maker
<1>5. CASE pc' = [pc EXCEPT ![t] = "free"] /\ req' = req
  <2>1. Moves(t, "free", req[t])
    BY <1>0, <1>1, <1>5 DEF Moves
  <2>2. Alike(req[t], req[t])
    BY <1>0, FormSame
  <2> QED
    BY <1>1, <1>2, <1>4, <2>1, <2>2, AlikeStep
<1>6. CASE req' = [req EXCEPT ![t].hide = Hidden(hidectr + 1)] /\ pc' = [pc EXCEPT ![t] = "hiding"]
  <2>0. PICK h : h = Hidden(hidectr + 1)
    OBVIOUS
  <2>1. PICK r : r = [req[t] EXCEPT !.hide = h]
    OBVIOUS
  <2>2. Moves(t, "hiding", r)
    BY <1>0, <1>1, <1>6, <2>0, <2>1 DEF Moves
  <2>3. Alike(req[t], r) /\ SameHold(req[t], r) /\ r.hide = h
    BY <1>0, <2>1, FormHide
  <2>4. h # Null
    BY <2>0 DEF Hidden, Null
  <2>5. Holding("hiding", r)
    BY <1>3, <2>3 DEF Holding, SameHold
  <2> QED
    BY <1>1, <1>2, <1>4, <2>2, <2>3, <2>4, <2>5, AlikeStep
<1> QED
  BY <1>5, <1>6 DEF hidden_name

\* The count of opens.
WithOpen(ns, i, k, b) == [ns EXCEPT ![i].open = k, ![i].hidden = b]
LEMMA OpenIs ==
    ASSUME NEW ns, Table(ns), NEW i \in Ids, NEW k \in Nat, NEW b \in BOOLEAN,
           NEW ms, ms = WithOpen(ns, i, k, b)
    PROVE  /\ Table(ms) /\ SameTree(ns, ms) /\ ms[i].open = k /\ ms[i].hidden = b
           /\ ms[i].treelock = ns[i].treelock /\ \A j \in Ids \ {i} : ms[j] = ns[j]
<1>1. DOMAIN ns = Ids /\ NodeOK(ns[i])
  BY DEF Table
<1>2. /\ NodeOK(ms[i]) /\ ms[i].open = k /\ ms[i].hidden = b /\ ms[i].parent = ns[i].parent
      /\ ms[i].name = ns[i].name /\ ms[i].refctr = ns[i].refctr /\ ms[i].nlookup = ns[i].nlookup
      /\ ms[i].treelock = ns[i].treelock
  BY <1>1 DEF NodeOK, NodeKeys, WithOpen
<1>3. DOMAIN ms = Ids /\ \A j \in Ids \ {i} : ms[j] = ns[j]
  BY <1>1 DEF WithOpen
<1> QED
  BY <1>2, <1>3 DEF Table, SameTree

\* The node of an open file has an id.
LEMMA FileId ==
    ASSUME LInv, RInv, NEW t \in Threads,
           pc[t] \in {"found", "opened", "release", "unhide"} \/ (pc[t] = "locked" /\ Shape(req[t]) = "release")
    PROVE  /\ File(req[t]) \in Ids /\ ~req[t].done
           /\ IF req[t].op = "create" THEN req[t].entry # 0 /\ req[t].n = 1 ELSE req[t].entry = 0
<1>0. /\ ReqOK(req[t]) /\ Loaded(pc[t], req[t]) /\ Args(req[t]) /\ Stage(pc[t], req[t], case)
      /\ req[t].op \in DOMAIN fuse_path_ops
  BY RFacts
<1>1. req[t].op = "create" <=> Shape(req[t]) = "create"
  BY <1>0, ShapeNames DEF Shape
<1>2. ~req[t].done
  BY <1>0 DEF Loaded
<1>3. IF req[t].op = "create" THEN req[t].entry # 0 /\ req[t].n = 1 ELSE req[t].entry = 0
  BY <1>0, <1>1 DEF Loaded, Unfound
<1>4. Shape(req[t]) # "forget"
  BY <1>0 DEF Stage
<1>5. File(req[t]) \in Ids
  BY <1>0, <1>3, <1>4 DEF File, ReqOK, Args
<1> QED
  BY <1>2, <1>3, <1>5

LEMMA RCountOpen ==
    ASSUME LInv, RInv, NEW t \in Threads, CountOpen(t)
    PROVE  Onward
<1>0. /\ Loaded(pc[t], req[t]) /\ Holding(pc[t], req[t]) /\ ReqOK(req[t]) /\ case \in Cases
      /\ Table(nodes) /\ req = [req EXCEPT ![t] = req[t]]
  BY RFacts
<1>1. pc[t] = "found" /\ UNCHANGED <<klook, ctr, gen, given, case>>
  BY DEF CountOpen, kvars
<1>2. PICK i : i = File(req[t])
  OBVIOUS
<1>3. i \in Ids /\ ~req[t].done
  BY <1>1, <1>2, FileId
<1>4. CASE Abort(t, "get_node")
  BY <1>1, <1>3, <1>4, RAbortStep
<1>5. CASE /\ nodes' = [nodes EXCEPT ![i].open = @ + 1]
           /\ pc' = [pc EXCEPT ![t] = "opened"] /\ req' = req
  <2>1. PICK k, b : k = nodes[i].open + 1 /\ b = nodes[i].hidden
    OBVIOUS
  <2>2. k \in Nat /\ b \in BOOLEAN /\ NodeOK(nodes[i]) /\ DOMAIN nodes = Ids
    BY <1>0, <1>3, <2>1 DEF Table, NodeOK
  <2>3. nodes'[i] = [nodes[i] EXCEPT !.open = k]
    BY <1>3, <1>5, <2>1, <2>2
  <2>4. /\ NodeOK(nodes'[i]) /\ nodes'[i].parent = nodes[i].parent /\ nodes'[i].name = nodes[i].name
        /\ nodes'[i].refctr = nodes[i].refctr /\ nodes'[i].nlookup = nodes[i].nlookup
    BY <2>2, <2>3 DEF NodeOK, NodeKeys
  <2>5. DOMAIN nodes' = Ids /\ \A j \in Ids \ {i} : nodes'[j] = nodes[j]
    BY <1>5, <2>2
  <2>6. Table(nodes') /\ SameTree(nodes, nodes')
    BY <1>0, <2>4, <2>5 DEF Table, SameTree
  <2>7. Moves(t, "opened", req[t])
    BY <1>0, <1>1, <1>5 DEF Moves
  <2>8. Alike(req[t], req[t]) /\ Loaded("opened", req[t]) /\ Holding("opened", req[t]) /\ ~Maker("opened", req[t])
    BY <1>0, <1>1, FormSame DEF Loaded, Unfound, Holding, Maker
  <2> QED
    BY <1>1, <2>6, <2>7, <2>8, AlikeStep
<1> QED
  BY <1>2, <1>4, <1>5 DEF CountOpen

LEMMA RRelease ==
    ASSUME LInv, RInv, NEW t \in Threads, fuse_do_release(t)
    PROVE  Onward
<1>0. /\ Loaded(pc[t], req[t]) /\ Holding(pc[t], req[t]) /\ ReqOK(req[t]) /\ case \in Cases
      /\ Table(nodes) /\ req = [req EXCEPT ![t] = req[t]]
  BY RFacts
<1>1. /\ pc[t] = "release" \/ (pc[t] = "locked" /\ Shape(req[t]) = "release")
      /\ UNCHANGED <<klook, ctr, gen, given, case>>
  BY DEF fuse_do_release, kvars
<1>2. PICK i : i = File(req[t])
  OBVIOUS
<1>3. /\ i \in Ids /\ ~req[t].done
      /\ IF req[t].op = "create" THEN req[t].entry # 0 /\ req[t].n = 1 ELSE req[t].entry = 0
  BY <1>1, <1>2, FileId
<1>4. CASE Abort(t, "fuse_do_release")
  BY <1>1, <1>3, <1>4, RAbortStep
<1>5. CASE ~(~Live(nodes, i) \/ nodes[i].open = 0)
  <2>1. /\ nodes' = [nodes EXCEPT ![i].open = @ - 1, ![i].hidden = @ /\ ~LastOpen(nodes[i])]
        /\ pc' = [pc EXCEPT ![t] = IF LastOpen(nodes[i]) /\ req[t].held THEN "unhide" ELSE AfterRelease(req[t])]
        /\ req' = req
    BY <1>2, <1>5 DEF fuse_do_release
  <2>2. NodeOK(nodes[i]) /\ DOMAIN nodes = Ids
    BY <1>0, <1>3 DEF Table
  <2>3. PICK k, b : k = nodes[i].open - 1 /\ b = (nodes[i].hidden /\ ~LastOpen(nodes[i]))
    OBVIOUS
  <2>4. k \in Nat /\ b \in BOOLEAN
    BY <1>5, <2>2, <2>3 DEF NodeOK
  <2>5. nodes' = WithOpen(nodes, i, k, b)
    BY <1>3, <2>1, <2>2, <2>3 DEF WithOpen
  <2>6. Table(nodes') /\ SameTree(nodes, nodes')
    BY <1>0, <1>3, <2>4, <2>5, OpenIs
  <2>7. PICK p : pc' = [pc EXCEPT ![t] = p] /\ p \in {"unhide", AfterRelease(req[t])}
    BY <2>1
  <2>8. Moves(t, p, req[t])
    BY <1>0, <1>1, <2>1, <2>7 DEF Moves
  <2>9. p = "unhide" \/ (p = "forget" /\ req[t].op = "create") \/ (p = "free" /\ req[t].op # "create")
    BY <2>7 DEF AfterRelease
  <2>10. Alike(req[t], req[t])
    BY <1>0, FormSame
  <2>11. Loaded(p, req[t])
    BY <1>3, <2>9 DEF Loaded, Unfound
  <2>12. Holding(p, req[t]) /\ ~Maker(p, req[t]) /\ p # "hiding" /\ p # "idle" /\ pc[t] # "idle"
    BY <1>1, <2>9 DEF Holding, Maker
  <2> QED
    BY <1>1, <2>6, <2>8, <2>10, <2>11, <2>12, AlikeStep
<1> QED
  BY <1>2, <1>4, <1>5 DEF fuse_do_release

\* A lookup goes from the thread to the kernel.
LEMMA RHandsOver ==
    ASSUME LInv, RInv, NEW t, NEW p, NEW r, Moves(t, p, r), RStage(p, r), ~Maker(p, r),
           NEW i \in Ids \ {Root}, pc[t] # "idle", req[t].entry = i, req[t].n = 1, ~req[t].done,
           p = "idle" \/ r.entry = 0 \/ r.done,
           klook' = [klook EXCEPT ![i] = @ + 1], UNCHANGED <<nodes, ctr, gen, given>>
    PROVE  Onward
<1>0. case \in Cases
  BY DEF LInv, Threading
<1>1. klook' \in [Ids -> Nat] /\ klook'[i] = klook[i] + 1 /\ \A j \in Ids \ {i} : klook'[j] = klook[j]
  BY DEF RInv
<1>2. \A j \in Ids \ {Root} : /\ Load(p, r, j) = 0
                             /\ Load(pc[t], req[t], j) = IF j = i THEN 1 ELSE 0
  BY <1>0, IdFacts DEF Load, Carries
<1>3. \A j \in Ids : klook[j] \in Nat /\ nodes[j].nlookup \in Nat
  BY DEF RInv, RefOK, Table, NodeOK
<1>4. Balanced(t, p, r)
  BY <1>1, <1>2, <1>3 DEF Balanced
<1>5. RoomFor(nodes', pc', req')
  BY RoomSame
<1>6. RefOK(nodes') /\ Numbered'
  BY DEF RInv, Numbered
<1> QED
  BY <1>1, <1>4, <1>5, <1>6, RMoves, NoneNew

LEMMA RReplyEntry ==
    ASSUME LInv, RInv, NEW t \in Threads, reply_entry(t)
    PROVE  Onward
<1>0. /\ Loaded(pc[t], req[t]) /\ Holding(pc[t], req[t]) /\ ReqOK(req[t]) /\ case \in Cases
      /\ (pc[t] # "idle" => req[t].op \in DOMAIN fuse_path_ops)
  BY RFacts
<1>1. pc[t] = "reply" /\ Shape(req[t]) \in {"entry", "link"} /\ UNCHANGED <<nodes, ctr, gen, given, case>>
  BY DEF reply_entry, fvars
<1>2. req[t].op # "forget"
  BY <1>1, ShapeOf DEF Shape
<1>3. req[t].entry \in Ids \ {Root} /\ req[t].n = 1 /\ ~req[t].done /\ ~req[t].held
  BY <1>0, <1>1, <1>2 DEF Loaded, ReqOK, Holding
<1>4. CASE req[t].killed
  <2>1. pc' = [pc EXCEPT ![t] = "forget"] /\ UNCHANGED <<fvars, kvars, req>>
    BY <1>4 DEF reply_entry, kvars
  <2>2. Loaded("forget", req[t]) /\ Holding("forget", req[t]) /\ ~Maker("forget", req[t])
    BY <1>0, <1>3, IdFacts DEF Loaded, Unfound, Holding, Maker
  <2> QED
    BY <1>1, <2>1, <2>2, RPlain
<1>5. CASE ~req[t].killed
  <2>1. /\ pc' = [pc EXCEPT ![t] = "idle"] /\ req' = [req EXCEPT ![t] = NoReq]
        /\ klook' = [klook EXCEPT ![req[t].entry] = @ + 1]
    BY <1>5 DEF reply_entry
  <2>2. Moves(t, "idle", NoReq)
    BY <1>1, <2>1 DEF Moves
  <2>3. RStage("idle", NoReq) /\ ~Maker("idle", NoReq)
    BY <1>0, NoReqStage DEF Maker
  <2>4. PICK i : i = req[t].entry
    OBVIOUS
  <2> QED
    BY <1>1, <1>3, <2>1, <2>2, <2>3, <2>4, RHandsOver
<1> QED
  BY <1>4, <1>5

LEMMA RReplyOpen ==
    ASSUME LInv, RInv, NEW t \in Threads, reply_open(t)
    PROVE  Onward
<1>0. /\ Loaded(pc[t], req[t]) /\ Holding(pc[t], req[t]) /\ ReqOK(req[t]) /\ case \in Cases /\ DOMAIN req = Threads
      /\ Args(req[t]) /\ Stage(pc[t], req[t], case) /\ Table(nodes)
  BY RFacts DEF reply_open
<1>1. pc[t] = "opened" /\ UNCHANGED <<nodes, ctr, gen, given, case>>
  BY DEF reply_open, fvars
<1>2. /\ ~req[t].done /\ req[t].held /\ Shape(req[t]) \in {"open", "create"}
      /\ IF req[t].op = "create" THEN req[t].entry # 0 /\ req[t].n = 1 ELSE req[t].entry = 0
  BY <1>0, <1>1, FileId DEF Holding, Stage
<1>3. CASE req[t].killed
  <2>1. pc' = [pc EXCEPT ![t] = "release"] /\ UNCHANGED <<fvars, kvars, req>>
    BY <1>3 DEF reply_open, kvars
  <2>2. Loaded("release", req[t]) /\ Holding("release", req[t]) /\ ~Maker("release", req[t])
    BY <1>2 DEF Loaded, Unfound, Holding, Maker
  <2> QED
    BY <1>1, <2>1, <2>2, RPlain
<1>4. CASE ~req[t].killed
  <2>1. PICK r : r = [req[t] EXCEPT !.done = TRUE]
    OBVIOUS
  <2>2. Moves(t, "free", r)
    BY <1>0, <1>1, <1>4, <2>1 DEF Moves, reply_open
  <2>3. Kin(req[t], r) /\ r.done = TRUE
    BY <1>0, <2>1, FormDone
  <2>4. Shape(r) = Shape(req[t]) /\ Args(r) /\ ~Maker("free", r)
    BY <1>0, <2>3, KinFacts DEF Maker
  <2>5. RStage("free", r)
    <3>1. Loaded("free", r)
      BY <1>2, <2>3, <2>4 DEF Loaded, Unfound
    <3>2. Holding("free", r)
      BY <1>2, <2>3 DEF Holding
    <3> QED
      BY <2>3, <2>4, <3>1, <3>2 DEF RStage, Kin
  <2>6. CASE req[t].op = "create"
    <3>1. PICK i : i = req[t].entry
      OBVIOUS
    <3>2. i \in Ids \ {Root} /\ req[t].n = 1
      BY <1>0, <1>2, <2>6, <3>1 DEF ReqOK
    <3>3. klook' = [klook EXCEPT ![i] = @ + 1]
      BY <1>4, <2>6, <3>1 DEF reply_open
    <3> QED
      BY <1>1, <1>2, <2>2, <2>3, <2>4, <2>5, <3>1, <3>2, <3>3, RHandsOver
  <2>7. CASE req[t].op # "create"
    <3>1. klook' = klook
      BY <1>4, <2>7 DEF reply_open
    <3>2. SameLoad(pc[t], req[t], "free", r)
      BY <1>2, <2>3, <2>7 DEF SameLoad
    <3>3. Table(nodes') /\ SameTree(nodes, nodes')
      BY <1>0, <1>1 DEF SameTree
    <3> QED
      BY <1>1, <2>2, <2>4, <2>5, <3>1, <3>2, <3>3, CalmStep
  <2> QED
    BY <2>6, <2>7
<1> QED
  BY <1>3, <1>4

\* A thread that goes on with the same request, and the same tree.
LEMMA RGoesOn ==
    ASSUME LInv, RInv, NEW t \in Threads, NEW p, pc' = [pc EXCEPT ![t] = p], req' = req,
           Table(nodes'), SameTree(nodes, nodes'),
           UNCHANGED <<klook, ctr, gen, given, case>>, pc[t] # "idle", p # "idle", p # "hiding",
           Loaded(p, req[t]), Holding(p, req[t]), Maker(p, req[t]) => Maker(pc[t], req[t])
    PROVE  Onward
<1>1. Moves(t, p, req[t])
  BY RFacts DEF Moves
<1>2. Alike(req[t], req[t])
  BY FormSame, RFacts
<1> QED
  BY <1>1, <1>2, AlikeStep

LEMMA RUnhide ==
    ASSUME LInv, RInv, NEW t \in Threads, UnlinkHidden(t)
    PROVE  Onward
<1>0. Loaded(pc[t], req[t]) /\ Table(nodes)
  BY RFacts
<1>1. pc[t] = "unhide" /\ UNCHANGED <<nodes, req, klook, ctr, gen, given, case>>
  BY DEF UnlinkHidden, fvars
<1>2. PICK p : p = AfterRelease(req[t]) /\ pc' = [pc EXCEPT ![t] = p]
  BY DEF UnlinkHidden
<1>3. /\ ~req[t].done
      /\ IF req[t].op = "create" THEN req[t].entry # 0 /\ req[t].n = 1 ELSE req[t].entry = 0
  BY <1>1, FileId
<1>4. (p = "forget" /\ req[t].op = "create") \/ (p = "free" /\ req[t].op # "create")
  BY <1>2 DEF AfterRelease
<1>5. Loaded(p, req[t]) /\ Holding(p, req[t]) /\ ~Maker(p, req[t]) /\ p # "idle" /\ p # "hiding"
  BY <1>3, <1>4 DEF Loaded, Unfound, Holding, Maker
<1>6. Table(nodes') /\ SameTree(nodes, nodes')
  BY <1>0, <1>1 DEF SameTree
<1> QED
  BY <1>1, <1>2, <1>5, <1>6, RGoesOn

\* Locks of files.
LEMMA RGetlk ==
    ASSUME LInv, RInv, NEW t \in Threads, fuse_lib_getlk(t)
    PROVE  Onward
<1>0. /\ Loaded(pc[t], req[t]) /\ Holding(pc[t], req[t]) /\ Table(nodes) /\ case \in Cases
  BY RFacts
<1>1. pc[t] = "getlk" /\ UNCHANGED <<klook, ctr, gen, given, case>>
  BY DEF fuse_lib_getlk, kvars
<1>2. req[t].entry = 0 /\ ~req[t].done /\ ~req[t].held
  BY <1>0, <1>1 DEF Loaded, Unfound, Holding
<1>3. CASE Abort(t, "get_node")
  BY <1>1, <1>2, <1>3, RAbortStep
<1>4. CASE pc' = [pc EXCEPT ![t] = "idle"] /\ req' = [req EXCEPT ![t] = NoReq] /\ nodes' = nodes
  <2>1. Moves(t, "idle", NoReq) /\ Table(nodes') /\ SameTree(nodes, nodes')
    BY <1>0, <1>1, <1>4 DEF Moves, SameTree
  <2> QED
    BY <1>1, <1>2, <2>1, RIdleStep
<1>5. CASE pc' = [pc EXCEPT ![t] = "start"] /\ req' = req /\ nodes' = nodes
  <2>1. Table(nodes') /\ SameTree(nodes, nodes')
    BY <1>0, <1>5 DEF SameTree
  <2>2. Shape(req[t]) = "lock"
    BY <1>0, <1>1 DEF Loaded
  <2>3. Loaded("start", req[t]) /\ Holding("start", req[t]) /\ ~Maker("start", req[t])
    BY <1>2, <2>2 DEF Loaded, Unfound, Holding, Maker
  <2> QED
    BY <1>1, <1>5, <2>1, <2>3, RGoesOn
<1> QED
  BY <1>3, <1>4, <1>5 DEF fuse_lib_getlk
LEMMA RLockCommon ==
    ASSUME LInv, RInv, NEW t \in Threads, fuse_lock_common(t)
    PROVE  Onward
<1>0. /\ Loaded(pc[t], req[t]) /\ Holding(pc[t], req[t]) /\ ReqOK(req[t]) /\ Table(nodes) /\ DOMAIN req = Threads
      /\ (pc[t] # "idle" => Args(req[t]))
  BY RFacts
<1>1. /\ pc[t] = "locked" /\ Shape(req[t]) = "lock" /\ pc' = [pc EXCEPT ![t] = "free"]
      /\ UNCHANGED <<nodes, klook, ctr, gen, given, case>>
  BY DEF fuse_lock_common, fvars
<1>2. req[t].entry = 0 /\ ~req[t].done
  BY <1>0, <1>1 DEF Loaded, Unfound
<1>3. Table(nodes') /\ SameTree(nodes, nodes')
  BY <1>0, <1>1 DEF SameTree
<1>4. CASE req' = req
  <2>1. Loaded("free", req[t]) /\ Holding("free", req[t]) /\ ~Maker("free", req[t])
    BY <1>2 DEF Loaded, Unfound, Holding, Maker
  <2> QED
    BY <1>1, <1>3, <1>4, <2>1, RGoesOn
<1>5. CASE req' = [req EXCEPT ![t].n = 1]
  <2>1. PICK r : r = [req[t] EXCEPT !.n = 1]
    OBVIOUS
  <2>2. Moves(t, "free", r)
    BY <1>0, <1>1, <1>5, <2>1 DEF Moves
  <2>3. Kin(req[t], r) /\ r.done = req[t].done /\ r.entry = req[t].entry
    BY <1>0, <2>1, FormLocked
  <2>4. Args(r) /\ ~Maker("free", r)
    BY <1>0, <1>1, <2>3, KinFacts DEF Maker
  <2>5. Loaded("free", r) /\ Holding("free", r) /\ ReqOK(r)
    BY <1>2, <2>3 DEF Loaded, Unfound, Holding, Kin
  <2>6. RStage("free", r)
    BY <2>4, <2>5 DEF RStage
  <2>7. SameLoad(pc[t], req[t], "free", r)
    BY <1>1, <1>2, <2>3 DEF SameLoad
  <2> QED
    BY <1>1, <1>3, <2>2, <2>4, <2>6, <2>7, CalmStep
<1> QED
  BY <1>4, <1>5 DEF fuse_lock_common

\* Where a thread goes after the locks of an owner.
LEMMA AfterFlushes ==
    ASSUME LInv, RInv, NEW t \in Threads, NEW p, p = AfterFlush(req[t]), req[t].op # "setlk",
           pc[t] \in {"locked", "insert"}, Shape(req[t]) \in {"lock", "flush", "release"}
    PROVE  Loaded(p, req[t]) /\ Holding(p, req[t]) /\ ~Maker(p, req[t]) /\ p \in {"free", "release"}
<1>0. Loaded(pc[t], req[t])
  BY RFacts
<1>1. req[t].entry = 0 /\ ~req[t].done
  BY <1>0 DEF Loaded, Unfound
<1>2. p = "free" \/ p = "release"
  BY DEF AfterFlush
<1>3. req[t].op # "create"
  BY ShapeOf DEF Shape
<1> QED
  BY <1>1, <1>2, <1>3 DEF Loaded, Unfound, Holding, Maker

LEMMA RFlush ==
    ASSUME LInv, RInv, NEW t \in Threads, fuse_flush_common(t)
    PROVE  Onward
<1>0. Loaded(pc[t], req[t]) /\ Holding(pc[t], req[t]) /\ Table(nodes) /\ pc[t] # "idle"
  BY RFacts DEF fuse_flush_common
<1>1. /\ pc[t] = "locked" /\ Shape(req[t]) \in {"flush", "release"} /\ req' = req
      /\ UNCHANGED <<nodes, klook, ctr, gen, given, case>>
  BY DEF fuse_flush_common, fvars
<1>2. Table(nodes') /\ SameTree(nodes, nodes')
  BY <1>0, <1>1 DEF SameTree
<1>3. req[t].op # "setlk"
  BY <1>1, ShapeOf DEF Shape
<1>4. PICK p \in {"insert", AfterFlush(req[t])} : pc' = [pc EXCEPT ![t] = p]
  BY DEF fuse_flush_common
<1>5. Loaded("insert", req[t]) /\ Holding("insert", req[t]) /\ ~Maker("insert", req[t])
  BY <1>0, <1>1 DEF Loaded, Unfound, Holding, Maker
<1>6. Loaded(p, req[t]) /\ Holding(p, req[t]) /\ ~Maker(p, req[t]) /\ p \notin {"idle", "hiding"}
  BY <1>1, <1>3, <1>4, <1>5, AfterFlushes
<1> QED
  BY <1>0, <1>1, <1>2, <1>4, <1>6, RGoesOn

\* The list of locks.
LEMMA ListedIs ==
    ASSUME NEW ns, Table(ns), NEW i \in Ids, NEW s, NEW ms, ms = [ns EXCEPT ![i].locks = s]
    PROVE  Table(ms) /\ SameTree(ns, ms) /\ Ticketed(ns, ms)
<1>1. DOMAIN ns = Ids /\ NodeOK(ns[i])
  BY DEF Table
<1>2. /\ NodeOK(ms[i]) /\ ms[i].open = ns[i].open /\ ms[i].hidden = ns[i].hidden /\ ms[i].parent = ns[i].parent
      /\ ms[i].name = ns[i].name /\ ms[i].refctr = ns[i].refctr /\ ms[i].nlookup = ns[i].nlookup
      /\ ms[i].treelock = ns[i].treelock
  BY <1>1 DEF NodeOK, NodeKeys
<1>3. DOMAIN ms = Ids /\ \A j \in Ids \ {i} : ms[j] = ns[j]
  BY <1>1
<1>4. Calm(ns, ms)
  BY <1>2, <1>3 DEF Calm, CalmNode, Table
<1> QED
  BY <1>2, <1>3, <1>4, CalmFacts DEF Ticketed
LEMMA RList ==
    ASSUME LInv, RInv, NEW t \in Threads, ListLock(t)
    PROVE  Onward
<1>0. /\ Loaded(pc[t], req[t]) /\ Holding(pc[t], req[t]) /\ Table(nodes) /\ case \in Cases /\ DOMAIN req = Threads
      /\ Stage(pc[t], req[t], case) /\ LockStage(pc[t], req[t], case) /\ req = [req EXCEPT ![t] = req[t]]
  BY RFacts, ThreadFacts
<1>1. pc[t] = "insert" /\ UNCHANGED <<klook, ctr, gen, given, case>>
  BY DEF ListLock
<1>2. req[t].entry = 0 /\ ~req[t].done
  BY <1>0, <1>1 DEF Loaded, Unfound
<1>3. CASE Abort(t, "get_node")
  BY <1>1, <1>2, <1>3, RAbortStep
<1>4. CASE Live(nodes, req[t].ino)
  <2>1. PICK i, s : i = req[t].ino /\ s = locks_insert(nodes[i].locks, LockOf(req[t]))
    OBVIOUS
  <2>2. i \in Ids
    BY <1>0, <1>4, <2>1 DEF Live, Table
  <2>3. nodes' = nodes \/ nodes' = [nodes EXCEPT ![i].locks = s]
    BY <1>4, <2>1 DEF ListLock
  <2>4. Table(nodes') /\ SameTree(nodes, nodes')
    <3>1. CASE nodes' = nodes
      BY <1>0, <3>1 DEF SameTree
    <3>2. CASE nodes' = [nodes EXCEPT ![i].locks = s]
      BY <1>0, <2>2, <3>2, ListedIs
    <3> QED
      BY <2>3, <3>1, <3>2
  <2>5. Shape(req[t]) \in {"lock", "flush", "release"}
    BY <1>0, <1>1 DEF Stage, LockStage, LockReq
  <2>6. /\ pc' = [pc EXCEPT ![t] = AfterFlush(req[t])]
        /\ req' = [req EXCEPT ![t] = IF req[t].op = "setlk" THEN NoReq ELSE req[t]]
    BY <1>0, <1>4 DEF ListLock
  <2>7. CASE req[t].op = "setlk"
    <3>1. Moves(t, "idle", NoReq)
      BY <1>1, <2>6, <2>7 DEF Moves, AfterFlush
    <3> QED
      BY <1>1, <1>2, <2>4, <3>1, RIdleStep
  <2>8. CASE req[t].op # "setlk"
    <3>1. PICK p : p = AfterFlush(req[t])
      OBVIOUS
    <3>2. Loaded(p, req[t]) /\ Holding(p, req[t]) /\ ~Maker(p, req[t]) /\ p \in {"free", "release"}
      BY <1>1, <2>5, <2>8, <3>1, AfterFlushes
    <3>3. pc' = [pc EXCEPT ![t] = p] /\ req' = req
      BY <1>0, <2>6, <2>8, <3>1
    <3> QED
      BY <1>1, <2>4, <3>2, <3>3, RGoesOn
  <2> QED
    BY <2>7, <2>8
<1> QED
  BY <1>3, <1>4 DEF ListLock

----------------------------------------------------------------------------
\* A table has no new live nodes if nothing got a lookup or a child that is
\* not live already.
LEMMA LiveShrinks ==
    ASSUME case \in Cases, NEW ns, RefOK(ns), NEW ms, RefOK(ms),
           \A j \in Ids : ms[j].nlookup > 0 => Live(ns, j),
           \A c \in Ids \ {Root} : ms[c].parent # 0 => Live(ns, ms[c].parent)
    PROVE  LiveSet(ms) \subseteq LiveSet(ns)
<1> SUFFICES ASSUME NEW j \in Ids, Live(ms, j) PROVE Live(ns, j)
  BY DEF LiveSet
<1>1. ms[j].refctr = Cardinality(KidsOf(ms, j)) + Looked(ms[j]) /\ ms[j].refctr > 0 /\ ms[j].nlookup \in Nat
  BY DEF RefOK, Counted, Live, Table, NodeOK
<1>2. CASE ms[j].nlookup > 0
  BY <1>2
<1>3. CASE ms[j].nlookup = 0
  <2>1. Cardinality(KidsOf(ms, j)) # 0
    BY <1>1, <1>3, KidsFinite DEF Looked
  <2>2. PICK c \in KidsOf(ms, j) : TRUE
    BY <2>1, FS_EmptySet
  <2> QED
    BY <2>2, IdFacts DEF KidsOf
<1> QED
  BY <1>1, <1>2, <1>3

\* A thread goes on from a change of names.
Renames(ns, ms) ==
    /\ RefOK(ms) /\ LiveSet(ms) \subseteq LiveSet(ns) /\ \A j \in Ids : ms[j].nlookup = ns[j].nlookup
LEMMA RNames ==
    ASSUME LInv, RInv, NEW t \in Threads, NEW p, pc' = [pc EXCEPT ![t] = p], req' = req,
           Renames(nodes, nodes'), UNCHANGED <<klook, ctr, gen, given, case>>, pc[t] \in Unfound,
           p \in {"free", "change"}, Holding(p, req[t])
    PROVE  Onward
<1>0. Loaded(pc[t], req[t]) /\ RStage(pc[t], req[t]) /\ case \in Cases
  BY RFacts
<1>1. Moves(t, p, req[t])
  BY RFacts DEF Moves
<1>2. req[t].entry = 0 /\ ~req[t].done /\ pc[t] # "idle"
  BY <1>0 DEF Loaded, Unfound
<1>3. Loaded(p, req[t]) /\ ~Maker(p, req[t])
  BY <1>2 DEF Loaded, Unfound, Maker
<1>4. RStage(p, req[t])
  BY <1>0, <1>2, <1>3 DEF RStage
<1>5. SameLoad(pc[t], req[t], p, req[t])
  BY <1>2 DEF SameLoad
<1>6. Balanced(t, p, req[t])
  BY <1>0, <1>5, SameLoadFacts DEF Balanced, Renames
<1>7. RoomFor(nodes', pc', req')
  BY <1>1, <1>3, RoomSame DEF Renames
<1>8. klook' \in [Ids -> Nat] /\ Numbered' /\ RefOK(nodes')
  BY DEF RInv, Numbered, Renames
<1> QED
  BY <1>1, <1>4, <1>6, <1>7, <1>8, RMoves, NoneNew DEF Renames

LEMMA RemoveRenames ==
    ASSUME case \in Cases, NEW ns, RefOK(ns), NEW d \in Ids, NEW n, NEW ms, ms = remove_node(ns, d, n)
    PROVE  Renames(ns, ms)
<1>1. PICK i : i = lookup_node(ns, d, n)
  OBVIOUS
<1>2. RefOK(ms) /\ (i = 0 => ms = ns) /\ (i # 0 => Loses(ns, ms, i))
  BY <1>1, RemoveOK
<1>3. \A j \in Ids : /\ ms[j].nlookup = ns[j].nlookup
                     /\ ms[j].parent # 0 => ms[j].parent = ns[j].parent
  BY <1>2 DEF Loses
<1>4. \A j \in Ids : ns[j].nlookup > 0 => Live(ns, j)
  BY LiveFacts
<1>5. \A c \in Ids \ {Root} : ns[c].parent # 0 => Live(ns, ns[c].parent)
  <2> SUFFICES ASSUME NEW c \in Ids \ {Root}, ns[c].parent # 0 PROVE Live(ns, ns[c].parent)
    OBVIOUS
  <2>1. ns[c].parent \in Ids /\ c \in KidsOf(ns, ns[c].parent)
    BY DEF RefOK, Table, NodeOK, KidsOf
  <2> QED
    BY <2>1, LiveFacts
<1>6. LiveSet(ms) \subseteq LiveSet(ns)
  BY <1>2, <1>3, <1>4, <1>5, LiveShrinks
<1> QED
  BY <1>2, <1>3, <1>6 DEF Renames

LEMMA ParentsLive ==
    ASSUME case \in Cases, NEW ns, RefOK(ns), NEW c \in Ids \ {Root}, ns[c].parent # 0
    PROVE  ns[c].parent \in Ids /\ Live(ns, ns[c].parent)
<1>1. ns[c].parent \in Ids /\ c \in KidsOf(ns, ns[c].parent)
  BY DEF RefOK, Table, NodeOK, KidsOf
<1> QED
  BY <1>1, LiveFacts

LEMMA RenameRenames ==
    ASSUME case \in Cases, NEW ns, RefOK(ns), NEW d \in Ids, NEW e \in Ids, NEW n, NEW m, m # Null,
           NEW i, i = lookup_node(ns, d, n), i # 0, NEW ms, ms = rename_node(ns, d, n, e, m),
           ~RenameBad(ns, d, n, e, m)
    PROVE  Renames(ns, ms)
<1>1. RefOK(ms) /\ Renamed(ns, ms, i, e, m)
  BY RenameOK
<1>2. PICK fr, un : fr = remove_node(ns, e, m) /\ un = unhash_name(fr, i)
  OBVIOUS
<1>3. Live(un, e)
  BY <1>2 DEF RenameBad
<1>4. Renames(ns, fr)
  BY <1>2, RemoveRenames
<1>5. i \in Ids \ {Root} /\ ns[i].nlookup > 0
  BY LookupIs, IdFacts DEF RefOK, Named
<1>6. RefOK(un) /\ Loses(fr, un, i)
  BY <1>2, <1>4, <1>5, UnhashLoses DEF Renames
<1>7. LiveSet(un) \subseteq LiveSet(fr)
  <2>1. \A j \in Ids : un[j].nlookup = fr[j].nlookup /\ (un[j].parent # 0 => un[j].parent = fr[j].parent)
    BY <1>6 DEF Loses
  <2>2. RefOK(fr)
    BY <1>4 DEF Renames
  <2>3. \A j \in Ids : fr[j].nlookup > 0 => Live(fr, j)
    BY <2>2, LiveFacts
  <2> QED
    BY <1>6, <2>1, <2>2, <2>3, ParentsLive, LiveShrinks
<1>8. Live(ns, e)
  BY <1>3, <1>4, <1>7 DEF Renames, LiveSet
<1>9. \A j \in Ids : ms[j].nlookup = ns[j].nlookup /\ (ms[j].parent # 0 => ms[j].parent \in {e, ns[j].parent})
  BY <1>1 DEF Renamed
<1>10. \A j \in Ids : ns[j].nlookup > 0 => Live(ns, j)
  BY LiveFacts
<1>11. \A c \in Ids \ {Root} : ms[c].parent # 0 => Live(ns, ms[c].parent)
  BY <1>8, <1>9, ParentsLive
<1>12. LiveSet(ms) \subseteq LiveSet(ns)
  BY <1>1, <1>9, <1>10, <1>11, LiveShrinks
<1> QED
  BY <1>1, <1>9, <1>12 DEF Renames

\* Marking, and no change at all.
LEMMA SameRenames ==
    ASSUME case \in Cases, NEW ns, RefOK(ns), NEW ms, Table(ms), SameTree(ns, ms)
    PROVE  Renames(ns, ms)
<1>1. RefOK(ms)
  BY SameOK
<1>2. LiveSet(ms) \subseteq LiveSet(ns)
  BY DEF LiveSet, Live, SameTree, RefOK, Table
<1> QED
  BY <1>1, <1>2 DEF Renames, SameTree
LEMMA RenamesTwice ==
    ASSUME NEW ns, NEW ls, NEW ms, Renames(ns, ls), Renames(ls, ms)
    PROVE  Renames(ns, ms)
BY DEF Renames
LEMMA MarkRenames ==
    ASSUME case \in Cases, NEW ns, RefOK(ns), NEW d \in Ids, NEW e \in Ids, NEW n, NEW m, m # Null,
           NEW i, i = lookup_node(ns, d, n), i # 0, ~RenameBad(ns, d, n, e, m),
           NEW ms, ms = Mark(rename_node(ns, d, n, e, m), i)
    PROVE  Renames(ns, ms)
<1>1. PICK ls : ls = rename_node(ns, d, n, e, m)
  OBVIOUS
<1>2. Renames(ns, ls) /\ i \in Ids
  BY <1>1, RenameRenames, LookupIs
<1>3. RefOK(ls) /\ Table(ls)
  BY <1>2 DEF Renames, RefOK
<1>4. Table(ms) /\ SameTree(ls, ms)
  BY <1>1, <1>2, <1>3, MarkIs
<1> QED
  BY <1>2, <1>3, <1>4, SameRenames, RenamesTwice

\* The directory that loses a name, and the name.
LEMMA GoneIs ==
    ASSUME LInv, RInv, NEW t \in Threads, pc[t] # "idle", Shape(req[t]) # "forget"
    PROVE  /\ req[t].ino \in Ids /\ GoneDir(req[t]) \in Ids
           /\ req[t].op = "rename" => req[t].ino2 \in Ids /\ req[t].name2 # Null
<1>1. Args(req[t])
  BY RFacts
<1> QED
  BY <1>1 DEF Args, GoneDir, TwoPathOps
LEMMA RHide ==
    ASSUME LInv, RInv, NEW t \in Threads, hide_node(t)
    PROVE  Onward
<1>0. /\ Loaded(pc[t], req[t]) /\ Holding(pc[t], req[t]) /\ RStage(pc[t], req[t]) /\ case \in Cases
      /\ RefOK(nodes) /\ Stage(pc[t], req[t], case) /\ (pc[t] # "idle" => req[t].op \in DOMAIN fuse_path_ops)
  BY RFacts
<1>1. pc[t] = "hiding" /\ UNCHANGED <<klook, ctr, gen, given, case>>
  BY DEF hide_node
<1>2. req[t].held /\ req[t].entry = 0 /\ ~req[t].done /\ req[t].hide # Null /\ pc[t] \in Unfound
  BY <1>0, <1>1 DEF Holding, Loaded, Unfound, RStage
<1>3. \A p \in {"free", "change"} : Holding(p, req[t])
  BY <1>2 DEF Holding
<1>4. PICK d, n, i : d = GoneDir(req[t]) /\ n = GoneName(req[t]) /\ i = lookup_node(nodes, d, n)
  OBVIOUS
<1>5. \/ nodes' = nodes /\ req' = req /\ \E p \in {"free", "change"} : pc' = [pc EXCEPT ![t] = p]
      \/ Abort(t, "rename_node")
      \/ /\ i # 0 /\ ~RenameBad(nodes, d, n, d, req[t].hide) /\ req' = req
         /\ nodes' = Mark(rename_node(nodes, d, n, d, req[t].hide), i)
         /\ \E p \in {"free", "change"} : pc' = [pc EXCEPT ![t] = p]
  BY <1>4 DEF hide_node, AfterHide
<1>6. Shape(req[t]) # "forget"
  BY <1>0, <1>1 DEF Stage
<1>7. d \in Ids
  BY <1>1, <1>4, <1>6, GoneIs
<1>8. CASE nodes' = nodes /\ req' = req /\ \E p \in {"free", "change"} : pc' = [pc EXCEPT ![t] = p]
  <2>1. Renames(nodes, nodes')
    BY <1>0, <1>8 DEF Renames
  <2> QED
    BY <1>1, <1>2, <1>3, <1>8, <2>1, RNames
<1>9. CASE Abort(t, "rename_node")
  BY <1>1, <1>2, <1>9, RAbortStep
<1>10. CASE /\ i # 0 /\ ~RenameBad(nodes, d, n, d, req[t].hide) /\ req' = req
            /\ nodes' = Mark(rename_node(nodes, d, n, d, req[t].hide), i)
            /\ \E p \in {"free", "change"} : pc' = [pc EXCEPT ![t] = p]
  <2>1. Renames(nodes, nodes')
    BY <1>0, <1>2, <1>4, <1>7, <1>10, MarkRenames
  <2> QED
    BY <1>1, <1>2, <1>3, <1>10, <2>1, RNames
<1> QED
  BY <1>5, <1>8, <1>9, <1>10

LEMMA RChange ==
    ASSUME LInv, RInv, NEW t \in Threads, Change(t)
    PROVE  Onward
<1>0. /\ Loaded(pc[t], req[t]) /\ Holding(pc[t], req[t]) /\ case \in Cases
      /\ RefOK(nodes) /\ Stage(pc[t], req[t], case) /\ (pc[t] # "idle" => req[t].op \in DOMAIN fuse_path_ops)
  BY RFacts
<1>1. pc[t] = "change" /\ UNCHANGED <<klook, ctr, gen, given, case>>
  BY DEF Change, kvars
<1>2. req[t].held /\ req[t].entry = 0 /\ ~req[t].done /\ pc[t] \in Unfound
  BY <1>0, <1>1 DEF Holding, Loaded, Unfound
<1>3. Holding("free", req[t])
  BY <1>2 DEF Holding
<1>4. \/ Abort(t, "rename_node")
      \/ /\ pc' = [pc EXCEPT ![t] = "free"] /\ req' = req
         /\ nodes' = nodes \/ (nodes' = Changed(nodes, req[t]) /\ ~ChangeBad(nodes, req[t]))
  BY DEF Change
<1>5. Shape(req[t]) # "forget"
  BY <1>0, <1>1 DEF Stage
<1>6. req[t].ino \in Ids /\ (req[t].op = "rename" => req[t].ino2 \in Ids /\ req[t].name2 # Null)
  BY <1>1, <1>5, GoneIs
<1>7. CASE Abort(t, "rename_node")
  BY <1>1, <1>2, <1>7, RAbortStep
<1>8. CASE /\ pc' = [pc EXCEPT ![t] = "free"] /\ req' = req
           /\ nodes' = nodes \/ (nodes' = Changed(nodes, req[t]) /\ ~ChangeBad(nodes, req[t]))
  <2>1. CASE nodes' = nodes
    BY <1>0, <1>1, <1>2, <1>3, <1>8, <2>1, RNames DEF Renames
  <2>2. CASE nodes' = Changed(nodes, req[t]) /\ ~ChangeBad(nodes, req[t]) /\ req[t].op # "rename"
    <3>1. nodes' = remove_node(nodes, req[t].ino, req[t].name)
      BY <2>2 DEF Changed
    <3>2. Renames(nodes, nodes')
      BY <1>0, <1>6, <3>1, RemoveRenames
    <3> QED
      BY <1>1, <1>2, <1>3, <1>8, <3>2, RNames
  <2>3. CASE nodes' = Changed(nodes, req[t]) /\ ~ChangeBad(nodes, req[t]) /\ req[t].op = "rename"
    <3>0. PICK d, n, e, m : d = req[t].ino /\ n = req[t].name /\ e = req[t].ino2 /\ m = req[t].name2
      OBVIOUS
    <3>1. nodes' = rename_node(nodes, d, n, e, m) /\ ~RenameBad(nodes, d, n, e, m)
      BY <2>3, <3>0 DEF Changed, ChangeBad
    <3>2. CASE lookup_node(nodes, d, n) = 0
      <4>1. nodes' = nodes
        BY <3>1, <3>2 DEF rename_node
      <4> QED
        BY <2>1, <4>1
    <3>3. CASE lookup_node(nodes, d, n) # 0
      <4>1. Renames(nodes, nodes')
        BY <1>0, <1>6, <2>3, <3>0, <3>1, <3>3, RenameRenames
      <4> QED
        BY <1>1, <1>2, <1>3, <1>8, <4>1, RNames
    <3> QED
      BY <3>2, <3>3
  <2> QED
    BY <1>8, <2>1, <2>2, <2>3
<1> QED
  BY <1>4, <1>7, <1>8

----------------------------------------------------------------------------
\* forget_node gives n lookups back.
Fewer(ns, ms, i, n) ==
    /\ RefOK(ms) /\ LiveSet(ms) \subseteq LiveSet(ns)
    /\ ms[i].nlookup = ns[i].nlookup - n /\ \A j \in Ids \ {i} : ms[j].nlookup = ns[j].nlookup
LEMMA ForgetIs ==
    ASSUME case \in Cases, NEW ns, RefOK(ns), NEW r, NEW i \in Ids \ {Root}, NEW n \in Nat, r.entry = i, r.n = n,
           n >= 1, n <= ns[i].nlookup, NEW ms, ms = ForgetDone(ns, r)
    PROVE  Fewer(ns, ms, i, n)
<1>0. ns[i].nlookup \in Nat /\ ns[i].nlookup > 0 /\ \A j \in Ids : ns[j].nlookup \in Nat
  BY DEF RefOK, Table, NodeOK
<1>1. \A j \in Ids : ns[j].nlookup > 0 => Live(ns, j)
  BY LiveFacts
<1>2. CASE ns[i].nlookup > n
  <2>1. PICK k : k = ns[i].nlookup - n
    OBVIOUS
  <2>2. ms = WithLookups(ns, i, k) /\ k \in Nat /\ k > 0
    BY <1>0, <1>2, <2>1 DEF ForgetDone, WithLookups
  <2>3. /\ RefOK(ms) /\ \A j \in Ids \ {i} : ms[j] = ns[j]
        /\ ms[i].nlookup = k /\ ms[i].parent = ns[i].parent
    BY <1>0, <2>2, LookedOK
  <2>4. /\ \A j \in Ids : ms[j].nlookup > 0 => Live(ns, j)
        /\ \A c \in Ids \ {Root} : ms[c].parent # 0 => Live(ns, ms[c].parent)
    BY <1>0, <1>1, <2>3, ParentsLive
  <2>5. LiveSet(ms) \subseteq LiveSet(ns)
    BY <2>3, <2>4, LiveShrinks
  <2> QED
    BY <2>1, <2>3, <2>5 DEF Fewer
<1>3. CASE ns[i].nlookup = n
  <2>1. ms = unref_node(unhash_name([ns EXCEPT ![i].nlookup = 0], i), i)
    BY <1>3 DEF ForgetDone
  <2>2. Table(ms) /\ Forgot(ns, ms, i)
    BY <1>0, <2>1, ForgotIs
  <2>3. RefOK(ms)
    BY <1>0, <2>2, ForgotOK
  <2>4. \A j \in Ids : /\ ms[j].nlookup = IF j = i THEN 0 ELSE ns[j].nlookup
                       /\ ms[j].parent # 0 => ms[j].parent = ns[j].parent
    BY <2>2 DEF Forgot
  <2>5. /\ \A j \in Ids : ms[j].nlookup > 0 => Live(ns, j)
        /\ \A c \in Ids \ {Root} : ms[c].parent # 0 => Live(ns, ms[c].parent)
    BY <1>1, <2>4, ParentsLive
  <2>6. LiveSet(ms) \subseteq LiveSet(ns)
    BY <2>3, <2>5, LiveShrinks
  <2> QED
    BY <1>0, <1>3, <2>3, <2>4, <2>6 DEF Fewer
<1> QED
  BY <1>0, <1>2, <1>3

LEMMA RForgetEnd ==
    ASSUME LInv, RInv, NEW t \in Threads, ForgetEnd(t), pc[t] \in {"forget", "fwait"}, ~ForgetLost(req[t]),
           UNCHANGED <<klook, ctr, gen, given, case>>
    PROVE  Onward
<1>0. /\ Loaded(pc[t], req[t]) /\ Holding(pc[t], req[t]) /\ case \in Cases /\ ReqOK(req[t]) /\ Args(req[t])
      /\ RefOK(nodes) /\ DOMAIN req = Threads
      /\ Stage(pc[t], req[t], case) /\ (pc[t] # "idle" => req[t].op \in DOMAIN fuse_path_ops)
  BY RFacts
<1>1. PICK i, n : i = req[t].entry /\ n = req[t].n
  OBVIOUS
<1>2. i \in Ids \ {Root} /\ n \in Nat /\ n >= 1 /\ ~req[t].done
  BY <1>0, <1>1 DEF Loaded, ReqOK
<1>3. n <= nodes[i].nlookup /\ \A j \in Ids : nodes[j].nlookup \in Nat
  BY <1>0, <1>1, <1>2 DEF ForgetLost, RefOK, Table, NodeOK
<1>4. nodes' = ForgetDone(nodes, req[t])
  BY DEF ForgetEnd
<1>5. Fewer(nodes, nodes', i, n)
  BY <1>0, <1>1, <1>2, <1>3, <1>4, ForgetIs
<1>6. PICK p, r : /\ p = (IF req[t].op = "create" THEN "free" ELSE "idle")
                  /\ r = (IF req[t].op = "create" THEN [req[t] EXCEPT !.entry = 0] ELSE NoReq)
  OBVIOUS
<1>7. Moves(t, p, r)
  BY <1>0, <1>6 DEF Moves, ForgetEnd
<1>8. RStage(p, r) /\ r.entry = 0 /\ ~Maker(p, r)
  <2>1. CASE req[t].op = "create"
    <3>1. Kin(req[t], r) /\ r.done = req[t].done /\ r.entry = 0 /\ p = "free"
      BY <1>0, <1>6, <2>1, FormForgotten
    <3>2. Args(r) /\ ReqOK(r)
      BY <1>0, <3>1, KinFacts DEF Kin
    <3>3. Loaded(p, r) /\ Holding(p, r)
      BY <1>2, <3>1 DEF Loaded, Holding, Unfound
    <3> QED
      BY <3>1, <3>2, <3>3 DEF RStage, Maker
  <2>2. CASE req[t].op # "create"
    BY <1>0, <1>6, <2>2, NoReqStage DEF Maker
  <2> QED
    BY <2>1, <2>2
<1>9. \A j \in Ids \ {Root} : Load(p, r, j) = 0 /\ Load(pc[t], req[t], j) = IF j = i THEN n ELSE 0
  BY <1>0, <1>1, <1>2, <1>8, IdFacts DEF Load, Carries
<1>10. Balanced(t, p, r)
  <2> SUFFICES ASSUME NEW j \in Ids \ {Root}
               PROVE  nodes'[j].nlookup + klook[j] + Load(pc[t], req[t], j)
                        = nodes[j].nlookup + klook'[j] + Load(p, r, j)
    BY DEF Balanced
  <2>1. klook[j] \in Nat /\ klook'[j] = klook[j] /\ nodes[j].nlookup \in Nat
    BY <1>3 DEF RInv
  <2>2. nodes'[j].nlookup = IF j = i THEN nodes[j].nlookup - n ELSE nodes[j].nlookup
    BY <1>5 DEF Fewer
  <2> QED
    BY <1>2, <1>9, <2>1, <2>2
<1>11. LiveSet(nodes') \subseteq LiveSet(nodes) /\ RefOK(nodes')
  BY <1>5 DEF Fewer
<1>12. RoomFor(nodes', pc', req')
  BY <1>7, <1>8, <1>11, RoomSame
<1>13. klook' \in [Ids -> Nat] /\ Numbered'
  BY DEF RInv, Numbered
<1> QED
  BY <1>7, <1>8, <1>10, <1>11, <1>12, <1>13, RMoves, NoneNew

LEMMA RForget ==
    ASSUME LInv, RInv, NEW t \in Threads, forget_node(t) \/ forget_node_retry(t)
    PROVE  Onward
<1>0. /\ Loaded(pc[t], req[t]) /\ Holding(pc[t], req[t]) /\ case \in Cases /\ pc = [pc EXCEPT ![t] = pc[t]]
  BY RFacts
<1>1. pc[t] \in {"forget", "fwait"} /\ UNCHANGED <<klook, ctr, gen, given, case, kvars>>
  BY DEF forget_node, forget_node_retry, kvars
<1>2. ~req[t].done /\ Loaded("fwait", req[t]) /\ Holding("fwait", req[t]) /\ ~Maker("fwait", req[t])
  BY <1>0, <1>1 DEF Loaded, Holding, Unfound, Maker
<1>3. CASE ForgetLost(req[t])
  <2>1. Abort(t, "forget_node")
    BY <1>3 DEF forget_node, forget_node_retry
  <2> QED
    BY <1>1, <1>2, <2>1, RAbortStep
<1>4. CASE ~ForgetLost(req[t]) /\ ForgetBusy(nodes, req[t])
  <2>1. pc' = [pc EXCEPT ![t] = "fwait"] /\ UNCHANGED <<nodes, req>>
    BY <1>0, <1>4 DEF forget_node, forget_node_retry, ForgetQueue
  <2>2. Moves(t, "fwait", req[t])
    BY <1>1, <2>1, RFacts DEF Moves
  <2>3. Alike(req[t], req[t]) /\ Table(nodes') /\ SameTree(nodes, nodes')
    BY <2>1, FormSame, RFacts DEF SameTree
  <2> QED
    BY <1>1, <1>2, <2>2, <2>3, AlikeStep
<1>5. CASE ~ForgetLost(req[t]) /\ ~ForgetBusy(nodes, req[t])
  <2>1. ForgetEnd(t)
    BY <1>5 DEF forget_node, forget_node_retry
  <2> QED
    BY <1>1, <1>5, <2>1, RForgetEnd
<1> QED
  BY <1>3, <1>4, <1>5

----------------------------------------------------------------------------
\* Remainders of numbers below twice the divisor.
LEMMA ModOnce ==
    ASSUME NEW n \in Nat, n > 0, NEW x \in Nat, x < n
    PROVE  x % n = x /\ (x + n) % n = x
OBVIOUS
LEMMA ModTwice ==
    ASSUME NEW n \in Nat, n > 0, NEW x \in Nat, x < 2 * n
    PROVE  x % n = IF x < n THEN x ELSE x - n
<1>1. CASE x < n
  BY <1>1, ModOnce
<1>2. CASE x >= n
  <2>1. PICK y : y = x - n
    OBVIOUS
  <2>2. y \in Nat /\ y < n /\ x = y + n
    BY <1>2, <2>1
  <2>3. (y + n) % n = y
    BY <2>2, ModOnce
  <2> QED
    BY <1>2, <2>1, <2>2, <2>3
<1> QED
  BY <1>1, <1>2

\* If the table has room, next_id finds an id that is free; it lies after
\* the last one, or the counter has passed 0.
LEMMA StepsIs ==
    ASSUME case \in Cases, NEW ns, NEW c \in 0 .. IdSpace - 1, Cardinality(LiveSet(ns)) <= IdSpace - 3
    PROVE  Steps(ns, c) \in 1 .. IdSpace /\ ~Skipped(ns, c + Steps(ns, c))
<1>0. IdSpace \in Nat /\ IdSpace >= 3 /\ Ids = 1 .. IdSpace - 1 /\ IsFiniteSet(Ids) /\ Unknown = IdSpace - 1
  BY IdFacts
<1>1. PICK f \in 1 .. IdSpace - 2 : f \notin LiveSet(ns)
  <2>1. IsFiniteSet(1 .. IdSpace - 2) /\ Cardinality(1 .. IdSpace - 2) = IdSpace - 2
    BY <1>0, FS_Interval
  <2>2. IsFiniteSet(LiveSet(ns))
    BY <1>0, FS_Subset DEF LiveSet
  <2>3. 1 .. IdSpace - 2 \subseteq LiveSet(ns) => IdSpace - 2 <= Cardinality(LiveSet(ns))
    <3>1. PICK X : X = 1 .. IdSpace - 2
      OBVIOUS
    <3>2. X \subseteq LiveSet(ns) => Cardinality(X) <= Cardinality(LiveSet(ns))
      BY <2>2, FS_Subset
    <3> QED
      BY <2>1, <3>1, <3>2
  <2>4. Cardinality(LiveSet(ns)) \in Nat
    BY <2>2, FS_CardinalityType
  <2> QED
    BY <1>0, <2>3, <2>4
<1>2. f \in Ids /\ f # Unknown /\ f # 0 /\ ~Live(ns, f) /\ f < IdSpace
  BY <1>0, <1>1 DEF LiveSet
<1>3. PICK k \in 1 .. IdSpace : ~Skipped(ns, c + k)
  <2>1. CASE f > c
    <3>1. f - c \in 1 .. IdSpace /\ c + (f - c) = f /\ f % IdSpace = f
      BY <1>0, <1>1, <2>1, ModOnce
    <3> QED
      BY <1>2, <3>1 DEF Skipped
  <2>2. CASE f <= c
    <3>1. f - c + IdSpace \in 1 .. IdSpace /\ c + (f - c + IdSpace) = f + IdSpace /\ (f + IdSpace) % IdSpace = f
      BY <1>0, <1>1, <2>2, ModOnce
    <3> QED
      BY <1>2, <3>1 DEF Skipped
  <2> QED
    BY <1>1, <2>1, <2>2
<1> DEFINE S == {j \in 1 .. IdSpace : ~Skipped(ns, c + j)}
<1>4. S \in SUBSET Nat /\ S # {}
  <2>1. k \in S
    BY <1>3
  <2>2. S \subseteq Nat
    BY <1>0
  <2> QED
    BY <2>1, <2>2
<1>5. PICK l \in S : \A x \in S : l <= x
  BY <1>4, LeastNumber
<1>6. l \in 1 .. IdSpace /\ ~Skipped(ns, c + l) /\ \A j \in 1 .. l - 1 : Skipped(ns, c + j)
  BY <1>0, <1>5
<1>7. \E j \in 1 .. IdSpace : ~Skipped(ns, c + j) /\ \A x \in 1 .. j - 1 : Skipped(ns, c + x)
  BY <1>6
<1> QED
  BY <1>7 DEF Steps
LEMMA NextIs ==
    ASSUME case \in Cases, NEW ns, NEW c \in 0 .. IdSpace - 1, Cardinality(LiveSet(ns)) <= IdSpace - 3,
           NEW a, a = next_id(ns, c)
    PROVE  /\ a.ctr \in Ids /\ ~Live(ns, a.ctr) /\ a.ctr # Unknown
           /\ (a.wraps = 0 /\ a.ctr > c) \/ a.wraps = 1
<1>0. IdSpace \in Nat /\ IdSpace >= 3 /\ Ids = 1 .. IdSpace - 1 /\ Unknown = IdSpace - 1
  BY IdFacts
<1>1. PICK k : k = Steps(ns, c)
  OBVIOUS
<1>2. k \in 1 .. IdSpace /\ ~Skipped(ns, c + k)
  BY <1>1, StepsIs
<1>3. PICK x : x = c + k
  OBVIOUS
<1>4. x \in Nat /\ x < 2 * IdSpace /\ x > c
  BY <1>0, <1>2, <1>3
<1>5. a.ctr = x % IdSpace /\ a.wraps = IF x >= IdSpace THEN 1 ELSE 0
  BY <1>1, <1>3 DEF next_id
<1>6. x % IdSpace = IF x < IdSpace THEN x ELSE x - IdSpace
  BY <1>0, <1>4, ModTwice
<1>7. x % IdSpace \notin {0, Unknown} /\ ~Live(ns, x % IdSpace)
  BY <1>2, <1>3 DEF Skipped
<1>8. a.ctr \in Nat /\ a.ctr < IdSpace
  BY <1>0, <1>4, <1>5, <1>6
<1> QED
  BY <1>0, <1>4, <1>5, <1>6, <1>7, <1>8

\* A maker that has made its node is none any more.
LEMMA RoomMade ==
    ASSUME LInv, RInv, NEW t, NEW p, NEW r, Moves(t, p, r), Maker(pc[t], req[t]), ~Maker(p, r),
           NEW i, LiveSet(nodes') \subseteq LiveSet(nodes) \cup {i}
    PROVE  RoomFor(nodes', pc', req')
<1>0. case \in Cases
  BY DEF LInv, Threading
<1>1. /\ pc'[t] = p /\ req'[t] = r /\ t \in Threads
      /\ \A u \in Threads \ {t} : pc'[u] = pc[u] /\ req'[u] = req[u]
  BY MovesFacts
<1>2. MakersOf(pc', req') \subseteq MakersOf(pc, req) \ {t} /\ t \in MakersOf(pc, req)
  BY <1>1 DEF MakersOf
<1>3. IsFiniteSet(LiveSet(nodes)) /\ IsFiniteSet(MakersOf(pc, req))
  <2>1. LiveSet(nodes) \subseteq Ids /\ MakersOf(pc, req) \subseteq Threads
    BY DEF LiveSet, MakersOf
  <2>2. IsFiniteSet(Threads)
    BY TreeAssumption
  <2> QED
    BY <1>0, <2>1, <2>2, IdFacts, FS_Subset
<1>4. /\ Cardinality(LiveSet(nodes')) <= Cardinality(LiveSet(nodes)) + 1
      /\ Cardinality(LiveSet(nodes')) \in Nat /\ Cardinality(LiveSet(nodes)) \in Nat
  <2>1. PICK X : X = LiveSet(nodes) \cup {i}
    OBVIOUS
  <2>2. IsFiniteSet(X) /\ Cardinality(X) <= Cardinality(LiveSet(nodes)) + 1
        /\ Cardinality(X) \in Nat /\ Cardinality(LiveSet(nodes)) \in Nat
    <3>1. i \in LiveSet(nodes) => X = LiveSet(nodes)
      BY <2>1
    <3>2. i \notin LiveSet(nodes) => IsFiniteSet(X) /\ Cardinality(X) = Cardinality(LiveSet(nodes)) + 1
      BY <1>3, <2>1, FS_AddElement
    <3>3. Cardinality(LiveSet(nodes)) \in Nat
      BY <1>3, FS_CardinalityType
    <3> QED
      BY <1>3, <3>1, <3>2, <3>3
  <2>3. Cardinality(LiveSet(nodes')) <= Cardinality(X) /\ Cardinality(LiveSet(nodes')) \in Nat
    BY <2>1, <2>2, FS_Subset, FS_CardinalityType
  <2> QED
    BY <2>2, <2>3
<1>5. /\ Cardinality(MakersOf(pc', req')) <= Cardinality(MakersOf(pc, req)) - 1
      /\ Cardinality(MakersOf(pc', req')) \in Nat /\ Cardinality(MakersOf(pc, req)) \in Nat
  <2>1. PICK X : X = MakersOf(pc, req) \ {t}
    OBVIOUS
  <2>2. IsFiniteSet(X) /\ Cardinality(X) = Cardinality(MakersOf(pc, req)) - 1
        /\ Cardinality(X) \in Nat /\ Cardinality(MakersOf(pc, req)) \in Nat
    BY <1>2, <1>3, <2>1, FS_RemoveElement, FS_CardinalityType
  <2>3. Cardinality(MakersOf(pc', req')) <= Cardinality(X) /\ Cardinality(MakersOf(pc', req')) \in Nat
    BY <1>2, <2>1, <2>2, FS_Subset, FS_CardinalityType
  <2> QED
    BY <2>2, <2>3
<1>6. IdSpace \in Nat /\ Cardinality(LiveSet(nodes)) + Cardinality(MakersOf(pc, req)) <= IdSpace - 2
  BY <1>0, IdFacts DEF RInv, RoomFor
<1> QED
  BY <1>4, <1>5, <1>6 DEF RoomFor

\* A node that is made, with its name.
NewIn(ns, ms, i, p, n) ==
    /\ i # Root /\ RefOK(ms) /\ LiveSet(ms) \subseteq LiveSet(ns) \cup {i}
    /\ ns[i].nlookup = 0 /\ ms[i].nlookup = 1 /\ \A j \in Ids \ {i} : ms[j].nlookup = ns[j].nlookup
    /\ ms[i].parent = p /\ ms[i].name = n /\ ms[i].open = 0 /\ ~ms[i].hidden /\ ms[i].treelock = 0
    /\ \A j \in Ids \ {i} : ms[j].parent = ns[j].parent /\ ms[j].name = ns[j].name /\ Rest(ns[j], ms[j])
LEMMA MadeNode ==
    ASSUME case \in Cases, NEW ns, RefOK(ns), NEW i \in Ids, ~Live(ns, i), NEW p \in Ids, Live(ns, p),
           NEW n, n # Null, lookup_node(ns, p, n) = 0,
           NEW ms, ms = hash_name(WithNode(ns, i), i, p, n)
    PROVE  NewIn(ns, ms, i, p, n)
<1>1. PICK ls : ls = WithNode(ns, i)
  OBVIOUS
<1>2. RefOK(ls) /\ Blank(ls[i]) /\ \A j \in Ids \ {i} : ls[j] = ns[j]
  BY <1>1, MadeOK
<1> USE DEF Blank
<1>3. i # Root /\ ns[i].nlookup = 0
  BY DeadFacts
<1>4. \A j \in Ids \ {Root} : ~(ns[j].parent = p /\ ns[j].name = n)
  BY LookupIs, IdFacts
<1>5. \A j \in Ids \ {Root} : ~(ls[j].parent = p /\ ls[j].name = n)
  BY <1>2, <1>4, IdFacts
<1>6. ms = hash_name(ls, i, p, n)
  BY <1>1
<1>7. RefOK(ms) /\ Hashed(ls, ms, i, p, n)
  BY <1>2, <1>3, <1>5, <1>6, HashOK
<1>8. LiveSet(ms) \subseteq LiveSet(ns) \cup {i}
  <2> SUFFICES ASSUME NEW j \in Ids \ {i}, Live(ms, j), j # p PROVE Live(ns, j)
    BY DEF LiveSet
  <2>1. ms[j].refctr = ns[j].refctr
    BY <1>2, <1>7 DEF Hashed
  <2> QED
    BY <2>1 DEF Live, RefOK, Table
<1>9. \A j \in Ids \ {i} : /\ ms[j].nlookup = ns[j].nlookup /\ ms[j].parent = ns[j].parent
                           /\ ms[j].name = ns[j].name /\ Rest(ns[j], ms[j])
  BY <1>2, <1>7 DEF Hashed
<1>10. /\ ms[i].nlookup = 1 /\ ms[i].parent = p /\ ms[i].name = n /\ ms[i].open = 0
       /\ ~ms[i].hidden /\ ms[i].treelock = 0
  BY <1>2, <1>7 DEF Hashed, Rest
<1> QED
  BY <1>3, <1>7, <1>8, <1>9, <1>10 DEF NewIn

\* find_node: the name was there, or a node is made.
LEMMA EntryArgs ==
    ASSUME LInv, RInv, NEW t \in Threads, pc[t] # "idle", Shape(req[t]) \in {"entry", "link", "create"}
    PROVE  EntryDir(req[t]) \in Ids /\ EntryName(req[t]) # Null
<1>1. Args(req[t]) /\ req[t].op \in DOMAIN fuse_path_ops
  BY RFacts
<1>2. req[t].op = "link" => req[t].ino2 \in Ids /\ req[t].name2 # Null
  BY <1>1, ShapeNames DEF Args, TwoPathOps, Shape
<1>3. req[t].op # "link" => req[t].ino \in Ids /\ req[t].name # Null
  BY <1>1, ShapeNames DEF Args, Shape
<1> QED
  BY <1>2, <1>3 DEF EntryDir, EntryName
LEMMA RFindOld ==
    ASSUME LInv, RInv, NEW t, NEW q, NEW r, Moves(t, q, r), RStage(q, r), ~Maker(q, r), q # "idle",
           NEW i \in Ids \ {Root}, r.entry = i, r.n = 1, ~r.done, req[t].entry = 0, nodes[i].nlookup > 0,
           nodes' = [nodes EXCEPT ![i].nlookup = @ + 1], UNCHANGED <<klook, ctr, gen, given>>
    PROVE  Onward
<1>0. case \in Cases /\ RefOK(nodes)
  BY DEF LInv, Threading, RInv
<1>1. \A j \in Ids : klook[j] \in Nat /\ nodes[j].nlookup \in Nat
  BY DEF RInv, RefOK, Table, NodeOK
<1>2. PICK k : k = nodes[i].nlookup + 1
  OBVIOUS
<1>3. nodes' = WithLookups(nodes, i, k) /\ k \in Nat /\ k > 0
  BY <1>0, <1>1, <1>2 DEF WithLookups
<1>4. /\ RefOK(nodes') /\ \A j \in Ids \ {i} : nodes'[j] = nodes[j]
      /\ nodes'[i].nlookup = k /\ nodes'[i].refctr = nodes[i].refctr
  <2>1. PICK ns, ms : ns = nodes /\ ms = nodes'
    OBVIOUS
  <2>2. RefOK(ns) /\ ms = WithLookups(ns, i, k) /\ ns[i].nlookup > 0
    BY <1>0, <1>3, <2>1
  <2>3. /\ RefOK(ms) /\ \A j \in Ids \ {i} : ms[j] = ns[j]
        /\ ms[i].nlookup = k /\ ms[i].refctr = ns[i].refctr
    BY <1>0, <1>3, <2>2, LookedOK
  <2> QED
    BY <2>1, <2>3
<1>5. LiveSet(nodes') \subseteq LiveSet(nodes)
  BY <1>0, <1>4 DEF LiveSet, Live, RefOK, Table
<1>6. \A j \in Ids \ {Root} : /\ Load(pc[t], req[t], j) = 0
                             /\ Load(q, r, j) = IF j = i THEN 1 ELSE 0
  BY <1>0, IdFacts DEF Load, Carries
<1>7. Balanced(t, q, r)
  BY <1>1, <1>2, <1>4, <1>6 DEF Balanced
<1>8. RoomFor(nodes', pc', req')
  BY <1>5, RoomSame
<1>9. klook' \in [Ids -> Nat] /\ Numbered'
  BY DEF RInv, Numbered
<1> QED
  BY <1>4, <1>5, <1>7, <1>8, <1>9, RMoves, NoneNew
LEMMA RoomTight ==
    ASSUME LInv, RInv, NEW t \in Threads, Maker(pc[t], req[t])
    PROVE  Cardinality(LiveSet(nodes)) <= IdSpace - 3
<1>0. case \in Cases
  BY DEF LInv, Threading
<1>1. IsFiniteSet(LiveSet(nodes)) /\ IsFiniteSet(MakersOf(pc, req)) /\ t \in MakersOf(pc, req)
  <2>1. LiveSet(nodes) \subseteq Ids /\ MakersOf(pc, req) \subseteq Threads
    BY DEF LiveSet, MakersOf
  <2>2. IsFiniteSet(Threads)
    BY TreeAssumption
  <2> QED
    BY <1>0, <2>1, <2>2, IdFacts, FS_Subset DEF MakersOf
<1>2. Cardinality(MakersOf(pc, req)) \in Nat \ {0} /\ Cardinality(LiveSet(nodes)) \in Nat
  BY <1>1, FS_EmptySet, FS_CardinalityType
<1> QED
  BY <1>0, <1>2, IdFacts DEF RInv, RoomFor
LEMMA RFindNew ==
    ASSUME LInv, RInv, NEW t, NEW q, NEW r, Moves(t, q, r), RStage(q, r), ~Maker(q, r), q # "idle",
           Maker(pc[t], req[t]), NEW a, a = next_id(nodes, ctr),
           r.entry = a.ctr, r.n = 1, ~r.done, req[t].entry = 0,
           NEW p \in Ids, NEW n, n # Null, lookup_node(nodes, p, n) = 0, Live(nodes, p),
           nodes' = hash_name(WithNode(nodes, a.ctr), a.ctr, p, n), klook' = klook,
           ctr' = a.ctr, gen' = gen + a.wraps, given' = given \cup {<<a.ctr, gen'>>}
    PROVE  Onward
<1>0. case \in Cases /\ RefOK(nodes) /\ t \in Threads
  BY DEF LInv, Threading, RInv, Moves
<1>1. PICK i : i = a.ctr
  OBVIOUS
<1>2. Cardinality(LiveSet(nodes)) <= IdSpace - 3
  BY <1>0, RoomTight
<1>3. ctr \in 0 .. IdSpace - 1 /\ gen \in Nat
  BY DEF RInv, Numbered
<1>4. i \in Ids /\ ~Live(nodes, i) /\ ((a.wraps = 0 /\ i > ctr) \/ a.wraps = 1)
  BY <1>0, <1>1, <1>2, <1>3, NextIs
<1>5. /\ i # Root /\ RefOK(nodes') /\ LiveSet(nodes') \subseteq LiveSet(nodes) \cup {i}
      /\ nodes[i].nlookup = 0 /\ nodes'[i].nlookup = 1 /\ \A j \in Ids \ {i} : nodes'[j].nlookup = nodes[j].nlookup
  <2>1. PICK ns, ms : ns = nodes /\ ms = nodes'
    OBVIOUS
  <2>2. /\ RefOK(ns) /\ ~Live(ns, i) /\ Live(ns, p) /\ lookup_node(ns, p, n) = 0
        /\ ms = hash_name(WithNode(ns, i), i, p, n)
    BY <1>0, <1>1, <1>4, <2>1
  <2>3. NewIn(ns, ms, i, p, n)
    BY <1>0, <1>4, <2>2, MadeNode
  <2> QED
    BY <2>1, <2>3 DEF NewIn
<1>6. RoomFor(nodes', pc', req')
  BY <1>5, RoomMade
<1>7. \A j \in Ids \ {Root} : /\ Load(pc[t], req[t], j) = 0
                             /\ Load(q, r, j) = IF j = i THEN 1 ELSE 0
  BY <1>0, <1>1, IdFacts DEF Load, Carries
<1>8. Balanced(t, q, r)
  <2>1. \A j \in Ids : klook[j] \in Nat /\ nodes[j].nlookup \in Nat
    BY DEF RInv, RefOK, Table, NodeOK
  <2> QED
    BY <1>5, <1>7, <2>1 DEF Balanced
<1>9. \A x \in given : x[1] \in Nat /\ x[2] \in Nat /\ (x[2] < gen \/ (x[2] = gen /\ x[1] <= ctr))
  BY DEF RInv, Numbered
<1>10. IdSpace \in Nat /\ Ids = 1 .. IdSpace - 1
  BY <1>0, IdFacts
<1>11. gen' \in Nat /\ gen' >= gen /\ (gen' = gen => i > ctr) /\ i \in 0 .. IdSpace - 1 /\ i \in Nat
  BY <1>3, <1>4, <1>10
<1>12. Numbered'
  <2>1. \A x \in given : x[2] < gen' \/ (x[2] = gen' /\ x[1] <= i)
    BY <1>3, <1>9, <1>11
  <2>2. \A x \in given' : x[1] \in Nat /\ x[2] \in Nat /\ (x[2] < gen' \/ (x[2] = gen' /\ x[1] <= i))
    BY <1>1, <1>9, <1>11, <2>1
  <2> QED
    BY <1>1, <1>11, <2>2 DEF Numbered
<1>13. <<i, gen'>> \notin given
  BY <1>3, <1>9, <1>11
<1>14. RInv'
  BY <1>5, <1>6, <1>8, <1>12, RMoves DEF RInv
<1> QED
  BY <1>5, <1>13, <1>14 DEF Onward, LiveSet
LEMMA RLookup ==
    ASSUME LInv, RInv, NEW t \in Threads, lookup_path(t)
    PROVE  Onward
<1>0. /\ Loaded(pc[t], req[t]) /\ Holding(pc[t], req[t]) /\ case \in Cases /\ ReqOK(req[t]) /\ RefOK(nodes)
      /\ DOMAIN req = Threads /\ (pc[t] # "idle" => Args(req[t]) /\ req[t].op \in DOMAIN fuse_path_ops)
  BY RFacts
<1>1. pc[t] = "locked" /\ Shape(req[t]) \in {"entry", "link", "create"} /\ UNCHANGED <<klook, case>>
  BY DEF lookup_path
<1>2. req[t].held /\ req[t].entry = 0 /\ ~req[t].done /\ Maker(pc[t], req[t])
  BY <1>0, <1>1 DEF Holding, PathErr, Loaded, Unfound, Maker
<1>3. \/ /\ pc' = [pc EXCEPT ![t] = "free"] /\ UNCHANGED <<nodes, req, ctr, gen, given>>
      \/ Abort(t, "get_node") /\ UNCHANGED <<ctr, gen, given>>
      \/ /\ find_node(t) /\ ~NoParent(req[t])
         /\ pc' = [pc EXCEPT ![t] = IF req[t].op = "create" THEN "found" ELSE "free"]
  BY DEF lookup_path
<1>4. CASE pc' = [pc EXCEPT ![t] = "free"] /\ UNCHANGED <<nodes, req, ctr, gen, given>>
  <2>1. Moves(t, "free", req[t])
    BY <1>1, <1>4, RFacts DEF Moves
  <2>2. Alike(req[t], req[t]) /\ Table(nodes') /\ SameTree(nodes, nodes')
    BY <1>4, FormSame, RFacts DEF SameTree
  <2>3. Loaded("free", req[t]) /\ Holding("free", req[t]) /\ ~Maker("free", req[t])
    BY <1>2 DEF Loaded, Unfound, Holding, Maker
  <2> QED
    BY <1>1, <1>4, <2>1, <2>2, <2>3, AlikeStep
<1>5. CASE Abort(t, "get_node") /\ UNCHANGED <<ctr, gen, given>>
  BY <1>1, <1>2, <1>5, RAbortStep
<1>6. CASE /\ find_node(t) /\ ~NoParent(req[t])
           /\ pc' = [pc EXCEPT ![t] = IF req[t].op = "create" THEN "found" ELSE "free"]
  <2>1. PICK p, n, old, a : /\ p = EntryDir(req[t]) /\ n = EntryName(req[t])
                            /\ old = lookup_node(nodes, p, n) /\ a = next_id(nodes, ctr)
    OBVIOUS
  <2>2. PICK i : i = IF old # 0 THEN old ELSE a.ctr
    OBVIOUS
  <2>3. PICK q, r : /\ q = (IF req[t].op = "create" THEN "found" ELSE "free")
                    /\ r = WithEntry(req[t], i)
    OBVIOUS
  <2>4. p \in Ids /\ n # Null
    BY <1>1, <2>1, EntryArgs
  <2>5. Moves(t, q, r)
    BY <1>0, <1>1, <1>6, <2>1, <2>2, <2>3 DEF Moves, find_node, WithEntry
  <2>6. ASSUME i \in Ids \ {Root}
        PROVE  /\ RStage(q, r) /\ ~Maker(q, r) /\ q # "idle" /\ r.entry = i /\ r.n = 1 /\ ~r.done
    <3>1. Kin(req[t], r) /\ r.done = req[t].done /\ r.n = 1 /\ r.entry = i
      BY <1>0, <2>3, <2>6, FormFound
    <3>2. Args(r) /\ ReqOK(r) /\ Shape(r) = Shape(req[t]) /\ r.held /\ r.op = req[t].op
      BY <1>0, <1>1, <1>2, <3>1, KinFacts DEF Kin, SameHold
    <3>3. req[t].op # "create" => Shape(r) \in {"entry", "link"}
      BY <1>0, <1>1, <3>2, ShapeNames DEF Shape
    <3>4. i # 0
      BY <1>0, <2>6, IdFacts
    <3>5. Loaded(q, r) /\ Holding(q, r)
      BY <1>2, <2>3, <3>1, <3>2, <3>3, <3>4 DEF Loaded, Holding, Unfound
    <3> QED
      BY <1>2, <2>3, <3>1, <3>2, <3>5 DEF RStage, Maker
  <2>7. CASE old # 0
    <3>1. nodes' = [nodes EXCEPT ![i].nlookup = @ + 1] /\ UNCHANGED <<ctr, gen, given>>
      BY <1>6, <2>1, <2>2, <2>7 DEF find_node
    <3>2. i \in Ids \ {Root} /\ nodes[i].parent = p
      BY <1>0, <2>1, <2>2, <2>4, <2>7, LookupIs
    <3>3. nodes[i].nlookup > 0
      BY <1>0, <2>4, <3>2, IdFacts DEF RefOK, Named
    <3> QED
      BY <1>1, <1>2, <2>5, <2>6, <3>1, <3>2, <3>3, RFindOld
  <2>8. CASE old = 0
    <3>1. /\ nodes' = hash_name(WithNode(nodes, i), i, p, n)
          /\ ctr' = i /\ gen' = gen + a.wraps /\ given' = given \cup {<<i, gen'>>}
      BY <1>6, <2>1, <2>2, <2>8 DEF find_node, WithNode, Made
    <3>2. Live(nodes, p)
      BY <1>6, <2>1, <2>8 DEF NoParent
    <3>3. i = a.ctr
      BY <2>2, <2>8
    <3>4. i \in Ids \ {Root}
      <4>1. RoomFor(nodes, pc, req) /\ ctr \in 0 .. IdSpace - 1
        BY DEF RInv, Numbered
      <4>2. Cardinality(LiveSet(nodes)) <= IdSpace - 3
        BY <1>2, RoomTight
      <4>3. i \in Ids /\ ~Live(nodes, i)
        BY <1>0, <2>1, <3>3, <4>1, <4>2, NextIs
      <4> QED
        BY <1>0, <4>3, DeadFacts
    <3>5. /\ nodes' = hash_name(WithNode(nodes, a.ctr), a.ctr, p, n) /\ ctr' = a.ctr
          /\ gen' = gen + a.wraps /\ given' = given \cup {<<a.ctr, gen'>>}
      BY <3>1, <3>3
    <3>6. RStage(q, r) /\ ~Maker(q, r) /\ q # "idle" /\ r.entry = a.ctr /\ r.n = 1 /\ ~r.done
      BY <2>6, <3>3, <3>4
    <3>7. lookup_node(nodes, p, n) = 0
      BY <2>1, <2>8
    <3> QED
      BY <1>1, <1>2, <2>1, <2>4, <2>5, <3>2, <3>5, <3>6, <3>7, RFindNew
  <2> QED
    BY <2>7, <2>8
<1> QED
  BY <1>3, <1>4, <1>5, <1>6

----------------------------------------------------------------------------
\* The requests of the kernel.
Asks(r, op) ==
    /\ ReqOK(r) /\ r.op = op /\ r.entry = 0 /\ r.n = 0 /\ ~r.held /\ ~r.killed /\ ~r.done
    /\ r.wnode = 0 /\ r.wnode2 = 0
OneVictim(op, i, n) == IF fuse_path_ops[op] \in {"unlink", "rmdir"} THEN lookup_node(nodes, i, n) ELSE 0
TwoVictim(op, j, m) == IF fuse_path_ops[op] = "rename" THEN lookup_node(nodes, j, m) ELSE 0
LEMMA OneIs ==
    ASSUME case \in Cases, NEW op, NEW i \in Ids, NEW n, NEW r, r = OneRequest(op, i, n)
    PROVE  /\ Asks(r, op) /\ r.ino = i /\ r.name = n /\ r.ino2 = 0
           /\ r.victim = OneVictim(op, i, n)
<1>1. PICK v : v = OneVictim(op, i, n)
  OBVIOUS
<1>2. r = [NoReq EXCEPT !.op = op, !.ino = i, !.name = n, !.victim = v]
  BY <1>1 DEF OneRequest, OneVictim
<1>3. /\ r.op = op /\ r.ino = i /\ r.name = n /\ r.victim = v /\ r.ino2 = 0 /\ r.entry = 0 /\ r.n = 0
      /\ ~r.held /\ ~r.killed /\ ~r.done /\ r.wnode = 0 /\ r.wnode2 = 0
      /\ ReqKeys \subseteq DOMAIN r /\ r.held \in BOOLEAN /\ r.killed \in BOOLEAN /\ r.done \in BOOLEAN
  BY <1>2 DEF NoReq, ReqKeys
<1>4. ReqOK(r)
  BY <1>3 DEF ReqOK
<1> QED
  BY <1>1, <1>3, <1>4 DEF Asks
LEMMA TwoIs ==
    ASSUME case \in Cases, NEW op, NEW i \in Ids, NEW n, NEW j \in Ids, NEW m, NEW r, r = TwoRequest(op, i, n, j, m)
    PROVE  /\ Asks(r, op) /\ r.ino = i /\ r.name = n /\ r.ino2 = j /\ r.name2 = m
           /\ r.victim = TwoVictim(op, j, m)
<1>1. PICK v : v = TwoVictim(op, j, m)
  OBVIOUS
<1>2. r = [NoReq EXCEPT !.op = op, !.ino = i, !.name = n, !.ino2 = j, !.name2 = m, !.victim = v]
  BY <1>1 DEF TwoRequest, TwoVictim
<1>3. /\ r.op = op /\ r.ino = i /\ r.name = n /\ r.victim = v /\ r.ino2 = j /\ r.name2 = m
      /\ r.entry = 0 /\ r.n = 0
      /\ ~r.held /\ ~r.killed /\ ~r.done /\ r.wnode = 0 /\ r.wnode2 = 0
      /\ ReqKeys \subseteq DOMAIN r /\ r.held \in BOOLEAN /\ r.killed \in BOOLEAN /\ r.done \in BOOLEAN
  BY <1>2 DEF NoReq, ReqKeys
<1>4. ReqOK(r)
  BY <1>3 DEF ReqOK
<1> QED
  BY <1>1, <1>3, <1>4 DEF Asks
WithLock(r, fl) == [r EXCEPT !.lock = fl]
LEMMA LockIs ==
    ASSUME NEW op, NEW x, Asks(x, op), NEW fl, NEW r, r = WithLock(x, fl)
    PROVE  Asks(r, op) /\ r.ino = x.ino /\ r.name = x.name /\ r.ino2 = x.ino2 /\ r.victim = x.victim
<1>1. /\ r.op = x.op /\ r.ino = x.ino /\ r.name = x.name /\ r.victim = x.victim /\ r.ino2 = x.ino2
      /\ r.entry = x.entry /\ r.n = x.n
      /\ r.held = x.held /\ r.killed = x.killed /\ r.done = x.done /\ r.wnode = x.wnode /\ r.wnode2 = x.wnode2
      /\ ReqKeys \subseteq DOMAIN r
  BY DEF Asks, ReqOK, ReqKeys, WithLock
<1>2. ReqOK(r)
  BY <1>1 DEF ReqOK, Asks
<1> QED
  BY <1>1, <1>2 DEF Asks

\* What the kernel may ask for.
LEMMA RequestIs ==
    ASSUME case \in Cases, NEW op \in case.sent, NEW r \in Requests(op)
    PROVE  /\ Asks(r, op) /\ Args(r) /\ r.ino \in Ids
           /\ r.victim = IF fuse_path_ops[op] \in {"unlink", "rmdir"} THEN lookup_node(nodes, r.ino, r.name)
                         ELSE IF fuse_path_ops[op] = "rename" THEN lookup_node(nodes, r.ino2, r.name2) ELSE 0
<1>0. /\ op \in DOMAIN fuse_path_ops /\ Null \notin Names /\ case.opened \in {0} \cup DOMAIN case.tree
      /\ DOMAIN case.tree \subseteq 2 .. case.ctr /\ case.ctr \in 1 .. Unknown - 1 /\ IdSpace \in Nat
  BY TreeAssumption DEF Null
<1>1. PICK s : s = fuse_path_ops[op]
  OBVIOUS
<1>2. /\ s = "link" <=> op = "link"
      /\ s = "rename" <=> op = "rename"
  BY <1>0, <1>1, ShapeNames
<1>3. CASE s \in {"entry", "create", "unlink", "rmdir"}
  <2>1. PICK i \in Ids, n \in Names : r = OneRequest(op, i, n)
    BY <1>1, <1>3 DEF Requests
  <2>2. /\ Asks(r, op) /\ r.ino = i /\ r.name = n /\ r.ino2 = 0
        /\ r.victim = OneVictim(op, i, n)
    BY <2>1, OneIs
  <2>3. Args(r)
    BY <1>0, <1>1, <1>2, <1>3, <2>1, <2>2 DEF Args, Asks, Shape, TwoPathOps
  <2> QED
    BY <1>1, <1>3, <2>2, <2>3 DEF OneVictim
<1>4. CASE s = "link"
  <2>1. PICK i \in Ids, j \in Ids, m \in Names : r = TwoRequest(op, i, Null, j, m)
    BY <1>1, <1>4 DEF Requests
  <2>2. /\ Asks(r, op) /\ r.ino = i /\ r.name = Null /\ r.ino2 = j /\ r.name2 = m
        /\ r.victim = TwoVictim(op, j, m)
    BY <2>1, TwoIs
  <2>3. Args(r)
    BY <1>0, <1>1, <1>2, <1>4, <2>1, <2>2 DEF Args, Asks, Shape, TwoPathOps
  <2> QED
    BY <1>1, <1>4, <2>2, <2>3 DEF TwoVictim
<1>5. CASE s = "rename"
  <2>1. PICK i \in Ids, j \in Ids, n \in Names, m \in Names : r = TwoRequest(op, i, n, j, m)
    BY <1>1, <1>5 DEF Requests
  <2>2. /\ Asks(r, op) /\ r.ino = i /\ r.name = n /\ r.ino2 = j /\ r.name2 = m
        /\ r.victim = TwoVictim(op, j, m)
    BY <2>1, TwoIs
  <2>3. Args(r)
    BY <1>0, <1>1, <1>2, <1>5, <2>1, <2>2 DEF Args, Asks, Shape, TwoPathOps
  <2> QED
    BY <1>1, <1>5, <2>2, <2>3 DEF TwoVictim
<1>6. CASE case.opened # 0 /\ s \in {"lock", "flush", "release"}
  <2>1. PICK fl : r = WithLock(OneRequest(op, case.opened, Null), fl)
    BY <1>1, <1>6 DEF Requests, WithLock
  <2>2. PICK x : x = OneRequest(op, case.opened, Null)
    OBVIOUS
  <2>3. case.opened \in Ids
    BY <1>0, <1>6 DEF Ids, Unknown
  <2>4. /\ Asks(x, op) /\ x.ino = case.opened /\ x.ino2 = 0
        /\ x.victim = OneVictim(op, case.opened, Null)
    BY <2>2, <2>3, OneIs
  <2>5. Asks(r, op) /\ r.ino = case.opened /\ r.ino2 = 0 /\ r.victim = 0
    BY <1>1, <1>6, <2>1, <2>2, <2>4, LockIs DEF OneVictim
  <2>6. Args(r)
    BY <1>0, <1>1, <1>2, <1>6, <2>3, <2>5 DEF Args, Asks, Shape, TwoPathOps
  <2> QED
    BY <1>1, <1>6, <2>3, <2>5, <2>6
<1>7. CASE /\ s \notin {"entry", "create", "unlink", "rmdir", "link", "rename"}
           /\ ~(case.opened # 0 /\ s \in {"lock", "flush", "release"})
  <2>1. PICK i \in Ids : r = OneRequest(op, i, Null)
    BY <1>1, <1>7 DEF Requests
  <2>2. /\ Asks(r, op) /\ r.ino = i /\ r.name = Null /\ r.ino2 = 0
        /\ r.victim = OneVictim(op, i, Null)
    BY <2>1, OneIs
  <2>3. Args(r)
    BY <1>0, <1>1, <1>2, <1>7, <2>1, <2>2 DEF Args, Asks, Shape, TwoPathOps
  <2> QED
    BY <1>1, <1>7, <2>2, <2>3 DEF OneVictim
<1> QED
  BY <1>3, <1>4, <1>5, <1>6, <1>7

\* The bound on requests leaves room for what they make.
LEMMA RoomSent ==
    ASSUME LInv, RInv, NEW t, NEW p, NEW r, Moves(t, p, r), Room, nodes' = nodes
    PROVE  RoomFor(nodes', pc', req')
<1>0. case \in Cases
  BY DEF LInv, Threading
<1>1. /\ pc'[t] = p /\ req'[t] = r /\ t \in Threads
      /\ \A u \in Threads \ {t} : pc'[u] = pc[u] /\ req'[u] = req[u]
  BY MovesFacts
<1>2. PICK B : B = {u \in Threads : pc[u] # "idle"}
  OBVIOUS
<1>3. MakersOf(pc', req') \subseteq B \cup {t}
  BY <1>1, <1>2 DEF MakersOf, Maker
<1>4. IsFiniteSet(B) /\ IsFiniteSet(LiveSet(nodes))
  <2>1. LiveSet(nodes) \subseteq Ids /\ B \subseteq Threads
    BY <1>2 DEF LiveSet
  <2>2. IsFiniteSet(Threads)
    BY TreeAssumption
  <2> QED
    BY <1>0, <2>1, <2>2, IdFacts, FS_Subset
<1>5. /\ Cardinality(MakersOf(pc', req')) <= Cardinality(B) + 1
      /\ Cardinality(MakersOf(pc', req')) \in Nat /\ Cardinality(B) \in Nat /\ Cardinality(LiveSet(nodes)) \in Nat
  <2>1. PICK X : X = B \cup {t}
    OBVIOUS
  <2>2. IsFiniteSet(X) /\ Cardinality(X) <= Cardinality(B) + 1 /\ Cardinality(X) \in Nat /\ Cardinality(B) \in Nat
    <3>1. t \in B => X = B
      BY <2>1
    <3>2. t \notin B => IsFiniteSet(X) /\ Cardinality(X) = Cardinality(B) + 1
      BY <1>4, <2>1, FS_AddElement
    <3>3. Cardinality(B) \in Nat
      BY <1>4, FS_CardinalityType
    <3> QED
      BY <1>4, <3>1, <3>2, <3>3
  <2>3. Cardinality(MakersOf(pc', req')) <= Cardinality(X) /\ Cardinality(MakersOf(pc', req')) \in Nat
    BY <1>3, <2>1, <2>2, FS_Subset, FS_CardinalityType
  <2> QED
    BY <1>4, <2>2, <2>3, FS_CardinalityType
<1>6. IdSpace \in Nat /\ Cardinality(LiveSet(nodes)) + Cardinality(B) < IdSpace - 2
  BY <1>0, <1>2, IdFacts DEF Room, LiveSet
<1> QED
  BY <1>5, <1>6 DEF RoomFor
LEMMA RSend ==
    ASSUME LInv, RInv, NEW op, KernelSend(op)
    PROVE  Onward
<1>0. CanSend /\ op \in case.sent /\ op # "forget" /\ case \in Cases
  BY DEF KernelSend, LInv, Threading
<1>1. PICK t \in Threads : t = Taker /\ pc[t] = "idle"
  BY <1>0, TakerIdle
<1>2. PICK r \in Requests(op), p \in {"getlk", "start"} :
        /\ p = "getlk" => op = "getlk"
        /\ pc' = [pc EXCEPT ![t] = p] /\ req' = [req EXCEPT ![t] = r]
  BY <1>1 DEF KernelSend
<1>3. UNCHANGED <<nodes, klook, ctr, gen, given, case>>
  BY DEF KernelSend, fvars
<1>4. Asks(r, op) /\ Args(r)
  BY <1>0, <1>2, RequestIs
<1>5. op \in DOMAIN fuse_path_ops
  BY <1>0, TreeAssumption
<1>6. p = "getlk" => Shape(r) = "lock"
  BY <1>2, <1>4, <1>5, ShapeNames DEF Shape, Asks
<1>7. RStage(p, r)
  BY <1>2, <1>4, <1>6 DEF RStage, Asks, Loaded, Holding, Unfound
<1>8. Moves(t, p, r)
  BY <1>1, <1>2, <1>3 DEF Moves
<1>9. req[t] = NoReq
  BY <1>1, RFacts DEF RStage
<1>10. req[t].entry = 0 /\ r.entry = 0
  BY <1>0, <1>4, <1>9, NoReqStage DEF Asks
<1>11. Balanced(t, p, r)
  <2>1. SameLoad(pc[t], req[t], p, r)
    BY <1>10 DEF SameLoad
  <2> QED
    BY <1>0, <1>3, <2>1, SameLoadFacts DEF Balanced
<1>12. RoomFor(nodes', pc', req')
  <2>1. CASE fuse_path_ops[op] \in {"entry", "create", "link"}
    <3>1. Room
      BY <2>1 DEF KernelSend
    <3> QED
      BY <1>3, <1>8, <3>1, RoomSent
  <2>2. CASE fuse_path_ops[op] \notin {"entry", "create", "link"}
    <3>1. ~Maker(p, r)
      BY <1>4, <2>2 DEF Maker, Asks, Shape
    <3> QED
      BY <1>3, <1>8, <3>1, RoomSame
  <2> QED
    BY <2>1, <2>2
<1>13. klook' \in [Ids -> Nat] /\ Numbered' /\ RefOK(nodes')
  BY <1>3 DEF RInv, Numbered
<1> QED
  BY <1>3, <1>7, <1>8, <1>11, <1>12, <1>13, RMoves, NoneNew

LEMMA RKernelForget ==
    ASSUME LInv, RInv, NEW i \in Ids, KernelForget(i)
    PROVE  Onward
<1>0. CanSend /\ "forget" \in case.sent /\ i # Root /\ klook[i] > 0 /\ case \in Cases
  BY DEF KernelForget, LInv, Threading
<1>1. PICK t \in Threads : t = Taker /\ pc[t] = "idle"
  BY <1>0, TakerIdle
<1>2. PICK k \in Nat : k = klook[i]
  BY DEF RInv
<1>3. PICK r : r = [NoReq EXCEPT !.op = "forget", !.entry = i, !.n = k]
  OBVIOUS
<1>4. /\ pc' = [pc EXCEPT ![t] = "forget"] /\ req' = [req EXCEPT ![t] = r]
      /\ klook' = [klook EXCEPT ![i] = 0] /\ UNCHANGED <<nodes, ctr, gen, given, case>>
  BY <1>1, <1>2, <1>3 DEF KernelForget, fvars
<1>5. /\ r.op = "forget" /\ r.entry = i /\ r.n = k /\ ~r.held /\ ~r.done
      /\ ReqKeys \subseteq DOMAIN r /\ r.held \in BOOLEAN /\ r.killed \in BOOLEAN /\ r.done \in BOOLEAN
      /\ r.ino = 0 /\ r.ino2 = 0
  BY <1>3 DEF NoReq, ReqKeys
<1>6. Shape(r) = "forget" /\ i # 0
  BY <1>0, <1>5, ShapeOf, IdFacts DEF Shape
<1>7. RStage("forget", r)
  BY <1>0, <1>2, <1>5, <1>6 DEF RStage, ReqOK, Loaded, Holding, Unfound, Args
<1>8. Moves(t, "forget", r)
  BY <1>1, <1>4 DEF Moves
<1>9. klook' \in [Ids -> Nat] /\ klook'[i] = 0 /\ \A j \in Ids \ {i} : klook'[j] = klook[j]
  BY <1>4 DEF RInv
<1>10. Balanced(t, "forget", r)
  <2>1. \A j \in Ids : klook[j] \in Nat /\ nodes[j].nlookup \in Nat
    BY DEF RInv, RefOK, Table, NodeOK
  <2>2. \A j \in Ids \ {Root} : Load(pc[t], req[t], j) = 0 /\ Load("forget", r, j) = IF j = i THEN k ELSE 0
    BY <1>1, <1>5 DEF Load, Carries
  <2> QED
    BY <1>2, <1>4, <1>9, <2>1, <2>2 DEF Balanced
<1>11. RoomFor(nodes', pc', req')
  BY <1>4, <1>8, RoomSame DEF Maker
<1>12. Numbered' /\ RefOK(nodes')
  BY <1>4 DEF RInv, Numbered
<1> QED
  BY <1>4, <1>7, <1>8, <1>9, <1>10, <1>11, <1>12, RMoves, NoneNew

LEMMA RGiveUp ==
    ASSUME LInv, RInv, NEW t \in Threads, KernelGiveUp(t)
    PROVE  Onward
<1>0. /\ RStage(pc[t], req[t]) /\ ReqOK(req[t]) /\ DOMAIN req = Threads /\ pc = [pc EXCEPT ![t] = pc[t]]
      /\ Table(nodes) /\ Loaded(pc[t], req[t]) /\ Holding(pc[t], req[t])
  BY RFacts
<1>1. pc[t] # "idle" /\ UNCHANGED <<nodes, klook, ctr, gen, given, case, pc>>
  BY DEF KernelGiveUp, InService, fvars, kvars
<1>2. PICK r : r = [req[t] EXCEPT !.killed = TRUE]
  OBVIOUS
<1>3. Moves(t, pc[t], r)
  BY <1>0, <1>1, <1>2 DEF Moves, KernelGiveUp
<1>4. Alike(req[t], r) /\ SameHold(req[t], r) /\ r.hide = req[t].hide
  BY <1>0, <1>2, FormKilled
<1>5. Holding(pc[t], r) /\ (pc[t] = "hiding" => r.hide # Null)
  <2>1. PathErr(r) <=> PathErr(req[t])
    BY <1>4, AlikeFacts
  <2> QED
    BY <1>0, <1>4, <2>1 DEF Holding, SameHold, Alike, RStage
<1>6. Table(nodes') /\ SameTree(nodes, nodes')
  BY <1>0, <1>1 DEF SameTree
<1> QED
  BY <1>0, <1>1, <1>3, <1>4, <1>5, <1>6, AlikeStep

----------------------------------------------------------------------------
\* The table at the start.
FirstNode(T, o, n, i) ==
    /\ NodeKeys \subseteq DOMAIN n
    /\ n.parent = IF i \in DOMAIN T THEN T[i][1] ELSE 0
    /\ n.name = IF i = Root THEN <<"/", 0>> ELSE IF i \in DOMAIN T THEN T[i][2] ELSE Null
    /\ n.nlookup = IF i = Root \/ i \in DOMAIN T THEN 1 ELSE 0
    /\ n.refctr = IF i = Root \/ i \in DOMAIN T THEN 1 + Kids(T, i) ELSE 0
    /\ n.open = IF i = o THEN 1 ELSE 0
    /\ n.treelock = 0 /\ n.ticket = 0 /\ ~n.hidden /\ n.hidden \in BOOLEAN
LEMMA TreeFacts ==
    ASSUME case \in Cases
    PROVE  /\ DOMAIN case.tree \subseteq 2 .. case.ctr /\ case.ctr \in 1 .. Unknown - 1
           /\ case.opened \in {0} \cup DOMAIN case.tree
           /\ DOMAIN case.tree \subseteq Ids \ {Root} /\ Null \notin Names
           /\ \A i \in DOMAIN case.tree :
                /\ case.tree[i][1] \in {Root} \cup DOMAIN case.tree /\ case.tree[i][1] < i
                /\ case.tree[i][2] \in Names /\ case.tree[i][3] \in BOOLEAN
                /\ \A j \in DOMAIN case.tree :
                     case.tree[i][1] = case.tree[j][1] /\ case.tree[i][2] = case.tree[j][2] => i = j
<1>1. /\ DOMAIN case.tree \subseteq 2 .. case.ctr /\ case.ctr \in 1 .. Unknown - 1 /\ IdSpace \in Nat
      /\ case.opened \in {0} \cup DOMAIN case.tree /\ Null \notin Names
  BY TreeAssumption DEF Null
<1>2. \A i \in DOMAIN case.tree :
        /\ case.tree[i][1] \in {Root} \cup DOMAIN case.tree /\ case.tree[i][1] < i
        /\ case.tree[i][2] \in Names /\ case.tree[i][3] \in BOOLEAN
        /\ \A j \in DOMAIN case.tree :
             case.tree[i][1] = case.tree[j][1] /\ case.tree[i][2] = case.tree[j][2] => i = j
  BY TreeAssumption
<1>3. DOMAIN case.tree \subseteq Ids \ {Root}
  BY <1>1 DEF Ids, Root, Unknown
<1> QED
  BY <1>1, <1>2, <1>3
LEMMA FirstIs ==
    ASSUME Init, NEW i \in Ids
    PROVE  FirstNode(case.tree, case.opened, nodes[i], i)
<1>0. /\ case \in Cases
      /\ nodes = [j \in Ids |-> IF j = Root THEN RootNode(case.tree)
                                ELSE IF j = case.opened THEN [TreeNode(case.tree, j) EXCEPT !.open = 1]
                                ELSE IF j \in DOMAIN case.tree THEN TreeNode(case.tree, j) ELSE NoNode]
  BY DEF Init
<1>1. PICK T, o, n : T = case.tree /\ o = case.opened /\ n = nodes[i]
  OBVIOUS
<1>2. DOMAIN T \subseteq Ids \ {Root} /\ o \in {0} \cup DOMAIN T /\ 0 \notin Ids /\ Root \in Ids
  BY <1>0, <1>1, TreeFacts, IdFacts
<1>3. n = IF i = Root THEN RootNode(T)
          ELSE IF i = o THEN [TreeNode(T, i) EXCEPT !.open = 1]
          ELSE IF i \in DOMAIN T THEN TreeNode(T, i) ELSE NoNode
  BY <1>0, <1>1, Zenon
<1>4. CASE i = Root
  <2>1. PICK k : k = Kids(T, i)
    OBVIOUS
  <2>2. n = [NewNode(0, <<"/", 0>>) EXCEPT !.nlookup = 1, !.refctr = 1 + k]
    BY <1>3, <1>4, <2>1 DEF RootNode
  <2>3. /\ NodeKeys \subseteq DOMAIN n /\ n.parent = 0 /\ n.name = <<"/", 0>> /\ n.nlookup = 1 /\ n.refctr = 1 + k
        /\ n.open = 0 /\ n.treelock = 0 /\ n.ticket = 0 /\ ~n.hidden /\ n.hidden \in BOOLEAN
    BY <2>2 DEF NewNode, NodeKeys
  <2>4. i # o /\ i \notin DOMAIN T
    BY <1>2, <1>4
  <2> QED
    BY <1>1, <1>4, <2>1, <2>3, <2>4 DEF FirstNode
<1>5. CASE i # Root /\ i \in DOMAIN T
  <2>1. PICK k, a, b, x : k = Kids(T, i) /\ a = T[i][1] /\ b = T[i][2] /\ x = TreeNode(T, i)
    OBVIOUS
  <2>2. x = [NewNode(a, b) EXCEPT !.nlookup = 1, !.refctr = 1 + k]
    BY <2>1 DEF TreeNode
  <2>3. /\ NodeKeys \subseteq DOMAIN x /\ x.parent = a /\ x.name = b /\ x.nlookup = 1 /\ x.refctr = 1 + k
        /\ x.open = 0 /\ x.treelock = 0 /\ x.ticket = 0 /\ ~x.hidden /\ x.hidden \in BOOLEAN
    BY <2>2 DEF NewNode, NodeKeys
  <2>4. n = IF i = o THEN [x EXCEPT !.open = 1] ELSE x
    BY <1>3, <1>5, <2>1
  <2>5. /\ NodeKeys \subseteq DOMAIN n /\ n.parent = a /\ n.name = b /\ n.nlookup = 1 /\ n.refctr = 1 + k
        /\ n.treelock = 0 /\ n.ticket = 0 /\ ~n.hidden /\ n.hidden \in BOOLEAN
        /\ n.open = IF i = o THEN 1 ELSE 0
    BY <2>3, <2>4 DEF NodeKeys
  <2> QED
    BY <1>1, <1>5, <2>1, <2>5 DEF FirstNode
<1>6. CASE i # Root /\ i \notin DOMAIN T
  <2>1. i # o
    BY <1>2, <1>6
  <2>2. n = NoNode
    BY <1>3, <1>6, <2>1
  <2>3. /\ NodeKeys \subseteq DOMAIN n /\ n.parent = 0 /\ n.name = Null /\ n.nlookup = 0 /\ n.refctr = 0
        /\ n.open = 0 /\ n.treelock = 0 /\ n.ticket = 0 /\ ~n.hidden /\ n.hidden \in BOOLEAN
    BY <2>2 DEF NoNode, NewNode, NodeKeys
  <2> QED
    BY <1>1, <1>6, <2>1, <2>3 DEF FirstNode
<1> QED
  BY <1>4, <1>5, <1>6
LEMMA FirstTable ==
    ASSUME Init
    PROVE  RefOK(nodes) /\ LiveSet(nodes) \subseteq 1 .. case.ctr
<1>0. case \in Cases /\ DOMAIN nodes = Ids
  BY DEF Init
<1>1. PICK T, o : T = case.tree /\ o = case.opened
  OBVIOUS
<1>2. \A i \in Ids : FirstNode(T, o, nodes[i], i)
  BY <1>1, FirstIs
<1>3. /\ DOMAIN T \subseteq Ids \ {Root} /\ 0 \notin Ids /\ Root \in Ids /\ Null \notin Names /\ Ids \subseteq Nat
      /\ \A i \in DOMAIN T : /\ T[i][1] \in {Root} \cup DOMAIN T /\ T[i][2] \in Names
                             /\ \A j \in DOMAIN T : T[i][1] = T[j][1] /\ T[i][2] = T[j][2] => i = j
  BY <1>0, <1>1, TreeFacts, IdFacts
<1>4. \A i \in Ids : KidsOf(nodes, i) = {c \in DOMAIN T : T[c][1] = i}
  <2>1. \A c \in Ids : nodes[c].parent = IF c \in DOMAIN T THEN T[c][1] ELSE 0
    BY <1>2 DEF FirstNode
  <2> QED
    BY <1>3, <2>1 DEF KidsOf
<1>5. \A i \in Ids : Kids(T, i) = Cardinality(KidsOf(nodes, i)) /\ Kids(T, i) \in Nat
  <2>1. \A i \in Ids : Kids(T, i) = Cardinality(KidsOf(nodes, i))
    BY <1>4 DEF Kids
  <2> QED
    BY <1>0, <2>1, KidsFinite
<1>6. Table(nodes)
  <2> SUFFICES ASSUME NEW i \in Ids PROVE NodeOK(nodes[i])
    BY <1>0 DEF Table
  <2>1. FirstNode(T, o, nodes[i], i) /\ Kids(T, i) \in Nat
    BY <1>2, <1>5
  <2>2. nodes[i].parent \in Ids \cup {0}
    BY <1>3, <2>1 DEF FirstNode
  <2>3. nodes[i].refctr \in Nat /\ nodes[i].nlookup \in Nat /\ nodes[i].open \in Nat
    BY <2>1 DEF FirstNode
  <2> QED
    BY <2>1, <2>2, <2>3 DEF FirstNode, NodeOK
<1>7. Counted(nodes)
  <2> SUFFICES ASSUME NEW i \in Ids PROVE nodes[i].refctr = Cardinality(KidsOf(nodes, i)) + Looked(nodes[i])
    BY DEF Counted
  <2>1. FirstNode(T, o, nodes[i], i) /\ Kids(T, i) \in Nat /\ Kids(T, i) = Cardinality(KidsOf(nodes, i))
    BY <1>2, <1>5
  <2>2. CASE i = Root \/ i \in DOMAIN T
    BY <2>1, <2>2 DEF FirstNode, Looked
  <2>3. CASE ~(i = Root \/ i \in DOMAIN T)
    <3>1. KidsOf(nodes, i) = {}
      BY <1>3, <1>4, <2>3
    <3>2. Cardinality(KidsOf(nodes, i)) = 0
      BY <3>1, FS_EmptySet
    <3> QED
      BY <2>1, <2>3, <3>2 DEF FirstNode, Looked
  <2> QED
    BY <2>2, <2>3
<1>8. Named(nodes)
  <2>1. <<"/", 0>> # Null
    BY DEF Null
  <2>2. nodes[Root].parent = 0 /\ nodes[Root].nlookup = 1 /\ nodes[Root].name # Null
    BY <1>2, <1>3, <2>1 DEF FirstNode
  <2>3. ASSUME NEW i \in Ids \ {Root}
        PROVE  (nodes[i].name = Null <=> nodes[i].parent = 0) /\ (nodes[i].parent # 0 => nodes[i].nlookup > 0)
    <3>1. FirstNode(T, o, nodes[i], i)
      BY <1>2
    <3> QED
      BY <1>3, <3>1 DEF FirstNode
  <2> QED
    BY <2>2, <2>3 DEF Named
<1>9. Once(nodes)
  <2> SUFFICES ASSUME NEW i \in Ids \ {Root}, NEW j \in Ids \ {Root}, nodes[i].parent # 0,
                      nodes[i].parent = nodes[j].parent, nodes[i].name = nodes[j].name
               PROVE  i = j
    BY DEF Once
  <2>1. FirstNode(T, o, nodes[i], i) /\ FirstNode(T, o, nodes[j], j)
    BY <1>2
  <2>2. i \in DOMAIN T /\ j \in DOMAIN T
    BY <2>1 DEF FirstNode
  <2> QED
    BY <1>3, <2>1, <2>2 DEF FirstNode
<1>10. LiveSet(nodes) \subseteq 1 .. case.ctr
  <2>1. \A i \in Ids : Live(nodes, i) => i = Root \/ i \in DOMAIN T
    BY <1>2 DEF FirstNode, Live
  <2>2. DOMAIN T \subseteq 1 .. case.ctr /\ Root \in 1 .. case.ctr
    BY <1>0, <1>1, TreeFacts DEF Root, Unknown
  <2> QED
    BY <2>1, <2>2 DEF LiveSet
<1> QED
  BY <1>6, <1>7, <1>8, <1>9, <1>10 DEF RefOK

LEMMA RInvInit == Init => RInv
<1> SUFFICES ASSUME Init PROVE RInv
  OBVIOUS
<1>0. /\ case \in Cases /\ pc = [t \in Threads |-> "idle"] /\ req = [t \in Threads |-> NoReq]
      /\ klook = [i \in Ids |-> IF i \in DOMAIN case.tree THEN 1 ELSE 0]
      /\ ctr = case.ctr /\ gen = 0 /\ given = {<<i, 0>> : i \in 1 .. case.ctr}
  BY DEF Init
<1>1. RefOK(nodes) /\ LiveSet(nodes) \subseteq 1 .. case.ctr
  BY FirstTable
<1>2. klook \in [Ids -> Nat]
  BY <1>0
<1>3. \A t \in Threads : RStage(pc[t], req[t])
  BY <1>0, NoReqStage
<1>4. \A i : Cardinality(Flight(pc, req, i)) = 0
  <2>1. \A i : Flight(pc, req, i) = {}
    BY <1>0 DEF Flight, Carries
  <2> QED
    BY <2>1, FS_EmptySet
<1>5. FlightsOK(nodes, pc, req, klook)
  <2> SUFFICES ASSUME NEW i \in Ids \ {Root} PROVE nodes[i].nlookup = klook[i] + Cardinality(Flight(pc, req, i))
    BY DEF FlightsOK
  <2>1. FirstNode(case.tree, case.opened, nodes[i], i)
    BY FirstIs
  <2>2. nodes[i].nlookup = klook[i] /\ klook[i] \in Nat
    BY <1>0, <2>1 DEF FirstNode
  <2> QED
    BY <1>4, <2>2
<1>6. RoomFor(nodes, pc, req)
  <2>1. MakersOf(pc, req) = {}
    BY <1>0 DEF MakersOf, Maker
  <2>2. Cardinality(MakersOf(pc, req)) = 0
    BY <2>1, FS_EmptySet
  <2>3. case.ctr \in 1 .. IdSpace - 2 /\ IdSpace \in Nat
    BY <1>0, TreeFacts, IdFacts
  <2>4. IsFiniteSet(1 .. case.ctr) /\ Cardinality(1 .. case.ctr) = case.ctr
    BY <2>3, FS_Interval
  <2>5. Cardinality(LiveSet(nodes)) <= case.ctr /\ Cardinality(LiveSet(nodes)) \in Nat
    <3>1. PICK X : X = 1 .. case.ctr
      OBVIOUS
    <3>2. IsFiniteSet(X) /\ LiveSet(nodes) \subseteq X
      BY <1>1, <2>4, <3>1
    <3>3. IsFiniteSet(LiveSet(nodes)) /\ Cardinality(LiveSet(nodes)) <= Cardinality(X)
      BY <3>2, FS_Subset
    <3> QED
      BY <2>4, <3>1, <3>3, FS_CardinalityType
  <2> QED
    BY <2>2, <2>3, <2>5 DEF RoomFor
<1>7. Numbered
  <2>1. case.ctr \in 1 .. IdSpace - 2 /\ IdSpace \in Nat
    BY <1>0, TreeFacts, IdFacts
  <2>2. ctr \in 0 .. IdSpace - 1 /\ gen \in Nat
    BY <1>0, <2>1
  <2>3. ASSUME NEW x \in given
        PROVE  x[1] \in Nat /\ x[2] \in Nat /\ (x[2] < gen \/ (x[2] = gen /\ x[1] <= ctr))
    <3>1. PICK i \in 1 .. case.ctr : x = <<i, 0>>
      BY <1>0, <2>3
    <3> QED
      BY <1>0, <2>1, <3>1
  <2> QED
    BY <2>2, <2>3 DEF Numbered
<1> QED
  BY <1>1, <1>2, <1>3, <1>5, <1>6, <1>7 DEF RInv

\* Every step keeps the invariant, and makes nodes with new ids only.
LEMMA RSame ==
    ASSUME LInv, RInv, UNCHANGED <<nodes, klook, ctr, gen, given, case, pc, req>>
    PROVE  Onward
<1>1. RInv'
  BY DEF RInv, Numbered
<1> QED
  BY <1>1, NoneNew
LEMMA RInvNext == LInv /\ RInv /\ [Next]_vars => Onward
<1> SUFFICES ASSUME LInv, RInv, [Next]_vars PROVE Onward
  OBVIOUS
<1>1. ASSUME NEW t \in Threads, ThreadStep(t) PROVE Onward
  BY <1>1, RPath, RFree, RLookup, RReplyEntry, ROpen, RCountOpen, RReplyOpen, RRelease, RUnhide, RGetlk,
     RLockCommon, RFlush, RList, RHideName, RHide, RChange, RForget DEF ThreadStep
<1>2. CASE fuse_destroy
  BY <1>2, RSame DEF fuse_destroy, fvars
<1>3. CASE UNCHANGED vars
  BY <1>3, RSame DEF vars, fvars, kvars
<1> QED
  BY <1>1, <1>2, <1>3, RSend, RKernelForget, RGiveUp DEF Next

\* The ids of a generation are given out once: next_id never returns to an
\* id before its counter has passed 0, and then the generation is new.
THEOREM IdsOnce == Spec => EntryOnce
<1>1. Init => LInv /\ RInv
  BY LInvInit, RInvInit
<1>2. LInv /\ RInv /\ [Next]_vars => LInv' /\ RInv'
  BY LInvNext, RInvNext DEF Onward
<1>3. LInv /\ RInv /\ [Next]_vars
        => [\A i \in Ids : Live(nodes', i) /\ ~Live(nodes, i) => <<i, gen'>> \notin given]_vars
  BY RInvNext DEF Onward
<1> QED
  BY <1>1, <1>2, <1>3, PTL DEF Spec, EntryOnce

\* The references of every node are its lookups and its children, and its
\* lookups those of the kernel and those the threads carry.
RefsExact ==
    \A i \in Ids \ {Root} : Live(nodes, i) =>
      /\ nodes[i].refctr = Cardinality(Children(nodes, i)) + IF nodes[i].nlookup > 0 THEN 1 ELSE 0
      /\ nodes[i].nlookup = klook[i] + Cardinality(InFlight(i))
LEMMA RInvExact == LInv /\ RInv => RefsExact
<1> SUFFICES ASSUME LInv, RInv, NEW i \in Ids \ {Root}
             PROVE  /\ nodes[i].refctr = Cardinality(Children(nodes, i)) + IF nodes[i].nlookup > 0 THEN 1 ELSE 0
                    /\ nodes[i].nlookup = klook[i] + Cardinality(InFlight(i))
  BY DEF RefsExact
<1>1. case \in Cases /\ RefOK(nodes)
  BY DEF LInv, Threading, RInv
<1>2. Children(nodes, i) = KidsOf(nodes, i)
  BY <1>1, LiveFacts
<1>3. nodes[i].refctr = Cardinality(KidsOf(nodes, i)) + Looked(nodes[i])
  BY <1>1 DEF RefOK, Counted
<1>4. nodes[i].nlookup = klook[i] + Cardinality(Flight(pc, req, i))
  BY DEF RInv, FlightsOK
<1>5. InFlight(i) = Flight(pc, req, i)
  BY DEF InFlight, Flight
<1> QED
  BY <1>2, <1>3, <1>4, <1>5 DEF Looked
THEOREM RefsCounted == Spec => []RefsExact
<1>1. Init => LInv /\ RInv
  BY LInvInit, RInvInit
<1>2. LInv /\ RInv /\ [Next]_vars => LInv' /\ RInv'
  BY LInvNext, RInvNext DEF Onward
<1>3. LInv /\ RInv => RefsExact
  BY RInvExact
<1> QED
  BY <1>1, <1>2, <1>3, PTL DEF Spec

----------------------------------------------------------------------------
\* The way up.  Up follows the parents to a node without one; that it gets
\* there needs that no directory lies below itself.
Acyclic(ns) ==
    \A S \in SUBSET (Ids \ {Root}) : (\A j \in S : ns[j].parent \in S) => S = {}
Chain(ns, u, i) ==
    /\ u \in Seq(Ids) /\ Len(u) >= 1 /\ u[1] = i
    /\ \A k \in 1 .. Len(u) - 1 : ns[u[k]].parent = u[k + 1]
    /\ ns[u[Len(u)]].parent = 0

Par(ns) == [j \in Ids |-> IF j = Root \/ ~Live(ns, j) \/ ns[j].name = Null THEN j ELSE ns[j].parent]
Climber(P, i, n, f) == f = [k \in 0 .. n |-> IF k = 0 THEN i ELSE P[f[k - 1]]]
TopOf(P, f) == CHOOSE k \in 0 .. IdSpace : P[f[k]] = f[k] /\ (k > 0 => P[f[k - 1]] # f[k - 1])

LEMMA ClimberExists ==
    ASSUME NEW P, NEW i
    PROVE  \A n \in Nat : \E f : Climber(P, i, n, f)
<1> DEFINE S == {n \in Nat : \E f : Climber(P, i, n, f)}
<1>1. 0 \in S
  <2> DEFINE f == [k \in 0 .. 0 |-> i]
  <2>1. f = [k \in 0 .. 0 |-> IF k = 0 THEN i ELSE P[f[k - 1]]]
    <3>1. \A k \in 0 .. 0 : k = 0
      OBVIOUS
    <3> QED
      BY <3>1
  <2> QED
    BY <2>1 DEF Climber
<1>2. ASSUME NEW n \in Nat, n \in S PROVE n + 1 \in S
  <2>1. PICK f : Climber(P, i, n, f)
    BY <1>2
  <2> DEFINE g == [k \in 0 .. n + 1 |-> IF k = n + 1 THEN P[f[n]] ELSE f[k]]
  <2>2. ASSUME NEW k \in 0 .. n + 1 PROVE g[k] = IF k = 0 THEN i ELSE P[g[k - 1]]
    <3>1. CASE k = n + 1
      <4>1. k # 0 /\ k - 1 = n /\ n \in 0 .. n + 1 /\ n # n + 1
        BY <3>1
      <4> QED
        BY <3>1, <4>1
    <3>2. CASE k \in 0 .. n
      <4>1. g[k] = f[k]
        BY <3>2
      <4>2. f[k] = IF k = 0 THEN i ELSE P[f[k - 1]]
        BY <2>1, <3>2 DEF Climber
      <4>3. k # 0 => k - 1 \in 0 .. n + 1 /\ k - 1 # n + 1
        BY <3>2
      <4>4. k # 0 => g[k - 1] = f[k - 1]
        BY <4>3
      <4> HIDE DEF g
      <4> QED
        BY <4>1, <4>2, <4>4
    <3> QED
      BY <3>1, <3>2
  <2>3. g = [k \in 0 .. n + 1 |-> IF k = 0 THEN i ELSE P[g[k - 1]]]
    <3>1. g = [k \in 0 .. n + 1 |-> g[k]]
      OBVIOUS
    <3> HIDE DEF g
    <3> QED
      BY <2>2, <3>1
  <2>4. n + 1 \in Nat
    OBVIOUS
  <2>5. Climber(P, i, n + 1, g)
    BY <2>3, Zenon DEF Climber
  <2> HIDE DEF g
  <2> QED
    BY <2>4, <2>5
<1> HIDE DEF S
<1>3. Nat \subseteq S
  BY <1>1, <1>2, SetInduction
<1> QED
  BY <1>3 DEF S

LEMMA UpDef ==
    ASSUME case \in Cases, NEW ns, NEW i
    PROVE  \E f : /\ Climber(Par(ns), i, IdSpace, f)
                  /\ Up(ns, i) = [k \in 1 .. TopOf(Par(ns), f) + 1 |-> f[k - 1]]
<1> DEFINE f == CHOOSE f : Climber(Par(ns), i, IdSpace, f)
<1>1. IdSpace \in Nat
  BY IdFacts
<1>2. Climber(Par(ns), i, IdSpace, f)
  BY <1>1, ClimberExists
<1>3. Up(ns, i) = [k \in 1 .. TopOf(Par(ns), f) + 1 |-> f[k - 1]]
  BY Zenon DEF Up, Climber, Par, TopOf
<1> HIDE DEF f
<1> QED
  BY <1>2, <1>3

LEMMA ParIs ==
    ASSUME case \in Cases, NEW ns, RefOK(ns), Acyclic(ns), NEW P, P = Par(ns), NEW j \in Ids
    PROVE  /\ P[j] \in Ids
           /\ ns[j].parent = 0 => P[j] = j
           /\ ns[j].parent # 0 => P[j] = ns[j].parent /\ P[j] # j /\ j # Root
<1>1. P[j] = IF j = Root \/ ~Live(ns, j) \/ ns[j].name = Null THEN j ELSE ns[j].parent
  BY DEF Par
<1>2. /\ NodeOK(ns[j]) /\ ns[Root].parent = 0
      /\ j # Root => (ns[j].name = Null <=> ns[j].parent = 0)
  BY DEF RefOK, Table, Named
<1>3. CASE ns[j].parent = 0
  BY <1>1, <1>2, <1>3
<1>4. CASE ns[j].parent # 0
  <2>1. j # Root /\ Live(ns, j) /\ ns[j].name # Null /\ ns[j].parent \in Ids
    BY <1>2, <1>4, LiveFacts DEF NodeOK
  <2>2. ns[j].parent # j
    <3>1. {j} \in SUBSET (Ids \ {Root}) /\ {j} # {}
      BY <2>1
    <3> QED
      BY <3>1 DEF Acyclic
  <2> QED
    BY <1>1, <1>4, <2>1, <2>2
<1> QED
  BY <1>3, <1>4

LEMMA ClimberIs ==
    ASSUME case \in Cases, NEW ns, RefOK(ns), Acyclic(ns), NEW i \in Ids, NEW f,
           Climber(Par(ns), i, IdSpace, f)
    PROVE  /\ f \in [0 .. IdSpace -> Ids] /\ f[0] = i
           /\ \A k \in 0 .. IdSpace - 1 : f[k + 1] = Par(ns)[f[k]]
<1>1. PICK P : P = Par(ns)
  OBVIOUS
<1>2. IdSpace \in Nat
  BY IdFacts
<1>3. f = [k \in 0 .. IdSpace |-> IF k = 0 THEN i ELSE P[f[k - 1]]]
  BY <1>1, Zenon DEF Climber
<1>4. DOMAIN f = 0 .. IdSpace /\ f[0] = i
  BY <1>2, <1>3
<1>5. ASSUME NEW k \in 0 .. IdSpace - 1 PROVE f[k + 1] = P[f[k]]
  <2>1. PICK m \in 0 .. IdSpace : m = k + 1
    BY <1>2
  <2>2. m # 0 /\ m - 1 = k
    BY <1>2, <2>1
  <2>3. f[m] = IF m = 0 THEN i ELSE P[f[m - 1]]
    BY <1>3
  <2> QED
    BY <2>1, <2>2, <2>3
<1> DEFINE S == {k \in Nat : k <= IdSpace => f[k] \in Ids}
<1>6. 0 \in S
  BY <1>4
<1>7. ASSUME NEW k \in Nat, k \in S PROVE k + 1 \in S
  <2>1. CASE k + 1 <= IdSpace
    <3>1. k \in 0 .. IdSpace - 1 /\ f[k] \in Ids
      BY <1>2, <1>7, <2>1
    <3>2. f[k + 1] = P[f[k]] /\ P[f[k]] \in Ids
      BY <1>1, <1>5, <3>1, ParIs
    <3> QED
      BY <3>2
  <2>2. CASE ~(k + 1 <= IdSpace)
    BY <2>2
  <2> QED
    BY <2>1, <2>2
<1>8. Nat \subseteq S
  <2> HIDE DEF S
  <2> QED
    BY <1>6, <1>7, SetInduction
<1>9. \A k \in 0 .. IdSpace : f[k] \in Ids
  BY <1>2, <1>8
<1>10. f = [k \in 0 .. IdSpace |-> f[k]]
  BY <1>3
<1>11. f \in [0 .. IdSpace -> Ids]
  BY <1>9, <1>10
<1> QED
  BY <1>1, <1>4, <1>5, <1>11

\* Of more steps than there are ids, two meet; so one has no parent.
LEMMA TopExists ==
    ASSUME case \in Cases, NEW ns, RefOK(ns), Acyclic(ns), NEW f \in [0 .. IdSpace -> Ids],
           \A k \in 0 .. IdSpace - 1 : f[k + 1] = Par(ns)[f[k]]
    PROVE  \E k \in 0 .. IdSpace : ns[f[k]].parent = 0
<1> SUFFICES ASSUME \A k \in 0 .. IdSpace : ns[f[k]].parent # 0 PROVE FALSE
  OBVIOUS
<1>1. IdSpace \in Nat /\ IdSpace >= 3 /\ Ids = 1 .. IdSpace - 1 /\ IsFiniteSet(Ids)
  BY IdFacts
<1>2. PICK A : A = 0 .. IdSpace
  OBVIOUS
<1>3. IsFiniteSet(A) /\ Cardinality(A) = IdSpace + 1 /\ Cardinality(Ids) = IdSpace - 1
  BY <1>1, <1>2, FS_Interval
<1>4. \E x, y \in A : x # y /\ f[x] = f[y]
  <2>1. PICK B, g : B = Ids /\ g = f
    OBVIOUS
  <2>2. g \in [A -> B]
    BY <1>2, <2>1
  <2>3. Cardinality(B) < Cardinality(A) /\ IsFiniteSet(A) /\ IsFiniteSet(B)
    BY <1>1, <1>3, <2>1
  <2>4. \E x, y \in A : x # y /\ g[x] = g[y]
    BY <2>2, <2>3, FS_PigeonHole
  <2> QED
    BY <2>1, <2>4
<1>5. PICK a \in 0 .. IdSpace, b \in 0 .. IdSpace : a < b /\ f[a] = f[b]
  <2>1. PICK x \in A, y \in A : x # y /\ f[x] = f[y]
    BY <1>4
  <2>2. CASE x < y
    BY <1>2, <2>1, <2>2
  <2>3. CASE y < x
    BY <1>2, <2>1, <2>3
  <2> QED
    BY <1>1, <1>2, <2>1, <2>2, <2>3
<1> DEFINE S == {f[k] : k \in a .. b - 1}
<1>6. ASSUME NEW k \in a .. b - 1
      PROVE  f[k] \in Ids \ {Root} /\ ns[f[k]].parent \in S
  <2>1. k \in 0 .. IdSpace /\ k \in 0 .. IdSpace - 1
    BY <1>1, <1>5
  <2>2. f[k] \in Ids /\ ns[f[k]].parent # 0
    BY <2>1
  <2>3. f[k] # Root /\ Par(ns)[f[k]] = ns[f[k]].parent
    BY <2>2, ParIs
  <2>4. ns[f[k]].parent = f[k + 1]
    BY <2>1, <2>3
  <2>5. f[k + 1] \in S
    <3>0. a \in Int /\ b \in Int /\ k \in Int /\ a <= k /\ k <= b - 1 /\ a \in a .. b - 1
      BY <1>1, <1>5
    <3>1. CASE k + 1 = b
      <4>1. f[k + 1] = f[a]
        BY <1>5, <3>1
      <4> QED
        BY <3>0, <4>1
    <3>2. CASE k + 1 # b
      <4>1. k + 1 \in a .. b - 1
        BY <3>0, <3>2
      <4> QED
        BY <4>1
    <3> QED
      BY <3>1, <3>2
  <2> QED
    BY <2>2, <2>3, <2>4, <2>5
<1>7. S \in SUBSET (Ids \ {Root}) /\ \A j \in S : ns[j].parent \in S
  BY <1>6
<1>8. f[a] \in S
  BY <1>1, <1>5
<1> QED
  <2> HIDE DEF S
  <2> QED
    BY <1>7, <1>8 DEF Acyclic

Follows(ns, f) ==
    f \in [0 .. IdSpace -> Ids] /\ \A k \in 0 .. IdSpace - 1 : f[k + 1] = Par(ns)[f[k]]
Topped(ns, f, n) ==
    n \in 0 .. IdSpace /\ ns[f[n]].parent = 0 /\ \A k \in 0 .. n - 1 : ns[f[k]].parent # 0
LEMMA TopIs ==
    ASSUME case \in Cases, NEW ns, RefOK(ns), Acyclic(ns), NEW f, Follows(ns, f), NEW n, n = TopOf(Par(ns), f)
    PROVE  Topped(ns, f, n)
<1>0. f \in [0 .. IdSpace -> Ids] /\ \A k \in 0 .. IdSpace - 1 : f[k + 1] = Par(ns)[f[k]]
  BY DEF Follows
<1>1. IdSpace \in Nat
  BY IdFacts
<1> DEFINE S == {k \in 0 .. IdSpace : ns[f[k]].parent = 0}
<1>2. S \in SUBSET Nat /\ S # {}
  <2>1. \E k \in 0 .. IdSpace : ns[f[k]].parent = 0
    BY <1>0, TopExists
  <2>2. 0 .. IdSpace \subseteq Nat
    BY <1>1
  <2> QED
    BY <2>1, <2>2
<1>3. PICK l \in S : \A x \in S : l <= x
  <2> HIDE DEF S
  <2> QED
    BY <1>2, LeastNumber
<1>4. l \in 0 .. IdSpace /\ ns[f[l]].parent = 0 /\ \A k \in 0 .. l - 1 : ns[f[k]].parent # 0
  BY <1>1, <1>3
<1>5. PICK P : P = Par(ns)
  OBVIOUS
<1>6. \A k \in 0 .. IdSpace : P[f[k]] = f[k] <=> ns[f[k]].parent = 0
  <2> SUFFICES ASSUME NEW k \in 0 .. IdSpace PROVE P[f[k]] = f[k] <=> ns[f[k]].parent = 0
    OBVIOUS
  <2>1. f[k] \in Ids
    BY <1>0
  <2> QED
    BY <1>5, <2>1, ParIs
<1>7. P[f[l]] = f[l] /\ (l > 0 => P[f[l - 1]] # f[l - 1])
  <2>1. l > 0 => l - 1 \in 0 .. IdSpace /\ l - 1 \in 0 .. l - 1
    BY <1>1, <1>4
  <2> QED
    BY <1>4, <1>6, <2>1
<1>8. n \in 0 .. IdSpace /\ P[f[n]] = f[n] /\ (n > 0 => P[f[n - 1]] # f[n - 1])
  <2>1. \E k \in 0 .. IdSpace : P[f[k]] = f[k] /\ (k > 0 => P[f[k - 1]] # f[k - 1])
    BY <1>4, <1>7
  <2> QED
    BY <1>5, <2>1, Zenon DEF TopOf
\* From l on nothing changes.
<1> DEFINE T == {m \in Nat : l + m <= IdSpace => f[l + m] = f[l]}
<1>9. 0 \in T
  BY <1>4
<1>10. ASSUME NEW m \in Nat, m \in T PROVE m + 1 \in T
  <2>1. CASE l + (m + 1) <= IdSpace
    <3>1. l + m \in 0 .. IdSpace - 1 /\ l + m \in 0 .. IdSpace /\ l + m + 1 = l + (m + 1) /\ f[l + m] = f[l]
      BY <1>1, <1>4, <1>10, <2>1
    <3>2. f[l + m + 1] = P[f[l + m]]
      BY <1>0, <1>5, <3>1
    <3>3. P[f[l + m]] = f[l]
      BY <1>7, <3>1
    <3> QED
      BY <3>1, <3>2, <3>3
  <2>2. CASE ~(l + (m + 1) <= IdSpace)
    BY <2>2
  <2> QED
    BY <2>1, <2>2
<1>11. Nat \subseteq T
  <2> HIDE DEF T
  <2> QED
    BY <1>9, <1>10, SetInduction
<1>12. n = l
  <2>1. ASSUME n < l PROVE FALSE
    <3>1. n \in 0 .. l - 1
      BY <1>1, <1>4, <1>8, <2>1
    <3> QED
      BY <1>4, <1>6, <1>8, <3>1
  <2>2. ASSUME l < n PROVE FALSE
    <3>1. PICK m \in Nat : l + m = n - 1 /\ n - 1 \in 0 .. IdSpace /\ n > 0
      <4>1. n - 1 - l \in Nat /\ l + (n - 1 - l) = n - 1
        BY <1>1, <1>4, <1>8, <2>2
      <4>2. n - 1 \in 0 .. IdSpace /\ n > 0
        BY <1>1, <1>4, <1>8, <2>2
      <4> QED
        BY <4>1, <4>2
    <3>2. f[n - 1] = f[l]
      <4>1. l + m <= IdSpace /\ m \in T
        BY <1>1, <1>11, <3>1
      <4>2. f[l + m] = f[l]
        BY <4>1
      <4> QED
        BY <3>1, <4>2
    <3> QED
      BY <1>7, <1>8, <3>1, <3>2
  <2> QED
    BY <1>1, <1>4, <1>8, <2>1, <2>2
<1> QED
  BY <1>4, <1>12 DEF Topped

LEMMA UpChain ==
    ASSUME case \in Cases, NEW ns, RefOK(ns), Acyclic(ns), NEW i \in Ids
    PROVE  Chain(ns, Up(ns, i), i)
<1>0. IdSpace \in Nat
  BY IdFacts
<1>1. PICK f : /\ Climber(Par(ns), i, IdSpace, f)
               /\ Up(ns, i) = [k \in 1 .. TopOf(Par(ns), f) + 1 |-> f[k - 1]]
  BY UpDef
<1>2. /\ f \in [0 .. IdSpace -> Ids] /\ f[0] = i
      /\ \A k \in 0 .. IdSpace - 1 : f[k + 1] = Par(ns)[f[k]]
  BY <1>1, ClimberIs
<1>3. PICK n : n = TopOf(Par(ns), f)
  OBVIOUS
<1>4. n \in 0 .. IdSpace /\ ns[f[n]].parent = 0 /\ \A k \in 0 .. n - 1 : ns[f[k]].parent # 0
  <2>1. Follows(ns, f)
    BY <1>2 DEF Follows
  <2>2. Topped(ns, f, n)
    BY <1>3, <2>1, TopIs
  <2> QED
    BY <2>2 DEF Topped
<1>5. PICK u : u = [k \in 1 .. n + 1 |-> f[k - 1]]
  OBVIOUS
<1>6. u = Up(ns, i)
  BY <1>1, <1>3, <1>5
<1>7. \A k \in 1 .. n + 1 : f[k - 1] \in Ids
  BY <1>0, <1>2, <1>4
<1>8. u \in Seq(Ids) /\ Len(u) = n + 1 /\ \A k \in 1 .. n + 1 : u[k] = f[k - 1]
  BY <1>0, <1>4, <1>5, <1>7
<1>9. u[1] = i
  BY <1>0, <1>2, <1>4, <1>8
<1>10. ASSUME NEW k \in 1 .. n PROVE ns[u[k]].parent = u[k + 1]
  <2>1. k - 1 \in 0 .. n - 1 /\ k - 1 \in 0 .. IdSpace - 1 /\ k - 1 \in 0 .. IdSpace /\ k - 1 + 1 = k /\ k + 1 - 1 = k
        /\ k \in 1 .. n + 1 /\ k + 1 \in 1 .. n + 1
    BY <1>0, <1>4
  <2>2. f[k] = Par(ns)[f[k - 1]] /\ f[k - 1] \in Ids /\ ns[f[k - 1]].parent # 0
    BY <1>2, <1>4, <2>1
  <2>3. Par(ns)[f[k - 1]] = ns[f[k - 1]].parent
    BY <2>2, ParIs
  <2>4. u[k] = f[k - 1] /\ u[k + 1] = f[k]
    BY <1>8, <2>1
  <2> QED
    BY <2>2, <2>3, <2>4
<1>11. ns[u[n + 1]].parent = 0
  BY <1>0, <1>4, <1>8
<1>12. Len(u) >= 1 /\ Len(u) - 1 = n
  BY <1>0, <1>4, <1>8
<1> QED
  BY <1>6, <1>8, <1>9, <1>10, <1>11, <1>12 DEF Chain

\* The nodes on the way up.
UpSet(ns, i) == ToSet(Up(ns, i))
LEMMA UpSetIs ==
    ASSUME case \in Cases, NEW ns, RefOK(ns), Acyclic(ns), NEW i \in Ids, NEW u, u = Up(ns, i)
    PROVE  /\ Chain(ns, u, i) /\ Len(u) \in Nat \ {0}
           /\ \A j : j \in UpSet(ns, i) <=> \E k \in 1 .. Len(u) : u[k] = j
           /\ \A k \in 1 .. Len(u) : u[k] \in Ids
<1>1. Chain(ns, u, i)
  BY UpChain
<1>2. u \in Seq(Ids) /\ Len(u) >= 1 /\ Len(u) \in Nat /\ DOMAIN u = 1 .. Len(u)
  BY <1>1 DEF Chain
<1>3. \A k \in 1 .. Len(u) : u[k] \in Ids
  BY <1>2
<1>4. UpSet(ns, i) = {u[k] : k \in DOMAIN u}
  BY DEF UpSet, ToSet
<1> QED
  BY <1>1, <1>2, <1>3, <1>4

LEMMA UpSetFacts ==
    ASSUME case \in Cases, NEW ns, RefOK(ns), Acyclic(ns), NEW i \in Ids
    PROVE  /\ i \in UpSet(ns, i) /\ UpSet(ns, i) \subseteq Ids
           /\ \A j \in UpSet(ns, i) : ns[j].parent # 0 => ns[j].parent \in UpSet(ns, i)
           /\ \A j \in UpSet(ns, i) : j # i => KidsOf(ns, j) # {}
<1>1. PICK u : u = Up(ns, i)
  OBVIOUS
<1>2. /\ Chain(ns, u, i) /\ Len(u) \in Nat \ {0}
      /\ \A j : j \in UpSet(ns, i) <=> \E k \in 1 .. Len(u) : u[k] = j
      /\ \A k \in 1 .. Len(u) : u[k] \in Ids
  BY <1>1, UpSetIs
<1>3. u[1] = i /\ (\A k \in 1 .. Len(u) - 1 : ns[u[k]].parent = u[k + 1]) /\ ns[u[Len(u)]].parent = 0
  BY <1>2 DEF Chain
<1>4. i \in UpSet(ns, i)
  <2>1. 1 \in 1 .. Len(u)
    BY <1>2
  <2> QED
    BY <1>2, <1>3, <2>1
<1>5. UpSet(ns, i) \subseteq Ids
  BY <1>2
<1>6. ASSUME NEW j \in UpSet(ns, i), ns[j].parent # 0 PROVE ns[j].parent \in UpSet(ns, i)
  <2>1. PICK k \in 1 .. Len(u) : u[k] = j
    BY <1>2
  <2>2. k # Len(u)
    BY <1>3, <1>6, <2>1
  <2>3. k \in 1 .. Len(u) - 1 /\ k + 1 \in 1 .. Len(u)
    BY <1>2, <2>2
  <2> QED
    BY <1>2, <1>3, <2>1, <2>3
<1>7. ASSUME NEW j \in UpSet(ns, i), j # i PROVE KidsOf(ns, j) # {}
  <2>1. PICK k \in 1 .. Len(u) : u[k] = j
    BY <1>2
  <2>2. k # 1
    BY <1>3, <1>7, <2>1
  <2>3. PICK m \in 1 .. Len(u) - 1 : m + 1 = k /\ m \in 1 .. Len(u)
    <3>1. k - 1 \in 1 .. Len(u) - 1 /\ k - 1 + 1 = k /\ k - 1 \in 1 .. Len(u)
      BY <1>2, <2>2
    <3> QED
      BY <3>1
  <2>4. ns[u[m]].parent = j /\ u[m] \in Ids /\ j \in Ids
    BY <1>2, <1>3, <2>1, <2>3
  <2>5. u[m] # Root
    <3>1. ns[Root].parent = 0
      BY DEF RefOK, Named
    <3> QED
      BY <2>4, <3>1, IdFacts
  <2> QED
    BY <2>4, <2>5 DEF KidsOf
<1> QED
  BY <1>4, <1>5, <1>6, <1>7

\* Nothing is above its parent.
LEMMA NotAbove ==
    ASSUME case \in Cases, NEW ns, RefOK(ns), Acyclic(ns), NEW i \in Ids, NEW w, ns[w].parent = i
    PROVE  w \notin UpSet(ns, i)
<1> SUFFICES ASSUME w \in UpSet(ns, i) PROVE FALSE
  OBVIOUS
<1>1. PICK u : u = Up(ns, i)
  OBVIOUS
<1>2. /\ Chain(ns, u, i) /\ Len(u) \in Nat \ {0}
      /\ \A j : j \in UpSet(ns, i) <=> \E k \in 1 .. Len(u) : u[k] = j
      /\ \A k \in 1 .. Len(u) : u[k] \in Ids
  BY <1>1, UpSetIs
<1>3. u[1] = i /\ (\A k \in 1 .. Len(u) - 1 : ns[u[k]].parent = u[k + 1]) /\ ns[u[Len(u)]].parent = 0
  BY <1>2 DEF Chain
<1>4. PICK n \in 1 .. Len(u) : u[n] = w
  BY <1>2
<1> DEFINE S == {u[k] : k \in 1 .. n}
<1>5. ASSUME NEW k \in 1 .. n PROVE u[k] \in Ids /\ ns[u[k]].parent \in S /\ u[k] # Root
  <2>1. k \in 1 .. Len(u) /\ 1 \in 1 .. n
    BY <1>2
  <2>2. CASE k = n
    <3>1. ns[u[k]].parent = u[1]
      BY <1>3, <1>4, <2>2
    <3>2. ns[u[k]].parent \in S /\ ns[u[k]].parent = i
      BY <1>3, <2>1, <3>1
    <3> QED
      BY <1>2, <2>1, <3>2, IdFacts DEF RefOK, Named
  <2>3. CASE k # n
    <3>1. k \in 1 .. Len(u) - 1 /\ k + 1 \in 1 .. n /\ k + 1 \in 1 .. Len(u)
      BY <1>2, <2>3
    <3>2. ns[u[k]].parent = u[k + 1] /\ u[k + 1] \in Ids
      BY <1>2, <1>3, <3>1
    <3>3. ns[u[k]].parent \in S
      BY <3>1, <3>2
    <3> QED
      BY <1>2, <2>1, <3>2, <3>3, IdFacts DEF RefOK, Named
  <2> QED
    BY <2>2, <2>3
<1>6. S \in SUBSET (Ids \ {Root}) /\ \A j \in S : ns[j].parent \in S
  BY <1>5
<1>7. w \in S
  BY <1>4
<1> QED
  <2> HIDE DEF S
  <2> QED
    BY <1>6, <1>7 DEF Acyclic

\* A node whose way up gets to the root.
Rooted(ns, i) == i \in Ids /\ Root \in UpSet(ns, i)
LEMMA RootedIs ==
    ASSUME case \in Cases, NEW ns, RefOK(ns), Acyclic(ns), NEW i, Rooted(ns, i), NEW u, u = Up(ns, i)
    PROVE  /\ u[Len(u)] = Root /\ \A k \in 1 .. Len(u) - 1 : u[k] # Root
           /\ \A j \in UpSet(ns, i) \ {Root} : ns[j].parent \in Ids /\ ns[j].nlookup > 0 /\ ns[j].name # Null
           /\ UpSet(ns, i) \ {Root} = Climbs(u, Len(u))
           /\ ns[i].nlookup > 0
<1>0. i \in Ids
  BY DEF Rooted
<1>2. /\ Chain(ns, u, i) /\ Len(u) \in Nat \ {0}
      /\ \A j : j \in UpSet(ns, i) <=> \E k \in 1 .. Len(u) : u[k] = j
      /\ \A k \in 1 .. Len(u) : u[k] \in Ids
  BY <1>0, UpSetIs
<1>3. u[1] = i /\ (\A k \in 1 .. Len(u) - 1 : ns[u[k]].parent = u[k + 1]) /\ ns[u[Len(u)]].parent = 0
  BY <1>2 DEF Chain
<1>4. ns[Root].parent = 0 /\ ns[Root].nlookup = 1
  BY DEF RefOK, Named
<1>5. ASSUME NEW k \in 1 .. Len(u) - 1 PROVE u[k] # Root /\ ns[u[k]].parent \in Ids
  <2>1. k + 1 \in 1 .. Len(u)
    BY <1>2
  <2> QED
    BY <1>2, <1>3, <1>4, <2>1, IdFacts
<1>6. u[Len(u)] = Root
  <2>1. PICK k \in 1 .. Len(u) : u[k] = Root
    BY <1>2 DEF Rooted
  <2>2. ~(k \in 1 .. Len(u) - 1)
    BY <1>5, <2>1
  <2>3. k = Len(u)
    BY <1>2, <2>2
  <2> QED
    BY <2>1, <2>3
<1>7. ASSUME NEW j \in UpSet(ns, i) \ {Root}
      PROVE  /\ ns[j].parent \in Ids /\ ns[j].nlookup > 0 /\ ns[j].name # Null
             /\ \E k \in 1 .. Len(u) - 1 : u[k] = j
  <2>1. PICK k \in 1 .. Len(u) : u[k] = j
    BY <1>2
  <2>2. k # Len(u)
    BY <1>6, <2>1
  <2>3. k \in 1 .. Len(u) - 1
    BY <1>2, <2>2
  <2>4. ns[j].parent \in Ids /\ j \in Ids
    BY <1>2, <1>5, <2>1, <2>3
  <2> QED
    BY <2>1, <2>3, <2>4, IdFacts DEF RefOK, Named
<1>8. UpSet(ns, i) \ {Root} = Climbs(u, Len(u))
  <2>1. ASSUME NEW k \in 1 .. Len(u) - 1 PROVE u[k] \in UpSet(ns, i) \ {Root}
    <3>1. k \in 1 .. Len(u)
      BY <1>2
    <3> QED
      BY <1>2, <1>5, <3>1
  <2> QED
    BY <1>7, <2>1 DEF Climbs
<1>9. ns[i].nlookup > 0
  <2>1. i \in UpSet(ns, i)
    BY <1>0, UpSetFacts
  <2> QED
    BY <1>4, <1>7, <2>1
<1> QED
  BY <1>5, <1>6, <1>7, <1>8, <1>9

\* The way up stays if the parents on it do; the path, if the names do.
Steady(ns, ms, j) == ms[j].parent = ns[j].parent /\ ms[j].name = ns[j].name
LEMMA UpSame ==
    ASSUME case \in Cases, NEW ns, RefOK(ns), Acyclic(ns), NEW ms, RefOK(ms), Acyclic(ms), NEW i \in Ids,
           \A j \in UpSet(ns, i) : ms[j].parent = ns[j].parent
    PROVE  Up(ms, i) = Up(ns, i)
<1>1. PICK u, v : u = Up(ns, i) /\ v = Up(ms, i)
  OBVIOUS
<1>2. /\ Chain(ns, u, i) /\ Len(u) \in Nat \ {0}
      /\ \A j : j \in UpSet(ns, i) <=> \E k \in 1 .. Len(u) : u[k] = j
      /\ \A k \in 1 .. Len(u) : u[k] \in Ids
  BY <1>1, UpSetIs, SMTT(20)
<1>3. Chain(ms, v, i) /\ Len(v) \in Nat \ {0} /\ \A k \in 1 .. Len(v) : v[k] \in Ids
  BY <1>1, UpSetIs
<1>4. u[1] = i /\ (\A k \in 1 .. Len(u) - 1 : ns[u[k]].parent = u[k + 1]) /\ ns[u[Len(u)]].parent = 0
  BY <1>2 DEF Chain
<1>5. v[1] = i /\ (\A k \in 1 .. Len(v) - 1 : ms[v[k]].parent = v[k + 1]) /\ ms[v[Len(v)]].parent = 0
  BY <1>3 DEF Chain
<1>6. \A k \in 1 .. Len(u) : ms[u[k]].parent = ns[u[k]].parent
  BY <1>2
<1> DEFINE S == {k \in Nat : k + 1 <= Len(u) => k + 1 <= Len(v) /\ v[k + 1] = u[k + 1]}
<1>7. 0 \in S
  BY <1>3, <1>4, <1>5
<1>8. ASSUME NEW k \in Nat, k \in S PROVE k + 1 \in S
  <2>1. CASE k + 1 + 1 <= Len(u)
    <3>0. k + 1 <= Len(v) /\ v[k + 1] = u[k + 1]
      BY <1>2, <1>8, <2>1
    <3>1. k + 1 \in 1 .. Len(u) - 1 /\ k + 1 \in 1 .. Len(u) /\ k + 1 + 1 \in 1 .. Len(u)
      BY <1>2, <2>1
    <3>2. ms[v[k + 1]].parent = u[k + 1 + 1] /\ u[k + 1 + 1] \in Ids
      BY <1>2, <1>4, <1>6, <3>0, <3>1
    <3>3. k + 1 # Len(v)
      BY <1>5, <3>2, IdFacts
    <3>4. k + 1 \in 1 .. Len(v) - 1 /\ k + 1 + 1 <= Len(v)
      BY <1>3, <3>0, <3>3
    <3>5. v[k + 1 + 1] = u[k + 1 + 1]
      BY <1>5, <3>2, <3>4
    <3> QED
      BY <3>4, <3>5
  <2>2. CASE ~(k + 1 + 1 <= Len(u))
    BY <2>2
  <2> QED
    BY <2>1, <2>2
<1>9. Nat \subseteq S
  <2> HIDE DEF S
  <2> QED
    BY <1>7, <1>8, SetInduction
<1>10. ASSUME NEW k \in 1 .. Len(u) PROVE k <= Len(v) /\ v[k] = u[k]
  <2>1. PICK m \in Nat : m + 1 = k
    <3>1. k - 1 \in Nat /\ k - 1 + 1 = k
      BY <1>2
    <3> QED
      BY <3>1
  <2>2. m \in S /\ m + 1 <= Len(u)
    BY <1>2, <1>9, <2>1
  <2> QED
    BY <2>1, <2>2
<1>11. Len(v) = Len(u)
  <2>1. Len(u) \in 1 .. Len(u)
    BY <1>2
  <2>2. Len(u) <= Len(v) /\ v[Len(u)] = u[Len(u)] /\ ms[v[Len(u)]].parent = 0
    BY <1>4, <1>6, <1>10, <2>1
  <2>3. ASSUME Len(u) < Len(v) PROVE FALSE
    <3>1. Len(u) \in 1 .. Len(v) - 1 /\ Len(u) + 1 \in 1 .. Len(v)
      BY <1>2, <1>3, <2>3
    <3>2. v[Len(u) + 1] = 0 /\ v[Len(u) + 1] \in Ids
      BY <1>3, <1>5, <2>2, <3>1
    <3> QED
      BY <3>2, IdFacts
  <2> QED
    BY <1>2, <1>3, <2>2, <2>3
<1>12. u \in Seq(Ids) /\ v \in Seq(Ids)
  BY <1>2, <1>3 DEF Chain
<1>13. \A k \in 1 .. Len(u) : v[k] = u[k]
  BY <1>10
<1> QED
  BY <1>1, <1>11, <1>12, <1>13, SeqEqual
LEMMA PathSame ==
    ASSUME case \in Cases, NEW ns, RefOK(ns), Acyclic(ns), NEW ms, RefOK(ms), Acyclic(ms), NEW i \in Ids,
           \A j \in UpSet(ns, i) : Steady(ns, ms, j)
    PROVE  PathOf(ms, i) = PathOf(ns, i)
<1>1. PICK u : u = Up(ns, i)
  OBVIOUS
<1>2. Up(ms, i) = u
  BY <1>1, UpSame DEF Steady
<1>3. /\ Len(u) \in Nat \ {0}
      /\ \A j : j \in UpSet(ns, i) <=> \E k \in 1 .. Len(u) : u[k] = j
  BY <1>1, UpSetIs
<1>4. ASSUME NEW k \in 1 .. Len(u) - 1 PROVE ms[u[Len(u) - k]].name = ns[u[Len(u) - k]].name
  <2>1. Len(u) - k \in 1 .. Len(u)
    BY <1>3
  <2>2. u[Len(u) - k] \in UpSet(ns, i)
    BY <1>3, <2>1
  <2> QED
    BY <2>2 DEF Steady
<1>5. PathOf(ns, i) = [k \in 1 .. Len(u) - 1 |-> ns[u[Len(u) - k]].name]
  BY <1>1, Zenon DEF PathOf
<1>6. PathOf(ms, i) = [k \in 1 .. Len(u) - 1 |-> ms[u[Len(u) - k]].name]
  BY <1>2, Zenon DEF PathOf
<1> QED
  BY <1>4, <1>5, <1>6

\* Losing parents makes no circle; nor does a move to where one is not above.
LEMMA AcyclicLess ==
    ASSUME case \in Cases, NEW ns, Acyclic(ns), NEW ms,
           \A j \in Ids \ {Root} : ms[j].parent = ns[j].parent \/ ms[j].parent = 0
    PROVE  Acyclic(ms)
<1> SUFFICES ASSUME NEW S \in SUBSET (Ids \ {Root}), \A j \in S : ms[j].parent \in S PROVE S = {}
  BY DEF Acyclic
<1>1. \A j \in S : ns[j].parent \in S
  BY IdFacts
<1> QED
  BY <1>1 DEF Acyclic
LEMMA AcyclicMove ==
    ASSUME case \in Cases, NEW ns, RefOK(ns), Acyclic(ns), NEW c, NEW e \in Ids, c \notin UpSet(ns, e), NEW ms,
           \A j \in Ids \ {Root, c} : ms[j].parent = ns[j].parent \/ ms[j].parent = 0, ms[c].parent = e
    PROVE  Acyclic(ms)
<1> SUFFICES ASSUME NEW S \in SUBSET (Ids \ {Root}), \A j \in S : ms[j].parent \in S PROVE S = {}
  BY DEF Acyclic
<1>1. \A j \in S \ {c} : ns[j].parent \in S /\ ns[j].parent # 0
  BY IdFacts
<1>2. CASE c \notin S
  BY <1>1, <1>2 DEF Acyclic
<1>3. CASE c \in S
  <2>1. e \in S /\ e \in UpSet(ns, e)
    BY <1>3, UpSetFacts
  <2>2. PICK T : T = S \cap UpSet(ns, e)
    OBVIOUS
  <2>3. T \in SUBSET (Ids \ {Root}) /\ e \in T
    BY <2>1, <2>2
  <2>4. \A j \in T : ns[j].parent \in T
    BY <1>1, <2>2, UpSetFacts
  <2> QED
    BY <2>3, <2>4 DEF Acyclic
<1> QED
  BY <1>2, <1>3

\* A step that leaves names and references alone leaves the ways up alone.
LEMMA SameUp ==
    ASSUME case \in Cases, NEW ns, RefOK(ns), Acyclic(ns), NEW ms, Table(ms), SameTree(ns, ms)
    PROVE  /\ RefOK(ms) /\ Acyclic(ms)
           /\ \A i \in Ids : /\ Up(ms, i) = Up(ns, i) /\ UpSet(ms, i) = UpSet(ns, i)
                             /\ PathOf(ms, i) = PathOf(ns, i)
<1>1. RefOK(ms)
  BY SameOK
<1>2. Acyclic(ms)
  <2>1. \A j \in Ids \ {Root} : ms[j].parent = ns[j].parent \/ ms[j].parent = 0
    BY DEF SameTree
  <2> QED
    BY <2>1, AcyclicLess
<1>3. \A j \in Ids : Steady(ns, ms, j)
  BY DEF SameTree, Steady
<1>4. ASSUME NEW i \in Ids PROVE Up(ms, i) = Up(ns, i) /\ PathOf(ms, i) = PathOf(ns, i)
  <2>1. \A j \in UpSet(ns, i) : Steady(ns, ms, j)
    BY <1>3, UpSetFacts
  <2>2. \A j \in UpSet(ns, i) : ms[j].parent = ns[j].parent
    BY <2>1 DEF Steady
  <2> QED
    BY <1>1, <1>2, <2>1, <2>2, UpSame, PathSame
<1>5. \A i \in Ids : UpSet(ms, i) = UpSet(ns, i)
  BY <1>4 DEF UpSet
<1> QED
  BY <1>1, <1>2, <1>4, <1>5

----------------------------------------------------------------------------
\* The tree lock.  A path that is locked is <<thread, which, node, wnode>>:
\* a node is locked for reading by the paths it is on, or for writing by
\* the one path that has it for wnode.
Users(ns, H, j) == {s \in H : j \in UpSet(ns, s[3]) \ {Root}}
Owners(H, j) == {s \in H : s[4] = j}
Locked(ns, H, j) ==
    \/ Owners(H, j) = {} /\ ns[j].treelock = Cardinality(Users(ns, H, j))
    \/ (\E s : Owners(H, j) = {s}) /\ Users(ns, H, j) = {} /\ ns[j].treelock = -1
Slot(ns, s) ==
    /\ Rooted(ns, s[3]) /\ s[4] \in (Ids \ {Root}) \cup {0}
    /\ s[4] # 0 => ns[s[4]].nlookup > 0
LockOK(ns, H) == IsFiniteSet(H) /\ (\A s \in H : Slot(ns, s)) /\ \A j \in Ids : Locked(ns, H, j)

\* A node that is not locked is on no path, nor is one without lookups.
LEMMA Unlocked ==
    ASSUME case \in Cases, NEW ns, NEW H, LockOK(ns, H), NEW j \in Ids, ns[j].treelock = 0
    PROVE  Users(ns, H, j) = {} /\ Owners(H, j) = {}
<1>1. IsFiniteSet(Users(ns, H, j))
  BY FS_Subset DEF LockOK, Users
<1>2. Owners(H, j) = {} /\ 0 = Cardinality(Users(ns, H, j))
  BY DEF LockOK, Locked
<1> QED
  BY <1>1, <1>2, FS_EmptySet
LEMMA Unused ==
    ASSUME case \in Cases, NEW ns, RefOK(ns), Acyclic(ns), NEW H, LockOK(ns, H), NEW j \in Ids,
           ns[j].nlookup = 0
    PROVE  Users(ns, H, j) = {} /\ Owners(H, j) = {} /\ ns[j].treelock = 0
<1>1. ASSUME NEW s \in H PROVE j \notin UpSet(ns, s[3]) \ {Root} /\ s[4] # j
  <2>1. Rooted(ns, s[3]) /\ (s[4] # 0 => ns[s[4]].nlookup > 0)
    BY DEF LockOK, Slot
  <2>2. PICK u : u = Up(ns, s[3])
    OBVIOUS
  <2>3. \A k \in UpSet(ns, s[3]) \ {Root} : ns[k].nlookup > 0
    BY <2>1, <2>2, RootedIs
  <2> QED
    BY <2>1, <2>3, IdFacts
<1>2. Users(ns, H, j) = {} /\ Owners(H, j) = {}
  BY <1>1 DEF Users, Owners
<1>3. ns[j].treelock = Cardinality({})
  BY <1>2 DEF LockOK, Locked
<1> QED
  BY <1>2, <1>3, FS_EmptySet

\* A path more.
Gains(ns, ms, i, w) ==
    \A j \in Ids : ms[j].treelock = IF j \in UpSet(ns, i) \ {Root} THEN ns[j].treelock + 1
                                    ELSE IF j = w THEN -1 ELSE ns[j].treelock
Open(ns, i, w) ==
    /\ Rooted(ns, i) /\ w \in (Ids \ {Root}) \cup {0} /\ w \notin UpSet(ns, i)
    /\ w # 0 => ns[w].nlookup > 0 /\ ns[w].treelock = 0
    /\ \A j \in UpSet(ns, i) \ {Root} : ns[j].treelock # -1
LEMMA LockAdd ==
    ASSUME case \in Cases, NEW ns, RefOK(ns), Acyclic(ns), NEW H, LockOK(ns, H), NEW i, NEW w, Open(ns, i, w),
           NEW s, s[3] = i, s[4] = w, s \notin H, NEW ms, Table(ms), SameTree(ns, ms), Gains(ns, ms, i, w)
    PROVE  LockOK(ms, H \cup {s})
<1>1. /\ RefOK(ms) /\ Acyclic(ms)
      /\ \A k \in Ids : UpSet(ms, k) = UpSet(ns, k)
  BY SameUp
<1>2. IsFiniteSet(H \cup {s})
  BY FS_AddElement DEF LockOK
<1>3. ASSUME NEW x \in H \cup {s} PROVE Slot(ms, x)
  <2>1. Slot(ns, x)
    BY DEF LockOK, Open, Slot
  <2> QED
    BY <1>1, <2>1 DEF Slot, Rooted, SameTree
<1>4. ASSUME NEW j \in Ids PROVE Locked(ms, H \cup {s}, j)
  <2>0. Locked(ns, H, j) /\ ns[j].treelock \in Int
    BY DEF LockOK, RefOK, Table, NodeOK
  <2>1. Users(ms, H \cup {s}, j) = Users(ns, H, j) \cup (IF j \in UpSet(ns, i) \ {Root} THEN {s} ELSE {})
    <3>1. \A x \in H \cup {s} : UpSet(ms, x[3]) = UpSet(ns, x[3])
      BY <1>1 DEF LockOK, Slot, Rooted, Open
    <3> QED
      BY <3>1 DEF Users
  <2>2. Owners(H \cup {s}, j) = Owners(H, j) \cup (IF j = w THEN {s} ELSE {})
    BY DEF Owners
  <2>3. IsFiniteSet(Users(ns, H, j)) /\ s \notin Users(ns, H, j)
    BY FS_Subset DEF LockOK, Users
  <2>4. CASE j \in UpSet(ns, i) \ {Root}
    <3>1. j # w /\ ns[j].treelock # -1 /\ ms[j].treelock = ns[j].treelock + 1
      BY <2>4 DEF Open, Gains
    <3>2. Owners(H, j) = {} /\ ns[j].treelock = Cardinality(Users(ns, H, j))
      BY <2>0, <3>1 DEF Locked
    <3>3. Cardinality(Users(ns, H, j) \cup {s}) = Cardinality(Users(ns, H, j)) + 1
      BY <2>3, FS_AddElement
    <3>4. Users(ms, H \cup {s}, j) = Users(ns, H, j) \cup {s} /\ Owners(H \cup {s}, j) = {}
      BY <2>1, <2>2, <2>4, <3>1, <3>2
    <3> QED
      BY <3>1, <3>2, <3>3, <3>4 DEF Locked
  <2>5. CASE j \notin UpSet(ns, i) \ {Root} /\ j = w
    <3>1. ns[j].treelock = 0 /\ ms[j].treelock = -1
      BY <2>5, IdFacts DEF Open, Gains
    <3>2. Users(ns, H, j) = {} /\ Owners(H, j) = {}
      BY <3>1, Unlocked
    <3>3. Users(ms, H \cup {s}, j) = {} /\ Owners(H \cup {s}, j) = {s}
      BY <2>1, <2>2, <2>5, <3>2
    <3> QED
      BY <3>1, <3>3 DEF Locked
  <2>6. CASE j \notin UpSet(ns, i) \ {Root} /\ j # w
    <3>1. ms[j].treelock = ns[j].treelock
      BY <2>6 DEF Gains
    <3>2. Users(ms, H \cup {s}, j) = Users(ns, H, j) /\ Owners(H \cup {s}, j) = Owners(H, j)
      BY <2>1, <2>2, <2>6
    <3> QED
      BY <2>0, <3>1, <3>2 DEF Locked
  <2> QED
    BY <2>4, <2>5, <2>6
<1> QED
  BY <1>2, <1>3, <1>4 DEF LockOK

\* A path less: what unlock_path asserts holds.
Gives(ns, ms, i, w) ==
    \A j \in Ids : ms[j].treelock = IF j \in UpSet(ns, i) \ {Root} THEN ns[j].treelock - 1
                                    ELSE IF j = w THEN ns[j].treelock + 1 ELSE ns[j].treelock
LEMMA LockDrop ==
    ASSUME case \in Cases, NEW ns, RefOK(ns), Acyclic(ns), NEW H, LockOK(ns, H), NEW s \in H,
           NEW i, s[3] = i, NEW w, s[4] = w, NEW ms, Table(ms), SameTree(ns, ms), Gives(ns, ms, i, w)
    PROVE  LockOK(ms, H \ {s}) /\ Unlockable(ns, i, w)
<1>1. /\ RefOK(ms) /\ Acyclic(ms)
      /\ \A k \in Ids : UpSet(ms, k) = UpSet(ns, k)
  BY SameUp
<1>2. IsFiniteSet(H \ {s})
  BY FS_Subset DEF LockOK
<1>3. ASSUME NEW x \in H \ {s} PROVE Slot(ms, x)
  <2>1. Slot(ns, x)
    BY DEF LockOK
  <2> QED
    BY <1>1, <2>1 DEF Slot, Rooted, SameTree
<1>a. Slot(ns, s)
  BY DEF LockOK
<1>4. ASSUME NEW j \in Ids
      PROVE  /\ Locked(ms, H \ {s}, j)
             /\ j \in UpSet(ns, i) \ {Root} => ns[j].treelock > 0
             /\ j = w => ns[j].treelock = -1
  <2>0. Locked(ns, H, j) /\ ns[j].treelock \in Int
    BY DEF LockOK, RefOK, Table, NodeOK
  <2>1. Users(ms, H \ {s}, j) = Users(ns, H, j) \ {s}
    <3>1. \A x \in H : UpSet(ms, x[3]) = UpSet(ns, x[3])
      BY <1>1 DEF LockOK, Slot, Rooted
    <3> QED
      BY <3>1 DEF Users
  <2>2. Owners(H \ {s}, j) = Owners(H, j) \ {s}
    BY DEF Owners
  <2>3. /\ IsFiniteSet(Users(ns, H, j))
        /\ s \in Users(ns, H, j) <=> j \in UpSet(ns, i) \ {Root}
        /\ s \in Owners(H, j) <=> j = w
    BY FS_Subset DEF LockOK, Users, Owners
  <2>4. CASE j \in UpSet(ns, i) \ {Root}
    <3>1. ms[j].treelock = ns[j].treelock - 1
      BY <2>4 DEF Gives
    <3>2. Owners(H, j) = {} /\ ns[j].treelock = Cardinality(Users(ns, H, j))
      BY <2>0, <2>3, <2>4 DEF Locked
    <3>3. Cardinality(Users(ns, H, j) \ {s}) = Cardinality(Users(ns, H, j)) - 1
          /\ Cardinality(Users(ns, H, j) \ {s}) \in Nat
      <4>1. IsFiniteSet(Users(ns, H, j) \ {s})
        BY <2>3, FS_Subset
      <4> QED
        BY <2>3, <2>4, <4>1, FS_RemoveElement, FS_CardinalityType
    <3>4. j # w
      BY <2>3, <3>2
    <3>5. Owners(H \ {s}, j) = {}
      BY <2>2, <3>2
    <3>6. Cardinality(Users(ns, H, j)) \in Nat
      BY <2>3, FS_CardinalityType
    <3>7. ns[j].treelock > 0 /\ ms[j].treelock = Cardinality(Users(ms, H \ {s}, j))
      <4>1. PICK a, b : a = Cardinality(Users(ns, H, j)) /\ b = Cardinality(Users(ns, H, j) \ {s})
        OBVIOUS
      <4>2. a \in Nat /\ b \in Nat /\ b = a - 1 /\ ns[j].treelock = a
        BY <3>2, <3>3, <3>6, <4>1, Zenon
      <4>3. ns[j].treelock > 0 /\ ms[j].treelock = b
        BY <3>1, <4>2
      <4> QED
        BY <2>1, <4>1, <4>3, Zenon
    <3>8. Locked(ms, H \ {s}, j)
      BY <3>5, <3>7 DEF Locked
    <3> QED
      BY <3>4, <3>7, <3>8
  <2>5. CASE j \notin UpSet(ns, i) \ {Root} /\ j = w
    <3>1. Owners(H, j) = {s} /\ Users(ns, H, j) = {} /\ ns[j].treelock = -1
      BY <2>0, <2>3, <2>5 DEF Locked
    <3>2. ms[j].treelock = 0
      BY <2>5, <3>1 DEF Gives
    <3>3. Users(ms, H \ {s}, j) = {} /\ Owners(H \ {s}, j) = {}
      BY <2>1, <2>2, <3>1
    <3> QED
      BY <2>5, <3>1, <3>2, <3>3, FS_EmptySet DEF Locked
  <2>6. CASE j \notin UpSet(ns, i) \ {Root} /\ j # w
    <3>1. ms[j].treelock = ns[j].treelock
      BY <2>6 DEF Gives
    <3>2. Users(ms, H \ {s}, j) = Users(ns, H, j) /\ Owners(H \ {s}, j) = Owners(H, j)
      BY <2>1, <2>2, <2>3, <2>6
    <3> QED
      BY <2>0, <2>6, <3>1, <3>2 DEF Locked
  <2> QED
    BY <2>4, <2>5, <2>6
<1>5. w # 0 => Live(ns, w) /\ ns[w].treelock = -1
  <2>1. w # 0 => w \in Ids /\ ns[w].nlookup > 0
    BY <1>a DEF Slot
  <2> QED
    BY <1>4, <2>1, LiveFacts
<1>6. \A j \in UpSet(ns, i) \ {Root} : ns[j].name # Null /\ ns[j].treelock > 0
  <2>1. Rooted(ns, i)
    BY <1>a DEF Slot
  <2>2. PICK u : u = Up(ns, i)
    OBVIOUS
  <2>3. \A j \in UpSet(ns, i) \ {Root} : ns[j].name # Null
    BY <2>1, <2>2, RootedIs
  <2>4. UpSet(ns, i) \subseteq Ids
    BY <2>1, UpSetFacts DEF Rooted
  <2> QED
    BY <1>4, <2>3, <2>4
<1>7. Unlockable(ns, i, w)
  BY <1>5, <1>6, Zenon DEF Unlockable, UpSet
<1> QED
  BY <1>2, <1>3, <1>4, <1>7 DEF LockOK

\* Changes of the table away from the paths that are locked.
LEMMA LockKept ==
    ASSUME case \in Cases, NEW ns, RefOK(ns), Acyclic(ns), NEW H, LockOK(ns, H),
           NEW ms, RefOK(ms), Acyclic(ms),
           \A s \in H : /\ \A j \in UpSet(ns, s[3]) : ms[j].parent = ns[j].parent
                        /\ s[4] # 0 => ms[s[4]].nlookup > 0,
           \A j \in Ids : \/ ms[j].treelock = ns[j].treelock
                          \/ ms[j].treelock = 0 /\ ns[j].nlookup = 0
    PROVE  LockOK(ms, H) /\ \A s \in H : UpSet(ms, s[3]) = UpSet(ns, s[3])
<1>1. ASSUME NEW s \in H PROVE Slot(ms, s) /\ UpSet(ms, s[3]) = UpSet(ns, s[3])
  <2>1. Slot(ns, s) /\ s[3] \in Ids
    BY DEF LockOK, Slot, Rooted
  <2>2. Up(ms, s[3]) = Up(ns, s[3])
    <3>1. PICK i : i = s[3]
      OBVIOUS
    <3>2. i \in Ids /\ \A j \in UpSet(ns, i) : ms[j].parent = ns[j].parent
      BY <2>1, <3>1
    <3> QED
      BY <3>1, <3>2, UpSame
  <2>3. UpSet(ms, s[3]) = UpSet(ns, s[3])
    BY <2>2 DEF UpSet
  <2> QED
    BY <2>1, <2>3 DEF Slot, Rooted
<1>2. ASSUME NEW j \in Ids PROVE Locked(ms, H, j)
  <2>1. Users(ms, H, j) = Users(ns, H, j)
    BY <1>1 DEF Users
  <2>2. Locked(ns, H, j)
    BY DEF LockOK
  <2>3. ms[j].treelock = ns[j].treelock
    BY Unused
  <2> QED
    BY <2>1, <2>2, <2>3 DEF Locked
<1> QED
  BY <1>1, <1>2 DEF LockOK

\* The paths that the threads have locked.
SlotsOf(t, r) ==
    {s \in {<<t, 1, r.ino, r.wnode>>, <<t, 2, r.ino2, r.wnode2>>} :
        r.held /\ (s[2] = 2 => r.op \in TwoPathOps)}
HeldOf(R) == UNION {SlotsOf(t, R[t]) : t \in Threads}
LEMMA SlotFacts ==
    ASSUME NEW t, NEW r
    PROVE  /\ ~r.held => SlotsOf(t, r) = {}
           /\ r.held /\ r.op \notin TwoPathOps => SlotsOf(t, r) = {<<t, 1, r.ino, r.wnode>>}
           /\ r.held /\ r.op \in TwoPathOps =>
                SlotsOf(t, r) = {<<t, 1, r.ino, r.wnode>>, <<t, 2, r.ino2, r.wnode2>>}
           /\ \A s \in SlotsOf(t, r) : s[1] = t
<1>1. PICK a, b : a = <<t, 1, r.ino, r.wnode>> /\ b = <<t, 2, r.ino2, r.wnode2>>
  OBVIOUS
<1>2. a[1] = t /\ b[1] = t /\ a[2] = 1 /\ b[2] = 2
  BY <1>1
<1>3. SlotsOf(t, r) = {s \in {a, b} : r.held /\ (s[2] = 2 => r.op \in TwoPathOps)}
  BY <1>1, Zenon DEF SlotsOf
<1>4. /\ ~r.held => SlotsOf(t, r) = {}
      /\ r.held /\ r.op \notin TwoPathOps => SlotsOf(t, r) = {a}
      /\ r.held /\ r.op \in TwoPathOps => SlotsOf(t, r) = {a, b}
      /\ \A s \in SlotsOf(t, r) : s[1] = t
  BY <1>2, <1>3
<1> QED
  BY <1>1, <1>4, Zenon
HeldMoves(R, S, t) ==
    /\ HeldOf(S) = (HeldOf(R) \ SlotsOf(t, R[t])) \cup SlotsOf(t, S[t])
    /\ SlotsOf(t, R[t]) \subseteq HeldOf(R)
    /\ \A s \in HeldOf(R) \ SlotsOf(t, R[t]) : s[1] # t
OnlyOne(R, S, t) == t \in Threads /\ \A u \in Threads \ {t} : S[u] = R[u]
LEMMA HeldMove ==
    ASSUME NEW R, NEW S, NEW t, OnlyOne(R, S, t)
    PROVE  HeldMoves(R, S, t)
<1>0. t \in Threads /\ \A u \in Threads \ {t} : S[u] = R[u]
  BY DEF OnlyOne
<1>1. \A u \in Threads : (\A s \in SlotsOf(u, R[u]) : s[1] = u) /\ (\A s \in SlotsOf(u, S[u]) : s[1] = u)
  BY SlotFacts
<1>2. \A s : s \in HeldOf(R) <=> \E u \in Threads : s \in SlotsOf(u, R[u])
  BY Zenon DEF HeldOf
<1>3. \A s : s \in HeldOf(S) <=> \E u \in Threads : s \in SlotsOf(u, S[u])
  BY Zenon DEF HeldOf
<1>4. ASSUME NEW s \in HeldOf(S) PROVE s \in (HeldOf(R) \ SlotsOf(t, R[t])) \cup SlotsOf(t, S[t])
  <2>1. PICK u \in Threads : s \in SlotsOf(u, S[u])
    BY <1>3
  <2>2. CASE u = t
    BY <2>1, <2>2
  <2>3. CASE u # t
    <3>1. s \in SlotsOf(u, R[u]) /\ s[1] = u
      BY <1>0, <1>1, <2>1, <2>3
    <3> QED
      BY <1>0, <1>1, <1>2, <2>3, <3>1
  <2> QED
    BY <2>2, <2>3
<1>5. ASSUME NEW s \in HeldOf(R) \ SlotsOf(t, R[t]) PROVE s \in HeldOf(S) /\ s[1] # t
  <2>1. PICK u \in Threads : s \in SlotsOf(u, R[u])
    BY <1>2
  <2>2. u # t
    BY <2>1
  <2> QED
    BY <1>0, <1>1, <1>3, <2>1, <2>2
<1>6. SlotsOf(t, R[t]) \subseteq HeldOf(R) /\ SlotsOf(t, S[t]) \subseteq HeldOf(S)
  BY <1>0, <1>2, <1>3
<1> QED
  BY <1>4, <1>5, <1>6 DEF HeldMoves

\* try_get_path locks what is free to be locked.
LEMMA FirstStopIs ==
    ASSUME NEW ns, NEW up, Len(up) \in Nat \ {0}, NEW tk, NEW stop, stop = FirstStop(ns, up, tk)
    PROVE  stop \in 1 .. Len(up) /\ \A j \in 1 .. stop - 1 : ~Blocked(ns, up[j], tk)
<1> DEFINE S == {k \in 1 .. Len(up) : k = Len(up) \/ Blocked(ns, up[k], tk)}
<1>1. S \in SUBSET Nat /\ S # {}
  <2>1. Len(up) \in S
    OBVIOUS
  <2> QED
    BY <2>1
<1>2. PICK l \in S : \A x \in S : l <= x
  <2> HIDE DEF S
  <2> QED
    BY <1>1, LeastNumber
<1>3. ASSUME NEW j \in 1 .. l - 1 PROVE ~Blocked(ns, up[j], tk)
  <2>1. j \in 1 .. Len(up) /\ ~(l <= j)
    OBVIOUS
  <2> QED
    BY <1>2, <2>1
<1>4. \E k \in 1 .. Len(up) : /\ k = Len(up) \/ Blocked(ns, up[k], tk)
                              /\ \A j \in 1 .. k - 1 : ~Blocked(ns, up[j], tk)
  BY <1>3
<1> QED
  BY <1>4, Zenon DEF FirstStop

LEMMA TookOpen ==
    ASSUME case \in Cases, NEW ns, RefOK(ns), Acyclic(ns), NEW i \in Ids, NEW w, NEW tk,
           w # 0 => w \in Ids \ {Root} /\ ns[w].parent = i /\ ~WBlocked(ns, w, tk),
           NEW ms, TookPath(ns, ms, i, w, tk)
    PROVE  Open(ns, i, w) /\ Gains(ns, ms, i, w)
<1>1. PICK up, stop : /\ up = Up(ns, i) /\ stop = FirstStop(ns, up, tk) /\ up[stop] = Root
                      /\ ms = Taken(ns, Climbs(up, stop), w)
  BY DEF TookPath
<1>2. /\ Len(up) \in Nat \ {0}
      /\ \A j : j \in UpSet(ns, i) <=> \E k \in 1 .. Len(up) : up[k] = j
  BY <1>1, UpSetIs
<1>3. stop \in 1 .. Len(up) /\ \A j \in 1 .. stop - 1 : ~Blocked(ns, up[j], tk)
  BY <1>1, <1>2, FirstStopIs
<1>4. Rooted(ns, i)
  BY <1>1, <1>2, <1>3 DEF Rooted
<1>5. /\ \A k \in 1 .. Len(up) - 1 : up[k] # Root
      /\ UpSet(ns, i) \ {Root} = Climbs(up, Len(up))
  BY <1>1, <1>4, RootedIs
<1>6. stop = Len(up)
  <2>1. ~(stop \in 1 .. Len(up) - 1)
    BY <1>1, <1>5
  <2> QED
    BY <1>2, <1>3, <2>1
<1>7. \A j \in UpSet(ns, i) \ {Root} : ns[j].treelock # -1
  BY <1>3, <1>5, <1>6 DEF Climbs, Blocked
<1>8. w # 0 => w \notin UpSet(ns, i) /\ ns[w].nlookup > 0 /\ ns[w].treelock = 0
  <2>1. w # 0 => w \notin UpSet(ns, i)
    BY NotAbove
  <2>2. w # 0 => ns[w].nlookup > 0 /\ ns[w].treelock = 0
    BY IdFacts DEF WBlocked, RefOK, Named
  <2> QED
    BY <2>1, <2>2
<1>9. 0 \notin UpSet(ns, i)
  BY UpSetFacts, IdFacts
<1>10. Open(ns, i, w)
  BY <1>4, <1>7, <1>8, <1>9 DEF Open
<1>11. Gains(ns, ms, i, w)
  <2>1. PICK got : got = Climbs(up, stop)
    OBVIOUS
  <2>2. Table(ns) /\ ms = Taken(ns, got, w)
    BY <1>1, <2>1 DEF RefOK
  <2>3. \A j \in Ids : ms[j].treelock = IF j \in got THEN ns[j].treelock + 1
                                        ELSE IF j = w THEN -1 ELSE ns[j].treelock
    BY <2>2, TakenIs
  <2>4. got = UpSet(ns, i) \ {Root}
    BY <1>5, <1>6, <2>1
  <2> QED
    BY <2>3, <2>4, Zenon DEF Gains
<1> QED
  BY <1>10, <1>11

\* One path.
At(ns, j, d, n) == ns[j].parent = d /\ ns[j].name = n
Faithful(ns, ms) == RefOK(ms) /\ Acyclic(ms) /\ SameTree(ns, ms) /\ Table(ms)
Finds(ns, w, wr, i, n) ==
    /\ w \in (Ids \ {Root}) \cup {0} /\ (~wr => w = 0)
    /\ w # 0 => At(ns, w, i, n)
    /\ wr => \A c \in Ids \ {Root} : At(ns, c, i, n) => w = c
LEMMA TryOneLocks ==
    ASSUME case \in Cases, NEW ns, RefOK(ns), Acyclic(ns), NEW H, LockOK(ns, H), NEW i \in Ids, NEW n,
           NEW wr, NEW tk, NEW a, a = try_get_path(ns, i, n, wr, tk)
    PROVE  /\ Faithful(ns, a.ns) /\ Finds(ns, IF wr THEN lookup_node(ns, i, n) ELSE 0, wr, i, n)
           /\ a.err # "" => LockOK(a.ns, H)
           /\ a.err = "" => /\ Finds(ns, a.wnode, wr, i, n)
                            /\ \A s : s \notin H /\ s[3] = i /\ s[4] = a.wnode => LockOK(a.ns, H \cup {s})
<1>1. PICK w : w = IF wr THEN lookup_node(ns, i, n) ELSE 0
  OBVIOUS
<1>2. Finds(ns, w, wr, i, n)
  BY <1>1, LookupIs DEF Finds, At
<1>3. Table(ns)
  BY DEF RefOK
<1>4. /\ Calm(ns, a.ns) /\ Table(a.ns)
      /\ a.err = "" => TookPath(ns, a.ns, i, w, tk) /\ a.wnode = w /\ (w # 0 => ~WBlocked(ns, w, tk))
      /\ a.err # "" => Ticketed(ns, a.ns) /\ a.wnode = 0
  <2>1. AttemptIs(ns, a, i, w, tk)
    BY <1>1, <1>3, TryOneIs
  <2> QED
    BY <2>1 DEF AttemptIs
<1>5. PICK ms : ms = a.ns
  OBVIOUS
<1>6. Table(ms) /\ SameTree(ns, ms)
  BY <1>4, <1>5, CalmFacts
<1>7. Faithful(ns, ms)
  BY <1>6, SameUp DEF Faithful
<1>8. ASSUME a.err # "" PROVE LockOK(ms, H)
  <2>1. \A j \in Ids : ms[j].treelock = ns[j].treelock
    BY <1>4, <1>5, <1>8 DEF Ticketed
  <2>2. \A s \in H : /\ \A j \in UpSet(ns, s[3]) : ms[j].parent = ns[j].parent
                     /\ s[4] # 0 => ms[s[4]].nlookup > 0
    <3> SUFFICES ASSUME NEW s \in H
                 PROVE  /\ \A j \in UpSet(ns, s[3]) : ms[j].parent = ns[j].parent
                        /\ s[4] # 0 => ms[s[4]].nlookup > 0
      OBVIOUS
    <3>1. Slot(ns, s) /\ s[3] \in Ids
      BY DEF LockOK, Slot, Rooted
    <3>2. UpSet(ns, s[3]) \subseteq Ids
      BY <3>1, UpSetFacts
    <3> QED
      BY <1>6, <3>1, <3>2 DEF SameTree, Slot
  <2>3. RefOK(ms) /\ Acyclic(ms)
    BY <1>7 DEF Faithful
  <2> QED
    BY <2>1, <2>2, <2>3, LockKept
<1>9. ASSUME a.err = "", NEW s, s \notin H, s[3] = i, s[4] = w PROVE LockOK(ms, H \cup {s})
  <2>1. TookPath(ns, ms, i, w, tk) /\ (w # 0 => w \in Ids \ {Root} /\ ns[w].parent = i /\ ~WBlocked(ns, w, tk))
    BY <1>2, <1>4, <1>5, <1>9 DEF Finds, At
  <2>2. Open(ns, i, w) /\ Gains(ns, ms, i, w)
    BY <2>1, TookOpen
  <2> QED
    BY <1>6, <1>9, <2>2, LockAdd
<1> QED
  BY <1>1, <1>2, <1>4, <1>5, <1>7, <1>8, <1>9

\* unlock_path of a path that is locked.
LEMMA UnlockGives ==
    ASSUME case \in Cases, NEW ns, RefOK(ns), Acyclic(ns), NEW i, NEW w, NEW tk,
           NEW ms, ms = unlock_path(ns, i, w, tk)
    PROVE  Faithful(ns, ms) /\ Gives(ns, ms, i, w)
<1>1. PICK U : U = ToSet(Up(ns, i)) \ {Root}
  OBVIOUS
<1>2. Table(ns)
  BY DEF RefOK
<1>3. Calm(ns, ms) /\ Left(ns, ms, U, w)
  BY <1>1, <1>2, UnlockIs
<1>5. Table(ms) /\ SameTree(ns, ms)
  BY <1>3, CalmFacts
<1>6. Gives(ns, ms, i, w)
  BY <1>1, <1>3, Zenon DEF Gives, UpSet, Left
<1>7. Faithful(ns, ms)
  BY <1>5, SameUp DEF Faithful
<1> QED
  BY <1>6, <1>7
LEMMA UnlockLocks ==
    ASSUME case \in Cases, NEW ns, RefOK(ns), Acyclic(ns), NEW H, LockOK(ns, H), NEW s \in H, NEW tk,
           NEW i, s[3] = i, NEW w, s[4] = w, NEW ms, ms = unlock_path(ns, i, w, tk)
    PROVE  Faithful(ns, ms) /\ LockOK(ms, H \ {s}) /\ Unlockable(ns, i, w)
<1>1. Faithful(ns, ms) /\ Gives(ns, ms, i, w)
  BY UnlockGives
<1>2. Table(ms) /\ SameTree(ns, ms)
  BY <1>1 DEF Faithful
<1> QED
  BY <1>1, <1>2, LockDrop

\* All the paths of a request: those of thread t, if it has none yet.
Grants(ns, r, w, w2) ==
    /\ r.op \notin TwoPathOps => Finds(ns, w, Writes(r), r.ino, r.name)
    /\ r.op \in TwoPathOps => /\ Finds(ns, w, Exclusive(r), r.ino, r.name)
                              /\ Finds(ns, w2, Exclusive(r), r.ino2, r.name2)
LEMMA FindsSame ==
    ASSUME NEW ns, NEW ms, SameTree(ns, ms), NEW w, NEW wr, NEW i, NEW n, Finds(ms, w, wr, i, n)
    PROVE  Finds(ns, w, wr, i, n)
BY DEF Finds, SameTree, At
LEMMA FaithfulTwice ==
    ASSUME NEW ns, NEW ms, NEW ls, Faithful(ns, ms), Faithful(ms, ls)
    PROVE  Faithful(ns, ls)
BY DEF Faithful, SameTree
LEMMA TryLocks ==
    ASSUME case \in Cases, NEW ns, RefOK(ns), Acyclic(ns), NEW H, LockOK(ns, H), NEW r, r.ino \in Ids,
           r.op \in TwoPathOps => r.ino2 \in Ids, NEW tk, NEW t, \A s \in H : s[1] # t,
           NEW z, z = TryLock(ns, r, tk)
    PROVE  /\ Faithful(ns, z.ns)
           /\ z.err # "" => LockOK(z.ns, H)
           /\ z.err = "" => /\ Grants(ns, r, z.wnode, z.wnode2)
                            /\ \A q : q.held /\ q.op = r.op /\ q.ino = r.ino /\ q.ino2 = r.ino2
                                        /\ q.wnode = z.wnode /\ q.wnode2 = z.wnode2
                                        => LockOK(z.ns, H \cup SlotsOf(t, q))
<1>1. CASE r.op \notin TwoPathOps
  <2>1. PICK a, wr : a = try_get_path(ns, r.ino, r.name, wr, tk) /\ wr = Writes(r)
    OBVIOUS
  <2>2. z = [err |-> a.err, ns |-> a.ns, wnode |-> a.wnode, wnode2 |-> 0]
    BY <1>1, <2>1 DEF TryLock, OnePath
  <2>3. z.err = a.err /\ z.ns = a.ns /\ z.wnode = a.wnode
    BY <2>2
  <2>4. wr \in BOOLEAN
    BY <2>1 DEF Writes
  <2>5. /\ Faithful(ns, a.ns)
        /\ a.err # "" => LockOK(a.ns, H)
        /\ a.err = "" => /\ Finds(ns, a.wnode, wr, r.ino, r.name)
                         /\ \A s : s \notin H /\ s[3] = r.ino /\ s[4] = a.wnode => LockOK(a.ns, H \cup {s})
    BY <2>1, <2>4, TryOneLocks
  <2>6. ASSUME a.err = "", NEW q, q.held, q.op = r.op, q.ino = r.ino, q.wnode = a.wnode
        PROVE  LockOK(a.ns, H \cup SlotsOf(t, q))
    <3>1. PICK s : s = <<t, 1, q.ino, q.wnode>>
      OBVIOUS
    <3>2. s[1] = t /\ s[3] = r.ino /\ s[4] = a.wnode
      BY <2>6, <3>1
    <3>3. SlotsOf(t, q) = {s}
      BY <1>1, <2>6, <3>1, SlotFacts
    <3> QED
      BY <2>5, <2>6, <3>2, <3>3
  <2>7. a.err = "" => Grants(ns, r, a.wnode, z.wnode2)
    BY <1>1, <2>1, <2>5 DEF Grants
  <2> QED
    BY <2>3, <2>5, <2>6, <2>7
<1>2. CASE r.op \in TwoPathOps
  <2>0. PICK wr : wr = Exclusive(r)
    OBVIOUS
  <2>1. PICK a : a = try_get_path(ns, r.ino, r.name, wr, tk)
    OBVIOUS
  <2>4. wr \in BOOLEAN
    BY <2>0 DEF Exclusive
  <2>5. /\ Faithful(ns, a.ns)
        /\ a.err # "" => LockOK(a.ns, H)
        /\ a.err = "" => /\ Finds(ns, a.wnode, wr, r.ino, r.name)
                         /\ \A s : s \notin H /\ s[3] = r.ino /\ s[4] = a.wnode => LockOK(a.ns, H \cup {s})
    BY <2>1, <2>4, TryOneLocks
  <2>8. z = OneTried(a, r, tk)
    BY <1>2, <2>0, <2>1 DEF TryLock, try_get_path2
  <2>9. CASE a.err # ""
    <3>1. z = [err |-> a.err, ns |-> a.ns, wnode |-> 0, wnode2 |-> 0]
      BY <2>8, <2>9, Zenon DEF OneTried
    <3>2. z.ns = a.ns /\ z.err = a.err
      BY <3>1
    <3> QED
      BY <2>5, <2>9, <3>2
  <2>10. CASE a.err = ""
    <3>1. PICK b : b = try_get_path(a.ns, r.ino2, r.name2, wr, tk)
      OBVIOUS
    <3>2. z = BothTried(a, b, r, tk)
      BY <2>0, <2>8, <2>10, <3>1, Zenon DEF OneTried
    <3>3. PICK x : x = <<t, 1, r.ino, a.wnode>>
      OBVIOUS
    <3>4. x[1] = t /\ x[2] = 1 /\ x[3] = r.ino /\ x[4] = a.wnode
      BY <3>3
    <3>5. PICK K : K = H \cup {x}
      OBVIOUS
    <3>6. LockOK(a.ns, K) /\ RefOK(a.ns) /\ Acyclic(a.ns) /\ SameTree(ns, a.ns) /\ x \in K /\ K \ {x} = H
      BY <2>5, <2>10, <3>4, <3>5 DEF Faithful
    <3>7. /\ Faithful(a.ns, b.ns)
          /\ b.err # "" => LockOK(b.ns, K)
          /\ b.err = "" =>
               /\ Finds(a.ns, b.wnode, wr, r.ino2, r.name2)
               /\ \A s : s \notin K /\ s[3] = r.ino2 /\ s[4] = b.wnode => LockOK(b.ns, K \cup {s})
      <4>1. PICK ns1 : ns1 = a.ns
        OBVIOUS
      <4>2. RefOK(ns1) /\ Acyclic(ns1) /\ LockOK(ns1, K) /\ r.ino2 \in Ids
        BY <1>2, <3>6, <4>1
      <4>3. b = try_get_path(ns1, r.ino2, r.name2, wr, tk)
        BY <3>1, <4>1
      <4>4. Faithful(ns1, b.ns)
        BY <2>4, <4>2, <4>3, TryOneLocks
      <4>5. ASSUME b.err # "" PROVE LockOK(b.ns, K)
        BY <2>4, <4>2, <4>3, <4>5, TryOneLocks
      <4>6. ASSUME b.err = "" PROVE Finds(ns1, b.wnode, wr, r.ino2, r.name2)
        BY <2>4, <4>2, <4>3, <4>6, TryOneLocks
      <4>7. ASSUME b.err = "", NEW s, s \notin K, s[3] = r.ino2, s[4] = b.wnode PROVE LockOK(b.ns, K \cup {s})
        BY <2>4, <4>2, <4>3, <4>7, TryOneLocks
      <4> QED
        BY <4>1, <4>4, <4>5, <4>6, <4>7
    <3>8. CASE b.err = ""
      <4>1. z = [err |-> "", ns |-> b.ns, wnode |-> a.wnode, wnode2 |-> b.wnode]
        BY <3>2, <3>8, Zenon DEF BothTried
      <4>0. ASSUME NEW er, NEW m, NEW v, NEW y, z = [err |-> er, ns |-> m, wnode |-> v, wnode2 |-> y]
            PROVE  z.err = er /\ z.ns = m /\ z.wnode = v /\ z.wnode2 = y
        BY <4>0
      <4>2. z.err = "" /\ z.ns = b.ns /\ z.wnode = a.wnode /\ z.wnode2 = b.wnode
        BY <4>0, <4>1, Zenon
      <4>3. Faithful(ns, z.ns)
        BY <2>5, <3>7, <4>2, FaithfulTwice
      <4>4. Grants(ns, r, z.wnode, z.wnode2)
        <5>1. Finds(ns, b.wnode, wr, r.ino2, r.name2)
          BY <3>6, <3>7, <3>8, FindsSame
        <5> QED
          BY <1>2, <2>0, <2>5, <2>10, <4>2, <5>1 DEF Grants
      <4>5. ASSUME NEW q, q.held, q.op = r.op, q.ino = r.ino, q.ino2 = r.ino2, q.wnode = z.wnode,
                   q.wnode2 = z.wnode2
            PROVE  LockOK(z.ns, H \cup SlotsOf(t, q))
        <5>1. PICK s : s = <<t, 2, q.ino2, q.wnode2>>
          OBVIOUS
        <5>2. s[1] = t /\ s[2] = 2 /\ s[3] = r.ino2 /\ s[4] = b.wnode
          BY <4>2, <4>5, <5>1
        <5>3. s \notin K
          BY <3>4, <3>5, <5>2
        <5>4. x = <<t, 1, q.ino, q.wnode>>
          BY <3>3, <4>2, <4>5
        <5>5. SlotsOf(t, q) = {x, s}
          BY <1>2, <4>5, <5>1, <5>4, SlotFacts, Zenon
        <5>6. H \cup SlotsOf(t, q) = K \cup {s}
          BY <3>5, <5>5
        <5> QED
          BY <3>7, <3>8, <4>2, <5>2, <5>3, <5>6
      <4> QED
        BY <4>2, <4>3, <4>4, <4>5
    <3>9. CASE b.err # ""
      <4>1. PICK ms1, ms : ms1 = b.ns /\ ms = unlock_path(ms1, r.ino, a.wnode, tk)
        OBVIOUS
      <4>2. z = [err |-> b.err, ns |-> ms, wnode |-> 0, wnode2 |-> 0]
        BY <3>2, <3>9, <4>1, Zenon DEF BothTried
      <4>3. z.err = b.err /\ z.ns = ms
        BY <4>2
      <4>4. RefOK(ms1) /\ Acyclic(ms1) /\ LockOK(ms1, K)
        BY <3>7, <3>9, <4>1 DEF Faithful
      <4>5. Faithful(ms1, ms) /\ LockOK(ms, K \ {x})
        BY <3>4, <3>6, <4>1, <4>4, UnlockLocks
      <4>6. Faithful(ns, ms)
        <5>1. Faithful(ns, ms1)
          BY <2>5, <3>7, <4>1, FaithfulTwice
        <5> QED
          BY <4>5, <5>1, FaithfulTwice
      <4> QED
        BY <3>6, <3>9, <4>3, <4>5, <4>6
    <3> QED
      BY <3>8, <3>9
  <2> QED
    BY <2>9, <2>10
<1> QED
  BY <1>1, <1>2

\* free_path and free_path2: what they assert holds.
LEMMA UnlockAllLocks ==
    ASSUME case \in Cases, NEW ns, RefOK(ns), Acyclic(ns), NEW H, LockOK(ns, H), NEW t, NEW r, r.held,
           SlotsOf(t, r) \subseteq H, NEW ms, ms = UnlockAll(ns, r)
    PROVE  /\ Faithful(ns, ms) /\ LockOK(ms, H \ SlotsOf(t, r)) /\ Unlockable(ns, r.ino, r.wnode)
           /\ r.op \in TwoPathOps => Unlockable(ns, r.ino2, r.wnode2)
<1>1. PICK x, y : x = <<t, 1, r.ino, r.wnode>> /\ y = <<t, 2, r.ino2, r.wnode2>>
  OBVIOUS
<1>2. /\ x[3] = r.ino /\ x[4] = r.wnode /\ y[3] = r.ino2 /\ y[4] = r.wnode2 /\ x # y
  <2>1. x[2] = 1 /\ y[2] = 2
    BY <1>1
  <2> QED
    BY <1>1, <2>1
<1>3. /\ r.op \notin TwoPathOps => SlotsOf(t, r) = {x}
      /\ r.op \in TwoPathOps => SlotsOf(t, r) = {x, y}
  BY <1>1, SlotFacts, Zenon
<1>4. PICK one : one = unlock_path(ns, r.ino, r.wnode, 0)
  OBVIOUS
<1>5. x \in H /\ (r.op \in TwoPathOps => y \in H)
  BY <1>3
<1>6. Faithful(ns, one) /\ LockOK(one, H \ {x}) /\ Unlockable(ns, r.ino, r.wnode)
  BY <1>2, <1>4, <1>5, UnlockLocks
<1>7. CASE r.op \notin TwoPathOps
  <2>1. ms = one
    BY <1>4, <1>7 DEF UnlockAll
  <2> QED
    BY <1>3, <1>6, <1>7, <2>1
<1>8. CASE r.op \in TwoPathOps
  <2>1. ms = unlock_path(one, r.ino2, r.wnode2, 0)
    BY <1>4, <1>8 DEF UnlockAll
  <2>2. PICK K : K = H \ {x}
    OBVIOUS
  <2>3. y \in K /\ LockOK(one, K) /\ RefOK(one) /\ Acyclic(one) /\ K \ {y} = H \ SlotsOf(t, r)
    BY <1>2, <1>3, <1>5, <1>6, <1>8, <2>2 DEF Faithful
  <2>4. Faithful(one, ms) /\ LockOK(ms, K \ {y})
    BY <1>2, <2>1, <2>3, UnlockLocks
  <2>5. Faithful(ns, ms)
    BY <1>6, <2>4, FaithfulTwice
  <2>6. Unlockable(ns, r.ino2, r.wnode2)
    <3>1. PICK two : two = unlock_path(ns, r.ino2, r.wnode2, 0)
      OBVIOUS
    <3> QED
      BY <1>2, <1>5, <1>8, <3>1, UnlockLocks
  <2> QED
    BY <1>6, <2>3, <2>4, <2>5, <2>6
<1> QED
  BY <1>7, <1>8

----------------------------------------------------------------------------
(***************************************************************************)
(* What the kernel and the threads keep between them as long as no request *)
(* is given up before it has its paths.                                    *)
(***************************************************************************)

\* A request the kernel waits for; a thread whose arguments count.
Serving(p, r) == p # "idle" /\ ~r.killed /\ ~r.done
Active(p, r) == r.held \/ Serving(p, r)
Uses(p, r, j) == Active(p, r) /\ (r.ino = j \/ r.ino2 = j)

\* A request that is served has arguments that the kernel knows, and its
\* entry where it was found; one that takes a name away has its node there
\* until it does, and has it locked once it has its paths.
Ahead == {"getlk", "start", "wait", "locked", "hide", "hiding", "change"}
Removes(r) == Shape(r) \in {"unlink", "rmdir", "rename"}
Finders == {"entry", "create", "link"}
KnownIn(kl, i) == i = 0 \/ i = Root \/ kl[i] > 0
KnowsArgs(kl, r) ==
    KnownIn(kl, r.ino) /\ KnownIn(kl, r.ino2) /\ KnownIn(kl, r.victim) /\ r.victim \in Ids \cup {0}
Source(ns, kl, r) ==
    \E c \in Ids \ {Root} : At(ns, c, r.ino, r.name) /\ kl[c] > 0 /\ (r.held => r.wnode = c)
Solo(ns, kl, p, r) ==
    /\ Serving(p, r) => KnowsArgs(kl, r)
    /\ Serving(p, r) /\ Shape(r) \in Finders /\ r.entry # 0 => At(ns, r.entry, EntryDir(r), EntryName(r))
    /\ r.killed => p \notin {"start", "wait"} /\ Shape(r) \in {"entry", "create", "open", "link"}
    /\ p \in Ahead /\ Removes(r) => Source(ns, kl, r)
    /\ r.op = "rename" => r.ino # r.ino2 \/ r.name # r.name2
    /\ r.op = "open" /\ p = "release" => r.held
    /\ r.held \/ p \notin {"idle", "forget", "fwait"} => Shape(r) # "forget"
    /\ p = "insert" /\ r.op = "setlk" => ~r.held
    /\ r.entry # 0 => r.n >= 1
Solos(ns, P, R, kl) == \A u \in Threads : Solo(ns, kl, P[u], R[u])

\* What a rename replaces is the victim of the request, and locked, or it
\* came after it: then nobody works with it.
Newcomer(ns, P, R, kl, j) ==
    kl[j] = 0 /\ KidsOf(ns, j) = {} /\ \A u \in Threads : ~Uses(P[u], R[u], j)
Target(ns, P, R, kl, r) ==
    \A j \in Ids \ {Root} : At(ns, j, r.ino2, r.name2) =>
       (j = r.victim /\ (r.held => r.wnode2 = j)) \/ Newcomer(ns, P, R, kl, j)
Targets(ns, P, R, kl) ==
    \A u \in Threads : R[u].op = "rename" /\ P[u] \in Ahead => Target(ns, P, R, kl, R[u])

\* No two requests that are served change the same directory.
Apart(P, R) ==
    \A t, u \in Threads : t # u /\ Serving(P[t], R[t]) /\ Serving(P[u], R[u]) =>
       Mutexes(R[t]) \cap Mutexes(R[u]) \subseteq {0}

Paths(ns, R) == \A u \in Threads : R[u].held => R[u].path = PathOf2(ns, R[u])

\* The opens of node i with a thread, and with all threads.
Opener(p, r, i) == Opening(p, r, i) \/ Closing(p, r, i)
Openers(P, R, i) == {u \in Threads : Opener(P[u], R[u], i)}
Opens(ns, P, R, kl, ko) ==
    /\ ko \in [Ids -> Nat]
    /\ \A i \in Ids : /\ ko[i] > 0 => KnownIn(kl, i)
                      /\ Live(ns, i) => ns[i].open = ko[i] + Cardinality(Openers(P, R, i))

QTree(ns, P, R, kl) ==
    /\ Acyclic(ns) /\ LockOK(ns, HeldOf(R)) /\ Paths(ns, R)
    /\ Solos(ns, P, R, kl) /\ Targets(ns, P, R, kl) /\ Apart(P, R)
QInv ==
    /\ QTree(nodes, pc, req, klook) /\ Opens(nodes, pc, req, klook, kopen) /\ aborted = {}

\* A path that is locked leads to the root.
LEMMA HeldRooted ==
    ASSUME NEW ns, NEW R, LockOK(ns, HeldOf(R)), NEW t \in Threads, R[t].held
    PROVE  /\ Rooted(ns, R[t].ino) /\ (R[t].op \in TwoPathOps => Rooted(ns, R[t].ino2))
           /\ <<t, 1, R[t].ino, R[t].wnode>> \in HeldOf(R)
           /\ R[t].op \in TwoPathOps => <<t, 2, R[t].ino2, R[t].wnode2>> \in HeldOf(R)
<1>1. PICK x, y : x = <<t, 1, R[t].ino, R[t].wnode>> /\ y = <<t, 2, R[t].ino2, R[t].wnode2>>
  OBVIOUS
<1>2. x[3] = R[t].ino /\ y[3] = R[t].ino2
  BY <1>1
<1>3. x \in SlotsOf(t, R[t]) /\ (R[t].op \in TwoPathOps => y \in SlotsOf(t, R[t]))
  <2>1. PICK r : r = R[t]
    OBVIOUS
  <2>2. /\ r.op \notin TwoPathOps => SlotsOf(t, r) = {x}
        /\ r.op \in TwoPathOps => SlotsOf(t, r) = {x, y}
    BY <1>1, <2>1, SlotFacts, Zenon
  <2> QED
    BY <2>1, <2>2
<1>4. x \in HeldOf(R) /\ (R[t].op \in TwoPathOps => y \in HeldOf(R))
  BY <1>3, Zenon DEF HeldOf
<1>5. Slot(ns, x) /\ (R[t].op \in TwoPathOps => Slot(ns, y))
  BY <1>4 DEF LockOK
<1> QED
  BY <1>1, <1>2, <1>4, <1>5 DEF Slot

\* The kernel knows a node, or a thread works with it: it has lookups.
LEMMA FlightNat ==
    ASSUME RInv, NEW i
    PROVE  Cardinality(Flight(pc, req, i)) \in Nat
<1>1. \A u \in Threads : req[u].n \in Nat
  BY DEF RInv, RStage, ReqOK
<1>2. CASE Threads = {}
  <2>1. Flight(pc, req, i) = {}
    BY <1>2 DEF Flight
  <2> QED
    BY <2>1, FS_EmptySet
<1>3. ASSUME NEW t \in Threads PROVE Cardinality(Flight(pc, req, i)) \in Nat
  <2>1. IsFiniteSet(Flight(pc, req, i))
    BY <1>1, FlightSplit
  <2> QED
    BY <2>1, FS_CardinalityType
<1> QED
  BY <1>2, <1>3
LEMMA KnownLive ==
    ASSUME LInv, RInv, NEW i \in Ids, KnownIn(klook, i)
    PROVE  nodes[i].nlookup > 0 /\ Live(nodes, i)
<1>0. case \in Cases /\ RefOK(nodes)
  BY DEF LInv, Threading, RInv
<1>1. CASE i = Root
  <2>1. nodes[i].nlookup = 1
    BY <1>0, <1>1 DEF RefOK, Named
  <2> QED
    BY <1>0, <2>1, LiveFacts
<1>2. CASE i # Root
  <2>1. klook[i] > 0 /\ klook[i] \in Nat
    BY <1>0, <1>2, IdFacts DEF KnownIn, RInv
  <2>2. nodes[i].nlookup = klook[i] + Cardinality(Flight(pc, req, i))
    BY <1>2 DEF RInv, FlightsOK
  <2>3. Cardinality(Flight(pc, req, i)) \in Nat
    BY FlightNat
  <2>4. nodes[i].nlookup > 0
    BY <2>1, <2>2, <2>3
  <2> QED
    BY <1>0, <2>4, LiveFacts
<1> QED
  BY <1>1, <1>2

LEMMA UsesLive ==
    ASSUME LInv, RInv, QInv, NEW u \in Threads, NEW j \in Ids, Uses(pc[u], req[u], j)
    PROVE  nodes[j].nlookup > 0 /\ Live(nodes, j)
<1>0. case \in Cases /\ RefOK(nodes) /\ Acyclic(nodes)
  BY DEF LInv, Threading, RInv, QInv, QTree
<1>1. CASE Serving(pc[u], req[u])
  <2>1. KnownIn(klook, j)
    BY <1>1 DEF QInv, QTree, Solos, Solo, KnowsArgs, Uses
  <2> QED
    BY <2>1, KnownLive
<1>2. CASE req[u].held
  <2>1. Rooted(nodes, req[u].ino) /\ (req[u].op \in TwoPathOps => Rooted(nodes, req[u].ino2))
    BY <1>2, HeldRooted DEF QInv, QTree
  <2>2. pc[u] # "idle"
    BY <1>2, RFacts DEF Holding
  <2>3. Args(req[u])
    BY <2>2, RFacts
  <2>4. Shape(req[u]) # "forget"
    BY <1>2 DEF QInv, QTree, Solos, Solo
  <2>5. Rooted(nodes, j)
    <3>1. CASE j = req[u].ino
      BY <2>1, <3>1
    <3>2. CASE j = req[u].ino2 /\ req[u].op \in TwoPathOps
      BY <2>1, <3>2
    <3>3. CASE j = req[u].ino2 /\ req[u].op \notin TwoPathOps
      BY <1>0, <2>3, <2>4, <3>3, IdFacts DEF Args
    <3> QED
      BY <3>1, <3>2, <3>3 DEF Uses
  <2>6. PICK v : v = Up(nodes, j)
    OBVIOUS
  <2>7. nodes[j].nlookup > 0
    BY <1>0, <2>5, <2>6, RootedIs
  <2> QED
    BY <1>0, <2>7, LiveFacts
<1> QED
  BY <1>1, <1>2 DEF Uses, Active

----------------------------------------------------------------------------
\* A step of thread t: what the others rely on stays.
KeepsSolo(ns, ms, kl, kl2, p, r) ==
    /\ Serving(p, r) /\ KnowsArgs(kl, r) => KnowsArgs(kl2, r)
    /\ Serving(p, r) /\ Shape(r) \in Finders /\ r.entry # 0 => Steady(ns, ms, r.entry)
    /\ p \in Ahead /\ Removes(r) =>
         \A c \in Ids \ {Root} : At(ns, c, r.ino, r.name) /\ kl[c] > 0 => Steady(ns, ms, c) /\ kl2[c] > 0
KeepsTarget(ns, ms, kl, r) ==
    \A j \in Ids \ {Root} : At(ms, j, r.ino2, r.name2) =>
       \/ At(ns, j, r.ino2, r.name2) /\ (Newcomer(ns, pc, req, kl, j) => Newcomer(ms, pc', req', klook', j))
       \/ Newcomer(ms, pc', req', klook', j)
KeepsOthers(t) ==
    \A u \in Threads \ {t} :
      /\ KeepsSolo(nodes, nodes', klook, klook', pc[u], req[u])
      /\ req[u].op = "rename" /\ pc[u] \in Ahead => KeepsTarget(nodes, nodes', klook, req[u])
KeepsPaths(t) ==
    \A s \in HeldOf(req) : s[1] # t => \A j \in UpSet(nodes, s[3]) : Steady(nodes, nodes', j)
OwnPart(t, p, r) ==
    /\ Solo(nodes', klook', p, r)
    /\ r.op = "rename" /\ p \in Ahead => Target(nodes', pc', req', klook', r)
    /\ r.held => r.path = PathOf2(nodes', r)
    /\ Serving(p, r) => \A u \in Threads \ {t} :
          Serving(pc[u], req[u]) => Mutexes(r) \cap Mutexes(req[u]) \subseteq {0}

LEMMA SoloKept ==
    ASSUME NEW ns, NEW ms, NEW kl, NEW kl2, NEW p, NEW r, Solo(ns, kl, p, r), KeepsSolo(ns, ms, kl, kl2, p, r)
    PROVE  Solo(ms, kl2, p, r)
<1>1. Serving(p, r) => KnowsArgs(kl2, r)
  BY DEF Solo, KeepsSolo
<1>2. Serving(p, r) /\ Shape(r) \in Finders /\ r.entry # 0 => At(ms, r.entry, EntryDir(r), EntryName(r))
  BY DEF Solo, KeepsSolo, At, Steady
<1>3. ASSUME p \in Ahead, Removes(r)
      PROVE  Source(ms, kl2, r)
  <2>1. PICK c \in Ids \ {Root} : At(ns, c, r.ino, r.name) /\ kl[c] > 0 /\ (r.held => r.wnode = c)
    BY <1>3 DEF Solo, Source
  <2>2. Steady(ns, ms, c) /\ kl2[c] > 0
    BY <1>3, <2>1 DEF KeepsSolo
  <2>3. At(ms, c, r.ino, r.name)
    BY <2>1, <2>2 DEF At, Steady
  <2> QED
    BY <2>1, <2>2, <2>3 DEF Source
<1> QED
  BY <1>1, <1>2, <1>3 DEF Solo
LEMMA TargetKept ==
    ASSUME NEW ms, NEW r, Target(nodes, pc, req, klook, r), KeepsTarget(nodes, ms, klook, r)
    PROVE  Target(ms, pc', req', klook', r)
<1>1. ASSUME NEW j \in Ids \ {Root}, At(ms, j, r.ino2, r.name2)
      PROVE  (j = r.victim /\ (r.held => r.wnode2 = j)) \/ Newcomer(ms, pc', req', klook', j)
  <2>1. CASE Newcomer(ms, pc', req', klook', j)
    BY <2>1
  <2>2. CASE /\ At(nodes, j, r.ino2, r.name2)
             /\ Newcomer(nodes, pc, req, klook, j) => Newcomer(ms, pc', req', klook', j)
    <3>1. (j = r.victim /\ (r.held => r.wnode2 = j)) \/ Newcomer(nodes, pc, req, klook, j)
      BY <2>2 DEF Target
    <3> QED
      BY <2>2, <3>1
  <2> QED
    BY <1>1, <2>1, <2>2 DEF KeepsTarget
<1> QED
  BY <1>1 DEF Target
\* The path of a thread, if nothing on it moves.
HoldsTwo(r) == r.held /\ (r.ino2 = 0 \/ r.op \in TwoPathOps)
LEMMA HoldsArgs ==
    ASSUME LInv, RInv, QInv, NEW u \in Threads, req[u].held
    PROVE  HoldsTwo(req[u]) /\ pc[u] # "idle" /\ Args(req[u]) /\ req[u].ino \in Ids
           /\ (req[u].op \in TwoPathOps => req[u].ino2 \in Ids) /\ Shape(req[u]) # "forget"
<1>1. pc[u] # "idle"
  BY RFacts DEF Holding
<1>2. Shape(req[u]) # "forget"
  BY DEF QInv, QTree, Solos, Solo
<1> QED
  BY <1>1, <1>2, RFacts DEF Args, HoldsTwo
LEMMA PathKept ==
    ASSUME case \in Cases, NEW ns, RefOK(ns), Acyclic(ns), NEW ms, RefOK(ms), Acyclic(ms), NEW r,
           r.ino \in Ids, r.ino2 \in Ids \cup {0},
           \A j \in UpSet(ns, r.ino) : Steady(ns, ms, j),
           r.ino2 # 0 => \A j \in UpSet(ns, r.ino2) : Steady(ns, ms, j)
    PROVE  PathOf2(ms, r) = PathOf2(ns, r)
<1>1. PathOf(ms, r.ino) = PathOf(ns, r.ino)
  BY PathSame
<1>2. r.ino2 # 0 => PathOf(ms, r.ino2) = PathOf(ns, r.ino2)
  BY PathSame
<1> QED
  BY <1>1, <1>2 DEF PathOf2
LEMMA PathsKept ==
    ASSUME LInv, RInv, QInv, RInv', Acyclic(nodes'), NEW t, NEW u \in Threads \ {t}, req[u].held, KeepsPaths(t)
    PROVE  PathOf2(nodes', req[u]) = req[u].path
<1>0. case \in Cases /\ RefOK(nodes) /\ RefOK(nodes') /\ Acyclic(nodes) /\ LockOK(nodes, HeldOf(req))
  BY DEF LInv, Threading, RInv, QInv, QTree
<1>1. HoldsTwo(req[u]) /\ req[u].ino \in Ids /\ (req[u].op \in TwoPathOps => req[u].ino2 \in Ids)
  BY HoldsArgs
<1>2. /\ <<u, 1, req[u].ino, req[u].wnode>> \in HeldOf(req)
      /\ req[u].op \in TwoPathOps => <<u, 2, req[u].ino2, req[u].wnode2>> \in HeldOf(req)
  BY <1>0, HeldRooted
<1>3. PICK x, y : x = <<u, 1, req[u].ino, req[u].wnode>> /\ y = <<u, 2, req[u].ino2, req[u].wnode2>>
  OBVIOUS
<1>4. x[1] = u /\ y[1] = u /\ x[3] = req[u].ino /\ y[3] = req[u].ino2
  BY <1>3
<1>5. /\ \A j \in UpSet(nodes, req[u].ino) : Steady(nodes, nodes', j)
      /\ req[u].ino2 # 0 => \A j \in UpSet(nodes, req[u].ino2) : Steady(nodes, nodes', j)
  BY <1>1, <1>2, <1>3, <1>4, Zenon DEF KeepsPaths, HoldsTwo
<1>6. PathOf2(nodes', req[u]) = PathOf2(nodes, req[u])
  BY <1>0, <1>1, <1>5, PathKept DEF HoldsTwo
<1> QED
  BY <1>6 DEF QInv, QTree, Paths
LEMMA QFrame ==
    ASSUME LInv, RInv, QInv, RInv', NEW t, NEW p, NEW r, Moves(t, p, r), Acyclic(nodes'),
           LockOK(nodes', HeldOf(req')), KeepsPaths(t), KeepsOthers(t), OwnPart(t, p, r)
    PROVE  QTree(nodes, pc, req, klook)'
<1>1. /\ pc'[t] = p /\ req'[t] = r /\ t \in Threads
      /\ \A u \in Threads \ {t} : pc'[u] = pc[u] /\ req'[u] = req[u]
  BY MovesFacts
<1>2. Paths(nodes', req')
  <2>1. ASSUME NEW u \in Threads, req'[u].held PROVE req'[u].path = PathOf2(nodes', req'[u])
    <3>1. CASE u = t
      BY <1>1, <2>1, <3>1 DEF OwnPart
    <3>2. CASE u # t
      BY <1>1, <2>1, <3>2, PathsKept
    <3> QED
      BY <3>1, <3>2
  <2> QED
    BY <2>1 DEF Paths
<1>3. Solos(nodes', pc', req', klook')
  <2>1. ASSUME NEW u \in Threads PROVE Solo(nodes', klook', pc'[u], req'[u])
    <3>1. CASE u = t
      BY <1>1, <3>1 DEF OwnPart
    <3>2. CASE u # t
      <4>1. Solo(nodes, klook, pc[u], req[u]) /\ KeepsSolo(nodes, nodes', klook, klook', pc[u], req[u])
        BY <3>2 DEF KeepsOthers, QInv, QTree, Solos
      <4>2. Solo(nodes', klook', pc[u], req[u])
        BY <4>1, SoloKept
      <4> QED
        BY <1>1, <3>2, <4>2
    <3> QED
      BY <3>1, <3>2
  <2> QED
    BY <2>1 DEF Solos
<1>4. Targets(nodes', pc', req', klook')
  <2>1. ASSUME NEW u \in Threads, req'[u].op = "rename", pc'[u] \in Ahead
        PROVE  Target(nodes', pc', req', klook', req'[u])
    <3>1. CASE u = t
      BY <1>1, <2>1, <3>1 DEF OwnPart
    <3>2. CASE u # t
      <4>0. pc'[u] = pc[u] /\ req'[u] = req[u]
        BY <1>1, <3>2
      <4>1. Target(nodes, pc, req, klook, req[u]) /\ KeepsTarget(nodes, nodes', klook, req[u])
        BY <2>1, <3>2, <4>0 DEF KeepsOthers, QInv, QTree, Targets
      <4>2. Target(nodes', pc', req', klook', req[u])
        BY <4>1, TargetKept
      <4> QED
        BY <4>0, <4>2
    <3> QED
      BY <3>1, <3>2
  <2> QED
    BY <2>1 DEF Targets
<1>5. Apart(pc', req')
  <2>1. ASSUME NEW u \in Threads, NEW v \in Threads, u # v, Serving(pc'[u], req'[u]), Serving(pc'[v], req'[v])
        PROVE  Mutexes(req'[u]) \cap Mutexes(req'[v]) \subseteq {0}
    <3>1. CASE u = t
      BY <1>1, <2>1, <3>1 DEF OwnPart
    <3>2. CASE v = t
      BY <1>1, <2>1, <3>2 DEF OwnPart
    <3>3. CASE u # t /\ v # t
      BY <1>1, <2>1, <3>3 DEF QInv, QTree, Apart
    <3> QED
      BY <3>1, <3>2, <3>3
  <2> QED
    BY <2>1 DEF Apart
<1> QED
  BY <1>2, <1>3, <1>4, <1>5 DEF QTree

\* A step that moves no node: only a newcomer that the kernel gets to know
\* could disturb the others.
Placed == \A j \in Ids : Steady(nodes, nodes', j)
NoTarget(t, j) ==
    \A u \in Threads \ {t} : req[u].op = "rename" /\ pc[u] \in Ahead => ~At(nodes, j, req[u].ino2, req[u].name2)
Learns(t) ==
    \A j \in Ids : /\ klook[j] > 0 => klook'[j] > 0
                   /\ klook'[j] # klook[j] => klook[j] > 0 \/ NoTarget(t, j)
UsesLess(t, p, r) == \A j \in Ids : Uses(p, r, j) => Uses(pc[t], req[t], j)
LEMMA PlacedFacts ==
    ASSUME LInv, RInv, QInv, RInv', Placed, NEW t
    PROVE  Acyclic(nodes') /\ KeepsPaths(t) /\ \A j : KidsOf(nodes', j) = KidsOf(nodes, j)
<1>0. case \in Cases /\ RefOK(nodes) /\ Acyclic(nodes) /\ LockOK(nodes, HeldOf(req))
  BY DEF LInv, Threading, RInv, QInv, QTree
<1>1. Acyclic(nodes')
  BY <1>0, AcyclicLess DEF Placed, Steady
<1>2. \A j : KidsOf(nodes', j) = KidsOf(nodes, j)
  BY DEF KidsOf, Placed, Steady
<1>3. ASSUME NEW s \in HeldOf(req), NEW j \in UpSet(nodes, s[3]) PROVE Steady(nodes, nodes', j)
  <2>1. s[3] \in Ids
    BY <1>0 DEF LockOK, Slot, Rooted
  <2>2. j \in Ids
    BY <1>0, <2>1, UpSetFacts
  <2> QED
    BY <2>2 DEF Placed
<1> QED
  BY <1>1, <1>2, <1>3 DEF KeepsPaths
LEMMA PlacedSolo ==
    ASSUME Placed, NEW t, Learns(t), NEW p, NEW r, ReqOK(r)
    PROVE  KeepsSolo(nodes, nodes', klook, klook', p, r)
<1>1. ASSUME KnowsArgs(klook, r) PROVE KnowsArgs(klook', r)
  <2>1. r.ino \in Ids \cup {0} /\ r.ino2 \in Ids \cup {0} /\ r.victim \in Ids \cup {0}
    BY <1>1 DEF ReqOK, KnowsArgs
  <2> QED
    BY <1>1, <2>1 DEF KnowsArgs, KnownIn, Learns
<1>2. r.entry # 0 => Steady(nodes, nodes', r.entry)
  BY DEF ReqOK, Placed
<1>3. \A c \in Ids \ {Root} : klook[c] > 0 => Steady(nodes, nodes', c) /\ klook'[c] > 0
  BY DEF Placed, Learns
<1> QED
  BY <1>1, <1>2, <1>3 DEF KeepsSolo
LEMMA OthersPlaced ==
    ASSUME LInv, RInv, QInv, RInv', NEW t, NEW p, NEW r, Moves(t, p, r), Placed, Learns(t), UsesLess(t, p, r)
    PROVE  KeepsOthers(t)
<1>0. /\ pc'[t] = p /\ req'[t] = r /\ t \in Threads
      /\ \A u \in Threads \ {t} : pc'[u] = pc[u] /\ req'[u] = req[u]
  BY MovesFacts
<1>1. \A j : KidsOf(nodes', j) = KidsOf(nodes, j)
  BY PlacedFacts
<1>2. ASSUME NEW u \in Threads \ {t} PROVE KeepsSolo(nodes, nodes', klook, klook', pc[u], req[u])
  BY RFacts, PlacedSolo
<1>3. ASSUME NEW u \in Threads \ {t}, req[u].op = "rename", pc[u] \in Ahead
      PROVE  KeepsTarget(nodes, nodes', klook, req[u])
  <2>1. ASSUME NEW j \in Ids \ {Root}, At(nodes', j, req[u].ino2, req[u].name2)
        PROVE  /\ At(nodes, j, req[u].ino2, req[u].name2)
               /\ Newcomer(nodes, pc, req, klook, j) => Newcomer(nodes', pc', req', klook', j)
    <3>1. At(nodes, j, req[u].ino2, req[u].name2)
      BY <2>1 DEF Placed, Steady, At
    <3>2. ASSUME Newcomer(nodes, pc, req, klook, j) PROVE Newcomer(nodes', pc', req', klook', j)
      <4>1. klook[j] = 0 /\ KidsOf(nodes', j) = {}
        BY <1>1, <3>2 DEF Newcomer
      <4>2. klook'[j] = 0
        BY <1>3, <3>1, <4>1 DEF Learns, NoTarget
      <4>3. \A v \in Threads : ~Uses(pc'[v], req'[v], j)
        BY <1>0, <3>2 DEF Newcomer, UsesLess
      <4> QED
        BY <4>1, <4>2, <4>3 DEF Newcomer
    <3> QED
      BY <3>1, <3>2
  <2> QED
    BY <2>1 DEF KeepsTarget
<1> QED
  BY <1>2, <1>3 DEF KeepsOthers

\* Thread t itself: its request has the same arguments and is no further
\* back.
Cousin(r0, r) ==
    /\ r.op = r0.op /\ r.ino = r0.ino /\ r.name = r0.name /\ r.ino2 = r0.ino2
    /\ r.name2 = r0.name2 /\ r.victim = r0.victim
HoldsOn(r0, r) == r.held => r0.held /\ r.wnode = r0.wnode /\ r.wnode2 = r0.wnode2 /\ r.path = r0.path
GoesOn(p0, r0, p, r) ==
    /\ Cousin(r0, r) /\ HoldsOn(r0, r) /\ (Serving(p, r) => Serving(p0, r0))
    /\ Serving(p, r) /\ r.entry # 0 => r.entry = r0.entry
    /\ r.killed => p \notin {"start", "wait"} /\ (r0.killed \/ Shape(r) \in {"entry", "create", "open", "link"})
    /\ p \in Ahead => p0 \in Ahead
    /\ r.op = "open" /\ p = "release" => r.held
    /\ p \notin {"idle", "forget", "fwait"} =>
         p0 \notin {"idle", "forget", "fwait"} \/ r0.held \/ Shape(r0) # "forget"
    /\ p = "insert" /\ r.op = "setlk" => ~r.held
    /\ r.entry # 0 => r.n >= 1 \/ (r.entry = r0.entry /\ r.n = r0.n)
LEMMA CousinFacts ==
    ASSUME NEW r0, NEW r, Cousin(r0, r)
    PROVE  /\ Shape(r) = Shape(r0) /\ Mutexes(r) = Mutexes(r0) /\ EntryDir(r) = EntryDir(r0)
           /\ EntryName(r) = EntryName(r0) /\ \A ns : PathOf2(ns, r) = PathOf2(ns, r0)
<1>1. Shape(r) = Shape(r0)
  BY DEF Cousin, Shape
<1>2. Mutexes(r) = Mutexes(r0)
  BY <1>1 DEF Cousin, Mutexes
<1>3. EntryDir(r) = EntryDir(r0) /\ EntryName(r) = EntryName(r0)
  BY DEF Cousin, EntryDir, EntryName
<1>4. \A ns : PathOf2(ns, r) = PathOf2(ns, r0)
  BY DEF Cousin, PathOf2
<1> QED
  BY <1>1, <1>2, <1>3, <1>4
LEMMA SoloGoesOn ==
    ASSUME NEW ns, NEW kl, NEW p0, NEW r0, Solo(ns, kl, p0, r0), NEW p, NEW r, GoesOn(p0, r0, p, r)
    PROVE  Solo(ns, kl, p, r)
<1>0. Shape(r) = Shape(r0) /\ EntryDir(r) = EntryDir(r0) /\ EntryName(r) = EntryName(r0)
  BY CousinFacts DEF GoesOn
<1>1. Serving(p, r) => KnowsArgs(kl, r)
  BY DEF Solo, GoesOn, KnowsArgs, Cousin
<1>2. Serving(p, r) /\ Shape(r) \in Finders /\ r.entry # 0 => At(ns, r.entry, EntryDir(r), EntryName(r))
  BY <1>0 DEF Solo, GoesOn
<1>3. ASSUME p \in Ahead, Removes(r)
      PROVE  Source(ns, kl, r)
  <2>1. p0 \in Ahead /\ Removes(r0)
    BY <1>0, <1>3 DEF GoesOn, Removes
  <2>2. PICK c \in Ids \ {Root} : At(ns, c, r0.ino, r0.name) /\ kl[c] > 0 /\ (r0.held => r0.wnode = c)
    BY <2>1 DEF Solo, Source
  <2> QED
    BY <2>2 DEF Source, GoesOn, Cousin, HoldsOn
<1>4. r.killed => p \notin {"start", "wait"} /\ Shape(r) \in {"entry", "create", "open", "link"}
  BY <1>0 DEF Solo, GoesOn
<1>5. r.op = "rename" => r.ino # r.ino2 \/ r.name # r.name2
  BY DEF Solo, GoesOn, Cousin
<1>6. r.op = "open" /\ p = "release" => r.held
  BY DEF GoesOn
<1>7. r.held \/ p \notin {"idle", "forget", "fwait"} => Shape(r) # "forget"
  BY <1>0 DEF Solo, GoesOn, HoldsOn
<1>8. p = "insert" /\ r.op = "setlk" => ~r.held
  BY DEF GoesOn
<1>9. r.entry # 0 => r.n >= 1
  BY DEF GoesOn, Solo
<1> QED
  BY <1>1, <1>2, <1>3, <1>4, <1>5, <1>6, <1>7, <1>8, <1>9 DEF Solo
LEMMA OwnIdle ==
    ASSUME LInv, NEW t
    PROVE  OwnPart(t, "idle", NoReq) /\ UsesLess(t, "idle", NoReq)
<1>1. ~NoReq.held /\ NoReq.op = "" /\ ~NoReq.killed /\ NoReq.entry = 0
  BY DEF NoReq
<1>2. ~Serving("idle", NoReq) /\ "idle" \notin Ahead
  BY DEF Serving, Ahead
<1>3. \A ns, kl : Solo(ns, kl, "idle", NoReq)
  BY <1>1, <1>2 DEF Solo
<1>4. \A j : ~Uses("idle", NoReq, j)
  BY <1>1, <1>2 DEF Uses, Active
<1> QED
  BY <1>1, <1>2, <1>3, <1>4 DEF OwnPart, UsesLess
LEMMA OwnGoesOn ==
    ASSUME LInv, RInv, QInv, RInv', NEW t, NEW p, NEW r, Moves(t, p, r), GoesOn(pc[t], req[t], p, r), Placed,
           klook' = klook
    PROVE  OwnPart(t, p, r) /\ UsesLess(t, p, r)
<1>0. /\ pc'[t] = p /\ req'[t] = r /\ t \in Threads
      /\ \A u \in Threads \ {t} : pc'[u] = pc[u] /\ req'[u] = req[u]
  BY MovesFacts
<1>1. ReqOK(r) /\ case \in Cases /\ RefOK(nodes) /\ RefOK(nodes') /\ Acyclic(nodes)
  BY <1>0 DEF LInv, Threading, RInv, RStage, QInv, QTree
<1>2. Learns(t)
  BY DEF Learns
<1>3. Cousin(req[t], r) /\ Shape(r) = Shape(req[t]) /\ Mutexes(r) = Mutexes(req[t])
      /\ \A ns : PathOf2(ns, r) = PathOf2(ns, req[t])
  BY CousinFacts DEF GoesOn
<1>4. Solo(nodes', klook', p, r)
  <2>1. Solo(nodes, klook, p, r)
    BY <1>0, SoloGoesOn DEF QInv, QTree, Solos
  <2>2. KeepsSolo(nodes, nodes', klook, klook', p, r)
    BY <1>1, <1>2, PlacedSolo
  <2> QED
    BY <2>1, <2>2, SoloKept
<1>5. UsesLess(t, p, r)
  BY <1>3 DEF UsesLess, Uses, Active, GoesOn, HoldsOn, Cousin
<1>6. ASSUME r.held PROVE r.path = PathOf2(nodes', r)
  <2>1. req[t].held /\ r.path = req[t].path
    BY <1>6 DEF GoesOn, HoldsOn
  <2>2. req[t].ino \in Ids /\ req[t].ino2 \in Ids \cup {0}
    BY <1>0, <2>1, HoldsArgs, RFacts DEF ReqOK
  <2>3. \A i \in Ids : \A j \in UpSet(nodes, i) : Steady(nodes, nodes', j)
    BY <1>1, UpSetFacts DEF Placed
  <2>4. Acyclic(nodes')
    BY PlacedFacts
  <2>5. PathOf2(nodes', req[t]) = PathOf2(nodes, req[t])
    BY <1>1, <2>2, <2>3, <2>4, PathKept
  <2>6. req[t].path = PathOf2(nodes, req[t])
    BY <1>0, <2>1 DEF QInv, QTree, Paths
  <2> QED
    BY <1>3, <2>1, <2>5, <2>6
<1>7. ASSUME r.op = "rename", p \in Ahead PROVE Target(nodes', pc', req', klook', r)
  <2>1. Target(nodes, pc, req, klook, req[t])
    BY <1>0, <1>7 DEF GoesOn, Cousin, QInv, QTree, Targets
  <2>2. ASSUME NEW j \in Ids \ {Root}, At(nodes', j, r.ino2, r.name2)
        PROVE  (j = r.victim /\ (r.held => r.wnode2 = j)) \/ Newcomer(nodes', pc', req', klook', j)
    <3>1. At(nodes, j, req[t].ino2, req[t].name2)
      BY <1>3, <2>2 DEF Placed, Steady, At, Cousin
    <3>2. (j = req[t].victim /\ (req[t].held => req[t].wnode2 = j)) \/ Newcomer(nodes, pc, req, klook, j)
      BY <2>1, <3>1 DEF Target
    <3>3. Newcomer(nodes, pc, req, klook, j) => Newcomer(nodes', pc', req', klook', j)
      BY <1>0, <1>5, PlacedFacts DEF Newcomer, UsesLess
    <3> QED
      BY <1>3, <3>2, <3>3 DEF GoesOn, Cousin, HoldsOn
  <2> QED
    BY <2>2 DEF Target
<1>8. ASSUME Serving(p, r), NEW u \in Threads \ {t}, Serving(pc[u], req[u])
      PROVE  Mutexes(r) \cap Mutexes(req[u]) \subseteq {0}
  BY <1>0, <1>3, <1>8 DEF GoesOn, QInv, QTree, Apart
<1> QED
  BY <1>4, <1>5, <1>6, <1>7, <1>8 DEF OwnPart
\* The tree lock stays.
LEMMA HeldSame ==
    ASSUME LInv, NEW t, NEW p, NEW r, Moves(t, p, r),
           (Cousin(req[t], r) /\ SameHold(req[t], r)) \/ (~r.held /\ ~req[t].held)
    PROVE  HeldOf(req') = HeldOf(req)
<1>0. /\ pc'[t] = p /\ req'[t] = r /\ t \in Threads
      /\ \A u \in Threads \ {t} : pc'[u] = pc[u] /\ req'[u] = req[u]
  BY MovesFacts
<1>1. SlotsOf(t, r) = SlotsOf(t, req[t])
  <2>1. CASE Cousin(req[t], r) /\ SameHold(req[t], r)
    BY <2>1 DEF SlotsOf, Cousin, SameHold
  <2>2. CASE ~r.held /\ ~req[t].held
    BY <2>2, SlotFacts
  <2> QED
    BY <2>1, <2>2
<1>2. PICK S : S = req'
  OBVIOUS
<1>3. OnlyOne(req, S, t)
  BY <1>0, <1>2 DEF OnlyOne
<1>4. HeldMoves(req, S, t)
  BY <1>3, HeldMove
<1> QED
  BY <1>0, <1>1, <1>2, <1>4 DEF HeldMoves
LocksAlike ==
    \A j \in Ids : nodes'[j].treelock = nodes[j].treelock /\ (nodes[j].nlookup > 0 => nodes'[j].nlookup > 0)
LEMMA LockSame ==
    ASSUME LInv, RInv, QInv, RInv', Placed, LocksAlike
    PROVE  LockOK(nodes', HeldOf(req))
<1>0. case \in Cases /\ RefOK(nodes) /\ RefOK(nodes') /\ Acyclic(nodes) /\ LockOK(nodes, HeldOf(req))
  BY DEF LInv, Threading, RInv, QInv, QTree
<1>1. Acyclic(nodes')
  BY PlacedFacts
<1>2. ASSUME NEW s \in HeldOf(req)
      PROVE  /\ \A j \in UpSet(nodes, s[3]) : nodes'[j].parent = nodes[j].parent
             /\ s[4] # 0 => nodes'[s[4]].nlookup > 0
  <2>1. s[3] \in Ids /\ s[4] \in Ids \cup {0} /\ (s[4] # 0 => nodes[s[4]].nlookup > 0)
    BY <1>0 DEF LockOK, Slot, Rooted
  <2>2. UpSet(nodes, s[3]) \subseteq Ids
    BY <1>0, <2>1, UpSetFacts
  <2> QED
    BY <2>1, <2>2 DEF Placed, Steady, LocksAlike
<1> QED
  BY <1>0, <1>1, <1>2, LockKept DEF LocksAlike
LEMMA QQuiet ==
    ASSUME LInv, RInv, QInv, RInv', NEW t, NEW p, NEW r, Moves(t, p, r), Placed, LocksAlike, klook' = klook,
           \/ GoesOn(pc[t], req[t], p, r) /\ SameHold(req[t], r)
           \/ p = "idle" /\ r = NoReq /\ ~req[t].held
    PROVE  QTree(nodes, pc, req, klook)'
<1>1. HeldOf(req') = HeldOf(req)
  <2>1. ~NoReq.held
    BY DEF NoReq
  <2> QED
    BY <2>1, HeldSame DEF GoesOn
<1>2. LockOK(nodes', HeldOf(req'))
  BY <1>1, LockSame
<1>3. OwnPart(t, p, r) /\ UsesLess(t, p, r)
  BY OwnIdle, OwnGoesOn
<1>4. Learns(t)
  BY DEF Learns
<1>5. KeepsOthers(t) /\ Acyclic(nodes') /\ KeepsPaths(t)
  BY <1>3, <1>4, OthersPlaced, PlacedFacts
<1> QED
  BY <1>2, <1>3, <1>5, QFrame

----------------------------------------------------------------------------
\* The opens of a node after a step of thread t.
Opn(p, r, i) == IF Opener(p, r, i) THEN 1 ELSE 0
OpenersMoved(P, R, P2, R2, t, i) ==
    /\ Cardinality(Openers(P2, R2, i)) + Opn(P[t], R[t], i) = Cardinality(Openers(P, R, i)) + Opn(P2[t], R2[t], i)
    /\ Cardinality(Openers(P, R, i)) \in Nat /\ Cardinality(Openers(P2, R2, i)) \in Nat
LEMMA OpenersMove ==
    ASSUME NEW P, NEW R, NEW P2, NEW R2, NEW t, NEW i, OnlyOne(P, P2, t), OnlyOne(R, R2, t)
    PROVE  OpenersMoved(P, R, P2, R2, t, i)
<1> DEFINE E == {u \in Threads \ {t} : Opener(P[u], R[u], i)}
<1>1. IsFiniteSet(E) /\ t \notin E
  <2>1. E \subseteq Threads
    OBVIOUS
  <2> QED
    BY <2>1, TreeAssumption, FS_Subset
<1>2. /\ Openers(P, R, i) = IF Opener(P[t], R[t], i) THEN E \cup {t} ELSE E
      /\ Openers(P2, R2, i) = IF Opener(P2[t], R2[t], i) THEN E \cup {t} ELSE E
  BY DEF Openers, OnlyOne
<1> HIDE DEF E
<1>3. Cardinality(E) \in Nat /\ Cardinality(E \cup {t}) = Cardinality(E) + 1
  BY <1>1, FS_AddElement, FS_CardinalityType
<1> QED
  BY <1>2, <1>3 DEF Opn, OpenersMoved
Opened(t, p, r, i) ==
    /\ Live(nodes', i) /\ Live(nodes, i) =>
         nodes'[i].open + kopen[i] + Opn(pc[t], req[t], i) = nodes[i].open + kopen'[i] + Opn(p, r, i)
    /\ Live(nodes', i) /\ ~Live(nodes, i) => nodes'[i].open = 0 /\ kopen'[i] = 0 /\ Openers(pc', req', i) = {}
    /\ kopen'[i] > 0 => KnownIn(klook', i)
LEMMA OMoves ==
    ASSUME LInv, RInv, QInv, RInv', NEW t, NEW p, NEW r, Moves(t, p, r), kopen' \in [Ids -> Nat],
           \A i \in Ids : Opened(t, p, r, i)
    PROVE  Opens(nodes, pc, req, klook, kopen)'
<1>1. /\ pc'[t] = p /\ req'[t] = r /\ t \in Threads
      /\ \A u \in Threads \ {t} : pc'[u] = pc[u] /\ req'[u] = req[u]
  BY MovesFacts
<1>2. ASSUME NEW i \in Ids, Live(nodes', i)
      PROVE  nodes'[i].open = kopen'[i] + Cardinality(Openers(pc', req', i))
  <2>1. CASE Live(nodes, i)
    <3>1. PICK a, b : a = Cardinality(Openers(pc, req, i)) /\ b = Cardinality(Openers(pc', req', i))
      OBVIOUS
    <3>2. b + Opn(pc[t], req[t], i) = a + Opn(p, r, i) /\ a \in Nat /\ b \in Nat
      <4>1. PICK P, R : P = pc' /\ R = req'
        OBVIOUS
      <4>2. OnlyOne(pc, P, t) /\ OnlyOne(req, R, t)
        BY <1>1, <4>1 DEF OnlyOne
      <4>3. OpenersMoved(pc, req, P, R, t, i)
        BY <4>2, OpenersMove
      <4> QED
        BY <1>1, <3>1, <4>1, <4>3 DEF OpenersMoved
    <3>3. nodes[i].open = kopen[i] + a /\ kopen[i] \in Nat
      BY <2>1, <3>1 DEF QInv, Opens
    <3>4. nodes'[i].open + kopen[i] + Opn(pc[t], req[t], i) = nodes[i].open + kopen'[i] + Opn(p, r, i)
      BY <1>2, <2>1 DEF Opened
    <3>5. /\ nodes'[i].open \in Nat /\ kopen'[i] \in Nat /\ Opn(pc[t], req[t], i) \in Nat
          /\ Opn(p, r, i) \in Nat
      BY DEF RInv, RefOK, Table, NodeOK, Opn
    <3>6. nodes'[i].open = kopen'[i] + b
      BY <3>2, <3>3, <3>4, <3>5
    <3> QED
      BY <3>1, <3>6
  <2>2. CASE ~Live(nodes, i)
    BY <1>2, <2>2, FS_EmptySet DEF Opened
  <2> QED
    BY <2>1, <2>2
<1>3. \A i \in Ids : kopen'[i] > 0 => KnownIn(klook', i)
  BY DEF Opened
<1> QED
  BY <1>2, <1>3 DEF Opens

\* A step that opens and closes nothing.
OpStage(p, r) == p \in {"opened", "release"} \/ (r.op = "release" /\ p \in {"start", "wait", "locked", "insert"})
OpensAlike(p0, r0, p, r) ==
    \/ Cousin(r0, r) /\ r.entry = r0.entry /\ (OpStage(p, r) <=> OpStage(p0, r0))
    \/ ~OpStage(p, r) /\ ~OpStage(p0, r0)
LEMMA OpenerSame ==
    ASSUME NEW p0, NEW r0, NEW p, NEW r, OpensAlike(p0, r0, p, r), NEW i
    PROVE  Opn(p, r, i) = Opn(p0, r0, i)
<1>1. CASE ~OpStage(p, r) /\ ~OpStage(p0, r0)
  BY <1>1 DEF OpStage, Opn, Opener, Opening, Closing
<1>2. CASE Cousin(r0, r) /\ r.entry = r0.entry /\ OpStage(p, r) /\ OpStage(p0, r0)
  <2>1. File(r) = File(r0) /\ r.op = r0.op /\ r.ino = r0.ino
    BY <1>2 DEF Cousin, File
  <2>2. r.op = "release" => File(r) = r.ino
    BY DEF File
  <2>3. Opener(p, r, i) <=> Opener(p0, r0, i)
    BY <1>2, <2>1, <2>2 DEF OpStage, Opener, Opening, Closing
  <2> QED
    BY <2>3 DEF Opn
<1> QED
  BY <1>1, <1>2 DEF OpensAlike
OpenSame == \A i \in Ids : Live(nodes', i) => Live(nodes, i) /\ nodes'[i].open = nodes[i].open
LEMMA OStill ==
    ASSUME LInv, RInv, QInv, RInv', NEW t, NEW p, NEW r, Moves(t, p, r), OpensAlike(pc[t], req[t], p, r), OpenSame,
           kopen' = kopen, \A i \in Ids : klook[i] > 0 => klook'[i] > 0
    PROVE  Opens(nodes, pc, req, klook, kopen)'
<1>1. kopen \in [Ids -> Nat] /\ \A i \in Ids : kopen[i] > 0 => KnownIn(klook, i)
  BY DEF QInv, Opens
<1>2. ASSUME NEW i \in Ids PROVE Opened(t, p, r, i)
  <2>1. Opn(p, r, i) = Opn(pc[t], req[t], i)
    BY OpenerSame
  <2>2. kopen'[i] > 0 => KnownIn(klook', i)
    BY <1>1 DEF KnownIn
  <2> QED
    BY <2>1, <2>2 DEF Opened, OpenSame
<1> QED
  BY <1>1, <1>2, OMoves
LEMMA QStill ==
    ASSUME LInv, RInv, QInv, RInv', NEW t, NEW p, NEW r, Moves(t, p, r), Placed, LocksAlike, OpenSame,
           \/ GoesOn(pc[t], req[t], p, r) /\ SameHold(req[t], r)
           \/ p = "idle" /\ r = NoReq /\ ~req[t].held,
           OpensAlike(pc[t], req[t], p, r), UNCHANGED <<klook, kopen, aborted>>
    PROVE  QInv'
<1>1. QTree(nodes, pc, req, klook)'
  BY QQuiet
<1>2. Opens(nodes, pc, req, klook, kopen)'
  BY OStill
<1> QED
  BY <1>1, <1>2 DEF QInv

\* Handlers that leave the table alone, or change the list of a node.
LEMMA NodesSame ==
    ASSUME nodes' = nodes
    PROVE  Placed /\ LocksAlike /\ OpenSame
BY DEF Placed, LocksAlike, OpenSame, Steady
\* A thread goes on from stage p0 to p with a request like its own.
Onwards(p0, p, r) ==
    /\ p0 \notin {"idle", "forget", "fwait"} \/ p \in {"forget", "fwait"}
    /\ p0 # "idle" /\ p # "idle"
    /\ p \in {"start", "wait"} => p0 \in {"start", "wait"}
    /\ p \in Ahead => p0 \in Ahead
    /\ r.op = "open" /\ p = "release" => r.held
    /\ p = "insert" => r.op # "setlk"
LEMMA GoesOnAlike ==
    ASSUME NEW p0, NEW r0, NEW p, NEW r, Alike(r0, r), SameHold(r0, r), r.killed = r0.killed, Onwards(p0, p, r0),
           r0.killed => p0 \notin {"start", "wait"}
    PROVE  GoesOn(p0, r0, p, r) /\ Cousin(r0, r) /\ r.entry = r0.entry
<1>1. Cousin(r0, r) /\ HoldsOn(r0, r) /\ r.entry = r0.entry /\ r.n = r0.n
  BY DEF Alike, SameHold, Cousin, HoldsOn
<1>2. Serving(p, r) => Serving(p0, r0)
  BY DEF Alike, Serving, Onwards
<1>3. r.killed => p \notin {"start", "wait"} /\ r0.killed
  BY DEF Onwards
<1>4. r.op = "open" /\ p = "release" => r.held
  BY <1>1 DEF Onwards, SameHold, Cousin
<1>5. p = "insert" => r.op # "setlk"
  BY <1>1 DEF Onwards, Cousin
<1> QED
  BY <1>1, <1>2, <1>3, <1>4, <1>5 DEF GoesOn, Onwards
LEMMA QPlain ==
    ASSUME LInv, RInv, QInv, RInv', NEW t \in Threads, NEW p, pc' = [pc EXCEPT ![t] = p], req' = req, case' = case,
           Onwards(pc[t], p, req[t]), OpStage(p, req[t]) <=> OpStage(pc[t], req[t]),
           Placed, LocksAlike, OpenSame, UNCHANGED <<klook, kopen, aborted>>
    PROVE  QInv'
<1>1. Moves(t, p, req[t])
  BY RFacts DEF Moves
<1>2. Alike(req[t], req[t]) /\ SameHold(req[t], req[t])
  BY RFacts, FormSame
<1>3. req[t].killed => pc[t] \notin {"start", "wait"}
  BY DEF QInv, QTree, Solos, Solo
<1>4. GoesOn(pc[t], req[t], p, req[t]) /\ Cousin(req[t], req[t])
  BY <1>2, <1>3, GoesOnAlike
<1>5. OpensAlike(pc[t], req[t], p, req[t])
  BY <1>4 DEF OpensAlike
<1> QED
  BY <1>1, <1>2, <1>4, <1>5, QStill

----------------------------------------------------------------------------
\* The steps, one handler after the other.
LEMMA QOpen ==
    ASSUME LInv, RInv, QInv, RInv', NEW t \in Threads, fuse_lib_open(t) \/ CreateNotRegular(t) \/ IsOpen(t)
    PROVE  QInv'
<1>1. PICK p : pc' = [pc EXCEPT ![t] = p] /\ (pc[t] = "found" => p = "forget")
               /\ (pc[t] = "locked" => p \in {"found", "free", "hide", "change"}) /\ pc[t] \in {"found", "locked"}
  BY DEF fuse_lib_open, CreateNotRegular, IsOpen
<1>2. req' = req /\ UNCHANGED <<nodes, klook, kopen, aborted, case>>
  BY DEF fuse_lib_open, CreateNotRegular, IsOpen, fvars, kvars
<1>3. req[t].op # "release" \/ pc[t] # "locked"
  <2>1. pc[t] = "locked" => Shape(req[t]) # "release"
    BY DEF fuse_lib_open, CreateNotRegular, IsOpen
  <2> QED
    BY <2>1, ShapeOf DEF Shape
<1>4. Onwards(pc[t], p, req[t])
  BY <1>1 DEF Onwards, Ahead
<1>5. ~OpStage(p, req[t]) /\ ~OpStage(pc[t], req[t])
  BY <1>1, <1>3 DEF OpStage
<1> QED
  BY <1>1, <1>2, <1>4, <1>5, NodesSame, QPlain
LEMMA QHideName ==
    ASSUME LInv, RInv, QInv, RInv', NEW t \in Threads, hidden_name(t)
    PROVE  QInv'
<1>1. pc[t] = "hide" /\ UNCHANGED <<nodes, klook, kopen, aborted, case>>
  BY DEF hidden_name, kvars
<1>2. CASE pc' = [pc EXCEPT ![t] = "free"] /\ req' = req
  <2>1. Onwards(pc[t], "free", req[t]) /\ ~OpStage("free", req[t]) /\ ~OpStage(pc[t], req[t])
    BY <1>1 DEF Onwards, Ahead, OpStage
  <2> QED
    BY <1>1, <1>2, <2>1, NodesSame, QPlain
<1>3. ASSUME NEW h, req' = [req EXCEPT ![t].hide = h], pc' = [pc EXCEPT ![t] = "hiding"]
      PROVE  QInv'
  <2>0. ReqOK(req[t]) /\ DOMAIN req = Threads
    BY RFacts
  <2>1. PICK r : r = [req[t] EXCEPT !.hide = h]
    OBVIOUS
  <2>2. Moves(t, "hiding", r)
    BY <1>1, <1>3, <2>0, <2>1 DEF Moves
  <2>3. Alike(req[t], r) /\ SameHold(req[t], r) /\ r.killed = req[t].killed
    BY <2>0, <2>1, FormHide
  <2>4. Onwards(pc[t], "hiding", req[t]) /\ ~OpStage("hiding", r) /\ ~OpStage(pc[t], req[t])
    BY <1>1 DEF Onwards, Ahead, OpStage
  <2>5. GoesOn(pc[t], req[t], "hiding", r)
    BY <1>1, <2>3, <2>4, GoesOnAlike
  <2>6. OpensAlike(pc[t], req[t], "hiding", r)
    BY <2>4 DEF OpensAlike
  <2> QED
    BY <1>1, <2>2, <2>3, <2>5, <2>6, NodesSame, QStill
<1> QED
  BY <1>2, <1>3 DEF hidden_name
LEMMA QUnhide ==
    ASSUME LInv, RInv, QInv, RInv', NEW t \in Threads, UnlinkHidden(t)
    PROVE  QInv'
<1>1. PICK p : pc' = [pc EXCEPT ![t] = p] /\ p \in {"forget", "free"} /\ pc[t] = "unhide"
  BY DEF UnlinkHidden, AfterRelease
<1>2. req' = req /\ UNCHANGED <<nodes, klook, kopen, aborted, case>>
  BY DEF UnlinkHidden, fvars
<1>3. Onwards(pc[t], p, req[t]) /\ ~OpStage(p, req[t]) /\ ~OpStage(pc[t], req[t])
  BY <1>1 DEF Onwards, Ahead, OpStage
<1> QED
  BY <1>1, <1>2, <1>3, NodesSame, QPlain
LEMMA QFlush ==
    ASSUME LInv, RInv, QInv, RInv', NEW t \in Threads, fuse_flush_common(t)
    PROVE  QInv'
<1>1. PICK p : pc' = [pc EXCEPT ![t] = p] /\ pc[t] = "locked" /\ p \in {AfterFlush(req[t]), "insert"}
  BY DEF fuse_flush_common
<1>2. req' = req /\ UNCHANGED <<nodes, klook, kopen, aborted, case>>
  BY DEF fuse_flush_common, fvars
<1>3. Shape(req[t]) \in {"flush", "release"}
  BY DEF fuse_flush_common
<1>4. (Shape(req[t]) = "flush" => req[t].op = "flush") /\ (Shape(req[t]) = "release" => req[t].op = "release")
  <2>1. req[t].op \in DOMAIN fuse_path_ops
    BY <1>1, RFacts
  <2> QED
    BY <2>1, ShapeNames DEF Shape
<1>5. /\ req[t].op = "flush" => p \in {"free", "insert"}
      /\ req[t].op = "release" => p \in {"release", "insert"}
  BY <1>1 DEF AfterFlush
<1>6. Onwards(pc[t], p, req[t]) /\ (OpStage(p, req[t]) <=> OpStage(pc[t], req[t]))
  BY <1>1, <1>3, <1>4, <1>5 DEF Onwards, Ahead, OpStage
<1> QED
  BY <1>1, <1>2, <1>6, NodesSame, QPlain
LEMMA QLockCommon ==
    ASSUME LInv, RInv, QInv, RInv', NEW t \in Threads, fuse_lock_common(t)
    PROVE  QInv'
<1>1. /\ pc' = [pc EXCEPT ![t] = "free"] /\ pc[t] = "locked" /\ Shape(req[t]) = "lock"
      /\ UNCHANGED <<nodes, klook, kopen, aborted, case>>
  BY DEF fuse_lock_common, fvars
<1>2. Onwards(pc[t], "free", req[t]) /\ ~OpStage("free", req[t]) /\ ~OpStage(pc[t], req[t])
  <2>1. req[t].op # "release"
    BY <1>1, ShapeOf DEF Shape
  <2> QED
    BY <1>1, <2>1 DEF Onwards, Ahead, OpStage
<1>3. CASE req' = req
  BY <1>1, <1>2, <1>3, NodesSame, QPlain
<1>4. CASE req' = [req EXCEPT ![t].n = 1]
  <2>0. ReqOK(req[t]) /\ DOMAIN req = Threads
    BY RFacts
  <2>1. PICK r : r = [req[t] EXCEPT !.n = 1]
    OBVIOUS
  <2>2. Moves(t, "free", r)
    BY <1>1, <1>4, <2>0, <2>1 DEF Moves
  <2>3. Kin(req[t], r) /\ r.done = req[t].done /\ r.entry = req[t].entry /\ r.n = 1
    BY <2>0, <2>1, FormLocked
  <2>4. GoesOn(pc[t], req[t], "free", r)
    BY <1>1, <2>3 DEF GoesOn, Kin, Cousin, HoldsOn, SameHold, Serving, Ahead
  <2>5. OpensAlike(pc[t], req[t], "free", r) /\ SameHold(req[t], r)
    BY <1>2, <2>3 DEF OpensAlike, OpStage, Kin
  <2> QED
    BY <1>1, <2>2, <2>4, <2>5, NodesSame, QStill
<1> QED
  BY <1>3, <1>4 DEF fuse_lock_common

\* A request that nobody can give up is served until it is done.
LEMMA Serves ==
    ASSUME LInv, RInv, QInv, NEW t \in Threads, pc[t] # "idle",
           Shape(req[t]) \notin {"entry", "create", "open", "link"}
    PROVE  /\ Serving(pc[t], req[t]) /\ KnowsArgs(klook, req[t])
           /\ req[t].ino \in Ids => Live(nodes, req[t].ino) /\ nodes[req[t].ino].nlookup > 0
<1>1. ~req[t].killed
  BY DEF QInv, QTree, Solos, Solo
<1>2. ~req[t].done
  BY RFacts DEF Loaded
<1>3. Serving(pc[t], req[t])
  BY <1>1, <1>2 DEF Serving
<1>4. KnowsArgs(klook, req[t])
  BY <1>3 DEF QInv, QTree, Solos, Solo
<1>5. req[t].ino \in Ids => Live(nodes, req[t].ino) /\ nodes[req[t].ino].nlookup > 0
  BY <1>4, KnownLive DEF KnowsArgs
<1> QED
  BY <1>3, <1>4, <1>5
LEMMA CalmStays ==
    ASSUME RInv, Calm(nodes, nodes'), \A j \in Ids : nodes'[j].treelock = nodes[j].treelock
    PROVE  Placed /\ LocksAlike /\ OpenSame
<1>1. DOMAIN nodes = Ids /\ DOMAIN nodes' = Ids
  BY DEF RInv, RefOK, Table, Calm
<1> QED
  BY <1>1 DEF Placed, LocksAlike, OpenSame, Steady, Calm, CalmNode, Live
LEMMA QGetlk ==
    ASSUME LInv, RInv, QInv, RInv', NEW t \in Threads, fuse_lib_getlk(t)
    PROVE  QInv'
<1>0. Loaded(pc[t], req[t]) /\ Holding(pc[t], req[t]) /\ Args(req[t]) /\ pc[t] = "getlk"
  <2>1. pc[t] = "getlk"
    BY DEF fuse_lib_getlk
  <2> QED
    BY <2>1, RFacts
<1>1. Shape(req[t]) = "lock" /\ ~req[t].held /\ req[t].ino \in Ids
  BY <1>0 DEF Loaded, Holding, Args
<1>2. Live(nodes, req[t].ino)
  BY <1>0, <1>1, Serves
<1>3. UNCHANGED <<nodes, klook, kopen, aborted, case>>
  BY <1>2 DEF fuse_lib_getlk, kvars
<1>4. ~OpStage("getlk", req[t]) /\ ~OpStage("idle", NoReq)
  BY DEF OpStage
<1>5. CASE pc' = [pc EXCEPT ![t] = "idle"] /\ req' = [req EXCEPT ![t] = NoReq]
  <2>1. Moves(t, "idle", NoReq) /\ OpensAlike(pc[t], req[t], "idle", NoReq)
    BY <1>0, <1>3, <1>4, <1>5 DEF Moves, OpensAlike
  <2> QED
    BY <1>1, <1>3, <2>1, NodesSame, QStill
<1>6. CASE pc' = [pc EXCEPT ![t] = "start"] /\ req' = req
  <2>0. ReqOK(req[t]) /\ DOMAIN req = Threads
    BY RFacts
  <2>1. Moves(t, "start", req[t])
    BY <1>3, <1>6, RFacts DEF Moves
  <2>2. req[t].op # "release"
    BY <1>1, ShapeOf DEF Shape
  <2>3. OpensAlike(pc[t], req[t], "start", req[t])
    BY <1>0, <2>2 DEF OpensAlike, OpStage
  <2>4. ~req[t].killed
    BY <1>1 DEF QInv, QTree, Solos, Solo
  <2>5. Alike(req[t], req[t]) /\ SameHold(req[t], req[t])
    BY <2>0, FormSame
  <2>6. GoesOn(pc[t], req[t], "start", req[t])
    BY <1>0, <2>4, <2>5 DEF GoesOn, Cousin, HoldsOn, Serving, Ahead
  <2> QED
    BY <1>3, <2>1, <2>3, <2>5, <2>6, NodesSame, QStill
<1> QED
  BY <1>2, <1>5, <1>6 DEF fuse_lib_getlk
LEMMA QList ==
    ASSUME LInv, RInv, QInv, RInv', NEW t \in Threads, ListLock(t)
    PROVE  QInv'
<1>0. /\ Stage(pc[t], req[t], case) /\ LockStage(pc[t], req[t], case) /\ req = [req EXCEPT ![t] = req[t]]
      /\ Table(nodes) /\ DOMAIN req = Threads /\ Args(req[t]) /\ pc[t] = "insert"
  <2>1. pc[t] = "insert"
    BY DEF ListLock
  <2> QED
    BY <2>1, RFacts, ThreadFacts
<1>1. Shape(req[t]) \in {"lock", "flush", "release"}
  BY <1>0 DEF Stage, LockStage, LockReq
<1>2. Live(nodes, req[t].ino) /\ req[t].ino \in Ids
  BY <1>0, <1>1, Serves DEF Args
<1>3. PICK i, s : i = req[t].ino /\ s = locks_insert(nodes[i].locks, LockOf(req[t]))
  OBVIOUS
<1>4. nodes' = nodes \/ nodes' = [nodes EXCEPT ![i].locks = s]
  BY <1>2, <1>3 DEF ListLock
<1>5. Placed /\ LocksAlike /\ OpenSame
  <2>1. CASE nodes' = nodes
    BY <2>1, NodesSame
  <2>2. CASE nodes' = [nodes EXCEPT ![i].locks = s]
    <3>1. Ticketed(nodes, nodes')
      BY <1>0, <1>2, <1>3, <2>2, ListedIs
    <3> QED
      BY <3>1, CalmStays DEF Ticketed
  <2> QED
    BY <1>4, <2>1, <2>2
<1>6. /\ pc' = [pc EXCEPT ![t] = AfterFlush(req[t])]
      /\ req' = [req EXCEPT ![t] = IF req[t].op = "setlk" THEN NoReq ELSE req[t]]
      /\ UNCHANGED <<klook, kopen, aborted, case>>
  BY <1>0, <1>2 DEF ListLock
<1>7. CASE req[t].op = "setlk"
  <2>1. Moves(t, "idle", NoReq)
    BY <1>6, <1>7 DEF Moves, AfterFlush
  <2>2. OpensAlike(pc[t], req[t], "idle", NoReq)
    BY <1>0, <1>7 DEF OpensAlike, OpStage, NoReq
  <2>3. ~req[t].held
    BY <1>0, <1>7 DEF QInv, QTree, Solos, Solo
  <2> QED
    BY <1>5, <1>6, <2>1, <2>2, <2>3, QStill
<1>8. CASE req[t].op # "setlk"
  <2>1. PICK p : p = AfterFlush(req[t])
    OBVIOUS
  <2>2. pc' = [pc EXCEPT ![t] = p] /\ req' = req
    BY <1>0, <1>6, <1>8, <2>1
  <2>3. (Shape(req[t]) = "flush" => req[t].op = "flush") /\ (Shape(req[t]) = "release" => req[t].op = "release")
        /\ (Shape(req[t]) = "lock" => req[t].op = "setlk")
    <3>1. req[t].op \in DOMAIN fuse_path_ops
      BY <1>0, RFacts
    <3> QED
      BY <1>0, <3>1, ShapeNames DEF Shape, Stage
  <2>4. /\ req[t].op = "flush" => p = "free"
        /\ req[t].op = "release" => p = "release"
    BY <2>1 DEF AfterFlush
  <2>5. Onwards(pc[t], p, req[t]) /\ (OpStage(p, req[t]) <=> OpStage(pc[t], req[t]))
    BY <1>0, <1>1, <1>8, <2>3, <2>4 DEF Onwards, Ahead, OpStage
  <2> QED
    BY <1>5, <1>6, <2>2, <2>5, QPlain
<1> QED
  BY <1>7, <1>8

\* Steps of the tree lock: nothing moves, and the locks are those of the
\* threads.
LEMMA QLocks ==
    ASSUME LInv, RInv, QInv, RInv', NEW t, NEW p, NEW r, Moves(t, p, r), Placed, OpenSame,
           LockOK(nodes', HeldOf(req')), OwnPart(t, p, r), UsesLess(t, p, r),
           OpensAlike(pc[t], req[t], p, r), UNCHANGED <<klook, kopen, aborted>>
    PROVE  QInv'
<1>1. Learns(t)
  BY DEF Learns
<1>2. KeepsOthers(t) /\ Acyclic(nodes') /\ KeepsPaths(t)
  BY <1>1, OthersPlaced, PlacedFacts
<1>3. QTree(nodes, pc, req, klook)'
  BY <1>2, QFrame
<1>4. Opens(nodes, pc, req, klook, kopen)'
  BY OStill
<1> QED
  BY <1>3, <1>4 DEF QInv
LEMMA CalmPlaced ==
    ASSUME RInv, Calm(nodes, nodes')
    PROVE  Placed /\ OpenSame
<1>1. DOMAIN nodes = Ids /\ DOMAIN nodes' = Ids
  BY DEF RInv, RefOK, Table, Calm
<1> QED
  BY <1>1 DEF Placed, OpenSame, Steady, Calm, CalmNode, Live
LEMMA OwnGranted ==
    ASSUME LInv, RInv, QInv, RInv', NEW t, NEW r, Moves(t, "locked", r), pc[t] \in {"start", "wait"},
           Alike(req[t], r), r.killed = req[t].killed, Grants(nodes, req[t], r.wnode, r.wnode2),
           r.path = PathOf2(nodes, req[t]), Placed, klook' = klook
    PROVE  OwnPart(t, "locked", r) /\ UsesLess(t, "locked", r)
<1>0. /\ pc'[t] = "locked" /\ req'[t] = r /\ t \in Threads
      /\ \A u \in Threads \ {t} : pc'[u] = pc[u] /\ req'[u] = req[u]
  BY MovesFacts
<1>1. /\ ReqOK(r) /\ case \in Cases /\ RefOK(nodes) /\ RefOK(nodes') /\ Acyclic(nodes)
      /\ Solo(nodes, klook, pc[t], req[t]) /\ Loaded(pc[t], req[t]) /\ Args(req[t])
      /\ req[t].op \in DOMAIN fuse_path_ops
  BY <1>0, RFacts DEF RInv, RStage, QInv, QTree, Solos
<1>2. /\ Cousin(req[t], r) /\ Shape(r) = Shape(req[t]) /\ Mutexes(r) = Mutexes(req[t])
      /\ PathOf2(nodes', r) = PathOf2(nodes', req[t])
  <2>1. Cousin(req[t], r)
    BY DEF Alike, Cousin
  <2> QED
    BY <2>1, CousinFacts
<1>3. /\ Serving(pc[t], req[t]) /\ ~r.killed /\ r.entry = 0 /\ KnowsArgs(klook, r) /\ Shape(r) # "forget"
  BY <1>1, <1>2 DEF Solo, Serving, Loaded, Unfound, Alike, KnowsArgs, Cousin
<1>4. Removes(r) => Source(nodes, klook, r)
  <2>1. ASSUME Removes(r) PROVE Source(nodes, klook, r)
    <3>1. PICK c \in Ids \ {Root} : At(nodes, c, req[t].ino, req[t].name) /\ klook[c] > 0
      BY <1>1, <1>2, <2>1 DEF Solo, Source, Ahead, Removes
    <3>2. Finds(nodes, r.wnode, TRUE, req[t].ino, req[t].name)
      <4>1. CASE req[t].op = "rename"
        BY <4>1 DEF Grants, TwoPathOps, Exclusive
      <4>2. CASE req[t].op # "rename"
        <5>1. Shape(req[t]) \in {"unlink", "rmdir"}
          BY <1>1, <1>2, <2>1, <4>2, ShapeNames DEF Removes, Shape
        <5>2. req[t].op # "link"
          BY <1>1, <5>1, ShapeNames DEF Shape
        <5> QED
          BY <4>2, <5>1, <5>2 DEF Grants, TwoPathOps, Writes, Shape
      <4> QED
        BY <4>1, <4>2
    <3>3. r.wnode = c
      BY <3>1, <3>2 DEF Finds, At
    <3> QED
      BY <1>2, <3>1, <3>3 DEF Source, Cousin
  <2> QED
    BY <2>1
<1>5. Solo(nodes', klook', "locked", r)
  <2>1. Solo(nodes, klook, "locked", r)
    BY <1>1, <1>2, <1>3, <1>4 DEF Solo, Cousin
  <2>2. Learns(t)
    BY DEF Learns
  <2>3. KeepsSolo(nodes, nodes', klook, klook', "locked", r)
    BY <1>1, <2>2, PlacedSolo
  <2> QED
    BY <2>1, <2>3, SoloKept
<1>6. UsesLess(t, "locked", r)
  BY <1>2, <1>3 DEF UsesLess, Uses, Active, Cousin
<1>7. r.path = PathOf2(nodes', r)
  <2>1. req[t].ino \in Ids /\ req[t].ino2 \in Ids \cup {0}
    BY <1>0, <1>1, <1>2, <1>3, RFacts DEF Args, ReqOK
  <2>2. \A i \in Ids : \A j \in UpSet(nodes, i) : Steady(nodes, nodes', j)
    BY <1>1, UpSetFacts DEF Placed
  <2>3. Acyclic(nodes')
    BY PlacedFacts
  <2>4. PathOf2(nodes', req[t]) = PathOf2(nodes, req[t])
    BY <1>1, <2>1, <2>2, <2>3, PathKept
  <2> QED
    BY <1>2, <2>4
<1>8. ASSUME r.op = "rename" PROVE Target(nodes', pc', req', klook', r)
  <2>1. Target(nodes, pc, req, klook, req[t])
    BY <1>0, <1>2, <1>8 DEF Cousin, QInv, QTree, Targets, Ahead
  <2>2. Finds(nodes, r.wnode2, TRUE, r.ino2, r.name2)
    BY <1>2, <1>8 DEF Cousin, Grants, TwoPathOps, Exclusive
  <2>3. ASSUME NEW j \in Ids \ {Root}, At(nodes', j, r.ino2, r.name2)
        PROVE  (j = r.victim /\ (r.held => r.wnode2 = j)) \/ Newcomer(nodes', pc', req', klook', j)
    <3>1. At(nodes, j, r.ino2, r.name2)
      BY <2>3 DEF Placed, Steady, At
    <3>2. j = r.victim \/ Newcomer(nodes, pc, req, klook, j)
      BY <1>2, <2>1, <3>1 DEF Target, Cousin
    <3>3. Newcomer(nodes, pc, req, klook, j) => Newcomer(nodes', pc', req', klook', j)
      BY <1>0, <1>6, PlacedFacts DEF Newcomer, UsesLess
    <3>4. r.wnode2 = j
      BY <2>2, <3>1 DEF Finds, At
    <3> QED
      BY <3>2, <3>3, <3>4
  <2> QED
    BY <2>3 DEF Target
<1>9. ASSUME NEW u \in Threads \ {t}, Serving(pc[u], req[u])
      PROVE  Mutexes(r) \cap Mutexes(req[u]) \subseteq {0}
  BY <1>0, <1>2, <1>3, <1>9 DEF QInv, QTree, Apart
<1> QED
  BY <1>5, <1>6, <1>7, <1>8, <1>9 DEF OwnPart
LEMMA HeldAfter ==
    ASSUME LInv, NEW t, NEW p, NEW r, Moves(t, p, r)
    PROVE  /\ HeldOf(req') = (HeldOf(req) \ SlotsOf(t, req[t])) \cup SlotsOf(t, r)
           /\ SlotsOf(t, req[t]) \subseteq HeldOf(req)
           /\ \A s \in HeldOf(req) \ SlotsOf(t, req[t]) : s[1] # t
<1>0. /\ req'[t] = r /\ t \in Threads /\ \A u \in Threads \ {t} : req'[u] = req[u]
  BY MovesFacts
<1>2. PICK S : S = req'
  OBVIOUS
<1>3. OnlyOne(req, S, t)
  BY <1>0, <1>2 DEF OnlyOne
<1>4. HeldMoves(req, S, t)
  BY <1>3, HeldMove
<1> QED
  BY <1>0, <1>2, <1>4 DEF HeldMoves
LEMMA QAttempt ==
    ASSUME LInv, RInv, QInv, RInv', NEW t \in Threads, NEW tk, Attempt(t, tk), pc[t] \in {"start", "wait"},
           UNCHANGED <<klook, kopen, case>>
    PROVE  QInv'
<1>0. /\ ReqOK(req[t]) /\ Loaded(pc[t], req[t]) /\ Holding(pc[t], req[t]) /\ case \in Cases
      /\ DOMAIN req = Threads /\ Table(nodes) /\ RefOK(nodes) /\ Args(req[t])
      /\ Acyclic(nodes) /\ LockOK(nodes, HeldOf(req)) /\ Solo(nodes, klook, pc[t], req[t])
  BY RFacts DEF QInv, QTree, Solos
<1>1. PICK a : /\ a = TryLock(nodes, req[t], tk) /\ nodes' = a.ns
               /\ IF a.err = "EAGAIN"
                  THEN pc' = [pc EXCEPT ![t] = "wait"] /\ req' = [req EXCEPT ![t].ticket = tk]
                  ELSE Granted(t, a, tk)
  BY DEF Attempt
<1>2. aborted' = aborted /\ ~req[t].held /\ ~req[t].killed /\ Shape(req[t]) # "forget"
  BY <1>0 DEF Attempt, Holding, Solo
<1>3. req[t].ino \in Ids /\ (req[t].op \in TwoPathOps => req[t].ino2 \in Ids)
  BY <1>0, <1>2 DEF Args
<1>4. Placed /\ OpenSame
  <2>1. Calm(nodes, nodes')
    BY <1>0, <1>1, TryCalm
  <2> QED
    BY <2>1, CalmPlaced
<1>5. PICK H : H = HeldOf(req)
  OBVIOUS
<1>6. \A s \in H : s[1] # t
  <2>1. SlotsOf(t, req[t]) = {}
    BY <1>2, SlotFacts
  <2>2. OnlyOne(req, req, t)
    BY DEF OnlyOne
  <2>3. HeldMoves(req, req, t)
    BY <2>2, HeldMove
  <2> QED
    BY <1>5, <2>1, <2>3 DEF HeldMoves
<1>7. /\ a.err # "" => LockOK(nodes', H)
      /\ a.err = "" => /\ Grants(nodes, req[t], a.wnode, a.wnode2)
                       /\ \A q : q.held /\ q.op = req[t].op /\ q.ino = req[t].ino /\ q.ino2 = req[t].ino2
                                   /\ q.wnode = a.wnode /\ q.wnode2 = a.wnode2
                                   => LockOK(nodes', H \cup SlotsOf(t, q))
  BY <1>0, <1>1, <1>3, <1>5, <1>6, TryLocks
<1>8. CASE a.err = "EAGAIN"
  <2>1. PICK r : r = [req[t] EXCEPT !.ticket = tk]
    OBVIOUS
  <2>2. Moves(t, "wait", r)
    BY <1>0, <1>1, <1>8, <2>1 DEF Moves
  <2>3. Alike(req[t], r) /\ SameHold(req[t], r) /\ r.killed = req[t].killed
    BY <1>0, <2>1, FormTicket
  <2>4. Onwards(pc[t], "wait", req[t])
    BY DEF Onwards, Ahead
  <2>5. GoesOn(pc[t], req[t], "wait", r) /\ Cousin(req[t], r) /\ r.entry = req[t].entry
    BY <1>2, <2>3, <2>4, GoesOnAlike
  <2>6. OpensAlike(pc[t], req[t], "wait", r)
    BY <2>5 DEF OpensAlike, OpStage, Cousin
  <2>7. OwnPart(t, "wait", r) /\ UsesLess(t, "wait", r)
    BY <1>4, <2>2, <2>5, OwnGoesOn
  <2>8. LockOK(nodes', HeldOf(req'))
    BY <1>5, <1>7, <1>8, <2>2, <2>3, <2>5, HeldSame
  <2> QED
    BY <1>2, <1>4, <2>2, <2>6, <2>7, <2>8, QLocks
<1>9. CASE a.err = ""
  <2>0. PICK w, w2, path : w = a.wnode /\ w2 = a.wnode2 /\ path = PathOf2(nodes, req[t])
    OBVIOUS
  <2>1. PICK r : r = WithLocks(req[t], w, w2, tk, path)
    OBVIOUS
  <2>2. Moves(t, "locked", r)
    BY <1>0, <1>1, <1>9, <2>0, <2>1 DEF Moves, Granted, WithLocks
  <2>3. /\ Alike(req[t], r) /\ r.held = TRUE /\ r.killed = req[t].killed
        /\ r.wnode = w /\ r.wnode2 = w2 /\ r.path = path
    <3>1. GrantedForm(req[t], r, w, w2, path)
      BY <1>0, <2>1, FormGranted
    <3> QED
      BY <3>1 DEF GrantedForm
  <2>4. Cousin(req[t], r) /\ r.entry = req[t].entry
    BY <2>3 DEF Alike, Cousin
  <2>5. OwnPart(t, "locked", r) /\ UsesLess(t, "locked", r)
    BY <1>4, <1>7, <1>9, <2>0, <2>2, <2>3, OwnGranted
  <2>6. OpensAlike(pc[t], req[t], "locked", r)
    BY <2>4 DEF OpensAlike, OpStage, Cousin
  <2>7. LockOK(nodes', H \cup SlotsOf(t, r))
    BY <1>7, <1>9, <2>0, <2>3, <2>4 DEF Cousin
  <2>8. HeldOf(req') = H \cup SlotsOf(t, r)
    <3>1. SlotsOf(t, req[t]) = {}
      BY <1>2, SlotFacts
    <3> QED
      BY <1>5, <2>2, <3>1, HeldAfter
  <2> QED
    BY <1>2, <1>4, <2>2, <2>5, <2>6, <2>7, <2>8, QLocks
<1>10. CASE a.err \notin {"EAGAIN", ""} /\ PathErr(req[t])
  <2>2. Moves(t, "locked", req[t])
    BY <1>0, <1>1, <1>10 DEF Moves, Granted
  <2>3. Alike(req[t], req[t]) /\ SameHold(req[t], req[t])
    BY <1>0, FormSame
  <2>4. Onwards(pc[t], "locked", req[t])
    BY DEF Onwards, Ahead
  <2>5. GoesOn(pc[t], req[t], "locked", req[t]) /\ Cousin(req[t], req[t])
    BY <1>2, <2>3, <2>4, GoesOnAlike
  <2>6. OpensAlike(pc[t], req[t], "locked", req[t])
    BY <2>5 DEF OpensAlike, OpStage
  <2>7. OwnPart(t, "locked", req[t]) /\ UsesLess(t, "locked", req[t])
    BY <1>4, <2>2, <2>5, OwnGoesOn
  <2>8. LockOK(nodes', HeldOf(req'))
    BY <1>5, <1>7, <1>10, <2>2, <2>3, <2>5, HeldSame
  <2> QED
    BY <1>2, <1>4, <2>2, <2>6, <2>7, <2>8, QLocks
<1>11. CASE a.err \notin {"EAGAIN", ""} /\ ~PathErr(req[t])
  <2>1. Moves(t, "idle", NoReq)
    BY <1>0, <1>1, <1>11 DEF Moves, Granted
  <2>2. OwnPart(t, "idle", NoReq) /\ UsesLess(t, "idle", NoReq)
    BY OwnIdle
  <2>3. ~NoReq.held
    BY DEF NoReq
  <2>4. LockOK(nodes', HeldOf(req'))
    BY <1>2, <1>5, <1>7, <1>11, <2>1, <2>3, HeldSame
  <2>5. Shape(req[t]) # "release"
    BY <1>11 DEF PathErr
  <2>6. OpensAlike(pc[t], req[t], "idle", NoReq)
    BY <2>5, ShapeOf DEF OpensAlike, OpStage, Shape
  <2> QED
    BY <1>2, <1>4, <2>1, <2>2, <2>4, <2>6, QLocks
<1> QED
  BY <1>8, <1>9, <1>10, <1>11
LEMMA QPath ==
    ASSUME LInv, RInv, QInv, RInv', NEW t \in Threads, get_path_common(t) \/ get_path_retry(t)
    PROVE  QInv'
<1>1. UNCHANGED <<klook, kopen, case>> /\ pc[t] \in {"start", "wait"}
  BY DEF get_path_common, get_path_retry, kvars
<1>2. ReqOK(req[t]) /\ Loaded(pc[t], req[t]) /\ Solo(nodes, klook, pc[t], req[t])
  BY RFacts DEF QInv, QTree, Solos
<1>3. KnowsArgs(klook, req[t])
  BY <1>1, <1>2 DEF Loaded, Solo, Serving
<1>4. Gone(req[t]) = {}
  <2>1. ASSUME NEW i \in {req[t].ino, req[t].ino2} \ {0} PROVE Live(nodes, i)
    <3>1. i \in Ids /\ KnownIn(klook, i)
      BY <1>2, <1>3 DEF ReqOK, KnowsArgs
    <3> QED
      BY <3>1, KnownLive
  <2> QED
    BY <2>1 DEF Gone
<1>5. \E tk : Attempt(t, tk)
  BY <1>4 DEF get_path_common, get_path_retry
<1> QED
  BY <1>1, <1>5, QAttempt
LEMMA QFree ==
    ASSUME LInv, RInv, QInv, RInv', NEW t \in Threads, free_path(t)
    PROVE  QInv'
<1>0. /\ ReqOK(req[t]) /\ case \in Cases /\ DOMAIN req = Threads /\ RefOK(nodes)
      /\ (pc[t] # "idle" => req[t].op \in DOMAIN fuse_path_ops)
      /\ Acyclic(nodes) /\ LockOK(nodes, HeldOf(req)) /\ Solo(nodes, klook, pc[t], req[t])
  BY RFacts DEF QInv, QTree, Solos
<1>1. UNCHANGED <<klook, kopen, case>>
  BY DEF free_path, kvars
<1>2. pc[t] = "free" \/ (pc[t] = "locked" /\ Shape(req[t]) \in {"path", "nullok", "always"})
  BY DEF free_path
<1>3. Placed /\ OpenSame
  BY FreeCalm, CalmPlaced
<1>4. /\ pc' = [pc EXCEPT ![t] = AfterFree(req[t])]
      /\ req' = [req EXCEPT ![t] = IF AfterFree(req[t]) = "idle" THEN NoReq
                                   ELSE [req[t] EXCEPT !.held = FALSE]]
  BY <1>0 DEF free_path
<1>5. PICK p, r : p = AfterFree(req[t]) /\ r = IF p = "idle" THEN NoReq ELSE [req[t] EXCEPT !.held = FALSE]
  OBVIOUS
<1>6. Moves(t, p, r)
  BY <1>1, <1>4, <1>5 DEF Moves
<1>7. r.held = FALSE
  <2>1. NoReq.held = FALSE
    BY DEF NoReq
  <2>2. CASE p = "idle"
    BY <1>5, <2>1, <2>2
  <2>3. CASE p # "idle"
    BY <1>0, <1>5, <2>3, FormFreed
  <2> QED
    BY <2>2, <2>3
<1>8. /\ LockOK(nodes', HeldOf(req')) /\ aborted' = aborted
  <2>1. CASE ~req[t].held
    <3>1. nodes' = nodes /\ aborted' = aborted
      BY <2>1 DEF free_path
    <3>2. HeldOf(req') = HeldOf(req)
      BY <1>6, <1>7, <2>1, HeldSame
    <3> QED
      BY <1>0, <3>1, <3>2
  <2>2. CASE req[t].held
    <3>1. PICK ms : ms = UnlockAll(nodes, req[t])
      OBVIOUS
    <3>2. HeldOf(req') = HeldOf(req) \ SlotsOf(t, req[t]) /\ SlotsOf(t, req[t]) \subseteq HeldOf(req)
      <4>1. SlotsOf(t, r) = {}
        BY <1>7, SlotFacts
      <4> QED
        BY <1>6, <4>1, HeldAfter
    <3>3. /\ LockOK(ms, HeldOf(req) \ SlotsOf(t, req[t])) /\ Unlockable(nodes, req[t].ino, req[t].wnode)
          /\ req[t].op \in TwoPathOps => Unlockable(nodes, req[t].ino2, req[t].wnode2)
      BY <1>0, <2>2, <3>1, <3>2, UnlockAllLocks
    <3>4. req[t].ino2 # 0 => Unlockable(nodes, req[t].ino2, req[t].wnode2)
      BY <2>2, <3>3, HoldsArgs DEF HoldsTwo
    <3>5. nodes' = ms /\ aborted' = aborted
      BY <2>2, <3>1, <3>3, <3>4 DEF free_path
    <3> QED
      BY <3>2, <3>3, <3>5
  <2> QED
    BY <2>1, <2>2
<1>9. p \in {"idle", "reply", "insert"} /\ (p = "insert" => req[t].op = "setlk")
  BY <1>5 DEF AfterFree
<1>10. OwnPart(t, p, r) /\ UsesLess(t, p, r)
  <2>1. CASE p = "idle"
    BY <1>5, <2>1, OwnIdle
  <2>2. CASE p # "idle"
    <3>1. Alike(req[t], r) /\ r.killed = req[t].killed
      BY <1>0, <1>5, <2>2, FormFreed
    <3>2. Cousin(req[t], r) /\ r.entry = req[t].entry /\ r.done = req[t].done /\ r.n = req[t].n
      BY <3>1 DEF Alike, Cousin
    <3>3. GoesOn(pc[t], req[t], p, r)
      BY <1>2, <1>7, <1>9, <2>2, <3>1, <3>2 DEF GoesOn, HoldsOn, Serving, Ahead
    <3> QED
      BY <1>1, <1>3, <1>6, <3>3, OwnGoesOn
  <2> QED
    BY <2>1, <2>2
<1>11. OpensAlike(pc[t], req[t], p, r)
  <2>1. ~OpStage(pc[t], req[t])
    <3>1. pc[t] = "locked" => req[t].op # "release"
      BY <1>2, ShapeOf DEF Shape
    <3> QED
      BY <1>2, <3>1 DEF OpStage
  <2>2. p = "insert" => r.op # "release"
    <3>1. ASSUME p = "insert" PROVE r.op = "setlk"
      <4>1. Alike(req[t], r)
        BY <1>0, <1>5, <3>1, FormFreed
      <4> QED
        BY <1>9, <3>1, <4>1 DEF Alike
    <3> QED
      BY <3>1
  <2> QED
    BY <1>9, <2>1, <2>2 DEF OpensAlike, OpStage
<1> QED
  BY <1>1, <1>3, <1>6, <1>8, <1>10, <1>11, QLocks

\* The directory that a request changes is its own.
LEMMA DirMutex ==
    ASSUME LInv, RInv, NEW t \in Threads, pc[t] # "idle", Shape(req[t]) \in Finders
    PROVE  EntryDir(req[t]) \in Mutexes(req[t]) /\ EntryDir(req[t]) \in Ids /\ EntryName(req[t]) # Null
<1>1. req[t].op \in DOMAIN fuse_path_ops /\ Args(req[t])
  BY RFacts
<1>2. Shape(req[t]) = "link" <=> req[t].op = "link"
  BY <1>1, ShapeNames DEF Shape
<1>3. Shape(req[t]) = "rename" <=> req[t].op = "rename"
  BY <1>1, ShapeNames DEF Shape
<1>4. CASE Shape(req[t]) = "link"
  BY <1>1, <1>2, <1>4 DEF EntryDir, EntryName, Mutexes, Args, TwoPathOps
<1>5. CASE Shape(req[t]) \in {"entry", "create"}
  BY <1>1, <1>2, <1>5 DEF EntryDir, EntryName, Mutexes, Args
<1> QED
  BY <1>4, <1>5 DEF Finders
LEMMA RemoverMutex ==
    ASSUME LInv, RInv, QInv, NEW t \in Threads, pc[t] # "idle", Removes(req[t])
    PROVE  /\ Serving(pc[t], req[t]) /\ req[t].ino \in Mutexes(req[t]) /\ req[t].ino \in Ids
           /\ (req[t].op = "rename" <=> Shape(req[t]) = "rename") /\ req[t].name # Null
           /\ req[t].op = "rename" => /\ req[t].ino2 \in Mutexes(req[t]) /\ req[t].ino2 \in Ids
                                      /\ req[t].name2 # Null
           /\ req[t].op # "rename" => req[t].ino2 = 0
           /\ GoneDir(req[t]) \in Mutexes(req[t]) /\ GoneDir(req[t]) \in Ids /\ GoneName(req[t]) # Null
<1>1. req[t].op \in DOMAIN fuse_path_ops /\ Args(req[t])
  BY RFacts
<1>2. (Shape(req[t]) = "link" <=> req[t].op = "link") /\ (Shape(req[t]) = "rename" <=> req[t].op = "rename")
  BY <1>1, ShapeNames DEF Shape
<1>3. Serving(pc[t], req[t])
  BY Serves DEF Removes
<1>4. CASE Shape(req[t]) = "rename"
  BY <1>1, <1>2, <1>3, <1>4 DEF Mutexes, Args, TwoPathOps, GoneDir, GoneName
<1>5. CASE Shape(req[t]) \in {"unlink", "rmdir"}
  BY <1>1, <1>2, <1>3, <1>5 DEF Mutexes, Args, TwoPathOps, GoneDir, GoneName
<1> QED
  BY <1>4, <1>5 DEF Removes
LEMMA EntryKnown ==
    ASSUME LInv, RInv, QInv, NEW t \in Threads, Serving(pc[t], req[t]), Shape(req[t]) \in Finders,
           req[t].entry # 0
    PROVE  NoTarget(t, req[t].entry)
<1>0. case \in Cases /\ pc[t] # "idle"
  BY RFacts DEF Serving
<1>1. EntryDir(req[t]) \in Mutexes(req[t]) /\ EntryDir(req[t]) \in Ids
  BY <1>0, DirMutex
<1>2. At(nodes, req[t].entry, EntryDir(req[t]), EntryName(req[t]))
  BY DEF QInv, QTree, Solos, Solo
<1>3. ASSUME NEW u \in Threads \ {t}, req[u].op = "rename", pc[u] \in Ahead,
             At(nodes, req[t].entry, req[u].ino2, req[u].name2)
      PROVE  FALSE
  <2>1. pc[u] # "idle"
    BY <1>3 DEF Ahead
  <2>2. Removes(req[u])
    BY <1>3, <2>1, RFacts, ShapeNames DEF Removes, Shape
  <2>3. Serving(pc[u], req[u]) /\ req[u].ino2 \in Mutexes(req[u])
    BY <1>3, <2>1, <2>2, RemoverMutex
  <2>4. req[u].ino2 = EntryDir(req[t])
    BY <1>2, <1>3 DEF At
  <2>5. Mutexes(req[t]) \cap Mutexes(req[u]) \subseteq {0}
    BY <1>3, <2>3 DEF QInv, QTree, Apart
  <2> QED
    BY <1>0, <1>1, <2>3, <2>4, <2>5, IdFacts
<1> QED
  BY <1>3 DEF NoTarget
LEMMA QReplyEntry ==
    ASSUME LInv, RInv, QInv, RInv', NEW t \in Threads, reply_entry(t)
    PROVE  QInv'
<1>0. /\ pc[t] = "reply" /\ Shape(req[t]) \in {"entry", "link"} /\ nodes' = nodes
      /\ UNCHANGED <<kopen, aborted, case>>
  BY DEF reply_entry, fvars
<1>1. /\ Loaded(pc[t], req[t]) /\ Holding(pc[t], req[t]) /\ klook \in [Ids -> Nat] /\ ReqOK(req[t])
      /\ LockOK(nodes, HeldOf(req))
  BY RFacts DEF RInv, QInv, QTree
<1>2. req[t].entry \in Ids \ {Root} /\ ~req[t].held /\ ~req[t].done
  BY <1>0, <1>1 DEF Loaded, Holding, ReqOK
<1>3. CASE req[t].killed
  <2>1. pc' = [pc EXCEPT ![t] = "forget"] /\ req' = req /\ klook' = klook
    BY <1>3 DEF reply_entry
  <2>2. Onwards(pc[t], "forget", req[t]) /\ (OpStage("forget", req[t]) <=> OpStage(pc[t], req[t]))
    BY <1>0 DEF Onwards, Ahead, OpStage
  <2> QED
    BY <1>0, <2>1, <2>2, NodesSame, QPlain
<1>4. CASE ~req[t].killed
  <2>1. /\ Moves(t, "idle", NoReq) /\ klook' = [klook EXCEPT ![req[t].entry] = @ + 1]
    BY <1>0, <1>4 DEF reply_entry, Moves
  <2>2. \A j \in Ids : klook[j] \in Nat /\ (j # req[t].entry => klook'[j] = klook[j])
                       /\ (j = req[t].entry => klook'[j] = klook[j] + 1)
    BY <1>1, <1>2, <2>1
  <2>3. NoTarget(t, req[t].entry)
    <3>1. Serving(pc[t], req[t]) /\ Shape(req[t]) \in Finders /\ req[t].entry # 0
      BY <1>0, <1>1, <1>2, <1>4 DEF Serving, Finders, Loaded
    <3> QED
      BY <3>1, EntryKnown
  <2>4. Learns(t)
    BY <2>2, <2>3 DEF Learns
  <2>5. OwnPart(t, "idle", NoReq) /\ UsesLess(t, "idle", NoReq) /\ Placed /\ OpenSame
    BY <1>0, OwnIdle, NodesSame
  <2>6. KeepsOthers(t) /\ Acyclic(nodes') /\ KeepsPaths(t)
    BY <2>1, <2>4, <2>5, OthersPlaced, PlacedFacts
  <2>7. LockOK(nodes', HeldOf(req'))
    <3>1. ~NoReq.held
      BY DEF NoReq
    <3>2. HeldOf(req') = HeldOf(req)
      BY <1>2, <2>1, <3>1, HeldSame
    <3> QED
      BY <1>0, <1>1, <3>2
  <2>8. QTree(nodes, pc, req, klook)'
    BY <2>1, <2>5, <2>6, <2>7, QFrame
  <2>9. Opens(nodes, pc, req, klook, kopen)'
    <3>1. OpensAlike(pc[t], req[t], "idle", NoReq)
      BY <1>0 DEF OpensAlike, OpStage
    <3>2. \A i \in Ids : klook[i] > 0 => klook'[i] > 0
      BY <2>4 DEF Learns
    <3> QED
      BY <1>0, <2>1, <2>5, <3>1, <3>2, OStill
  <2> QED
    BY <1>0, <2>8, <2>9 DEF QInv
<1> QED
  BY <1>3, <1>4

\* An open goes from the thread to the kernel.
LEMMA OwnDone ==
    ASSUME LInv, RInv, QInv, RInv', NEW t, NEW r, Moves(t, "free", r), Kin(req[t], r), r.done = TRUE,
           ~r.killed, r.entry = req[t].entry, r.n = req[t].n, Shape(req[t]) \in {"open", "create"},
           pc[t] # "idle", nodes' = nodes
    PROVE  OwnPart(t, "free", r) /\ UsesLess(t, "free", r)
<1>0. t \in Threads
  BY DEF Moves
<1>1. Shape(r) = Shape(req[t]) /\ Cousin(req[t], r) /\ SameHold(req[t], r)
  BY KinFacts DEF Kin, Cousin
<1>2. ~Serving("free", r) /\ "free" \notin Ahead
  BY DEF Serving, Ahead
<1>3. r.op # "rename"
  BY <1>0, <1>1, RFacts, ShapeNames DEF Shape, Cousin
<1>4. Solo(nodes', klook', "free", r)
  <2>1. r.entry # 0 => r.n >= 1
    BY <1>0 DEF QInv, QTree, Solos, Solo
  <2> QED
    BY <1>1, <1>2, <1>3, <2>1 DEF Solo
<1>5. UsesLess(t, "free", r)
  BY <1>1, <1>2 DEF UsesLess, Uses, Active, Cousin, SameHold
<1>6. ASSUME r.held PROVE r.path = PathOf2(nodes', r)
  <2>1. req[t].path = PathOf2(nodes, req[t])
    BY <1>0, <1>1, <1>6 DEF SameHold, QInv, QTree, Paths
  <2>2. PathOf2(nodes, r) = PathOf2(nodes, req[t])
    BY <1>1, CousinFacts
  <2> QED
    BY <1>1, <2>1, <2>2 DEF SameHold
<1> QED
  BY <1>2, <1>4, <1>5, <1>6 DEF OwnPart
LEMMA OpnIs ==
    ASSUME NEW p, NEW r, p \in {"opened", "release"} \/ (p = "locked" /\ r.op = "release"), NEW i
    PROVE  Opn(p, r, i) = IF i = File(r) THEN 1 ELSE 0
BY DEF Opn, Opener, Opening, Closing, File
LEMMA OpnNot ==
    ASSUME NEW p, NEW r, ~OpStage(p, r), NEW i
    PROVE  Opn(p, r, i) = 0
BY DEF Opn, Opener, Opening, Closing, OpStage
LEMMA QReplyOpen ==
    ASSUME LInv, RInv, QInv, RInv', NEW t \in Threads, reply_open(t)
    PROVE  QInv'
<1>0. /\ Loaded(pc[t], req[t]) /\ Holding(pc[t], req[t]) /\ ReqOK(req[t]) /\ case \in Cases /\ DOMAIN req = Threads
      /\ Args(req[t]) /\ Stage(pc[t], req[t], case) /\ klook \in [Ids -> Nat] /\ LockOK(nodes, HeldOf(req))
  BY RFacts DEF reply_open, RInv, QInv, QTree
<1>1. pc[t] = "opened" /\ UNCHANGED <<nodes, case, aborted>>
  BY DEF reply_open, fvars
<1>2. /\ ~req[t].done /\ req[t].held /\ Shape(req[t]) \in {"open", "create"} /\ File(req[t]) \in Ids
      /\ IF req[t].op = "create" THEN req[t].entry # 0 /\ req[t].n = 1 ELSE req[t].entry = 0
  BY <1>0, <1>1, FileId DEF Holding, Stage
<1>3. CASE req[t].killed
  <2>1. pc' = [pc EXCEPT ![t] = "release"] /\ UNCHANGED <<req, klook, kopen>>
    BY <1>3 DEF reply_open
  <2>2. Onwards(pc[t], "release", req[t]) /\ (OpStage("release", req[t]) <=> OpStage(pc[t], req[t]))
    BY <1>1, <1>2 DEF Onwards, Ahead, OpStage
  <2> QED
    BY <1>1, <2>1, <2>2, NodesSame, QPlain
<1>4. CASE ~req[t].killed
  <2>1. PICK r : r = [req[t] EXCEPT !.done = TRUE]
    OBVIOUS
  <2>2. Moves(t, "free", r)
    BY <1>0, <1>1, <1>4, <2>1 DEF Moves, reply_open
  <2>3. Kin(req[t], r) /\ r.done = TRUE /\ ~r.killed /\ r.entry = req[t].entry /\ r.n = req[t].n
    <3>1. Kin(req[t], r) /\ r.done = TRUE /\ r.entry = req[t].entry /\ r.n = req[t].n
      BY <1>0, <2>1, FormDone
    <3>2. r.killed = req[t].killed
      BY <3>1 DEF Kin
    <3> QED
      BY <1>4, <3>1, <3>2
  <2>4. PICK f : f = File(req[t])
    OBVIOUS
  <2>5. kopen' = [kopen EXCEPT ![f] = @ + 1] /\ kopen \in [Ids -> Nat]
        /\ \A j \in Ids : kopen[j] > 0 => KnownIn(klook, j)
    BY <1>4, <2>4 DEF reply_open, QInv, Opens
  <2>6. \A j \in Ids : klook[j] \in Nat /\ (klook'[j] # klook[j] =>
                           req[t].op = "create" /\ j = req[t].entry /\ klook'[j] = klook[j] + 1)
    <3>1. CASE req[t].op = "create"
      BY <1>0, <1>4, <3>1 DEF reply_open
    <3>2. CASE req[t].op # "create"
      BY <1>0, <1>4, <3>2 DEF reply_open
    <3> QED
      BY <3>1, <3>2
  <2>7. req[t].op = "create" => NoTarget(t, req[t].entry)
    <3>1. Serving(pc[t], req[t])
      BY <1>1, <1>2, <1>4 DEF Serving
    <3>2. req[t].op = "create" => Shape(req[t]) \in Finders
      BY <1>1, RFacts, ShapeNames DEF Shape, Finders
    <3> QED
      BY <1>2, <3>1, <3>2, EntryKnown
  <2>8. Learns(t)
    BY <2>6, <2>7 DEF Learns
  <2>9. OwnPart(t, "free", r) /\ UsesLess(t, "free", r) /\ Placed
    BY <1>1, <1>2, <2>2, <2>3, OwnDone, NodesSame
  <2>10. KeepsOthers(t) /\ Acyclic(nodes') /\ KeepsPaths(t)
    BY <2>2, <2>8, <2>9, OthersPlaced, PlacedFacts
  <2>11. LockOK(nodes', HeldOf(req'))
    <3>1. Cousin(req[t], r) /\ SameHold(req[t], r)
      BY <2>3 DEF Kin, Cousin
    <3>2. HeldOf(req') = HeldOf(req)
      BY <2>2, <3>1, HeldSame
    <3> QED
      BY <1>0, <1>1, <3>2
  <2>12. QTree(nodes, pc, req, klook)'
    BY <2>2, <2>9, <2>10, <2>11, QFrame
  <2>13. KnownIn(klook', f)
    <3>1. CASE req[t].op = "create"
      <4>1. f = req[t].entry /\ f \in Ids
        BY <1>2, <2>4, <3>1 DEF File
      <4>2. klook' = [klook EXCEPT ![f] = @ + 1]
        BY <1>4, <3>1, <4>1 DEF reply_open
      <4>3. klook'[f] > 0
        BY <1>0, <4>1, <4>2
      <4> QED
        BY <4>3 DEF KnownIn
    <3>2. CASE req[t].op # "create"
      <4>1. f = req[t].ino /\ klook' = klook
        BY <1>4, <2>4, <3>2 DEF File, reply_open
      <4>2. Serving(pc[t], req[t])
        BY <1>1, <1>2, <1>4 DEF Serving
      <4> QED
        BY <4>1, <4>2 DEF QInv, QTree, Solos, Solo, KnowsArgs
    <3> QED
      BY <3>1, <3>2
  <2>14. ASSUME NEW j \in Ids PROVE Opened(t, "free", r, j)
    <3>1. Opn(pc[t], req[t], j) = IF j = f THEN 1 ELSE 0
      BY <1>1, <2>4, OpnIs
    <3>2. Opn("free", r, j) = 0
      BY OpnNot DEF OpStage
    <3>3. kopen'[j] = IF j = f THEN kopen[j] + 1 ELSE kopen[j]
      BY <1>2, <2>4, <2>5
    <3>4. kopen'[j] > 0 => KnownIn(klook', j)
      BY <2>5, <2>8, <2>13, <3>3 DEF Learns, KnownIn
    <3>5. nodes[j].open \in Nat /\ kopen[j] \in Nat
      BY <2>5 DEF RInv, RefOK, Table, NodeOK
    <3>6. nodes'[j].open + kopen[j] + Opn(pc[t], req[t], j) = nodes[j].open + kopen'[j] + Opn("free", r, j)
      BY <1>1, <3>1, <3>2, <3>3, <3>5
    <3> QED
      BY <1>1, <3>4, <3>6 DEF Opened
  <2>15. kopen' \in [Ids -> Nat]
    BY <1>2, <2>4, <2>5
  <2>16. Opens(nodes, pc, req, klook, kopen)'
    BY <2>2, <2>14, <2>15, OMoves
  <2> QED
    BY <1>1, <2>12, <2>16 DEF QInv
<1> QED
  BY <1>3, <1>4
\* The file of a request is there.
LEMMA FileLive ==
    ASSUME LInv, RInv, QInv, NEW t \in Threads,
           pc[t] \in {"found", "opened", "release"} \/ (pc[t] = "locked" /\ Shape(req[t]) = "release")
    PROVE  Live(nodes, File(req[t])) /\ nodes[File(req[t])].nlookup > 0
<1>0. /\ case \in Cases /\ RefOK(nodes) /\ ReqOK(req[t]) /\ Stage(pc[t], req[t], case) /\ Holding(pc[t], req[t])
      /\ (pc[t] # "idle" => req[t].op \in DOMAIN fuse_path_ops) /\ klook \in [Ids -> Nat]
      /\ Solo(nodes, klook, pc[t], req[t])
  BY RFacts DEF RInv, QInv, QTree, Solos
<1>1. /\ File(req[t]) \in Ids /\ ~req[t].done /\ pc[t] # "idle"
      /\ IF req[t].op = "create" THEN req[t].entry # 0 /\ req[t].n = 1 ELSE req[t].entry = 0
  BY FileId
<1>2. CASE req[t].op = "create"
  <2>1. PICK i : i = req[t].entry
    OBVIOUS
  <2>2. i \in Ids \ {Root} /\ File(req[t]) = i
    BY <1>0, <1>1, <1>2, <2>1 DEF ReqOK, File
  <2>3. Load(pc[t], req[t], i) = 1
    BY <1>1, <1>2, <2>1 DEF Load, Carries
  <2>4. \A u \in Threads : req[u].n \in Nat
    BY DEF RInv, RStage, ReqOK
  <2>5. PICK a, b : a = Cardinality(Flight(pc, req, i)) /\ b = Cardinality(Rows(pc, req, i, t))
    OBVIOUS
  <2>6. a = b + 1 /\ b \in Nat
    BY <2>3, <2>4, <2>5, FlightSplit
  <2>7. nodes[i].nlookup = klook[i] + a /\ klook[i] \in Nat
    BY <1>0, <2>2, <2>5 DEF RInv, FlightsOK
  <2>8. nodes[i].nlookup > 0
    BY <2>6, <2>7
  <2> QED
    BY <1>0, <2>2, <2>8, LiveFacts
<1>3. CASE req[t].op # "create" /\ req[t].held
  <2>1. Uses(pc[t], req[t], File(req[t]))
    BY <1>3 DEF Uses, Active, File
  <2> QED
    BY <1>1, <2>1, UsesLive
<1>4. CASE req[t].op # "create" /\ ~req[t].held
  <2>1. Shape(req[t]) \in {"release", "open"}
    <3>1. pc[t] # "found" /\ pc[t] # "opened"
      BY <1>0, <1>4 DEF Holding
    <3>2. pc[t] = "release" => Shape(req[t]) \in {"open", "create", "release"}
      BY <1>0 DEF Stage
    <3>3. Shape(req[t]) = "create" => req[t].op = "create"
      BY <1>0, <1>1, ShapeNames DEF Shape
    <3> QED
      BY <1>4, <3>1, <3>2, <3>3
  <2>2. Shape(req[t]) # "open"
    <3>1. Shape(req[t]) = "open" => req[t].op = "open"
      BY <1>0, <1>1, ShapeNames DEF Shape
    <3>2. Shape(req[t]) = "open" => pc[t] = "release"
      BY <1>0, <1>4 DEF Holding
    <3> QED
      BY <1>0, <1>4, <3>1, <3>2 DEF Solo
  <2>3. Live(nodes, req[t].ino) /\ nodes[req[t].ino].nlookup > 0
    BY <1>1, <1>4, <2>1, <2>2, Serves DEF File
  <2> QED
    BY <1>4, <2>3 DEF File
<1> QED
  BY <1>2, <1>3, <1>4
\* A step that counts the opens of a file.
LEMMA QCount ==
    ASSUME LInv, RInv, QInv, RInv', NEW t \in Threads, NEW p, pc' = [pc EXCEPT ![t] = p], req' = req, case' = case,
           Onwards(pc[t], p, req[t]), NEW f \in Ids, NEW k \in Nat, NEW b \in BOOLEAN,
           nodes' = WithOpen(nodes, f, k, b), Live(nodes, f),
           k + Opn(pc[t], req[t], f) = nodes[f].open + Opn(p, req[t], f),
           \A j \in Ids \ {f} : Opn(p, req[t], j) = Opn(pc[t], req[t], j),
           UNCHANGED <<klook, kopen, aborted>>
    PROVE  QInv'
<1>0. Table(nodes) /\ DOMAIN nodes = Ids /\ kopen \in [Ids -> Nat]
      /\ \A j \in Ids : nodes[j].open \in Nat /\ (kopen[j] > 0 => KnownIn(klook, j))
  BY RFacts DEF RInv, RefOK, Table, NodeOK, QInv, Opens
<1>1. Moves(t, p, req[t])
  BY RFacts DEF Moves
<1>2. Alike(req[t], req[t]) /\ SameHold(req[t], req[t])
  BY RFacts, FormSame
<1>3. req[t].killed => pc[t] \notin {"start", "wait"}
  BY DEF QInv, QTree, Solos, Solo
<1>4. GoesOn(pc[t], req[t], p, req[t])
  BY <1>2, <1>3, GoesOnAlike
<1>5. PICK ms : ms = nodes'
  OBVIOUS
<1>6. /\ Table(ms) /\ SameTree(nodes, ms) /\ ms[f].open = k
      /\ ms[f].treelock = nodes[f].treelock /\ \A j \in Ids \ {f} : ms[j] = nodes[j]
  BY <1>0, <1>5, OpenIs, SMTT(20)
<1>7. Placed /\ LocksAlike
  <2>1. \A j \in Ids : Steady(nodes, ms, j) /\ ms[j].treelock = nodes[j].treelock /\ ms[j].nlookup = nodes[j].nlookup
    BY <1>6 DEF SameTree, Steady
  <2> QED
    BY <1>5, <2>1 DEF Placed, LocksAlike
<1>8. QTree(nodes, pc, req, klook)'
  BY <1>1, <1>2, <1>4, <1>7, QQuiet
<1>9. ASSUME NEW j \in Ids PROVE Opened(t, p, req[t], j)
  <2>0. Live(nodes', j) <=> Live(nodes, j)
    BY <1>0, <1>5, <1>6 DEF Live, SameTree, Table
  <2>1. CASE j = f
    <3>1. Opn(p, req[t], f) \in Nat /\ Opn(pc[t], req[t], f) \in Nat
      BY DEF Opn
    <3>2. nodes'[f].open + kopen[f] + Opn(pc[t], req[t], f) = nodes[f].open + kopen'[f] + Opn(p, req[t], f)
      BY <1>0, <1>5, <1>6, <3>1
    <3> QED
      BY <1>0, <2>0, <2>1, <3>2 DEF Opened
  <2>2. CASE j # f
    <3>1. nodes'[j] = nodes[j] /\ Opn(p, req[t], j) = Opn(pc[t], req[t], j)
      BY <1>5, <1>6, <2>2
    <3> QED
      BY <1>0, <2>0, <3>1 DEF Opened
  <2> QED
    BY <2>1, <2>2
<1>10. Opens(nodes, pc, req, klook, kopen)'
  BY <1>0, <1>1, <1>9, OMoves
<1> QED
  BY <1>8, <1>10 DEF QInv
LEMMA QCountOpen ==
    ASSUME LInv, RInv, QInv, RInv', NEW t \in Threads, CountOpen(t)
    PROVE  QInv'
<1>0. pc[t] = "found" /\ UNCHANGED <<klook, kopen, case>> /\ Holding(pc[t], req[t])
  BY RFacts DEF CountOpen, kvars
<1>1. PICK f : f = File(req[t])
  OBVIOUS
<1>2. f \in Ids /\ Live(nodes, f)
  BY <1>0, <1>1, FileId, FileLive
<1>3. /\ nodes' = [nodes EXCEPT ![f].open = @ + 1] /\ pc' = [pc EXCEPT ![t] = "opened"] /\ req' = req
      /\ aborted' = aborted
  BY <1>1, <1>2 DEF CountOpen
<1>4. DOMAIN nodes = Ids /\ NodeOK(nodes[f])
  BY <1>2 DEF RInv, RefOK, Table
<1>5. PICK k, b : k = nodes[f].open + 1 /\ b = nodes[f].hidden
  OBVIOUS
<1>6. k \in Nat /\ b \in BOOLEAN
  BY <1>4, <1>5 DEF NodeOK
<1>7. nodes' = WithOpen(nodes, f, k, b)
  <2>1. PICK n : n = nodes[f]
    OBVIOUS
  <2>2. [n EXCEPT !.open = n.open + 1] = [[n EXCEPT !.open = n.open + 1] EXCEPT !.hidden = n.hidden]
    BY <1>4, <2>1 DEF NodeOK, NodeKeys
  <2>3. WithOpen(nodes, f, k, b) = [nodes EXCEPT ![f] = [[n EXCEPT !.open = n.open + 1] EXCEPT !.hidden = n.hidden]]
    BY <1>2, <1>4, <1>5, <2>1 DEF WithOpen
  <2>4. nodes' = [nodes EXCEPT ![f] = [n EXCEPT !.open = n.open + 1]]
    BY <1>2, <1>3, <1>4, <2>1
  <2> QED
    BY <2>2, <2>3, <2>4
<1>8. Onwards(pc[t], "opened", req[t])
  BY <1>0 DEF Onwards, Ahead
<1>9. \A j \in Ids : Opn("opened", req[t], j) = (IF j = f THEN 1 ELSE 0) /\ Opn(pc[t], req[t], j) = 0
  BY <1>0, <1>1, OpnIs, OpnNot DEF OpStage
<1>10. /\ k + Opn(pc[t], req[t], f) = nodes[f].open + Opn("opened", req[t], f)
       /\ \A j \in Ids \ {f} : Opn("opened", req[t], j) = Opn(pc[t], req[t], j)
  BY <1>2, <1>4, <1>5, <1>9 DEF NodeOK
<1> QED
  BY <1>0, <1>2, <1>3, <1>6, <1>7, <1>8, <1>10, QCount
LEMMA QRelease ==
    ASSUME LInv, RInv, QInv, RInv', NEW t \in Threads, fuse_do_release(t)
    PROVE  QInv'
<1>0. /\ pc[t] = "release" \/ (pc[t] = "locked" /\ Shape(req[t]) = "release")
      /\ UNCHANGED <<klook, kopen, case>>
  BY DEF fuse_do_release, kvars
<1>1. PICK f : f = File(req[t])
  OBVIOUS
<1>2. f \in Ids /\ Live(nodes, f)
  BY <1>0, <1>1, FileId, FileLive
<1>3. pc[t] = "locked" => req[t].op = "release"
  BY <1>0, RFacts, ShapeNames DEF Shape
<1>4. \A j \in Ids : Opn(pc[t], req[t], j) = IF j = f THEN 1 ELSE 0
  BY <1>0, <1>1, <1>3, OpnIs
<1>5. nodes[f].open > 0 /\ NodeOK(nodes[f]) /\ DOMAIN nodes = Ids
  <2>1. t \in Openers(pc, req, f)
    BY <1>2, <1>4 DEF Openers, Opn
  <2>2. PICK a : a = Cardinality(Openers(pc, req, f))
    OBVIOUS
  <2>3. IsFiniteSet(Openers(pc, req, f))
    <3>1. Openers(pc, req, f) \subseteq Threads
      BY DEF Openers
    <3> QED
      BY <3>1, TreeAssumption, FS_Subset
  <2>4. a \in Nat /\ a # 0
    BY <2>1, <2>2, <2>3, FS_EmptySet, FS_CardinalityType
  <2>5. nodes[f].open = kopen[f] + a /\ kopen[f] \in Nat
    BY <1>2, <2>2 DEF QInv, Opens
  <2>6. NodeOK(nodes[f]) /\ DOMAIN nodes = Ids
    BY <1>2 DEF RInv, RefOK, Table
  <2> QED
    BY <2>4, <2>5, <2>6
<1>6. /\ nodes' = [nodes EXCEPT ![f].open = @ - 1, ![f].hidden = @ /\ ~LastOpen(nodes[f])]
      /\ pc' = [pc EXCEPT ![t] = IF LastOpen(nodes[f]) /\ req[t].held THEN "unhide" ELSE AfterRelease(req[t])]
      /\ req' = req /\ aborted' = aborted
  BY <1>1, <1>2, <1>5 DEF fuse_do_release
<1>7. PICK k, b : k = nodes[f].open - 1 /\ b = (nodes[f].hidden /\ ~LastOpen(nodes[f]))
  OBVIOUS
<1>8. k \in Nat /\ b \in BOOLEAN
  BY <1>5, <1>7 DEF NodeOK
<1>9. nodes' = WithOpen(nodes, f, k, b)
  BY <1>2, <1>5, <1>6, <1>7 DEF WithOpen
<1>10. PICK p : pc' = [pc EXCEPT ![t] = p] /\ p \in {"unhide", "forget", "free"}
  BY <1>6 DEF AfterRelease
<1>11. Onwards(pc[t], p, req[t])
  BY <1>0, <1>10 DEF Onwards, Ahead
<1>12. \A j \in Ids : Opn(p, req[t], j) = 0
  BY <1>10, OpnNot DEF OpStage
<1>13. /\ k + Opn(pc[t], req[t], f) = nodes[f].open + Opn(p, req[t], f)
       /\ \A j \in Ids \ {f} : Opn(p, req[t], j) = Opn(pc[t], req[t], j)
  BY <1>2, <1>4, <1>5, <1>7, <1>12 DEF NodeOK
<1> QED
  BY <1>0, <1>2, <1>6, <1>8, <1>9, <1>10, <1>11, <1>13, QCount

----------------------------------------------------------------------------
\* Steps that move nodes, those of M: none of them is on a path that is
\* locked, and the other threads do not work with them.
Unheld(M) ==
    /\ M \subseteq Ids \ {Root}
    /\ \A j \in M : Users(nodes, HeldOf(req), j) = {}
    /\ \A j \in Ids \ M : Steady(nodes, nodes', j)
LocksStay ==
    /\ \A s \in HeldOf(req) : s[4] # 0 => nodes'[s[4]].nlookup > 0
    /\ \A j \in Ids : \/ nodes'[j].treelock = nodes[j].treelock
                      \/ nodes'[j].treelock = 0 /\ nodes[j].nlookup = 0
Spares(M, u) ==
    /\ Serving(pc[u], req[u]) /\ Shape(req[u]) \in Finders => req[u].entry \notin M
    /\ pc[u] \in Ahead /\ Removes(req[u]) =>
         \A c \in M : ~(At(nodes, c, req[u].ino, req[u].name) /\ klook[c] > 0)
    /\ pc[u] \in Ahead /\ req[u].op = "rename" =>
         \A c \in M : At(nodes', c, req[u].ino2, req[u].name2) => Newcomer(nodes', pc', req', klook', c)
KidsStay ==
    \A j \in Ids \ {Root} : Newcomer(nodes, pc, req, klook, j) => KidsOf(nodes', j) = {}
LEMMA UnheldUp ==
    ASSUME LInv, RInv, QInv, NEW M, Unheld(M), NEW s \in HeldOf(req), NEW j \in UpSet(nodes, s[3])
    PROVE  Steady(nodes, nodes', j) /\ j \in Ids
<1>0. case \in Cases /\ RefOK(nodes) /\ Acyclic(nodes) /\ LockOK(nodes, HeldOf(req))
  BY DEF LInv, Threading, RInv, QInv, QTree
<1>1. s[3] \in Ids
  BY <1>0 DEF LockOK, Slot, Rooted
<1>2. j \in Ids
  BY <1>0, <1>1, UpSetFacts
<1>3. j \notin M
  BY <1>0, IdFacts DEF Unheld, Users
<1> QED
  BY <1>2, <1>3 DEF Unheld
LEMMA LocksMoved ==
    ASSUME LInv, RInv, QInv, RInv', Acyclic(nodes'), NEW M, Unheld(M), LocksStay
    PROVE  LockOK(nodes', HeldOf(req))
<1>0. case \in Cases /\ RefOK(nodes) /\ RefOK(nodes') /\ Acyclic(nodes) /\ LockOK(nodes, HeldOf(req))
  BY DEF LInv, Threading, RInv, QInv, QTree
<1>1. ASSUME NEW s \in HeldOf(req)
      PROVE  /\ \A j \in UpSet(nodes, s[3]) : nodes'[j].parent = nodes[j].parent
             /\ s[4] # 0 => nodes'[s[4]].nlookup > 0
  BY UnheldUp DEF Steady, LocksStay
<1> QED
  BY <1>0, <1>1, LockKept DEF LocksStay
LEMMA QMoved ==
    ASSUME LInv, RInv, QInv, RInv', NEW t, NEW p, NEW r, Moves(t, p, r), Acyclic(nodes'), klook' = klook,
           NEW M, Unheld(M), LocksStay, KidsStay, \A u \in Threads \ {t} : Spares(M, u),
           HeldOf(req') = HeldOf(req), UsesLess(t, p, r), OwnPart(t, p, r)
    PROVE  QTree(nodes, pc, req, klook)'
<1>0. /\ pc'[t] = p /\ req'[t] = r /\ t \in Threads
      /\ \A u \in Threads \ {t} : pc'[u] = pc[u] /\ req'[u] = req[u]
  BY MovesFacts
<1>1. LockOK(nodes', HeldOf(req'))
  BY LocksMoved
<1>2. KeepsPaths(t)
  BY UnheldUp DEF KeepsPaths
<1>3. ASSUME NEW j \in Ids \ {Root}, Newcomer(nodes, pc, req, klook, j)
      PROVE  Newcomer(nodes', pc', req', klook', j)
  <2>1. klook'[j] = 0 /\ KidsOf(nodes', j) = {}
    BY <1>3 DEF Newcomer, KidsStay
  <2>2. \A v \in Threads : ~Uses(pc'[v], req'[v], j)
    BY <1>0, <1>3 DEF Newcomer, UsesLess
  <2> QED
    BY <2>1, <2>2 DEF Newcomer
<1>4. ASSUME NEW u \in Threads \ {t} PROVE KeepsSolo(nodes, nodes', klook, klook', pc[u], req[u])
  <2>1. ReqOK(req[u]) /\ Spares(M, u)
    BY RFacts
  <2>2. Serving(pc[u], req[u]) /\ Shape(req[u]) \in Finders /\ req[u].entry # 0 =>
          Steady(nodes, nodes', req[u].entry)
    BY <2>1 DEF ReqOK, Spares, Unheld
  <2>3. pc[u] \in Ahead /\ Removes(req[u]) =>
          \A c \in Ids \ {Root} : At(nodes, c, req[u].ino, req[u].name) /\ klook[c] > 0 =>
             Steady(nodes, nodes', c) /\ klook'[c] > 0
    BY <2>1 DEF Spares, Unheld
  <2> QED
    BY <2>2, <2>3 DEF KeepsSolo
<1>5. ASSUME NEW u \in Threads \ {t}, req[u].op = "rename", pc[u] \in Ahead
      PROVE  KeepsTarget(nodes, nodes', klook, req[u])
  <2>1. ASSUME NEW j \in Ids \ {Root}, At(nodes', j, req[u].ino2, req[u].name2)
        PROVE  \/ At(nodes, j, req[u].ino2, req[u].name2)
                    /\ (Newcomer(nodes, pc, req, klook, j) => Newcomer(nodes', pc', req', klook', j))
               \/ Newcomer(nodes', pc', req', klook', j)
    <3>1. CASE j \in M
      BY <1>5, <2>1, <3>1 DEF Spares
    <3>2. CASE j \notin M
      <4>1. At(nodes, j, req[u].ino2, req[u].name2)
        BY <2>1, <3>2 DEF Unheld, Steady, At
      <4> QED
        BY <1>3, <4>1
    <3> QED
      BY <3>1, <3>2
  <2> QED
    BY <2>1 DEF KeepsTarget
<1>6. KeepsOthers(t)
  BY <1>4, <1>5 DEF KeepsOthers
<1> QED
  BY <1>1, <1>2, <1>6, QFrame
\* Thread t itself, once it has done what moves nodes.
LEMMA OwnPath ==
    ASSUME LInv, RInv, QInv, RInv', NEW t \in Threads, NEW r, Cousin(req[t], r), SameHold(req[t], r), r.held,
           Acyclic(nodes'), NEW M, Unheld(M)
    PROVE  r.path = PathOf2(nodes', r)
<1>0. case \in Cases /\ RefOK(nodes) /\ RefOK(nodes') /\ Acyclic(nodes) /\ LockOK(nodes, HeldOf(req))
  BY DEF LInv, Threading, RInv, QInv, QTree
<1>1. req[t].held /\ req[t].path = r.path
  BY DEF SameHold
<1>2. HoldsTwo(req[t]) /\ req[t].ino \in Ids /\ (req[t].op \in TwoPathOps => req[t].ino2 \in Ids)
  BY <1>1, HoldsArgs
<1>3. /\ <<t, 1, req[t].ino, req[t].wnode>> \in HeldOf(req)
      /\ req[t].op \in TwoPathOps => <<t, 2, req[t].ino2, req[t].wnode2>> \in HeldOf(req)
  BY <1>0, <1>1, HeldRooted
<1>4. PICK x, y : x = <<t, 1, req[t].ino, req[t].wnode>> /\ y = <<t, 2, req[t].ino2, req[t].wnode2>>
  OBVIOUS
<1>5. x[3] = req[t].ino /\ y[3] = req[t].ino2
  BY <1>4
<1>6. \A s \in HeldOf(req) : \A j \in UpSet(nodes, s[3]) : Steady(nodes, nodes', j)
  BY UnheldUp
<1>7. /\ \A j \in UpSet(nodes, req[t].ino) : Steady(nodes, nodes', j)
      /\ req[t].ino2 # 0 => \A j \in UpSet(nodes, req[t].ino2) : Steady(nodes, nodes', j)
  BY <1>2, <1>3, <1>4, <1>5, <1>6, Zenon DEF HoldsTwo
<1>8. PathOf2(nodes', req[t]) = PathOf2(nodes, req[t])
  BY <1>0, <1>2, <1>7, PathKept DEF HoldsTwo
<1>9. req[t].path = PathOf2(nodes, req[t])
  BY <1>1 DEF QInv, QTree, Paths
<1>10. PathOf2(nodes', r) = PathOf2(nodes', req[t])
  BY CousinFacts
<1> QED
  BY <1>1, <1>8, <1>9, <1>10
EndsUp(t, p, r) ==
    /\ Cousin(req[t], r) /\ SameHold(req[t], r) /\ p \notin Ahead \cup {"release", "insert"}
    /\ r.killed = req[t].killed /\ (Serving(p, r) => Serving(pc[t], req[t]))
    /\ Serving(p, r) /\ Shape(r) \in Finders /\ r.entry # 0 => At(nodes', r.entry, EntryDir(r), EntryName(r))
    /\ Shape(r) # "forget" /\ (r.entry # 0 => r.n >= 1)
LEMMA OwnMoved ==
    ASSUME LInv, RInv, QInv, RInv', NEW t, NEW p, NEW r, Moves(t, p, r), Acyclic(nodes'), klook' = klook,
           NEW M, Unheld(M), EndsUp(t, p, r)
    PROVE  OwnPart(t, p, r) /\ UsesLess(t, p, r) /\ HeldOf(req') = HeldOf(req)
<1>0. t \in Threads /\ Cousin(req[t], r) /\ SameHold(req[t], r) /\ p \notin Ahead
  BY DEF Moves, EndsUp
<1>1. Shape(r) = Shape(req[t]) /\ Mutexes(r) = Mutexes(req[t]) /\ Solo(nodes, klook, pc[t], req[t])
  BY <1>0, CousinFacts DEF QInv, QTree, Solos
<1>2. Solo(nodes', klook', p, r)
  <2>1. Serving(p, r) => KnowsArgs(klook', r)
    BY <1>0, <1>1 DEF EndsUp, Solo, KnowsArgs, Cousin
  <2>2. r.killed => p \notin {"start", "wait"} /\ Shape(r) \in {"entry", "create", "open", "link"}
    BY <1>0, <1>1 DEF EndsUp, Solo, Ahead
  <2>3. r.op = "rename" => r.ino # r.ino2 \/ r.name # r.name2
    BY <1>0, <1>1 DEF Solo, Cousin
  <2> QED
    BY <1>0, <2>1, <2>2, <2>3 DEF EndsUp, Solo
<1>3. UsesLess(t, p, r)
  BY <1>0 DEF UsesLess, Uses, Active, EndsUp, SameHold, Cousin
<1>4. r.held => r.path = PathOf2(nodes', r)
  BY <1>0, OwnPath
<1>5. ASSUME Serving(p, r), NEW u \in Threads \ {t}, Serving(pc[u], req[u])
      PROVE  Mutexes(r) \cap Mutexes(req[u]) \subseteq {0}
  BY <1>0, <1>1, <1>5 DEF EndsUp, QInv, QTree, Apart
<1>6. HeldOf(req') = HeldOf(req)
  BY <1>0, HeldSame
<1> QED
  BY <1>0, <1>2, <1>3, <1>4, <1>5, <1>6 DEF OwnPart

\* What a node that loses its name deletes is not in use.
LEMMA NotBusy ==
    ASSUME case \in Cases, NEW ns, RefOK(ns), Acyclic(ns), NEW H, LockOK(ns, H), NEW i \in Ids \ {Root}
    PROVE  ~UnhashBad(ns, i)
<1> SUFFICES ASSUME UnhashBad(ns, i) PROVE FALSE
  OBVIOUS
<1>1. PICK p : p = ns[i].parent
  OBVIOUS
<1>2. ns[i].name # Null /\ ns[p].refctr = 1 /\ (ns[p].name # Null \/ ns[p].treelock # 0)
  BY <1>1 DEF UnhashBad, DeletesBusy
<1>3. p \in Ids /\ i \in KidsOf(ns, p)
  BY <1>1, <1>2 DEF RefOK, Named, Table, NodeOK, KidsOf
<1>4. PICK a : a = Cardinality(KidsOf(ns, p))
  OBVIOUS
<1>5. a \in Nat /\ a # 0
  BY <1>3, <1>4, KidsFinite, FS_EmptySet
<1>6. 1 = a + Looked(ns[p])
  BY <1>2, <1>3, <1>4 DEF RefOK, Counted
<1>7. ns[p].nlookup = 0
  BY <1>3, <1>5, <1>6 DEF Looked, RefOK, Table, NodeOK
<1>8. p # Root
  BY <1>7 DEF RefOK, Named
<1>9. ns[p].name = Null
  BY <1>3, <1>7, <1>8 DEF RefOK, Named
<1>10. ns[p].treelock = 0
  BY <1>3, <1>7, Unused
<1> QED
  BY <1>2, <1>9, <1>10
\* A request that has all the lookups of a node is the last to know it.
LEMMA LastHas ==
    ASSUME LInv, RInv, NEW t \in Threads, NEW i \in Ids \ {Root}, Carries(pc[t], req[t], i)
    PROVE  /\ nodes[i].nlookup >= req[t].n
           /\ nodes[i].nlookup = req[t].n =>
                klook[i] = 0 /\ \A u \in Threads \ {t} : Carries(pc[u], req[u], i) => ~(req[u].n >= 1)
<1>1. \A u \in Threads : req[u].n \in Nat
  BY DEF RInv, RStage, ReqOK
<1>2. PICK a, b : a = Cardinality(Flight(pc, req, i)) /\ b = Cardinality(Rows(pc, req, i, t))
  OBVIOUS
<1>3. a = b + req[t].n /\ b \in Nat
  <2>1. Load(pc[t], req[t], i) = req[t].n
    BY DEF Load
  <2>2. Cardinality(Rows(pc, req, i, t)) \in Nat
    BY <1>1, FlightSplit
  <2>3. Cardinality(Flight(pc, req, i)) = Cardinality(Rows(pc, req, i, t)) + Load(pc[t], req[t], i)
    BY <1>1, FlightSplit
  <2> QED
    BY <1>2, <2>1, <2>2, <2>3
<1>4. nodes[i].nlookup = klook[i] + a /\ klook[i] \in Nat
  BY <1>2 DEF RInv, FlightsOK
<1>5. nodes[i].nlookup >= req[t].n /\ (nodes[i].nlookup = req[t].n => klook[i] = 0 /\ b = 0)
  BY <1>1, <1>3, <1>4
<1>6. ASSUME b = 0, NEW u \in Threads \ {t}, Carries(pc[u], req[u], i), req[u].n >= 1 PROVE FALSE
  <2>1. IsFiniteSet(Rows(pc, req, i, t))
    <3>1. IsFiniteSet(Flight(pc, req, i))
      BY <1>1, FlightSplit
    <3>2. Rows(pc, req, i, t) \subseteq Flight(pc, req, i)
      BY DEF Rows
    <3> QED
      BY <3>1, <3>2, FS_Subset
  <2>2. Rows(pc, req, i, t) = {}
    BY <1>2, <1>6, <2>1, FS_EmptySet
  <2>3. PICK x : x = <<u, 1>>
    OBVIOUS
  <2>4. 1 \in 1 .. req[u].n
    BY <1>1, <1>6
  <2>5. x \in {u} \X (1 .. req[u].n)
    BY <2>3, <2>4
  <2>6. u \in {v \in Threads : Carries(pc[v], req[v], i)}
    BY <1>6
  <2>7. x \in Flight(pc, req, i)
    BY <2>5, <2>6, Zenon DEF Flight
  <2>8. x[1] # t
    BY <1>6, <2>3
  <2>9. x \in Rows(pc, req, i, t)
    BY <2>7, <2>8 DEF Rows
  <2> QED
    BY <2>2, <2>9
<1> QED
  BY <1>5, <1>6
\* forget_node: create goes on, everything else is over.
GivesBack(t, p, r) ==
    \/ p = "free" /\ Kin(req[t], r) /\ r.done = req[t].done /\ r.entry = 0 /\ Shape(r) # "forget"
    \/ p = "idle" /\ r = NoReq /\ ~req[t].held
LEMMA ForgetMoves ==
    ASSUME LInv, RInv, NEW t \in Threads, ForgetEnd(t), pc[t] \in {"forget", "fwait"}, case' = case
    PROVE  \E p, r : Moves(t, p, r) /\ GivesBack(t, p, r) /\ OpensAlike(pc[t], req[t], p, r)
<1>0. /\ Holding(pc[t], req[t]) /\ ReqOK(req[t]) /\ DOMAIN req = Threads
      /\ (pc[t] # "idle" => req[t].op \in DOMAIN fuse_path_ops)
  BY RFacts
<1>1. PICK p, r : /\ p = (IF req[t].op = "create" THEN "free" ELSE "idle")
                  /\ r = (IF req[t].op = "create" THEN [req[t] EXCEPT !.entry = 0] ELSE NoReq)
  OBVIOUS
<1>2. Moves(t, p, r)
  BY <1>0, <1>1 DEF Moves, ForgetEnd
<1>3. OpensAlike(pc[t], req[t], p, r)
  BY <1>1 DEF OpensAlike, OpStage
<1>4. CASE req[t].op = "create"
  <2>1. Kin(req[t], r) /\ r.done = req[t].done /\ r.entry = 0 /\ p = "free"
    BY <1>0, <1>1, <1>4, FormForgotten
  <2>2. Shape(r) # "forget"
    BY <1>0, <1>4, <2>1, KinFacts, ShapeNames DEF Shape
  <2> QED
    BY <1>2, <1>3, <2>1, <2>2 DEF GivesBack
<1>5. CASE req[t].op # "create"
  BY <1>0, <1>1, <1>2, <1>3, <1>5 DEF GivesBack, Holding
<1> QED
  BY <1>4, <1>5
LEMMA QForgetLess ==
    ASSUME LInv, RInv, QInv, RInv', NEW t \in Threads, ForgetEnd(t), pc[t] \in {"forget", "fwait"},
           nodes[req[t].entry].nlookup > req[t].n, req[t].entry \in Ids \ {Root}, req[t].n \in Nat,
           UNCHANGED <<klook, kopen, case>>
    PROVE  QInv'
<1>0. RefOK(nodes) /\ case \in Cases /\ DOMAIN nodes = Ids
  BY RFacts DEF RInv, RefOK, Table
<1>1. PICK p, r : Moves(t, p, r) /\ GivesBack(t, p, r) /\ OpensAlike(pc[t], req[t], p, r)
  BY ForgetMoves
<1>2. PICK i, k : i = req[t].entry /\ k = nodes[i].nlookup - req[t].n
  OBVIOUS
<1>3. i \in Ids \ {Root} /\ nodes[i].nlookup \in Nat /\ k \in Nat /\ k > 0 /\ nodes[i].nlookup > 0
  BY <1>0, <1>2 DEF RefOK, Table, NodeOK
<1>4. nodes' = WithLookups(nodes, i, k) /\ aborted' = aborted
  BY <1>2, <1>3 DEF ForgetEnd, ForgetDone, ForgetBad, WithLookups
<1>5. PICK ms : ms = nodes'
  OBVIOUS
<1>6. /\ \A j \in Ids \ {i} : ms[j] = nodes[j]
      /\ ms[i].nlookup = k /\ ms[i].parent = nodes[i].parent /\ ms[i].name = nodes[i].name
      /\ ms[i].refctr = nodes[i].refctr /\ Rest(nodes[i], ms[i])
  BY <1>0, <1>3, <1>4, <1>5, LookedOK
<1>7. DOMAIN ms = Ids
  BY <1>5 DEF RInv, RefOK, Table
<1>8. Placed /\ LocksAlike /\ OpenSame
  BY <1>0, <1>3, <1>5, <1>6, <1>7 DEF Placed, LocksAlike, OpenSame, Steady, Rest, Live
<1>9. CASE p = "idle" /\ r = NoReq /\ ~req[t].held
  BY <1>1, <1>4, <1>8, <1>9, QStill
<1>10. CASE p = "free" /\ Kin(req[t], r) /\ r.done = req[t].done /\ r.entry = 0 /\ Shape(r) # "forget"
  <2>1. Shape(req[t]) # "forget"
    BY <1>10, KinFacts
  <2>2. SameHold(req[t], r) /\ Cousin(req[t], r) /\ r.killed = req[t].killed
    BY <1>10 DEF Kin, Cousin
  <2>3. GoesOn(pc[t], req[t], p, r)
    BY <1>10, <2>1, <2>2 DEF GoesOn, HoldsOn, SameHold, Serving, Ahead
  <2> QED
    BY <1>1, <1>4, <1>8, <2>2, <2>3, QStill
<1> QED
  BY <1>1, <1>9, <1>10 DEF GivesBack
LEMMA QForgetLast ==
    ASSUME LInv, RInv, QInv, RInv', NEW t \in Threads, ForgetEnd(t), pc[t] \in {"forget", "fwait"},
           nodes[req[t].entry].nlookup = req[t].n, req[t].entry \in Ids \ {Root}, req[t].n \in Nat, req[t].n >= 1,
           ~req[t].done, nodes[req[t].entry].treelock = 0, UNCHANGED <<klook, kopen, case>>
    PROVE  QInv'
<1>0. RefOK(nodes) /\ case \in Cases /\ DOMAIN nodes = Ids /\ Acyclic(nodes) /\ LockOK(nodes, HeldOf(req))
      /\ RefOK(nodes') /\ DOMAIN nodes' = Ids
  BY RFacts DEF RInv, RefOK, Table, QInv, QTree
<1>1. PICK p, r : Moves(t, p, r) /\ GivesBack(t, p, r) /\ OpensAlike(pc[t], req[t], p, r)
  BY ForgetMoves
<1>2. PICK i : i = req[t].entry
  OBVIOUS
<1>3. i \in Ids \ {Root} /\ nodes[i].nlookup \in Nat /\ nodes[i].nlookup > 0
  BY <1>0, <1>2 DEF RefOK, Table, NodeOK
<1>4. aborted' = aborted
  <2>1. ~UnhashBad(nodes, i)
    BY <1>0, <1>3, NotBusy
  <2> QED
    BY <1>2, <2>1 DEF ForgetEnd, ForgetBad
<1>5. PICK ms : ms = nodes'
  OBVIOUS
<1>6. Table(ms) /\ Forgot(nodes, ms, i)
  <2>1. ms = unref_node(unhash_name([nodes EXCEPT ![i].nlookup = 0], i), i)
    BY <1>2, <1>3, <1>5 DEF ForgetEnd, ForgetDone
  <2> QED
    BY <1>0, <1>3, <2>1, ForgotIs
<1>7. \A j \in Ids : /\ ms[j].parent = (IF j = i THEN 0 ELSE nodes[j].parent)
                     /\ ms[j].name = (IF j = i THEN Null ELSE nodes[j].name)
                     /\ ms[j].nlookup = (IF j = i THEN 0 ELSE nodes[j].nlookup)
                     /\ Rest(nodes[j], ms[j]) \/ ms[j] = NoNode
  BY <1>6 DEF Forgot
<1>8. Users(nodes, HeldOf(req), i) = {} /\ Owners(HeldOf(req), i) = {}
  BY <1>0, <1>2, <1>3, Unlocked
<1>9. Acyclic(nodes')
  BY <1>0, <1>5, <1>7, AcyclicLess
<1>10. PICK M : M = {i}
  OBVIOUS
<1>11. Unheld(M)
  BY <1>3, <1>5, <1>7, <1>8, <1>10 DEF Unheld, Steady
<1>12. LocksStay
  <2>1. ASSUME NEW s \in HeldOf(req), s[4] # 0 PROVE nodes'[s[4]].nlookup > 0
    <3>1. s[4] \in Ids /\ nodes[s[4]].nlookup > 0 /\ s[4] # i
      BY <1>0, <1>8, <2>1 DEF LockOK, Slot, Owners
    <3> QED
      BY <1>5, <1>7, <3>1
  <2>2. ASSUME NEW j \in Ids
        PROVE  nodes'[j].treelock = nodes[j].treelock \/ (nodes'[j].treelock = 0 /\ nodes[j].nlookup = 0)
    <3>1. CASE j = i
      BY <1>2, <1>5, <1>7, <3>1, NoNodeFacts DEF Rest
    <3>2. CASE j # i
      BY <1>5, <1>7, <3>2, NoNodeFacts DEF Rest
    <3> QED
      BY <3>1, <3>2
  <2> QED
    BY <2>1, <2>2 DEF LocksStay
<1>13. KidsStay
  <2>1. ASSUME NEW j \in Ids PROVE KidsOf(nodes', j) \subseteq KidsOf(nodes, j)
    <3>1. j # 0
      BY <1>0, IdFacts
    <3> QED
      BY <1>5, <1>7, <3>1 DEF KidsOf
  <2> QED
    BY <2>1 DEF KidsStay, Newcomer
<1>14. klook[i] = 0 /\ \A u \in Threads \ {t} : Carries(pc[u], req[u], i) => ~(req[u].n >= 1)
  <2>1. Carries(pc[t], req[t], i)
    BY <1>2 DEF Carries
  <2> QED
    BY <1>2, <1>3, <2>1, LastHas
<1>15. ASSUME NEW u \in Threads \ {t} PROVE Spares(M, u)
  <2>1. Serving(pc[u], req[u]) => req[u].entry \notin M
    <3>1. req[u].entry # 0 => req[u].n >= 1
      BY DEF QInv, QTree, Solos, Solo
    <3>2. i # 0
      BY <1>0, <1>3, IdFacts
    <3> QED
      BY <1>10, <1>14, <3>1, <3>2 DEF Serving, Carries
  <2>2. \A c \in M : ~(klook[c] > 0)
    BY <1>10, <1>14
  <2>3. ASSUME pc[u] \in Ahead, req[u].op = "rename", NEW c \in M, At(nodes', c, req[u].ino2, req[u].name2)
        PROVE  FALSE
    <3>1. pc[u] # "idle"
      BY <2>3 DEF Ahead
    <3>2. Removes(req[u])
      BY <2>3, <3>1, RFacts, ShapeNames DEF Removes, Shape
    <3>3. req[u].ino2 \in Ids
      BY <2>3, <3>1, <3>2, RemoverMutex
    <3> QED
      BY <1>0, <1>3, <1>5, <1>7, <1>10, <2>3, <3>3, IdFacts DEF At
  <2> QED
    BY <2>1, <2>2, <2>3 DEF Spares
<1>16. OwnPart(t, p, r) /\ UsesLess(t, p, r) /\ HeldOf(req') = HeldOf(req)
  <2>1. CASE p = "idle" /\ r = NoReq /\ ~req[t].held
    <3>1. ~NoReq.held
      BY DEF NoReq
    <3> QED
      BY <1>1, <2>1, <3>1, OwnIdle, HeldSame
  <2>2. CASE p = "free" /\ Kin(req[t], r) /\ r.done = req[t].done /\ r.entry = 0 /\ Shape(r) # "forget"
    <3>1. EndsUp(t, p, r)
      <4>1. SameHold(req[t], r) /\ Cousin(req[t], r) /\ r.killed = req[t].killed
        BY <2>2 DEF Kin, Cousin
      <4> QED
        BY <2>2, <4>1 DEF EndsUp, Ahead, Serving
    <3> QED
      BY <1>1, <1>9, <1>11, <3>1, OwnMoved
  <2> QED
    BY <1>1, <2>1, <2>2 DEF GivesBack
<1>17. QTree(nodes, pc, req, klook)'
  BY <1>1, <1>9, <1>11, <1>12, <1>13, <1>15, <1>16, QMoved
<1>18. OpenSame
  <2>1. ASSUME NEW j \in Ids, Live(nodes', j) PROVE Live(nodes, j) /\ nodes'[j].open = nodes[j].open
    <3>1. ms[j] # NoNode
      BY <1>5, <2>1, NoNodeFacts DEF Live
    <3>2. ms[j].open = nodes[j].open
      BY <1>7, <3>1 DEF Rest
    <3>3. ms[j].refctr = (nodes[j].refctr - (IF j = i THEN 1 ELSE 0)) - (IF j = nodes[i].parent THEN 1 ELSE 0)
      BY <1>6 DEF Forgot
    <3>4. nodes[j].refctr \in Nat /\ ms[j].refctr > 0 /\ ms[j].refctr \in Nat
      BY <1>0, <1>5, <1>6, <2>1 DEF RefOK, Table, NodeOK, Live
    <3>5. nodes[j].refctr > 0
      BY <3>3, <3>4
    <3> QED
      BY <1>0, <1>5, <3>2, <3>5 DEF Live
  <2> QED
    BY <2>1 DEF OpenSame
<1>19. Opens(nodes, pc, req, klook, kopen)'
  BY <1>1, <1>18, OStill
<1> QED
  BY <1>4, <1>17, <1>19 DEF QInv
LEMMA QForget ==
    ASSUME LInv, RInv, QInv, RInv', NEW t \in Threads, forget_node(t) \/ forget_node_retry(t)
    PROVE  QInv'
<1>0. /\ Loaded(pc[t], req[t]) /\ case \in Cases /\ pc = [pc EXCEPT ![t] = pc[t]] /\ RefOK(nodes)
      /\ ReqOK(req[t])
  BY RFacts
<1>1. pc[t] \in {"forget", "fwait"} /\ UNCHANGED <<klook, kopen, case>>
  BY DEF forget_node, forget_node_retry, kvars
<1>2. /\ req[t].entry \in Ids \ {Root} /\ req[t].n \in Nat /\ req[t].n >= 1 /\ ~req[t].done
      /\ nodes[req[t].entry].nlookup \in Nat
  BY <1>0, <1>1 DEF Loaded, ReqOK, RefOK, Table, NodeOK
<1>3. nodes[req[t].entry].nlookup >= req[t].n
  <2>1. Carries(pc[t], req[t], req[t].entry)
    BY <1>1, <1>2 DEF Carries
  <2> QED
    BY <1>2, <2>1, LastHas
<1>4. ~ForgetLost(req[t])
  <2>1. Live(nodes, req[t].entry)
    BY <1>0, <1>2, <1>3, LiveFacts
  <2> QED
    BY <1>2, <1>3, <2>1 DEF ForgetLost
<1>5. CASE ForgetBusy(nodes, req[t])
  <2>1. pc' = [pc EXCEPT ![t] = "fwait"] /\ UNCHANGED <<nodes, req, aborted>>
    BY <1>0, <1>4, <1>5 DEF forget_node, forget_node_retry, ForgetQueue
  <2>2. Onwards(pc[t], "fwait", req[t]) /\ (OpStage("fwait", req[t]) <=> OpStage(pc[t], req[t]))
    BY <1>1 DEF Onwards, Ahead, OpStage
  <2> QED
    BY <1>1, <2>1, <2>2, NodesSame, QPlain
<1>6. CASE ~ForgetBusy(nodes, req[t])
  <2>1. ForgetEnd(t)
    BY <1>4, <1>6 DEF forget_node, forget_node_retry
  <2>2. CASE nodes[req[t].entry].nlookup > req[t].n
    BY <1>1, <1>2, <2>1, <2>2, QForgetLess
  <2>3. CASE nodes[req[t].entry].nlookup = req[t].n
    <3>1. nodes[req[t].entry].treelock = 0
      BY <1>6, <2>3 DEF ForgetBusy
    <3> QED
      BY <1>1, <1>2, <2>1, <2>3, <3>1, QForgetLast
  <2> QED
    BY <1>2, <1>3, <2>2, <2>3
<1> QED
  BY <1>5, <1>6
\* find_node: the thread goes on with the entry it has found.
LEMMA FindEnds ==
    ASSUME LInv, RInv, NEW t \in Threads, pc[t] = "locked", Shape(req[t]) \in Finders,
           NEW q \in {"found", "free"}, NEW i \in Ids \ {Root}, NEW r, r = WithEntry(req[t], i),
           At(nodes', i, EntryDir(req[t]), EntryName(req[t]))
    PROVE  EndsUp(t, q, r) /\ OpensAlike(pc[t], req[t], q, r)
<1>0. ReqOK(req[t]) /\ req[t].op \in DOMAIN fuse_path_ops
  BY RFacts
<1>1. Kin(req[t], r) /\ r.done = req[t].done /\ r.n = 1 /\ r.entry = i
  BY <1>0, FormFound
<1>2. Cousin(req[t], r) /\ SameHold(req[t], r) /\ r.killed = req[t].killed
  BY <1>1 DEF Kin, Cousin
<1>3. Shape(r) = Shape(req[t]) /\ EntryDir(r) = EntryDir(req[t]) /\ EntryName(r) = EntryName(req[t])
  BY <1>2, CousinFacts
<1>4. r.n >= 1
  BY <1>1
<1>5. EndsUp(t, q, r)
  BY <1>1, <1>2, <1>3, <1>4 DEF EndsUp, Ahead, Serving, Finders
<1>6. r.op # "release" /\ req[t].op # "release"
  BY <1>0, <1>2, ShapeNames DEF Cousin, Shape, Finders
<1>7. ~OpStage(q, r) /\ ~OpStage(pc[t], req[t])
  BY <1>6 DEF OpStage
<1> QED
  BY <1>5, <1>7 DEF OpensAlike
LEMMA QFindOld ==
    ASSUME LInv, RInv, QInv, RInv', NEW t \in Threads, pc[t] = "locked", Shape(req[t]) \in Finders,
           NEW q \in {"found", "free"}, NEW i \in Ids \ {Root}, NEW r, r = WithEntry(req[t], i), Moves(t, q, r),
           At(nodes, i, EntryDir(req[t]), EntryName(req[t])), nodes[i].nlookup > 0,
           nodes' = [nodes EXCEPT ![i].nlookup = @ + 1], UNCHANGED <<klook, kopen, aborted>>
    PROVE  QInv'
<1>0. case \in Cases /\ RefOK(nodes)
  BY RFacts
<1>1. PICK k : k = nodes[i].nlookup + 1
  OBVIOUS
<1>2. nodes' = WithLookups(nodes, i, k) /\ k \in Nat /\ k > 0
  BY <1>0, <1>1 DEF WithLookups, RefOK, Table, NodeOK
<1>3. PICK ns, ms : ns = nodes /\ ms = nodes'
  OBVIOUS
<1>4. /\ \A j \in Ids \ {i} : ms[j] = ns[j]
      /\ ms[i].nlookup = k /\ ms[i].parent = ns[i].parent /\ ms[i].name = ns[i].name
      /\ ms[i].refctr = ns[i].refctr /\ Rest(ns[i], ms[i])
  <2>1. RefOK(ns) /\ ms = WithLookups(ns, i, k) /\ ns[i].nlookup > 0
    BY <1>0, <1>2, <1>3
  <2> QED
    BY <1>0, <1>2, <2>1, LookedOK
<1>5. DOMAIN ns = Ids /\ DOMAIN ms = Ids
  BY <1>0, <1>3 DEF RefOK, Table, RInv
<1>6. Placed
  BY <1>3, <1>4 DEF Placed, Steady
<1>7. LocksAlike
  BY <1>2, <1>3, <1>4 DEF LocksAlike, Rest
<1>8. OpenSame
  BY <1>3, <1>4, <1>5 DEF OpenSame, Rest, Live
<1>9. At(nodes', i, EntryDir(req[t]), EntryName(req[t]))
  BY <1>3, <1>4 DEF At
<1>10. EndsUp(t, q, r) /\ OpensAlike(pc[t], req[t], q, r)
  BY <1>9, FindEnds
<1>11. Acyclic(nodes') /\ LockOK(nodes', HeldOf(req))
  BY <1>6, <1>7, PlacedFacts, LockSame
<1>12. PICK M : M = {}
  OBVIOUS
<1>13. Unheld(M)
  BY <1>6, <1>12 DEF Unheld, Placed
<1>14. OwnPart(t, q, r) /\ UsesLess(t, q, r) /\ HeldOf(req') = HeldOf(req)
  BY <1>10, <1>11, <1>13, OwnMoved
<1> QED
  BY <1>6, <1>8, <1>10, <1>11, <1>14, QLocks
LEMMA OpenersLive ==
    ASSUME LInv, RInv, QInv, NEW u \in Threads, NEW i \in Ids, Opener(pc[u], req[u], i)
    PROVE  Live(nodes, i) /\ nodes[i].nlookup > 0
<1>1. CASE Opening(pc[u], req[u], i)
  BY <1>1, FileLive DEF Opening
<1>2. CASE Closing(pc[u], req[u], i)
  <2>1. pc[u] # "idle" /\ req[u].op = "release" /\ req[u].ino = i
    BY <1>2 DEF Closing
  <2>2. Shape(req[u]) = "release"
    BY <2>1, RFacts, ShapeNames DEF Shape
  <2> QED
    BY <2>1, <2>2, Serves
<1> QED
  BY <1>1, <1>2 DEF Opener
LEMMA QMade ==
    ASSUME LInv, RInv, QInv, RInv', NEW t \in Threads, NEW q, NEW r, Moves(t, q, r), UsesLess(t, q, r),
           NEW i \in Ids, ~Live(nodes, i), NEW p \in Ids, Uses(pc[t], req[t], p), NEW n,
           NewIn(nodes, nodes', i, p, n), klook' = klook
    PROVE  /\ Acyclic(nodes') /\ Unheld({i}) /\ LocksStay /\ KidsStay /\ klook[i] = 0
           /\ \A u \in Threads \ {t} : Spares({i}, u)
<1>0. case \in Cases /\ RefOK(nodes) /\ Acyclic(nodes) /\ LockOK(nodes, HeldOf(req))
  BY RFacts DEF QInv, QTree
<1>1. i # Root /\ nodes[i].nlookup = 0 /\ KidsOf(nodes, i) = {} /\ nodes[i].parent = 0
  BY <1>0, DeadFacts
<1>2. PICK ms : ms = nodes'
  OBVIOUS
<1>3. /\ ms[i].parent = p /\ ms[i].treelock = 0
      /\ \A j \in Ids \ {i} : /\ ms[j].parent = nodes[j].parent /\ ms[j].name = nodes[j].name
                              /\ ms[j].treelock = nodes[j].treelock /\ ms[j].nlookup = nodes[j].nlookup
  BY <1>2 DEF NewIn, Rest
<1>4. p # i
  BY UsesLive
<1>5. Acyclic(nodes')
  <2>1. i \notin UpSet(nodes, p)
    BY <1>0, <1>1, <1>4, UpSetFacts
  <2>2. \A j \in Ids \ {Root, i} : ms[j].parent = nodes[j].parent \/ ms[j].parent = 0
    BY <1>3
  <2>3. Acyclic(ms)
    BY <1>0, <1>3, <2>1, <2>2, AcyclicMove
  <2> QED
    BY <1>2, <2>3
<1>6. Users(nodes, HeldOf(req), i) = {} /\ Owners(HeldOf(req), i) = {}
  BY <1>0, <1>1, Unused
<1>7. Unheld({i})
  BY <1>1, <1>2, <1>3, <1>6 DEF Unheld, Steady
<1>8. LocksStay
  <2>1. ASSUME NEW s \in HeldOf(req), s[4] # 0 PROVE nodes'[s[4]].nlookup > 0
    <3>1. s[4] \in Ids /\ nodes[s[4]].nlookup > 0 /\ s[4] # i
      BY <1>0, <1>6, <2>1 DEF LockOK, Slot, Owners
    <3> QED
      BY <1>2, <1>3, <3>1
  <2>2. \A j \in Ids : nodes'[j].treelock = nodes[j].treelock \/ (nodes'[j].treelock = 0 /\ nodes[j].nlookup = 0)
    BY <1>1, <1>2, <1>3
  <2> QED
    BY <2>1, <2>2 DEF LocksStay
<1>9. \A j \in Ids \ {p} : KidsOf(nodes', j) = KidsOf(nodes, j)
  <2>1. \A j \in Ids : j # 0
    BY <1>0, IdFacts
  <2> QED
    BY <1>1, <1>2, <1>3, <2>1 DEF KidsOf
<1>10. KidsStay
  BY <1>9 DEF KidsStay, Newcomer
<1>11. klook[i] = 0
  <2>1. nodes[i].nlookup = klook[i] + Cardinality(Flight(pc, req, i))
    BY <1>1 DEF RInv, FlightsOK
  <2>2. klook[i] \in Nat /\ Cardinality(Flight(pc, req, i)) \in Nat
    BY FlightNat DEF RInv
  <2>3. \A a, b \in Nat : a + b = 0 => a = 0
    OBVIOUS
  <2> QED
    BY <1>1, <2>1, <2>2, <2>3
<1>12. Newcomer(nodes', pc', req', klook', i)
  <2>1. ASSUME NEW u \in Threads, Uses(pc'[u], req'[u], i) PROVE FALSE
    <3>1. Uses(pc[u], req[u], i)
      <4>1. CASE u = t
        BY <2>1, <4>1, MovesFacts DEF UsesLess
      <4>2. CASE u # t
        BY <2>1, <4>2, MovesFacts
      <4> QED
        BY <4>1, <4>2
    <3> QED
      BY <3>1, UsesLive
  <2>2. KidsOf(nodes', i) = {}
    BY <1>1, <1>4, <1>9
  <2> QED
    BY <1>11, <2>1, <2>2 DEF Newcomer
<1>13. ASSUME NEW u \in Threads \ {t} PROVE Spares({i}, u)
  <2>1. ASSUME Serving(pc[u], req[u]), req[u].entry = i PROVE FALSE
    <3>1. i # 0
      BY <1>0, IdFacts
    <3>2. req[u].n >= 1
      BY <2>1, <3>1 DEF QInv, QTree, Solos, Solo
    <3>3. Carries(pc[u], req[u], i)
      BY <2>1 DEF Serving, Carries
    <3>4. nodes[i].nlookup >= req[u].n /\ req[u].n \in Nat
      BY <1>1, <3>3, LastHas, RFacts DEF ReqOK
    <3> QED
      BY <1>1, <3>2, <3>4
  <2>2. ~(klook[i] > 0)
    BY <1>11
  <2> QED
    BY <1>12, <2>1, <2>2 DEF Spares
<1> QED
  BY <1>5, <1>7, <1>8, <1>10, <1>11, <1>13
LEMMA EndsUses ==
    ASSUME NEW t, NEW q, NEW r, EndsUp(t, q, r)
    PROVE  UsesLess(t, q, r)
BY DEF EndsUp, UsesLess, Uses, Active, Cousin, SameHold
LEMMA QFindNew ==
    ASSUME LInv, RInv, QInv, RInv', NEW t \in Threads, pc[t] = "locked", Shape(req[t]) \in Finders, req[t].held,
           NEW q \in {"found", "free"}, NEW i \in Ids, ~Live(nodes, i), NEW r, r = WithEntry(req[t], i),
           Moves(t, q, r), NewIn(nodes, nodes', i, EntryDir(req[t]), EntryName(req[t])),
           UNCHANGED <<klook, kopen, aborted>>
    PROVE  QInv'
<1>0. case \in Cases /\ RefOK(nodes) /\ i \in Ids \ {Root}
  BY RFacts DEF NewIn
<1>1. EntryDir(req[t]) \in Ids /\ Uses(pc[t], req[t], EntryDir(req[t]))
  BY DirMutex DEF Uses, Active, EntryDir
<1>2. At(nodes', i, EntryDir(req[t]), EntryName(req[t]))
  BY DEF NewIn, At
<1>3. EndsUp(t, q, r) /\ OpensAlike(pc[t], req[t], q, r)
  BY <1>0, <1>2, FindEnds
<1>4. UsesLess(t, q, r)
  BY <1>3, EndsUses
<1>5. /\ Acyclic(nodes') /\ Unheld({i}) /\ LocksStay /\ KidsStay /\ klook[i] = 0
      /\ \A u \in Threads \ {t} : Spares({i}, u)
  BY <1>1, <1>4, QMade
<1>6. OwnPart(t, q, r) /\ HeldOf(req') = HeldOf(req)
  BY <1>3, <1>5, OwnMoved
<1>7. QTree(nodes, pc, req, klook)'
  BY <1>4, <1>5, <1>6, QMoved
<1>8. ~(kopen[i] > 0)
  BY <1>0, <1>5, KnownLive DEF QInv, Opens
<1>9. Openers(pc', req', i) = {}
  <2>1. ASSUME NEW u \in Threads, Opener(pc'[u], req'[u], i) PROVE FALSE
    <3>1. CASE u = t
      <4>1. Opn(q, r, i) = Opn(pc[t], req[t], i) /\ Opener(q, r, i)
        BY <1>3, <2>1, <3>1, OpenerSame, MovesFacts
      <4>2. Opener(pc[t], req[t], i)
        BY <4>1 DEF Opn
      <4> QED
        BY <4>2, OpenersLive
    <3>2. CASE u # t
      BY <2>1, <3>2, MovesFacts, OpenersLive
    <3> QED
      BY <3>1, <3>2
  <2> QED
    BY <2>1 DEF Openers
<1>10. ASSUME NEW j \in Ids PROVE Opened(t, q, r, j)
  <2>1. Opn(q, r, j) = Opn(pc[t], req[t], j)
    BY <1>3, OpenerSame
  <2>2. kopen[j] \in Nat /\ (kopen[j] > 0 => KnownIn(klook, j))
    BY DEF QInv, Opens
  <2>3. CASE j = i
    <3>1. nodes'[i].open = 0 /\ kopen[i] = 0
      BY <1>8, <2>2, <2>3 DEF NewIn
    <3> QED
      BY <1>9, <2>2, <2>3, <3>1 DEF Opened, KnownIn
  <2>4. CASE j # i
    <3>1. nodes'[j].open = nodes[j].open /\ (Live(nodes', j) => Live(nodes, j))
      BY <2>4 DEF NewIn, Rest, LiveSet
    <3> QED
      BY <2>1, <2>2, <3>1 DEF Opened, KnownIn
  <2> QED
    BY <2>3, <2>4
<1>11. Opens(nodes, pc, req, klook, kopen)'
  <2>1. kopen' \in [Ids -> Nat]
    BY DEF QInv, Opens
  <2> QED
    BY <1>10, <2>1, OMoves
<1> QED
  BY <1>7, <1>11 DEF QInv
LEMMA QLookup ==
    ASSUME LInv, RInv, QInv, RInv', NEW t \in Threads, lookup_path(t)
    PROVE  QInv'
<1>0. /\ Loaded(pc[t], req[t]) /\ Holding(pc[t], req[t]) /\ case \in Cases /\ ReqOK(req[t]) /\ RefOK(nodes)
      /\ DOMAIN req = Threads /\ (pc[t] # "idle" => Args(req[t]) /\ req[t].op \in DOMAIN fuse_path_ops)
  BY RFacts
<1>1. pc[t] = "locked" /\ Shape(req[t]) \in {"entry", "link", "create"} /\ UNCHANGED <<klook, kopen, case>>
  BY DEF lookup_path
<1>2. Shape(req[t]) \in Finders /\ req[t].held /\ Maker(pc[t], req[t])
  BY <1>0, <1>1 DEF Holding, PathErr, Maker, Finders
<1>3. PICK p, n, old, a : /\ p = EntryDir(req[t]) /\ n = EntryName(req[t])
                          /\ old = lookup_node(nodes, p, n) /\ a = next_id(nodes, ctr)
  OBVIOUS
<1>4. p \in Ids /\ n # Null /\ Live(nodes, p)
  <2>1. p \in Ids /\ n # Null /\ Uses(pc[t], req[t], p)
    BY <1>1, <1>2, <1>3, DirMutex DEF Uses, Active, EntryDir
  <2> QED
    BY <2>1, UsesLive
<1>5. ~NoParent(req[t])
  BY <1>3, <1>4 DEF NoParent
<1>6. \/ /\ pc' = [pc EXCEPT ![t] = "free"] /\ UNCHANGED <<nodes, req, aborted>>
      \/ /\ find_node(t) /\ aborted' = aborted
         /\ pc' = [pc EXCEPT ![t] = IF req[t].op = "create" THEN "found" ELSE "free"]
  BY <1>5 DEF lookup_path
<1>7. CASE pc' = [pc EXCEPT ![t] = "free"] /\ UNCHANGED <<nodes, req, aborted>>
  <2>1. req[t].op # "release"
    BY <1>0, <1>1, ShapeNames DEF Shape
  <2>2. Onwards(pc[t], "free", req[t]) /\ (OpStage("free", req[t]) <=> OpStage(pc[t], req[t]))
    BY <1>1, <2>1 DEF Onwards, OpStage, Ahead
  <2> QED
    BY <1>1, <1>7, <2>2, NodesSame, QPlain
<1>8. CASE /\ find_node(t) /\ aborted' = aborted
           /\ pc' = [pc EXCEPT ![t] = IF req[t].op = "create" THEN "found" ELSE "free"]
  <2>1. PICK i : i = IF old # 0 THEN old ELSE a.ctr
    OBVIOUS
  <2>2. PICK q, r : /\ q = (IF req[t].op = "create" THEN "found" ELSE "free")
                    /\ r = WithEntry(req[t], i)
    OBVIOUS
  <2>3. Moves(t, q, r) /\ q \in {"found", "free"}
    BY <1>0, <1>1, <1>3, <1>8, <2>1, <2>2 DEF Moves, find_node, WithEntry
  <2>4. CASE old # 0
    <3>1. nodes' = [nodes EXCEPT ![i].nlookup = @ + 1]
      BY <1>3, <1>8, <2>1, <2>4 DEF find_node
    <3>2. i \in Ids \ {Root} /\ nodes[i].parent = p /\ nodes[i].name = n
      BY <1>0, <1>3, <1>4, <2>1, <2>4, LookupIs
    <3>3. nodes[i].nlookup > 0
      BY <1>0, <1>4, <3>2, IdFacts DEF RefOK, Named
    <3>4. At(nodes, i, EntryDir(req[t]), EntryName(req[t]))
      BY <1>3, <3>2 DEF At
    <3> QED
      BY <1>1, <1>2, <1>8, <2>2, <2>3, <3>1, <3>2, <3>3, <3>4, QFindOld
  <2>5. CASE old = 0
    <3>1. nodes' = hash_name(WithNode(nodes, i), i, p, n)
      BY <1>3, <1>8, <2>1, <2>5 DEF find_node, WithNode, Made
    <3>2. i \in Ids /\ ~Live(nodes, i)
      <4>1. ctr \in 0 .. IdSpace - 1
        BY DEF RInv, Numbered
      <4>2. Cardinality(LiveSet(nodes)) <= IdSpace - 3
        BY <1>2, RoomTight
      <4> QED
        BY <1>0, <1>3, <2>1, <2>5, <4>1, <4>2, NextIs
    <3>3. NewIn(nodes, nodes', i, p, n)
      <4>1. PICK ns, ms : ns = nodes /\ ms = nodes'
        OBVIOUS
      <4>2. /\ RefOK(ns) /\ ~Live(ns, i) /\ Live(ns, p) /\ lookup_node(ns, p, n) = 0
            /\ ms = hash_name(WithNode(ns, i), i, p, n)
        BY <1>0, <1>3, <1>4, <2>5, <3>1, <3>2, <4>1
      <4>3. NewIn(ns, ms, i, p, n)
        BY <1>0, <1>4, <3>2, <4>2, MadeNode
      <4> QED
        BY <4>1, <4>3
    <3>4. NewIn(nodes, nodes', i, EntryDir(req[t]), EntryName(req[t]))
      BY <1>3, <3>3
    <3> QED
      BY <1>1, <1>2, <1>8, <2>2, <2>3, <3>2, <3>4, QFindNew
  <2> QED
    BY <2>4, <2>5
<1> QED
  BY <1>6, <1>7, <1>8
\* The kernel.  A request that is given up has its paths, or is done with
\* them.
LEMMA QGiveUp ==
    ASSUME LInv, RInv, QInv, RInv', NEW t \in Threads, KernelGiveUp(t), ~case.queued
    PROVE  QInv'
<1>0. ReqOK(req[t]) /\ pc = [pc EXCEPT ![t] = pc[t]] /\ DOMAIN req = Threads
  BY RFacts
<1>1. /\ pc[t] # "idle" /\ Shape(req[t]) \in {"entry", "create", "open", "link"} /\ pc[t] \notin {"start", "wait"}
      /\ req' = [req EXCEPT ![t].killed = TRUE] /\ pc' = pc
  BY DEF KernelGiveUp, InService
<1>2. UNCHANGED <<nodes, klook, kopen, case, aborted>>
  BY DEF KernelGiveUp, fvars, kvars
<1>3. PICK r : r = [req[t] EXCEPT !.killed = TRUE]
  OBVIOUS
<1>4. Alike(req[t], r) /\ SameHold(req[t], r) /\ r.killed = TRUE
  BY <1>0, <1>3, FormKilled
<1>5. Moves(t, pc[t], r)
  BY <1>0, <1>1, <1>2, <1>3 DEF Moves
<1>6. Cousin(req[t], r) /\ r.entry = req[t].entry /\ r.n = req[t].n /\ Shape(r) = Shape(req[t])
  BY <1>4 DEF Alike, Cousin, Shape
<1>7. /\ req[t].op = "open" /\ pc[t] = "release" => req[t].held
      /\ pc[t] = "insert" /\ req[t].op = "setlk" => ~req[t].held
  BY DEF QInv, QTree, Solos, Solo
<1>8. GoesOn(pc[t], req[t], pc[t], r)
  BY <1>1, <1>4, <1>6, <1>7 DEF GoesOn, HoldsOn, SameHold, Serving, Cousin
<1>9. OpensAlike(pc[t], req[t], pc[t], r)
  BY <1>6 DEF OpensAlike, OpStage, Cousin
<1>10. Placed /\ LocksAlike /\ OpenSame
  BY <1>2, NodesSame
<1> QED
  BY <1>2, <1>4, <1>5, <1>8, <1>9, <1>10, QStill
LEMMA QKernelForget ==
    ASSUME LInv, RInv, QInv, RInv', NEW i \in Ids, KernelForget(i)
    PROVE  QInv'
<1>0. CanSend /\ i # Root /\ klook[i] > 0 /\ kopen[i] = 0 /\ case \in Cases /\ klook \in [Ids -> Nat]
  BY DEF KernelForget, LInv, Threading, RInv
<1>1. PICK t \in Threads : t = Taker /\ pc[t] = "idle"
  BY <1>0, TakerIdle
<1>2. PICK k \in Nat : k = klook[i]
  BY <1>0
<1>3. PICK r : r = [NoReq EXCEPT !.op = "forget", !.entry = i, !.n = k]
  OBVIOUS
<1>4. /\ pc' = [pc EXCEPT ![t] = "forget"] /\ req' = [req EXCEPT ![t] = r]
      /\ klook' = [klook EXCEPT ![i] = 0] /\ UNCHANGED <<nodes, kopen, aborted, case>>
  BY <1>1, <1>2, <1>3 DEF KernelForget, fvars
<1>5. /\ r.op = "forget" /\ r.entry = i /\ r.n = k /\ ~r.held /\ ~r.done /\ ~r.killed
      /\ r.ino = 0 /\ r.ino2 = 0 /\ r.victim = 0
  BY <1>3 DEF NoReq
<1>6. Shape(r) = "forget" /\ i # 0
  BY <1>0, <1>5, ShapeOf, IdFacts DEF Shape
<1>7. Moves(t, "forget", r)
  BY <1>1, <1>4 DEF Moves
<1>8. klook'[i] = 0 /\ \A j \in Ids \ {i} : klook'[j] = klook[j]
  BY <1>0, <1>4
<1>9. req[t] = NoReq /\ ~NoReq.held
  BY <1>1, RFacts DEF RStage, NoReq
<1>10. Placed /\ LocksAlike /\ OpenSame
  BY <1>4, NodesSame
<1>11. Acyclic(nodes') /\ KeepsPaths(t) /\ LockOK(nodes', HeldOf(req'))
  BY <1>5, <1>7, <1>9, <1>10, PlacedFacts, LockSame, HeldSame
<1>12. ASSUME NEW u \in Threads, Serving(pc[u], req[u]) PROVE i \notin Refers(req[u])
  BY <1>12 DEF KernelForget, InService, Serving
<1>13. ASSUME NEW u \in Threads \ {t} PROVE KeepsSolo(nodes, nodes', klook, klook', pc[u], req[u])
  <2>1. ASSUME Serving(pc[u], req[u]), KnowsArgs(klook, req[u]) PROVE KnowsArgs(klook', req[u])
    <3>1. req[u].ino # i /\ req[u].ino2 # i /\ req[u].victim # i
      BY <1>6, <1>12, <2>1 DEF Refers
    <3>2. req[u].ino \in Ids \cup {0} /\ req[u].ino2 \in Ids \cup {0} /\ req[u].victim \in Ids \cup {0}
      BY <2>1, RFacts DEF ReqOK, KnowsArgs
    <3> QED
      BY <1>8, <2>1, <3>1, <3>2 DEF KnowsArgs, KnownIn
  <2>2. ASSUME pc[u] \in Ahead, Removes(req[u]), NEW c \in Ids \ {Root}, At(nodes, c, req[u].ino, req[u].name),
               klook[c] > 0
        PROVE  klook'[c] > 0
    <3>1. pc[u] # "idle"
      BY <2>2 DEF Ahead
    <3>2. Serving(pc[u], req[u]) /\ req[u].ino \in Ids
      BY <2>2, <3>1, RemoverMutex
    <3>3. lookup_node(nodes, req[u].ino, req[u].name) = c
      BY <2>2, <3>2, RFacts, LookupIs DEF At
    <3>4. c # i
      BY <1>6, <1>12, <3>2, <3>3 DEF Refers
    <3> QED
      BY <1>8, <2>2, <3>4
  <2>3. \A j : Steady(nodes, nodes', j)
    BY <1>4 DEF Steady
  <2> QED
    BY <2>1, <2>2, <2>3 DEF KeepsSolo
<1>14. ASSUME NEW u \in Threads \ {t} PROVE KeepsTarget(nodes, nodes', klook, req[u])
  <2>1. ASSUME NEW j \in Ids \ {Root}, Newcomer(nodes, pc, req, klook, j)
        PROVE  Newcomer(nodes', pc', req', klook', j)
    <3>1. klook'[j] = 0
      BY <1>8, <2>1 DEF Newcomer
    <3>2. KidsOf(nodes', j) = {}
      BY <1>4, <2>1 DEF Newcomer
    <3>3. ASSUME NEW v \in Threads, Uses(pc'[v], req'[v], j) PROVE FALSE
      <4>1. CASE v = t
        <5>1. j # 0
          BY <1>0, IdFacts
        <5> QED
          BY <1>5, <1>7, <3>3, <4>1, <5>1, MovesFacts DEF Uses
      <4>2. CASE v # t
        BY <1>7, <2>1, <3>3, <4>2, MovesFacts DEF Newcomer
      <4> QED
        BY <4>1, <4>2
    <3> QED
      BY <3>1, <3>2, <3>3 DEF Newcomer
  <2> QED
    BY <1>4, <2>1 DEF KeepsTarget
<1>15. KeepsOthers(t)
  BY <1>13, <1>14 DEF KeepsOthers
<1>16. OwnPart(t, "forget", r)
  <2>1. Solo(nodes', klook', "forget", r)
    <3>1. KnowsArgs(klook', r)
      BY <1>5 DEF KnowsArgs, KnownIn
    <3>2. r.n >= 1
      BY <1>0, <1>2, <1>5
    <3> QED
      BY <1>5, <1>6, <3>1, <3>2 DEF Solo, Finders, Ahead
  <2>2. Mutexes(r) = {}
    BY <1>6 DEF Mutexes
  <2> QED
    BY <1>5, <2>1, <2>2 DEF OwnPart
<1>17. QTree(nodes, pc, req, klook)'
  BY <1>7, <1>11, <1>15, <1>16, QFrame
<1>18. OpensAlike(pc[t], req[t], "forget", r)
  BY <1>1, <1>5 DEF OpensAlike, OpStage
<1>19. ASSUME NEW j \in Ids PROVE Opened(t, "forget", r, j)
  <2>1. Opn("forget", r, j) = Opn(pc[t], req[t], j)
    BY <1>18, OpenerSame
  <2>2. kopen[j] \in Nat /\ (kopen[j] > 0 => KnownIn(klook, j))
    BY DEF QInv, Opens
  <2>3. kopen'[j] > 0 => KnownIn(klook', j)
    BY <1>0, <1>4, <1>8, <2>2 DEF KnownIn
  <2> QED
    BY <1>4, <2>1, <2>2, <2>3 DEF Opened
<1>20. Opens(nodes, pc, req, klook, kopen)'
  <2>1. kopen' \in [Ids -> Nat]
    BY <1>4 DEF QInv, Opens
  <2> QED
    BY <1>7, <1>19, <2>1, OMoves
<1> QED
  BY <1>4, <1>17, <1>20 DEF QInv
\* What the kernel knows of a request that makes sense.
LEMMA SensibleIs ==
    ASSUME case \in Cases, RefOK(nodes), NEW op \in case.sent, NEW r \in Requests(op), Sensible(r), op # "forget"
    PROVE  /\ KnowsArgs(klook, r) /\ (Removes(r) => Source(nodes, klook, r))
           /\ op = "rename" => r.ino # r.ino2 \/ r.name # r.name2
           /\ op = "release" => kopen[r.ino] > 0
<1>0. op \in DOMAIN fuse_path_ops
  BY TreeAssumption
<1>1. Asks(r, op) /\ Args(r) /\ r.ino \in Ids
  BY RequestIs
<1>2. r.victim = IF fuse_path_ops[op] \in {"unlink", "rmdir"} THEN lookup_node(nodes, r.ino, r.name)
                 ELSE IF fuse_path_ops[op] = "rename" THEN lookup_node(nodes, r.ino2, r.name2) ELSE 0
  BY RequestIs
<1>3. r.op = op /\ ~r.held /\ Shape(r) = fuse_path_ops[op] /\ Shape(r) # "forget"
  BY <1>0, <1>1, ShapeNames DEF Asks, Shape
<1>4. /\ Shape(r) = "link" <=> op = "link"
      /\ Shape(r) = "rename" <=> op = "rename"
      /\ Shape(r) = "release" <=> op = "release"
  BY <1>0, <1>3, ShapeNames
<1>5. PICK c, d : c = lookup_node(nodes, r.ino, r.name) /\ d = lookup_node(nodes, r.ino2, r.name2)
  OBVIOUS
<1>6. /\ Known(r.ino)
      /\ Shape(r) = "release" => kopen[r.ino] > 0
      /\ Shape(r) \in {"unlink", "rmdir"} => KnownAt(r.ino, r.name)
      /\ Shape(r) = "link" => Alive(r.ino2)
      /\ Shape(r) = "rename" => Alive(r.ino2) /\ KnownAt(r.ino, r.name) /\ c # d /\ (d # 0 => Known(d))
  BY <1>5 DEF Sensible
<1>7. c \in (Ids \ {Root}) \cup {0} /\ (c # 0 => At(nodes, c, r.ino, r.name))
  BY <1>1, <1>5, LookupIs DEF At
<1>8. Shape(r) \in {"unlink", "rmdir", "rename"} => c # 0 /\ Known(c)
  BY <1>5, <1>6 DEF KnownAt
<1>9. KnownIn(klook, r.ino)
  BY <1>6 DEF Known, KnownIn
<1>10. KnownIn(klook, r.ino2)
  BY <1>1, <1>3, <1>4, <1>6 DEF Args, TwoPathOps, Alive, Known, KnownIn
<1>11. KnownIn(klook, r.victim) /\ r.victim \in Ids \cup {0}
  <2>1. CASE Shape(r) \in {"unlink", "rmdir"}
    BY <1>2, <1>3, <1>5, <1>7, <1>8, <2>1 DEF Known, KnownIn
  <2>2. CASE Shape(r) = "rename"
    <3>1. r.ino2 \in Ids
      BY <1>1, <1>3, <1>4, <2>2 DEF Args, TwoPathOps
    <3>2. d \in Ids \cup {0}
      BY <1>5, <3>1, LookupIs
    <3> QED
      BY <1>2, <1>3, <1>5, <1>6, <2>2, <3>2 DEF Known, KnownIn
  <2>3. CASE Shape(r) \notin {"unlink", "rmdir", "rename"}
    BY <1>2, <1>3, <2>3 DEF KnownIn
  <2> QED
    BY <2>1, <2>2, <2>3
<1>12. Removes(r) => Source(nodes, klook, r)
  <2>1. ASSUME Removes(r) PROVE c \in Ids \ {Root} /\ At(nodes, c, r.ino, r.name) /\ klook[c] > 0
    BY <1>7, <1>8, <2>1 DEF Removes, Known
  <2> QED
    BY <1>3, <2>1 DEF Source
<1>13. op = "rename" => r.ino # r.ino2 \/ r.name # r.name2
  BY <1>4, <1>5, <1>6
<1> QED
  BY <1>4, <1>6, <1>9, <1>10, <1>11, <1>12, <1>13 DEF KnowsArgs
LEMMA QSend ==
    ASSUME LInv, RInv, QInv, RInv', NEW op, KernelSend(op)
    PROVE  QInv'
<1>0. CanSend /\ op \in case.sent /\ op # "forget" /\ case \in Cases /\ RefOK(nodes) /\ klook \in [Ids -> Nat]
  BY DEF KernelSend, LInv, Threading, RInv
<1>1. PICK t \in Threads : t = Taker /\ pc[t] = "idle"
  BY <1>0, TakerIdle
<1>2. PICK r \in Requests(op), p \in {"getlk", "start"} :
        /\ pc' = [pc EXCEPT ![t] = p] /\ req' = [req EXCEPT ![t] = r] /\ (op # "getlk" => p = "start")
        /\ Sensible(r) /\ \A u \in InService : Mutexes(req[u]) \cap Mutexes(r) \subseteq {0}
        /\ kopen' = IF op = "release" THEN [kopen EXCEPT ![r.ino] = @ - 1] ELSE kopen
  BY <1>1 DEF KernelSend
<1>3. UNCHANGED <<nodes, klook, aborted, case>>
  BY DEF KernelSend, fvars
<1>4. Asks(r, op) /\ Args(r) /\ r.ino \in Ids
  BY <1>0, <1>2, RequestIs
<1>5. /\ KnowsArgs(klook, r) /\ (Removes(r) => Source(nodes, klook, r))
      /\ op = "rename" => r.ino # r.ino2 \/ r.name # r.name2
      /\ op = "release" => kopen[r.ino] > 0
  BY <1>0, <1>2, SensibleIs
<1>6. /\ r.op = op /\ ~r.held /\ ~r.killed /\ ~r.done /\ r.entry = 0
      /\ op \in DOMAIN fuse_path_ops /\ Shape(r) # "forget"
  <2>1. op \in DOMAIN fuse_path_ops
    BY <1>0, TreeAssumption
  <2> QED
    BY <1>0, <1>4, <2>1, ShapeNames DEF Asks, Shape
<1>7. Moves(t, p, r)
  BY <1>1, <1>2, <1>3 DEF Moves
<1>8. req[t] = NoReq /\ ~NoReq.held
  BY <1>1, RFacts DEF RStage, NoReq
<1>9. Placed /\ LocksAlike /\ OpenSame
  BY <1>3, NodesSame
<1>10. Acyclic(nodes') /\ KeepsPaths(t) /\ LockOK(nodes', HeldOf(req'))
  BY <1>6, <1>7, <1>8, <1>9, PlacedFacts, LockSame, HeldSame
<1>11. ASSUME NEW u \in Threads \ {t} PROVE KeepsSolo(nodes, nodes', klook, klook', pc[u], req[u])
  <2>1. Learns(t) /\ ReqOK(req[u])
    BY <1>3, RFacts DEF Learns
  <2> QED
    BY <1>9, <2>1, PlacedSolo
<1>12. ASSUME NEW u \in Threads \ {t} PROVE KeepsTarget(nodes, nodes', klook, req[u])
  <2>1. ASSUME NEW j \in Ids \ {Root}, Newcomer(nodes, pc, req, klook, j)
        PROVE  Newcomer(nodes', pc', req', klook', j)
    <3>1. klook'[j] = 0 /\ KidsOf(nodes', j) = {}
      BY <1>3, <2>1 DEF Newcomer
    <3>2. ASSUME NEW v \in Threads, Uses(pc'[v], req'[v], j) PROVE FALSE
      <4>1. CASE v = t
        <5>1. j # 0 /\ klook[j] = 0
          BY <1>0, <2>1, IdFacts DEF Newcomer
        <5>2. r.ino = j \/ r.ino2 = j
          BY <1>7, <3>2, <4>1, MovesFacts DEF Uses
        <5> QED
          BY <1>5, <5>1, <5>2 DEF KnowsArgs, KnownIn
      <4>2. CASE v # t
        BY <1>7, <2>1, <3>2, <4>2, MovesFacts DEF Newcomer
      <4> QED
        BY <4>1, <4>2
    <3> QED
      BY <3>1, <3>2 DEF Newcomer
  <2> QED
    BY <1>3, <2>1 DEF KeepsTarget
<1>13. KeepsOthers(t)
  BY <1>11, <1>12 DEF KeepsOthers
<1>14. OwnPart(t, p, r)
  <2>1. Solo(nodes', klook', p, r)
    BY <1>2, <1>3, <1>5, <1>6 DEF Solo
  <2>2. ASSUME r.op = "rename" PROVE Target(nodes', pc', req', klook', r)
    <3>1. r.victim = lookup_node(nodes, r.ino2, r.name2) /\ r.ino2 \in Ids
      <4>1. fuse_path_ops[op] = "rename"
        BY <1>6, <2>2, ShapeNames
      <4>2. r.ino2 \in Ids
        BY <1>4, <1>6, <2>2 DEF Args, TwoPathOps
      <4> QED
        BY <1>0, <1>2, <4>1, <4>2, RequestIs
    <3>2. ASSUME NEW j \in Ids \ {Root}, At(nodes, j, r.ino2, r.name2) PROVE j = r.victim
      BY <1>0, <3>1, <3>2, LookupIs DEF At
    <3> QED
      BY <1>3, <1>6, <3>2 DEF Target
  <2>3. ASSUME NEW u \in Threads \ {t}, Serving(pc[u], req[u]) PROVE Mutexes(r) \cap Mutexes(req[u]) \subseteq {0}
    BY <1>2, <2>3 DEF InService, Serving
  <2> QED
    BY <1>6, <2>1, <2>2, <2>3 DEF OwnPart
<1>15. QTree(nodes, pc, req, klook)'
  BY <1>7, <1>10, <1>13, <1>14, QFrame
<1>16. kopen \in [Ids -> Nat]
  BY DEF QInv, Opens
<1>17. kopen' \in [Ids -> Nat]
  BY <1>2, <1>4, <1>5, <1>16
<1>18. ASSUME NEW j \in Ids PROVE Opened(t, p, r, j)
  <2>1. Opn(pc[t], req[t], j) = 0
    <3>1. ~OpStage(pc[t], req[t])
      BY <1>1 DEF OpStage
    <3> QED
      BY <3>1, OpnNot
  <2>2. kopen[j] \in Nat /\ (kopen[j] > 0 => KnownIn(klook, j))
    BY DEF QInv, Opens
  <2>3. CASE op = "release"
    <3>1. Opn(p, r, j) = IF j = r.ino THEN 1 ELSE 0
      BY <1>2, <1>6, <2>3 DEF Opn, Opener, Opening, Closing
    <3>2. kopen'[j] = IF j = r.ino THEN kopen[j] - 1 ELSE kopen[j]
      BY <1>2, <1>16, <2>3
    <3>3. RefOK(nodes) /\ nodes[j].open \in Nat
      BY <1>0 DEF RefOK, Table, NodeOK
    <3> QED
      BY <1>3, <2>1, <2>2, <3>1, <3>2, <3>3 DEF Opened, KnownIn
  <2>4. CASE op # "release"
    <3>1. Opn(p, r, j) = 0
      <4>1. ~OpStage(p, r)
        BY <1>2, <1>6, <2>4 DEF OpStage
      <4> QED
        BY <4>1, OpnNot
    <3>2. kopen'[j] = kopen[j]
      BY <1>2, <2>4
    <3> QED
      BY <1>3, <2>1, <2>2, <3>1, <3>2 DEF Opened, KnownIn
  <2> QED
    BY <2>3, <2>4
<1>19. Opens(nodes, pc, req, klook, kopen)'
  BY <1>7, <1>17, <1>18, OMoves
<1> QED
  BY <1>3, <1>15, <1>19 DEF QInv
\* Names.  What a request takes its name from is on no path that is locked:
\* it is locked itself, or nobody works with it.
LEMMA OwnedFree ==
    ASSUME NEW ns, NEW H, LockOK(ns, H), NEW s \in H, NEW j \in Ids, s[4] = j
    PROVE  Users(ns, H, j) = {}
<1>1. Owners(H, j) # {}
  BY DEF Owners
<1> QED
  BY <1>1 DEF LockOK, Locked
LEMMA HeldWho ==
    ASSUME NEW R, NEW s \in HeldOf(R)
    PROVE  \E u \in Threads : R[u].held /\ s[3] \in {R[u].ino, R[u].ino2}
<1>1. PICK u \in Threads : s \in SlotsOf(u, R[u])
  BY DEF HeldOf
<1>2. R[u].held /\ s \in {<<u, 1, R[u].ino, R[u].wnode>>, <<u, 2, R[u].ino2, R[u].wnode2>>}
  BY <1>1 DEF SlotsOf
<1> QED
  BY <1>2
LEMMA NewcomerFree ==
    ASSUME LInv, RInv, QInv, NEW j \in Ids, Newcomer(nodes, pc, req, klook, j)
    PROVE  Users(nodes, HeldOf(req), j) = {}
<1>0. case \in Cases /\ RefOK(nodes) /\ Acyclic(nodes) /\ LockOK(nodes, HeldOf(req))
  BY DEF LInv, Threading, RInv, QInv, QTree
<1>1. ASSUME NEW s \in HeldOf(req), j \in UpSet(nodes, s[3]) PROVE FALSE
  <2>1. s[3] \in Ids
    BY <1>0, <1>1 DEF LockOK, Slot, Rooted
  <2>2. CASE s[3] = j
    <3>1. PICK u \in Threads : req[u].held /\ s[3] \in {req[u].ino, req[u].ino2}
      BY <1>1, HeldWho
    <3>2. Uses(pc[u], req[u], j)
      BY <2>2, <3>1 DEF Uses, Active
    <3> QED
      BY <3>2 DEF Newcomer
  <2>3. CASE s[3] # j
    BY <1>0, <1>1, <2>1, <2>3, UpSetFacts DEF Newcomer
  <2> QED
    BY <2>2, <2>3
<1> QED
  BY <1>1 DEF Users
Taking(t) == pc[t] \in {"hiding", "change"} /\ Removes(req[t]) /\ req[t].held
LEMMA SourceFree ==
    ASSUME LInv, RInv, QInv, NEW t \in Threads, Taking(t), NEW c, c = lookup_node(nodes, req[t].ino, req[t].name)
    PROVE  /\ c \in Ids \ {Root} /\ At(nodes, c, req[t].ino, req[t].name) /\ klook[c] > 0
           /\ req[t].wnode = c /\ Users(nodes, HeldOf(req), c) = {} /\ c # 0
<1>0. /\ case \in Cases /\ RefOK(nodes) /\ LockOK(nodes, HeldOf(req)) /\ pc[t] # "idle"
      /\ pc[t] \in Ahead /\ Removes(req[t]) /\ req[t].held
  BY DEF LInv, Threading, RInv, QInv, QTree, Taking, Ahead
<1>1. Source(nodes, klook, req[t])
  BY <1>0 DEF QInv, QTree, Solos, Solo
<1>2. PICK b \in Ids \ {Root} : At(nodes, b, req[t].ino, req[t].name) /\ klook[b] > 0 /\ req[t].wnode = b
  BY <1>0, <1>1 DEF Source
<1>3. req[t].ino \in Ids
  BY <1>0, RemoverMutex
<1>4. b = c
  BY <1>0, <1>2, <1>3, LookupIs DEF At
<1>5. PICK s \in HeldOf(req) : s[4] = b
  <2>1. <<t, 1, req[t].ino, req[t].wnode>> \in HeldOf(req)
    BY <1>0, HeldRooted
  <2> QED
    BY <1>2, <2>1
<1>6. Users(nodes, HeldOf(req), b) = {}
  BY <1>0, <1>5, OwnedFree
<1>7. b # 0
  BY <1>0, IdFacts
<1> QED
  BY <1>2, <1>4, <1>6, <1>7
LEMMA TargetFree ==
    ASSUME LInv, RInv, QInv, NEW t \in Threads, Taking(t), req[t].op = "rename",
           NEW j, j = lookup_node(nodes, req[t].ino2, req[t].name2), j # 0
    PROVE  /\ j \in Ids \ {Root} /\ At(nodes, j, req[t].ino2, req[t].name2)
           /\ Users(nodes, HeldOf(req), j) = {}
<1>0. /\ case \in Cases /\ RefOK(nodes) /\ LockOK(nodes, HeldOf(req)) /\ pc[t] # "idle"
      /\ pc[t] \in Ahead /\ Removes(req[t]) /\ req[t].held
  BY DEF LInv, Threading, RInv, QInv, QTree, Taking, Ahead
<1>1. req[t].ino2 \in Ids
  BY <1>0, RemoverMutex
<1>2. j \in Ids \ {Root} /\ At(nodes, j, req[t].ino2, req[t].name2)
  BY <1>0, <1>1, LookupIs DEF At
<1>3. Target(nodes, pc, req, klook, req[t])
  BY <1>0 DEF QInv, QTree, Targets
<1>4. CASE req[t].wnode2 = j
  <2>1. PICK s \in HeldOf(req) : s[4] = j
    <3>1. <<t, 2, req[t].ino2, req[t].wnode2>> \in HeldOf(req)
      BY <1>0, HeldRooted DEF TwoPathOps
    <3> QED
      BY <1>4, <3>1
  <2> QED
    BY <1>0, <1>2, <2>1, OwnedFree
<1>5. CASE Newcomer(nodes, pc, req, klook, j)
  BY <1>2, <1>5, NewcomerFree
<1> QED
  BY <1>0, <1>2, <1>3, <1>4, <1>5 DEF Target
LEMMA NotOpen ==
    ASSUME LInv, RInv, QInv, NEW i \in Ids, Live(nodes, i), nodes[i].nlookup = 0
    PROVE  nodes[i].open = 0
<1>1. ~(kopen[i] > 0) /\ kopen[i] \in Nat
  BY KnownLive DEF QInv, Opens
<1>2. Openers(pc, req, i) = {}
  <2>1. \A u \in Threads : ~Opener(pc[u], req[u], i)
    BY OpenersLive
  <2> QED
    BY <2>1 DEF Openers
<1>3. Cardinality(Openers(pc, req, i)) = 0
  BY <1>2, FS_EmptySet
<1> QED
  BY <1>1, <1>3 DEF QInv, Opens
\* The directories of a request that takes a name away.
DirsOf(r) == IF r.op = "rename" THEN {r.ino, r.ino2} ELSE {r.ino}
LEMMA DirsFacts ==
    ASSUME LInv, RInv, QInv, NEW t \in Threads, Taking(t), NEW d \in DirsOf(req[t])
    PROVE  /\ d \in Ids /\ d \in Mutexes(req[t]) /\ Uses(pc[t], req[t], d)
           /\ nodes[d].nlookup > 0 /\ Live(nodes, d)
<1>1. pc[t] # "idle" /\ Removes(req[t]) /\ req[t].held
  BY DEF Taking
<1>2. d \in Ids /\ d \in Mutexes(req[t])
  BY <1>1, RemoverMutex DEF DirsOf
<1>3. Uses(pc[t], req[t], d)
  BY <1>1 DEF Uses, Active, DirsOf
<1> QED
  BY <1>2, <1>3, UsesLive
\* The other threads work in other directories.
Within(M, D) == \A g \in M : nodes[g].parent \in D /\ nodes'[g].parent \in D \cup {0}
LEMMA NameSpares ==
    ASSUME LInv, RInv, QInv, NEW t \in Threads, Taking(t), NEW M, M \subseteq Ids, Within(M, DirsOf(req[t])),
           NEW u \in Threads \ {t}
    PROVE  Spares(M, u)
<1>0. case \in Cases /\ pc[t] # "idle" /\ Removes(req[t])
  BY DEF Taking, LInv, Threading
<1>1. Serving(pc[t], req[t])
  BY <1>0, RemoverMutex
<1>2. ASSUME Serving(pc[u], req[u]), NEW d \in DirsOf(req[t]), d \in Mutexes(req[u]) PROVE FALSE
  <2>1. Mutexes(req[t]) \cap Mutexes(req[u]) \subseteq {0}
    BY <1>1, <1>2 DEF QInv, QTree, Apart
  <2>2. d \in Ids /\ d \in Mutexes(req[t])
    BY <1>2, DirsFacts
  <2> QED
    BY <1>0, <1>2, <2>1, <2>2, IdFacts
<1>3. ASSUME Serving(pc[u], req[u]), Shape(req[u]) \in Finders, req[u].entry \in M PROVE FALSE
  <2>1. EntryDir(req[u]) \in Mutexes(req[u]) /\ EntryDir(req[u]) \in Ids
    BY <1>3, DirMutex DEF Serving
  <2>2. CASE req[u].entry # 0
    <3>1. nodes[req[u].entry].parent = EntryDir(req[u])
      BY <1>3, <2>2 DEF QInv, QTree, Solos, Solo, At
    <3> QED
      BY <1>2, <1>3, <2>1, <3>1 DEF Within
  <2>3. CASE req[u].entry = 0
    BY <1>0, <1>3, <2>3, IdFacts
  <2> QED
    BY <2>2, <2>3
<1>4. ASSUME pc[u] \in Ahead, Removes(req[u])
      PROVE  Serving(pc[u], req[u]) /\ req[u].ino \in Mutexes(req[u])
             /\ (req[u].op = "rename" => req[u].ino2 \in Mutexes(req[u]) /\ req[u].ino2 \in Ids)
  <2>1. pc[u] # "idle"
    BY <1>4 DEF Ahead
  <2> QED
    BY <1>4, <2>1, RemoverMutex
<1>5. ASSUME pc[u] \in Ahead, Removes(req[u]), NEW c \in M, At(nodes, c, req[u].ino, req[u].name) PROVE FALSE
  BY <1>2, <1>4, <1>5 DEF Within, At
<1>6. ASSUME pc[u] \in Ahead, req[u].op = "rename", NEW c \in M, At(nodes', c, req[u].ino2, req[u].name2) PROVE FALSE
  <2>1. pc[u] # "idle"
    BY <1>6 DEF Ahead
  <2>2. Removes(req[u])
    BY <1>6, <2>1, RFacts, ShapeNames DEF Removes, Shape
  <2>3. req[u].ino2 # 0
    BY <1>0, <1>4, <1>6, <2>2, IdFacts
  <2> QED
    BY <1>2, <1>4, <1>6, <2>2, <2>3 DEF Within, At
<1> QED
  BY <1>3, <1>5, <1>6 DEF Spares
\* A step that changes names: the nodes of M lose their place in the
\* directories of thread t, or get another one there.
Nearly(n, m) == \/ m.open = n.open /\ m.treelock = n.treelock
                \/ n.nlookup = 0 /\ m.treelock = 0 /\ m.open = 0
NamesMove(t, M) ==
    /\ Unheld(M) /\ Within(M, DirsOf(req[t])) /\ Acyclic(nodes') /\ Renames(nodes, nodes')
    /\ \A k \in Ids : Nearly(nodes[k], nodes'[k])
LEMMA NamesKids ==
    ASSUME LInv, RInv, QInv, NEW t \in Threads, Taking(t), NEW M, Unheld(M), Within(M, DirsOf(req[t]))
    PROVE  KidsStay
<1> SUFFICES ASSUME NEW j \in Ids \ {Root}, Newcomer(nodes, pc, req, klook, j), NEW c \in KidsOf(nodes', j)
             PROVE  FALSE
  BY DEF KidsStay
<1>0. case \in Cases
  BY DEF LInv, Threading
<1>1. c \in Ids \ {Root} /\ nodes'[c].parent = j /\ j # 0
  BY <1>0, IdFacts DEF KidsOf
<1>2. CASE c \in M
  <2>1. j \in DirsOf(req[t])
    BY <1>1, <1>2 DEF Within
  <2>2. Uses(pc[t], req[t], j)
    BY <2>1, DirsFacts
  <2> QED
    BY <2>2 DEF Newcomer
<1>3. CASE c \notin M
  <2>1. c \in KidsOf(nodes, j)
    BY <1>1, <1>3 DEF Unheld, Steady, KidsOf
  <2> QED
    BY <2>1 DEF Newcomer
<1> QED
  BY <1>2, <1>3
LEMMA QNames ==
    ASSUME LInv, RInv, QInv, RInv', NEW t \in Threads, Taking(t), NEW p \in {"free", "change"},
           pc' = [pc EXCEPT ![t] = p], req' = req, NEW M, NamesMove(t, M), OwnPart(t, p, req[t]),
           UNCHANGED <<klook, kopen, aborted, case>>
    PROVE  QInv'
<1>0. /\ LockOK(nodes, HeldOf(req)) /\ RefOK(nodes) /\ req = [req EXCEPT ![t] = req[t]]
      /\ pc[t] \in {"hiding", "change"} /\ Removes(req[t]) /\ req[t].held /\ req[t].op \in DOMAIN fuse_path_ops
  BY RFacts DEF Taking, QInv, QTree
<1>1. Moves(t, p, req[t])
  BY <1>0 DEF Moves
<1>2. Unheld(M) /\ Within(M, DirsOf(req[t])) /\ Acyclic(nodes') /\ Renames(nodes, nodes')
  BY DEF NamesMove
<1>3. LocksStay
  <2>1. ASSUME NEW s \in HeldOf(req), s[4] # 0 PROVE nodes'[s[4]].nlookup > 0
    <3>1. s[4] \in Ids /\ nodes[s[4]].nlookup > 0
      BY <1>0, <2>1 DEF LockOK, Slot
    <3> QED
      BY <1>2, <3>1 DEF Renames
  <2>2. \A j \in Ids : nodes'[j].treelock = nodes[j].treelock \/ (nodes'[j].treelock = 0 /\ nodes[j].nlookup = 0)
    BY DEF NamesMove, Nearly
  <2> QED
    BY <2>1, <2>2 DEF LocksStay
<1>4. KidsStay
  BY <1>2, NamesKids
<1>5. M \subseteq Ids
  BY <1>2 DEF Unheld
<1>6. \A u \in Threads \ {t} : Spares(M, u)
  BY <1>2, <1>5, NameSpares
<1>7. UsesLess(t, p, req[t])
  BY <1>0 DEF UsesLess, Uses, Active
<1>8. QTree(nodes, pc, req, klook)'
  BY <1>1, <1>2, <1>3, <1>4, <1>6, <1>7, QMoved
<1>9. OpenSame
  <2>1. ASSUME NEW j \in Ids, Live(nodes', j) PROVE Live(nodes, j) /\ nodes'[j].open = nodes[j].open
    <3>1. Live(nodes, j)
      BY <1>2, <2>1 DEF Renames, LiveSet
    <3>2. Nearly(nodes[j], nodes'[j])
      BY DEF NamesMove
    <3> QED
      BY <3>1, <3>2, NotOpen DEF Nearly
  <2> QED
    BY <2>1 DEF OpenSame
<1>10. OpensAlike(pc[t], req[t], p, req[t])
  BY <1>0 DEF OpensAlike, OpStage
<1>11. Opens(nodes, pc, req, klook, kopen)'
  BY <1>1, <1>9, <1>10, OStill
<1> QED
  BY <1>8, <1>11 DEF QInv
\* The assertions hold: the directories are known and so not deleted.
LEMMA NotLast ==
    ASSUME case \in Cases, NEW ns, RefOK(ns), NEW i \in Ids \ {Root}, NEW p \in Ids, ns[i].parent = p,
           ns[p].nlookup > 0
    PROVE  ~UnhashBad(ns, i)
<1>1. i \in KidsOf(ns, p)
  BY DEF KidsOf
<1>2. PICK a : a = Cardinality(KidsOf(ns, p))
  OBVIOUS
<1>3. a \in Nat /\ a # 0
  BY <1>1, <1>2, KidsFinite, FS_EmptySet
<1>4. ns[p].refctr = a + 1
  BY <1>2 DEF RefOK, Counted, Looked
<1> QED
  BY <1>3, <1>4 DEF UnhashBad, DeletesBusy
LEMMA RenameGood ==
    ASSUME case \in Cases, NEW ns, RefOK(ns), NEW d \in Ids, NEW e \in Ids, NEW n, NEW m,
           ns[d].nlookup > 0, ns[e].nlookup > 0, NEW i, i = lookup_node(ns, d, n), i # 0,
           i # lookup_node(ns, e, m)
    PROVE  ~RenameBad(ns, d, n, e, m)
<1>1. PICK j, fr, un : j = lookup_node(ns, e, m) /\ fr = remove_node(ns, e, m) /\ un = unhash_name(fr, i)
  OBVIOUS
<1>2. i \in Ids \ {Root} /\ ns[i].parent = d
  BY LookupIs
<1>3. ns[i].nlookup > 0
  BY <1>2, IdFacts DEF RefOK, Named
<1>4. RefOK(fr) /\ (j = 0 => fr = ns) /\ (j # 0 => Loses(ns, fr, j))
  BY <1>1, RemoveOK
<1>5. fr[i].parent = d /\ \A k \in Ids : fr[k].nlookup = ns[k].nlookup
  BY <1>1, <1>2, <1>4 DEF Loses
<1>6. ~RemoveBad(ns, e, m)
  <2>1. j # 0 => j \in Ids \ {Root} /\ ns[j].parent = e
    BY <1>1, LookupIs
  <2>2. j # 0 => ~UnhashBad(ns, j)
    BY <2>1, NotLast
  <2> QED
    BY <1>1, <2>2 DEF RemoveBad
<1>7. ~UnhashBad(fr, i)
  BY <1>2, <1>4, <1>5, NotLast
<1>8. RefOK(un) /\ Loses(fr, un, i)
  BY <1>1, <1>2, <1>3, <1>4, <1>5, UnhashLoses
<1>9. un[e].nlookup > 0
  BY <1>5, <1>8 DEF Loses
<1>10. Live(un, e)
  BY <1>8, <1>9, LiveFacts
<1> QED
  BY <1>1, <1>6, <1>7, <1>10 DEF RenameBad
\* A request that takes a name away has its paths and no entry.
LEMMA TakingIs ==
    ASSUME LInv, RInv, NEW t \in Threads, pc[t] \in {"hiding", "change"}
    PROVE  Taking(t) /\ req[t].entry = 0 /\ ~req[t].done /\ Shape(req[t]) \in {"unlink", "rmdir", "rename"}
<1>1. /\ Loaded(pc[t], req[t]) /\ Holding(pc[t], req[t]) /\ Stage(pc[t], req[t], case)
  BY RFacts
<1>2. req[t].held /\ req[t].entry = 0 /\ ~req[t].done
  BY <1>1 DEF Holding, Loaded, Unfound
<1>3. Shape(req[t]) \in {"unlink", "rmdir", "rename"}
  BY <1>1 DEF Stage
<1> QED
  BY <1>2, <1>3 DEF Taking, Removes
\* It goes on without a change, or to give its paths back.
LEMMA QNoChange ==
    ASSUME LInv, RInv, QInv, RInv', NEW t \in Threads, pc[t] \in {"hiding", "change"}, NEW p \in {"free", "change"},
           pc' = [pc EXCEPT ![t] = p], req' = req, nodes' = nodes, UNCHANGED <<klook, kopen, aborted, case>>
    PROVE  QInv'
<1>1. Placed /\ LocksAlike /\ OpenSame
  BY NodesSame
<1>2. Onwards(pc[t], p, req[t])
  BY DEF Onwards, Ahead
<1>3. OpStage(p, req[t]) <=> OpStage(pc[t], req[t])
  BY DEF OpStage
<1> QED
  BY <1>1, <1>2, <1>3, QPlain
LEMMA QTaken ==
    ASSUME LInv, RInv, QInv, RInv', NEW t \in Threads, pc[t] \in {"hiding", "change"},
           pc' = [pc EXCEPT ![t] = "free"], req' = req, NEW M, NamesMove(t, M),
           UNCHANGED <<klook, kopen, aborted, case>>
    PROVE  QInv'
<1>1. Taking(t) /\ req[t].entry = 0 /\ ~req[t].done /\ Shape(req[t]) \in {"unlink", "rmdir", "rename"}
  BY TakingIs
<1>2. req = [req EXCEPT ![t] = req[t]]
  BY RFacts
<1>3. Moves(t, "free", req[t])
  BY <1>2 DEF Moves
<1>4. EndsUp(t, "free", req[t])
  BY <1>1 DEF EndsUp, Cousin, SameHold, Ahead, Serving
<1>5. Acyclic(nodes') /\ Unheld(M)
  BY DEF NamesMove
<1>6. OwnPart(t, "free", req[t])
  BY <1>3, <1>4, <1>5, OwnMoved
<1> QED
  BY <1>1, <1>6, QNames
LEMMA RemoveMoves ==
    ASSUME LInv, RInv, QInv, NEW t \in Threads, Taking(t), req[t].op # "rename",
           nodes' = remove_node(nodes, req[t].ino, req[t].name)
    PROVE  NamesMove(t, {lookup_node(nodes, req[t].ino, req[t].name)})
<1>1. PICK d, c, ns, ms : /\ d = req[t].ino /\ c = lookup_node(nodes, d, req[t].name)
                          /\ ns = nodes /\ ms = nodes'
  OBVIOUS
<1>2. /\ c \in Ids \ {Root} /\ At(ns, c, d, req[t].name) /\ Users(nodes, HeldOf(req), c) = {} /\ c # 0
  BY <1>1, SourceFree
<1>3. case \in Cases /\ RefOK(ns) /\ Acyclic(ns)
  BY <1>1 DEF LInv, Threading, RInv, QInv, QTree
<1>4. DirsOf(req[t]) = {d}
  BY <1>1 DEF DirsOf
<1>5. d \in Ids
  BY <1>4, DirsFacts
<1>6. Loses(ns, ms, c) /\ Renames(ns, ms)
  BY <1>1, <1>2, <1>3, <1>5, RemoveOK, RemoveRenames
<1>7. Unheld({c})
  <2>1. \A j \in Ids \ {c} : Steady(ns, ms, j)
    BY <1>6 DEF Loses, Steady
  <2> QED
    BY <1>1, <1>2, <2>1 DEF Unheld
<1>8. Within({c}, {d})
  <2>1. ns[c].parent = d /\ ms[c].parent = 0
    BY <1>2, <1>6 DEF Loses, At
  <2> QED
    BY <1>1, <2>1 DEF Within
<1>9. Acyclic(ms)
  <2>1. \A j \in Ids \ {Root} : ms[j].parent = ns[j].parent \/ ms[j].parent = 0
    BY <1>6 DEF Loses
  <2> QED
    BY <1>3, <2>1, AcyclicLess
<1>10. \A k \in Ids : Nearly(ns[k], ms[k])
  BY <1>6 DEF Loses, Near, Rest, Nearly
<1> QED
  BY <1>1, <1>4, <1>6, <1>7, <1>8, <1>9, <1>10 DEF NamesMove
LEMMA NoUnlinkBad ==
    ASSUME LInv, RInv, QInv, NEW t \in Threads, Taking(t), req[t].op # "rename"
    PROVE  ~RemoveBad(nodes, req[t].ino, req[t].name)
<1>1. PICK d, c : d = req[t].ino /\ c = lookup_node(nodes, d, req[t].name)
  OBVIOUS
<1>2. c \in Ids \ {Root} /\ nodes[c].parent = d
  BY <1>1, SourceFree DEF At
<1>3. d \in Ids /\ nodes[d].nlookup > 0
  BY <1>1, DirsFacts DEF DirsOf
<1>4. case \in Cases /\ RefOK(nodes)
  BY DEF LInv, Threading, RInv
<1>5. ~UnhashBad(nodes, c)
  BY <1>2, <1>3, <1>4, NotLast
<1> QED
  BY <1>1, <1>5 DEF RemoveBad
\* The two names of a rename.
LEMMA RenameNames ==
    ASSUME LInv, RInv, QInv, NEW t \in Threads, Taking(t), req[t].op = "rename"
    PROVE  /\ lookup_node(nodes, req[t].ino, req[t].name) # lookup_node(nodes, req[t].ino2, req[t].name2)
           /\ req[t].ino \in Ids /\ req[t].ino2 \in Ids /\ req[t].name2 # Null
           /\ nodes[req[t].ino].nlookup > 0 /\ nodes[req[t].ino2].nlookup > 0
<1>1. PICK c, j : /\ c = lookup_node(nodes, req[t].ino, req[t].name)
                  /\ j = lookup_node(nodes, req[t].ino2, req[t].name2)
  OBVIOUS
<1>2. At(nodes, c, req[t].ino, req[t].name) /\ c # 0
  BY <1>1, SourceFree
<1>3. j # 0 => At(nodes, j, req[t].ino2, req[t].name2)
  BY <1>1, TargetFree
<1>4. req[t].ino # req[t].ino2 \/ req[t].name # req[t].name2
  BY DEF QInv, QTree, Solos, Solo
<1>5. c # j
  BY <1>2, <1>3, <1>4 DEF At
<1>6. pc[t] # "idle" /\ Removes(req[t])
  BY DEF Taking
<1>7. req[t].name2 # Null
  BY <1>6, RemoverMutex
<1> QED
  BY <1>1, <1>5, <1>7, DirsFacts DEF DirsOf
LEMMA NoRenameBad ==
    ASSUME LInv, RInv, QInv, NEW t \in Threads, Taking(t), req[t].op = "rename"
    PROVE  ~RenameBad(nodes, req[t].ino, req[t].name, req[t].ino2, req[t].name2)
<1>1. PICK c : c = lookup_node(nodes, req[t].ino, req[t].name)
  OBVIOUS
<1>2. c # 0
  BY <1>1, SourceFree
<1>3. case \in Cases /\ RefOK(nodes)
  BY DEF LInv, Threading, RInv
<1>4. c # lookup_node(nodes, req[t].ino2, req[t].name2)
  BY <1>1, RenameNames
<1> QED
  BY <1>1, <1>2, <1>3, <1>4, RenameNames, RenameGood
\* Node c moves to directory e, and j loses its name to it.
MovesTo(ns, ms, c, e, m, j) ==
    \A k \in Ids :
      /\ ms[k].parent = IF k = c THEN e ELSE IF k = j THEN 0 ELSE ns[k].parent
      /\ ms[k].name = IF k = c THEN m ELSE IF k = j THEN Null ELSE ns[k].name
      /\ Nearly(ns[k], ms[k])
LEMMA MoveMoves ==
    ASSUME LInv, RInv, QInv, NEW t \in Threads, Taking(t), NEW c \in Ids \ {Root}, NEW j \in (Ids \ {Root}) \cup {0},
           Users(nodes, HeldOf(req), c) = {}, j # 0 => Users(nodes, HeldOf(req), j) = {},
           NEW e \in DirsOf(req[t]), nodes[c].parent \in DirsOf(req[t]), j # 0 => nodes[j].parent = e, NEW m,
           c \notin UpSet(nodes, e), MovesTo(nodes, nodes', c, e, m, j), Renames(nodes, nodes')
    PROVE  NamesMove(t, {c, j} \ {0})
<1>1. PICK ns, ms : ns = nodes /\ ms = nodes'
  OBVIOUS
<1>2. case \in Cases /\ RefOK(ns) /\ Acyclic(ns)
  BY <1>1 DEF LInv, Threading, RInv, QInv, QTree
<1>3. e \in Ids
  BY DirsFacts
<1>4. MovesTo(ns, ms, c, e, m, j)
  BY <1>1
<1>5. Unheld({c, j} \ {0})
  <2>1. \A k \in Ids \ {c, j} : Steady(ns, ms, k)
    BY <1>4 DEF MovesTo, Steady
  <2>2. 0 \notin Ids
    BY <1>2, IdFacts
  <2>3. \A k \in Ids \ ({c, j} \ {0}) : Steady(nodes, nodes', k)
    BY <1>1, <2>1, <2>2
  <2>4. \A k \in {c, j} \ {0} : Users(nodes, HeldOf(req), k) = {}
    OBVIOUS
  <2>5. {c, j} \ {0} \subseteq Ids \ {Root}
    OBVIOUS
  <2> QED
    BY <2>3, <2>4, <2>5 DEF Unheld
<1>6. Within({c, j} \ {0}, DirsOf(req[t]))
  <2>1. ms[c].parent = e /\ (j # 0 => ms[j].parent \in {e, 0})
    BY <1>4 DEF MovesTo
  <2> QED
    BY <1>1, <2>1 DEF Within
<1>7. Acyclic(ms)
  <2>1. \A k \in Ids \ {Root, c} : ms[k].parent = ns[k].parent \/ ms[k].parent = 0
    BY <1>4 DEF MovesTo
  <2>2. ms[c].parent = e /\ c \notin UpSet(ns, e)
    BY <1>1, <1>4 DEF MovesTo
  <2> QED
    BY <1>2, <1>3, <2>1, <2>2, AcyclicMove
<1>8. \A k \in Ids : Nearly(nodes[k], nodes'[k])
  BY <1>1, <1>4 DEF MovesTo
<1>9. Acyclic(nodes')
  BY <1>1, <1>7
<1> QED
  BY <1>5, <1>6, <1>8, <1>9 DEF NamesMove
LEMMA RenameMoves ==
    ASSUME LInv, RInv, QInv, NEW t \in Threads, Taking(t), req[t].op = "rename",
           nodes' = rename_node(nodes, req[t].ino, req[t].name, req[t].ino2, req[t].name2)
    PROVE  \E M : NamesMove(t, M)
<1>1. PICK d, n, e, m, c, j, ns, ms :
        /\ d = req[t].ino /\ n = req[t].name /\ e = req[t].ino2 /\ m = req[t].name2 /\ ns = nodes /\ ms = nodes'
        /\ c = lookup_node(nodes, d, n) /\ j = lookup_node(nodes, e, m)
  OBVIOUS
<1>2. /\ c \in Ids \ {Root} /\ At(nodes, c, d, n) /\ Users(nodes, HeldOf(req), c) = {} /\ c # 0
  BY <1>1, SourceFree
<1>3. j # 0 => j \in Ids \ {Root} /\ At(nodes, j, e, m) /\ Users(nodes, HeldOf(req), j) = {}
  BY <1>1, TargetFree
<1>4. case \in Cases /\ RefOK(ns) /\ LockOK(nodes, HeldOf(req)) /\ req[t].held
  BY <1>1 DEF LInv, Threading, RInv, QInv, QTree, Taking
<1>5. d \in Ids /\ e \in Ids /\ m # Null /\ d \in DirsOf(req[t]) /\ e \in DirsOf(req[t])
  BY <1>1, RenameNames DEF DirsOf
<1>6. ~RenameBad(ns, d, n, e, m)
  BY <1>1, NoRenameBad
<1>7. c = lookup_node(ns, d, n) /\ ms = rename_node(ns, d, n, e, m) /\ j = lookup_node(ns, e, m)
  BY <1>1
<1>8. Renamed(ns, ms, c, e, m) /\ Renames(ns, ms)
  BY <1>2, <1>4, <1>5, <1>6, <1>7, RenameOK, RenameRenames
<1>9. MovesTo(ns, ms, c, e, m, j)
  BY <1>7, <1>8 DEF MovesTo, Renamed, Near, Rest, Nearly
<1>10. c \notin UpSet(nodes, e)
  <2>1. <<t, 2, e, req[t].wnode2>> \in HeldOf(req)
    BY <1>1, <1>4, HeldRooted DEF TwoPathOps
  <2> QED
    BY <1>2, <2>1 DEF Users
<1>11. nodes[c].parent \in DirsOf(req[t]) /\ (j # 0 => nodes[j].parent = e)
  BY <1>2, <1>3, <1>5 DEF At
<1>12. j \in (Ids \ {Root}) \cup {0}
  BY <1>3
<1>13. MovesTo(nodes, nodes', c, e, m, j) /\ Renames(nodes, nodes')
  BY <1>1, <1>8, <1>9
<1>14. NamesMove(t, {c, j} \ {0})
  <2>1. j # 0 => Users(nodes, HeldOf(req), j) = {}
    BY <1>3
  <2> QED
    BY <1>2, <1>5, <1>10, <1>11, <1>12, <1>13, <2>1, MoveMoves
<1> QED
  BY <1>14
LEMMA QChange ==
    ASSUME LInv, RInv, QInv, RInv', NEW t \in Threads, Change(t)
    PROVE  QInv'
<1>1. pc[t] = "change" /\ UNCHANGED <<klook, kopen, case>>
  BY DEF Change, kvars
<1>2. \/ Abort(t, "rename_node") /\ ChangeBad(nodes, req[t])
      \/ /\ pc' = [pc EXCEPT ![t] = "free"] /\ req' = req /\ aborted' = aborted
         /\ nodes' = nodes \/ nodes' = Changed(nodes, req[t])
  BY DEF Change
<1>3. Taking(t)
  BY <1>1, TakingIs
<1>4. ~ChangeBad(nodes, req[t])
  BY <1>3, NoUnlinkBad, NoRenameBad DEF ChangeBad
<1>5. CASE nodes' = nodes
  BY <1>1, <1>2, <1>4, <1>5, QNoChange
<1>6. CASE nodes' = Changed(nodes, req[t])
  <2>1. \E M : NamesMove(t, M)
    <3>1. CASE req[t].op = "rename"
      BY <1>3, <1>6, <3>1, RenameMoves DEF Changed
    <3>2. CASE req[t].op # "rename"
      BY <1>3, <1>6, <3>2, RemoveMoves DEF Changed
    <3> QED
      BY <3>1, <3>2
  <2> QED
    BY <1>1, <1>2, <1>4, <2>1, QTaken
<1> QED
  BY <1>2, <1>4, <1>5, <1>6
\* What hide_node takes away.
LEMMA GoneFree ==
    ASSUME LInv, RInv, QInv, NEW t \in Threads, Taking(t), NEW i, i # 0,
           i = lookup_node(nodes, GoneDir(req[t]), GoneName(req[t]))
    PROVE  /\ i \in Ids \ {Root} /\ At(nodes, i, GoneDir(req[t]), GoneName(req[t]))
           /\ Users(nodes, HeldOf(req), i) = {} /\ GoneDir(req[t]) \in DirsOf(req[t])
<1>1. CASE req[t].op = "rename"
  BY <1>1, TargetFree DEF GoneDir, GoneName, DirsOf
<1>2. CASE req[t].op # "rename"
  BY <1>2, SourceFree DEF GoneDir, GoneName, DirsOf
<1> QED
  BY <1>1, <1>2
MarkedOnly(ls, ms) ==
    \A k \in Ids : /\ ms[k].parent = ls[k].parent /\ ms[k].name = ls[k].name
                   /\ ms[k].open = ls[k].open /\ ms[k].treelock = ls[k].treelock
LEMMA MarkLeaves ==
    ASSUME NEW ls, Table(ls), NEW i \in Ids, NEW ms, ms = Mark(ls, i)
    PROVE  MarkedOnly(ls, ms)
<1>1. ms = [ls EXCEPT ![i].hidden = TRUE] /\ NodeOK(ls[i]) /\ DOMAIN ls = Ids
  BY DEF Mark, Table
<1>2. /\ \A k \in Ids \ {i} : ms[k] = ls[k]
      /\ ms[i].parent = ls[i].parent /\ ms[i].name = ls[i].name
      /\ ms[i].open = ls[i].open /\ ms[i].treelock = ls[i].treelock
  BY <1>1 DEF NodeOK, NodeKeys
<1> QED
  BY <1>2 DEF MarkedOnly
LEMMA HideMoves ==
    ASSUME LInv, RInv, QInv, NEW t \in Threads, Taking(t), NEW d, d = GoneDir(req[t]), NEW n, n = GoneName(req[t]),
           NEW i, i = lookup_node(nodes, d, n), i # 0, NEW h, h # Null, lookup_node(nodes, d, h) = 0
    PROVE  /\ ~RenameBad(nodes, d, n, d, h)
           /\ nodes' = Mark(rename_node(nodes, d, n, d, h), i) =>
                NamesMove(t, {i}) /\ MovesTo(nodes, nodes', i, d, h, 0)
<1>1. /\ i \in Ids \ {Root} /\ At(nodes, i, d, n) /\ Users(nodes, HeldOf(req), i) = {} /\ d \in DirsOf(req[t])
  BY GoneFree
<1>2. d \in Ids /\ nodes[d].nlookup > 0
  BY <1>1, DirsFacts
<1>3. case \in Cases /\ RefOK(nodes) /\ Acyclic(nodes)
  BY DEF LInv, Threading, RInv, QInv, QTree
<1>4. ~RenameBad(nodes, d, n, d, h)
  BY <1>2, <1>3, RenameGood
<1>5. ASSUME nodes' = Mark(rename_node(nodes, d, n, d, h), i)
      PROVE  NamesMove(t, {i}) /\ MovesTo(nodes, nodes', i, d, h, 0)
  <2>1. PICK ns, ls, ms : ns = nodes /\ ms = nodes' /\ ls = rename_node(ns, d, n, d, h)
    OBVIOUS
  <2>2. /\ i = lookup_node(ns, d, n) /\ RefOK(ns) /\ ms = Mark(ls, i) /\ lookup_node(ns, d, h) = 0
        /\ ~RenameBad(ns, d, n, d, h) /\ ms = Mark(rename_node(ns, d, n, d, h), i)
    BY <1>3, <1>4, <1>5, <2>1
  <2>3. RefOK(ls) /\ Renamed(ns, ls, i, d, h)
    BY <1>2, <1>3, <2>1, <2>2, RenameOK
  <2>4. Renames(ns, ms)
    BY <1>2, <1>3, <2>2, MarkRenames
  <2>5. MarkedOnly(ls, ms)
    BY <1>1, <2>2, <2>3, MarkLeaves DEF RefOK
  <2>6. 0 \notin Ids
    BY <1>3, IdFacts
  <2>7. MovesTo(ns, ms, i, d, h, 0)
    BY <2>2, <2>3, <2>5, <2>6 DEF MovesTo, Renamed, Near, Rest, Nearly, MarkedOnly
  <2>8. i \notin UpSet(nodes, d)
    BY <1>1, <1>2, <1>3, NotAbove DEF At
  <2>9. MovesTo(nodes, nodes', i, d, h, 0) /\ Renames(nodes, nodes')
    BY <2>1, <2>4, <2>7
  <2>10. nodes[i].parent \in DirsOf(req[t])
    BY <1>1 DEF At
  <2>11. NamesMove(t, {i, 0} \ {0})
    BY <1>1, <2>8, <2>9, <2>10, MoveMoves
  <2>12. {i, 0} \ {0} = {i}
    OBVIOUS
  <2> QED
    BY <2>9, <2>11, <2>12
<1> QED
  BY <1>4, <1>5
\* The thread goes on to rename over the name that is free now.
LEMMA HideOwn ==
    ASSUME LInv, RInv, QInv, RInv', NEW t \in Threads, Taking(t), req[t].op = "rename", klook' = klook, req' = req,
           NEW i, i = lookup_node(nodes, req[t].ino2, req[t].name2), i # 0, NEW h, h # Null,
           lookup_node(nodes, req[t].ino2, h) = 0, NamesMove(t, {i}),
           MovesTo(nodes, nodes', i, req[t].ino2, h, 0)
    PROVE  OwnPart(t, "change", req[t])
<1>1. PICK e, m, ns, ms, r : /\ e = req[t].ino2 /\ m = req[t].name2 /\ ns = nodes /\ ms = nodes' /\ r = req[t]
  OBVIOUS
<1>2. /\ case \in Cases /\ RefOK(nodes) /\ Acyclic(nodes') /\ Unheld({i})
      /\ pc[t] \in {"hiding", "change"} /\ Removes(r) /\ r.held /\ r.entry = 0 /\ ~r.done
      /\ Shape(r) \in {"unlink", "rmdir", "rename"}
  BY <1>1, TakingIs DEF LInv, Threading, RInv, NamesMove, Taking
<1>3. Solo(ns, klook, pc[t], r)
  BY <1>1 DEF QInv, QTree, Solos
<1>4. PICK c \in Ids \ {Root} : At(ns, c, r.ino, r.name) /\ klook[c] > 0 /\ r.wnode = c /\ c # i
  <2>1. lookup_node(nodes, req[t].ino, req[t].name) # i
    BY RenameNames
  <2> QED
    BY <1>1, <2>1, SourceFree
<1>5. At(ms, c, r.ino, r.name)
  BY <1>1, <1>4, IdFacts, <1>2 DEF MovesTo, At
<1>6. Source(ms, klook, r)
  BY <1>4, <1>5 DEF Source
<1>7. Solo(ms, klook, "change", r)
  BY <1>2, <1>3, <1>6 DEF Solo, Serving, Finders, Ahead
<1>8. Target(ms, pc', req', klook', r)
  <2>1. ASSUME NEW j \in Ids \ {Root}, At(ms, j, r.ino2, r.name2) PROVE FALSE
    <3>1. h # m
      BY <1>1
    <3>2. j # i
      BY <1>1, <2>1, <3>1 DEF MovesTo, At
    <3>3. At(ns, j, e, m)
      BY <1>1, <2>1, <3>2, IdFacts, <1>2 DEF MovesTo, At
    <3>4. e \in Ids
      BY <1>1, RenameNames
    <3> QED
      BY <1>1, <1>2, <3>2, <3>3, <3>4, LookupIs DEF At
  <2> QED
    BY <2>1 DEF Target
<1>9. r.path = PathOf2(nodes', r)
  BY <1>1, <1>2, OwnPath DEF Cousin, SameHold
<1>10. Serving("change", r) => \A u \in Threads \ {t} :
          Serving(pc[u], req[u]) => Mutexes(r) \cap Mutexes(req[u]) \subseteq {0}
  BY <1>1, <1>2 DEF QInv, QTree, Apart, Serving
<1> QED
  BY <1>1, <1>7, <1>8, <1>9, <1>10 DEF OwnPart
LEMMA QHide ==
    ASSUME LInv, RInv, QInv, RInv', NEW t \in Threads, hide_node(t)
    PROVE  QInv'
<1>1. pc[t] = "hiding" /\ UNCHANGED <<klook, kopen, case>>
  BY DEF hide_node
<1>2. PICK d, n, i, h : /\ d = GoneDir(req[t]) /\ n = GoneName(req[t]) /\ i = lookup_node(nodes, d, n)
                        /\ h = req[t].hide
  OBVIOUS
<1>3. Taking(t)
  BY <1>1, TakingIs
<1>4. h # Null
  BY <1>1, <1>2, RFacts DEF RStage
<1>5. \/ /\ nodes' = nodes /\ req' = req /\ aborted' = aborted
         /\ \E p \in {"free", "change"} : pc' = [pc EXCEPT ![t] = p]
      \/ i # 0 /\ lookup_node(nodes, d, h) = 0 /\ RenameBad(nodes, d, n, d, h)
      \/ /\ i # 0 /\ lookup_node(nodes, d, h) = 0 /\ req' = req /\ aborted' = aborted
         /\ nodes' = Mark(rename_node(nodes, d, n, d, h), i) /\ pc' = [pc EXCEPT ![t] = AfterHide(req[t])]
  BY <1>2 DEF hide_node, AfterHide, HideTaken
<1>6. CASE /\ nodes' = nodes /\ req' = req /\ aborted' = aborted
           /\ \E p \in {"free", "change"} : pc' = [pc EXCEPT ![t] = p]
  BY <1>1, <1>6, QNoChange
<1>7. CASE i # 0 /\ lookup_node(nodes, d, h) = 0 /\ RenameBad(nodes, d, n, d, h)
  BY <1>2, <1>3, <1>4, <1>7, HideMoves
<1>8. CASE /\ i # 0 /\ lookup_node(nodes, d, h) = 0 /\ req' = req /\ aborted' = aborted
           /\ nodes' = Mark(rename_node(nodes, d, n, d, h), i) /\ pc' = [pc EXCEPT ![t] = AfterHide(req[t])]
  <2>1. NamesMove(t, {i}) /\ MovesTo(nodes, nodes', i, d, h, 0)
    BY <1>2, <1>3, <1>4, <1>8, HideMoves
  <2>2. CASE req[t].op # "rename"
    <3>1. pc' = [pc EXCEPT ![t] = "free"]
      BY <1>8, <2>2 DEF AfterHide
    <3> QED
      BY <1>1, <1>8, <2>1, <3>1, QTaken
  <2>3. CASE req[t].op = "rename"
    <3>1. pc' = [pc EXCEPT ![t] = "change"]
      BY <1>8, <2>3 DEF AfterHide
    <3>2. d = req[t].ino2 /\ n = req[t].name2
      BY <1>2, <2>3 DEF GoneDir, GoneName
    <3>3. OwnPart(t, "change", req[t])
      BY <1>1, <1>2, <1>3, <1>4, <1>8, <2>1, <2>3, <3>2, HideOwn
    <3> QED
      BY <1>1, <1>3, <1>8, <2>1, <3>1, <3>3, QNames
  <2> QED
    BY <2>2, <2>3
<1> QED
  BY <1>5, <1>6, <1>7, <1>8

----------------------------------------------------------------------------
\* At the start.
LEMMA FirstAcyclic ==
    ASSUME Init
    PROVE  Acyclic(nodes)
<1>0. case \in Cases
  BY DEF Init
<1> SUFFICES ASSUME NEW S \in SUBSET (Ids \ {Root}), \A j \in S : nodes[j].parent \in S, S # {}
             PROVE  FALSE
  BY DEF Acyclic
<1>1. S \in SUBSET Nat /\ 0 \notin Ids
  BY <1>0, IdFacts
<1>2. PICK n \in S : \A x \in S : n <= x
  BY <1>1, LeastNumber
<1>3. PICK T, p : T = case.tree /\ p = nodes[n].parent
  OBVIOUS
<1>4. p = IF n \in DOMAIN T THEN T[n][1] ELSE 0
  BY <1>3, FirstIs DEF FirstNode
<1>5. p \in S /\ n <= p /\ p \in Nat /\ n \in Nat
  BY <1>1, <1>2, <1>3
<1>6. n \in DOMAIN T => T[n][1] < n
  BY <1>0, <1>3, TreeFacts
<1> QED
  BY <1>1, <1>4, <1>5, <1>6
LEMMA QInvInit == Init => QInv
<1> SUFFICES ASSUME Init PROVE QInv
  OBVIOUS
<1>0. /\ case \in Cases /\ pc = [t \in Threads |-> "idle"] /\ req = [t \in Threads |-> NoReq]
      /\ klook = [i \in Ids |-> IF i \in DOMAIN case.tree THEN 1 ELSE 0]
      /\ kopen = [i \in Ids |-> IF i = case.opened THEN 1 ELSE 0] /\ aborted = {}
  BY DEF Init
<1>1. \A t \in Threads : pc[t] = "idle" /\ req[t] = NoReq
  BY <1>0
<1>2. /\ NoReq.held = FALSE /\ NoReq.op = "" /\ NoReq.killed = FALSE /\ NoReq.entry = 0
      /\ NoReq.done = FALSE
  BY DEF NoReq
<1>3. HeldOf(req) = {}
  BY <1>1, <1>2 DEF HeldOf, SlotsOf
<1>4. LockOK(nodes, HeldOf(req))
  <2>1. IsFiniteSet(HeldOf(req))
    BY <1>3, FS_EmptySet
  <2>2. ASSUME NEW j \in Ids PROVE Locked(nodes, HeldOf(req), j)
    <3>1. nodes[j].treelock = 0
      BY FirstIs DEF FirstNode
    <3>2. Users(nodes, HeldOf(req), j) = {} /\ Owners(HeldOf(req), j) = {}
      BY <1>3 DEF Users, Owners
    <3>3. Cardinality(Users(nodes, HeldOf(req), j)) = 0
      BY <3>2, FS_EmptySet
    <3> QED
      BY <3>1, <3>2, <3>3 DEF Locked
  <2> QED
    BY <1>3, <2>1, <2>2 DEF LockOK
<1>5. Paths(nodes, req)
  BY <1>1, <1>2 DEF Paths
<1>6. Solos(nodes, pc, req, klook)
  <2>1. Solo(nodes, klook, "idle", NoReq)
    BY <1>2 DEF Solo, Serving, Ahead
  <2> QED
    BY <1>1, <2>1 DEF Solos
<1>7. Targets(nodes, pc, req, klook) /\ Apart(pc, req)
  BY <1>1 DEF Targets, Apart, Ahead, Serving
<1>8. Opens(nodes, pc, req, klook, kopen)
  <2>1. kopen \in [Ids -> Nat]
    BY <1>0
  <2>2. ASSUME NEW i \in Ids, kopen[i] > 0 PROVE KnownIn(klook, i)
    <3>1. i = case.opened /\ 0 \notin Ids /\ case.opened \in {0} \cup DOMAIN case.tree
      BY <1>0, <2>2, TreeFacts, IdFacts
    <3> QED
      BY <1>0, <3>1 DEF KnownIn
  <2>3. ASSUME NEW i \in Ids PROVE nodes[i].open = kopen[i] + Cardinality(Openers(pc, req, i))
    <3>1. Openers(pc, req, i) = {}
      BY <1>1, <1>2 DEF Openers, Opener, Opening, Closing
    <3>2. Cardinality(Openers(pc, req, i)) = 0
      BY <3>1, FS_EmptySet
    <3>3. nodes[i].open = kopen[i] /\ kopen[i] \in Nat
      BY <1>0, FirstIs DEF FirstNode
    <3> QED
      BY <3>2, <3>3
  <2> QED
    BY <2>1, <2>2, <2>3 DEF Opens
<1> QED
  BY <1>0, <1>4, <1>5, <1>6, <1>7, <1>8, FirstAcyclic DEF QInv, QTree
LEMMA QSame ==
    ASSUME QInv, UNCHANGED <<nodes, klook, kopen, pc, req, aborted>>
    PROVE  QInv'
<1>1. QTree(nodes, pc, req, klook)'
  BY DEF QInv, QTree, Acyclic, LockOK, Paths, Solos, Targets, Apart
<1>2. Opens(nodes, pc, req, klook, kopen)'
  BY DEF QInv
<1> QED
  BY <1>1, <1>2 DEF QInv
\* The case of a behaviour stays: no action assigns it.
LEMMA CaseStays ==
    ASSUME [Next]_vars
    PROVE  case' = case
<1>1. CASE UNCHANGED vars \/ fuse_destroy
  BY <1>1 DEF vars, kvars, fuse_destroy
<1>2. CASE (\E op \in case.sent : KernelSend(op)) \/ (\E i \in Ids : KernelForget(i))
  BY <1>2 DEF KernelSend, KernelForget
<1>3. ASSUME NEW t \in Threads, KernelGiveUp(t) PROVE case' = case
  BY <1>3 DEF KernelGiveUp, kvars
<1>4. ASSUME NEW t \in Threads, ThreadStep(t) PROVE case' = case
  <2>1. CASE get_path_common(t) \/ get_path_retry(t) \/ free_path(t) \/ lookup_path(t) \/ reply_entry(t)
    BY <2>1 DEF get_path_common, get_path_retry, free_path, lookup_path, reply_entry, kvars
  <2>2. CASE fuse_lib_open(t) \/ CreateNotRegular(t) \/ CountOpen(t) \/ reply_open(t) \/ fuse_do_release(t)
    BY <2>2 DEF fuse_lib_open, CreateNotRegular, CountOpen, reply_open, fuse_do_release, kvars
  <2>3. CASE UnlinkHidden(t) \/ fuse_lib_getlk(t) \/ fuse_lock_common(t) \/ fuse_flush_common(t) \/ ListLock(t)
    BY <2>3 DEF UnlinkHidden, fuse_lib_getlk, fuse_lock_common, fuse_flush_common, ListLock, kvars
  <2>4. CASE IsOpen(t) \/ hidden_name(t) \/ hide_node(t) \/ Change(t) \/ forget_node(t) \/ forget_node_retry(t)
    BY <2>4 DEF IsOpen, hidden_name, hide_node, Change, forget_node, forget_node_retry, kvars
  <2> QED
    BY <1>4, <2>1, <2>2, <2>3, <2>4 DEF ThreadStep
<1> QED
  BY <1>1, <1>2, <1>3, <1>4 DEF Next
LEMMA QInvNext == LInv /\ RInv /\ QInv /\ ~case.queued /\ [Next]_vars => QInv'
<1> SUFFICES ASSUME LInv, RInv, QInv, ~case.queued, [Next]_vars PROVE QInv'
  OBVIOUS
<1>0. RInv'
  BY RInvNext DEF Onward
<1>1. ASSUME NEW t \in Threads, ThreadStep(t) PROVE QInv'
  BY <1>0, <1>1, QPath, QFree, QLookup, QReplyEntry, QOpen, QCountOpen, QReplyOpen, QRelease, QUnhide, QGetlk,
     QLockCommon, QFlush, QList, QHideName, QHide, QChange, QForget DEF ThreadStep
<1>2. CASE fuse_destroy
  BY <1>2, QSame DEF fuse_destroy, fvars
<1>3. CASE UNCHANGED vars
  BY <1>3, QSame DEF vars, fvars, kvars
<1> QED
  BY <1>0, <1>1, <1>2, <1>3, QSend, QKernelForget, QGiveUp DEF Next

\* What holds as long as no request is given up while it waits for a path.
LEMMA QInvAlways ==
    /\ Init => LInv /\ RInv /\ (~case.queued => QInv)
    /\ LInv /\ RInv /\ (~case.queued => QInv) /\ [Next]_vars => LInv' /\ RInv' /\ (~case.queued => QInv)'
<1>1. Init => LInv /\ RInv /\ (~case.queued => QInv)
  BY LInvInit, RInvInit, QInvInit
<1>2. LInv /\ RInv /\ [Next]_vars => LInv' /\ RInv'
  BY LInvNext, RInvNext DEF Onward
<1>3. LInv /\ RInv /\ (~case.queued => QInv) /\ [Next]_vars => (~case.queued => QInv)'
  <2> SUFFICES ASSUME LInv, RInv, ~case.queued => QInv, [Next]_vars, ~case'.queued PROVE QInv'
    OBVIOUS
  <2>1. case' = case
    BY CaseStays
  <2> QED
    BY <2>1, QInvNext
<1> QED
  BY <1>1, <1>2, <1>3
LEMMA QInvOpen == LInv /\ RInv /\ QInv => CountsExact
<1> SUFFICES ASSUME LInv, RInv, QInv, NEW i \in Ids \ {Root}, Live(nodes, i)
             PROVE  /\ nodes[i].refctr = Cardinality(Children(nodes, i)) + IF nodes[i].nlookup > 0 THEN 1 ELSE 0
                    /\ nodes[i].nlookup = klook[i] + Cardinality(InFlight(i))
                    /\ nodes[i].open = kopen[i] + Cardinality(OpenUsers(i))
  BY DEF CountsExact
<1>1. /\ nodes[i].refctr = Cardinality(Children(nodes, i)) + IF nodes[i].nlookup > 0 THEN 1 ELSE 0
      /\ nodes[i].nlookup = klook[i] + Cardinality(InFlight(i))
  BY RInvExact DEF RefsExact
<1>2. OpenUsers(i) = Openers(pc, req, i)
  BY DEF OpenUsers, Openers, Opener
<1>3. nodes[i].open = kopen[i] + Cardinality(Openers(pc, req, i))
  BY DEF QInv, Opens
<1> QED
  BY <1>1, <1>2, <1>3

\* No assertion of the node table fails, and no handler looks for a node that
\* is gone (get_node, delete_node, unlock_path, rename_node, forget_node),
\* unless the kernel gives up a request that still waits for its path: a
\* FORGET may then delete the node the request is about.
THEOREM NeverAborts == Spec => [](~case.queued => NoAbort)
<1>1. LInv /\ RInv /\ (~case.queued => QInv) => (~case.queued => NoAbort)
  BY DEF QInv, NoAbort
<1> QED
  BY <1>1, QInvAlways, PTL DEF Spec

\* The path that try_get_path gave to the file system stays the path of the
\* node for as long as the thread has the tree lock, whatever the other
\* threads rename, unlink or forget.
THEOREM PathsStable == Spec => [](~case.queued => PathStable)
<1>1. LInv /\ RInv /\ (~case.queued => QInv) => (~case.queued => PathStable)
  BY DEF QInv, QTree, Paths, PathStable
<1> QED
  BY <1>1, QInvAlways, PTL DEF Spec

\* References, lookups and opens are exact: what find_node, forget_node,
\* unhash_name, fuse_lib_open and fuse_do_release keep between them.
THEOREM CountsKept == Spec => [](~case.queued => CountsExact)
<1>1. LInv /\ RInv /\ (~case.queued => QInv) => (~case.queued => CountsExact)
  BY QInvOpen
<1> QED
  BY <1>1, QInvAlways, PTL DEF Spec
=============================================================================
