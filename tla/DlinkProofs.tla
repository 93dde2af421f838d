---------------------------- MODULE DlinkProofs ----------------------------
(***************************************************************************)
(* Proofs about Dlink for any number of nodes and lists: the links of      *)
(* every list are consistent in both directions, as dlink_move assumes,    *)
(* its length is exact, DLINK_FOREACH_SAFE misses no node of its list, and *)
(* the pointers implement the sequences of NodeLists.                      *)
(*                                                                         *)
(* The step of DLINK_FOREACH_SAFE that destroys a node needs that n is     *)
(* another node of the same list, so the invariant also says that the      *)
(* links have no cycle: the nodes can be numbered so that next goes up.    *)
(***************************************************************************)
EXTENDS Dlink, FiniteSetTheorems, SequenceTheorems, TLAPS

Linked(s, where) ==
    /\ \A m \in Nodes : NodeLinked(s, where, m)
    /\ \A l \in Lists : ListLinked(s, where, l)

Ranked(s, where, rank) ==
    \A m \in Nodes : where[m] # NULL /\ s.next[m] # NULL => rank[m] < rank[s.next[m]]

Acyclic(s, where) == \E rank \in [Nodes -> Int] : Ranked(s, where, rank)

OnList(where, l) == {m \in Nodes : where[m] = l}

Counted(s, where) == \A l \in Lists : s.length[l] = Cardinality(OnList(where, l))

Where == [Nodes -> Lists \union {NULL}]

\* What the operations keep.
Sound(s, where) ==
    /\ s \in Links
    /\ where \in Where
    /\ Linked(s, where)
    /\ Acyclic(s, where)
    /\ Counted(s, where)

\* The loop stands at a node of its list and n is the next one.
LoopAt ==
    loop.pos # NULL =>
        loop.list # NULL /\ on[loop.pos] = loop.list /\ loop.n = links.next[loop.pos]

IInv == TypeOK /\ Sound(links, on) /\ LoopAt

-----------------------------------------------------------------------------
\* Putting a node on a list, or taking it off, changes that list's count by one.
LEMMA CountAdded ==
    ASSUME NEW where \in Where, NEW m \in Nodes, NEW l \in Lists, where[m] = NULL,
           NEW k \in Lists
    PROVE  Cardinality(OnList([where EXCEPT ![m] = l], k))
             = IF k = l THEN Cardinality(OnList(where, k)) + 1 ELSE Cardinality(OnList(where, k))
<1>1. IsFiniteSet(OnList(where, k))
  BY NodesFinite, FS_Subset DEF OnList
<1>2. m \notin OnList(where, k)
  BY NullDistinct DEF OnList
<1>3. OnList([where EXCEPT ![m] = l], k)
        = IF k = l THEN OnList(where, k) \union {m} ELSE OnList(where, k)
  BY <1>2 DEF OnList, Where
<1> QED
  BY <1>1, <1>2, <1>3, FS_AddElement

\* The same for a node taken off.
LEMMA CountRemoved ==
    ASSUME NEW where \in Where, NEW m \in Nodes, NEW l \in Lists, where[m] = l,
           NEW k \in Lists
    PROVE  /\ Cardinality(OnList([where EXCEPT ![m] = NULL], k))
                = IF k = l THEN Cardinality(OnList(where, k)) - 1
                  ELSE Cardinality(OnList(where, k))
           /\ Cardinality(OnList([where EXCEPT ![m] = NULL], k)) \in Nat
<1>1. IsFiniteSet(OnList(where, k))
  BY NodesFinite, FS_Subset DEF OnList
<1>2. OnList([where EXCEPT ![m] = NULL], k)
        = IF k = l THEN OnList(where, k) \ {m} ELSE OnList(where, k)
  BY NullDistinct DEF OnList, Where
<1>3. k = l => m \in OnList(where, k)
  BY DEF OnList
<1>4. IsFiniteSet(OnList([where EXCEPT ![m] = NULL], k))
  BY NodesFinite, FS_Subset DEF OnList
<1> QED
  BY <1>1, <1>2, <1>3, <1>4, FS_RemoveElement, FS_CardinalityType

\* dlink_add keeps the lists sound.
LEMMA PushedSound ==
    ASSUME NEW s, NEW where, Sound(s, where), NEW m \in Nodes, NEW l \in Lists, where[m] = NULL
    PROVE  Sound(Pushed(s, m, l), [where EXCEPT ![m] = l])
<1> DEFINE t == Pushed(s, m, l)
           v == [where EXCEPT ![m] = l]
<1>1. s \in Links /\ where \in Where /\ Linked(s, where) /\ Counted(s, where)
  BY DEF Sound
<1>2. PICK rank \in [Nodes -> Int] : Ranked(s, where, rank)
  BY DEF Sound, Acyclic
<1>3. NULL \notin Nodes /\ NULL \notin Lists
  BY NullDistinct
<1>4. /\ t.next = [x \in Nodes |-> IF x = m THEN s.head[l] ELSE s.next[x]]
      /\ t.prev = [x \in Nodes |-> IF x = s.head[l] THEN m ELSE IF x = m THEN NULL ELSE s.prev[x]]
      /\ t.head = [k \in Lists |-> IF k = l THEN m ELSE s.head[k]]
      /\ t.tail = [k \in Lists |-> IF k = l /\ s.head[l] = NULL /\ s.tail[l] = NULL
                                      THEN m ELSE s.tail[k]]
      /\ t.length = [k \in Lists |-> IF k = l THEN s.length[l] + 1 ELSE s.length[k]]
  BY <1>1 DEF Pushed, Set, Links
<1>5. v \in Where /\ v[m] = l /\ \A x \in Nodes : x # m => v[x] = where[x]
  BY <1>1 DEF Where
<1>6. Counted(t, v)
  BY <1>1, <1>4, CountAdded DEF Counted
<1>7. t \in Links
  BY <1>1 DEF Pushed, Set, Links, NodePtr
<1> HIDE DEF t, v
<1>8. s.head[l] # NULL => s.head[l] \in Nodes /\ s.head[l] # m /\ where[s.head[l]] = l
  BY <1>1, <1>3 DEF Links, NodePtr, Linked, ListLinked
<1>9. \A k \in Lists : ListLinked(t, v, k)
  BY <1>1, <1>3, <1>4, <1>5, <1>8 DEF Linked, ListLinked, Links, NodePtr
<1>10. ASSUME NEW x \in Nodes PROVE NodeLinked(t, v, x)
  BY <1>1, <1>3, <1>4, <1>5, <1>8 DEF Linked, ListLinked, NodeLinked, Links, NodePtr, Where
<1>11. Acyclic(t, v)
  <2> DEFINE r == [x \in Nodes |-> IF x # m THEN rank[x]
                                   ELSE IF s.head[l] = NULL THEN 0 ELSE rank[s.head[l]] - 1]
  <2>1. r \in [Nodes -> Int]
    BY <1>8
  <2>2. Ranked(t, v, r)
    <3> SUFFICES ASSUME NEW x \in Nodes, v[x] # NULL, t.next[x] # NULL
                 PROVE  r[x] < r[t.next[x]]
      BY DEF Ranked
    <3>1. CASE x = m
      BY <1>4, <1>8, <3>1
    <3>2. CASE x # m
      <4>1. t.next[x] = s.next[x] /\ where[x] # NULL
        BY <1>4, <1>5, <3>2
      <4>2. s.next[x] \in Nodes /\ s.next[x] # m
        BY <1>1, <1>3, <4>1 DEF Linked, NodeLinked, Links, NodePtr
      <4> QED
        BY <1>2, <3>2, <4>1, <4>2 DEF Ranked
    <3> QED
      BY <3>1, <3>2
  <2> QED
    BY <2>1, <2>2 DEF Acyclic
<1> QED
  BY <1>5, <1>6, <1>7, <1>9, <1>10, <1>11 DEF Sound, Linked, t, v

\* dlink_add_tail keeps the lists sound.
LEMMA PushedTailSound ==
    ASSUME NEW s, NEW where, Sound(s, where), NEW m \in Nodes, NEW l \in Lists, where[m] = NULL
    PROVE  Sound(PushedTail(s, m, l), [where EXCEPT ![m] = l])
<1> DEFINE t == PushedTail(s, m, l)
           v == [where EXCEPT ![m] = l]
<1>1. s \in Links /\ where \in Where /\ Linked(s, where) /\ Counted(s, where)
  BY DEF Sound
<1>2. PICK rank \in [Nodes -> Int] : Ranked(s, where, rank)
  BY DEF Sound, Acyclic
<1>3. NULL \notin Nodes /\ NULL \notin Lists
  BY NullDistinct
<1>4. s.head[l] = NULL <=> s.tail[l] = NULL
  BY <1>1 DEF Linked, ListLinked
<1>5. /\ t.next = [x \in Nodes |-> IF x = s.tail[l] THEN m ELSE IF x = m THEN NULL ELSE s.next[x]]
      /\ t.prev = [x \in Nodes |-> IF x = m THEN s.tail[l] ELSE s.prev[x]]
      /\ t.head = [k \in Lists |-> IF k = l /\ s.head[l] = NULL THEN m ELSE s.head[k]]
      /\ t.tail = [k \in Lists |-> IF k = l THEN m ELSE s.tail[k]]
      /\ t.length = [k \in Lists |-> IF k = l THEN s.length[l] + 1 ELSE s.length[k]]
  BY <1>1, <1>3, <1>4 DEF PushedTail, Set, Links
<1>6. v \in Where /\ v[m] = l /\ \A x \in Nodes : x # m => v[x] = where[x]
  BY <1>1 DEF Where
<1>7. Counted(t, v)
  BY <1>1, <1>5, CountAdded DEF Counted
<1>8. t \in Links
  BY <1>1 DEF PushedTail, Set, Links, NodePtr
<1> HIDE DEF t, v
<1>9. s.tail[l] # NULL => s.tail[l] \in Nodes /\ s.tail[l] # m /\ where[s.tail[l]] = l
  BY <1>1, <1>3 DEF Links, NodePtr, Linked, ListLinked
<1>10. \A k \in Lists : ListLinked(t, v, k)
  BY <1>1, <1>3, <1>4, <1>5, <1>6, <1>9 DEF Linked, ListLinked, Links, NodePtr
<1>11. ASSUME NEW x \in Nodes PROVE NodeLinked(t, v, x)
  BY <1>1, <1>3, <1>4, <1>5, <1>6, <1>9 DEF Linked, ListLinked, NodeLinked, Links, NodePtr, Where
<1>12. Acyclic(t, v)
  <2> DEFINE r == [x \in Nodes |-> IF x # m THEN rank[x]
                                   ELSE IF s.tail[l] = NULL THEN 0 ELSE rank[s.tail[l]] + 1]
  <2>1. r \in [Nodes -> Int]
    BY <1>9
  <2>2. Ranked(t, v, r)
    <3> SUFFICES ASSUME NEW x \in Nodes, v[x] # NULL, t.next[x] # NULL
                 PROVE  r[x] < r[t.next[x]]
      BY DEF Ranked
    <3>1. CASE x = s.tail[l]
      BY <1>3, <1>5, <1>9, <3>1
    <3>2. CASE x # s.tail[l]
      <4>1. x # m /\ t.next[x] = s.next[x] /\ where[x] # NULL
        BY <1>5, <1>6, <3>2
      <4>2. s.next[x] \in Nodes /\ s.next[x] # m
        BY <1>1, <1>3, <4>1 DEF Linked, NodeLinked, Links, NodePtr
      <4> QED
        BY <1>2, <3>2, <4>1, <4>2 DEF Ranked
    <3> QED
      BY <3>1, <3>2
  <2> QED
    BY <2>1, <2>2 DEF Acyclic
<1> QED
  BY <1>6, <1>7, <1>8, <1>10, <1>11, <1>12 DEF Sound, Linked, t, v

\* dlink_add_before keeps the lists sound.
LEMMA InsertedSound ==
    ASSUME NEW s, NEW where, Sound(s, where), NEW m \in Nodes, NEW l \in Lists, where[m] = NULL,
           NEW b \in Nodes, where[b] = l, b # s.head[l]
    PROVE  Sound(Inserted(s, b, m, l), [where EXCEPT ![m] = l])
<1> DEFINE t == Inserted(s, b, m, l)
           v == [where EXCEPT ![m] = l]
           a == s.prev[b]
<1>1. s \in Links /\ where \in Where /\ Linked(s, where) /\ Counted(s, where)
  BY DEF Sound
<1>2. PICK rank \in [Nodes -> Int] : Ranked(s, where, rank)
  BY DEF Sound, Acyclic
<1>3. NULL \notin Nodes /\ NULL \notin Lists
  BY NullDistinct
<1>4. a \in Nodes /\ where[a] = l /\ s.next[a] = b /\ a # m /\ b # m
  BY <1>1, <1>3 DEF Linked, NodeLinked, Links, NodePtr
<1>5. /\ t.next = [x \in Nodes |-> IF x = m THEN b ELSE IF x = a THEN m ELSE s.next[x]]
      /\ t.prev = [x \in Nodes |-> IF x = b THEN m ELSE IF x = m THEN a ELSE s.prev[x]]
      /\ t.head = s.head /\ t.tail = s.tail
      /\ t.length = [k \in Lists |-> IF k = l THEN s.length[l] + 1 ELSE s.length[k]]
  BY <1>1 DEF Inserted, Set, Links
<1>6. v \in Where /\ v[m] = l /\ \A x \in Nodes : x # m => v[x] = where[x]
  BY <1>1 DEF Where
<1>7. Counted(t, v)
  BY <1>1, <1>5, CountAdded DEF Counted
<1>8. t \in Links
  BY <1>1 DEF Inserted, Set, Links, NodePtr
<1> HIDE DEF t, v, a
<1>9. \A k \in Lists : ListLinked(t, v, k)
  BY <1>1, <1>3, <1>4, <1>5, <1>6 DEF Linked, ListLinked, Links, NodePtr
<1>10. ASSUME NEW x \in Nodes PROVE NodeLinked(t, v, x)
  BY <1>1, <1>3, <1>4, <1>5, <1>6 DEF Linked, ListLinked, NodeLinked, Links, NodePtr, Where, a
<1>11. Acyclic(t, v)
  <2> DEFINE r == [x \in Nodes |-> IF x # m THEN 2 * rank[x] ELSE 2 * rank[b] - 1]
  <2>1. r \in [Nodes -> Int]
    OBVIOUS
  <2>2. Ranked(t, v, r)
    <3> SUFFICES ASSUME NEW x \in Nodes, v[x] # NULL, t.next[x] # NULL
                 PROVE  r[x] < r[t.next[x]]
      BY DEF Ranked
    <3>1. CASE x = m
      BY <1>4, <1>5, <3>1
    <3>2. CASE x = a
      <4>1. rank[a] < rank[b]
        BY <1>2, <1>3, <1>4 DEF Ranked
      <4> QED
        BY <1>4, <1>5, <3>2, <4>1
    <3>3. CASE x # m /\ x # a
      <4>1. t.next[x] = s.next[x] /\ where[x] # NULL
        BY <1>5, <1>6, <3>3
      <4>2. s.next[x] \in Nodes /\ s.next[x] # m
        BY <1>1, <1>3, <4>1 DEF Linked, NodeLinked, Links, NodePtr
      <4>3. rank[x] < rank[s.next[x]]
        BY <1>2, <4>1 DEF Ranked
      <4> QED
        BY <3>3, <4>1, <4>2, <4>3
    <3> QED
      BY <3>1, <3>2, <3>3
  <2> QED
    BY <2>1, <2>2 DEF Acyclic
<1> QED
  BY <1>6, <1>7, <1>8, <1>9, <1>10, <1>11 DEF Sound, Linked, t, v

\* dlink_delete keeps the lists sound.
LEMMA UnlinkedSound ==
    ASSUME NEW s, NEW where, Sound(s, where), NEW m \in Nodes, NEW l \in Lists, where[m] = l
    PROVE  Sound(Unlinked(s, m, l), [where EXCEPT ![m] = NULL])
<1> DEFINE t == Unlinked(s, m, l)
           v == [where EXCEPT ![m] = NULL]
           a == s.prev[m]
           b == s.next[m]
<1>1. s \in Links /\ where \in Where /\ Linked(s, where) /\ Counted(s, where)
  BY DEF Sound
<1>2. PICK rank \in [Nodes -> Int] : Ranked(s, where, rank)
  BY DEF Sound, Acyclic
<1>3. NULL \notin Nodes /\ NULL \notin Lists
  BY NullDistinct
<1>4. /\ b # NULL => b \in Nodes /\ where[b] = l /\ s.prev[b] = m /\ rank[m] < rank[b]
      /\ a # NULL => a \in Nodes /\ where[a] = l /\ s.next[a] = m /\ rank[a] < rank[m]
      /\ b = NULL => s.tail[l] = m
      /\ a = NULL => s.head[l] = m
  BY <1>1, <1>2, <1>3 DEF Linked, NodeLinked, Links, NodePtr, Ranked
<1>5. a # m /\ b # m /\ s.prev[m] = a /\ s.next[m] = b
  BY <1>3, <1>4
<1>6. /\ t.next = [x \in Nodes |-> IF x = a THEN b ELSE s.next[x]]
      /\ t.prev = [x \in Nodes |-> IF x = b THEN a ELSE s.prev[x]]
      /\ t.head = [k \in Lists |-> IF k = l /\ a = NULL THEN b ELSE s.head[k]]
      /\ t.tail = [k \in Lists |-> IF k = l /\ b = NULL THEN a ELSE s.tail[k]]
      /\ t.length = [k \in Lists |-> IF k = l THEN s.length[l] - 1 ELSE s.length[k]]
  BY <1>1 DEF Unlinked, Set, Links
<1>7. v \in Where /\ v[m] = NULL /\ \A x \in Nodes : x # m => v[x] = where[x]
  BY <1>1 DEF Where
<1>8. Counted(t, v)
  BY <1>1, <1>6, CountRemoved DEF Counted
<1>9. s.length[l] - 1 \in Nat
  <2>1. Cardinality(OnList(v, l)) = s.length[l] - 1 /\ Cardinality(OnList(v, l)) \in Nat
    BY <1>1, CountRemoved DEF Counted
  <2> QED
    BY <2>1
<1>10. t \in Links
  <2>1. t.next \in [Nodes -> NodePtr] /\ t.prev \in [Nodes -> NodePtr]
    BY <1>1 DEF Unlinked, Set, Links, NodePtr
  <2>2. t.head \in [Lists -> NodePtr] /\ t.tail \in [Lists -> NodePtr]
    BY <1>1 DEF Unlinked, Set, Links, NodePtr
  <2>3. t.length \in [Lists -> Nat]
    BY <1>1, <1>6, <1>9 DEF Links
  <2> QED
    BY <2>1, <2>2, <2>3 DEF Links, Unlinked
<1> HIDE DEF t, v, a, b
<1>11. ASSUME NEW k \in Lists PROVE ListLinked(t, v, k)
  <2>1. /\ ListLinked(s, where, k)
        /\ s.head[k] # NULL => s.head[k] \in Nodes
        /\ s.tail[k] # NULL => s.tail[k] \in Nodes
    BY <1>1 DEF Linked, Links, NodePtr
  <2>2. CASE k # l
    BY <1>3, <1>4, <1>6, <1>7, <2>1, <2>2 DEF ListLinked
  <2>3. CASE k = l
    BY <1>3, <1>4, <1>5, <1>6, <1>7, <2>1, <2>3 DEF ListLinked
  <2> QED
    BY <2>2, <2>3
<1>12. ASSUME NEW x \in Nodes, v[x] # NULL PROVE NodeLinked(t, v, x)
  <2>1. x # m /\ where[x] = v[x] /\ v[x] \in Lists /\ NodeLinked(s, where, x)
    BY <1>1, <1>7, <1>12 DEF Linked, Where
  <2>2. IF t.next[x] = NULL THEN t.tail[v[x]] = x
        ELSE v[t.next[x]] = v[x] /\ t.prev[t.next[x]] = x
    <3>1. s.next[x] # NULL => s.next[x] \in Nodes
      BY <1>1 DEF Links, NodePtr
    <3>2. CASE x = a
      BY <1>3, <1>4, <1>5, <1>6, <1>7, <2>1, <3>2
    <3>3. CASE x # a
      <4>1. t.next[x] = s.next[x] /\ s.next[x] # m
        BY <1>3, <1>5, <1>6, <2>1, <3>3, <1>12 DEF NodeLinked
      <4> QED
        BY <1>3, <1>4, <1>5, <1>6, <1>7, <1>12, <2>1, <3>1, <3>3, <4>1 DEF NodeLinked
    <3> QED
      BY <3>2, <3>3
  <2>3. IF t.prev[x] = NULL THEN t.head[v[x]] = x
        ELSE v[t.prev[x]] = v[x] /\ t.next[t.prev[x]] = x
    <3>1. s.prev[x] # NULL => s.prev[x] \in Nodes
      BY <1>1 DEF Links, NodePtr
    <3>2. CASE x = b
      BY <1>3, <1>4, <1>5, <1>6, <1>7, <2>1, <3>2
    <3>3. CASE x # b
      <4>1. t.prev[x] = s.prev[x] /\ s.prev[x] # m
        BY <1>3, <1>5, <1>6, <2>1, <3>3, <1>12 DEF NodeLinked
      <4> QED
        BY <1>3, <1>4, <1>5, <1>6, <1>7, <1>12, <2>1, <3>1, <3>3, <4>1 DEF NodeLinked
    <3> QED
      BY <3>2, <3>3
  <2> QED
    BY <2>2, <2>3 DEF NodeLinked
<1>13. \A x \in Nodes : NodeLinked(t, v, x)
  BY <1>12 DEF NodeLinked
<1>14. Acyclic(t, v)
  <2>1. Ranked(t, v, rank)
    <3> SUFFICES ASSUME NEW x \in Nodes, v[x] # NULL, t.next[x] # NULL
                 PROVE  rank[x] < rank[t.next[x]]
      BY DEF Ranked
    <3>1. CASE x = a
      BY <1>3, <1>4, <1>6, <3>1
    <3>2. CASE x # a
      <4>1. t.next[x] = s.next[x] /\ where[x] # NULL
        BY <1>6, <1>7, <3>2
      <4> QED
        BY <1>2, <4>1 DEF Ranked
    <3> QED
      BY <3>1, <3>2
  <2> QED
    BY <2>1 DEF Acyclic
<1> QED
  BY <1>7, <1>8, <1>10, <1>11, <1>13, <1>14 DEF Sound, Linked, t, v

\* Clearing the pointers of a node that is on no list disturbs none.
LEMMA ClearedSound ==
    ASSUME NEW s, NEW where, Sound(s, where), NEW m \in Nodes, where[m] = NULL
    PROVE  Sound(Cleared(s, m), where)
<1> DEFINE t == Cleared(s, m)
<1>1. s \in Links /\ where \in Where /\ Linked(s, where) /\ Counted(s, where)
  BY DEF Sound
<1>2. PICK rank \in [Nodes -> Int] : Ranked(s, where, rank)
  BY DEF Sound, Acyclic
<1>3. /\ t.next = [x \in Nodes |-> IF x = m THEN NULL ELSE s.next[x]]
      /\ t.prev = [x \in Nodes |-> IF x = m THEN NULL ELSE s.prev[x]]
      /\ t.head = s.head /\ t.tail = s.tail /\ t.length = s.length
  BY <1>1 DEF Cleared, Set, Links
<1>4. t \in Links /\ Counted(t, where)
  BY <1>1, <1>3 DEF Cleared, Set, Links, NodePtr, Counted
<1> HIDE DEF t
<1>5. NULL \notin Nodes /\ NULL \notin Lists
  BY NullDistinct
<1>6. \A k \in Lists : ListLinked(t, where, k)
  BY <1>1, <1>3, <1>5 DEF Linked, ListLinked, Links, NodePtr
<1>7. ASSUME NEW x \in Nodes PROVE NodeLinked(t, where, x)
  BY <1>1, <1>3, <1>5 DEF Linked, NodeLinked, Links, NodePtr, Where
<1>8. Acyclic(t, where)
  BY <1>2, <1>3 DEF Acyclic, Ranked
<1> QED
  BY <1>1, <1>4, <1>6, <1>7, <1>8 DEF Sound, Linked, t

-----------------------------------------------------------------------------
\* The empty lists are sound.
LEMMA InitIInv == Init => IInv
<1> SUFFICES ASSUME Init PROVE IInv
  OBVIOUS
<1>1. links \in Links /\ on \in Where
  BY DEF Init, Links, NodePtr, Where
<1>2. TypeOK
  BY <1>1 DEF Init, TypeOK, NoLoop, Loops, NodePtr, Where
<1>3. Linked(links, on)
  BY DEF Init, Linked, NodeLinked, ListLinked
<1>4. Acyclic(links, on)
  <2>1. Ranked(links, on, [m \in Nodes |-> 0])
    BY DEF Init, Ranked
  <2> QED
    BY <2>1 DEF Acyclic
<1>5. Counted(links, on)
  <2> SUFFICES ASSUME NEW l \in Lists PROVE Cardinality(OnList(on, l)) = 0
    BY DEF Init, Counted
  <2>1. OnList(on, l) = {}
    BY NullDistinct DEF Init, OnList
  <2> QED
    BY <2>1, FS_EmptySet
<1>6. LoopAt
  BY DEF Init, LoopAt, NoLoop
<1> QED
  BY <1>1, <1>2, <1>3, <1>4, <1>5, <1>6 DEF IInv, Sound

\* An operation outside of any loop.
LEMMA IdleStep ==
    ASSUME IInv, Idle, loop' = loop, Sound(links', on'), data' \in [Nodes -> Data \union {NULL}]
    PROVE  IInv'
<1>1. links' \in Links /\ on' \in [Nodes -> Lists \union {NULL}]
  BY DEF Sound, Where
<1>2. TypeOK'
  BY <1>1 DEF IInv, TypeOK
<1>3. LoopAt'
  BY DEF IInv, LoopAt, Idle
<1>4. Sound(links, on)'
  BY Zenon
<1> QED
  BY <1>2, <1>3, <1>4 DEF IInv

\* Every operation keeps the invariant.
LEMMA NextIInv == IInv /\ [Next]_vars => IInv'
<1> SUFFICES ASSUME IInv, [Next]_vars PROVE IInv'
  OBVIOUS
<1>1. TypeOK /\ Sound(links, on) /\ LoopAt
  BY DEF IInv
<1>2. ASSUME NEW m \in Nodes, NEW l \in Lists, NEW d \in Data, Add(d, m, l) PROVE IInv'
  <2>1. Sound(links', on')
    BY <1>1, <1>2, PushedSound DEF Add
  <2> QED
    BY <1>1, <1>2, <2>1, IdleStep DEF Add, TypeOK
<1>3. ASSUME NEW m \in Nodes, NEW l \in Lists, NEW d \in Data, AddTail(d, m, l) PROVE IInv'
  <2>1. Sound(links', on')
    BY <1>1, <1>3, PushedTailSound DEF AddTail
  <2> QED
    BY <1>1, <1>3, <2>1, IdleStep DEF AddTail, TypeOK
<1>4. ASSUME NEW m \in Nodes, NEW l \in Lists, NEW d \in Data, NEW b \in Nodes,
             AddBefore(b, d, m, l)
      PROVE  IInv'
  <2>1. Sound(links', on')
    <3>1. CASE b = links.head[l]
      BY <1>1, <1>4, <3>1, PushedSound DEF AddBefore
    <3>2. CASE b # links.head[l]
      BY <1>1, <1>4, <3>2, InsertedSound DEF AddBefore
    <3> QED
      BY <3>1, <3>2
  <2> QED
    BY <1>1, <1>4, <2>1, IdleStep DEF AddBefore, TypeOK
<1>5. ASSUME NEW m \in Nodes, NEW l \in Lists, Delete(m, l) PROVE IInv'
  <2>1. Sound(links', on')
    BY <1>1, <1>5, UnlinkedSound DEF Delete
  <2> QED
    BY <1>1, <1>5, <2>1, IdleStep DEF Delete, TypeOK
<1>6. ASSUME NEW l \in Lists, NEW d \in Data, FindDelete(d, l) PROVE IInv'
  <2>1. PICK m \in Nodes : /\ on[m] = l
                           /\ links' = Cleared(Unlinked(links, m, l), m)
                           /\ on' = [on EXCEPT ![m] = NULL]
    BY <1>6 DEF FindDelete, Finds
  <2>2. Sound(Unlinked(links, m, l), on')
    BY <1>1, <2>1, UnlinkedSound
  <2>3. on'[m] = NULL
    BY <1>1, <2>1 DEF TypeOK
  <2>4. Sound(links', on')
    BY <2>1, <2>2, <2>3, ClearedSound
  <2> QED
    BY <1>1, <1>6, <2>4, IdleStep DEF FindDelete, TypeOK
<1>7. ASSUME NEW m \in Nodes, NEW l \in Lists, NEW to \in Lists, Move(m, l, to) PROVE IInv'
  <2> DEFINE s == Unlinked(links, m, l)
             w == [on EXCEPT ![m] = NULL]
  <2>1. on[m] = l /\ links' = Pushed(s, m, to) /\ on' = [on EXCEPT ![m] = to]
    BY <1>7 DEF Move
  <2>2. Sound(s, w)
    BY <1>1, <2>1, UnlinkedSound
  <2>3. w[m] = NULL /\ on' = [w EXCEPT ![m] = to]
    BY <1>1, <2>1 DEF TypeOK
  <2> HIDE DEF s, w
  <2>4. Sound(links', on')
    <3>1. Sound(Pushed(s, m, to), [w EXCEPT ![m] = to])
      BY <2>2, <2>3, PushedSound
    <3> QED
      BY <2>1, <2>3, <3>1
  <2> QED
    BY <1>1, <1>7, <2>4, IdleStep DEF Move, TypeOK
<1>8. links \in Links /\ on \in Where /\ Linked(links, on) /\ Acyclic(links, on)
  BY <1>1 DEF Sound
<1>9. NULL \notin Nodes /\ NULL \notin Lists
  BY NullDistinct
<1>10. ASSUME NEW l \in Lists, LoopStart(l) PROVE IInv'
  <2>1. /\ links' = links /\ data' = data /\ on' = on
        /\ loop' = [list |-> l, pos |-> links.head[l], n |-> After(links, links.head[l]),
                    due |-> {m \in Nodes : on[m] = l}, seen |-> {}]
    BY <1>10 DEF LoopStart
  <2>2. links.head[l] \in NodePtr /\ After(links, links.head[l]) \in NodePtr
    BY <1>8 DEF Links, NodePtr, After
  <2>3. TypeOK'
    BY <1>1, <2>1, <2>2 DEF TypeOK, Loops
  <2>4. LoopAt'
    BY <1>8, <1>9, <2>1 DEF LoopAt, After, Linked, ListLinked
  <2>5. Sound(links, on)'
    BY <1>1, <2>1
  <2> QED
    BY <2>3, <2>4, <2>5 DEF IInv
<1>11. ASSUME loop.pos # NULL
       PROVE  /\ loop.pos \in Nodes /\ loop.list \in Lists /\ on[loop.pos] = loop.list
              /\ loop.n = links.next[loop.pos] /\ loop.n \in NodePtr
              /\ loop.n # NULL => loop.n \in Nodes /\ on[loop.n] = loop.list /\ loop.n # loop.pos
  <2>1. /\ loop.pos \in Nodes /\ loop.list \in Lists /\ on[loop.pos] = loop.list
        /\ loop.n = links.next[loop.pos] /\ loop.n \in NodePtr
    BY <1>1, <1>11 DEF LoopAt, TypeOK, Loops, NodePtr
  <2>2. ASSUME loop.n # NULL
        PROVE  loop.n \in Nodes /\ on[loop.n] = loop.list /\ loop.n # loop.pos
    <3>1. NodeLinked(links, on, loop.pos)
      BY <1>8, <2>1 DEF Linked
    <3>2. PICK rank \in [Nodes -> Int] : Ranked(links, on, rank)
      BY <1>8 DEF Acyclic
    <3>3. rank[loop.pos] < rank[loop.n]
      BY <1>9, <2>1, <2>2, <3>2 DEF Ranked
    <3> QED
      BY <1>9, <2>1, <2>2, <3>1, <3>3 DEF NodeLinked, NodePtr
  <2> QED
    BY <2>1, <2>2
<1>12. CASE LoopKeep
  <2>1. /\ loop.pos # NULL /\ links' = links /\ data' = data /\ on' = on
        /\ loop' = [loop EXCEPT !.pos = loop.n, !.n = After(links, loop.n),
                                !.seen = @ \union {loop.pos}]
    BY <1>12 DEF LoopKeep, Advance
  <2>2. After(links, loop.n) \in NodePtr
    BY <1>8, <1>11, <2>1 DEF After, Links, NodePtr
  <2>3. TypeOK'
    BY <1>1, <1>11, <2>1, <2>2 DEF TypeOK, Loops
  <2>4. loop'.pos = loop.n /\ loop'.n = After(links, loop.n) /\ loop'.list = loop.list
    BY <1>1, <2>1 DEF TypeOK, Loops
  <2>5. LoopAt'
    BY <1>9, <1>11, <2>1, <2>4 DEF LoopAt, After
  <2>6. Sound(links, on)'
    BY <1>1, <2>1
  <2> QED
    BY <2>3, <2>5, <2>6 DEF IInv
<1>13. CASE LoopDestroy
  <2> DEFINE m == loop.pos
             s == Unlinked(links, m, loop.list)
  <2>1. /\ m # NULL /\ links' = Cleared(s, m) /\ data' = [data EXCEPT ![m] = NULL]
        /\ on' = [on EXCEPT ![m] = NULL]
        /\ loop' = [loop EXCEPT !.pos = loop.n, !.n = After(links', loop.n),
                                !.seen = @ \union {m}]
    BY <1>13 DEF LoopDestroy, Advance
  <2>2. Sound(s, on')
    BY <1>1, <1>11, <2>1, UnlinkedSound
  <2>3. m \in Nodes /\ on'[m] = NULL /\ \A x \in Nodes : x # m => on'[x] = on[x]
    BY <1>1, <1>11, <2>1 DEF TypeOK
  <2>4. Sound(links', on')
    <3> HIDE DEF s, m
    <3> QED
      BY <2>1, <2>2, <2>3, ClearedSound
  <2>5. After(links', loop.n) \in NodePtr
    BY <1>11, <2>1, <2>4 DEF Sound, After, Links, NodePtr
  <2>6. loop' \in Loops
    BY <1>1, <1>11, <2>1, <2>5 DEF TypeOK, Loops
  <2>7. TypeOK'
    BY <1>1, <2>1, <2>4, <2>6 DEF TypeOK, Sound, Where
  <2>8. loop'.pos = loop.n /\ loop'.n = After(links', loop.n) /\ loop'.list = loop.list
    BY <1>1, <2>1 DEF TypeOK, Loops
  <2>9. LoopAt'
    BY <1>9, <1>11, <2>1, <2>3, <2>8 DEF LoopAt, After
  <2>10. Sound(links, on)'
    BY <2>4, Zenon
  <2> QED
    BY <2>7, <2>9, <2>10 DEF IInv
<1>14. CASE LoopEnd
  <2>1. links' = links /\ data' = data /\ on' = on /\ loop' = NoLoop
    BY <1>14 DEF LoopEnd
  <2>2. TypeOK' /\ LoopAt'
    BY <1>1, <2>1 DEF TypeOK, LoopAt, NoLoop, Loops, NodePtr
  <2>3. Sound(links, on)'
    BY <1>1, <2>1
  <2> QED
    BY <2>2, <2>3 DEF IInv
<1>15. CASE UNCHANGED vars
  <2>1. links' = links /\ data' = data /\ on' = on /\ loop' = loop
    BY <1>15 DEF vars
  <2>2. TypeOK' /\ LoopAt'
    BY <1>1, <2>1 DEF TypeOK, LoopAt
  <2>3. Sound(links, on)'
    BY <1>1, <2>1
  <2> QED
    BY <2>2, <2>3 DEF IInv
<1> QED
  BY <1>2, <1>3, <1>4, <1>5, <1>6, <1>7, <1>10, <1>12, <1>13, <1>14, <1>15 DEF Next

\* The lists stay sound under every history of operations and loops.
THEOREM ListsSound == Spec => []IInv
BY InitIInv, NextIInv, PTL DEF Spec

\* length, an unsigned long, never goes below zero, and no pointer is wild.
THEOREM ListTypes == Spec => []TypeOK
<1>1. IInv => TypeOK
  BY DEF IInv
<1> QED
  BY <1>1, ListsSound, PTL

\* What dlink_move assumes of every list holds.
THEOREM ListsLinked == Spec => []WellLinked
<1>1. IInv => WellLinked
  BY DEF IInv, Sound, Linked, WellLinked
<1> QED
  BY <1>1, ListsSound, PTL

\* The length of every list is the number of nodes on it.
THEOREM ListLengths == Spec => []LengthExact
<1>1. IInv => LengthExact
  BY DEF IInv, Sound, Counted, OnList, LengthExact
<1> QED
  BY <1>1, ListsSound, PTL
-----------------------------------------------------------------------------
(***************************************************************************)
(* DLINK_FOREACH_SAFE.  What the loop has yet to be at is the rest of its  *)
(* list from pos on: pos is the first of it, and it is closed under next,  *)
(* and under prev except at pos.                                           *)
(***************************************************************************)
Unseen == loop.due \ loop.seen

LoopRest ==
    /\ loop.seen \subseteq loop.due
    /\ Idle => loop.due = {}
    /\ \A m \in Unseen : on[m] = loop.list
    /\ loop.pos # NULL => loop.pos \in Unseen /\ links.prev[loop.pos] \notin Unseen
    /\ \A m \in Unseen : links.next[m] # NULL => links.next[m] \in Unseen
    /\ \A m \in Unseen : m # loop.pos => links.prev[m] \in Unseen

\* A finite set of nodes has one that is numbered lowest.
LEMMA LowestNode ==
    ASSUME NEW S \in SUBSET Nodes, S # {}, NEW rank \in [Nodes -> Int]
    PROVE  \E m \in S : \A x \in S : rank[m] <= rank[x]
<1> DEFINE Below(m) == {x \in S : rank[x] < rank[m]}
           B == {Below(m) : m \in S}
<1>1. \A m \in S : Below(m) \in FiniteSubsetsOf(S)
  BY NodesFinite, FS_Subset DEF FiniteSubsetsOf
<1>2. B \subseteq FiniteSubsetsOf(S) /\ B # {}
  BY <1>1
<1>3. PICK X \in B : \A Y \in B : ~(<<Y, X>> \in StrictSubsetOrdering(S))
  <2> HIDE DEF B
  <2> QED
    BY <1>2, FS_StrictSubsetOrderingWellFounded, WFMin
<1>4. PICK m \in S : X = Below(m)
  BY <1>3
<1>5. ASSUME NEW x \in S, ~(rank[m] <= rank[x]) PROVE FALSE
  <2>1. x \in Below(m) /\ x \notin Below(x) /\ Below(x) \subseteq Below(m)
    BY <1>5
  <2>2. <<Below(x), Below(m)>> \in StrictSubsetOrdering(S)
    BY <2>1 DEF StrictSubsetOrdering
  <2> QED
    BY <1>3, <1>4, <2>2
<1> QED
  BY <1>5

\* When pos is NULL nothing is left: the lowest node of the rest would have
\* one before it.
LEMMA RestEmpty == ASSUME IInv, LoopRest, loop.pos = NULL PROVE Unseen = {}
<1> SUFFICES ASSUME Unseen # {} PROVE FALSE
  OBVIOUS
<1>1. PICK rank \in [Nodes -> Int] : Ranked(links, on, rank)
  BY DEF IInv, Sound, Acyclic
<1>2. Unseen \subseteq Nodes /\ NULL \notin Nodes /\ NULL \notin Lists
  BY NullDistinct DEF IInv, TypeOK, Loops, Unseen
<1>3. PICK m \in Unseen : \A x \in Unseen : rank[m] <= rank[x]
  BY <1>1, <1>2, LowestNode
<1>4. m # loop.pos /\ links.prev[m] \in Unseen /\ on[m] = loop.list
  BY <1>2, <1>3 DEF LoopRest
<1>5. ~Idle /\ loop.list # NULL
  BY <1>3 DEF LoopRest, Unseen, Idle
<1>6. links.next[links.prev[m]] = m /\ on[links.prev[m]] # NULL
  BY <1>2, <1>3, <1>4, <1>5 DEF IInv, Sound, Linked, NodeLinked
<1>7. rank[links.prev[m]] < rank[m]
  BY <1>1, <1>2, <1>3, <1>4, <1>6 DEF Ranked
<1> QED
  BY <1>1, <1>2, <1>3, <1>4, <1>7

\* Every step keeps what the loop needs.
LEMMA StepLoopRest == ASSUME IInv, LoopRest, [Next]_vars PROVE LoopRest'
<1>1. /\ links \in Links /\ on \in Where /\ loop \in Loops /\ LoopAt
      /\ \A m \in Nodes : NodeLinked(links, on, m)
      /\ \A l \in Lists : ListLinked(links, on, l)
  BY DEF IInv, TypeOK, Sound, Linked
<1>2. NULL \notin Nodes /\ NULL \notin Lists
  BY NullDistinct
<1>3. CASE Idle /\ loop' = loop
  <2>1. loop.pos = NULL
    BY <1>1, <1>3 DEF LoopAt, Idle
  <2> QED
    BY <1>3, <2>1 DEF LoopRest, Unseen, Idle
<1>4. CASE links' = links /\ on' = on /\ loop' = loop
  BY <1>4 DEF LoopRest, Unseen, Idle
<1>5. ASSUME NEW l \in Lists, LoopStart(l) PROVE LoopRest'
  <2>1. /\ links' = links /\ on' = on /\ loop'.list = l /\ loop'.pos = links.head[l]
        /\ loop'.due = OnList(on, l) /\ loop'.seen = {} /\ Unseen' = OnList(on, l)
    BY <1>5 DEF LoopStart, OnList, Unseen
  <2>2. ~Idle'
    BY <1>2, <2>1 DEF Idle
  <2>3. loop'.pos # NULL => loop'.pos \in Unseen' /\ links'.prev[loop'.pos] \notin Unseen'
    BY <1>1, <1>2, <2>1 DEF ListLinked, OnList, Links, NodePtr
  <2>4. ASSUME NEW m \in Unseen'
        PROVE  /\ on'[m] = loop'.list
               /\ links'.next[m] # NULL => links'.next[m] \in Unseen'
               /\ m # loop'.pos => links'.prev[m] \in Unseen'
    <3>1. m \in Nodes /\ on[m] = l
      BY <2>1, <2>4 DEF OnList
    <3>2. NodeLinked(links, on, m)
      BY <1>1, <3>1
    <3> QED
      BY <1>1, <1>2, <2>1, <3>1, <3>2 DEF NodeLinked, OnList, Links, NodePtr
  <2> QED
    BY <2>1, <2>2, <2>3, <2>4 DEF LoopRest
<1>6. ASSUME loop.pos # NULL
      PROVE  /\ loop.pos \in Nodes /\ loop.list \in Lists /\ on[loop.pos] = loop.list
             /\ loop.n = links.next[loop.pos]
             /\ loop.n # NULL => /\ loop.n \in Nodes /\ on[loop.n] = loop.list
                                 /\ loop.n # loop.pos /\ links.prev[loop.n] = loop.pos
             /\ loop.pos \in Unseen /\ Unseen \subseteq Nodes
  <2>1. /\ loop.pos \in Nodes /\ loop.list \in Lists /\ on[loop.pos] = loop.list
        /\ loop.n = links.next[loop.pos] /\ loop.n \in NodePtr
    BY <1>1, <1>6 DEF LoopAt, Loops, NodePtr
  <2>2. loop.pos \in Unseen /\ Unseen \subseteq Nodes
    BY <1>1, <1>6 DEF LoopRest, Unseen, Loops
  <2>3. ASSUME loop.n # NULL
        PROVE  /\ loop.n \in Nodes /\ on[loop.n] = loop.list
               /\ loop.n # loop.pos /\ links.prev[loop.n] = loop.pos
    <3>1. NodeLinked(links, on, loop.pos)
      BY <1>1, <2>1
    <3>2. PICK rank \in [Nodes -> Int] : Ranked(links, on, rank)
      BY DEF IInv, Sound, Acyclic
    <3>3. rank[loop.pos] < rank[loop.n]
      BY <1>2, <2>1, <2>3, <3>2 DEF Ranked
    <3> QED
      BY <1>2, <2>1, <2>3, <3>1, <3>3 DEF NodeLinked, NodePtr
  <2> QED
    BY <2>1, <2>2, <2>3
<1>7. ASSUME LoopKeep \/ LoopDestroy
      PROVE  /\ loop.pos # NULL /\ loop'.pos = loop.n /\ loop'.list = loop.list
             /\ loop'.due = loop.due /\ loop'.seen = loop.seen \union {loop.pos}
             /\ Unseen' = Unseen \ {loop.pos}
  <2>1. loop.pos # NULL /\ (Advance(links) \/ Advance(links'))
    BY <1>7 DEF LoopKeep, LoopDestroy
  <2> QED
    BY <1>1, <2>1 DEF Advance, Loops, Unseen
<1>8. ASSUME LoopKeep \/ LoopDestroy, NEW m \in Unseen'
      PROVE  /\ m \in Unseen /\ m \in Nodes /\ m # loop.pos /\ on[m] = loop.list
             /\ links.next[m] # NULL => links.next[m] \in Unseen'
             /\ m # loop.n => links.prev[m] \in Unseen'
             /\ links.next[m] # loop.pos /\ (m # loop.n => links.prev[m] # loop.pos)
  <2>1. m \in Unseen /\ m \in Nodes /\ m # loop.pos /\ on[m] = loop.list
    BY <1>6, <1>7, <1>8 DEF LoopRest
  <2>2. NodeLinked(links, on, m) /\ loop.list # NULL
    BY <1>1, <1>2, <1>6, <1>7, <1>8, <2>1
  <2>3. links.next[m] # loop.pos
    BY <1>2, <1>6, <1>7, <1>8, <2>1, <2>2 DEF LoopRest, NodeLinked
  <2>4. m # loop.n => links.prev[m] # loop.pos
    BY <1>2, <1>6, <1>7, <1>8, <2>1, <2>2 DEF NodeLinked
  <2> QED
    BY <1>7, <1>8, <2>1, <2>3, <2>4 DEF LoopRest
<1>9. ASSUME LoopKeep \/ LoopDestroy, loop.n # NULL
      PROVE  loop.n \in Unseen' /\ loop.pos \notin Unseen'
  BY <1>6, <1>7, <1>9 DEF LoopRest
<1>10. ASSUME LoopKeep \/ LoopDestroy
       PROVE  loop'.seen \subseteq loop'.due /\ ~Idle'
  BY <1>2, <1>6, <1>7, <1>10 DEF LoopRest, Idle, Unseen
<1>11. CASE LoopKeep
  <2>1. links' = links /\ on' = on
    BY <1>11 DEF LoopKeep
  <2> QED
    BY <1>6, <1>7, <1>8, <1>9, <1>10, <1>11, <2>1 DEF LoopRest
<1>12. CASE LoopDestroy
  <2> DEFINE p == loop.pos
  <2>1. /\ links'.next = [q \in Nodes |-> IF q = p THEN NULL
                                          ELSE IF q = links.prev[p] THEN links.next[p]
                                          ELSE links.next[q]]
        /\ links'.prev = [q \in Nodes |-> IF q = p THEN NULL
                                          ELSE IF q = links.next[p] THEN links.prev[p]
                                          ELSE links.prev[q]]
        /\ on' = [on EXCEPT ![p] = NULL]
    BY <1>1, <1>12 DEF LoopDestroy, Cleared, Unlinked, Set, Links
  <2>2. \A m \in Nodes : m # p => on'[m] = on[m]
    BY <1>1, <1>6, <1>7, <1>12, <2>1 DEF Where
  <2>3. links.prev[p] \notin Unseen
    BY <1>7, <1>12 DEF LoopRest
  <2>4. ASSUME NEW m \in Unseen'
        PROVE  /\ links'.next[m] = links.next[m]
               /\ m # loop.n => links'.prev[m] = links.prev[m]
    BY <1>6, <1>7, <1>8, <1>12, <2>1, <2>3, <2>4
  <2>5. loop.n # NULL => links'.prev[loop.n] \notin Unseen'
    BY <1>6, <1>7, <1>12, <2>1, <2>3
  <2> QED
    BY <1>7, <1>8, <1>9, <1>10, <1>12, <2>2, <2>4, <2>5 DEF LoopRest
<1>13. CASE LoopEnd
  <2>1. loop' = NoLoop
    BY <1>13 DEF LoopEnd
  <2> QED
    BY <2>1 DEF LoopRest, Unseen, Idle, NoLoop
<1>14. [Next]_vars => \/ Idle /\ loop' = loop
                      \/ links' = links /\ on' = on /\ loop' = loop
                      \/ \E l \in Lists : LoopStart(l)
                      \/ LoopKeep \/ LoopDestroy \/ LoopEnd
  BY DEF Next, vars, Add, AddTail, AddBefore, Delete, FindDelete, Move
<1> QED
  BY <1>3, <1>4, <1>5, <1>11, <1>12, <1>13, <1>14

\* DLINK_FOREACH_SAFE visits every node of its list and no other, whichever
\* of them its body destroys.
THEOREM LoopsComplete == Spec => []LoopComplete
<1>1. Init => LoopRest
  BY DEF Init, NoLoop, LoopRest, Unseen, Idle
<1>2. IInv /\ LoopRest => LoopComplete
  BY RestEmpty DEF LoopComplete, LoopRest, Unseen
<1> QED
  BY <1>1, <1>2, ListsSound, StepLoopRest, PTL DEF Spec

-----------------------------------------------------------------------------
(***************************************************************************)
(* The lists as sequences.  A sequence spells a list when its nodes are    *)
(* those on the list, once each, in the order of their next pointers.      *)
(***************************************************************************)
Spells(s, where, l, q) ==
    /\ q \in Seq(Nodes)
    /\ s.head[l] = IF q = <<>> THEN NULL ELSE q[1]
    /\ \A i \in 1 .. Len(q) : s.next[q[i]] = IF i = Len(q) THEN NULL ELSE q[i + 1]
    /\ \A i, j \in 1 .. Len(q) : q[i] = q[j] => i = j
    /\ \A m \in Nodes : where[m] = l <=> \E i \in 1 .. Len(q) : q[i] = m

Spelled(s, where, f) ==
    /\ f \in [Lists -> Seq(Nodes)]
    /\ \A l \in Lists : Spells(s, where, l, f[l])

\* A nonempty set of natural numbers has a least one.
LEMMA LeastNumber ==
    ASSUME NEW S \in SUBSET Nat, S # {}
    PROVE  \E n \in S : \A x \in S : n <= x
<1> DEFINE B == {0 .. n : n \in S}
<1>1. \A n \in Nat : 0 .. n \subseteq Nat /\ IsFiniteSet(0 .. n)
  BY FS_Interval
<1>2. B \subseteq FiniteSubsetsOf(Nat) /\ B # {}
  BY <1>1 DEF FiniteSubsetsOf
<1>3. PICK X \in B : \A Y \in B : ~(<<Y, X>> \in StrictSubsetOrdering(Nat))
  <2> HIDE DEF B
  <2> QED
    BY <1>2, FS_StrictSubsetOrderingWellFounded, WFMin
<1>4. PICK n \in S : X = 0 .. n
  BY <1>3
<1>5. ASSUME NEW x \in S, ~(n <= x) PROVE FALSE
  <2>1. n \in 0 .. n /\ n \notin 0 .. x /\ 0 .. x \subseteq 0 .. n
    BY <1>5
  <2>2. <<0 .. x, 0 .. n>> \in StrictSubsetOrdering(Nat)
    BY <1>1, <2>1 DEF StrictSubsetOrdering
  <2> QED
    BY <1>3, <1>4, <2>2
<1> QED
  BY <1>5

\* Induction, with the numbers that satisfy the claim as a set.
LEMMA SetInduction ==
    ASSUME NEW S, 0 \in S, \A n \in Nat : n \in S => n + 1 \in S
    PROVE  Nat \subseteq S
<1> SUFFICES ASSUME Nat \ S # {} PROVE FALSE
  OBVIOUS
<1>1. PICK x \in Nat \ S : \A y \in Nat \ S : x <= y
  BY LeastNumber
<1>2. x # 0 /\ x - 1 \in Nat
  BY <1>1
<1>3. x - 1 \in S
  BY <1>1, <1>2
<1> QED
  BY <1>2, <1>3

\* No list is longer than there are nodes.
LEMMA SpelledShort ==
    ASSUME NEW s, NEW where, NEW l \in Lists, NEW q, Spells(s, where, l, q)
    PROVE  Len(q) \in Nat /\ Cardinality(Nodes) \in Nat /\ Len(q) <= Cardinality(Nodes)
<1>1. q \in Seq(Nodes) /\ Len(q) \in Nat
  BY DEF Spells
<1>2. q \in Injection(1 .. Len(q), Nodes)
  BY <1>1 DEF Spells, Injection, IsInjective
<1>3. Cardinality(1 .. Len(q)) <= Cardinality(Nodes)
  BY <1>2, NodesFinite, FS_Injection
<1>4. Cardinality(1 .. Len(q)) = Len(q)
  BY <1>1, FS_Interval
<1>5. Cardinality(Nodes) \in Nat
  BY NodesFinite, FS_CardinalityType
<1> QED
  BY <1>1, <1>3, <1>4, <1>5

\* A walk from the head finds the sequence that spells the list.
LEMMA WalkSpelled ==
    ASSUME NEW s \in Links, NEW where, NEW l \in Lists, NEW q, Spells(s, where, l, q)
    PROVE  Walk(s, l) = q
<1> DEFINE N == Cardinality(Nodes)
           Goes(g) == [i \in 0 .. N |-> IF i = 0 THEN s.head[l]
                                        ELSE IF g[i - 1] = NULL THEN NULL ELSE s.next[g[i - 1]]]
           at == CHOOSE g : g = Goes(g)
           h == [i \in 0 .. N |-> IF i < Len(q) THEN q[i + 1] ELSE NULL]
<1>1. Walk(s, l) = [i \in 1 .. Cardinality({i \in DOMAIN at : at[i] # NULL}) |-> at[i - 1]]
  BY DEF Walk
<1>2. q \in Seq(Nodes) /\ Len(q) \in Nat /\ N \in Nat /\ Len(q) <= N /\ NULL \notin Nodes
  <2>1. q \in Seq(Nodes) /\ NULL \notin Nodes
    BY NullDistinct DEF Spells
  <2>2. Len(q) \in Nat /\ Cardinality(Nodes) \in Nat /\ Len(q) <= Cardinality(Nodes)
    BY SpelledShort
  <2> QED
    BY <2>1, <2>2
<1>3. \A i \in 1 .. Len(q) : q[i] \in Nodes
  BY <1>2
<1>4. h = Goes(h)
  <2>1. ASSUME NEW i \in 0 .. N PROVE h[i] = Goes(h)[i]
    <3>1. CASE i = 0
      BY <1>2, <3>1 DEF Spells
    <3>2. CASE i # 0
      <4>1. i - 1 \in 0 .. N /\ i \in 1 .. N
        BY <1>2, <3>2
      <4>2. CASE i - 1 < Len(q)
        <5>1. h[i - 1] = q[i] /\ q[i] \in Nodes /\ i \in 1 .. Len(q)
          BY <1>2, <1>3, <4>1, <4>2
        <5>2. s.next[q[i]] = IF i = Len(q) THEN NULL ELSE q[i + 1]
          BY <5>1 DEF Spells
        <5> QED
          BY <1>2, <3>2, <4>1, <4>2, <5>1, <5>2
      <4>3. CASE ~(i - 1 < Len(q))
        BY <1>2, <3>2, <4>1, <4>3
      <4> QED
        BY <4>2, <4>3
    <3> QED
      BY <3>1, <3>2
  <2> HIDE DEF N
  <2> QED
    BY <2>1
<1>5. at = Goes(at)
  <2>1. \E g : g = Goes(g)
    BY <1>4
  <2> HIDE DEF Goes
  <2> QED
    BY <2>1
<1> HIDE DEF at, h, N
<1>6. at = [i \in 0 .. N |-> IF i = 0 THEN s.head[l]
                             ELSE IF at[i - 1] = NULL THEN NULL ELSE s.next[at[i - 1]]]
  BY <1>5
<1>7. h = [i \in 0 .. N |-> IF i = 0 THEN s.head[l]
                            ELSE IF h[i - 1] = NULL THEN NULL ELSE s.next[h[i - 1]]]
  BY <1>4
<1> HIDE DEF Goes
<1>8. \A i \in 0 .. N : at[i] = h[i]
  <2> DEFINE S == {i \in Nat : i <= N => at[i] = h[i]}
  <2>1. 0 \in S
    BY <1>2, <1>6, <1>7
  <2>2. ASSUME NEW n \in Nat, n \in S PROVE n + 1 \in S
    <3> SUFFICES ASSUME n + 1 <= N PROVE at[n + 1] = h[n + 1]
      OBVIOUS
    <3>1. at[n] = h[n] /\ n + 1 \in 0 .. N /\ n + 1 # 0 /\ (n + 1) - 1 = n
      BY <1>2, <2>2
    <3>2. at[n + 1] = IF at[n] = NULL THEN NULL ELSE s.next[at[n]]
      <4> DEFINE e(i) == IF i = 0 THEN s.head[l] ELSE IF at[i - 1] = NULL THEN NULL ELSE s.next[at[i - 1]]
      <4>1. at = [i \in 0 .. N |-> e(i)]
        BY <1>6
      <4>2. at[n + 1] = e(n + 1)
        <5> HIDE DEF e
        <5> QED
          BY <3>1, <4>1
      <4> QED
        BY <3>1, <4>2
    <3>3. h[n + 1] = IF h[n] = NULL THEN NULL ELSE s.next[h[n]]
      <4> DEFINE e(i) == IF i = 0 THEN s.head[l] ELSE IF h[i - 1] = NULL THEN NULL ELSE s.next[h[i - 1]]
      <4>1. h = [i \in 0 .. N |-> e(i)]
        BY <1>7
      <4>2. h[n + 1] = e(n + 1)
        <5> HIDE DEF e
        <5> QED
          BY <3>1, <4>1
      <4> QED
        BY <3>1, <4>2
    <3> QED
      BY <3>1, <3>2, <3>3
  <2>3. Nat \subseteq S
    <3> HIDE DEF S
    <3> QED
      BY <2>1, <2>2, SetInduction
  <2> QED
    BY <1>2, <2>3
<1>9. {i \in DOMAIN at : at[i] # NULL} = 0 .. Len(q) - 1
  <2>1. DOMAIN at = 0 .. N
    BY <1>6
  <2>2. ASSUME NEW i \in 0 .. N PROVE at[i] # NULL <=> i \in 0 .. Len(q) - 1
    <3>1. at[i] = IF i < Len(q) THEN q[i + 1] ELSE NULL
      BY <1>8 DEF h
    <3>2. i < Len(q) => q[i + 1] \in Nodes
      BY <1>2, <1>3
    <3> QED
      BY <1>2, <3>1, <3>2
  <2>3. 0 .. Len(q) - 1 \subseteq 0 .. N
    BY <1>2
  <2> QED
    BY <2>1, <2>2, <2>3
<1>10. Cardinality(0 .. Len(q) - 1) = Len(q)
  <2>1. 0 \in Int /\ Len(q) - 1 \in Int
    BY <1>2
  <2>2. Cardinality(0 .. Len(q) - 1) = IF 0 > Len(q) - 1 THEN 0 ELSE Len(q) - 1 - 0 + 1
    BY <2>1, FS_Interval
  <2> QED
    BY <1>2, <2>2
<1>11. Walk(s, l) = [i \in 1 .. Len(q) |-> at[i - 1]]
  BY <1>1, <1>9, <1>10
<1>12. ASSUME NEW i \in 1 .. Len(q) PROVE at[i - 1] = q[i]
  BY <1>2, <1>8 DEF h
<1>13. q = [i \in 1 .. Len(q) |-> q[i]]
  BY <1>2
<1> QED
  BY <1>11, <1>12, <1>13

\* An operation leaves the other lists as they are.
LEMMA OtherSpelled ==
    ASSUME NEW s, NEW where, NEW t, NEW v, NEW k \in Lists, NEW q, Spells(s, where, k, q),
           t.head[k] = s.head[k], \A x \in Nodes : where[x] = k => t.next[x] = s.next[x],
           \A x \in Nodes : v[x] = k <=> where[x] = k
    PROVE  Spells(t, v, k, q)
<1>1. q \in Seq(Nodes) /\ \A i \in 1 .. Len(q) : q[i] \in Nodes
  BY DEF Spells
<1>2. \A i \in 1 .. Len(q) : where[q[i]] = k
  BY <1>1 DEF Spells
<1> QED
  BY <1>1, <1>2 DEF Spells

\* An operation on list l leaves the pointers and the nodes of the others.
OthersKept(s, where, t, v, l) ==
    \A k \in Lists : k # l =>
        /\ t.head[k] = s.head[k]
        /\ \A x \in Nodes : where[x] = k => t.next[x] = s.next[x]
        /\ \A x \in Nodes : v[x] = k <=> where[x] = k

\* The changed list and the others together.
LEMMA AllSpelled ==
    ASSUME NEW s, NEW where, NEW t, NEW v, NEW f, Spelled(s, where, f), NEW l \in Lists, NEW p,
           Spells(t, v, l, p), OthersKept(s, where, t, v, l)
    PROVE  Spelled(t, v, [f EXCEPT ![l] = p])
<1>1. p \in Seq(Nodes) /\ f \in [Lists -> Seq(Nodes)]
  BY DEF Spelled, Spells
<1>2. ASSUME NEW k \in Lists PROVE Spells(t, v, k, [f EXCEPT ![l] = p][k])
  <2>1. CASE k = l
    BY <1>1, <2>1
  <2>2. CASE k # l
    <3>1. Spells(s, where, k, f[k])
      BY DEF Spelled
    <3>2. Spells(t, v, k, f[k])
      BY <2>2, <3>1, OtherSpelled DEF OthersKept
    <3> QED
      BY <1>1, <2>2, <3>2
  <2> QED
    BY <2>1, <2>2
<1> QED
  BY <1>1, <1>2 DEF Spelled

\* dlink_add puts the node before the others.
LEMMA PushedSpelled ==
    ASSUME NEW s, NEW where, Sound(s, where), NEW f, Spelled(s, where, f),
           NEW m \in Nodes, NEW l \in Lists, where[m] = NULL
    PROVE  Spelled(Pushed(s, m, l), [where EXCEPT ![m] = l], [f EXCEPT ![l] = <<m>> \o f[l]])
<1> DEFINE t == Pushed(s, m, l)
           v == [where EXCEPT ![m] = l]
           q == f[l]
           p == <<m>> \o q
<1>1. s \in Links /\ where \in Where /\ NULL \notin Nodes /\ NULL \notin Lists
  BY NullDistinct DEF Sound
<1>2. /\ t.next = [x \in Nodes |-> IF x = m THEN s.head[l] ELSE s.next[x]]
      /\ t.head = [k \in Lists |-> IF k = l THEN m ELSE s.head[k]]
  BY <1>1 DEF Pushed, Set, Links
<1>3. v[m] = l /\ \A x \in Nodes : x # m => v[x] = where[x]
  BY <1>1 DEF Where
<1>4. Spells(s, where, l, q)
  BY DEF Spelled
<1> HIDE DEF t, v, q
<1>5. q \in Seq(Nodes) /\ Len(q) \in Nat /\ \A i \in 1 .. Len(q) : q[i] \in Nodes
  BY <1>4 DEF Spells
<1>6. /\ p \in Seq(Nodes) /\ Len(p) = Len(q) + 1 /\ p[1] = m /\ p # <<>>
      /\ \A i \in 1 .. Len(q) : p[i + 1] = q[i]
  BY <1>5
<1> HIDE DEF p
<1>7. \A i \in 1 .. Len(q) : q[i] # m
  BY <1>1, <1>4, <1>5 DEF Spells
<1>8. \A i \in 1 .. Len(p) : i = 1 \/ (i - 1 \in 1 .. Len(q) /\ p[i] = q[i - 1])
  BY <1>5, <1>6
<1>9. Spells(t, v, l, p)
  <2>1. t.head[l] = IF p = <<>> THEN NULL ELSE p[1]
    BY <1>2, <1>6
  <2>2. ASSUME NEW i \in 1 .. Len(p) PROVE t.next[p[i]] = IF i = Len(p) THEN NULL ELSE p[i + 1]
    <3>1. CASE i = 1
      <4>1. t.next[p[1]] = s.head[l]
        BY <1>2, <1>6
      <4>2. q = <<>> <=> Len(q) = 0
        BY <1>5
      <4> QED
        BY <1>4, <1>5, <1>6, <3>1, <4>1, <4>2 DEF Spells
    <3>2. CASE i # 1
      <4>1. i - 1 \in 1 .. Len(q) /\ p[i] = q[i - 1] /\ t.next[p[i]] = s.next[q[i - 1]]
        BY <1>2, <1>5, <1>7, <1>8, <3>2
      <4>2. s.next[q[i - 1]] = IF i - 1 = Len(q) THEN NULL ELSE q[(i - 1) + 1]
        BY <1>4, <4>1 DEF Spells
      <4> QED
        BY <1>5, <1>6, <3>2, <4>1, <4>2
    <3> QED
      BY <3>1, <3>2
  <2>3. ASSUME NEW i \in 1 .. Len(p), NEW j \in 1 .. Len(p), p[i] = p[j] PROVE i = j
    <3>1. CASE i = 1 \/ j = 1
      BY <1>6, <1>7, <1>8, <2>3, <3>1
    <3>2. CASE i # 1 /\ j # 1
      <4>1. i - 1 \in 1 .. Len(q) /\ j - 1 \in 1 .. Len(q) /\ q[i - 1] = q[j - 1]
        BY <1>8, <2>3, <3>2
      <4>2. i - 1 = j - 1
        BY <1>4, <4>1 DEF Spells
      <4> QED
        BY <4>2
    <3> QED
      BY <3>1, <3>2
  <2>4. ASSUME NEW x \in Nodes PROVE v[x] = l <=> \E i \in 1 .. Len(p) : p[i] = x
    <3>1. x # m => (v[x] = l <=> \E i \in 1 .. Len(q) : q[i] = x)
      BY <1>3, <1>4 DEF Spells
    <3>2. x # m => ((\E i \in 1 .. Len(q) : q[i] = x) <=> \E i \in 1 .. Len(p) : p[i] = x)
      <4>1. ASSUME NEW i \in 1 .. Len(q), q[i] = x PROVE \E j \in 1 .. Len(p) : p[j] = x
        <5>1. i + 1 \in 1 .. Len(p) /\ p[i + 1] = x
          BY <1>5, <1>6, <4>1
        <5> QED
          BY <5>1
      <4>2. ASSUME x # m, NEW i \in 1 .. Len(p), p[i] = x PROVE \E j \in 1 .. Len(q) : q[j] = x
        <5>1. i - 1 \in 1 .. Len(q) /\ q[i - 1] = x
          BY <1>6, <1>8, <4>2
        <5> QED
          BY <5>1
      <4> QED
        BY <4>1, <4>2
    <3>3. 1 \in 1 .. Len(p)
      BY <1>5, <1>6
    <3> QED
      BY <1>3, <1>6, <3>1, <3>2, <3>3
  <2> QED
    BY <1>6, <2>1, <2>2, <2>3, <2>4 DEF Spells
<1>10. OthersKept(s, where, t, v, l)
  BY <1>1, <1>2, <1>3 DEF OthersKept
<1>11. Spelled(t, v, [f EXCEPT ![l] = p])
  BY <1>9, <1>10, AllSpelled
<1> QED
  BY <1>11 DEF t, v, p, q

\* dlink_add_tail puts the node after the others.
LEMMA PushedTailSpelled ==
    ASSUME NEW s, NEW where, Sound(s, where), NEW f, Spelled(s, where, f),
           NEW m \in Nodes, NEW l \in Lists, where[m] = NULL
    PROVE  Spelled(PushedTail(s, m, l), [where EXCEPT ![m] = l], [f EXCEPT ![l] = Append(f[l], m)])
<1> DEFINE t == PushedTail(s, m, l)
           v == [where EXCEPT ![m] = l]
           q == f[l]
           p == Append(q, m)
<1>1. s \in Links /\ where \in Where /\ NULL \notin Nodes /\ NULL \notin Lists /\ ListLinked(s, where, l)
  BY NullDistinct DEF Sound, Linked
<1>2. /\ t.next = [x \in Nodes |-> IF x = (IF s.head[l] = NULL THEN NULL ELSE s.tail[l]) THEN m
                                   ELSE IF x = m THEN NULL ELSE s.next[x]]
      /\ t.head = [k \in Lists |-> IF s.head[l] = NULL /\ k = l THEN m ELSE s.head[k]]
  BY <1>1 DEF PushedTail, Set, Links
<1>3. v[m] = l /\ \A x \in Nodes : x # m => v[x] = where[x]
  BY <1>1 DEF Where
<1>4. Spells(s, where, l, q)
  BY DEF Spelled
<1> HIDE DEF t, v, q
<1>5. q \in Seq(Nodes) /\ Len(q) \in Nat /\ \A i \in 1 .. Len(q) : q[i] \in Nodes
  BY <1>4 DEF Spells
<1>6. /\ p \in Seq(Nodes) /\ Len(p) = Len(q) + 1 /\ p[Len(q) + 1] = m /\ p # <<>>
      /\ \A i \in 1 .. Len(q) : p[i] = q[i]
  BY <1>5
<1> HIDE DEF p
<1>7. \A i \in 1 .. Len(q) : q[i] # m
  BY <1>1, <1>4, <1>5 DEF Spells
<1>8. s.head[l] = NULL <=> Len(q) = 0
  <2>1. q = <<>> <=> Len(q) = 0
    BY <1>5
  <2> QED
    BY <1>1, <1>4, <1>5, <2>1 DEF Spells
<1>9. Len(q) # 0 => s.tail[l] = q[Len(q)]
  <2> SUFFICES ASSUME Len(q) # 0 PROVE s.tail[l] = q[Len(q)]
    OBVIOUS
  <2>1. s.tail[l] # NULL /\ s.tail[l] \in Nodes /\ where[s.tail[l]] = l /\ s.next[s.tail[l]] = NULL
    BY <1>1, <1>8 DEF ListLinked, Links, NodePtr
  <2>2. PICK i \in 1 .. Len(q) : q[i] = s.tail[l]
    BY <1>4, <2>1 DEF Spells
  <2>3. i # Len(q) => s.next[q[i]] = q[i + 1] /\ q[i + 1] \in Nodes
    BY <1>4, <1>5 DEF Spells
  <2> QED
    BY <1>1, <2>1, <2>2, <2>3
<1>10. Spells(t, v, l, p)
  <2>1. t.head[l] = IF p = <<>> THEN NULL ELSE p[1]
    <3>1. Len(q) # 0 => q # <<>> /\ s.head[l] = q[1]
      BY <1>4, <1>5 DEF Spells
    <3> QED
      BY <1>2, <1>5, <1>6, <1>8, <3>1
  <2>2. ASSUME NEW i \in 1 .. Len(p) PROVE t.next[p[i]] = IF i = Len(p) THEN NULL ELSE p[i + 1]
    <3>1. CASE i = Len(p)
      <4>1. p[i] = m
        BY <1>6, <3>1
      <4>2. m # (IF s.head[l] = NULL THEN NULL ELSE s.tail[l])
        BY <1>1, <1>5, <1>7, <1>8, <1>9
      <4> QED
        BY <1>2, <3>1, <4>1, <4>2
    <3>2. CASE i # Len(p)
      <4>1. i \in 1 .. Len(q) /\ p[i] = q[i] /\ q[i] # m /\ q[i] \in Nodes /\ Len(q) # 0
        BY <1>5, <1>6, <1>7, <3>2
      <4>2. CASE i = Len(q)
        BY <1>2, <1>5, <1>6, <1>8, <1>9, <3>2, <4>1, <4>2
      <4>3. CASE i # Len(q)
        <5>1. q[i] # q[Len(q)] /\ s.next[q[i]] = q[i + 1] /\ p[i + 1] = q[i + 1]
          BY <1>4, <1>5, <1>6, <4>1, <4>3 DEF Spells
        <5> QED
          BY <1>2, <1>8, <1>9, <3>2, <4>1, <5>1
      <4> QED
        BY <4>2, <4>3
    <3> QED
      BY <3>1, <3>2
  <2>3. ASSUME NEW i \in 1 .. Len(p), NEW j \in 1 .. Len(p), p[i] = p[j] PROVE i = j
    BY <1>4, <1>5, <1>6, <1>7, <2>3 DEF Spells
  <2>4. ASSUME NEW x \in Nodes PROVE v[x] = l <=> \E i \in 1 .. Len(p) : p[i] = x
    <3>1. x # m => (v[x] = l <=> \E i \in 1 .. Len(q) : q[i] = x)
      BY <1>3, <1>4 DEF Spells
    <3>2. x # m => ((\E i \in 1 .. Len(q) : q[i] = x) <=> \E i \in 1 .. Len(p) : p[i] = x)
      BY <1>5, <1>6
    <3>3. Len(q) + 1 \in 1 .. Len(p)
      BY <1>5, <1>6
    <3> QED
      BY <1>3, <1>6, <3>1, <3>2, <3>3
  <2> QED
    BY <1>6, <2>1, <2>2, <2>3, <2>4 DEF Spells
<1>11. OthersKept(s, where, t, v, l)
  BY <1>1, <1>2, <1>3, <1>8, <1>9 DEF ListLinked, OthersKept
<1>12. Spelled(t, v, [f EXCEPT ![l] = p])
  BY <1>10, <1>11, AllSpelled
<1> QED
  BY <1>12 DEF t, v, p, q

\* The prev pointers go through the sequence backwards.
LEMMA PrevSpelled ==
    ASSUME NEW s, NEW where, Sound(s, where), NEW l \in Lists, NEW q, Spells(s, where, l, q),
           NEW i \in 1 .. Len(q)
    PROVE  s.prev[q[i]] = IF i = 1 THEN NULL ELSE q[i - 1]
<1>1. /\ q \in Seq(Nodes) /\ Len(q) \in Nat /\ NULL \notin Nodes /\ NULL \notin Lists
      /\ \A j \in 1 .. Len(q) : q[j] \in Nodes /\ where[q[j]] = l
      /\ \A m \in Nodes : NodeLinked(s, where, m)
      /\ ListLinked(s, where, l)
  BY NullDistinct DEF Sound, Linked, Spells
<1>2. CASE i = 1
  <2>1. q # <<>> /\ s.head[l] = q[1] /\ q[1] \in Nodes
    BY <1>1, <1>2 DEF Spells
  <2> QED
    BY <1>1, <1>2, <2>1 DEF ListLinked
<1>3. CASE i # 1
  <2>1. i - 1 \in 1 .. Len(q) /\ i - 1 # Len(q) /\ (i - 1) + 1 = i
    BY <1>1, <1>3
  <2>2. s.next[q[i - 1]] = q[i]
    BY <2>1 DEF Spells
  <2>3. NodeLinked(s, where, q[i - 1]) /\ q[i] \in Nodes
    BY <1>1, <2>1
  <2> QED
    BY <1>1, <1>3, <2>1, <2>2, <2>3 DEF NodeLinked
<1> QED
  BY <1>2, <1>3

\* InsertAt, element by element.
LEMMA InsertAtElements ==
    ASSUME NEW q \in Seq(Nodes), NEW i \in 1 .. Len(q), NEW m \in Nodes
    PROVE  LET p == AsSequences!InsertAt(q, i, m)
           IN  /\ p \in Seq(Nodes) /\ Len(p) = Len(q) + 1 /\ p[i] = m
               /\ \A j \in 1 .. Len(q) : j < i => p[j] = q[j]
               /\ \A j \in 1 .. Len(q) : j >= i => p[j + 1] = q[j]
<1> DEFINE a == SubSeq(q, 1, i - 1)
           b == SubSeq(q, i, Len(q))
<1>1. Len(q) \in Nat /\ i \in Nat /\ i >= 1 /\ i <= Len(q) /\ \A j \in 1 .. Len(q) : q[j] \in Nodes
  OBVIOUS
<1>2. a \in Seq(Nodes) /\ Len(a) = i - 1 /\ \A j \in 1 .. i - 1 : a[j] = q[j]
  BY <1>1
<1>3. b \in Seq(Nodes) /\ Len(b) = Len(q) - i + 1 /\ \A j \in 1 .. Len(q) - i + 1 : b[j] = q[i + j - 1]
  BY <1>1
<1>4. AsSequences!InsertAt(q, i, m) = (a \o <<m>>) \o b
  BY DEF AsSequences!InsertAt
<1> HIDE DEF a, b
<1> DEFINE c == a \o <<m>>
<1>5. c \in Seq(Nodes) /\ Len(c) = i /\ c[i] = m /\ \A j \in 1 .. i - 1 : c[j] = q[j]
  BY <1>1, <1>2
<1> HIDE DEF c
<1>6. c \o b \in Seq(Nodes) /\ Len(c \o b) = Len(q) + 1
  <2>1. c \o b \in Seq(Nodes) /\ Len(c \o b) = Len(c) + Len(b)
    BY <1>3, <1>5, ConcatProperties
  <2> QED
    BY <1>1, <1>3, <1>5, <2>1
<1>7. \A j \in 1 .. Len(q) + 1 : (c \o b)[j] = IF j <= i THEN c[j] ELSE b[j - i]
  BY <1>1, <1>3, <1>5
<1>8. (c \o b)[i] = m
  BY <1>1, <1>5, <1>7
<1>9. ASSUME NEW j \in 1 .. Len(q), j < i PROVE (c \o b)[j] = q[j]
  BY <1>1, <1>5, <1>7, <1>9
<1>10. ASSUME NEW j \in 1 .. Len(q), j >= i PROVE (c \o b)[j + 1] = q[j]
  <2>1. j + 1 \in 1 .. Len(q) + 1 /\ ~(j + 1 <= i) /\ (j + 1) - i \in 1 .. Len(q) - i + 1
    BY <1>1, <1>10
  <2>2. b[(j + 1) - i] = q[i + ((j + 1) - i) - 1] /\ i + ((j + 1) - i) - 1 = j
    BY <1>1, <1>3, <2>1
  <2> QED
    BY <1>7, <2>1, <2>2
<1> QED
  BY <1>4, <1>6, <1>8, <1>9, <1>10 DEF c

\* RemoveAt, element by element.
LEMMA RemoveAtElements ==
    ASSUME NEW q \in Seq(Nodes), NEW i \in 1 .. Len(q)
    PROVE  LET p == AsSequences!RemoveAt(q, i)
           IN  /\ p \in Seq(Nodes) /\ Len(p) = Len(q) - 1
               /\ \A j \in 1 .. Len(q) : j < i => p[j] = q[j]
               /\ \A j \in 1 .. Len(q) : j > i => p[j - 1] = q[j]
<1> DEFINE a == SubSeq(q, 1, i - 1)
           b == SubSeq(q, i + 1, Len(q))
<1>1. Len(q) \in Nat /\ i \in Nat /\ i >= 1 /\ i <= Len(q) /\ \A j \in 1 .. Len(q) : q[j] \in Nodes
  OBVIOUS
<1>2. a \in Seq(Nodes) /\ Len(a) = i - 1 /\ \A j \in 1 .. i - 1 : a[j] = q[j]
  BY <1>1
<1>3. b \in Seq(Nodes) /\ Len(b) = Len(q) - i /\ \A j \in 1 .. Len(q) - i : b[j] = q[i + j]
  BY <1>1
<1>4. AsSequences!RemoveAt(q, i) = a \o b
  BY DEF AsSequences!RemoveAt
<1> HIDE DEF a, b
<1>5. a \o b \in Seq(Nodes) /\ Len(a \o b) = Len(q) - 1
  <2>1. a \o b \in Seq(Nodes) /\ Len(a \o b) = Len(a) + Len(b)
    BY <1>2, <1>3, ConcatProperties
  <2> QED
    BY <1>1, <1>2, <1>3, <2>1
<1>6. \A j \in 1 .. Len(q) - 1 : (a \o b)[j] = IF j <= i - 1 THEN a[j] ELSE b[j - (i - 1)]
  BY <1>1, <1>2, <1>3
<1>7. ASSUME NEW j \in 1 .. Len(q), j < i PROVE (a \o b)[j] = q[j]
  BY <1>1, <1>2, <1>6, <1>7
<1>8. ASSUME NEW j \in 1 .. Len(q), j > i PROVE (a \o b)[j - 1] = q[j]
  <2>1. j - 1 \in 1 .. Len(q) - 1 /\ ~(j - 1 <= i - 1) /\ (j - 1) - (i - 1) \in 1 .. Len(q) - i
    BY <1>1, <1>8
  <2>2. b[(j - 1) - (i - 1)] = q[i + ((j - 1) - (i - 1))] /\ i + ((j - 1) - (i - 1)) = j
    BY <1>1, <1>3, <2>1
  <2> QED
    BY <1>6, <2>1, <2>2
<1> QED
  BY <1>4, <1>5, <1>7, <1>8

\* dlink_add_before puts the node before the one it is given.
LEMMA InsertedSpelled ==
    ASSUME NEW s, NEW where, Sound(s, where), NEW f, Spelled(s, where, f),
           NEW m \in Nodes, NEW l \in Lists, where[m] = NULL,
           NEW i \in 1 .. Len(f[l]), i # 1
    PROVE  Spelled(Inserted(s, f[l][i], m, l), [where EXCEPT ![m] = l],
                   [f EXCEPT ![l] = AsSequences!InsertAt(f[l], i, m)])
<1> DEFINE q == f[l]
           b == q[i]
           t == Inserted(s, b, m, l)
           v == [where EXCEPT ![m] = l]
           p == AsSequences!InsertAt(q, i, m)
<1>1. s \in Links /\ where \in Where /\ NULL \notin Nodes /\ NULL \notin Lists
  BY NullDistinct DEF Sound
<1>2. Spells(s, where, l, q)
  BY DEF Spelled
<1>3. /\ q \in Seq(Nodes) /\ Len(q) \in Nat /\ i \in Nat /\ i > 1 /\ i <= Len(q)
      /\ \A j \in 1 .. Len(q) : q[j] \in Nodes /\ where[q[j]] = l /\ q[j] # m
  BY <1>1, <1>2 DEF Spells
<1>4. i - 1 \in 1 .. Len(q) /\ s.prev[b] = q[i - 1]
  BY <1>2, <1>3, PrevSpelled
<1>5. /\ t.next = [x \in Nodes |-> IF x = m THEN b ELSE IF x = q[i - 1] THEN m ELSE s.next[x]]
      /\ t.head = s.head
  BY <1>1, <1>4 DEF Inserted, Set, Links
<1>6. v[m] = l /\ \A x \in Nodes : x # m => v[x] = where[x]
  BY <1>1 DEF Where
<1>7. /\ p \in Seq(Nodes) /\ Len(p) = Len(q) + 1 /\ p[i] = m
      /\ \A j \in 1 .. Len(q) : j < i => p[j] = q[j]
      /\ \A j \in 1 .. Len(q) : j >= i => p[j + 1] = q[j]
  BY <1>3, InsertAtElements
<1> HIDE DEF t, v, p, q
<1>8. \A j \in 1 .. Len(p) :
         \/ j < i /\ j \in 1 .. Len(q) /\ p[j] = q[j]
         \/ j = i
         \/ j > i /\ j - 1 \in 1 .. Len(q) /\ p[j] = q[j - 1]
  <2> SUFFICES ASSUME NEW j \in 1 .. Len(p)
               PROVE  \/ j < i /\ j \in 1 .. Len(q) /\ p[j] = q[j]
                      \/ j = i
                      \/ j > i /\ j - 1 \in 1 .. Len(q) /\ p[j] = q[j - 1]
    OBVIOUS
  <2>1. j < i => j \in 1 .. Len(q) /\ p[j] = q[j]
    BY <1>3, <1>7
  <2>2. j > i => j - 1 \in 1 .. Len(q) /\ j - 1 >= i /\ (j - 1) + 1 = j
    BY <1>3, <1>7
  <2> QED
    BY <1>3, <1>7, <2>1, <2>2
<1>9. Spells(t, v, l, p)
  <2>1. t.head[l] = IF p = <<>> THEN NULL ELSE p[1]
    <3>1. q # <<>> /\ p # <<>> /\ p[1] = q[1]
      BY <1>3, <1>7
    <3> QED
      BY <1>2, <1>5, <3>1 DEF Spells
  <2>2. ASSUME NEW j \in 1 .. Len(p) PROVE t.next[p[j]] = IF j = Len(p) THEN NULL ELSE p[j + 1]
    <3>1. CASE j < i
      <4>1. j \in 1 .. Len(q) /\ p[j] = q[j] /\ j # Len(q) /\ j # Len(p) /\ j + 1 \in 1 .. Len(q)
        BY <1>3, <1>7, <1>8, <3>1
      <4>2. s.next[q[j]] = q[j + 1]
        BY <1>2, <4>1 DEF Spells
      <4>3. CASE j = i - 1
        <5>1. j + 1 = i
          BY <1>3, <4>3
        <5> QED
          BY <1>3, <1>5, <1>7, <4>1, <4>3, <5>1
      <4>4. CASE j # i - 1
        <5>1. q[j] # q[i - 1]
          BY <1>2, <1>4, <4>1, <4>4 DEF Spells
        <5>2. p[j + 1] = q[j + 1]
          BY <1>3, <1>7, <3>1, <4>1, <4>4
        <5> QED
          BY <1>3, <1>5, <4>1, <4>2, <5>1, <5>2
      <4> QED
        BY <4>3, <4>4
    <3>2. CASE j = i
      <4>1. j # Len(p) /\ p[j + 1] = q[i]
        BY <1>3, <1>7, <3>2
      <4> QED
        BY <1>5, <1>7, <3>2, <4>1
    <3>3. CASE j > i
      <4>1. j - 1 \in 1 .. Len(q) /\ p[j] = q[j - 1] /\ j - 1 # i - 1
        BY <1>3, <1>8, <3>3
      <4>2. q[j - 1] # q[i - 1]
        BY <1>2, <1>4, <4>1 DEF Spells
      <4>3. s.next[q[j - 1]] = IF j - 1 = Len(q) THEN NULL ELSE q[(j - 1) + 1]
        BY <1>2, <4>1 DEF Spells
      <4>4. t.next[p[j]] = s.next[q[j - 1]]
        BY <1>3, <1>5, <4>1, <4>2
      <4>5. j - 1 # Len(q) => j \in 1 .. Len(q) /\ p[j + 1] = q[j]
        BY <1>3, <1>7, <3>3, <4>1
      <4> QED
        BY <1>3, <1>7, <4>3, <4>4, <4>5
    <3> QED
      BY <1>3, <3>1, <3>2, <3>3
  <2>3. ASSUME NEW j \in 1 .. Len(p), NEW k \in 1 .. Len(p), p[j] = p[k] PROVE j = k
    <3>1. \A x, y \in 1 .. Len(q) : q[x] = q[y] => x = y
      BY <1>2 DEF Spells
    <3>2. j = i <=> k = i
      BY <1>3, <1>7, <1>8, <2>3
    <3>3. ASSUME j # i, k # i PROVE j = k
      <4>1. PICK x \in 1 .. Len(q) : p[j] = q[x] /\ ((j < i /\ x = j) \/ (j > i /\ x = j - 1))
        BY <1>8, <3>3
      <4>2. PICK y \in 1 .. Len(q) : p[k] = q[y] /\ ((k < i /\ y = k) \/ (k > i /\ y = k - 1))
        BY <1>8, <3>3
      <4>3. x = y
        BY <2>3, <3>1, <4>1, <4>2
      <4> QED
        BY <1>3, <4>1, <4>2, <4>3
    <3> QED
      BY <3>2, <3>3
  <2>4. ASSUME NEW x \in Nodes PROVE v[x] = l <=> \E j \in 1 .. Len(p) : p[j] = x
    <3>1. x # m => (v[x] = l <=> \E j \in 1 .. Len(q) : q[j] = x)
      BY <1>2, <1>6 DEF Spells
    <3>2. ASSUME NEW j \in 1 .. Len(q), q[j] = x PROVE \E k \in 1 .. Len(p) : p[k] = x
      <4>1. j \in 1 .. Len(p) /\ j + 1 \in 1 .. Len(p)
        BY <1>3, <1>7
      <4>2. p[j] = x \/ p[j + 1] = x
        BY <1>3, <1>7, <3>2
      <4> QED
        BY <4>1, <4>2
    <3>3. ASSUME x # m, NEW j \in 1 .. Len(p), p[j] = x PROVE \E k \in 1 .. Len(q) : q[k] = x
      BY <1>7, <1>8, <3>3
    <3>4. i \in 1 .. Len(p)
      BY <1>3, <1>7
    <3> QED
      BY <1>6, <1>7, <3>1, <3>2, <3>3, <3>4
  <2> QED
    BY <1>7, <2>1, <2>2, <2>3, <2>4 DEF Spells
<1>10. OthersKept(s, where, t, v, l)
  BY <1>1, <1>3, <1>4, <1>5, <1>6 DEF OthersKept
<1>11. Spelled(t, v, [f EXCEPT ![l] = p])
  BY <1>9, <1>10, AllSpelled
<1> QED
  BY <1>11 DEF t, v, p, q

\* dlink_delete takes the node out of its sequence.
LEMMA UnlinkedSpelled ==
    ASSUME NEW s, NEW where, Sound(s, where), NEW f, Spelled(s, where, f),
           NEW l \in Lists, NEW i \in 1 .. Len(f[l])
    PROVE  Spelled(Unlinked(s, f[l][i], l), [where EXCEPT ![f[l][i]] = NULL],
                   [f EXCEPT ![l] = AsSequences!RemoveAt(f[l], i)])
<1> DEFINE q == f[l]
           m == q[i]
           t == Unlinked(s, m, l)
           v == [where EXCEPT ![m] = NULL]
           p == AsSequences!RemoveAt(q, i)
<1>1. s \in Links /\ where \in Where /\ NULL \notin Nodes /\ NULL \notin Lists
  BY NullDistinct DEF Sound
<1>2. Spells(s, where, l, q)
  BY DEF Spelled
<1>3. /\ q \in Seq(Nodes) /\ Len(q) \in Nat /\ i \in Nat /\ i >= 1 /\ i <= Len(q)
      /\ \A j \in 1 .. Len(q) : q[j] \in Nodes /\ where[q[j]] = l
      /\ \A j, k \in 1 .. Len(q) : q[j] = q[k] => j = k
  BY <1>1, <1>2 DEF Spells
<1>4. s.prev[m] = IF i = 1 THEN NULL ELSE q[i - 1]
  BY <1>2, <1>3, PrevSpelled
<1>5. s.next[m] = IF i = Len(q) THEN NULL ELSE q[i + 1]
  BY <1>2 DEF Spells
<1>6. /\ t.next = [x \in Nodes |-> IF x = s.prev[m] THEN s.next[m] ELSE s.next[x]]
      /\ t.head = [k \in Lists |-> IF s.prev[m] = NULL /\ k = l THEN s.next[m] ELSE s.head[k]]
  BY <1>1 DEF Unlinked, Set, Links
<1>7. m \in Nodes /\ v[m] = NULL /\ \A x \in Nodes : x # m => v[x] = where[x]
  BY <1>1, <1>3 DEF Where
<1>8. /\ p \in Seq(Nodes) /\ Len(p) = Len(q) - 1
      /\ \A j \in 1 .. Len(q) : j < i => p[j] = q[j]
      /\ \A j \in 1 .. Len(q) : j > i => p[j - 1] = q[j]
  BY <1>3, RemoveAtElements
<1> HIDE DEF t, v, p, q
<1>9. \A j \in 1 .. Len(p) :
         \/ j < i /\ j \in 1 .. Len(q) /\ p[j] = q[j]
         \/ j >= i /\ j + 1 \in 1 .. Len(q) /\ p[j] = q[j + 1]
  <2> SUFFICES ASSUME NEW j \in 1 .. Len(p)
               PROVE  \/ j < i /\ j \in 1 .. Len(q) /\ p[j] = q[j]
                      \/ j >= i /\ j + 1 \in 1 .. Len(q) /\ p[j] = q[j + 1]
    OBVIOUS
  <2>1. j < i => j \in 1 .. Len(q) /\ p[j] = q[j]
    BY <1>3, <1>8
  <2>2. j >= i => j + 1 \in 1 .. Len(q) /\ j + 1 > i /\ (j + 1) - 1 = j
    BY <1>3, <1>8
  <2> QED
    BY <1>3, <1>8, <2>1, <2>2
<1>10. Spells(t, v, l, p)
  <2>1. t.head[l] = IF p = <<>> THEN NULL ELSE p[1]
    <3>1. p = <<>> <=> Len(q) = 1
      BY <1>3, <1>8
    <3>2. q # <<>> /\ s.head[l] = q[1] /\ 1 \in 1 .. Len(q)
      BY <1>2, <1>3 DEF Spells
    <3>3. CASE i = 1
      <4>1. t.head[l] = s.next[m]
        BY <1>4, <1>6, <3>3
      <4>2. Len(q) # 1 => 2 \in 1 .. Len(q) /\ p[2 - 1] = q[2]
        BY <1>3, <1>8, <3>3
      <4> QED
        BY <1>3, <1>5, <3>1, <3>3, <4>1, <4>2
    <3>4. CASE i # 1
      <4>1. i - 1 \in 1 .. Len(q) /\ s.prev[m] \in Nodes
        BY <1>3, <1>4, <3>4
      <4>2. t.head[l] = s.head[l] /\ Len(q) # 1 /\ p[1] = q[1]
        BY <1>1, <1>3, <1>6, <1>8, <3>2, <3>4, <4>1
      <4> QED
        BY <3>1, <3>2, <4>2
    <3> QED
      BY <3>3, <3>4
  <2>2. ASSUME NEW j \in 1 .. Len(p) PROVE t.next[p[j]] = IF j = Len(p) THEN NULL ELSE p[j + 1]
    <3>1. CASE j < i
      <4>1. j \in 1 .. Len(q) /\ p[j] = q[j] /\ j # Len(q) /\ i # 1 /\ i - 1 \in 1 .. Len(q)
        BY <1>3, <1>8, <1>9, <3>1
      <4>2. s.next[q[j]] = q[j + 1]
        BY <1>2, <4>1 DEF Spells
      <4>3. CASE j = i - 1
        <5>1. t.next[p[j]] = s.next[m]
          BY <1>3, <1>4, <1>6, <4>1, <4>3
        <5>2. i = Len(q) <=> j = Len(p)
          BY <1>3, <1>8, <4>3
        <5>3. i # Len(q) => p[j + 1] = q[i + 1]
          <6> SUFFICES ASSUME i # Len(q) PROVE p[j + 1] = q[i + 1]
            OBVIOUS
          <6>1. i + 1 \in 1 .. Len(q) /\ i + 1 > i /\ (i + 1) - 1 = j + 1
            BY <1>3, <4>3
          <6> QED
            BY <1>8, <6>1
        <5> QED
          BY <1>5, <5>1, <5>2, <5>3
      <4>4. CASE j # i - 1
        <5>1. q[j] # q[i - 1]
          BY <1>3, <4>1, <4>4
        <5>2. j + 1 \in 1 .. Len(q) /\ j + 1 < i /\ j # Len(p)
          BY <1>3, <1>8, <3>1, <4>1, <4>4
        <5>3. p[j + 1] = q[j + 1]
          BY <1>8, <5>2
        <5> QED
          BY <1>3, <1>4, <1>6, <4>1, <4>2, <5>1, <5>2, <5>3
      <4> QED
        BY <4>3, <4>4
    <3>2. CASE j >= i
      <4>1. j + 1 \in 1 .. Len(q) /\ p[j] = q[j + 1] /\ j + 1 # i - 1
        BY <1>3, <1>9, <3>2
      <4>2. s.next[q[j + 1]] = IF j + 1 = Len(q) THEN NULL ELSE q[(j + 1) + 1]
        BY <1>2, <4>1 DEF Spells
      <4>3. q[j + 1] # s.prev[m]
        <5>1. i # 1 => i - 1 \in 1 .. Len(q) /\ q[j + 1] # q[i - 1]
          BY <1>3, <4>1
        <5> QED
          BY <1>1, <1>3, <1>4, <4>1, <5>1
      <4>4. t.next[p[j]] = s.next[q[j + 1]]
        BY <1>3, <1>6, <4>1, <4>3
      <4>5. j + 1 # Len(q) => (j + 1) + 1 \in 1 .. Len(q) /\ (j + 1) + 1 > i /\ ((j + 1) + 1) - 1 = j + 1
        BY <1>3, <3>2, <4>1
      <4>6. j + 1 # Len(q) => p[j + 1] = q[(j + 1) + 1]
        BY <1>8, <4>5
      <4>7. j + 1 = Len(q) <=> j = Len(p)
        BY <1>3, <1>8
      <4> QED
        BY <4>2, <4>4, <4>6, <4>7
    <3> QED
      BY <1>3, <3>1, <3>2
  <2>3. ASSUME NEW j \in 1 .. Len(p), NEW k \in 1 .. Len(p), p[j] = p[k] PROVE j = k
    <3>1. PICK x \in 1 .. Len(q) : p[j] = q[x] /\ ((j < i /\ x = j) \/ (j >= i /\ x = j + 1))
      BY <1>9
    <3>2. PICK y \in 1 .. Len(q) : p[k] = q[y] /\ ((k < i /\ y = k) \/ (k >= i /\ y = k + 1))
      BY <1>9
    <3>3. x = y
      BY <1>3, <2>3, <3>1, <3>2
    <3> QED
      BY <1>3, <3>1, <3>2, <3>3
  <2>4. ASSUME NEW x \in Nodes PROVE v[x] = l <=> \E j \in 1 .. Len(p) : p[j] = x
    <3>1. x # m => (v[x] = l <=> \E j \in 1 .. Len(q) : q[j] = x)
      BY <1>2, <1>7 DEF Spells
    <3>2. ASSUME NEW j \in 1 .. Len(q), q[j] = x, x # m PROVE \E k \in 1 .. Len(p) : p[k] = x
      <4>1. CASE j < i
        <5>1. j \in 1 .. Len(p) /\ p[j] = x
          BY <1>3, <1>8, <3>2, <4>1
        <5> QED
          BY <5>1
      <4>2. CASE j > i
        <5>1. j - 1 \in 1 .. Len(p) /\ p[j - 1] = x
          BY <1>3, <1>8, <3>2, <4>2
        <5> QED
          BY <5>1
      <4> QED
        BY <1>3, <3>2, <4>1, <4>2
    <3>3. ASSUME NEW j \in 1 .. Len(p), p[j] = x PROVE x # m /\ \E k \in 1 .. Len(q) : q[k] = x
      <4>1. PICK k \in 1 .. Len(q) : p[j] = q[k] /\ ((j < i /\ k = j) \/ (j >= i /\ k = j + 1))
        BY <1>9
      <4>2. k # i
        BY <1>3, <4>1
      <4> QED
        BY <1>3, <3>3, <4>1, <4>2
    <3> QED
      BY <1>1, <1>7, <3>1, <3>2, <3>3
  <2> QED
    BY <1>8, <2>1, <2>2, <2>3, <2>4 DEF Spells
<1>11. OthersKept(s, where, t, v, l)
  <2>1. s.prev[m] # NULL => where[s.prev[m]] = l
    BY <1>3, <1>4
  <2> QED
    BY <1>1, <1>3, <1>6, <1>7, <2>1 DEF OthersKept
<1>12. Spelled(t, v, [f EXCEPT ![l] = p])
  BY <1>10, <1>11, AllSpelled
<1> QED
  BY <1>12 DEF t, v, p, q

\* The pointers of a node that is on no list do not matter.
LEMMA ClearedSpelled ==
    ASSUME NEW s, NEW where, Sound(s, where), NEW f, Spelled(s, where, f),
           NEW m \in Nodes, where[m] = NULL
    PROVE  Spelled(Cleared(s, m), where, f)
<1>1. s \in Links /\ NULL \notin Lists /\ f \in [Lists -> Seq(Nodes)]
  BY NullDistinct DEF Sound, Spelled
<1>2. /\ Cleared(s, m).next = [x \in Nodes |-> IF x = m THEN NULL ELSE s.next[x]]
      /\ Cleared(s, m).head = s.head
  BY <1>1 DEF Cleared, Set, Links
<1>3. ASSUME NEW k \in Lists PROVE Spells(Cleared(s, m), where, k, f[k])
  <2>1. Spells(s, where, k, f[k])
    BY DEF Spelled
  <2>2. \A x \in Nodes : where[x] = k => Cleared(s, m).next[x] = s.next[x]
    BY <1>1, <1>2
  <2> QED
    BY <1>2, <2>1, <2>2, OtherSpelled
<1> QED
  BY <1>1, <1>3 DEF Spelled

\* What the walks find is spelled.
Order == [l \in Lists |-> Walk(links, l)]
InOrder == Spelled(links, on, Order)

\* What spells the lists after a step is the new order.
LEMMA NewOrder ==
    ASSUME IInv', NEW f, Spelled(links', on', f)
    PROVE  Order' = f /\ InOrder'
<1>1. f \in [Lists -> Seq(Nodes)] /\ \A l \in Lists : Spells(links', on', l, f[l])
  BY DEF Spelled
<1>2. links' \in Links
  BY DEF IInv, TypeOK
<1>3. ASSUME NEW l \in Lists PROVE Walk(links', l) = f[l]
  BY <1>1, <1>2, WalkSpelled
<1>4. Order' = [l \in Lists |-> Walk(links', l)]
  BY DEF Order
<1>5. Order' = f
  BY <1>1, <1>3, <1>4
<1>6. Spelled(links', on', Order')
  BY <1>5
<1> QED
  BY <1>5, <1>6 DEF InOrder

\* A node is on a list when it is in its sequence.
LEMMA OrderOn ==
    ASSUME IInv, InOrder, NEW m \in Nodes
    PROVE  /\ on[m] = NULL => m \notin AsSequences!Listed
           /\ \A l \in Lists : on[m] = l => \E i \in 1 .. Len(Order[l]) : Order[l][i] = m
<1>1. \A l \in Lists : Order[l] \in Seq(Nodes) /\ Spells(links, on, l, Order[l])
  BY DEF InOrder, Spelled
<1>2. AsSequences!Listed = UNION {AsSequences!ToSet(Order[l]) : l \in Lists}
  BY DEF AsSequences!Listed, Order
<1>3. ASSUME on[m] = NULL, NEW l \in Lists PROVE m \notin AsSequences!ToSet(Order[l])
  <2>1. DOMAIN Order[l] = 1 .. Len(Order[l])
    BY <1>1
  <2> QED
    BY <1>1, <1>3, <2>1, NullDistinct DEF AsSequences!ToSet, Spells
<1> QED
  BY <1>1, <1>2, <1>3 DEF Spells

\* Every step on the pointers is a step of the sequences.
LEMMA StepOrder ==
    ASSUME IInv, IInv', InOrder, [Next]_vars
    PROVE  InOrder' /\ (AsSequences!Next \/ Order' = Order)
<1>1. /\ Sound(links, on) /\ Spelled(links, on, Order) /\ on \in Where /\ LoopAt /\ loop \in Loops
      /\ NULL \notin Nodes /\ NULL \notin Lists
      /\ \A l \in Lists : Order[l] \in Seq(Nodes) /\ DOMAIN Order[l] = 1 .. Len(Order[l])
  BY NullDistinct DEF IInv, TypeOK, InOrder, Sound, Spelled
<1>2. ASSUME NEW m \in Nodes, NEW l \in Lists, NEW d \in Data, Add(d, m, l)
      PROVE  InOrder' /\ AsSequences!Next
  <2>1. on[m] = NULL /\ links' = Pushed(links, m, l) /\ on' = [on EXCEPT ![m] = l]
    BY <1>2 DEF Add
  <2>2. Spelled(links', on', [Order EXCEPT ![l] = <<m>> \o Order[l]])
    BY <1>1, <2>1, PushedSpelled
  <2>3. InOrder' /\ Order' = [Order EXCEPT ![l] = <<m>> \o Order[l]]
    BY <2>2, NewOrder
  <2>4. AsSequences!Add(m, l)
    BY <2>1, <2>3, OrderOn DEF AsSequences!Add, Order
  <2> QED
    BY <2>3, <2>4 DEF AsSequences!Next
<1>3. ASSUME NEW m \in Nodes, NEW l \in Lists, NEW d \in Data, AddTail(d, m, l)
      PROVE  InOrder' /\ AsSequences!Next
  <2>1. on[m] = NULL /\ links' = PushedTail(links, m, l) /\ on' = [on EXCEPT ![m] = l]
    BY <1>3 DEF AddTail
  <2>2. Spelled(links', on', [Order EXCEPT ![l] = Append(Order[l], m)])
    BY <1>1, <2>1, PushedTailSpelled
  <2>3. InOrder' /\ Order' = [Order EXCEPT ![l] = Append(Order[l], m)]
    BY <2>2, NewOrder
  <2>4. AsSequences!AddTail(m, l)
    BY <2>1, <2>3, OrderOn DEF AsSequences!AddTail, Order
  <2> QED
    BY <2>3, <2>4 DEF AsSequences!Next
<1>4. ASSUME NEW m \in Nodes, NEW l \in Lists, NEW d \in Data, NEW b \in Nodes, AddBefore(b, d, m, l)
      PROVE  InOrder' /\ AsSequences!Next
  <2>1. /\ on[m] = NULL /\ on[b] = l /\ on' = [on EXCEPT ![m] = l]
        /\ links' = IF b = links.head[l] THEN Pushed(links, m, l) ELSE Inserted(links, b, m, l)
    BY <1>4 DEF AddBefore
  <2>2. PICK i \in 1 .. Len(Order[l]) : Order[l][i] = b
    BY <2>1, OrderOn
  <2>3. Spells(links, on, l, Order[l])
    BY <1>1 DEF Spelled
  <2>4. b = links.head[l] <=> i = 1
    <3>1. Order[l] # <<>> /\ 1 \in 1 .. Len(Order[l]) /\ links.head[l] = Order[l][1]
      BY <1>1, <2>2, <2>3 DEF Spells
    <3> QED
      BY <2>2, <2>3, <3>1 DEF Spells
  <2>5. Spelled(links', on', [Order EXCEPT ![l] = AsSequences!InsertAt(Order[l], i, m)])
    <3>1. CASE i = 1
      <4>1. AsSequences!InsertAt(Order[l], 1, m) = <<m>> \o Order[l]
        <5>1. SubSeq(Order[l], 1, 1 - 1) = <<>> /\ SubSeq(Order[l], 1, Len(Order[l])) = Order[l]
          BY <1>1, SubSeqEmpty, SubSeqFull
        <5>2. <<>> \o <<m>> = <<m>>
          OBVIOUS
        <5> QED
          BY <5>1, <5>2 DEF AsSequences!InsertAt
      <4>2. Spelled(Pushed(links, m, l), [on EXCEPT ![m] = l], [Order EXCEPT ![l] = <<m>> \o Order[l]])
        BY <1>1, <2>1, PushedSpelled
      <4> QED
        BY <2>1, <2>4, <3>1, <4>1, <4>2
    <3>2. CASE i # 1
      <4>1. Spelled(Inserted(links, Order[l][i], m, l), [on EXCEPT ![m] = l],
                    [Order EXCEPT ![l] = AsSequences!InsertAt(Order[l], i, m)])
        BY <1>1, <2>1, <3>2, InsertedSpelled
      <4> QED
        BY <2>1, <2>2, <2>4, <3>2, <4>1
    <3> QED
      BY <3>1, <3>2
  <2>6. InOrder' /\ Order' = [Order EXCEPT ![l] = AsSequences!InsertAt(Order[l], i, m)]
    BY <2>5, NewOrder
  <2>7. AsSequences!AddBefore(b, m, l)
    <3>1. m \notin AsSequences!Listed
      BY <2>1, OrderOn
    <3> QED
      BY <1>1, <2>2, <2>6, <3>1 DEF AsSequences!AddBefore, Order
  <2> QED
    BY <2>6, <2>7 DEF AsSequences!Next
<1>5. ASSUME NEW m \in Nodes, NEW l \in Lists, on[m] = l, on' = [on EXCEPT ![m] = NULL],
             links' = Unlinked(links, m, l) \/ links' = Cleared(Unlinked(links, m, l), m)
      PROVE  InOrder' /\ AsSequences!Next
  <2> DEFINE f(i) == [Order EXCEPT ![l] = AsSequences!RemoveAt(Order[l], i)]
  <2>1. PICK i \in 1 .. Len(Order[l]) : Order[l][i] = m
    BY <1>5, OrderOn
  <2>2. Spelled(Unlinked(links, m, l), on', f(i))
    BY <1>1, <1>5, <2>1, UnlinkedSpelled
  <2>3. Sound(Unlinked(links, m, l), on') /\ on'[m] = NULL
    BY <1>1, <1>5, UnlinkedSound DEF Where
  <2>4. Spelled(Cleared(Unlinked(links, m, l), m), on', f(i))
    <3> HIDE DEF f
    <3> QED
      BY <2>2, <2>3, ClearedSpelled
  <2>5. InOrder' /\ Order' = f(i)
    <3> HIDE DEF f
    <3> QED
      BY <1>5, <2>2, <2>4, NewOrder
  <2>6. AsSequences!Delete(m, l)
    BY <1>1, <2>1, <2>5 DEF AsSequences!Delete, Order
  <2> QED
    BY <2>5, <2>6 DEF AsSequences!Next
<1>6. ASSUME NEW m \in Nodes, NEW l \in Lists, NEW to \in Lists, Move(m, l, to)
      PROVE  InOrder' /\ AsSequences!Next
  <2> DEFINE s == Unlinked(links, m, l)
             w == [on EXCEPT ![m] = NULL]
             f(i) == [Order EXCEPT ![l] = AsSequences!RemoveAt(Order[l], i)]
  <2>1. on[m] = l /\ links' = Pushed(s, m, to) /\ on' = [on EXCEPT ![m] = to]
    BY <1>6 DEF Move
  <2>2. PICK i \in 1 .. Len(Order[l]) : Order[l][i] = m
    BY <2>1, OrderOn
  <2>3. Spelled(s, w, f(i))
    BY <1>1, <2>1, <2>2, UnlinkedSpelled
  <2>4. Sound(s, w)
    BY <1>1, <2>1, UnlinkedSound
  <2>5. w[m] = NULL /\ on' = [w EXCEPT ![m] = to]
    BY <1>1, <2>1 DEF Where
  <2>6. Spelled(links', on', [f(i) EXCEPT ![to] = <<m>> \o f(i)[to]])
    <3> HIDE DEF s, w, f
    <3>1. Spelled(Pushed(s, m, to), [w EXCEPT ![m] = to], [f(i) EXCEPT ![to] = <<m>> \o f(i)[to]])
      BY <2>3, <2>4, <2>5, PushedSpelled
    <3> QED
      BY <2>1, <2>5, <3>1
  <2>7. InOrder' /\ Order' = [f(i) EXCEPT ![to] = <<m>> \o f(i)[to]]
    <3> HIDE DEF f
    <3> QED
      BY <2>6, NewOrder
  <2>8. AsSequences!Move(m, l, to)
    BY <1>1, <2>2, <2>7 DEF AsSequences!Move, Order
  <2> QED
    BY <2>7, <2>8 DEF AsSequences!Next
<1>7. ASSUME NEW m \in Nodes, NEW l \in Lists, Delete(m, l) PROVE InOrder' /\ AsSequences!Next
  BY <1>5, <1>7 DEF Delete
<1>8. ASSUME NEW l \in Lists, NEW d \in Data, FindDelete(d, l) PROVE InOrder' /\ AsSequences!Next
  BY <1>5, <1>8 DEF FindDelete, Finds
<1>9. ASSUME LoopDestroy PROVE InOrder' /\ AsSequences!Next
  <2>1. loop.pos \in Nodes /\ loop.list \in Lists /\ on[loop.pos] = loop.list
    BY <1>1, <1>9 DEF LoopDestroy, LoopAt, Loops, NodePtr
  <2> QED
    BY <1>5, <1>9, <2>1 DEF LoopDestroy
<1>10. ASSUME links' = links, on' = on PROVE InOrder' /\ Order' = Order
  BY <1>1, <1>10 DEF InOrder, Order
<1>11. [Next]_vars => \/ links' = links /\ on' = on
                      \/ \E m \in Nodes, l \in Lists :
                            \/ \E d \in Data : Add(d, m, l) \/ AddTail(d, m, l)
                            \/ \E d \in Data, b \in Nodes : AddBefore(b, d, m, l)
                            \/ Delete(m, l)
                            \/ \E to \in Lists : Move(m, l, to)
                      \/ \E l \in Lists, d \in Data : FindDelete(d, l)
                      \/ LoopDestroy
  BY DEF Next, vars, LoopStart, LoopKeep, LoopEnd
<1> QED
  BY <1>2, <1>3, <1>4, <1>6, <1>7, <1>8, <1>9, <1>10, <1>11

\* The pointers of dlink.c implement the sequences of NodeLists: what a walk
\* from the head finds is what the operations' names promise, after any
\* history of operations and loops on nodes with stale pointers.
THEOREM ListsAreSequences == Spec => ListSpec
<1>1. ASSUME Init PROVE InOrder /\ AsSequences!Init
  <2> DEFINE f == [l \in Lists |-> <<>>]
  <2>1. links \in Links
    BY <1>1 DEF Init, Links, NodePtr
  <2>2. ASSUME NEW l \in Lists PROVE Spells(links, on, l, <<>>)
    BY <1>1, NullDistinct DEF Init, Spells
  <2>3. ASSUME NEW l \in Lists PROVE Walk(links, l) = <<>>
    BY <2>1, <2>2, WalkSpelled
  <2>4. Order = f
    BY <2>3 DEF Order
  <2>5. Spelled(links, on, f)
    BY <2>2 DEF Spelled
  <2> QED
    BY <2>4, <2>5 DEF InOrder, Order, AsSequences!Init
<1>2. ASSUME IInv, IInv', InOrder, [Next]_vars
      PROVE  InOrder' /\ [AsSequences!Next]_([l \in Lists |-> Walk(links, l)])
  BY <1>2, StepOrder DEF Order
<1> QED
  BY <1>1, <1>2, ListsSound, PTL DEF Spec, ListSpec, AsSequences!Spec
=============================================================================
