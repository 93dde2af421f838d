------------------------------- MODULE Dlink -------------------------------
(***************************************************************************)
(* The doubly linked lists of dlink.c, pointer by pointer, and the loop    *)
(* DLINK_FOREACH_SAFE whose body may destroy the node it is at.            *)
(*                                                                         *)
(* Abstractions.  The nodes are those of node_heap and those inside the    *)
(* elements of balloc.c; dlink_count, which nothing reads, is left out.    *)
(* The callers pass each operation the list the node is on: "on" is what   *)
(* they know.                                                              *)
(***************************************************************************)
EXTENDS Integers, Sequences, FiniteSets

CONSTANTS
    Nodes,      \* the list nodes
    Lists,      \* the lists
    Data,       \* what a node may point to
    NULL        \* the null pointer

ASSUME NodesFinite == IsFiniteSet(Nodes)
ASSUME NullDistinct == NULL \notin Nodes \union Lists \union Data

VARIABLES
    links,      \* next and prev of every node; head, tail, length of every list
    data,       \* data of every node
    on,         \* on[m]: the list node m is on, or NULL
    loop        \* the loop under way: its list, pos and n; and for the
                \* properties, the nodes it found (due) and has been at (seen)

vars == <<links, data, on, loop>>

NodePtr == Nodes \union {NULL}

Links == [next   : [Nodes -> NodePtr],
          prev   : [Nodes -> NodePtr],
          head   : [Lists -> NodePtr],
          tail   : [Lists -> NodePtr],
          length : [Lists -> Nat]]

NoLoop == [list |-> NULL, pos |-> NULL, n |-> NULL, due |-> {}, seen |-> {}]

Loops == [list : Lists \union {NULL}, pos : NodePtr, n : NodePtr,
          due : SUBSET Nodes, seen : SUBSET Nodes]

TypeOK ==
    /\ links \in Links
    /\ data \in [Nodes -> Data \union {NULL}]
    /\ on \in [Nodes -> Lists \union {NULL}]
    /\ loop \in Loops

Init ==
    /\ links = [next   |-> [m \in Nodes |-> NULL],
                prev   |-> [m \in Nodes |-> NULL],
                head   |-> [l \in Lists |-> NULL],
                tail   |-> [l \in Lists |-> NULL],
                length |-> [l \in Lists |-> 0]]
    /\ data = [m \in Nodes |-> NULL]
    /\ on = [m \in Nodes |-> NULL]
    /\ loop = NoLoop

-----------------------------------------------------------------------------
(***************************************************************************)
(* What the operations do to the pointers.  The writes through a pointer   *)
(* that may be null are guarded as in the code.                            *)
(***************************************************************************)
\* f[p] becomes v, unless p is NULL.
Set(f, p, v) == [q \in DOMAIN f |-> IF q = p THEN v ELSE f[q]]

\* Mutant: tail is left alone when the list was empty.
PushedHead(s, m, l) ==
    [next   |-> Set(s.next, m, s.head[l]),
     prev   |-> Set(Set(s.prev, m, NULL), s.head[l], m),
     head   |-> Set(s.head, l, m),
     tail   |-> s.tail,
     length |-> Set(s.length, l, s.length[l] + 1)]

\* dlink_add.
Pushed(s, m, l) ==
    [next   |-> Set(s.next, m, s.head[l]),
     prev   |-> Set(Set(s.prev, m, NULL), s.head[l], m),
     head   |-> Set(s.head, l, m),
     tail   |-> IF s.head[l] = NULL /\ s.tail[l] = NULL THEN Set(s.tail, l, m) ELSE s.tail,
     length |-> Set(s.length, l, s.length[l] + 1)]

\* dlink_add_tail.
PushedTail(s, m, l) ==
    [next   |-> Set(Set(s.next, m, NULL), IF s.head[l] = NULL THEN NULL ELSE s.tail[l], m),
     prev   |-> Set(s.prev, m, s.tail[l]),
     head   |-> IF s.head[l] = NULL THEN Set(s.head, l, m) ELSE s.head,
     tail   |-> Set(s.tail, l, m),
     length |-> Set(s.length, l, s.length[l] + 1)]

\* dlink_add_before, for a b that is not the head.
Inserted(s, b, m, l) ==
    [next   |-> Set(Set(s.next, s.prev[b], m), m, b),
     prev   |-> Set(Set(s.prev, m, s.prev[b]), b, m),
     head   |-> s.head,
     tail   |-> s.tail,
     length |-> Set(s.length, l, s.length[l] + 1)]

\* dlink_delete; m keeps its own pointers.
Unlinked(s, m, l) ==
    [next   |-> Set(s.next, s.prev[m], s.next[m]),
     prev   |-> Set(s.prev, s.next[m], s.prev[m]),
     head   |-> IF s.prev[m] = NULL THEN Set(s.head, l, s.next[m]) ELSE s.head,
     tail   |-> IF s.next[m] = NULL THEN Set(s.tail, l, s.prev[m]) ELSE s.tail,
     length |-> Set(s.length, l, s.length[l] - 1)]

\* The pointers of m are cleared: by dlink_find_delete, and by blockheap_free
\* when a node is given back.
Cleared(s, m) ==
    [next   |-> Set(s.next, m, NULL),
     prev   |-> Set(s.prev, m, NULL),
     head   |-> s.head,
     tail   |-> s.tail,
     length |-> s.length]

(***************************************************************************)
(* The nodes of a list as a walk from the head finds them: one step more   *)
(* than there are nodes, so that a cycle shows.                            *)
(***************************************************************************)
Walk(s, l) ==
    LET at[i \in 0..Cardinality(Nodes)] ==
            IF i = 0 THEN s.head[l]
            ELSE IF at[i - 1] = NULL THEN NULL ELSE s.next[at[i - 1]]
        n == Cardinality({i \in DOMAIN at : at[i] # NULL})
    IN  [i \in 1..n |-> at[i - 1]]

\* dlink_find: the first node of the list, from the head, that has the data.
Finds(d, l, m) ==
    /\ on[m] = l
    /\ data[m] = d
    /\ \A i \in DOMAIN Walk(links, l) :
          Walk(links, l)[i] = m => \A j \in 1..(i - 1) : data[Walk(links, l)[j]] # d

-----------------------------------------------------------------------------
Idle == loop.list = NULL

Add(d, m, l) ==
    /\ Idle
    /\ on[m] = NULL
    /\ links' = Pushed(links, m, l)
    /\ data' = [data EXCEPT ![m] = d]
    /\ on' = [on EXCEPT ![m] = l]
    /\ UNCHANGED loop

AddTail(d, m, l) ==
    /\ Idle
    /\ on[m] = NULL
    /\ links' = PushedTail(links, m, l)
    /\ data' = [data EXCEPT ![m] = d]
    /\ on' = [on EXCEPT ![m] = l]
    /\ UNCHANGED loop

AddBefore(b, d, m, l) ==
    /\ Idle
    /\ on[m] = NULL
    /\ on[b] = l
    /\ links' = (IF b = links.head[l] THEN Pushed(links, m, l) ELSE Inserted(links, b, m, l))
    /\ data' = [data EXCEPT ![m] = d]
    /\ on' = [on EXCEPT ![m] = l]
    /\ UNCHANGED loop

Delete(m, l) ==
    /\ Idle
    /\ on[m] = l
    /\ links' = Unlinked(links, m, l)
    /\ on' = [on EXCEPT ![m] = NULL]
    /\ UNCHANGED <<data, loop>>

FindDelete(d, l) ==
    /\ Idle
    /\ \E m \in Nodes :
          /\ Finds(d, l, m)
          /\ links' = Cleared(Unlinked(links, m, l), m)
          /\ on' = [on EXCEPT ![m] = NULL]
    /\ UNCHANGED <<data, loop>>

\* dlink_move; the lists may be the same.
Move(m, from, to) ==
    /\ Idle
    /\ on[m] = from
    /\ links' = Pushed(Unlinked(links, m, from), m, to)
    /\ on' = [on EXCEPT ![m] = to]
    /\ UNCHANGED <<data, loop>>

\* The pointer after pos, if there is a pos.
After(s, pos) == IF pos = NULL THEN NULL ELSE s.next[pos]

LoopStart(l) ==
    /\ Idle
    /\ loop' = [list |-> l, pos |-> links.head[l], n |-> After(links, links.head[l]),
                due |-> {m \in Nodes : on[m] = l}, seen |-> {}]
    /\ UNCHANGED <<links, data, on>>

\* Mutant: DLINK_FOREACH, which reads pos->next only after the body.
AdvanceUnsafe(s) ==
    loop' = [loop EXCEPT !.pos = After(s, loop.pos), !.seen = @ \union {loop.pos}]

\* One round of the loop: the body leaves the node or destroys it
\* (dlink_destroy: dlink_delete, dlink_free), then pos = n.
Advance(s) ==
    loop' = [loop EXCEPT !.pos = loop.n, !.n = After(s, loop.n), !.seen = @ \union {loop.pos}]

LoopKeep ==
    /\ loop.pos # NULL
    /\ Advance(links)
    /\ UNCHANGED <<links, data, on>>

LoopDestroy ==
    /\ loop.pos # NULL
    /\ links' = Cleared(Unlinked(links, loop.pos, loop.list), loop.pos)
    /\ data' = [data EXCEPT ![loop.pos] = NULL]
    /\ on' = [on EXCEPT ![loop.pos] = NULL]
    /\ Advance(links')

LoopEnd ==
    /\ ~Idle
    /\ loop.pos = NULL
    /\ loop' = NoLoop
    /\ UNCHANGED <<links, data, on>>

Next ==
    \/ \E m \in Nodes, l \in Lists :
          \/ \E d \in Data : Add(d, m, l) \/ AddTail(d, m, l)
          \/ \E d \in Data, b \in Nodes : AddBefore(b, d, m, l)
          \/ Delete(m, l)
          \/ \E to \in Lists : Move(m, l, to)
    \/ \E l \in Lists, d \in Data : FindDelete(d, l)
    \/ \E l \in Lists : LoopStart(l)
    \/ LoopKeep \/ LoopDestroy \/ LoopEnd

Spec == Init /\ [][Next]_vars

-----------------------------------------------------------------------------
(***************************************************************************)
(* The assumption stated in dlink_move (dlink.c:167-168), and what makes   *)
(* it hold: on a list, next and prev undo each other and stay on the list, *)
(* the node without a next is the tail, the one without a prev the head,   *)
(* and an empty list has neither.                                          *)
(***************************************************************************)
NodeLinked(s, where, m) ==
    where[m] # NULL =>
        /\ IF s.next[m] = NULL THEN s.tail[where[m]] = m
           ELSE where[s.next[m]] = where[m] /\ s.prev[s.next[m]] = m
        /\ IF s.prev[m] = NULL THEN s.head[where[m]] = m
           ELSE where[s.prev[m]] = where[m] /\ s.next[s.prev[m]] = m

ListLinked(s, where, l) ==
    /\ s.head[l] = NULL <=> s.tail[l] = NULL
    /\ s.head[l] # NULL => where[s.head[l]] = l /\ s.prev[s.head[l]] = NULL
    /\ s.tail[l] # NULL => where[s.tail[l]] = l /\ s.next[s.tail[l]] = NULL

WellLinked ==
    /\ \A m \in Nodes : NodeLinked(links, on, m)
    /\ \A l \in Lists : ListLinked(links, on, l)

(***************************************************************************)
(* length, which blockheap_garbagecollect goes by, is the number of nodes  *)
(* on the list.                                                            *)
(***************************************************************************)
LengthExact ==
    \A l \in Lists : links.length[l] = Cardinality({m \in Nodes : on[m] = l})

(***************************************************************************)
(* DLINK_FOREACH_SAFE has been at every node of its list when it ends,     *)
(* whichever of them its body destroyed, and never at any other.           *)
(***************************************************************************)
LoopComplete ==
    /\ loop.seen \subseteq loop.due
    /\ ~Idle /\ loop.pos = NULL => loop.seen = loop.due

(***************************************************************************)
(* The pointers implement the sequences: what a walk from the head finds   *)
(* is what NodeLists says, after any history of operations on nodes that   *)
(* carry stale pointers from the lists they were on before.                *)
(***************************************************************************)
AsSequences == INSTANCE NodeLists WITH order <- [l \in Lists |-> Walk(links, l)]

ListSpec == AsSequences!Spec
=============================================================================
