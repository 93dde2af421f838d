----------------------------- MODULE NodeLists -----------------------------
(***************************************************************************)
(* What dlink.c promises: each list is a sequence of nodes, and every      *)
(* operation changes the sequences the way its name says.  Module Dlink is *)
(* shown to implement this specification with pointers.                    *)
(***************************************************************************)
EXTENDS Integers, Sequences, SequencesExt

CONSTANTS
    Nodes,      \* the list nodes
    Lists       \* the lists

VARIABLE
    order       \* order[l]: the nodes of list l from head to tail

Listed == UNION {ToSet(order[l]) : l \in Lists}

Init == order = [l \in Lists |-> <<>>]

Add(m, l) ==
    /\ m \notin Listed
    /\ order' = [order EXCEPT ![l] = <<m>> \o @]

AddTail(m, l) ==
    /\ m \notin Listed
    /\ order' = [order EXCEPT ![l] = Append(@, m)]

AddBefore(b, m, l) ==
    /\ m \notin Listed
    /\ \E i \in DOMAIN order[l] :
          /\ order[l][i] = b
          /\ order' = [order EXCEPT ![l] = InsertAt(@, i, m)]

Delete(m, l) ==
    \E i \in DOMAIN order[l] :
        /\ order[l][i] = m
        /\ order' = [order EXCEPT ![l] = RemoveAt(@, i)]

Move(m, from, to) ==
    \E i \in DOMAIN order[from] :
        /\ order[from][i] = m
        /\ LET rest == [order EXCEPT ![from] = RemoveAt(@, i)]
           IN  order' = [rest EXCEPT ![to] = <<m>> \o @]

Next ==
    \E m \in Nodes, l \in Lists :
        \/ Add(m, l) \/ AddTail(m, l) \/ Delete(m, l)
        \/ \E b \in Nodes : AddBefore(b, m, l)
        \/ \E to \in Lists : Move(m, l, to)

Spec == Init /\ [][Next]_order
=============================================================================
