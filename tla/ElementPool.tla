---------------------------- MODULE ElementPool ----------------------------
(***************************************************************************)
(* What the block allocator of balloc.c promises its clients, stated       *)
(* without blocks, chains or counters: blockheap_alloc hands out an        *)
(* element nobody else holds or NULL, and blockheap_free takes back an     *)
(* element its holder gives up.  Module BlockHeap is shown to implement    *)
(* this specification.                                                     *)
(***************************************************************************)
CONSTANTS
    Clients,    \* the places in the daemon that keep a pointer to an element
    Elements,   \* every address an element can have
    NULL

VARIABLE ptr    \* ptr[c]: the element client c holds, or NULL

Init == ptr = [c \in Clients |-> NULL]

\* blockheap_alloc returns an element that no client holds.
Take(c) ==
    /\ ptr[c] = NULL
    /\ \E e \in Elements \ {ptr[d] : d \in Clients} :
           ptr' = [ptr EXCEPT ![c] = e]

\* blockheap_free.
Give(c) ==
    /\ ptr[c] # NULL
    /\ ptr' = [ptr EXCEPT ![c] = NULL]

Next == \E c \in Clients : Take(c) \/ Give(c)

Spec == Init /\ [][Next]_ptr
=============================================================================
