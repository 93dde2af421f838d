----------------------------- MODULE BlockHeap -----------------------------
(***************************************************************************)
(* The block allocator of balloc.c: one BlockHeap, the blocks chained      *)
(* from its base, and the elements in them.  fs-pkg keeps its dlink nodes, *)
(* package handles, inodes, watches and file handles in five such heaps;   *)
(* they share no state, and blockheap_gc visits them one after another, so *)
(* one heap is modelled.                                                   *)
(*                                                                         *)
(* Abstractions.  A block is the address mmap returned for it, an element  *)
(* is the pair of its block and its slot.  The chain is the set of blocks  *)
(* reachable from bh->base, and the free and used lists of all blocks are  *)
(* two sets of elements: which free element an allocation takes (the code  *)
(* takes the head of the first non-empty free list) is left open.  What is *)
(* done with a BlockHeap that has been freed is not modelled: its memory   *)
(* may hold anything.                                                      *)
(***************************************************************************)
EXTENDS Integers, FiniteSets

CONSTANTS
    Clients,   \* the places in the daemon that keep a pointer to an element
    Blocks,    \* the addresses mmap can return
    MaxElems,  \* bound: the largest elemsperblock (tuning.heap.* of fs-pkg.cf)
    NULL

ASSUME MaxElemsIsNat == MaxElems \in Nat
ASSUME NullIsNoPointer == NULL \notin Blocks \X (1..MaxElems)

VARIABLES
    heap,            \* what the client's BlockHeap pointer points to
    elemsPerBlock,   \* bh->elemsPerBlock
    chain,           \* the blocks chained from bh->base
    freeElts,        \* the elements on the free_list of some block
    usedElts,        \* the elements on the used_list of some block
    blocksAllocated, \* bh->blocksAllocated
    freeElems,       \* bh->freeElems
    dying,           \* conf.dying
    refused,         \* history: the OS has refused memory
    ptr              \* ptr[c]: the element client c holds, or NULL

counters == <<blocksAllocated, freeElems>>
blockVars == <<chain, freeElts, counters>>
vars == <<heap, elemsPerBlock, chain, freeElts, usedElts, blocksAllocated,
          freeElems, dying, refused, ptr>>

Elements == Blocks \X (1..MaxElems)
EltsOf(b, n) == {b} \X (1..n)

\* DLINK_LENGTH(&b->free_list).
FreeLength(b) == Cardinality({e \in freeElts : e[1] = b})

TypeOK ==
    /\ heap \in {"none", "live", "freed"}
    /\ elemsPerBlock \in 0..MaxElems
    /\ chain \in SUBSET Blocks
    /\ freeElts \in SUBSET Elements
    /\ usedElts \in SUBSET Elements
    /\ blocksAllocated \in Nat
    /\ freeElems \in Nat
    /\ dying \in BOOLEAN
    /\ refused \in BOOLEAN
    /\ ptr \in [Clients -> Elements \union {NULL}]

-----------------------------------------------------------------------------
Init ==
    /\ heap = "none"
    /\ elemsPerBlock = 0
    /\ chain = {}
    /\ freeElts = {}
    /\ usedElts = {}
    /\ blocksAllocated = 0
    /\ freeElems = 0
    /\ dying = FALSE
    /\ refused = FALSE
    /\ ptr = [c \in Clients |-> NULL]

(***************************************************************************)
(* blockheap_block_new in the two ways it can end.  mmap may return an     *)
(* address that an earlier munmap gave back.                               *)
(***************************************************************************)
BlockNew(b) ==
    /\ b \in Blocks \ chain
    /\ chain' = chain \union {b}
    /\ blocksAllocated' = blocksAllocated + 1
    /\ UNCHANGED refused

BlockNewFails ==
    /\ refused' = TRUE
    /\ UNCHANGED blockVars

(***************************************************************************)
(* blockheap_create.  A size of zero is reported through conf.dying and    *)
(* the heap is built all the same.                                         *)
(***************************************************************************)
Create(n) ==
    /\ heap = "none"
    /\ heap' = "live"
    /\ elemsPerBlock' = n
    /\ dying' = (dying \/ n = 0)
    /\ \E b \in Blocks : BlockNew(b) /\ freeElts' = freeElts \union EltsOf(b, n)
    /\ freeElems' = freeElems + n
    /\ UNCHANGED <<usedElts, ptr>>

\* When no block can be had the BlockHeap is freed, then named, linked into
\* heap_lists and returned nevertheless.
CreateFails(n) ==
    /\ heap = "none"
    /\ BlockNewFails
    /\ heap' = "freed"
    /\ elemsPerBlock' = n
    /\ dying' = TRUE
    /\ UNCHANGED <<usedElts, ptr>>

\* What every call of blockheap_alloc for client c starts from.
Wants(c) == heap = "live" /\ ptr[c] = NULL

\* dlink_move to the used list, and the pointer returned.
HandOut(c, e) ==
    /\ usedElts' = usedElts \union {e}
    /\ ptr' = [ptr EXCEPT ![c] = e]
    /\ UNCHANGED <<heap, elemsPerBlock, dying>>

\* Mutant: the element is given out but stays on its free list.
AllocKeepsFree(c) ==
    /\ Wants(c)
    /\ freeElems # 0
    /\ \E e \in freeElts : HandOut(c, e)
    /\ freeElems' = freeElems - 1
    /\ UNCHANGED <<chain, freeElts, blocksAllocated, refused>>

(***************************************************************************)
(* blockheap_alloc with a free element at hand.                            *)
(***************************************************************************)
Alloc(c) ==
    /\ Wants(c)
    /\ freeElems # 0
    /\ \E e \in freeElts : HandOut(c, e) /\ freeElts' = freeElts \ {e}
    /\ freeElems' = freeElems - 1
    /\ UNCHANGED <<chain, blocksAllocated, refused>>

(***************************************************************************)
(* blockheap_alloc on an exhausted heap: a new block becomes bh->base and  *)
(* gives the element.                                                      *)
(***************************************************************************)
AllocGrow(c) ==
    /\ Wants(c)
    /\ freeElems = 0
    /\ \E b \in Blocks : \E e \in EltsOf(b, elemsPerBlock) :
          /\ BlockNew(b)
          /\ HandOut(c, e)
          /\ freeElts' = (freeElts \union EltsOf(b, elemsPerBlock)) \ {e}
    /\ freeElems' = freeElems + elemsPerBlock - 1

(***************************************************************************)
(* blockheap_alloc returning NULL, after walking the whole chain for       *)
(* nothing: the OS refused a block (and the garbage collection tried next  *)
(* returns at once, freeElems being 0), or the new block has no elements,  *)
(* or freeElems counts an element that is on no free list.                 *)
(***************************************************************************)
AllocFails(c) ==
    /\ Wants(c)
    /\ freeElts = {}
    /\ IF freeElems # 0
         THEN UNCHANGED <<blockVars, refused>>
         ELSE \/ BlockNewFails
              \/ /\ elemsPerBlock = 0
                 /\ \E b \in Blocks : BlockNew(b)
                 /\ UNCHANGED <<freeElts, freeElems>>
    /\ dying' = TRUE
    /\ UNCHANGED <<heap, elemsPerBlock, usedElts, ptr>>

\* Mutant: bh->freeElems++ is missing.
FreeUncounted(c) ==
    /\ heap = "live"
    /\ ptr[c] # NULL
    /\ freeElts' = freeElts \union {ptr[c]}
    /\ usedElts' = usedElts \ {ptr[c]}
    /\ ptr' = [ptr EXCEPT ![c] = NULL]
    /\ UNCHANGED <<heap, elemsPerBlock, chain, counters, dying, refused>>

(***************************************************************************)
(* blockheap_free.  (With a NULL pointer it returns 1 and does nothing.)   *)
(***************************************************************************)
Free(c) ==
    /\ heap = "live"
    /\ ptr[c] # NULL
    /\ freeElts' = freeElts \union {ptr[c]}
    /\ usedElts' = usedElts \ {ptr[c]}
    /\ freeElems' = freeElems + 1
    /\ ptr' = [ptr EXCEPT ![c] = NULL]
    /\ UNCHANGED <<heap, elemsPerBlock, chain, blocksAllocated, dying, refused>>

\* Mutant: any block with a free element is taken for an idle one.
VictimsAnyFree == {b \in chain : FreeLength(b) > 0}

\* The blocks blockheap_garbagecollect unmaps when it gets past its early
\* return.
Victims == {b \in chain : FreeLength(b) = elemsPerBlock}

\* Mutant: the early return also spares heaps of two blocks.
GarbageCollectKeepsTwo ==
    /\ heap = "live"
    /\ ~(freeElems < elemsPerBlock \/ blocksAllocated <= 2)
    /\ chain' = chain \ Victims
    /\ freeElts' = {e \in freeElts : e[1] \notin Victims}
    /\ blocksAllocated' = blocksAllocated - Cardinality(Victims)
    /\ freeElems' = freeElems - Cardinality(Victims) * elemsPerBlock
    /\ UNCHANGED <<heap, elemsPerBlock, usedElts, dying, refused, ptr>>

(***************************************************************************)
(* blockheap_garbagecollect, called by the periodic timer of blockheap_gc. *)
(***************************************************************************)
GarbageCollect ==
    /\ heap = "live"
    /\ ~(freeElems < elemsPerBlock \/ blocksAllocated = 1)
    /\ chain' = chain \ Victims
    /\ freeElts' = {e \in freeElts : e[1] \notin Victims}
    /\ blocksAllocated' = blocksAllocated - Cardinality(Victims)
    /\ freeElems' = freeElems - Cardinality(Victims) * elemsPerBlock
    /\ UNCHANGED <<heap, elemsPerBlock, usedElts, dying, refused, ptr>>

(***************************************************************************)
(* blockheap_destroy, called from goodbye(): every block is unmapped,      *)
(* whoever still holds an element of it.                                   *)
(***************************************************************************)
Destroy ==
    /\ heap = "live"
    /\ heap' = "freed"
    /\ chain' = {}
    /\ freeElts' = {}
    /\ usedElts' = {}
    /\ UNCHANGED <<elemsPerBlock, counters, dying, refused, ptr>>

Next ==
    \/ \E n \in 0..MaxElems : Create(n) \/ CreateFails(n)
    \/ \E c \in Clients : Alloc(c) \/ AllocGrow(c) \/ AllocFails(c) \/ Free(c)
    \/ GarbageCollect
    \/ Destroy

\* The timer that blockheap_init starts repeats for as long as the event loop
\* runs, so garbage collection is never put off for ever.
Fairness == WF_vars(GarbageCollect)

Spec == Init /\ [][Next]_vars /\ Fairness

-----------------------------------------------------------------------------
(***************************************************************************)
(* The two counters of the BlockHeap agree with its lists: blocksAllocated *)
(* counts the chained blocks, freeElems the elements on their free lists.  *)
(* blockheap_alloc, blockheap_garbagecollect and blockheap_usage all       *)
(* decide by the counters and never recount.                               *)
(***************************************************************************)
CountersAgree ==
    heap = "live" =>
        /\ blocksAllocated = Cardinality(chain)
        /\ freeElems = Cardinality(freeElts)

(***************************************************************************)
(* The elements of the chained blocks are split between those on a free    *)
(* list and those some client holds: garbage collection never unmaps a     *)
(* block under a client, and no element is lost to the heap.               *)
(***************************************************************************)
ElementsAccounted ==
    heap = "live" =>
        /\ freeElts \intersect usedElts = {}
        /\ freeElts \union usedElts = chain \X (1..elemsPerBlock)
        /\ usedElts = {ptr[c] : c \in Clients} \ {NULL}

(***************************************************************************)
(* No element is handed to two clients, whatever allocations, frees and    *)
(* garbage collections (with addresses that mmap returns again) came       *)
(* before.                                                                 *)
(***************************************************************************)
Exclusive ==
    \A c, d \in Clients : c # d /\ ptr[c] # NULL => ptr[c] # ptr[d]

(***************************************************************************)
(* blockheap_alloc and blockheap_create bring the daemon down (conf.dying) *)
(* only when the OS refused memory or the configured size is zero, never   *)
(* because the counters misled them.                                       *)
(***************************************************************************)
DyingOnlyIfRefused == dying => refused \/ elemsPerBlock = 0

(***************************************************************************)
(* Memory does not stay with an idle heap: two or more blocks nobody holds *)
(* an element of are given back to the OS by the periodic collection.      *)
(***************************************************************************)
IdleBlocksReturned ==
    (heap = "live" /\ blocksAllocated > 1 /\ usedElts = {})
        ~> (heap = "freed" \/ usedElts # {} \/ blocksAllocated <= 1)

\* What the allocator promises its clients.
Pool == INSTANCE ElementPool

PoolSpec == Pool!Spec
=============================================================================
