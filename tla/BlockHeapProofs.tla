-------------------------- MODULE BlockHeapProofs --------------------------
(***************************************************************************)
(* Proofs about BlockHeap for any number of clients, blocks and elements   *)
(* per block.  The inductive invariant adds to the properties what a heap  *)
(* that does not exist yet looks like, and that the lists of a live heap   *)
(* are finite, without which the counters mean nothing.                    *)
(***************************************************************************)
EXTENDS BlockHeap, FiniteSetTheorems, TLAPS

Fresh ==
    heap = "none" =>
        /\ chain = {} /\ freeElts = {} /\ usedElts = {}
        /\ blocksAllocated = 0 /\ freeElems = 0
        /\ ~dying
        /\ ptr = [c \in Clients |-> NULL]

FiniteChain == heap = "live" => IsFiniteSet(chain)

IInv ==
    /\ TypeOK
    /\ Fresh
    /\ FiniteChain
    /\ CountersAgree
    /\ ElementsAccounted
    /\ Exclusive
    /\ DyingOnlyIfRefused

-----------------------------------------------------------------------------
(***************************************************************************)
(* The elements blockheap_block_new puts on a free list are as many as it  *)
(* adds to bh->freeElems.                                                  *)
(***************************************************************************)
LEMMA NewElements ==
    ASSUME NEW b, NEW n \in Nat
    PROVE  IsFiniteSet(EltsOf(b, n)) /\ Cardinality(EltsOf(b, n)) = n
<1>1. IsFiniteSet({b}) /\ Cardinality({b}) = 1
  BY FS_Singleton
<1>2. IsFiniteSet(1..n) /\ Cardinality(1..n) = n
  BY FS_Interval
<1>3. /\ IsFiniteSet({b} \X (1..n))
      /\ Cardinality({b} \X (1..n)) = Cardinality({b}) * Cardinality(1..n)
  BY <1>1, <1>2, FS_Product
<1> QED
  BY <1>1, <1>2, <1>3 DEF EltsOf

(***************************************************************************)
(* The free list of a live heap is finite.                                 *)
(***************************************************************************)
LEMMA FiniteFree ==
    ASSUME TypeOK, FiniteChain, ElementsAccounted, heap = "live"
    PROVE  IsFiniteSet(freeElts)
<1>1. elemsPerBlock \in Nat
  BY MaxElemsIsNat DEF TypeOK
<1>2. IsFiniteSet(1..elemsPerBlock)
  BY <1>1, FS_Interval
<1>3. IsFiniteSet(chain \X (1..elemsPerBlock))
  BY <1>2, FS_Product DEF FiniteChain
<1>4. freeElts \in SUBSET (chain \X (1..elemsPerBlock))
  BY DEF ElementsAccounted
<1> QED
  BY <1>3, <1>4, FS_Subset

(***************************************************************************)
(* Every block garbage collection unmaps has all of its elements on its    *)
(* free list: the comparison of two numbers in blockheap_garbagecollect    *)
(* means what it is meant to.                                              *)
(***************************************************************************)
LEMMA VictimsAreFree ==
    ASSUME IInv, heap = "live"
    PROVE  /\ Victims \X (1..elemsPerBlock) = {e \in freeElts : e[1] \in Victims}
           /\ \A e \in usedElts : e[1] \notin Victims
<1>1. elemsPerBlock \in Nat
  BY MaxElemsIsNat DEF IInv, TypeOK
<1>2. freeElts \subseteq chain \X (1..elemsPerBlock)
  BY DEF IInv, ElementsAccounted
<1>3. ASSUME NEW b \in Victims
      PROVE  {b} \X (1..elemsPerBlock) \subseteq freeElts
  <2> DEFINE F == {e \in freeElts : e[1] = b}
             W == EltsOf(b, elemsPerBlock)
  <2>1. F \in SUBSET W
    BY <1>2 DEF EltsOf
  <2>2. IsFiniteSet(W) /\ Cardinality(W) = elemsPerBlock
    BY <1>1, NewElements
  <2>3. Cardinality(F) = elemsPerBlock
    BY DEF Victims, FreeLength
  <2>4. W = F
    <3> HIDE DEF F, W
    <3> QED BY <2>1, <2>2, <2>3, FS_Subset
  <2> QED
    BY <2>4 DEF EltsOf
<1>4. Victims \X (1..elemsPerBlock) \subseteq freeElts
  BY <1>3
<1>5. Victims \X (1..elemsPerBlock) = {e \in freeElts : e[1] \in Victims}
  BY <1>2, <1>4
<1>6. ASSUME NEW e \in usedElts, e[1] \in Victims
      PROVE  FALSE
  <2>1. e \in chain \X (1..elemsPerBlock)
    BY DEF IInv, ElementsAccounted
  <2>2. e \in Victims \X (1..elemsPerBlock)
    BY <1>6, <2>1
  <2> QED
    BY <1>4, <2>2 DEF IInv, ElementsAccounted
<1> QED
  BY <1>5, <1>6

-----------------------------------------------------------------------------
(***************************************************************************)
(* The state before blockheap_create satisfies the inductive invariant.    *)
(***************************************************************************)
LEMMA InitIInv == Init => IInv
<1> SUFFICES ASSUME Init PROVE IInv
  OBVIOUS
<1>1. TypeOK
  <2>1. dying \in BOOLEAN /\ refused \in BOOLEAN
    BY Zenon DEF Init
  <2>2. /\ heap \in {"none", "live", "freed"}
        /\ elemsPerBlock \in 0..MaxElems
        /\ blocksAllocated \in Nat /\ freeElems \in Nat
    BY MaxElemsIsNat, SMT DEF Init
  <2>3. /\ chain \in SUBSET Blocks
        /\ freeElts \in SUBSET Elements /\ usedElts \in SUBSET Elements
    BY DEF Init
  <2>4. ptr \in [Clients -> Elements \union {NULL}]
    BY DEF Init
  <2> QED
    BY <2>1, <2>2, <2>3, <2>4, Zenon DEF TypeOK
<1>2. Fresh /\ DyingOnlyIfRefused
  BY DEF Init, Fresh, DyingOnlyIfRefused
<1>3. FiniteChain /\ CountersAgree /\ ElementsAccounted
  BY DEF Init, FiniteChain, CountersAgree, ElementsAccounted
<1>4. Exclusive
  BY DEF Init, Exclusive
<1> QED
  BY <1>1, <1>2, <1>3, <1>4 DEF IInv

(***************************************************************************)
(* blockheap_create, successful or not, establishes the invariant.         *)
(***************************************************************************)
LEMMA CreateIInv ==
    ASSUME IInv, NEW n \in 0..MaxElems, Create(n)
    PROVE  IInv'
<1> USE MaxElemsIsNat
<1>1. PICK b \in Blocks : BlockNew(b) /\ freeElts' = freeElts \union EltsOf(b, n)
  BY DEF Create
<1>2. /\ heap = "none" /\ heap' = "live" /\ elemsPerBlock' = n
      /\ dying' = (dying \/ n = 0) /\ freeElems' = freeElems + n
      /\ usedElts' = usedElts /\ ptr' = ptr
  BY DEF Create
<1>3. /\ chain = {} /\ freeElts = {} /\ usedElts = {} /\ blocksAllocated = 0
      /\ freeElems = 0 /\ ~dying /\ ptr = [c \in Clients |-> NULL]
  BY <1>2 DEF IInv, Fresh
<1>4. /\ chain' = {b} /\ freeElts' = EltsOf(b, n) /\ usedElts' = {}
      /\ blocksAllocated' = 1 /\ freeElems' = n /\ refused' = refused
  BY <1>1, <1>2, <1>3 DEF BlockNew
<1>5. TypeOK'
  <2>1. EltsOf(b, n) \in SUBSET Elements
    BY DEF EltsOf, Elements
  <2> QED
    BY <1>2, <1>4, <2>1 DEF IInv, TypeOK
<1>6. Fresh' /\ DyingOnlyIfRefused'
  BY <1>2, <1>3 DEF Fresh, DyingOnlyIfRefused
<1>7. FiniteChain' /\ CountersAgree'
  <2>1. IsFiniteSet({b}) /\ Cardinality({b}) = 1
    BY FS_Singleton
  <2>2. Cardinality(EltsOf(b, n)) = n
    BY NewElements
  <2> QED
    BY <1>4, <2>1, <2>2 DEF FiniteChain, CountersAgree
<1>8. ElementsAccounted'
  <2>1. {ptr'[c] : c \in Clients} \ {NULL} = {}
    BY <1>2, <1>3
  <2> QED
    BY <1>2, <1>4, <2>1 DEF ElementsAccounted, EltsOf
<1>9. Exclusive'
  BY <1>2 DEF IInv, Exclusive
<1> QED
  BY <1>5, <1>6, <1>7, <1>8, <1>9 DEF IInv

\* blockheap_create whose first block is refused keeps the invariant.
LEMMA CreateFailsIInv ==
    ASSUME IInv, NEW n \in 0..MaxElems, CreateFails(n)
    PROVE  IInv'
<1>1. /\ heap' = "freed" /\ elemsPerBlock' = n /\ dying' = TRUE /\ refused' = TRUE
      /\ chain' = chain /\ freeElts' = freeElts /\ blocksAllocated' = blocksAllocated
      /\ freeElems' = freeElems /\ usedElts' = usedElts /\ ptr' = ptr
  BY DEF CreateFails, BlockNewFails, blockVars, counters
<1>2. TypeOK'
  BY <1>1 DEF IInv, TypeOK
<1>3. Fresh' /\ FiniteChain' /\ CountersAgree' /\ ElementsAccounted'
  BY <1>1 DEF Fresh, FiniteChain, CountersAgree, ElementsAccounted
<1>4. Exclusive' /\ DyingOnlyIfRefused'
  BY <1>1 DEF IInv, Exclusive, DyingOnlyIfRefused
<1> QED
  BY <1>2, <1>3, <1>4 DEF IInv

(***************************************************************************)
(* Giving an element nobody holds to a client without one keeps the        *)
(* pointers exclusive and makes the element the only new one in use.       *)
(***************************************************************************)
LEMMA HandOutPtr ==
    ASSUME IInv, NEW c \in Clients, Wants(c), NEW e \in Elements,
           e \notin usedElts, HandOut(c, e)
    PROVE  /\ ptr' \in [Clients -> Elements \union {NULL}]
           /\ {ptr'[d] : d \in Clients} \ {NULL} = usedElts'
           /\ Exclusive'
           /\ heap = "live" /\ heap' = "live"
           /\ usedElts' = usedElts \union {e}
           /\ elemsPerBlock' = elemsPerBlock /\ dying' = dying
<1>1. /\ heap = "live" /\ ptr[c] = NULL /\ usedElts' = usedElts \union {e}
      /\ ptr' = [ptr EXCEPT ![c] = e]
      /\ heap' = heap /\ elemsPerBlock' = elemsPerBlock /\ dying' = dying
  BY DEF Wants, HandOut
<1>2. ptr \in [Clients -> Elements \union {NULL}]
  BY DEF IInv, TypeOK
<1>3. e # NULL
  BY NullIsNoPointer DEF Elements
<1>4. usedElts = {ptr[d] : d \in Clients} \ {NULL}
  BY <1>1 DEF IInv, ElementsAccounted
<1>5. /\ ptr'[c] = e
      /\ \A d \in Clients \ {c} : ptr'[d] = ptr[d]
  BY <1>1, <1>2
<1>6. {ptr'[d] : d \in Clients} \ {NULL} = usedElts \union {e}
  <2>1. ASSUME NEW x \in usedElts \union {e}
        PROVE  x \in {ptr'[d] : d \in Clients} \ {NULL}
    BY <1>1, <1>3, <1>4, <1>5
  <2>2. ASSUME NEW x \in {ptr'[d] : d \in Clients} \ {NULL}
        PROVE  x \in usedElts \union {e}
    BY <1>4, <1>5
  <2> QED
    BY <2>1, <2>2
<1>7. Exclusive'
  <2>1. \A d \in Clients : ptr[d] # e
    BY <1>3, <1>4
  <2> QED
    BY <1>1, <1>5, <2>1 DEF IInv, Exclusive
<1> QED
  BY <1>1, <1>2, <1>6, <1>7

(***************************************************************************)
(* blockheap_alloc preserves the invariant, in each of its outcomes.       *)
(***************************************************************************)
LEMMA AllocIInv ==
    ASSUME IInv, NEW c \in Clients, Alloc(c)
    PROVE  IInv'
<1>1. PICK e \in freeElts : HandOut(c, e) /\ freeElts' = freeElts \ {e}
  BY DEF Alloc
<1>2. /\ Wants(c) /\ freeElems # 0 /\ freeElems' = freeElems - 1
      /\ chain' = chain /\ blocksAllocated' = blocksAllocated /\ refused' = refused
  BY DEF Alloc
<1>3. e \in Elements /\ e \notin usedElts
  BY <1>2 DEF IInv, TypeOK, ElementsAccounted, Wants
<1>4. /\ ptr' \in [Clients -> Elements \union {NULL}]
      /\ {ptr'[d] : d \in Clients} \ {NULL} = usedElts'
      /\ Exclusive'
      /\ heap = "live" /\ heap' = "live"
      /\ usedElts' = usedElts \union {e}
      /\ elemsPerBlock' = elemsPerBlock /\ dying' = dying
  BY <1>1, <1>2, <1>3, HandOutPtr
<1>5. TypeOK'
  BY <1>1, <1>2, <1>3, <1>4 DEF IInv, TypeOK
<1>6. Fresh' /\ DyingOnlyIfRefused'
  BY <1>2, <1>4 DEF IInv, Fresh, DyingOnlyIfRefused
<1>7. FiniteChain' /\ CountersAgree'
  <2>1. IsFiniteSet(freeElts)
    BY <1>4, FiniteFree DEF IInv
  <2>2. Cardinality(freeElts') = Cardinality(freeElts) - 1
    BY <1>1, <2>1, FS_RemoveElement
  <2> QED
    BY <1>2, <1>4, <2>2 DEF IInv, FiniteChain, CountersAgree
<1>8. ElementsAccounted'
  BY <1>1, <1>2, <1>3, <1>4 DEF IInv, ElementsAccounted
<1> QED
  BY <1>4, <1>5, <1>6, <1>7, <1>8 DEF IInv

\* blockheap_alloc that needs a new block keeps the invariant.
LEMMA AllocGrowIInv ==
    ASSUME IInv, NEW c \in Clients, AllocGrow(c)
    PROVE  IInv'
<1>0. PICK b \in Blocks : \E e \in EltsOf(b, elemsPerBlock) :
         /\ BlockNew(b)
         /\ HandOut(c, e)
         /\ freeElts' = (freeElts \union EltsOf(b, elemsPerBlock)) \ {e}
  BY DEF AllocGrow
<1>1. PICK e \in EltsOf(b, elemsPerBlock) :
         /\ BlockNew(b)
         /\ HandOut(c, e)
         /\ freeElts' = (freeElts \union EltsOf(b, elemsPerBlock)) \ {e}
  BY <1>0
<1>2. /\ Wants(c) /\ freeElems = 0 /\ freeElems' = freeElems + elemsPerBlock - 1
      /\ b \notin chain /\ chain' = chain \union {b}
      /\ blocksAllocated' = blocksAllocated + 1 /\ refused' = refused
  BY <1>1 DEF AllocGrow, BlockNew
<1>3. /\ elemsPerBlock \in Nat /\ elemsPerBlock \in 0..MaxElems
      /\ heap = "live"
  BY <1>2, MaxElemsIsNat DEF IInv, TypeOK, Wants
<1>4. EltsOf(b, elemsPerBlock) \in SUBSET Elements
  BY <1>3, MaxElemsIsNat DEF EltsOf, Elements
<1>5. EltsOf(b, elemsPerBlock) \intersect (freeElts \union usedElts) = {}
  <2>1. freeElts \union usedElts = chain \X (1..elemsPerBlock)
    BY <1>3 DEF IInv, ElementsAccounted
  <2> QED
    BY <1>2, <2>1 DEF EltsOf
<1>6. /\ ptr' \in [Clients -> Elements \union {NULL}]
      /\ {ptr'[d] : d \in Clients} \ {NULL} = usedElts'
      /\ Exclusive'
      /\ heap' = "live"
      /\ usedElts' = usedElts \union {e}
      /\ elemsPerBlock' = elemsPerBlock /\ dying' = dying
  <2>1. e \in Elements /\ e \notin usedElts
    BY <1>4, <1>5
  <2> QED
    BY <1>1, <1>2, <2>1, HandOutPtr
<1>7. elemsPerBlock # 0
  BY <1>1, <1>3 DEF EltsOf
<1>8. TypeOK'
  BY <1>1, <1>2, <1>3, <1>4, <1>6, <1>7 DEF IInv, TypeOK
<1>9. Fresh' /\ DyingOnlyIfRefused'
  BY <1>2, <1>6 DEF IInv, Fresh, DyingOnlyIfRefused
<1>10. FiniteChain' /\ CountersAgree'
  <2>1. freeElts = {}
    <3>1. IsFiniteSet(freeElts) /\ Cardinality(freeElts) = 0
      BY <1>2, <1>3, FiniteFree DEF IInv, CountersAgree
    <3> QED
      BY <3>1, FS_EmptySet
  <2>2. freeElts' = EltsOf(b, elemsPerBlock) \ {e}
    BY <1>1, <2>1
  <2>3. /\ IsFiniteSet(EltsOf(b, elemsPerBlock))
        /\ Cardinality(EltsOf(b, elemsPerBlock)) = elemsPerBlock
    BY <1>3, NewElements
  <2>4. Cardinality(freeElts') = elemsPerBlock - 1
    BY <1>1, <2>2, <2>3, FS_RemoveElement
  <2>5. IsFiniteSet(chain') /\ Cardinality(chain') = Cardinality(chain) + 1
    BY <1>2, <1>3, FS_AddElement DEF IInv, FiniteChain
  <2> QED
    BY <1>2, <1>3, <1>6, <2>4, <2>5 DEF IInv, FiniteChain, CountersAgree
<1>11. ElementsAccounted'
  <2>1. freeElts' \intersect usedElts' = {}
    BY <1>1, <1>3, <1>5, <1>6 DEF IInv, ElementsAccounted
  <2>2. freeElts' \union usedElts'
            = (freeElts \union usedElts) \union EltsOf(b, elemsPerBlock)
    BY <1>1, <1>6
  <2>3. freeElts' \union usedElts' = chain' \X (1..elemsPerBlock)
    <3>1. freeElts \union usedElts = chain \X (1..elemsPerBlock)
      BY <1>3 DEF IInv, ElementsAccounted
    <3> QED
      BY <1>2, <2>2, <3>1 DEF EltsOf
  <2> QED
    BY <1>6, <2>1, <2>3 DEF ElementsAccounted
<1> QED
  BY <1>6, <1>8, <1>9, <1>10, <1>11 DEF IInv

\* blockheap_alloc returning NULL keeps the invariant.
LEMMA AllocFailsIInv ==
    ASSUME IInv, NEW c \in Clients, AllocFails(c)
    PROVE  IInv'
<1>1. /\ Wants(c) /\ freeElts = {} /\ dying' = TRUE
      /\ heap' = heap /\ elemsPerBlock' = elemsPerBlock
      /\ usedElts' = usedElts /\ ptr' = ptr
  BY DEF AllocFails
<1>2. heap = "live" /\ freeElems = 0
  <2>1. heap = "live"
    BY <1>1 DEF Wants
  <2>2. Cardinality(freeElts) = 0
    BY <1>1, FS_EmptySet
  <2> QED
    BY <2>1, <2>2 DEF IInv, CountersAgree
<1>3. Exclusive'
  BY <1>1 DEF IInv, Exclusive
<1>4. CASE BlockNewFails
  <2>1. /\ refused' = TRUE /\ chain' = chain /\ freeElts' = freeElts
        /\ blocksAllocated' = blocksAllocated /\ freeElems' = freeElems
    BY <1>4 DEF BlockNewFails, blockVars, counters
  <2>2. TypeOK'
    BY <1>1, <2>1 DEF IInv, TypeOK
  <2>3. Fresh' /\ DyingOnlyIfRefused'
    BY <1>1, <1>2, <2>1 DEF Fresh, DyingOnlyIfRefused
  <2>4. FiniteChain' /\ CountersAgree' /\ ElementsAccounted'
    BY <1>1, <2>1 DEF IInv, FiniteChain, CountersAgree, ElementsAccounted
  <2> QED
    BY <1>3, <2>2, <2>3, <2>4 DEF IInv
<1>5. CASE /\ elemsPerBlock = 0
           /\ \E b \in Blocks : BlockNew(b)
           /\ UNCHANGED <<freeElts, freeElems>>
  <2>1. PICK b \in Blocks : BlockNew(b)
    BY <1>5
  <2>2. /\ b \notin chain /\ chain' = chain \union {b}
        /\ blocksAllocated' = blocksAllocated + 1 /\ refused' = refused
        /\ freeElts' = freeElts /\ freeElems' = freeElems
    BY <1>5, <2>1 DEF BlockNew
  <2>3. TypeOK'
    BY <1>1, <2>2 DEF IInv, TypeOK
  <2>4. Fresh' /\ DyingOnlyIfRefused'
    BY <1>1, <1>2, <1>5 DEF Fresh, DyingOnlyIfRefused
  <2>5. FiniteChain' /\ CountersAgree'
    <3>1. IsFiniteSet(chain') /\ Cardinality(chain') = Cardinality(chain) + 1
      BY <1>2, <2>2, FS_AddElement DEF IInv, FiniteChain
    <3> QED
      BY <1>1, <1>2, <2>2, <3>1 DEF IInv, FiniteChain, CountersAgree
  <2>6. ElementsAccounted'
    <3>1. 1..elemsPerBlock = {}
      BY <1>5
    <3> QED
      BY <1>1, <1>2, <2>2, <3>1 DEF IInv, ElementsAccounted
  <2> QED
    BY <1>3, <2>3, <2>4, <2>5, <2>6 DEF IInv
<1> QED
  BY <1>2, <1>4, <1>5 DEF AllocFails

(***************************************************************************)
(* blockheap_free preserves the invariant.                                 *)
(***************************************************************************)
LEMMA FreeIInv ==
    ASSUME IInv, NEW c \in Clients, Free(c)
    PROVE  IInv'
<1>1. /\ heap = "live" /\ ptr[c] # NULL
      /\ freeElts' = freeElts \union {ptr[c]} /\ usedElts' = usedElts \ {ptr[c]}
      /\ freeElems' = freeElems + 1 /\ ptr' = [ptr EXCEPT ![c] = NULL]
      /\ heap' = heap /\ elemsPerBlock' = elemsPerBlock /\ chain' = chain
      /\ blocksAllocated' = blocksAllocated /\ dying' = dying /\ refused' = refused
  BY DEF Free
<1>2. ptr \in [Clients -> Elements \union {NULL}] /\ ptr[c] \in Elements
  BY <1>1 DEF IInv, TypeOK
<1>3. /\ usedElts = {ptr[d] : d \in Clients} \ {NULL}
      /\ ptr[c] \in usedElts /\ ptr[c] \notin freeElts
  BY <1>1 DEF IInv, ElementsAccounted
<1>4. /\ ptr' \in [Clients -> Elements \union {NULL}] /\ ptr'[c] = NULL
      /\ \A d \in Clients \ {c} : ptr'[d] = ptr[d]
  BY <1>1, <1>2
<1>5. TypeOK'
  BY <1>1, <1>2, <1>4 DEF IInv, TypeOK
<1>6. Fresh' /\ DyingOnlyIfRefused'
  BY <1>1 DEF IInv, Fresh, DyingOnlyIfRefused
<1>7. FiniteChain' /\ CountersAgree'
  <2>1. IsFiniteSet(freeElts)
    BY <1>1, FiniteFree DEF IInv
  <2>2. Cardinality(freeElts') = Cardinality(freeElts) + 1
    BY <1>1, <1>3, <2>1, FS_AddElement
  <2> QED
    BY <1>1, <2>2 DEF IInv, FiniteChain, CountersAgree
<1>8. Exclusive'
  BY <1>4 DEF IInv, Exclusive
<1>9. ElementsAccounted'
  <2>1. freeElts' \intersect usedElts' = {}
    BY <1>1 DEF IInv, ElementsAccounted
  <2>2. freeElts' \union usedElts' = chain' \X (1..elemsPerBlock')
    BY <1>1, <1>3 DEF IInv, ElementsAccounted
  <2>3. \A d \in Clients \ {c} : ptr[d] # ptr[c]
    BY <1>1 DEF IInv, Exclusive
  <2>4. usedElts' = {ptr'[d] : d \in Clients} \ {NULL}
    BY <1>1, <1>3, <1>4, <2>3
  <2> QED
    BY <2>1, <2>2, <2>4 DEF ElementsAccounted
<1> QED
  BY <1>5, <1>6, <1>7, <1>8, <1>9 DEF IInv

(***************************************************************************)
(* blockheap_garbagecollect preserves the invariant: the counters follow   *)
(* the blocks it unmaps, and no client points into one of those.           *)
(***************************************************************************)
LEMMA GarbageCollectIInv ==
    ASSUME IInv, GarbageCollect
    PROVE  IInv'
<1> DEFINE V == Victims
           G == V \X (1..elemsPerBlock)
<1>1. /\ heap = "live" /\ chain' = chain \ V
      /\ freeElts' = {e \in freeElts : e[1] \notin V}
      /\ blocksAllocated' = blocksAllocated - Cardinality(V)
      /\ freeElems' = freeElems - Cardinality(V) * elemsPerBlock
      /\ heap' = heap /\ elemsPerBlock' = elemsPerBlock /\ usedElts' = usedElts
      /\ dying' = dying /\ refused' = refused /\ ptr' = ptr
  BY DEF GarbageCollect
<1>2. /\ G = {e \in freeElts : e[1] \in V}
      /\ \A e \in usedElts : e[1] \notin V
  BY <1>1, VictimsAreFree
<1>3. V \subseteq chain
  BY DEF Victims
<1>4. elemsPerBlock \in Nat
  BY MaxElemsIsNat DEF IInv, TypeOK
<1> HIDE DEF V
<1>5. IsFiniteSet(chain) /\ IsFiniteSet(freeElts)
  BY <1>1, FiniteFree DEF IInv, FiniteChain
<1>6. /\ IsFiniteSet(chain') /\ Cardinality(chain') = Cardinality(chain) - Cardinality(V)
      /\ IsFiniteSet(V) /\ Cardinality(V) \in Nat
  <2>1. chain \intersect V = V
    BY <1>3
  <2>2. IsFiniteSet(V)
    BY <1>3, <1>5, FS_Subset
  <2>3. Cardinality(V) \in Nat
    BY <2>2, FS_CardinalityType
  <2>4. /\ IsFiniteSet(chain \ V)
        /\ Cardinality(chain \ V) = Cardinality(chain) - Cardinality(chain \intersect V)
    BY <1>5, FS_Difference
  <2> QED
    BY <1>1, <2>1, <2>2, <2>3, <2>4
<1>7. Cardinality(freeElts') = Cardinality(freeElts) - Cardinality(V) * elemsPerBlock
  <2>1. freeElts' = freeElts \ G /\ freeElts \intersect G = G
    BY <1>1, <1>2
  <2>2. IsFiniteSet(1..elemsPerBlock) /\ Cardinality(1..elemsPerBlock) = elemsPerBlock
    BY <1>4, FS_Interval
  <2>3. Cardinality(G) = Cardinality(V) * elemsPerBlock
    BY <1>6, <2>2, FS_Product
  <2> HIDE DEF G
  <2>4. Cardinality(freeElts \ G) = Cardinality(freeElts) - Cardinality(freeElts \intersect G)
    BY <1>5, FS_Difference
  <2> QED
    BY <2>1, <2>3, <2>4
<1>8. IsFiniteSet(freeElts')
  BY <1>1, <1>5, FS_Subset
<1>9. FiniteChain' /\ CountersAgree'
  BY <1>1, <1>6, <1>7 DEF IInv, FiniteChain, CountersAgree
<1>10. TypeOK'
  <2>1. freeElems' \in Nat /\ blocksAllocated' \in Nat
    BY <1>1, <1>6, <1>8, <1>9, FS_CardinalityType DEF CountersAgree
  <2> QED
    BY <1>1, <2>1 DEF IInv, TypeOK
<1>11. Fresh' /\ DyingOnlyIfRefused'
  BY <1>1 DEF IInv, Fresh, DyingOnlyIfRefused
<1>12. Exclusive'
  BY <1>1 DEF IInv, Exclusive
<1>13. ElementsAccounted'
  <2>1. freeElts' \intersect usedElts' = {}
    BY <1>1 DEF IInv, ElementsAccounted
  <2>2. freeElts \union usedElts = chain \X (1..elemsPerBlock)
    BY <1>1 DEF IInv, ElementsAccounted
  <2>3. ASSUME NEW e \in freeElts' \union usedElts'
        PROVE  e \in chain' \X (1..elemsPerBlock')
    <3>1. e \in chain \X (1..elemsPerBlock) /\ e[1] \notin V
      BY <1>1, <1>2, <2>2
    <3> QED
      BY <1>1, <3>1
  <2>4. ASSUME NEW e \in chain' \X (1..elemsPerBlock')
        PROVE  e \in freeElts' \union usedElts'
    <3>1. e \in freeElts \union usedElts /\ e[1] \notin V
      BY <1>1, <2>2
    <3> QED
      BY <1>1, <3>1
  <2> QED
    BY <1>1, <2>1, <2>3, <2>4 DEF IInv, ElementsAccounted
<1> QED
  BY <1>9, <1>10, <1>11, <1>12, <1>13 DEF IInv

\* blockheap_destroy keeps the invariant.
LEMMA DestroyIInv ==
    ASSUME IInv, Destroy
    PROVE  IInv'
<1>1. /\ heap' = "freed" /\ chain' = {} /\ freeElts' = {} /\ usedElts' = {}
      /\ elemsPerBlock' = elemsPerBlock /\ blocksAllocated' = blocksAllocated
      /\ freeElems' = freeElems /\ dying' = dying /\ refused' = refused /\ ptr' = ptr
  BY DEF Destroy, counters
<1>2. TypeOK'
  BY <1>1 DEF IInv, TypeOK
<1>3. Fresh' /\ FiniteChain' /\ CountersAgree' /\ ElementsAccounted'
  BY <1>1 DEF Fresh, FiniteChain, CountersAgree, ElementsAccounted
<1>4. Exclusive' /\ DyingOnlyIfRefused'
  BY <1>1 DEF IInv, Exclusive, DyingOnlyIfRefused
<1> QED
  BY <1>2, <1>3, <1>4 DEF IInv

-----------------------------------------------------------------------------
\* Every call of the allocator keeps the invariant.
LEMMA NextIInv == IInv /\ [Next]_vars => IInv'
<1> SUFFICES ASSUME IInv, [Next]_vars
             PROVE  IInv'
  OBVIOUS
<1>1. ASSUME NEW n \in 0..MaxElems, Create(n) \/ CreateFails(n)
      PROVE  IInv'
  BY <1>1, CreateIInv, CreateFailsIInv
<1>2. ASSUME NEW c \in Clients,
             Alloc(c) \/ AllocGrow(c) \/ AllocFails(c) \/ Free(c)
      PROVE  IInv'
  BY <1>2, AllocIInv, AllocGrowIInv, AllocFailsIInv, FreeIInv
<1>3. CASE GarbageCollect
  BY <1>3, GarbageCollectIInv
<1>4. CASE Destroy
  BY <1>4, DestroyIInv
<1>5. CASE UNCHANGED vars
  BY <1>5 DEF vars, IInv, TypeOK, Fresh, FiniteChain, CountersAgree,
     ElementsAccounted, Exclusive, DyingOnlyIfRefused
<1> QED
  BY <1>1, <1>2, <1>3, <1>4, <1>5 DEF Next

\* The inductive invariant holds in every state of a BlockHeap.
THEOREM HeapInvariant == Spec => []IInv
BY InitIInv, NextIInv, PTL DEF Spec

(***************************************************************************)
(* The variables keep their types; in particular the unsigned counters     *)
(* never go below zero.                                                    *)
(***************************************************************************)
THEOREM HeapTypes == Spec => []TypeOK
<1>1. IInv => TypeOK
  BY DEF IInv
<1> QED
  BY <1>1, HeapInvariant, PTL

(***************************************************************************)
(* blocksAllocated and freeElems always agree with the lists of the heap.  *)
(***************************************************************************)
THEOREM HeapCounters == Spec => []CountersAgree
<1>1. IInv => CountersAgree
  BY DEF IInv
<1> QED
  BY <1>1, HeapInvariant, PTL

(***************************************************************************)
(* Every element of a chained block is on a free list or with a client,    *)
(* and no client points outside the chained blocks.                        *)
(***************************************************************************)
THEOREM HeapElements == Spec => []ElementsAccounted
<1>1. IInv => ElementsAccounted
  BY DEF IInv
<1> QED
  BY <1>1, HeapInvariant, PTL

(***************************************************************************)
(* No element has two holders, although garbage collection unmaps blocks   *)
(* whose addresses mmap returns again.                                     *)
(***************************************************************************)
THEOREM HeapExclusive == Spec => []Exclusive
<1>1. IInv => Exclusive
  BY DEF IInv
<1> QED
  BY <1>1, HeapInvariant, PTL

(***************************************************************************)
(* The allocator brings the daemon down only for want of memory or for a   *)
(* configured size of zero.                                                *)
(***************************************************************************)
THEOREM HeapDying == Spec => []DyingOnlyIfRefused
<1>1. IInv => DyingOnlyIfRefused
  BY DEF IInv
<1> QED
  BY <1>1, HeapInvariant, PTL

-----------------------------------------------------------------------------
(***************************************************************************)
(* The block allocator implements ElementPool: whatever its blocks and     *)
(* counters do, its clients see elements handed out to one holder at a     *)
(* time and taken back.                                                    *)
(***************************************************************************)
THEOREM HeapImplementsPool == Spec => PoolSpec
<1>1. Init => Pool!Init
  BY DEF Init, Pool!Init
<1>2. IInv /\ [Next]_vars => [Pool!Next]_ptr
  <2> SUFFICES ASSUME IInv, [Next]_vars, ~ UNCHANGED ptr
               PROVE  Pool!Next
    BY DEF Pool!Next
  <2>1. ASSUME NEW c \in Clients, NEW e \in Elements,
               Wants(c), e \notin usedElts, HandOut(c, e)
        PROVE  Pool!Next
    <3>1. ptr[c] = NULL /\ ptr' = [ptr EXCEPT ![c] = e]
      BY <2>1 DEF Wants, HandOut
    <3>2. e \notin {ptr[d] : d \in Clients}
      BY <2>1, NullIsNoPointer DEF Wants, IInv, ElementsAccounted, Elements
    <3>3. Pool!Take(c)
      BY <3>1, <3>2 DEF Pool!Take
    <3> QED
      BY <3>3 DEF Pool!Next
  <2>2. ASSUME NEW c \in Clients, Alloc(c)
        PROVE  Pool!Next
    <3>1. PICK e \in freeElts : HandOut(c, e)
      BY <2>2 DEF Alloc
    <3>2. Wants(c) /\ e \in Elements /\ e \notin usedElts
      BY <2>2 DEF Alloc, Wants, IInv, TypeOK, ElementsAccounted
    <3> QED
      BY <2>1, <3>1, <3>2
  <2>3. ASSUME NEW c \in Clients, AllocGrow(c)
        PROVE  Pool!Next
    <3>1. PICK b \in Blocks : \E e \in EltsOf(b, elemsPerBlock) :
             BlockNew(b) /\ HandOut(c, e)
      BY <2>3 DEF AllocGrow
    <3>2. PICK e \in EltsOf(b, elemsPerBlock) : BlockNew(b) /\ HandOut(c, e)
      BY <3>1
    <3>3. Wants(c) /\ heap = "live" /\ b \notin chain
      BY <2>3, <3>2 DEF AllocGrow, Wants, BlockNew
    <3>4. e \in Elements
      BY MaxElemsIsNat DEF EltsOf, Elements, IInv, TypeOK
    <3>5. e \notin usedElts
      BY <3>3 DEF EltsOf, IInv, ElementsAccounted
    <3> QED
      BY <2>1, <3>2, <3>3, <3>4, <3>5
  <2>4. ASSUME NEW c \in Clients, Free(c)
        PROVE  Pool!Next
    BY <2>4 DEF Free, Pool!Give, Pool!Next
  <2> QED
    BY <2>2, <2>3, <2>4 DEF Next, vars, Create, CreateFails, AllocFails,
       GarbageCollect, Destroy
<1> QED
  BY <1>1, <1>2, HeapInvariant, PTL DEF Spec, PoolSpec, Pool!Spec
=============================================================================
