---------------------------- MODULE MCBlockHeap ----------------------------
\* TLC instance of BlockHeap.
EXTENDS BlockHeap, TLC

\* Clients and blocks are interchangeable; used by the runs that check no
\* liveness.
Symmetry == Permutations(Clients) \union Permutations(Blocks)
=============================================================================
