------------------------------ MODULE MCDlink ------------------------------
\* TLC instance of Dlink.
EXTENDS Dlink, TLC

Symmetry == Permutations(Nodes) \union Permutations(Lists) \union Permutations(Data)
=============================================================================
