------------------------------ MODULE MCFsPkg ------------------------------
\* TLC instance of FsPkg.
EXTENDS FsPkg, TLC
=============================================================================
