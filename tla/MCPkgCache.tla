----------------------------- MODULE MCPkgCache -----------------------------
\* TLC instance of PkgCache.
EXTENDS PkgCache, TLC
=============================================================================
