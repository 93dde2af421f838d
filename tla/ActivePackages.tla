--------------------------- MODULE ActivePackages ---------------------------
(***************************************************************************)
(* What the handle cache of pkg.c promises, stated without handles, time   *)
(* or reference counts: a package becomes active when it is opened, stays  *)
(* active at least as long as somebody holds it, and is let go of some     *)
(* time after.  Module PkgCache is shown to implement this specification;  *)
(* module FsPkg builds on it.                                              *)
(***************************************************************************)
CONSTANTS
    Clients,    \* the users of pkg_open
    Paths,      \* the packages
    None        \* no package

VARIABLES
    active,     \* the packages with a handle
    held        \* held[c]: the package client c has open, or None

vars == <<active, held>>

Init ==
    /\ active = {}
    /\ held = [c \in Clients |-> None]

\* pkg_open returns a handle.
Open(c, p) ==
    /\ held[c] = None
    /\ active' = active \union {p}
    /\ held' = [held EXCEPT ![c] = p]

\* pkg_close.
Close(c) ==
    /\ held[c] # None
    /\ held' = [held EXCEPT ![c] = None]
    /\ UNCHANGED active

\* pkg_gc.
Expire ==
    /\ \E unused \in SUBSET (active \ {held[c] : c \in Clients}) :
           active' = active \ unused
    /\ UNCHANGED held

Next ==
    \/ \E c \in Clients : Close(c) \/ \E p \in Paths : Open(c, p)
    \/ Expire

Spec == Init /\ [][Next]_vars
=============================================================================
