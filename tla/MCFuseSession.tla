--------------------------- MODULE MCFuseSession ---------------------------
(* TLC's instance of FuseSession.                                          *)
EXTENDS FuseSession

(* A kernel that is too old, one before protocol 7.4, a current one.       *)
OldInit == [major |-> 6, minor |-> 1, flags |-> {}]
EarlyInit == [major |-> 7, minor |-> 3, flags |-> {"ASYNC_READ"}]
CurrentInit == [major |-> 7, minor |-> 9, flags |-> {"ASYNC_READ", "POSIX_LOCKS"}]

(* Worker threads with interrupts, and with a session that is stopped; one *)
(* thread with everything.                                                 *)
Threads3(intrs, stops) ==
    [loop |-> "mt", init |-> {CurrentInit}, ops |-> {"LOOKUP", "FORGET"},
     interrupts |-> intrs, stops |-> stops, faults |-> FALSE]
OneThread(l) ==
    [loop |-> l, init |-> {OldInit, EarlyInit, CurrentInit},
     ops |-> {"LOOKUP", "GETATTR", "OPEN", "UNKNOWN"},
     interrupts |-> TRUE, stops |-> TRUE, faults |-> TRUE]
SmallCases == {Threads3(TRUE, FALSE), Threads3(FALSE, TRUE),
               OneThread("single"), OneThread("ev")}
=============================================================================
