------------------------------ MODULE PkgCache ------------------------------
(***************************************************************************)
(* The handle cache of pkg.c: pkg_open, pkg_close, pkg_release and the     *)
(* periodic pkg_gc.                                                        *)
(*                                                                         *)
(* Abstractions.  A handle is an element of pkg_heap.  otime is kept as an *)
(* age in ticks, which stops counting once it is beyond pkg_lifetime / 2.  *)
(* pkg_list is a set: pkg_handle_byname takes any listed handle of the     *)
(* name.  The kernel's flock table is external.  The callers of pkg_open   *)
(* are external too (nothing in the repository calls it yet): each client  *)
(* closes what it opened, once.  They and pkg_gc are callbacks of one      *)
(* event loop: none runs inside another's pkg_open, but time passes and    *)
(* other processes lock files between its system calls.                    *)
(***************************************************************************)
EXTENDS Integers, FiniteSets

CONSTANTS
    Clients,    \* the users of pkg_open
    Paths,      \* the packages
    Handles,    \* bound: the elements of pkg_heap
    HalfLife,   \* pkg_lifetime / 2, in ticks
    None,       \* no handle, no name, no lock
    Foreign     \* another process, as the holder of a lock

ASSUME ClientsFinite == IsFiniteSet(Clients)
ASSUME HalfLifeIsNat == HalfLife \in Nat
ASSUME NoneDistinct == None \notin Handles \union Paths
ASSUME ForeignDistinct == Foreign \notin Handles \union {None}

VARIABLES
    taken,      \* the handles allocated from pkg_heap
    listed,     \* the handles on pkg_list
    name,       \* handle->name
    refcnt,     \* handle->refcnt
    age,        \* time since handle->otime
    fds,        \* the handles whose fd is open
    lock,       \* lock[p]: who has the package's flock
    held,       \* held[c]: the handle client c got from pkg_open
    pc,         \* where the thread is in pkg_open
    client,     \* the caller of the pkg_open under way
    opening     \* t: the handle it is making

callVars == <<pc, client, opening>>
handleVars == <<name, refcnt, age>>
vars == <<taken, listed, handleVars, fds, lock, held, callVars>>

\* Ages beyond this one are not told apart.
MaxAge == HalfLife + 1

TypeOK ==
    /\ taken \in SUBSET Handles
    /\ listed \in SUBSET Handles
    /\ name \in [Handles -> Paths \union {None}]
    /\ refcnt \in [Handles -> Nat]
    /\ age \in [Handles -> 0..MaxAge]
    /\ fds \in SUBSET Handles
    /\ lock \in [Paths -> Handles \union {None, Foreign}]
    /\ held \in [Clients -> Handles \union {None}]
    /\ pc \in {"idle", "open", "lock", "release"}
    /\ client \in Clients \union {None}
    /\ opening \in Handles \union {None}

Init ==
    /\ taken = {}
    /\ listed = {}
    /\ name = [h \in Handles |-> None]
    /\ refcnt = [h \in Handles |-> 0]
    /\ age = [h \in Handles |-> 0]
    /\ fds = {}
    /\ lock = [p \in Paths |-> None]
    /\ held = [c \in Clients |-> None]
    /\ pc = "idle" /\ client = None /\ opening = None

-----------------------------------------------------------------------------
\* pkg_handle_byname.
Named(p) == {h \in listed : name[h] = p}

\* Mutant: refcnt is not increased.
ReferenceUncounted(c, h) ==
    /\ age' = [age EXCEPT ![h] = 0]
    /\ held' = [held EXCEPT ![c] = h]
    /\ UNCHANGED refcnt

\* The end of pkg_open, with a handle found or made.
Reference(c, h) ==
    /\ age' = [age EXCEPT ![h] = 0]
    /\ refcnt' = [refcnt EXCEPT ![h] = @ + 1]
    /\ held' = [held EXCEPT ![c] = h]

(***************************************************************************)
(* pkg_release of some handles: name freed, lock and descriptor given up.  *)
(* Those on the list are taken off it and go back to the heap, zeroed; one *)
(* that is not on the list never does.                                     *)
(***************************************************************************)
Release(hs) ==
    /\ name' = [h \in Handles |-> IF h \in hs THEN None ELSE name[h]]
    /\ lock' = [p \in Paths |-> IF lock[p] \in hs THEN None ELSE lock[p]]
    /\ fds' = fds \ hs
    /\ taken' = taken \ (hs \intersect listed)
    /\ listed' = listed \ hs
    /\ age' = [h \in Handles |-> IF h \in hs THEN 0 ELSE age[h]]
    /\ UNCHANGED <<refcnt, held>>

\* pkg_open returns.
Returns == pc' = "idle" /\ client' = None /\ opening' = None

(***************************************************************************)
(* pkg_open of a package that has a handle.                                *)
(***************************************************************************)
OpenCached(c, p) ==
    /\ pc = "idle"
    /\ held[c] = None
    /\ \E h \in Named(p) : Reference(c, h)
    /\ UNCHANGED <<taken, listed, name, fds, lock, callVars>>

(***************************************************************************)
(* pkg_open of a package without a handle: one is allocated and named, the *)
(* file is opened and locked, and the handle put on the list.  open fails  *)
(* for any reason; flock when another process has the lock, or for want of *)
(* one in the kernel.                                                      *)
(***************************************************************************)
OpenNew(c, p) ==
    /\ pc = "idle"
    /\ held[c] = None
    /\ Named(p) = {}
    /\ \E h \in Handles \ taken :
          /\ taken' = taken \union {h}
          /\ name' = [name EXCEPT ![h] = p]
          /\ opening' = h
    /\ pc' = "open"
    /\ client' = c
    /\ UNCHANGED <<listed, refcnt, age, fds, lock, held>>

OpenFile ==
    /\ pc = "open"
    /\ \/ pc' = "lock" /\ fds' = fds \union {opening}
       \/ pc' = "release" /\ UNCHANGED fds
    /\ UNCHANGED <<taken, listed, handleVars, lock, held, client, opening>>

LockFile ==
    /\ pc = "lock"
    /\ lock[name[opening]] = None
    /\ lock' = [lock EXCEPT ![name[opening]] = opening]
    /\ listed' = listed \union {opening}
    /\ Reference(client, opening)
    /\ Returns
    /\ UNCHANGED <<taken, name, fds>>

LockFails ==
    /\ pc = "lock"
    /\ pc' = "release"
    /\ UNCHANGED <<taken, listed, handleVars, fds, lock, held, client, opening>>

\* Mutant: pkg_open returns NULL without pkg_release.
OpenGivesUp ==
    /\ pc = "release"
    /\ Returns
    /\ UNCHANGED <<taken, listed, handleVars, fds, lock, held>>

\* pkg_release of the handle that was not completed; pkg_open returns NULL.
OpenFails ==
    /\ pc = "release"
    /\ Release({opening})
    /\ Returns

\* pkg_close.
Close(c) ==
    /\ pc = "idle"
    /\ held[c] # None
    /\ refcnt' = [refcnt EXCEPT ![held[c]] = @ - 1]
    /\ held' = [held EXCEPT ![c] = None]
    /\ UNCHANGED <<taken, listed, name, age, fds, lock, callVars>>

\* Mutant: pkg_gc goes by the time alone.
ExpiredInUse == {h \in listed : age[h] > HalfLife}

\* Mutant: the cache itself is thought to count as a reference.
ExpiredAtOne == {h \in listed : refcnt[h] = 1 /\ age[h] > HalfLife}

\* The handles pkg_gc releases.
Expired == {h \in listed : refcnt[h] = 0 /\ age[h] > HalfLife}

\* pkg_gc, with pkg_release of each expired handle.
Gc ==
    /\ pc = "idle"
    /\ Expired # {}
    /\ Release(Expired)
    /\ UNCHANGED callVars

\* The clock.
Tick ==
    /\ age' = [h \in Handles |-> IF h \in listed /\ age[h] < MaxAge
                                    THEN age[h] + 1 ELSE age[h]]
    /\ UNCHANGED <<taken, listed, name, refcnt, fds, lock, held, callVars>>

\* Other processes lock and unlock package files.
ForeignLock(p) ==
    /\ lock[p] \in {None, Foreign}
    /\ lock' = [lock EXCEPT ![p] = IF @ = None THEN Foreign ELSE None]
    /\ UNCHANGED <<taken, listed, handleVars, fds, held, callVars>>

\* What is left to do of a pkg_open.
OpenGoesOn == OpenFile \/ LockFile \/ LockFails \/ OpenFails

Next ==
    \/ \E c \in Clients : \E p \in Paths : OpenCached(c, p) \/ OpenNew(c, p)
    \/ OpenGoesOn
    \/ \E c \in Clients : Close(c)
    \/ \E p \in Paths : ForeignLock(p)
    \/ Gc
    \/ Tick

\* Time passes, a pkg_open comes to its end, and the timer that pkg_init
\* starts has its turn between others.
Spec == Init /\ [][Next]_vars /\ SF_vars(Gc) /\ WF_vars(OpenGoesOn) /\ WF_vars(Tick)

-----------------------------------------------------------------------------
(***************************************************************************)
(* A handle's reference count is the number of clients that hold it: no    *)
(* order of opens, hits, closes and collections lets it drift, and the     *)
(* count never goes below zero.                                            *)
(***************************************************************************)
RefcntExact ==
    \A h \in Handles : refcnt[h] = Cardinality({c \in Clients : held[c] = h})

(***************************************************************************)
(* No client is left with a handle that pkg_gc has released: what a client *)
(* holds is on the list, open and locked for its package.                  *)
(***************************************************************************)
HeldIsLive ==
    \A c \in Clients :
        held[c] # None => /\ held[c] \in listed \intersect taken \intersect fds
                          /\ lock[name[held[c]]] = held[c]

(***************************************************************************)
(* A package has at most one handle, so the daemon never contends with     *)
(* itself for the lock, and every descriptor and every lock of the daemon  *)
(* belongs to a listed handle, but for the one pkg_open is at work on: an  *)
(* open that fails half way leaves neither behind.                         *)
(***************************************************************************)
OneHandlePerPackage ==
    /\ \A g, h \in listed : name[g] = name[h] => g = h
    /\ fds \ {opening} = listed
    /\ \A p \in Paths : lock[p] \in Handles => Named(p) = {lock[p]}

(***************************************************************************)
(* A handle nobody uses is released in the end, unless it is used again.   *)
(***************************************************************************)
UnusedReleased ==
    \A h \in Handles :
        (h \in listed /\ refcnt[h] = 0) ~> (h \notin listed \/ refcnt[h] > 0)

\* What the cache promises, with handles seen as the packages they are for.
PathOf(h) == IF h = None THEN None ELSE name[h]

Active == INSTANCE ActivePackages
    WITH active <- {name[h] : h \in listed},
         held <- [c \in Clients |-> PathOf(held[c])]

ActiveSpec == Active!Spec
=============================================================================
