--------------------------- MODULE PkgCacheProofs ---------------------------
(***************************************************************************)
(* Proofs about PkgCache for any number of clients, packages and handles.  *)
(* The inductive invariant ties the list and the kernel's lock table to    *)
(* each other in both directions: a listed handle holds the lock of the    *)
(* package it is named after, and a lock of the daemon belongs to a listed *)
(* handle of that name.  Uniqueness of handles and their liveness follow.  *)
(* The handle a pkg_open is at work on is apart from all this, and its     *)
(* package has no other, until the open is complete or has failed.         *)
(***************************************************************************)
EXTENDS PkgCache, FiniteSetTheorems, TLAPS

\* What a client holds is on the list.
HeldListed == \A c \in Clients : held[c] # None => held[c] \in listed

\* A listed handle is allocated, named and has the lock of its package.
ListedLocked ==
    /\ listed \subseteq taken
    /\ \A h \in listed : name[h] \in Paths /\ lock[name[h]] = h

\* A lock of the daemon is that of a listed handle of the name.
LockListed ==
    \A p \in Paths :
        lock[p] \in Handles => lock[p] \in listed /\ name[lock[p]] = p

\* The open descriptors are those of the listed handles and perhaps the one
\* pkg_open is making.
FdsListed == fds \ {opening} = listed

\* The handle pkg_open is at work on.
OpeningApart ==
    /\ pc = "idle" <=> opening = None
    /\ pc = "lock" => opening \in fds
    /\ pc # "idle" =>
          /\ opening \in taken \ listed
          /\ name[opening] \in Paths
          /\ Named(name[opening]) = {}
          /\ client \in Clients /\ held[client] = None

IInv ==
    /\ TypeOK
    /\ RefcntExact
    /\ HeldListed
    /\ ListedLocked
    /\ LockListed
    /\ FdsListed
    /\ OpeningApart

Holders(h) == {c \in Clients : held[c] = h}

-----------------------------------------------------------------------------
(***************************************************************************)
(* The reference counts after a client that held nothing got handle h.     *)
(***************************************************************************)
LEMMA OneMoreHolder ==
    ASSUME TypeOK, RefcntExact,
           NEW c \in Clients, NEW h \in Handles, held[c] = None, Reference(c, h)
    PROVE  RefcntExact'
<1> SUFFICES ASSUME NEW g \in Handles
             PROVE  refcnt'[g] = Cardinality(Holders(g)')
  BY DEF RefcntExact, Holders
<1>0. IsFiniteSet(Holders(g)) /\ refcnt[g] = Cardinality(Holders(g))
  BY ClientsFinite, FS_Subset DEF RefcntExact, Holders
<1>1. CASE g = h
  <2>1. Holders(h)' = Holders(h) \union {c}
    BY DEF Reference, Holders, TypeOK
  <2>2. c \notin Holders(h)
    BY NoneDistinct DEF Holders
  <2>3. Cardinality(Holders(h)') = Cardinality(Holders(h)) + 1
    BY <1>0, <1>1, <2>1, <2>2, FS_AddElement
  <2> QED
    BY <1>0, <1>1, <2>3 DEF Reference, TypeOK
<1>2. CASE g # h
  <2>1. Holders(g)' = Holders(g)
    BY <1>2, NoneDistinct DEF Reference, Holders, TypeOK
  <2> QED
    BY <1>0, <1>2, <2>1 DEF Reference, TypeOK
<1> QED
  BY <1>1, <1>2

(***************************************************************************)
(* The reference counts after pkg_close; the count was above zero.         *)
(***************************************************************************)
LEMMA OneHolderLess ==
    ASSUME TypeOK, RefcntExact, NEW c \in Clients, Close(c)
    PROVE  RefcntExact' /\ refcnt' \in [Handles -> Nat]
<1>0. PICK h \in Handles : h = held[c]
  BY DEF TypeOK, Close
<1>1. ASSUME NEW g \in Handles
      PROVE  IsFiniteSet(Holders(g)) /\ refcnt[g] = Cardinality(Holders(g))
  BY ClientsFinite, FS_Subset DEF RefcntExact, Holders
<1>2. Holders(h)' = Holders(h) \ {c}
  BY <1>0, NoneDistinct DEF Close, Holders, TypeOK
<1>3. Cardinality(Holders(h)') = Cardinality(Holders(h)) - 1
  <2>1. c \in Holders(h)
    BY <1>0 DEF Holders
  <2> QED
    BY <1>0, <1>1, <1>2, <2>1, FS_RemoveElement
<1>4. Cardinality(Holders(h)') \in Nat
  <2>1. IsFiniteSet(Holders(h)')
    BY <1>0, <1>1, <1>2, FS_RemoveElement
  <2> QED
    BY <2>1, FS_CardinalityType
<1>5. refcnt' = [refcnt EXCEPT ![h] = Cardinality(Holders(h)')]
  BY <1>0, <1>1, <1>3 DEF Close, TypeOK
<1>6. ASSUME NEW g \in Handles, g # h
      PROVE  refcnt'[g] = Cardinality(Holders(g)')
  <2>1. Holders(g)' = Holders(g)
    BY <1>0, <1>6, NoneDistinct DEF Close, Holders, TypeOK
  <2> QED
    BY <1>1, <1>5, <1>6, <2>1 DEF TypeOK
<1>7. refcnt'[h] = Cardinality(Holders(h)')
  BY <1>0, <1>5 DEF TypeOK
<1>8. RefcntExact'
  BY <1>6, <1>7 DEF RefcntExact, Holders
<1> QED
  BY <1>0, <1>4, <1>5, <1>8 DEF TypeOK

(***************************************************************************)
(* pkg_gc takes nothing away from a client.                                *)
(***************************************************************************)
LEMMA ExpiredUnheld ==
    ASSUME TypeOK, RefcntExact, NEW c \in Clients
    PROVE  held[c] \notin Expired
<1> SUFFICES ASSUME held[c] \in Expired
             PROVE  FALSE
  OBVIOUS
<1>1. held[c] \in Handles /\ refcnt[held[c]] = 0
  BY DEF Expired, TypeOK
<1>2. IsFiniteSet(Holders(held[c])) /\ Cardinality(Holders(held[c])) = 0
  BY <1>1, ClientsFinite, FS_Subset DEF RefcntExact, Holders
<1>3. Holders(held[c]) = {}
  BY <1>2, FS_EmptySet
<1> QED
  BY <1>3 DEF Holders

(***************************************************************************)
(* pkg_release of handles nobody holds leaves the rest as it was.          *)
(***************************************************************************)
LEMMA ReleaseFacts ==
    ASSUME IInv, NEW hs \in SUBSET Handles, Release(hs),
           \A c \in Clients : held[c] \notin hs
    PROVE  /\ taken' \in SUBSET Handles /\ listed' \in SUBSET Handles
           /\ fds' \in SUBSET Handles
           /\ name' \in [Handles -> Paths \union {None}]
           /\ lock' \in [Paths -> Handles \union {None, Foreign}]
           /\ age' \in [Handles -> 0..MaxAge]
           /\ refcnt' = refcnt /\ held' = held
           /\ RefcntExact' /\ HeldListed' /\ ListedLocked' /\ LockListed'
<1>t. TypeOK /\ RefcntExact /\ HeldListed /\ ListedLocked /\ LockListed
  BY DEF IInv
<1>1. taken' \in SUBSET Handles /\ listed' \in SUBSET Handles /\ fds' \in SUBSET Handles
  BY <1>t DEF Release, TypeOK
<1>2. age' \in [Handles -> 0..MaxAge]
  <2>1. 0 \in 0..MaxAge
    BY HalfLifeIsNat DEF MaxAge
  <2> QED
    BY <1>t, <2>1 DEF Release, TypeOK
<1>3. name' \in [Handles -> Paths \union {None}]
  BY <1>t DEF Release, TypeOK
<1>4. lock' \in [Paths -> Handles \union {None, Foreign}]
  BY <1>t DEF Release, TypeOK
<1>5. refcnt' = refcnt /\ held' = held
  BY DEF Release
<1>6. RefcntExact'
  BY <1>t, <1>5 DEF RefcntExact
<1>7. HeldListed'
  BY <1>t DEF Release, HeldListed
<1>8. ASSUME NEW h \in listed'
      PROVE  name'[h] \in Paths /\ lock'[name'[h]] = h
  <2>1. h \in listed /\ h \notin hs /\ h \in Handles
    BY <1>t DEF Release, TypeOK
  <2>2. name'[h] = name[h] /\ name[h] \in Paths /\ lock[name[h]] = h
    BY <1>t, <2>1 DEF Release, ListedLocked
  <2> QED
    BY <2>1, <2>2 DEF Release
<1>9. ListedLocked'
  BY <1>t, <1>8 DEF Release, ListedLocked
<1>10. LockListed'
  <2> SUFFICES ASSUME NEW p \in Paths, lock'[p] \in Handles
               PROVE  lock'[p] \in listed' /\ name'[lock'[p]] = p
    BY DEF LockListed
  <2>1. lock'[p] = lock[p] /\ lock[p] \notin hs
    BY NoneDistinct DEF Release
  <2>2. lock[p] \in listed /\ name[lock[p]] = p
    BY <1>t, <2>1 DEF LockListed
  <2> QED
    BY <2>1, <2>2 DEF Release
<1> QED
  BY <1>1, <1>2, <1>3, <1>4, <1>5, <1>6, <1>7, <1>9, <1>10

-----------------------------------------------------------------------------
(***************************************************************************)
(* An empty cache satisfies the inductive invariant.                       *)
(***************************************************************************)
LEMMA InitIInv == Init => IInv
<1> SUFFICES ASSUME Init PROVE IInv
  OBVIOUS
<1>1. TypeOK
  BY HalfLifeIsNat DEF Init, TypeOK, MaxAge
<1>2. RefcntExact
  <2> SUFFICES ASSUME NEW h \in Handles
               PROVE  0 = Cardinality({c \in Clients : held[c] = h})
    BY DEF Init, RefcntExact
  <2>1. {c \in Clients : held[c] = h} = {}
    BY NoneDistinct DEF Init
  <2> QED
    BY <2>1, FS_EmptySet
<1>3. HeldListed /\ ListedLocked /\ LockListed /\ FdsListed /\ OpeningApart
  BY NoneDistinct DEF Init, HeldListed, ListedLocked, LockListed, FdsListed, OpeningApart
<1> QED
  BY <1>1, <1>2, <1>3 DEF IInv

(***************************************************************************)
(* Every step preserves the inductive invariant.                           *)
(***************************************************************************)
LEMMA NextIInv == IInv /\ [Next]_vars => IInv'
<1> SUFFICES ASSUME IInv, [Next]_vars PROVE IInv'
  OBVIOUS
<1>t. /\ TypeOK /\ RefcntExact /\ HeldListed /\ ListedLocked /\ LockListed
      /\ FdsListed /\ OpeningApart
  BY DEF IInv
<1>a. HalfLife \in Nat /\ MaxAge \in Nat /\ 0 \in 0..MaxAge
  BY HalfLifeIsNat DEF MaxAge
<1>i. pc = "idle" => opening = None /\ fds = listed
  BY <1>t, NoneDistinct DEF OpeningApart, FdsListed, TypeOK
<1>1. ASSUME NEW c \in Clients, NEW p \in Paths, OpenCached(c, p)
      PROVE  IInv'
  <2>1. PICK h \in Named(p) : Reference(c, h)
    BY <1>1 DEF OpenCached
  <2>2. h \in Handles /\ h \in listed /\ h # None
    BY <1>t, NoneDistinct DEF Named, TypeOK
  <2>3. RefcntExact'
    BY <1>1, <1>t, <2>1, <2>2, OneMoreHolder DEF OpenCached
  <2>4. TypeOK'
    BY <1>1, <1>t, <1>a, <2>1, <2>2 DEF OpenCached, Reference, callVars, TypeOK
  <2>5. HeldListed'
    BY <1>1, <1>t, <2>1, <2>2 DEF OpenCached, Reference, HeldListed, TypeOK
  <2>6. ListedLocked' /\ LockListed' /\ FdsListed' /\ OpeningApart'
    BY <1>1, <1>t, <1>i
       DEF OpenCached, callVars, ListedLocked, LockListed, FdsListed, OpeningApart
  <2> QED
    BY <2>3, <2>4, <2>5, <2>6 DEF IInv
<1>2. ASSUME NEW c \in Clients, NEW p \in Paths, OpenNew(c, p)
      PROVE  IInv'
  <2>1. PICK h \in Handles \ taken :
          /\ taken' = taken \union {h}
          /\ name' = [name EXCEPT ![h] = p]
          /\ opening' = h
    BY <1>2 DEF OpenNew
  <2>2. h \notin listed /\ h # None
    BY <1>t, NoneDistinct DEF ListedLocked
  <2>3. /\ pc = "idle" /\ pc' = "open" /\ client' = c /\ held[c] = None /\ Named(p) = {}
        /\ UNCHANGED <<listed, refcnt, age, fds, lock, held>>
    BY <1>2 DEF OpenNew
  <2>4. name'[h] = p /\ \A g \in listed : name'[g] = name[g]
    BY <1>t, <2>1, <2>2 DEF TypeOK
  <2>5. TypeOK'
    BY <1>t, <2>1, <2>3 DEF TypeOK
  <2>6. RefcntExact' /\ HeldListed'
    BY <1>t, <2>3 DEF RefcntExact, HeldListed
  <2>7. ListedLocked' /\ LockListed'
    BY <1>t, <2>1, <2>3, <2>4 DEF ListedLocked, LockListed
  <2>8. FdsListed'
    BY <1>i, <2>1, <2>2, <2>3 DEF FdsListed
  <2>9. OpeningApart'
    <3>1. Named(p)' = {}
      BY <2>3, <2>4 DEF Named
    <3> QED
      BY <2>1, <2>2, <2>3, <2>4, <3>1 DEF OpeningApart
  <2> QED
    BY <2>5, <2>6, <2>7, <2>8, <2>9 DEF IInv
<1>3. CASE OpenFile
  <2>1. /\ pc = "open" /\ pc' \in {"lock", "release"}
        /\ fds' \in {fds, fds \union {opening}}
        /\ pc' = "lock" => opening \in fds'
        /\ UNCHANGED <<taken, listed, name, refcnt, age, lock, held, client, opening>>
    BY <1>3 DEF OpenFile, handleVars
  <2>2. opening \in Handles /\ opening # None
    BY <1>t, <2>1, NoneDistinct DEF OpeningApart, TypeOK
  <2>3. TypeOK'
    BY <1>t, <2>1, <2>2 DEF TypeOK
  <2>4. RefcntExact' /\ HeldListed' /\ ListedLocked' /\ LockListed'
    BY <1>t, <2>1 DEF RefcntExact, HeldListed, ListedLocked, LockListed
  <2>5. FdsListed'
    BY <1>t, <2>1 DEF FdsListed
  <2>6. OpeningApart'
    BY <1>t, <2>1, <2>2 DEF OpeningApart, Named
  <2> QED
    BY <2>3, <2>4, <2>5, <2>6 DEF IInv
<1>4. CASE LockFile
  <2>1. PICK c \in Clients, h \in Handles, p \in Paths :
          /\ c = client /\ h = opening /\ p = name[opening]
          /\ h \in taken \ listed /\ h \in fds /\ Named(p) = {} /\ held[c] = None
    BY <1>4, <1>t DEF LockFile, OpeningApart, TypeOK
  <2>2. /\ lock' = [lock EXCEPT ![p] = h] /\ lock[p] = None
        /\ listed' = listed \union {h}
        /\ Reference(c, h)
        /\ pc' = "idle" /\ client' = None /\ opening' = None
        /\ UNCHANGED <<taken, name, fds>>
    BY <1>4, <2>1 DEF LockFile, Returns
  <2>3. RefcntExact'
    BY <1>t, <2>1, <2>2, OneMoreHolder
  <2>4. TypeOK'
    BY <1>t, <1>a, <2>1, <2>2 DEF Reference, TypeOK
  <2>5. HeldListed'
    BY <1>t, <2>1, <2>2 DEF Reference, HeldListed, TypeOK
  <2>6. ASSUME NEW g \in listed
        PROVE  name[g] \in Paths /\ lock'[name[g]] = g
    <3>1. name[g] \in Paths /\ lock[name[g]] = g
      BY <1>t DEF ListedLocked
    <3>2. name[g] # p
      BY <2>1 DEF Named
    <3> QED
      BY <1>t, <2>2, <3>1, <3>2 DEF TypeOK
  <2>7. name[h] = p /\ lock'[p] = h
    BY <1>t, <2>1, <2>2 DEF TypeOK
  <2>8. ListedLocked'
    BY <1>t, <2>1, <2>2, <2>6, <2>7 DEF ListedLocked
  <2>9. ASSUME NEW q \in Paths, lock'[q] \in Handles, q # p
        PROVE  lock'[q] \in listed' /\ name'[lock'[q]] = q
    <3>1. lock'[q] = lock[q]
      BY <1>t, <2>2, <2>9 DEF TypeOK
    <3>2. lock[q] \in listed /\ name[lock[q]] = q
      BY <1>t, <2>9, <3>1 DEF LockListed
    <3> QED
      BY <2>2, <3>1, <3>2
  <2>10. LockListed'
    BY <2>2, <2>7, <2>9 DEF LockListed
  <2>11. FdsListed'
    <3>1. None \notin fds
      BY <1>t, NoneDistinct DEF TypeOK
    <3> QED
      BY <1>t, <2>1, <2>2, <3>1 DEF FdsListed
  <2>12. OpeningApart'
    BY <2>2 DEF OpeningApart
  <2> QED
    BY <2>3, <2>4, <2>5, <2>8, <2>10, <2>11, <2>12 DEF IInv
<1>5. CASE LockFails
  <2>1. /\ pc = "lock" /\ pc' = "release"
        /\ UNCHANGED <<taken, listed, name, refcnt, age, fds, lock, held, client, opening>>
    BY <1>5 DEF LockFails, handleVars
  <2>2. TypeOK'
    BY <1>t, <2>1 DEF TypeOK
  <2>3. RefcntExact' /\ HeldListed' /\ ListedLocked' /\ LockListed' /\ FdsListed'
    BY <1>t, <2>1 DEF RefcntExact, HeldListed, ListedLocked, LockListed, FdsListed
  <2>4. OpeningApart'
    BY <1>t, <2>1 DEF OpeningApart, Named
  <2> QED
    BY <2>2, <2>3, <2>4 DEF IInv
<1>6. CASE OpenFails
  <2>1. /\ opening \in Handles /\ opening \notin listed
        /\ Release({opening})
        /\ pc' = "idle" /\ client' = None /\ opening' = None
    BY <1>6, <1>t DEF OpenFails, Returns, OpeningApart, TypeOK
  <2>2. \A c \in Clients : held[c] \notin {opening}
    BY <1>t, <2>1, NoneDistinct DEF HeldListed
  <2>3. /\ taken' \in SUBSET Handles /\ listed' \in SUBSET Handles
        /\ fds' \in SUBSET Handles
        /\ name' \in [Handles -> Paths \union {None}]
        /\ lock' \in [Paths -> Handles \union {None, Foreign}]
        /\ age' \in [Handles -> 0..MaxAge]
        /\ refcnt' = refcnt /\ held' = held
        /\ RefcntExact' /\ HeldListed' /\ ListedLocked' /\ LockListed'
    BY <2>1, <2>2, ReleaseFacts
  <2>4. TypeOK'
    BY <1>t, <2>1, <2>3 DEF TypeOK
  <2>5. FdsListed'
    BY <1>t, <2>1, <2>3, NoneDistinct DEF FdsListed, Release
  <2>6. OpeningApart'
    BY <2>1 DEF OpeningApart
  <2> QED
    BY <2>3, <2>4, <2>5, <2>6 DEF IInv
<1>7. ASSUME NEW c \in Clients, Close(c)
      PROVE  IInv'
  <2>1. RefcntExact' /\ refcnt' \in [Handles -> Nat]
    BY <1>7, <1>t, OneHolderLess
  <2>2. TypeOK'
    BY <1>7, <1>t, <2>1 DEF Close, callVars, TypeOK
  <2>3. HeldListed' /\ ListedLocked' /\ LockListed'
    BY <1>7, <1>t DEF Close, TypeOK, HeldListed, ListedLocked, LockListed
  <2>4. FdsListed' /\ OpeningApart'
    BY <1>7, <1>t DEF Close, callVars, FdsListed, OpeningApart
  <2> QED
    BY <2>1, <2>2, <2>3, <2>4 DEF IInv
<1>8. CASE Gc
  <2>1. /\ Expired \in SUBSET Handles /\ pc = "idle" /\ Release(Expired)
        /\ UNCHANGED <<pc, client, opening>>
    BY <1>8, <1>t DEF Gc, callVars, Expired, TypeOK
  <2>2. \A c \in Clients : held[c] \notin Expired
    BY <1>t, ExpiredUnheld
  <2>3. /\ taken' \in SUBSET Handles /\ listed' \in SUBSET Handles
        /\ fds' \in SUBSET Handles
        /\ name' \in [Handles -> Paths \union {None}]
        /\ lock' \in [Paths -> Handles \union {None, Foreign}]
        /\ age' \in [Handles -> 0..MaxAge]
        /\ refcnt' = refcnt /\ held' = held
        /\ RefcntExact' /\ HeldListed' /\ ListedLocked' /\ LockListed'
    BY <2>1, <2>2, ReleaseFacts
  <2>4. TypeOK'
    BY <1>t, <2>1, <2>3 DEF TypeOK
  <2>5. FdsListed' /\ OpeningApart'
    BY <1>t, <1>i, <2>1, <2>3, NoneDistinct DEF FdsListed, OpeningApart, Release
  <2> QED
    BY <2>3, <2>4, <2>5 DEF IInv
<1>9. CASE Tick
  <2>1. age' \in [Handles -> 0..MaxAge]
    <3> SUFFICES ASSUME NEW h \in Handles
                 PROVE  (IF h \in listed /\ age[h] < MaxAge
                           THEN age[h] + 1 ELSE age[h]) \in 0..MaxAge
      BY <1>9 DEF Tick
    <3>1. age[h] \in 0..MaxAge
      BY <1>t DEF TypeOK
    <3> QED
      BY <1>a, <3>1
  <2>2. TypeOK'
    BY <1>9, <1>t, <2>1 DEF Tick, callVars, TypeOK
  <2>3. /\ RefcntExact' /\ HeldListed' /\ ListedLocked' /\ LockListed'
        /\ FdsListed' /\ OpeningApart'
    BY <1>9, <1>t
       DEF Tick, callVars, RefcntExact, HeldListed, ListedLocked, LockListed, FdsListed,
           OpeningApart, Named
  <2> QED
    BY <2>2, <2>3 DEF IInv
<1>10. ASSUME NEW p \in Paths, ForeignLock(p)
      PROVE  IInv'
  <2>1. lock' = [lock EXCEPT ![p] = IF lock[p] = None THEN Foreign ELSE None]
    BY <1>10 DEF ForeignLock
  <2>2. TypeOK'
    BY <1>10, <1>t, <2>1 DEF ForeignLock, handleVars, callVars, TypeOK
  <2>3. ASSUME NEW h \in listed
        PROVE  name[h] # p
    BY <1>10, <1>t, NoneDistinct, ForeignDistinct
       DEF ForeignLock, ListedLocked, TypeOK
  <2>4. ListedLocked'
    BY <1>10, <1>t, <2>1, <2>3 DEF ForeignLock, handleVars, ListedLocked, TypeOK
  <2>5. LockListed'
    BY <1>10, <1>t, <2>1, NoneDistinct, ForeignDistinct
       DEF ForeignLock, handleVars, LockListed, TypeOK
  <2>6. RefcntExact' /\ HeldListed' /\ FdsListed' /\ OpeningApart'
    BY <1>10, <1>t
       DEF ForeignLock, handleVars, callVars, RefcntExact, HeldListed, FdsListed, OpeningApart,
           Named
  <2> QED
    BY <2>2, <2>4, <2>5, <2>6 DEF IInv
<1>11. CASE UNCHANGED vars
  BY <1>11, <1>t
     DEF vars, handleVars, callVars, IInv, TypeOK, RefcntExact, HeldListed, ListedLocked,
         LockListed, FdsListed, OpeningApart, Named
<1> QED
  BY <1>1, <1>2, <1>3, <1>4, <1>5, <1>6, <1>7, <1>8, <1>9, <1>10, <1>11 DEF Next, OpenGoesOn

-----------------------------------------------------------------------------
(***************************************************************************)
(* The inductive invariant of the cache: list, descriptors, lock table,    *)
(* reference counts and holders stay consistent under every interleaving   *)
(* of pkg_open, pkg_close, pkg_gc and other processes' locks.              *)
(***************************************************************************)
THEOREM CacheSound == Spec => []IInv
<1> QED
  BY InitIInv, NextIInv, PTL DEF Spec

(***************************************************************************)
(* The variables of pkg.c keep their types; refcnt is never negative.      *)
(***************************************************************************)
THEOREM CacheTypes == Spec => []TypeOK
<1>1. IInv => TypeOK
  BY DEF IInv
<1> QED
  BY <1>1, CacheSound, PTL

(***************************************************************************)
(* refcnt counts the clients of a handle.                                  *)
(***************************************************************************)
THEOREM RefcntsExact == Spec => []RefcntExact
<1>1. IInv => RefcntExact
  BY DEF IInv
<1> QED
  BY <1>1, CacheSound, PTL

(***************************************************************************)
(* What a client holds is never released under it by pkg_gc.               *)
(***************************************************************************)
THEOREM HeldHandlesLive == Spec => []HeldIsLive
<1>1. IInv => HeldIsLive
  BY DEF IInv, HeldIsLive, HeldListed, ListedLocked, FdsListed
<1> QED
  BY <1>1, CacheSound, PTL

(***************************************************************************)
(* A package has one handle at most, and the daemon's descriptors and      *)
(* locks are those of the listed handles.                                  *)
(***************************************************************************)
THEOREM HandlesUnique == Spec => []OneHandlePerPackage
<1>1. IInv => OneHandlePerPackage
  <2> SUFFICES ASSUME IInv PROVE OneHandlePerPackage
    OBVIOUS
  <2>1. ListedLocked /\ LockListed /\ FdsListed
    BY DEF IInv
  <2>2. ASSUME NEW p \in Paths, lock[p] \in Handles
        PROVE  Named(p) = {lock[p]}
    BY <2>1, <2>2 DEF Named, ListedLocked, LockListed
  <2> QED
    BY <2>1, <2>2 DEF OneHandlePerPackage, ListedLocked, FdsListed
<1> QED
  BY <1>1, CacheSound, PTL

-----------------------------------------------------------------------------
(***************************************************************************)
(* Each step of the cache is a step of ActivePackages or changes nothing   *)
(* it speaks of.                                                           *)
(***************************************************************************)
LEMMA StepSimulation == IInv /\ IInv' /\ [Next]_vars => [Active!Next]_Active!vars
<1> SUFFICES ASSUME IInv, IInv', [Next]_vars
             PROVE  [Active!Next]_Active!vars
  OBVIOUS
<1> DEFINE act == {name[h] : h \in listed}
           hold == [c \in Clients |-> PathOf(held[c])]
<1>t. TypeOK /\ RefcntExact /\ HeldListed /\ ListedLocked /\ OpeningApart
  BY DEF IInv
<1>0. ASSUME UNCHANGED <<listed, name, held>>
      PROVE  act' = act /\ hold' = hold
  BY <1>0 DEF PathOf
<1>s. ASSUME act' = act, hold' = hold
      PROVE  [Active!Next]_Active!vars
  BY <1>s DEF Active!vars
<1>1. ASSUME NEW c \in Clients, NEW p \in Paths, OpenCached(c, p)
      PROVE  Active!Open(c, p)
  <2>1. PICK h \in Named(p) : Reference(c, h)
    BY <1>1 DEF OpenCached
  <2>2. h \in listed /\ name[h] = p /\ h # None
    BY <1>t, NoneDistinct DEF Named, TypeOK
  <2>3. act' = act \union {p}
    BY <1>1, <2>2 DEF OpenCached
  <2>4. hold[c] = None
    BY <1>1 DEF OpenCached, PathOf
  <2>5. hold' = [hold EXCEPT ![c] = p]
    BY <1>1, <1>t, <2>1, <2>2 DEF OpenCached, Reference, PathOf, TypeOK
  <2> QED
    BY <2>3, <2>4, <2>5 DEF Active!Open
<1>2. ASSUME NEW c \in Clients, NEW p \in Paths, OpenNew(c, p)
      PROVE  act' = act /\ hold' = hold
  <2>1. PICK h \in Handles \ taken : name' = [name EXCEPT ![h] = p]
    BY <1>2 DEF OpenNew
  <2>2. \A g \in listed : name'[g] = name[g]
    BY <1>t, <2>1 DEF ListedLocked, TypeOK
  <2>3. listed' = listed /\ held' = held
    BY <1>2 DEF OpenNew
  <2>4. act' = act
    BY <2>2, <2>3
  <2>5. \A d \in Clients : PathOf(held[d])' = PathOf(held[d])
    BY <1>t, <2>2, <2>3 DEF HeldListed, PathOf
  <2> QED
    BY <2>4, <2>5
<1>3. ASSUME LockFile
      PROVE  \E c \in Clients : \E p \in Paths : Active!Open(c, p)
  <2>1. PICK c \in Clients, h \in Handles, p \in Paths :
          /\ c = client /\ h = opening /\ p = name[h] /\ held[c] = None
          /\ h \notin listed
    BY <1>3, <1>t DEF LockFile, OpeningApart, TypeOK
  <2>2. listed' = listed \union {h} /\ name' = name /\ Reference(c, h) /\ h # None
    BY <1>3, <2>1, NoneDistinct DEF LockFile
  <2>3. act' = act \union {p}
    BY <2>1, <2>2
  <2>4. hold[c] = None
    BY <2>1 DEF PathOf
  <2>5. hold' = [hold EXCEPT ![c] = p]
    BY <1>t, <2>1, <2>2 DEF Reference, PathOf, TypeOK
  <2> QED
    BY <2>1, <2>3, <2>4, <2>5 DEF Active!Open
<1>4. ASSUME OpenFile \/ LockFails
      PROVE  act' = act /\ hold' = hold
  BY <1>0, <1>4 DEF OpenFile, LockFails, handleVars
<1>5. ASSUME OpenFails
       PROVE  act' = act /\ hold' = hold
  <2>1. opening \in Handles \ listed /\ Release({opening})
    BY <1>5, <1>t DEF OpenFails, OpeningApart, TypeOK
  <2>2. listed' = listed /\ held' = held /\ \A g \in listed : name'[g] = name[g]
    BY <1>t, <2>1 DEF Release, TypeOK
  <2>3. act' = act
    BY <2>2
  <2>4. \A d \in Clients : PathOf(held[d])' = PathOf(held[d])
    BY <1>t, <2>2 DEF HeldListed, PathOf
  <2> QED
    BY <2>3, <2>4
<1>6. ASSUME NEW c \in Clients, Close(c)
      PROVE  Active!Close(c)
  <2>1. hold[c] # None
    BY <1>6, <1>t, NoneDistinct DEF Close, PathOf, HeldListed, ListedLocked
  <2>2. act' = act
    BY <1>6 DEF Close
  <2>3. hold' = [hold EXCEPT ![c] = None]
    BY <1>6, <1>t DEF Close, PathOf, TypeOK
  <2> QED
    BY <2>1, <2>2, <2>3 DEF Active!Close
<1>7. ASSUME Gc
      PROVE  Active!Expire
  <2> DEFINE gone == {name[h] : h \in Expired}
  <2>0. Expired \subseteq listed /\ listed \subseteq Handles
    BY <1>t DEF Expired, TypeOK
  <2>1. \A g, h \in listed : name[g] = name[h] => g = h
    BY <1>t DEF ListedLocked
  <2>2. act' = act \ gone
    BY <1>7, <2>0, <2>1 DEF Gc, Release
  <2>3. ASSUME NEW c \in Clients
        PROVE  hold[c] \notin gone /\ hold'[c] = hold[c]
    <3>1. held[c] \notin Expired /\ held' = held
      BY <1>7, <1>t, ExpiredUnheld DEF Gc, Release, Release
    <3>2. CASE held[c] = None
      BY <1>t, <2>0, <3>1, <3>2, NoneDistinct DEF PathOf, ListedLocked
    <3>3. CASE held[c] # None
      <4>1. held[c] \in listed
        BY <1>t, <3>3 DEF HeldListed
      <4>2. name'[held[c]] = name[held[c]]
        BY <1>7, <2>0, <3>1, <4>1 DEF Gc, Release
      <4> QED
        BY <2>0, <2>1, <3>1, <3>3, <4>1, <4>2 DEF PathOf
    <3> QED
      BY <3>2, <3>3
  <2>4. gone \in SUBSET (act \ {hold[c] : c \in Clients})
    BY <2>0, <2>3
  <2>5. hold' = hold
    BY <2>3
  <2> QED
    BY <2>2, <2>4, <2>5 DEF Active!Expire
<1>8. ASSUME Tick
      PROVE  act' = act /\ hold' = hold
  BY <1>0, <1>8 DEF Tick
<1>9. ASSUME NEW p \in Paths, ForeignLock(p)
      PROVE  act' = act /\ hold' = hold
  BY <1>0, <1>9 DEF ForeignLock, handleVars
<1>10. ASSUME UNCHANGED vars
      PROVE  act' = act /\ hold' = hold
  BY <1>0, <1>10 DEF vars, handleVars
<1> HIDE DEF act, hold
<1> QED
  BY <1>1, <1>2, <1>3, <1>4, <1>5, <1>6, <1>7, <1>8, <1>9, <1>10, <1>s
  DEF Next, OpenGoesOn, Active!Next

(***************************************************************************)
(* The cache implements ActivePackages: a package is active while anybody  *)
(* holds it and is let go of only when nobody does.                        *)
(***************************************************************************)
THEOREM CacheImplementsActive == Spec => ActiveSpec
<1>1. Init => Active!Init
  BY DEF Init, Active!Init, PathOf
<1> QED
  BY <1>1, StepSimulation, CacheSound, PTL DEF Spec, ActiveSpec, Active!Spec
=============================================================================
