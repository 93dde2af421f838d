----------------------------- MODULE Dictionary -----------------------------
(***************************************************************************)
(* The dictionary of dictionary.c: three arrays of equal length with the   *)
(* keys, the values and the hashes of the keys, searched from the front.   *)
(*                                                                         *)
(* Abstractions.  A key and a value are members of small sets; the hash is *)
(* any function of the key, so that collisions occur.  Strings are copied  *)
(* on the way in, which members of a set need not be.  Memory does not run *)
(* out: mem_double's failure leaves the object unusable and no caller      *)
(* looks at the result.                                                    *)
(***************************************************************************)
EXTENDS Integers, FiniteSets

CONSTANTS
    Keys,       \* the keys
    Values,     \* the values
    Hash,       \* dictionary_hash
    MinSize,    \* DICTMINSZ
    Null,       \* the NULL pointer
    Undefined   \* the default a caller gives, as told apart from a value

ASSUME HashTotal == Hash \in [Keys -> Nat]
ASSUME MinSizePositive == MinSize \in Nat \ {0}
ASSUME NullDistinct == Null \notin Keys /\ Undefined \notin Values \union {Null}

VARIABLES
    key,        \* d->key
    val,        \* d->val
    hash,       \* d->hash
    n,          \* d->n
    size        \* d->size

dictVars == <<key, val, hash, n, size>>

DictTypeOK ==
    /\ size \in Nat \ {0}
    /\ n \in Nat
    /\ key \in [1..size -> Keys \union {Null}]
    /\ val \in [1..size -> Values \union {Null}]
    /\ hash \in [1..size -> Nat]

\* dictionary_new(0).
DictInit ==
    /\ size = MinSize
    /\ n = 0
    /\ key = [i \in 1..MinSize |-> Null]
    /\ val = [i \in 1..MinSize |-> Null]
    /\ hash = [i \in 1..MinSize |-> 0]

\* Where a search from the front stops.
First(S) == CHOOSE i \in S : \A j \in S : i <= j

\* The slots that match a key.
Slots(k) == {i \in 1..size : key[i] # Null /\ hash[i] = Hash[k] /\ key[i] = k}

\* dictionary_get.
Get(k, def) == IF Slots(k) = {} THEN def ELSE val[First(Slots(k))]

\* dictionary_set of a key that is there.
Replace(k, v) ==
    /\ n > 0 /\ Slots(k) # {}
    /\ val' = [val EXCEPT ![First(Slots(k))] = v]
    /\ UNCHANGED <<key, hash, n, size>>

\* The length of the arrays when a key is to be added.
Width == IF n = size THEN 2 * size ELSE size

\* An array after mem_double, which clears the new half.
Padded(a, empty) == [i \in 1..Width |-> IF i <= size THEN a[i] ELSE empty]

\* Mutant: a slot is free when it has no value.
FreeByValue == {i \in 1..Width : Padded(val, Null)[i] = Null}

Free == {i \in 1..Width : Padded(key, Null)[i] = Null}

\* dictionary_set of a key that is not there: the first free slot is taken.
Insert(k, v) ==
    /\ ~(n > 0 /\ Slots(k) # {})
    /\ size' = Width
    /\ LET i == First(Free)
       IN  /\ key' = [Padded(key, Null) EXCEPT ![i] = k]
           /\ val' = [Padded(val, Null) EXCEPT ![i] = v]
           /\ hash' = [Padded(hash, 0) EXCEPT ![i] = Hash[k]]
    /\ n' = n + 1

DictSet(k, v) == Replace(k, v) \/ Insert(k, v)

\* dictionary_unset.
DictUnset(k) ==
    \/ /\ Slots(k) = {}
       /\ UNCHANGED dictVars
    \/ /\ Slots(k) # {}
       /\ LET i == First(Slots(k))
          IN  /\ key' = [key EXCEPT ![i] = Null]
              /\ val' = [val EXCEPT ![i] = Null]
              /\ hash' = [hash EXCEPT ![i] = 0]
       /\ n' = n - 1
       /\ UNCHANGED size

DictNext ==
    \E k \in Keys : DictUnset(k) \/ \E v \in Values \union {Null} : DictSet(k, v)

DictSpec == DictInit /\ [][DictNext]_dictVars

-----------------------------------------------------------------------------
Occupied == {i \in 1..size : key[i] # Null}

(***************************************************************************)
(* d->n is the number of keys, through every mixture of additions,         *)
(* replacements, deletions and growth: dictionary_set decides by it        *)
(* whether there is a free slot, and would write beyond the arrays if it   *)
(* were too low.                                                           *)
(***************************************************************************)
CountExact == n = Cardinality(Occupied) /\ n <= size

(***************************************************************************)
(* A key is in one slot at most and is found there: no slot that a         *)
(* deletion left in front hides it or takes it a second time, and its hash *)
(* survives growth.                                                        *)
(***************************************************************************)
KeyOnce ==
    /\ \A i, j \in Occupied : key[i] = key[j] => i = j
    /\ \A i \in Occupied : hash[i] = Hash[key[i]]

\* What the dictionary promises.
Map == INSTANCE StringMap
    WITH Values <- Values \union {Null},
         map <- [k \in Keys |-> Get(k, Undefined)]

MapSpec == Map!Spec
=============================================================================
