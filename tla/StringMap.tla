----------------------------- MODULE StringMap -----------------------------
(***************************************************************************)
(* What dictionary.c promises: a map from strings to strings, in which a   *)
(* key may be set, set again and deleted.  Slots, hashes and growth do not *)
(* show.  Module Dictionary is shown to implement this specification.      *)
(***************************************************************************)
CONSTANTS
    Keys,       \* the keys
    Values,     \* the values, the NULL pointer among them
    Undefined   \* what a lookup says of a key that is not there

VARIABLE map

Init == map = [k \in Keys |-> Undefined]

Set(k, v) == map' = [map EXCEPT ![k] = v]

Delete(k) == map' = [map EXCEPT ![k] = Undefined]

Next == \E k \in Keys : Delete(k) \/ \E v \in Values : Set(k, v)

Spec == Init /\ [][Next]_map
=============================================================================
