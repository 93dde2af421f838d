----------------------------- MODULE ConfProofs -----------------------------
(***************************************************************************)
(* Proofs about Dictionary and Conf for any keys, values, hash function,   *)
(* initial size and configuration file.                                    *)
(*                                                                         *)
(* DictInv is inductive for the dictionary: that n counts the occupied     *)
(* slots is what makes the search for a free slot succeed, and that a key  *)
(* is stored once, under its own hash, is what makes a search for it find  *)
(* the one slot it has.  For the loading of a file the flag in_comment has *)
(* to mean that the line is within a block comment.                        *)
(***************************************************************************)
EXTENDS Conf, FiniteSetTheorems, WellFoundedInduction, TLAPS

DictInv == DictTypeOK /\ CountExact /\ KeyOnce

\* What has been read so far, and the meaning of the flag.
Reading == phase = "reading" => (in_comment <=> Commented(line))

\* Every search for a key finds the one slot that holds it, if any does.
SearchesSucceed ==
    \A k \in Keys :
        /\ Slots(k) = {i \in 1..size : key[i] = k}
        /\ \A i \in Slots(k) : First(Slots(k)) = i

IInv == TypeOK /\ CountExact /\ KeyOnce /\ Reading /\ Loaded

-----------------------------------------------------------------------------
(***************************************************************************)
(* A search that can succeed stops at a slot it was looking for.           *)
(***************************************************************************)
LEMMA FirstIn ==
    ASSUME NEW S, S \subseteq Nat, S # {}
    PROVE  First(S) \in S
<1> DEFINE Below == {ss \in Nat \X Nat : ss[1] < ss[2]}
<1>1. IsWellFoundedOn(Below, Nat)
  BY NatLessThanWellFounded, Zenon DEF OpToRel
<1>2. PICK i \in S : \A j \in S : ~(<<j, i>> \in Below)
  <2> HIDE DEF Below
  <2> QED
    BY <1>1, WFMin
<1>3. ASSUME NEW j \in S PROVE i <= j
  <2>1. i \in Nat /\ j \in Nat
    OBVIOUS
  <2>2. j < i => <<j, i>> \in Below
    BY <2>1
  <2> QED
    BY <1>2, <2>1, <2>2
<1> QED
  BY <1>3 DEF First

(***************************************************************************)
(* A search for a key finds the only slot that holds it.                   *)
(***************************************************************************)
LEMMA Found ==
    ASSUME DictInv, NEW k \in Keys
    PROVE  /\ Slots(k) = {i \in 1..size : key[i] = k}
           /\ \A i \in Slots(k) : Slots(k) = {i} /\ First(Slots(k)) = i
<1>1. Slots(k) = {i \in 1..size : key[i] = k}
  BY NullDistinct DEF DictInv, KeyOnce, Occupied, Slots
<1>2. ASSUME NEW i \in Slots(k)
      PROVE  Slots(k) = {i} /\ First(Slots(k)) = i
  <2>1. ASSUME NEW j \in Slots(k) PROVE j = i
    BY <1>1, NullDistinct DEF DictInv, KeyOnce, Occupied
  <2>2. Slots(k) = {i}
    BY <2>1
  <2>3. First(Slots(k)) \in Slots(k)
    <3>1. Slots(k) \subseteq Nat
      BY DEF Slots, DictInv, DictTypeOK
    <3> QED
      BY <2>2, <3>1, FirstIn
  <2> QED
    BY <2>2, <2>3
<1> QED
  BY <1>1, <1>2

(***************************************************************************)
(* The same as one formula, of any state.                                  *)
(***************************************************************************)
LEMMA FoundAll == DictInv => SearchesSucceed
<1> QED
  BY Found DEF SearchesSucceed

(***************************************************************************)
(* The occupied slots are finitely many.                                   *)
(***************************************************************************)
LEMMA FiniteOccupied ==
    ASSUME DictInv
    PROVE  IsFiniteSet(Occupied)
<1>1. size \in Int /\ 1 \in Int
  BY DEF DictInv, DictTypeOK
<1>2. IsFiniteSet(1..size)
  BY <1>1, FS_Interval
<1>3. Occupied \in SUBSET (1..size)
  BY DEF Occupied
<1> QED
  BY <1>2, <1>3, FS_Subset

(***************************************************************************)
(* dictionary_set never runs off the end of the arrays: after growth, if   *)
(* it was needed, some slot is free.                                       *)
(***************************************************************************)
LEMMA FreeSlot ==
    ASSUME DictInv
    PROVE  /\ Width \in Nat \ {0} /\ size <= Width /\ n < Width
           /\ First(Free) \in Free
           /\ Free = {i \in 1..Width : i <= size => key[i] = Null}
<1>t. size \in Nat \ {0} /\ n \in Nat /\ n <= size /\ n = Cardinality(Occupied)
  BY DEF DictInv, DictTypeOK, CountExact
<1>1. Width \in Nat \ {0} /\ size <= Width /\ n < Width
  BY <1>t DEF Width
<1>2. Free = {i \in 1..Width : i <= size => key[i] = Null}
  <2> SUFFICES ASSUME NEW i \in 1..Width
               PROVE  Padded(key, Null)[i] = Null <=> (i <= size => key[i] = Null)
    BY DEF Free
  <2>1. Padded(key, Null)[i] = IF i <= size THEN key[i] ELSE Null
    BY DEF Padded
  <2> QED
    BY <2>1
<1>3. Free # {}
  <2>1. CASE n = size
    <3>1. size + 1 \in 1..Width /\ ~(size + 1 <= size)
      BY <1>t, <2>1 DEF Width
    <3> QED
      BY <1>2, <3>1
  <2>2. CASE n # size
    <3>1. Width = size
      BY <2>2 DEF Width
    <3>2. IsFiniteSet(1..size) /\ Cardinality(1..size) = size
      BY <1>t, FS_Interval
    <3>3. Occupied # 1..size
      BY <1>t, <2>2, <3>2
    <3>4. PICK i \in 1..size : key[i] = Null
      BY <3>3 DEF Occupied
    <3> QED
      BY <1>2, <3>1, <3>4
  <2> QED
    BY <2>1, <2>2
<1>4. Free \subseteq Nat
  BY <1>1, <1>2
<1> QED
  BY <1>1, <1>2, <1>3, <1>4, FirstIn

-----------------------------------------------------------------------------
(***************************************************************************)
(* A new dictionary is empty.                                              *)
(***************************************************************************)
LEMMA DictInitInv ==
    DictInit => DictInv /\ \A k \in Keys : Get(k, Undefined) = Undefined
<1> SUFFICES ASSUME DictInit
             PROVE  DictInv /\ \A k \in Keys : Get(k, Undefined) = Undefined
  OBVIOUS
<1>1. DictTypeOK
  BY MinSizePositive DEF DictInit, DictTypeOK
<1>2. Occupied = {}
  BY DEF DictInit, Occupied
<1>3. CountExact
  BY <1>1, <1>2, FS_EmptySet DEF CountExact, DictInit, DictTypeOK
<1>4. KeyOnce
  BY <1>2 DEF KeyOnce
<1>5. \A k \in Keys : Slots(k) = {}
  BY DEF Slots, DictInit
<1> QED
  BY <1>1, <1>3, <1>4, <1>5 DEF DictInv, Get

(***************************************************************************)
(* dictionary_set of a key that is there changes its value and no other.   *)
(***************************************************************************)
LEMMA ReplaceStep ==
    ASSUME DictInv, NEW k \in Keys, NEW v \in Values \union {Null}, Replace(k, v)
    PROVE  /\ DictInv'
           /\ \A q \in Keys : Get(q, Undefined)' =
                                  IF q = k THEN v ELSE Get(q, Undefined)
<1>1. PICK i \in Slots(k) : Slots(k) = {i} /\ First(Slots(k)) = i
  BY Found DEF Replace
<1>2. i \in 1..size /\ key[i] = k
  BY DEF Slots
<1>3. /\ val' = [val EXCEPT ![i] = v]
      /\ UNCHANGED <<key, hash, n, size>>
  BY <1>1 DEF Replace
<1>4. DictInv'
  BY <1>2, <1>3 DEF DictInv, DictTypeOK, CountExact, KeyOnce, Occupied
<1>5. ASSUME NEW q \in Keys
      PROVE  Get(q, Undefined)' = IF q = k THEN v ELSE Get(q, Undefined)
  <2>1. Slots(q)' = Slots(q)
    BY <1>3 DEF Slots
  <2>2. Get(q, Undefined)' =
          IF Slots(q) = {} THEN Undefined ELSE val'[First(Slots(q))]
    BY <2>1 DEF Get
  <2>3. CASE q = k
    BY <1>1, <1>2, <1>3, <2>2, <2>3 DEF DictInv, DictTypeOK
  <2>4. CASE q # k /\ Slots(q) # {}
    <3>1. PICK j \in Slots(q) : First(Slots(q)) = j
      BY <2>4, Found
    <3>2. j \in 1..size /\ j # i
      BY <1>2, <2>4 DEF Slots
    <3>3. val'[j] = val[j]
      BY <1>3, <3>2 DEF DictInv, DictTypeOK
    <3> QED
      BY <2>2, <2>4, <3>1, <3>3 DEF Get
  <2>5. CASE q # k /\ Slots(q) = {}
    BY <2>2, <2>5 DEF Get
  <2> QED
    BY <2>3, <2>4, <2>5
<1> QED
  BY <1>4, <1>5

(***************************************************************************)
(* dictionary_set of a key that is not there adds it, and what a search    *)
(* for another key finds does not change, though the arrays may have grown *)
(* and the new key may sit in front of it.                                 *)
(***************************************************************************)
LEMMA InsertStep ==
    ASSUME DictInv, NEW k \in Keys, NEW v \in Values \union {Null}, Insert(k, v)
    PROVE  /\ DictInv'
           /\ \A q \in Keys : Get(q, Undefined)' =
                                  IF q = k THEN v ELSE Get(q, Undefined)
<1>t. /\ DictTypeOK /\ CountExact /\ KeyOnce
      /\ size \in Nat \ {0} /\ n \in Nat /\ Hash[k] \in Nat
  BY HashTotal DEF DictInv, DictTypeOK
<1>w. /\ Width \in Nat \ {0} /\ size <= Width /\ n < Width
      /\ First(Free) \in Free
      /\ Free = {j \in 1..Width : j <= size => key[j] = Null}
  BY FreeSlot
<1>1. PICK i \in 1..Width : i = First(Free) /\ (i <= size => key[i] = Null)
  BY <1>w
<1>2. /\ size' = Width /\ n' = n + 1
      /\ key' = [Padded(key, Null) EXCEPT ![i] = k]
      /\ val' = [Padded(val, Null) EXCEPT ![i] = v]
      /\ hash' = [Padded(hash, 0) EXCEPT ![i] = Hash[k]]
  BY <1>1 DEF Insert
<1>3. Slots(k) = {}
  <2>1. CASE n > 0
    BY <2>1 DEF Insert
  <2>2. CASE n = 0
    <3>1. Cardinality(Occupied) = 0
      BY <1>t, <2>2 DEF CountExact
    <3>2. Occupied = {}
      BY <3>1, FiniteOccupied, FS_EmptySet
    <3> QED
      BY <3>2 DEF Occupied, Slots
  <2> QED
    BY <1>t, <2>1, <2>2
<1>4. \A j \in 1..size : key[j] # k
  BY <1>3, Found
<1>5. ASSUME NEW j \in 1..Width
      PROVE  /\ key'[j] = IF j = i THEN k ELSE IF j <= size THEN key[j] ELSE Null
             /\ val'[j] = IF j = i THEN v ELSE IF j <= size THEN val[j] ELSE Null
             /\ hash'[j] = IF j = i THEN Hash[k] ELSE IF j <= size THEN hash[j] ELSE 0
  BY <1>2 DEF Padded
<1>6. DictTypeOK'
  <2>1. /\ key' \in [1..Width -> Keys \union {Null}]
        /\ val' \in [1..Width -> Values \union {Null}]
        /\ hash' \in [1..Width -> Nat]
    BY <1>t, <1>2 DEF Padded, DictTypeOK
  <2> QED
    BY <1>t, <1>w, <1>2, <2>1 DEF DictTypeOK
<1>7. Occupied' = Occupied \union {i} /\ i \notin Occupied
  BY <1>t, <1>w, <1>1, <1>2, <1>5, NullDistinct DEF Occupied
<1>8. CountExact'
  <2>1. IsFiniteSet(Occupied)
    BY FiniteOccupied
  <2>2. Cardinality(Occupied') = Cardinality(Occupied) + 1
    BY <1>7, <2>1, FS_AddElement
  <2> QED
    BY <1>t, <1>w, <1>2, <2>2 DEF CountExact
<1>9. KeyOnce'
  <2>1. ASSUME NEW j \in Occupied
        PROVE  key'[j] = key[j] /\ hash'[j] = hash[j] /\ key[j] # k
    BY <1>t, <1>w, <1>4, <1>5, <1>7 DEF Occupied
  <2>2. key'[i] = k /\ hash'[i] = Hash[k]
    BY <1>5
  <2> QED
    BY <1>t, <1>7, <2>1, <2>2 DEF KeyOnce
<1>10. DictInv'
  BY <1>6, <1>8, <1>9 DEF DictInv
<1>11. ASSUME NEW q \in Keys
       PROVE  Get(q, Undefined)' = IF q = k THEN v ELSE Get(q, Undefined)
  <2>1. /\ Slots(q) = {j \in 1..size : key[j] = q}
        /\ \A j \in Slots(q) : First(Slots(q)) = j
    BY Found
  <2>2. /\ Slots(q)' = {j \in 1..Width : key'[j] = q}
        /\ \A j \in Slots(q)' : First(Slots(q)') = j
    <3>1. SearchesSucceed'
      BY <1>10, FoundAll, PTL
    <3> QED
      BY <1>2, <3>1 DEF SearchesSucceed
  <2>3. Get(q, Undefined)' =
          IF Slots(q)' = {} THEN Undefined ELSE val'[First(Slots(q)')]
    BY DEF Get
  <2>4. CASE q = k
    <3>1. i \in Slots(q)'
      BY <1>5, <2>2, <2>4
    <3> QED
      BY <1>5, <2>2, <2>3, <2>4, <3>1
  <2>5. CASE q # k
    <3>1. Slots(q)' = Slots(q)
      BY <1>t, <1>w, <1>1, <1>5, <2>1, <2>2, <2>5, NullDistinct
    <3>2. ASSUME NEW j \in Slots(q)
          PROVE  val'[j] = val[j]
      <4>1. j \in 1..Width /\ j <= size /\ j # i
        BY <1>t, <1>w, <1>1, <2>1, NullDistinct
      <4> QED
        BY <1>5, <4>1
    <3> QED
      BY <2>1, <2>3, <2>5, <3>1, <3>2 DEF Get
  <2> QED
    BY <2>4, <2>5
<1> QED
  BY <1>10, <1>11

(***************************************************************************)
(* dictionary_unset takes the key out and changes no other.                *)
(***************************************************************************)
LEMMA UnsetStep ==
    ASSUME DictInv, NEW k \in Keys, DictUnset(k)
    PROVE  /\ DictInv'
           /\ \A q \in Keys : Get(q, Undefined)' =
                                  IF q = k THEN Undefined ELSE Get(q, Undefined)
<1>t. /\ DictTypeOK /\ CountExact /\ KeyOnce
      /\ size \in Nat \ {0} /\ n \in Nat
  BY DEF DictInv, DictTypeOK
<1>1. CASE Slots(k) = {}
  <2>1. UNCHANGED dictVars
    BY <1>1 DEF DictUnset
  <2>2. DictInv'
    BY <2>1 DEF dictVars, DictInv, DictTypeOK, CountExact, KeyOnce, Occupied
  <2>3. \A q \in Keys : Get(q, Undefined)' = Get(q, Undefined)
    BY <2>1 DEF dictVars, Get, Slots
  <2> QED
    BY <1>1, <2>2, <2>3 DEF Get
<1>2. CASE Slots(k) # {}
  <2>1. PICK i \in Slots(k) : Slots(k) = {i} /\ First(Slots(k)) = i
    BY <1>2, Found
  <2>2. i \in 1..size /\ key[i] = k
    BY DEF Slots
  <2>3. /\ key' = [key EXCEPT ![i] = Null]
        /\ val' = [val EXCEPT ![i] = Null]
        /\ hash' = [hash EXCEPT ![i] = 0]
        /\ n' = n - 1 /\ size' = size
    BY <1>2, <2>1 DEF DictUnset
  <2>4. ASSUME NEW j \in 1..size
        PROVE  /\ key'[j] = IF j = i THEN Null ELSE key[j]
               /\ val'[j] = IF j = i THEN Null ELSE val[j]
               /\ hash'[j] = IF j = i THEN 0 ELSE hash[j]
    BY <1>t, <2>3 DEF DictTypeOK
  <2>5. Occupied' = Occupied \ {i} /\ i \in Occupied
    BY <2>2, <2>3, <2>4, NullDistinct DEF Occupied
  <2>6. IsFiniteSet(Occupied)
    BY FiniteOccupied
  <2>7. /\ Cardinality(Occupied') = Cardinality(Occupied) - 1
        /\ Cardinality(Occupied') \in Nat
    BY <2>5, <2>6, FS_RemoveElement, FS_CardinalityType
  <2>8. CountExact' /\ n' \in Nat
    BY <1>t, <2>3, <2>7 DEF CountExact
  <2>9. DictTypeOK'
    BY <1>t, <2>3, <2>8 DEF DictTypeOK
  <2>10. KeyOnce'
    <3>1. ASSUME NEW j \in Occupied'
          PROVE  j \in Occupied /\ key'[j] = key[j] /\ hash'[j] = hash[j]
      BY <2>4, <2>5 DEF Occupied
    <3> QED
      BY <1>t, <3>1 DEF KeyOnce
  <2>11. DictInv'
    BY <2>8, <2>9, <2>10 DEF DictInv
  <2>12. ASSUME NEW q \in Keys
         PROVE  Get(q, Undefined)' = IF q = k THEN Undefined ELSE Get(q, Undefined)
    <3>1. /\ Slots(q) = {j \in 1..size : key[j] = q}
          /\ \A j \in Slots(q) : First(Slots(q)) = j
      BY Found
    <3>2. Slots(q)' = {j \in 1..size : key'[j] = q}
      <4>1. SearchesSucceed'
        BY <2>11, FoundAll, PTL
      <4> QED
        BY <2>3, <4>1 DEF SearchesSucceed
    <3>3. Get(q, Undefined)' =
            IF Slots(q)' = {} THEN Undefined ELSE val'[First(Slots(q)')]
      BY DEF Get
    <3>4. CASE q = k
      <4>1. \A j \in 1..size : key[j] = k => j = i
        BY <2>1, Found
      <4>2. Slots(q)' = {}
        BY <2>4, <3>2, <3>4, <4>1, NullDistinct
      <4> QED
        BY <3>3, <3>4, <4>2
    <3>5. CASE q # k
      <4>1. Slots(q)' = Slots(q)
        BY <2>2, <2>4, <3>1, <3>2, <3>5, NullDistinct
      <4>2. \A j \in Slots(q) : val'[j] = val[j]
        BY <2>2, <2>4, <3>1, <3>5
      <4> QED
        BY <3>1, <3>3, <3>5, <4>1, <4>2 DEF Get
    <3> QED
      BY <3>4, <3>5
  <2> QED
    BY <2>11, <2>12
<1> QED
  BY <1>1, <1>2

(***************************************************************************)
(* dictionary_set, either way.                                             *)
(***************************************************************************)
LEMMA SetStep ==
    ASSUME DictInv, NEW k \in Keys, NEW v \in Values \union {Null}, DictSet(k, v)
    PROVE  /\ DictInv'
           /\ \A q \in Keys : Get(q, Undefined)' =
                                  IF q = k THEN v ELSE Get(q, Undefined)
<1>1. CASE Replace(k, v)
  BY <1>1, ReplaceStep
<1>2. CASE Insert(k, v)
  BY <1>2, InsertStep
<1> QED
  BY <1>1, <1>2 DEF DictSet

-----------------------------------------------------------------------------
(***************************************************************************)
(* One line further, the comment state is what the line says or what it    *)
(* was.                                                                    *)
(***************************************************************************)
LEMMA CommentedNext ==
    ASSUME TypeOK, line <= Len(file)
    PROVE  Commented(line + 1) <=>
               \/ file[line].kind = "open"
               \/ Commented(line) /\ file[line].kind # "close"
<1>t. line \in Nat /\ line >= 1
  BY DEF TypeOK
<1>1. ASSUME file[line].kind = "open"
      PROVE  Commented(line + 1)
  BY <1>t, <1>1 DEF Commented
<1>2. ASSUME Commented(line), file[line].kind # "close"
      PROVE  Commented(line + 1)
  <2>1. PICK j \in 1..(line - 1) :
          /\ file[j].kind = "open"
          /\ \A m \in (j + 1)..(line - 1) : file[m].kind # "close"
    BY <1>2 DEF Commented
  <2>2. \A m \in (j + 1)..line : m = line \/ m \in (j + 1)..(line - 1)
    BY <1>t
  <2>3. j \in 1..line /\ \A m \in (j + 1)..line : file[m].kind # "close"
    BY <1>t, <1>2, <2>1, <2>2
  <2>4. (line + 1) - 1 = line
    BY <1>t
  <2> QED
    BY <2>1, <2>3, <2>4 DEF Commented
<1>3. ASSUME Commented(line + 1), file[line].kind # "open"
      PROVE  Commented(line) /\ file[line].kind # "close"
  <2>4. (line + 1) - 1 = line
    BY <1>t
  <2>1. PICK j \in 1..line :
          /\ file[j].kind = "open"
          /\ \A m \in (j + 1)..line : file[m].kind # "close"
    BY <1>3, <2>4 DEF Commented
  <2>2. j # line
    BY <1>3, <2>1
  <2>3. j \in 1..(line - 1) /\ line \in (j + 1)..line
    BY <1>t, <2>2
  <2>5. \A m \in (j + 1)..(line - 1) : m \in (j + 1)..line
    BY <1>t
  <2> QED
    BY <2>1, <2>3, <2>5 DEF Commented
<1> QED
  BY <1>1, <1>2, <1>3

(***************************************************************************)
(* One line further, the settings of a key are those from before and, if   *)
(* it sets the key outside of a comment, the line itself.                  *)
(***************************************************************************)
LEMMA SettingsNext ==
    ASSUME TypeOK, line <= Len(file), NEW k \in Keys
    PROVE  /\ Settings(k, line) \subseteq 1..(line - 1)
           /\ Settings(k, line + 1) =
                IF file[line].kind = "set" /\ file[line].key = k /\ ~Commented(line)
                  THEN Settings(k, line) \union {line}
                  ELSE Settings(k, line)
<1>t. line \in Nat /\ line >= 1
  BY DEF TypeOK
<1>1. 1..((line + 1) - 1) = (1..(line - 1)) \union {line} /\ line \notin 1..(line - 1)
  BY <1>t
<1> QED
  BY <1>1, Zenon DEF Settings

(***************************************************************************)
(* Before the first line nothing is set.                                   *)
(***************************************************************************)
LEMMA ConfInit == Init => IInv
<1> SUFFICES ASSUME Init PROVE IInv
  OBVIOUS
<1>1. DictInv /\ \A k \in Keys : Get(k, Undefined) = Undefined
  BY DictInitInv DEF Init
<1>2. file \in Seq(Lines) /\ line \in 1..(Len(file) + 1)
  <2>1. PICK m \in 0..MaxLines : file \in [1..m -> Lines]
    BY DEF Init
  <2>2. m \in Nat
    BY MaxLinesIsNat
  <2>3. file \in Seq(Lines) /\ Len(file) \in Nat
    BY <2>1, <2>2
  <2> QED
    BY <2>3 DEF Init
<1>3. in_comment \in BOOLEAN /\ phase \in {"reading", "running", "done", "dead"}
  BY Zenon DEF Init
<1>4. TypeOK
  BY <1>1, <1>2, <1>3 DEF TypeOK, DictInv
<1>5. line = 1 /\ 1..(line - 1) = {}
  BY DEF Init
<1>6. ~Commented(line) /\ \A k \in Keys : Settings(k, line) = {}
  BY <1>5 DEF Commented, Settings
<1>7. Reading
  BY <1>6 DEF Reading, Init
<1>8. Loaded
  BY <1>1, <1>6 DEF Loaded
<1> QED
  BY <1>1, <1>4, <1>7, <1>8 DEF IInv, DictInv

(***************************************************************************)
(* A step that leaves the dictionary alone.                                *)
(***************************************************************************)
LEMMA DictStutter ==
    ASSUME DictInv, UNCHANGED dictVars
    PROVE  /\ DictInv'
           /\ \A q \in Keys : Get(q, Undefined)' = Get(q, Undefined)
<1>1. DictInv'
  BY DEF dictVars, DictInv, DictTypeOK, CountExact, KeyOnce, Occupied
<1>2. \A q \in Keys : Get(q, Undefined)' = Get(q, Undefined)
  BY DEF dictVars, Get, Slots
<1> QED
  BY <1>1, <1>2

(***************************************************************************)
(* A line is read on: what the properties say of the file is said of one   *)
(* line more.                                                              *)
(***************************************************************************)
LEMMA LineRead ==
    ASSUME TypeOK, file' = file, line' = line + 1
    PROVE  /\ Commented(line)' <=> Commented(line + 1)
           /\ \A k \in Keys : Settings(k, line)' = Settings(k, line + 1)
<1>1. Commented(line)' <=> Commented(line + 1)
  BY DEF Commented
<1>2. ASSUME NEW k \in Keys
      PROVE  Settings(k, line)' = Settings(k, line + 1)
  BY DEF Settings, Commented
<1> QED
  BY <1>1, <1>2

(***************************************************************************)
(* A line that sets nothing.                                               *)
(***************************************************************************)
LEMMA NothingStep == IInv /\ ReadNothing => IInv'
<1> SUFFICES ASSUME IInv, ReadNothing PROVE IInv'
  OBVIOUS
<1>t. /\ TypeOK /\ Reading /\ Loaded /\ DictInv
      /\ phase = "reading" /\ line <= Len(file)
  BY DEF IInv, DictInv, TypeOK, ReadNothing, At
<1>d. DictInv' /\ \A k \in Keys : Get(k, Undefined)' = Get(k, Undefined)
  BY <1>t, DictStutter DEF ReadNothing
<1>1. /\ file' = file /\ line' = line + 1 /\ phase' = phase
      /\ in_comment' = (\/ file[line].kind = "open"
                        \/ in_comment /\ file[line].kind # "close")
  <2>1. in_comment \in BOOLEAN
    BY <1>t DEF TypeOK
  <2> QED
    BY <2>1 DEF ReadNothing
<1>2. TypeOK'
  <2>1. in_comment' \in BOOLEAN
    BY <1>1
  <2>2. line' \in 1..(Len(file') + 1)
    BY <1>t, <1>1 DEF TypeOK
  <2> QED
    BY <1>t, <1>d, <1>1, <2>1, <2>2 DEF TypeOK, DictInv
<1>3. in_comment <=> Commented(line)
  BY <1>t DEF Reading
<1>4. Reading'
  <2>1. in_comment' <=> Commented(line + 1)
    BY <1>t, <1>1, <1>3, CommentedNext
  <2>2. in_comment' <=> Commented(line)'
    BY <1>t, <1>1, <2>1, LineRead
  <2> QED
    BY <2>2 DEF Reading
<1>5. ASSUME NEW k \in Keys
      PROVE  Settings(k, line)' = Settings(k, line)
  <2>1. ~(file[line].kind = "set" /\ ~Commented(line))
    BY <1>3 DEF ReadNothing, At
  <2> QED
    BY <1>t, <1>1, <2>1, LineRead, SettingsNext
<1>6. Loaded'
  BY <1>t, <1>d, <1>1, <1>5 DEF Loaded
<1> QED
  BY <1>d, <1>2, <1>4, <1>6 DEF IInv, DictInv

(***************************************************************************)
(* A line that sets a key: it is now the last one that does.               *)
(***************************************************************************)
LEMMA SettingStep == IInv /\ ReadSetting => IInv'
<1> SUFFICES ASSUME IInv, ReadSetting PROVE IInv'
  OBVIOUS
<1>t. /\ TypeOK /\ Reading /\ Loaded /\ DictInv
      /\ phase = "reading" /\ line <= Len(file)
      /\ file[line].kind = "set" /\ ~in_comment
  BY DEF IInv, DictInv, TypeOK, ReadSetting, At
<1> DEFINE k == file[line].key
           v == file[line].val
<1>l. line \in Nat /\ line >= 1
  BY <1>t DEF TypeOK
<1>k. k \in Keys /\ v \in Values
  <2>1. file[line] \in Lines
    BY <1>t, <1>l DEF TypeOK
  <2> QED
    BY <1>t, <2>1 DEF Lines
<1>1. /\ file' = file /\ line' = line + 1 /\ phase' = phase
      /\ in_comment' = in_comment
  BY DEF ReadSetting
<1>d. /\ DictInv'
      /\ \A q \in Keys : Get(q, Undefined)' = IF q = k THEN v ELSE Get(q, Undefined)
  <2>1. DictSet(k, v)
    BY DEF ReadSetting
  <2> HIDE DEF k, v
  <2> QED
    BY <1>t, <1>k, <2>1, SetStep
<1>2. TypeOK'
  <2>1. in_comment' \in BOOLEAN
    BY <1>t, <1>1 DEF TypeOK
  <2>2. line' \in 1..(Len(file') + 1)
    BY <1>t, <1>1 DEF TypeOK
  <2> QED
    BY <1>t, <1>d, <1>1, <2>1, <2>2 DEF TypeOK, DictInv
<1>3. ~Commented(line)
  BY <1>t DEF Reading
<1>4. Reading'
  <2>1. ~Commented(line + 1)
    BY <1>t, <1>3, CommentedNext
  <2>2. ~Commented(line)'
    BY <1>t, <1>1, <2>1, LineRead
  <2> QED
    BY <1>t, <1>1, <2>2 DEF Reading
<1>5. ASSUME NEW q \in Keys
      PROVE  /\ Settings(q, line) \subseteq 1..(line - 1)
             /\ Settings(q, line)' = IF q = k THEN Settings(q, line) \union {line}
                                             ELSE Settings(q, line)
  BY <1>t, <1>1, <1>3, LineRead, SettingsNext
<1>6. ASSUME NEW q \in Keys
      PROVE  \/ Settings(q, line)' = {} /\ Get(q, Undefined)' = Undefined
             \/ \E i \in Settings(q, line)' :
                   /\ \A j \in Settings(q, line)' : j <= i
                   /\ Get(q, Undefined)' = file[i].val
  <2>1. CASE q = k
    <3>1. line \in Settings(q, line)' /\ \A j \in Settings(q, line)' : j <= line
      BY <1>l, <1>5, <2>1
    <3> QED
      BY <1>d, <2>1, <3>1
  <2>2. CASE q # k
    <3>1. Settings(q, line)' = Settings(q, line)
      BY <1>5, <2>2
    <3>2. Get(q, Undefined)' = Get(q, Undefined)
      BY <1>d, <2>2
    <3> QED
      BY <1>t, <3>1, <3>2 DEF Loaded
  <2> QED
    BY <2>1, <2>2
<1>7. Loaded'
  BY <1>1, <1>6 DEF Loaded
<1> QED
  BY <1>d, <1>2, <1>4, <1>7 DEF IInv, DictInv

(***************************************************************************)
(* The steps that do not read on: the end of the file, the ways to die,    *)
(* and everything after.                                                   *)
(***************************************************************************)
LEMMA OtherSteps ==
    ASSUME IInv, phase' # "reading", DictInv',
           UNCHANGED <<file, line, in_comment>> \/ ReadEnds,
           phase' \in {"running", "done", "dead"}
    PROVE  IInv'
<1>1. TypeOK'
  <2>1. CASE UNCHANGED <<file, line, in_comment>>
    BY <2>1 DEF IInv, TypeOK, DictInv
  <2>2. CASE ReadEnds
    <3>1. file' = <<>> /\ line' = 1
      BY <2>2 DEF ReadEnds
    <3>2. in_comment' \in BOOLEAN
      BY <2>2, Zenon DEF ReadEnds
    <3>3. file' \in Seq(Lines) /\ line' \in 1..(Len(file') + 1)
      BY <3>1
    <3> QED
      BY <3>2, <3>3 DEF TypeOK, DictInv
  <2> QED
    BY <2>1, <2>2
<1>2. Reading' /\ Loaded'
  BY DEF Reading, Loaded
<1> QED
  BY <1>1, <1>2 DEF IInv, DictInv

(***************************************************************************)
(* Every step preserves the inductive invariant.                           *)
(***************************************************************************)
LEMMA ConfNext == IInv /\ [Next]_vars => IInv'
<1> SUFFICES ASSUME IInv, [Next]_vars PROVE IInv'
  OBVIOUS
<1>t. DictInv /\ TypeOK
  BY DEF IInv, DictInv, TypeOK
<1>1. CASE ReadNothing
  BY <1>1, NothingStep
<1>2. CASE ReadSetting
  BY <1>2, SettingStep
<1>3. CASE NoFile \/ ReadBare \/ ReadEnds \/ Fini
  <2>1. DictInv'
    BY <1>t, <1>3, DictStutter DEF NoFile, ReadBare, ReadEnds, Fini
  <2> QED
    BY <1>3, <2>1, OtherSteps DEF NoFile, ReadBare, ReadEnds, Fini
<1>4. ASSUME NEW k \in Keys, Change(k)
      PROVE  IInv'
  <2>1. DictInv'
    BY <1>t, <1>4, SetStep, UnsetStep DEF Change
  <2> QED
    BY <1>4, <2>1, OtherSteps DEF Change
<1>5. CASE UNCHANGED vars
  <2>1. DictInv' /\ \A k \in Keys : Get(k, Undefined)' = Get(k, Undefined)
    BY <1>t, <1>5, DictStutter DEF vars
  <2>2. TypeOK'
    BY <1>5, <1>t, <2>1 DEF vars, TypeOK, DictInv
  <2>3. Commented(line)' <=> Commented(line)
    BY <1>5 DEF vars, Commented
  <2>4. \A k \in Keys : Settings(k, line)' = Settings(k, line)
    BY <1>5 DEF vars, Settings, Commented
  <2>5. Reading'
    BY <1>5, <2>3 DEF vars, IInv, Reading
  <2>6. Loaded'
    BY <1>5, <2>1, <2>4 DEF vars, IInv, Loaded
  <2> QED
    BY <2>1, <2>2, <2>5, <2>6 DEF IInv, DictInv
<1> QED
  BY <1>1, <1>2, <1>3, <1>4, <1>5 DEF Next

(***************************************************************************)
(* The inductive invariant of dictionary and configuration.                *)
(***************************************************************************)
THEOREM ConfSound == Spec => []IInv
<1> QED
  BY ConfInit, ConfNext, PTL DEF Spec

(***************************************************************************)
(* The variables of dictionary.c and conf.c keep their types.              *)
(***************************************************************************)
THEOREM ConfTypes == Spec => []TypeOK
<1>1. IInv => TypeOK
  BY DEF IInv
<1> QED
  BY <1>1, ConfSound, PTL

(***************************************************************************)
(* d->n counts the keys, so that an insertion always finds a free slot.    *)
(***************************************************************************)
THEOREM KeysCounted == Spec => []CountExact
<1>1. IInv => CountExact
  BY DEF IInv
<1> QED
  BY <1>1, ConfSound, PTL

(***************************************************************************)
(* A key is stored once and under its own hash, whatever was deleted.      *)
(***************************************************************************)
THEOREM KeysUnique == Spec => []KeyOnce
<1>1. IInv => KeyOnce
  BY DEF IInv
<1> QED
  BY <1>1, ConfSound, PTL

(***************************************************************************)
(* dconf_init gives every key the value of the last line that sets it      *)
(* outside of block comments, for files of any length.                     *)
(***************************************************************************)
THEOREM FileLoaded == Spec => []Loaded
<1>1. IInv => Loaded
  BY DEF IInv
<1> QED
  BY <1>1, ConfSound, PTL

(***************************************************************************)
(* Each step of the configuration sets or deletes one key of the map, or   *)
(* leaves the map as it is.                                                *)
(***************************************************************************)
LEMMA MapStep == IInv /\ [Next]_vars => [Map!Next]_([k \in Keys |-> Get(k, Undefined)])
<1> SUFFICES ASSUME IInv, [Next]_vars
             PROVE  [Map!Next]_([k \in Keys |-> Get(k, Undefined)])
  OBVIOUS
<1> DEFINE map == [k \in Keys |-> Get(k, Undefined)]
<1>t. DictInv /\ TypeOK
  BY DEF IInv, DictInv, TypeOK
<1>1. ASSUME UNCHANGED dictVars
      PROVE  map' = map
  BY <1>t, <1>1, DictStutter
<1>2. ASSUME NEW k \in Keys, NEW v \in Values \union {Null}, DictSet(k, v)
      PROVE  Map!Next
  <2>1. map' = [map EXCEPT ![k] = v]
    BY <1>t, <1>2, SetStep
  <2> QED
    BY <2>1 DEF Map!Next, Map!Set
<1>3. ASSUME NEW k \in Keys, DictUnset(k)
      PROVE  Map!Next
  <2>1. map' = [map EXCEPT ![k] = Undefined]
    BY <1>t, <1>3, UnsetStep
  <2> QED
    BY <2>1 DEF Map!Next, Map!Delete
<1>4. CASE ReadSetting
  <2>1. file[line] \in Lines /\ file[line].kind = "set"
    BY <1>t, <1>4 DEF ReadSetting, At, TypeOK
  <2>2. file[line].key \in Keys /\ file[line].val \in Values
    BY <2>1 DEF Lines
  <2> QED
    BY <1>2, <1>4, <2>2 DEF ReadSetting
<1>5. ASSUME NEW k \in Keys, Change(k)
      PROVE  Map!Next
  BY <1>2, <1>3, <1>5 DEF Change
<1>6. CASE NoFile \/ ReadNothing \/ ReadBare \/ ReadEnds \/ Fini \/ UNCHANGED vars
  BY <1>1, <1>6 DEF NoFile, ReadNothing, ReadBare, ReadEnds, Fini, vars
<1> QED
  BY <1>4, <1>5, <1>6 DEF Next

(***************************************************************************)
(* The dictionary implements a map: slots, hash collisions, holes and      *)
(* growth never show.                                                      *)
(***************************************************************************)
THEOREM DictionaryIsMap == Spec => MapSpec
<1>1. Init => Map!Init
  BY DictInitInv DEF Init, Map!Init
<1> QED
  BY <1>1, MapStep, ConfSound, PTL DEF Spec, MapSpec, Map!Spec
=============================================================================
