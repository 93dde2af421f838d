--------------------------- MODULE FuseLocksProofs ---------------------------
(***************************************************************************)
(* locks_insert of fuse/fuse.c does what a lock or an unlock means, byte   *)
(* by byte: the bytes it names have its type, or none, and all others have *)
(* what they had, for every list the function itself can have made, any    *)
(* number of owners, locks and offsets.                                    *)
(*                                                                         *)
(* The argument is an invariant of the loop over the list (Walked): what   *)
(* lies behind lp, together with the lock as far as it has grown, covers   *)
(* what it should of the locks seen so far, and everything behind lp ends  *)
(* before the lock, and before what is still to come.                      *)
(***************************************************************************)
EXTENDS FuseTree, FiniteSetTheorems, SequenceTheorems, TLAPS

LockTypes == {"F_RDLCK", "F_WRLCK"}

\* The locks a list holds, and those that are asked for.
Held(owners) ==
    {l \in [owner : owners, type : LockTypes, start : Nat, end : Nat] : l.start <= l.end}
Asked(owners) ==
    {l \in [owner : owners, type : LockTypes \cup {"F_UNLCK"}, start : Nat, end : Nat] :
       l.start <= l.end}

\* Lock l gives owner o the byte b with type ty.
Has(l, o, b, ty) == l.owner = o /\ l.type = ty /\ l.start <= b /\ b <= l.end
Covers(s, o, b, ty) == \E k \in DOMAIN s : Has(s[k], o, b, ty)

\* The locks of s that have the owner of m all end before m starts.
Below(s, m) == \A k \in DOMAIN s : s[k].owner = m.owner => s[k].end < m.start

\* The locks of one owner are in order and do not meet.
Ordered(s) ==
    \A j, k \in DOMAIN s : j < k /\ s[j].owner = s[k].owner => s[j].end < s[k].start

\* What a byte should have after lock x, given what it had.
Should(x, o, b, ty, had) ==
    IF o = x.owner /\ x.start <= b /\ b <= x.end THEN ty = x.type ELSE had

\* The first k locks of s.
CoversFirst(s, k, o, b, ty) == \E j \in 1 .. k : Has(s[j], o, b, ty)

----------------------------------------------------------------------------
\* Induction over the natural numbers, for a set of them: every set of
\* numbers that is not empty has a least one.
LEMMA LeastNumber ==
    ASSUME NEW S \in SUBSET Nat, S # {}
    PROVE  \E n \in S : \A x \in S : n <= x
<1> DEFINE B == {0 .. n : n \in S}
<1>1. \A n \in Nat : 0 .. n \subseteq Nat /\ IsFiniteSet(0 .. n)
  BY FS_Interval
<1>2. B \subseteq FiniteSubsetsOf(Nat) /\ B # {}
  BY <1>1 DEF FiniteSubsetsOf
<1>3. PICK X \in B : \A Y \in B : ~(<<Y, X>> \in StrictSubsetOrdering(Nat))
  <2> HIDE DEF B
  <2> QED
    BY <1>2, FS_StrictSubsetOrderingWellFounded, WFMin
<1>4. PICK n \in S : X = 0 .. n
  BY <1>3
<1>5. ASSUME NEW x \in S, ~(n <= x) PROVE FALSE
  <2>1. 0 .. x \in B /\ 0 .. x \subseteq 0 .. n /\ n \in 0 .. n /\ n \notin 0 .. x
    BY <1>5
  <2> QED
    BY <1>1, <1>3, <1>4, <2>1 DEF StrictSubsetOrdering
<1> QED
  BY <1>5

\* A set of numbers that has 0, and with a number the next, has all.
LEMMA SetInduction ==
    ASSUME NEW S, 0 \in S, \A n \in Nat : n \in S => n + 1 \in S
    PROVE  Nat \subseteq S
<1> SUFFICES ASSUME Nat \ S # {} PROVE FALSE
  OBVIOUS
<1>1. PICK x \in Nat \ S : \A y \in Nat \ S : x <= y
  BY LeastNumber
<1>2. x # 0 /\ x - 1 \in Nat
  BY <1>1
<1>3. x - 1 \in S
  BY <1>1, <1>2
<1> QED
  BY <1>2, <1>3

\* A list that gets one more lock at its end.
LEMMA Longer ==
    ASSUME NEW T, NEW s \in Seq(T), NEW m \in T
    PROVE  /\ s \o <<m>> \in Seq(T)
           /\ Ordered(s) /\ Below(s, m) => Ordered(s \o <<m>>)
           /\ \A o, b, ty : Covers(s \o <<m>>, o, b, ty) <=> Covers(s, o, b, ty) \/ Has(m, o, b, ty)
           /\ \A q : Below(s \o <<m>>, q) <=> Below(s, q) /\ (m.owner = q.owner => m.end < q.start)
<1> DEFINE z == s \o <<m>>
           n == Len(s)
<1>1. n \in Nat /\ DOMAIN s = 1 .. n
  OBVIOUS
<1>2. z \in Seq(T) /\ Len(z) = n + 1 /\ DOMAIN z = 1 .. n + 1
  BY ConcatProperties
<1>3. (\A k \in 1 .. n : z[k] = s[k]) /\ z[n + 1] = m
  BY ConcatProperties
<1> HIDE DEF z, n
<1>4. \A k \in 1 .. n + 1 : k \in 1 .. n \/ k = n + 1
  BY <1>1
<1>5. 1 .. n \subseteq 1 .. n + 1 /\ n + 1 \in 1 .. n + 1
  BY <1>1
<1>6. ASSUME Ordered(s), Below(s, m) PROVE Ordered(z)
  <2> SUFFICES ASSUME NEW j \in DOMAIN z, NEW k \in DOMAIN z, j < k, z[j].owner = z[k].owner
               PROVE  z[j].end < z[k].start
    BY DEF Ordered
  <2>1. j \in 1 .. n /\ z[j] = s[j]
    BY <1>1, <1>2, <1>3
  <2>2. CASE k = n + 1
    BY <1>1, <1>3, <1>6, <2>1, <2>2 DEF Below
  <2>3. CASE k \in 1 .. n
    BY <1>1, <1>3, <1>6, <2>1, <2>3 DEF Ordered
  <2> QED
    BY <1>2, <1>4, <2>2, <2>3
<1>7. ASSUME NEW o, NEW b, NEW ty
      PROVE  Covers(z, o, b, ty) <=> Covers(s, o, b, ty) \/ Has(m, o, b, ty)
  BY <1>1, <1>2, <1>3, <1>4, <1>5, Zenon DEF Covers
<1>8. ASSUME NEW q
      PROVE  Below(z, q) <=> Below(s, q) /\ (m.owner = q.owner => m.end < q.start)
  BY <1>1, <1>2, <1>3, <1>4, <1>5, Zenon DEF Below
<1> QED
  BY <1>2, <1>6, <1>7, <1>8 DEF z

----------------------------------------------------------------------------
\* The loop of locks_insert with lock x on list s after k locks: its state w
\* has a list behind lp that is in order and ends before what is to come,
\* and the locks of the other owners are those of s.
Types(s, x, w, owners) ==
    /\ w \in [out : Seq(Held(owners)), lock : Asked(owners), over : BOOLEAN]
    /\ w.lock.owner = x.owner /\ w.lock.type = x.type
Behind(s, k, w) ==
    /\ Ordered(w.out)
    /\ \A j \in k + 1 .. Len(s) : Below(w.out, s[j])
OthersCovered(s, x, k, w) ==
    \A o, b, ty : o # x.owner => (Covers(w.out, o, b, ty) <=> CoversFirst(s, k, o, b, ty))

\* While the loop goes on: the lock has grown over bytes that its owner had
\* with its type, it comes after everything behind lp, and the two together
\* cover what they should.
Going(s, x, k, w) ==
    /\ w.lock.start <= x.start /\ x.end <= w.lock.end
    /\ \A b \in Nat : w.lock.start <= b /\ b <= w.lock.end /\ ~(x.start <= b /\ b <= x.end) =>
          CoversFirst(s, k, x.owner, b, x.type)
    /\ Below(w.out, w.lock)
    /\ \A b \in Nat, ty \in LockTypes :
          Covers(w.out, x.owner, b, ty) \/ Has(w.lock, x.owner, b, ty)
          <=> Should(x, x.owner, b, ty, CoversFirst(s, k, x.owner, b, ty))

\* Once it has ended: the list covers what it should, and what is to come of
\* the owner lies behind the lock.
Ended(s, x, k, w) ==
    /\ \A j \in k + 1 .. Len(s) : s[j].owner = x.owner => x.end < s[j].start
    /\ \A b \in Nat, ty \in LockTypes :
          Covers(w.out, x.owner, b, ty)
          <=> Should(x, x.owner, b, ty, CoversFirst(s, k, x.owner, b, ty))

Walked(s, x, k, w, owners) ==
    /\ Types(s, x, w, owners) /\ Behind(s, k, w) /\ OthersCovered(s, x, k, w)
    /\ IF w.over THEN Ended(s, x, k, w) ELSE Going(s, x, k, w)

\* Before the loop.
LEMMA WalkStarts ==
    ASSUME NEW owners, NEW s \in Seq(Held(owners)), NEW x \in Asked(owners),
           NEW w, w = [out |-> <<>>, lock |-> x, over |-> FALSE]
    PROVE  Walked(s, x, 0, w, owners)
<1>1. w.out = <<>> /\ w.lock = x /\ w.over = FALSE
  OBVIOUS
<1>2. w.out \in Seq(Held(owners)) /\ DOMAIN w.out = {}
  BY <1>1
<1>3. Types(s, x, w, owners)
  BY <1>1, <1>2 DEF Types
<1>4. Behind(s, 0, w)
  BY <1>2, Zenon DEF Behind, Ordered, Below
<1>5. \A o, b, ty : ~Covers(w.out, o, b, ty) /\ ~CoversFirst(s, 0, o, b, ty)
  <2>1. 1 .. 0 = {}
    OBVIOUS
  <2> QED
    BY <1>2, <2>1, Zenon DEF Covers, CoversFirst
<1>6. OthersCovered(s, x, 0, w)
  BY <1>5, Zenon DEF OthersCovered
<1>7. x.start \in Nat /\ x.end \in Nat
  BY DEF Asked
<1>8. Going(s, x, 0, w)
  <2>1. Below(w.out, w.lock)
    BY <1>2, Zenon DEF Below
  <2>2. ASSUME NEW b \in Nat, NEW ty \in LockTypes
        PROVE  Has(w.lock, x.owner, b, ty)
               <=> Should(x, x.owner, b, ty, CoversFirst(s, 0, x.owner, b, ty))
    BY <1>1, <1>5, <1>7 DEF Has, Should
  <2> QED
    BY <1>1, <1>5, <1>7, <2>1, <2>2 DEF Going
<1> QED
  BY <1>1, <1>3, <1>4, <1>6, <1>8 DEF Walked

\* The first k + 1 locks are the first k and one more.
LEMMA OneMore ==
    ASSUME NEW s, NEW k \in Nat
    PROVE  \A o, b, ty : CoversFirst(s, k + 1, o, b, ty)
                         <=> CoversFirst(s, k, o, b, ty) \/ Has(s[k + 1], o, b, ty)
<1>1. (\A j \in 1 .. k + 1 : j \in 1 .. k \/ j = k + 1) /\ 1 .. k \subseteq 1 .. k + 1 /\ k + 1 \in 1 .. k + 1
  OBVIOUS
<1> QED
  BY <1>1, Zenon DEF CoversFirst

\* What the order of the list says of lock k + 1: it meets none of those
\* before it of the same owner, and comes before those behind it.
LEMMA NextLock ==
    ASSUME NEW owners, NEW s \in Seq(Held(owners)), Ordered(s), NEW k \in Nat, k < Len(s)
    PROVE  /\ s[k + 1] \in Held(owners)
           /\ \A j \in k + 2 .. Len(s) : s[j] \in Held(owners) /\ (s[j].owner = s[k + 1].owner => s[k + 1].end < s[j].start)
           /\ \A b \in Nat : \A ty, tz : Has(s[k + 1], s[k + 1].owner, b, ty) =>
                 ~CoversFirst(s, k, s[k + 1].owner, b, tz)
<1>1. Len(s) \in Nat /\ DOMAIN s = 1 .. Len(s)
  OBVIOUS
<1>2. s[k + 1] \in Held(owners) /\ k + 1 \in DOMAIN s
  BY <1>1
<1>3. ASSUME NEW j \in k + 2 .. Len(s)
      PROVE  s[j] \in Held(owners) /\ (s[j].owner = s[k + 1].owner => s[k + 1].end < s[j].start)
  BY <1>1, <1>2, <1>3 DEF Ordered
<1>4. ASSUME NEW b \in Nat, NEW ty, NEW tz, Has(s[k + 1], s[k + 1].owner, b, ty),
             CoversFirst(s, k, s[k + 1].owner, b, tz)
      PROVE  FALSE
  <2>1. PICK j \in 1 .. k : Has(s[j], s[k + 1].owner, b, tz)
    BY <1>4 DEF CoversFirst
  <2>2. j \in DOMAIN s /\ s[j] \in Held(owners) /\ j < k + 1
    BY <1>1
  <2>3. s[j].end < s[k + 1].start
    BY <1>2, <2>1, <2>2 DEF Ordered, Has
  <2>4. s[j].end \in Nat /\ s[k + 1].start \in Nat
    BY <1>2, <2>2 DEF Held
  <2> QED
    BY <1>4, <2>1, <2>3, <2>4 DEF Has
<1> QED
  BY <1>2, <1>3, <1>4

----------------------------------------------------------------------------
\* A step of the loop with list s and lock x, from k locks to one more.
Stepping(s, x, k, w, owners) ==
    /\ s \in Seq(Held(owners)) /\ Ordered(s) /\ x \in Asked(owners)
    /\ k \in Nat /\ k < Len(s) /\ Walked(s, x, k, w, owners)

\* What a step starts from, in terms of the next lock l.
LEMMA StepFacts ==
    ASSUME NEW s, NEW x, NEW k, NEW w, NEW owners, Stepping(s, x, k, w, owners), NEW l, l = s[k + 1]
    PROVE  /\ w.out \in Seq(Held(owners)) /\ w.lock \in Asked(owners) /\ w.over \in BOOLEAN
           /\ w = [out |-> w.out, lock |-> w.lock, over |-> w.over]
           /\ w.lock.owner = x.owner /\ w.lock.type = x.type
           /\ l \in Held(owners) /\ l.type \in LockTypes /\ "F_UNLCK" \notin LockTypes
           /\ l.start \in Nat /\ l.end \in Nat /\ l.start <= l.end
           /\ x.start \in Nat /\ x.end \in Nat /\ x.start <= x.end
           /\ w.lock.start \in Nat /\ w.lock.end \in Nat /\ w.lock.start <= w.lock.end
           /\ Ordered(w.out) /\ Below(w.out, l)
           /\ \A j \in k + 2 .. Len(s) :
                 /\ Below(w.out, s[j]) /\ s[j].start \in Nat
                 /\ s[j].owner = l.owner => l.end < s[j].start
           /\ \A o, b, ty : CoversFirst(s, k + 1, o, b, ty)
                            <=> CoversFirst(s, k, o, b, ty) \/ Has(l, o, b, ty)
           /\ \A b \in Nat : \A ty, tz : Has(l, l.owner, b, ty) => ~CoversFirst(s, k, l.owner, b, tz)
           /\ OthersCovered(s, x, k, w)
           /\ IF w.over THEN Ended(s, x, k, w) ELSE Going(s, x, k, w)
<1> USE DEF Stepping
<1>1. /\ Types(s, x, w, owners) /\ Behind(s, k, w) /\ OthersCovered(s, x, k, w)
      /\ IF w.over THEN Ended(s, x, k, w) ELSE Going(s, x, k, w)
  BY DEF Walked
<1>2. /\ w.out \in Seq(Held(owners)) /\ w.lock \in Asked(owners) /\ w.over \in BOOLEAN
      /\ w = [out |-> w.out, lock |-> w.lock, over |-> w.over]
      /\ w.lock.owner = x.owner /\ w.lock.type = x.type
  BY <1>1 DEF Types
<1>3. x \in Asked(owners)
  OBVIOUS
<1>4. Len(s) \in Nat /\ k + 1 \in k + 1 .. Len(s) /\ k + 2 .. Len(s) \subseteq k + 1 .. Len(s)
  OBVIOUS
<1>5. /\ l \in Held(owners)
      /\ \A j \in k + 2 .. Len(s) : s[j] \in Held(owners) /\ (s[j].owner = l.owner => l.end < s[j].start)
      /\ \A b \in Nat : \A ty, tz : Has(l, l.owner, b, ty) => ~CoversFirst(s, k, l.owner, b, tz)
  BY NextLock
<1>6. /\ l.type \in LockTypes /\ "F_UNLCK" \notin LockTypes
      /\ l.start \in Nat /\ l.end \in Nat /\ l.start <= l.end
      /\ x.start \in Nat /\ x.end \in Nat /\ x.start <= x.end
      /\ w.lock.start \in Nat /\ w.lock.end \in Nat /\ w.lock.start <= w.lock.end
  BY <1>2, <1>3, <1>5 DEF Held, Asked, LockTypes
<1>7. Ordered(w.out) /\ Below(w.out, l)
  BY <1>1, <1>4 DEF Behind
<1>8. \A j \in k + 2 .. Len(s) :
         /\ Below(w.out, s[j]) /\ s[j].start \in Nat
         /\ s[j].owner = l.owner => l.end < s[j].start
  BY <1>1, <1>4, <1>5 DEF Behind, Held
<1>9. \A o, b, ty : CoversFirst(s, k + 1, o, b, ty)
                    <=> CoversFirst(s, k, o, b, ty) \/ Has(l, o, b, ty)
  BY OneMore
<1> QED
  BY <1>1, <1>2, <1>5, <1>6, <1>7, <1>8, <1>9

\* The parts of Walked for the state v after the step.
LEMMA StepGoal ==
    ASSUME NEW s, NEW x, NEW k, NEW w, NEW owners, Stepping(s, x, k, w, owners), NEW v,
           v = [out |-> v.out, lock |-> v.lock, over |-> v.over],
           v.out \in Seq(Held(owners)), v.lock \in Asked(owners), v.over \in BOOLEAN,
           v.lock.owner = x.owner, v.lock.type = x.type,
           Ordered(v.out), \A j \in k + 2 .. Len(s) : Below(v.out, s[j]),
           OthersCovered(s, x, k + 1, v),
           IF v.over THEN Ended(s, x, k + 1, v) ELSE Going(s, x, k + 1, v)
    PROVE  Walked(s, x, k + 1, v, owners)
<1>1. v \in [out : Seq(Held(owners)), lock : Asked(owners), over : BOOLEAN]
  OBVIOUS
<1>2. Types(s, x, v, owners)
  BY <1>1 DEF Types
<1>3. k + 1 + 1 = k + 2
  BY DEF Stepping
<1>4. Behind(s, k + 1, v)
  BY <1>3 DEF Behind
<1> QED
  BY <1>2, <1>4 DEF Walked

\* The records the loop builds.
LEMMA Records ==
    ASSUME NEW w, w = [out |-> w.out, lock |-> w.lock, over |-> w.over], NEW ls
    PROVE  /\ Keep(w, ls) = [out |-> w.out \o ls, lock |-> w.lock, over |-> w.over]
           /\ End(w, ls) = [out |-> w.out \o ls, lock |-> w.lock, over |-> TRUE]
<1>1. PICK O, lk, ov : w = [out |-> O, lock |-> lk, over |-> ov]
  OBVIOUS
<1>2. w.out = O /\ w.lock = lk /\ w.over = ov
  BY <1>1
<1>3. PICK c, d : c = w.out \o ls /\ d = TRUE
  OBVIOUS
<1>4. Keep(w, ls) = [w EXCEPT !.out = c] /\ End(w, ls) = [[w EXCEPT !.out = c] EXCEPT !.over = d]
  BY <1>3, Zenon DEF Keep, End
<1>5. [w EXCEPT !.out = c] = [out |-> c, lock |-> lk, over |-> ov]
  BY <1>1
<1>6. [[out |-> c, lock |-> lk, over |-> ov] EXCEPT !.over = d] = [out |-> c, lock |-> lk, over |-> d]
  OBVIOUS
<1> QED
  BY <1>2, <1>3, <1>4, <1>5, <1>6, Zenon

\* A lock that stays as it is, and is not changed by this one: it has
\* another owner, or the loop has ended.
LEMMA StepSkips ==
    ASSUME NEW s, NEW x, NEW k, NEW w, NEW owners, Stepping(s, x, k, w, owners),
           w.over \/ s[k + 1].owner # x.owner
    PROVE  Walked(s, x, k + 1, Keep(w, <<s[k + 1]>>), owners)
<1> DEFINE l == s[k + 1]
           v == Keep(w, <<l>>)
           z == w.out \o <<l>>
<1> HIDE DEF l
<1>0. /\ w.out \in Seq(Held(owners)) /\ w.lock \in Asked(owners) /\ w.over \in BOOLEAN
      /\ w = [out |-> w.out, lock |-> w.lock, over |-> w.over]
      /\ w.lock.owner = x.owner /\ w.lock.type = x.type
      /\ l \in Held(owners)
      /\ l.start \in Nat /\ l.end \in Nat /\ l.start <= l.end
      /\ x.start \in Nat /\ x.end \in Nat /\ x.start <= x.end
      /\ Ordered(w.out) /\ Below(w.out, l)
      /\ \A j \in k + 2 .. Len(s) :
            /\ Below(w.out, s[j])
            /\ s[j].owner = l.owner => l.end < s[j].start
      /\ OthersCovered(s, x, k, w)
      /\ IF w.over THEN Ended(s, x, k, w) ELSE Going(s, x, k, w)
  BY StepFacts, SMTT(20) DEF l
<1>01. \A o, b, ty : CoversFirst(s, k + 1, o, b, ty)
                     <=> CoversFirst(s, k, o, b, ty) \/ Has(l, o, b, ty)
  BY StepFacts DEF l
<1>1. v = [out |-> z, lock |-> w.lock, over |-> w.over]
  <2>1. w = [out |-> w.out, lock |-> w.lock, over |-> w.over]
    BY <1>0
  <2> QED
    BY <2>1, Records, Zenon
<1>2. v.out = z /\ v.lock = w.lock /\ v.over = w.over
  BY <1>1
<1> HIDE DEF v, z
<1>3. /\ z \in Seq(Held(owners)) /\ Ordered(z)
      /\ \A o, b, ty : Covers(z, o, b, ty) <=> Covers(w.out, o, b, ty) \/ Has(l, o, b, ty)
      /\ \A q : Below(z, q) <=> Below(w.out, q) /\ (l.owner = q.owner => l.end < q.start)
  BY <1>0, Longer DEF z
<1>4. \A j \in k + 2 .. Len(s) : Below(z, s[j])
  BY <1>0, <1>3
<1>5. OthersCovered(s, x, k + 1, v)
  BY <1>0, <1>01, <1>2, <1>3, Zenon DEF OthersCovered
<1>6. CASE w.over
  <2>1. \A b \in Nat, ty \in LockTypes :
          Covers(w.out, x.owner, b, ty)
          <=> Should(x, x.owner, b, ty, CoversFirst(s, k, x.owner, b, ty))
    BY <1>0, <1>6 DEF Ended
  <2>2. l.owner = x.owner => x.end < l.start
    <3>1. k + 1 \in k + 1 .. Len(s)
      BY DEF Stepping
    <3> QED
      BY <1>0, <1>6, <3>1 DEF Ended, l
  <2>3. ASSUME NEW b \in Nat, NEW ty \in LockTypes
        PROVE  Covers(z, x.owner, b, ty)
               <=> Should(x, x.owner, b, ty, CoversFirst(s, k + 1, x.owner, b, ty))
    BY <1>0, <1>01, <1>3, <2>1, <2>2 DEF Should, Has
  <2>4. \A j \in k + 2 .. Len(s) : s[j].owner = x.owner => x.end < s[j].start
    <3>1. k + 2 .. Len(s) \subseteq k + 1 .. Len(s)
      BY DEF Stepping
    <3> QED
      BY <1>0, <1>6, <3>1 DEF Ended
  <2>5. Ended(s, x, k + 1, v)
    <3>1. k + 1 + 1 = k + 2
      BY DEF Stepping
    <3> QED
      BY <1>2, <2>3, <2>4, <3>1 DEF Ended
  <2> QED
    BY <1>0, <1>1, <1>2, <1>3, <1>4, <1>5, <1>6, <2>5, StepGoal DEF v, l
<1>7. CASE ~w.over
  <2>1. l.owner # x.owner
    BY <1>7 DEF l
  <2>2. \A b, ty : /\ ~Has(l, x.owner, b, ty)
                   /\ Covers(z, x.owner, b, ty) <=> Covers(w.out, x.owner, b, ty)
                   /\ CoversFirst(s, k + 1, x.owner, b, ty) <=> CoversFirst(s, k, x.owner, b, ty)
    BY <1>01, <1>3, <2>1, Zenon DEF Has
  <2>3. Below(z, w.lock)
    BY <1>0, <1>3, <1>7, <2>1 DEF Going
  <2>4. Going(s, x, k + 1, v)
    BY <1>0, <1>2, <1>7, <2>2, <2>3 DEF Going, Should
  <2> QED
    BY <1>0, <1>1, <1>2, <1>3, <1>4, <1>5, <1>7, <2>4, StepGoal DEF v, l
<1> QED
  BY <1>6, <1>7

\* A step at a lock l of the same owner while the loop goes on.
Own(s, x, k, w, l, owners) ==
    Stepping(s, x, k, w, owners) /\ ~w.over /\ l = s[k + 1] /\ l.owner = x.owner

\* What such a step starts from: the types and the order of the locks; how
\* far the lock has grown and what is covered; what l adds.
OwnOrder(s, x, k, w, l, owners) ==
    /\ w.out \in Seq(Held(owners)) /\ w.lock \in Asked(owners) /\ w.over \in BOOLEAN
    /\ w = [out |-> w.out, lock |-> w.lock, over |-> w.over]
    /\ w.lock.owner = x.owner /\ w.lock.type = x.type /\ l.owner = x.owner
    /\ l \in Held(owners) /\ l.type \in LockTypes /\ "F_UNLCK" \notin LockTypes
    /\ l.start \in Nat /\ l.end \in Nat /\ l.start <= l.end
    /\ x.start \in Nat /\ x.end \in Nat /\ x.start <= x.end
    /\ w.lock.start \in Nat /\ w.lock.end \in Nat /\ w.lock.start <= w.lock.end
    /\ w.lock.start <= x.start /\ x.end <= w.lock.end
    /\ Ordered(w.out) /\ Below(w.out, l) /\ Below(w.out, w.lock)
    /\ \A j \in k + 2 .. Len(s) :
          /\ Below(w.out, s[j]) /\ s[j].start \in Nat
          /\ s[j].owner = l.owner => l.end < s[j].start
    /\ OthersCovered(s, x, k, w)
OwnGrown(s, x, k, w) ==
    /\ \A b \in Nat : w.lock.start <= b /\ b <= w.lock.end /\ ~(x.start <= b /\ b <= x.end) =>
          CoversFirst(s, k, x.owner, b, x.type)
    /\ \A b \in Nat, ty \in LockTypes :
          Covers(w.out, x.owner, b, ty) \/ Has(w.lock, x.owner, b, ty)
          <=> Should(x, x.owner, b, ty, CoversFirst(s, k, x.owner, b, ty))
OwnSeen(s, x, k, l) ==
    /\ \A o, b, ty : CoversFirst(s, k + 1, o, b, ty)
                      <=> CoversFirst(s, k, o, b, ty) \/ Has(l, o, b, ty)
    /\ \A b \in Nat : \A ty, tz : Has(l, x.owner, b, ty) => ~CoversFirst(s, k, x.owner, b, tz)

\* What the walk knows when it meets a lock of the same owner.
LEMMA OwnFacts ==
    ASSUME NEW s, NEW x, NEW k, NEW w, NEW owners, NEW l, Own(s, x, k, w, l, owners)
    PROVE  OwnOrder(s, x, k, w, l, owners) /\ OwnGrown(s, x, k, w) /\ OwnSeen(s, x, k, l)
<1>1. Stepping(s, x, k, w, owners) /\ ~w.over /\ l = s[k + 1] /\ l.owner = x.owner
  BY DEF Own
<1>2. OwnOrder(s, x, k, w, l, owners)
  BY <1>1, StepFacts DEF OwnOrder, Going
<1>3. OwnGrown(s, x, k, w)
  BY <1>1, StepFacts DEF OwnGrown, Going
<1>4. \A b \in Nat : \A ty, tz : Has(l, l.owner, b, ty) => ~CoversFirst(s, k, l.owner, b, tz)
  BY <1>1, NextLock DEF Stepping
<1>5. \A o, b, ty : CoversFirst(s, k + 1, o, b, ty)
                    <=> CoversFirst(s, k, o, b, ty) \/ Has(l, o, b, ty)
  BY <1>1, StepFacts
<1>6. OwnSeen(s, x, k, l)
  BY <1>1, <1>4, <1>5, Zenon DEF OwnSeen
<1> QED
  BY <1>2, <1>3, <1>6

\* What is kept of l ends before the lock; what is lost, the lock covers.
LEMMA StepKeeps ==
    ASSUME NEW s, NEW x, NEW k, NEW w, NEW owners, NEW l, Own(s, x, k, w, l, owners),
           NEW m \in Held(owners), m.owner = l.owner, m.type = l.type, m.start = l.start,
           m.end <= l.end, m.end < w.lock.start,
           \A b \in Nat : m.end < b /\ b <= l.end => w.lock.start <= b /\ b <= w.lock.end
    PROVE  Walked(s, x, k + 1, Keep(w, <<m>>), owners)
<1> DEFINE v == Keep(w, <<m>>)
           z == w.out \o <<m>>
<1> USE DEF OwnOrder, OwnGrown, OwnSeen
<1>0. OwnOrder(s, x, k, w, l, owners)
  BY OwnFacts
<1>02. OwnGrown(s, x, k, w)
  BY OwnFacts
<1>03. OwnSeen(s, x, k, l)
  BY OwnFacts
<1>04. m.start \in Nat /\ m.end \in Nat /\ m.start <= m.end
  BY DEF Held
<1>1. v = [out |-> z, lock |-> w.lock, over |-> w.over]
  <2>1. w = [out |-> w.out, lock |-> w.lock, over |-> w.over]
    BY <1>0
  <2> QED
    BY <2>1, Records, Zenon
<1>2. v.out = z /\ v.lock = w.lock /\ v.over = w.over /\ ~w.over
  BY <1>1 DEF Own
<1> HIDE DEF v, z
<1>3. Below(w.out, m)
  BY <1>0 DEF Below
<1>4. /\ z \in Seq(Held(owners)) /\ Ordered(z)
      /\ \A o, b, ty : Covers(z, o, b, ty) <=> Covers(w.out, o, b, ty) \/ Has(m, o, b, ty)
      /\ \A q : Below(z, q) <=> Below(w.out, q) /\ (m.owner = q.owner => m.end < q.start)
  BY <1>0, <1>3, Longer DEF z
<1>5. \A j \in k + 2 .. Len(s) : Below(z, s[j])
  BY <1>0, <1>04, <1>4, SMTT(20)
<1>6. OthersCovered(s, x, k + 1, v)
  BY <1>0, <1>03, <1>2, <1>4, Zenon DEF OthersCovered, Has
<1>7. Below(z, w.lock)
  BY <1>0, <1>4
<1>8. ASSUME NEW b \in Nat, NEW ty \in LockTypes
      PROVE  Covers(z, x.owner, b, ty) \/ Has(w.lock, x.owner, b, ty)
             <=> Should(x, x.owner, b, ty, CoversFirst(s, k + 1, x.owner, b, ty))
  <2>1. CASE x.start <= b /\ b <= x.end
    <3>1. ~Has(m, x.owner, b, ty)
      BY <1>0, <1>04, <2>1 DEF Has
    <3> QED
      BY <1>02, <1>4, <2>1, <3>1 DEF Should
  <2>2. CASE ~(x.start <= b /\ b <= x.end)
    <3>1. Has(m, x.owner, b, ty) => Has(l, x.owner, b, ty)
      BY <1>0, <1>04 DEF Has
    <3>2. Has(l, x.owner, b, ty) => Has(m, x.owner, b, ty)
      BY <1>0, <1>02, <1>03, <1>04, <2>2 DEF Has
    <3> QED
      BY <1>02, <1>03, <1>4, <2>2, <3>1, <3>2 DEF Should
  <2> QED
    BY <2>1, <2>2
<1>9. Going(s, x, k + 1, v)
  BY <1>0, <1>02, <1>03, <1>2, <1>7, <1>8 DEF Going
<1> QED
  BY <1>0, <1>1, <1>2, <1>4, <1>5, <1>6, <1>9, StepGoal DEF Own, v

\* l is deleted: it has another type, and the lock covers it.
LEMMA StepDeletes ==
    ASSUME NEW s, NEW x, NEW k, NEW w, NEW owners, NEW l, Own(s, x, k, w, l, owners), l.type # x.type,
           w.lock.start <= l.start, l.end <= w.lock.end
    PROVE  Walked(s, x, k + 1, w, owners)
<1> USE DEF OwnOrder, OwnGrown, OwnSeen
<1>0. OwnOrder(s, x, k, w, l, owners)
  BY OwnFacts
<1>02. OwnGrown(s, x, k, w)
  BY OwnFacts
<1>03. OwnSeen(s, x, k, l)
  BY OwnFacts
<1>1. OthersCovered(s, x, k + 1, w)
  BY <1>0, <1>03, Zenon DEF OthersCovered, Has
<1>2. ASSUME NEW b \in Nat, NEW ty \in LockTypes
      PROVE  Covers(w.out, x.owner, b, ty) \/ Has(w.lock, x.owner, b, ty)
             <=> Should(x, x.owner, b, ty, CoversFirst(s, k + 1, x.owner, b, ty))
  <2>1. Has(l, x.owner, b, ty) => x.start <= b /\ b <= x.end
    BY <1>0, <1>02, <1>03, SMTT(20) DEF Has
  <2> QED
    BY <1>02, <1>03, <2>1 DEF Should
<1>3. Going(s, x, k + 1, w)
  BY <1>0, <1>02, <1>03, <1>2 DEF Going
<1>4. ~w.over
  BY DEF Own
<1> QED
  BY <1>0, <1>1, <1>3, <1>4, StepGoal DEF Own

\* l is deleted and the lock grows: they have one type, and they touch.
LEMMA StepGrows ==
    ASSUME NEW s, NEW x, NEW k, NEW w, NEW owners, NEW l, Own(s, x, k, w, l, owners), l.type = x.type,
           ~(l.end < w.lock.start - 1), ~(w.lock.end < l.start - 1)
    PROVE  Walked(s, x, k + 1, [w EXCEPT !.lock = Grow(@, l)], owners)
<1> DEFINE g == Grow(w.lock, l)
           v == [w EXCEPT !.lock = Grow(@, l)]
<1> USE DEF OwnOrder, OwnGrown, OwnSeen
<1>0. OwnOrder(s, x, k, w, l, owners)
  BY OwnFacts
<1>02. OwnGrown(s, x, k, w)
  BY OwnFacts
<1>03. OwnSeen(s, x, k, l)
  BY OwnFacts
<1>1. PICK lo, ty, st, en : w.lock = [owner |-> lo, type |-> ty, start |-> st, end |-> en]
  BY <1>0 DEF Asked
<1>2. g = [owner |-> lo, type |-> ty, start |-> IF l.start < st THEN l.start ELSE st,
           end |-> IF en < l.end THEN l.end ELSE en]
  <2>1. PICK a, e : /\ a = IF l.start < st THEN l.start ELSE st
                    /\ e = IF en < l.end THEN l.end ELSE en
    OBVIOUS
  <2>2. w.lock.start = st /\ w.lock.end = en
    BY <1>1
  <2>3. g = [[w.lock EXCEPT !.start = a] EXCEPT !.end = e]
    BY <2>1, <2>2, Zenon DEF Grow
  <2>4. [w.lock EXCEPT !.start = a] = [owner |-> lo, type |-> ty, start |-> a, end |-> en]
    BY <1>1
  <2>5. [[owner |-> lo, type |-> ty, start |-> a, end |-> en] EXCEPT !.end = e]
        = [owner |-> lo, type |-> ty, start |-> a, end |-> e]
    OBVIOUS
  <2> QED
    BY <2>1, <2>3, <2>4, <2>5, Zenon
<1>3. w.lock.owner = lo /\ w.lock.type = ty /\ w.lock.start = st /\ w.lock.end = en
  BY <1>1
<1>4. /\ g.owner = x.owner /\ g.type = x.type
      /\ g.start = IF l.start < w.lock.start THEN l.start ELSE w.lock.start
      /\ g.end = IF w.lock.end < l.end THEN l.end ELSE w.lock.end
  BY <1>0, <1>2, <1>3
<1>5. g \in Asked(owners)
  BY <1>0, <1>2, <1>3 DEF Asked
<1> HIDE DEF g
<1>6. g.start \in Nat /\ g.end \in Nat /\ g.start <= g.end
  BY <1>5 DEF Asked
<1>7. v = [out |-> w.out, lock |-> g, over |-> w.over]
  <2>1. v = [w EXCEPT !.lock = g]
    BY DEF g
  <2>2. PICK O, lk, ov : w = [out |-> O, lock |-> lk, over |-> ov]
    BY <1>0
  <2>3. [w EXCEPT !.lock = g] = [out |-> O, lock |-> g, over |-> ov]
    BY <2>2
  <2> QED
    BY <2>1, <2>2, <2>3
<1> HIDE DEF v
<1>8. v.out = w.out /\ v.lock = g /\ v.over = w.over /\ ~w.over
  BY <1>7 DEF Own
<1>9. OthersCovered(s, x, k + 1, v)
  BY <1>0, <1>03, <1>8, Zenon DEF OthersCovered, Has
<1>10. Below(w.out, g)
  <2> SUFFICES ASSUME NEW j \in DOMAIN w.out, w.out[j].owner = x.owner
               PROVE  w.out[j].end < g.start
    BY <1>4 DEF Below
  <2>1. w.out[j].end < w.lock.start /\ w.out[j].end < l.start
    BY <1>0, <1>0 DEF Below
  <2> QED
    BY <1>4, <2>1
<1>11. ASSUME NEW b \in Nat, NEW tt
       PROVE  Has(g, x.owner, b, tt) <=> Has(w.lock, x.owner, b, tt) \/ Has(l, x.owner, b, tt)
  BY <1>0, <1>4, <1>6 DEF Has
<1>12. g.start <= x.start /\ x.end <= g.end
  BY <1>0, <1>4, <1>6
<1>13. ASSUME NEW b \in Nat, g.start <= b, b <= g.end, ~(x.start <= b /\ b <= x.end)
       PROVE  CoversFirst(s, k + 1, x.owner, b, x.type)
  <2>1. Has(g, x.owner, b, x.type)
    BY <1>4, <1>13 DEF Has
  <2>2. Has(w.lock, x.owner, b, x.type) => CoversFirst(s, k, x.owner, b, x.type)
    BY <1>02, <1>13 DEF Has
  <2> QED
    BY <1>03, <1>11, <2>1, <2>2
<1>14. ASSUME NEW b \in Nat, NEW tt \in LockTypes
       PROVE  Covers(w.out, x.owner, b, tt) \/ Has(g, x.owner, b, tt)
              <=> Should(x, x.owner, b, tt, CoversFirst(s, k + 1, x.owner, b, tt))
  <2>1. Has(l, x.owner, b, tt) => tt = x.type
    BY DEF Has
  <2> QED
    BY <1>02, <1>03, <1>11, <2>1 DEF Should
<1>15. Going(s, x, k + 1, v)
  BY <1>8, <1>10, <1>12, <1>13, <1>14 DEF Going
<1> QED
  BY <1>0, <1>4, <1>5, <1>7, <1>8, <1>9, <1>15, StepGoal DEF Own, v

\* The loop ends, since l has the type of the lock and covers it.
LEMMA StepContained ==
    ASSUME NEW s, NEW x, NEW k, NEW w, NEW owners, NEW l, Own(s, x, k, w, l, owners), l.type = x.type,
           l.start <= w.lock.start, w.lock.end <= l.end
    PROVE  Walked(s, x, k + 1, End(w, <<l>>), owners)
<1> DEFINE v == End(w, <<l>>)
           z == w.out \o <<l>>
<1> USE DEF OwnOrder, OwnGrown, OwnSeen
<1>0. OwnOrder(s, x, k, w, l, owners)
  BY OwnFacts
<1>02. OwnGrown(s, x, k, w)
  BY OwnFacts
<1>03. OwnSeen(s, x, k, l)
  BY OwnFacts
<1>1. v = [out |-> z, lock |-> w.lock, over |-> TRUE]
  <2>1. w = [out |-> w.out, lock |-> w.lock, over |-> w.over]
    BY <1>0
  <2> QED
    BY <2>1, Records, Zenon
<1>2. v.out = z /\ v.lock = w.lock /\ v.over = TRUE
  BY <1>1
<1> HIDE DEF v, z
<1>3. /\ z \in Seq(Held(owners)) /\ Ordered(z)
      /\ \A o, b, ty : Covers(z, o, b, ty) <=> Covers(w.out, o, b, ty) \/ Has(l, o, b, ty)
      /\ \A q : Below(z, q) <=> Below(w.out, q) /\ (l.owner = q.owner => l.end < q.start)
  BY <1>0, Longer DEF z
<1>4. \A j \in k + 2 .. Len(s) : Below(z, s[j])
  BY <1>0, <1>3
<1>5. OthersCovered(s, x, k + 1, v)
  BY <1>0, <1>03, <1>2, <1>3, Zenon DEF OthersCovered, Has
<1>6. ASSUME NEW b \in Nat, NEW ty \in LockTypes
      PROVE  Covers(z, x.owner, b, ty)
             <=> Should(x, x.owner, b, ty, CoversFirst(s, k + 1, x.owner, b, ty))
  <2>1. Has(w.lock, x.owner, b, ty) => Has(l, x.owner, b, ty)
    BY <1>0 DEF Has
  <2>2. Has(l, x.owner, b, ty) => ty = x.type
    BY DEF Has
  <2> QED
    BY <1>02, <1>03, <1>3, <2>1, <2>2 DEF Should
<1>7. \A j \in k + 2 .. Len(s) : s[j].owner = x.owner => x.end < s[j].start
  BY <1>0, <1>0
<1>8. Ended(s, x, k + 1, v)
  <2>1. k + 1 + 1 = k + 2
    BY DEF Own, Stepping
  <2> QED
    BY <1>2, <1>6, <1>7, <2>1 DEF Ended
<1> QED
  BY <1>0, <1>1, <1>2, <1>3, <1>4, <1>5, <1>8, StepGoal DEF Own, v

\* The loop ends and the lock goes in front of what is left of l, which
\* starts behind it.  u is w, or w with the part of l before the lock.
LEMMA StepInserts ==
    ASSUME NEW s, NEW x, NEW k, NEW w, NEW owners, NEW l, Own(s, x, k, w, l, owners),
           NEW u, u = [out |-> u.out, lock |-> w.lock, over |-> FALSE],
           u.out \in Seq(Held(owners)), Ordered(u.out), Below(u.out, w.lock),
           \A j \in k + 2 .. Len(s) : Below(u.out, s[j]),
           \A o, b, ty : o # x.owner => (Covers(u.out, o, b, ty) <=> Covers(w.out, o, b, ty)),
           \A b \in Nat : \A ty : Covers(u.out, x.owner, b, ty)
                              <=> Covers(w.out, x.owner, b, ty)
                                  \/ (Has(l, x.owner, b, ty) /\ b < w.lock.start),
           NEW m \in Held(owners), m.owner = l.owner, m.type = l.type, m.end = l.end,
           w.lock.end < m.start, l.start <= m.start,
           l.start <= w.lock.end => m.start = w.lock.end + 1,
           w.lock.end < l.start => m.start = l.start
    PROVE  Walked(s, x, k + 1, insert_lock(u, <<m>>), owners)
<1> USE DEF OwnOrder, OwnGrown, OwnSeen
<1>0. OwnOrder(s, x, k, w, l, owners)
  BY OwnFacts
<1>02. OwnGrown(s, x, k, w)
  BY OwnFacts
<1>03. OwnSeen(s, x, k, l)
  BY OwnFacts
<1>04. m.start \in Nat /\ m.end \in Nat /\ m.start <= m.end /\ m.type \in LockTypes
  BY DEF Held
<1> DEFINE new == IF w.lock.type = "F_UNLCK" THEN <<>> ELSE <<w.lock>>
           v == insert_lock(u, <<m>>)
           y == u.out \o new
           z == y \o <<m>>
<1>1. u.lock = w.lock
  OBVIOUS
<1>2. v = [out |-> u.out \o (new \o <<m>>), lock |-> w.lock, over |-> TRUE]
  <2>1. u = [out |-> u.out, lock |-> u.lock, over |-> u.over]
    BY Zenon
  <2>2. v = End(u, new \o <<m>>)
    BY <1>1, Zenon DEF insert_lock
  <2> HIDE DEF new, v
  <2> QED
    BY <1>1, <2>1, <2>2, Records, Zenon
<1>3. /\ y \in Seq(Held(owners)) /\ Ordered(y)
      /\ \A o, b, ty : Covers(y, o, b, ty) <=> Covers(u.out, o, b, ty)
                                               \/ (x.type # "F_UNLCK" /\ Has(w.lock, o, b, ty))
      /\ \A q : Below(y, q) <=> Below(u.out, q)
                                /\ (x.type # "F_UNLCK" /\ x.owner = q.owner => w.lock.end < q.start)
  <2>1. CASE x.type = "F_UNLCK"
    <3>1. y = u.out
      BY <1>0, <2>1
    <3> QED
      BY <2>1, <3>1
  <2>2. CASE x.type # "F_UNLCK"
    <3>1. y = u.out \o <<w.lock>>
      BY <1>0, <2>2
    <3>2. w.lock \in Held(owners)
      BY <1>0, <2>2 DEF Held, Asked
    <3> HIDE DEF y, new
    <3>3. /\ u.out \o <<w.lock>> \in Seq(Held(owners)) /\ Ordered(u.out \o <<w.lock>>)
          /\ \A o, b, ty : Covers(u.out \o <<w.lock>>, o, b, ty)
                           <=> Covers(u.out, o, b, ty) \/ Has(w.lock, o, b, ty)
          /\ \A q : Below(u.out \o <<w.lock>>, q)
                    <=> Below(u.out, q) /\ (w.lock.owner = q.owner => w.lock.end < q.start)
      BY <3>2, Longer
    <3> QED
      BY <1>0, <2>2, <3>1, <3>3, Zenon
  <2> QED
    BY <2>1, <2>2
<1>4. u.out \o (new \o <<m>>) = z
  <2> DEFINE T == Held(owners) \cup {w.lock}
  <2>1. w.lock \in T /\ m \in T /\ Held(owners) \subseteq T
    OBVIOUS
  <2> HIDE DEF T
  <2>2. <<>> \in Seq(T) /\ <<w.lock>> \in Seq(T) /\ <<m>> \in Seq(T)
    BY <2>1
  <2>3. u.out \in Seq(T)
    BY <2>1
  <2>4. new \in Seq(T)
    BY <2>2, Zenon
  <2> HIDE DEF new
  <2> QED
    BY <2>2, <2>3, <2>4, ConcatAssociative
<1>5. v = [out |-> z, lock |-> w.lock, over |-> TRUE]
  BY <1>2, <1>4, Zenon
<1> HIDE DEF v, y, z
<1>6. v.out = z /\ v.lock = w.lock /\ v.over = TRUE
  BY <1>5
<1>7. Below(y, m)
  <2>1. Below(u.out, m)
    <3> SUFFICES ASSUME NEW j \in DOMAIN u.out, u.out[j].owner = m.owner
                 PROVE  u.out[j].end < m.start
      BY DEF Below
    <3>1. u.out[j].end < w.lock.start
      BY <1>0 DEF Below
    <3>2. u.out[j].end \in Nat
      BY DEF Held
    <3> QED
      BY <1>0, <1>04, <3>1, <3>2
  <2> QED
    BY <1>0, <1>3, <2>1
<1>8. /\ z \in Seq(Held(owners)) /\ Ordered(z)
      /\ \A o, b, ty : Covers(z, o, b, ty) <=> Covers(y, o, b, ty) \/ Has(m, o, b, ty)
      /\ \A q : Below(z, q) <=> Below(y, q) /\ (m.owner = q.owner => m.end < q.start)
  BY <1>3, <1>7, Longer DEF z
<1>9. ASSUME NEW j \in k + 2 .. Len(s) PROVE Below(z, s[j])
  <2>1. s[j].start \in Nat /\ (s[j].owner = x.owner => l.end < s[j].start /\ w.lock.end < s[j].start)
    BY <1>0, <1>04, SMTT(20)
  <2> QED
    BY <1>0, <1>3, <1>8, <2>1
<1>10. ASSUME NEW o, NEW b, NEW ty, o # x.owner
       PROVE  Covers(z, o, b, ty) <=> CoversFirst(s, k + 1, o, b, ty)
  <2>1. ~Has(m, o, b, ty) /\ ~Has(l, o, b, ty) /\ ~Has(w.lock, o, b, ty)
    BY <1>0, <1>10 DEF Has
  <2>2. Covers(w.out, o, b, ty) <=> CoversFirst(s, k, o, b, ty)
    BY <1>0, <1>10 DEF OthersCovered
  <2> QED
    BY <1>03, <1>10, <1>3, <1>8, <2>1, <2>2
<1>11. OthersCovered(s, x, k + 1, v)
  BY <1>6, <1>10 DEF OthersCovered
<1>12. ASSUME NEW b \in Nat, NEW ty \in LockTypes
       PROVE  Covers(z, x.owner, b, ty)
              <=> Should(x, x.owner, b, ty, CoversFirst(s, k + 1, x.owner, b, ty))
  <2>1. Has(m, x.owner, b, ty) <=> Has(l, x.owner, b, ty) /\ w.lock.end < b
    BY <1>0, <1>04 DEF Has
  <2>2. Has(w.lock, x.owner, b, ty) => x.type # "F_UNLCK"
    BY <1>0 DEF Has
  <2>3. Covers(z, x.owner, b, ty)
        <=> Covers(w.out, x.owner, b, ty) \/ Has(w.lock, x.owner, b, ty)
            \/ (Has(l, x.owner, b, ty) /\ (b < w.lock.start \/ w.lock.end < b))
    BY <1>3, <1>8, <2>1, <2>2
  <2>4. CASE x.start <= b /\ b <= x.end
    <3>1. ~(b < w.lock.start \/ w.lock.end < b)
      BY <1>0, <2>4
    <3> QED
      BY <1>02, <2>3, <2>4, <3>1 DEF Should
  <2>5. CASE ~(x.start <= b /\ b <= x.end)
    <3>1. Has(l, x.owner, b, ty) => b < w.lock.start \/ w.lock.end < b
      BY <1>0, <1>02, <1>03, <2>5, SMTT(20)
    <3> QED
      BY <1>02, <1>03, <2>3, <2>5, <3>1 DEF Should
  <2> QED
    BY <2>4, <2>5
<1>13. \A j \in k + 2 .. Len(s) : s[j].owner = x.owner => x.end < s[j].start
  <2> SUFFICES ASSUME NEW j \in k + 2 .. Len(s), s[j].owner = x.owner PROVE x.end < s[j].start
    OBVIOUS
  <2>1. s[j].start \in Nat /\ l.end < s[j].start
    BY <1>0
  <2>2. x.end <= w.lock.end /\ w.lock.end < m.start /\ m.start <= m.end /\ m.end = l.end
    BY <1>0, <1>04
  <2>3. x.end \in Nat /\ w.lock.end \in Nat /\ l.end \in Nat /\ m.start \in Nat /\ m.end \in Nat
    BY <1>0, <1>04
  <2> QED
    BY <2>1, <2>2, <2>3
<1>14. Ended(s, x, k + 1, v)
  <2>1. k + 1 + 1 = k + 2
    BY DEF Own, Stepping
  <2> QED
    BY <1>6, <1>12, <1>13, <2>1 DEF Ended
<1> QED
  BY <1>0, <1>5, <1>6, <1>8, <1>9, <1>11, <1>14, StepGoal DEF Own, v

\* Every step of the loop keeps the invariant.
LEMMA VisitStep ==
    ASSUME NEW s, NEW x, NEW k, NEW w, NEW owners, Stepping(s, x, k, w, owners)
    PROVE  Walked(s, x, k + 1, Visit(w, s[k + 1]), owners)
<1> DEFINE l == s[k + 1]
<1>1. w.over \in BOOLEAN /\ w.lock.owner = x.owner /\ w.lock.type = x.type
  BY StepFacts
<1>2. CASE w.over \/ l.owner # x.owner
  <2>1. Visit(w, l) = Keep(w, <<l>>)
    BY <1>1, <1>2 DEF Visit
  <2> QED
    BY <1>2, <2>1, StepSkips
<1>3. CASE ~w.over /\ l.owner = x.owner
  <2>1. Own(s, x, k, w, l, owners)
    BY <1>3 DEF Own
  <2>2. PICK q : q = l
    OBVIOUS
  <2>3. Own(s, x, k, w, q, owners)
    BY <2>1, <2>2
  <2> HIDE DEF l
  <2>4. OwnOrder(s, x, k, w, q, owners)
    BY <2>3, OwnFacts
  <2>5. /\ q \in Held(owners) /\ q.start \in Nat /\ q.end \in Nat /\ q.start <= q.end
        /\ w.lock.start \in Nat /\ w.lock.end \in Nat /\ w.lock.start <= w.lock.end
        /\ w.out \in Seq(Held(owners)) /\ Ordered(w.out) /\ Below(w.out, w.lock) /\ Below(w.out, q)
        /\ w = [out |-> w.out, lock |-> w.lock, over |-> w.over]
        /\ w.lock.owner = x.owner /\ q.owner = x.owner
        /\ \A j \in k + 2 .. Len(s) :
              /\ Below(w.out, s[j]) /\ s[j].start \in Nat
              /\ s[j].owner = q.owner => q.end < s[j].start
    BY <2>4 DEF OwnOrder
  <2>6. PICK qo, qt, qs, qe : q = [owner |-> qo, type |-> qt, start |-> qs, end |-> qe]
    BY <2>5 DEF Held
  <2>7. q.owner = qo /\ q.type = qt /\ q.start = qs /\ q.end = qe
    BY <2>6
  <2>8. /\ Before(w, q) = [owner |-> q.owner, type |-> q.type, start |-> q.start, end |-> w.lock.start - 1]
        /\ After(w, q) = [owner |-> q.owner, type |-> q.type, start |-> w.lock.end + 1, end |-> q.end]
    <3>1. \A e : [q EXCEPT !.end = e] = [owner |-> qo, type |-> qt, start |-> qs, end |-> e]
      BY <2>6
    <3>2. \A e : [q EXCEPT !.start = e] = [owner |-> qo, type |-> qt, start |-> e, end |-> qe]
      BY <2>6
    <3> QED
      BY <2>7, <3>1, <3>2, Zenon DEF Before, After
  \* The part before the lock, and the part behind it.
  <2>10. ASSUME q.start < w.lock.start, ~(q.end < w.lock.start)
         PROVE  /\ Before(w, q) \in Held(owners) /\ Before(w, q).owner = q.owner
                /\ Before(w, q).type = q.type /\ Before(w, q).start = q.start
                /\ Before(w, q).end = w.lock.start - 1 /\ Before(w, q).end <= q.end
    BY <2>5, <2>8, <2>10 DEF Held
  <2>11. ASSUME w.lock.end < q.end, ~(w.lock.end < q.start)
         PROVE  /\ After(w, q) \in Held(owners) /\ After(w, q).owner = q.owner
                /\ After(w, q).type = q.type /\ After(w, q).end = q.end
                /\ After(w, q).start = w.lock.end + 1
    BY <2>5, <2>8, <2>11 DEF Held
  \* If l starts behind the start of the lock, nothing goes in front of it.
  <2>12. ASSUME w.lock.start <= q.start
         PROVE  /\ w = [out |-> w.out, lock |-> w.lock, over |-> FALSE]
                /\ \A b \in Nat : \A ty : Covers(w.out, x.owner, b, ty)
                                      <=> Covers(w.out, x.owner, b, ty)
                                          \/ (Has(q, x.owner, b, ty) /\ b < w.lock.start)
    <3>1. ASSUME NEW b \in Nat, NEW ty, Has(q, x.owner, b, ty), b < w.lock.start PROVE FALSE
      BY <2>5, <2>12, <3>1 DEF Has
    <3>2. w.over = FALSE
      BY <1>1, <1>3
    <3>3. w = [out |-> w.out, lock |-> w.lock, over |-> FALSE]
      BY <2>5, <3>2, Zenon
    <3> QED
      BY <3>1, <3>3
  \* Then the lock goes in front of what is left of l.
  <2>16. ASSUME w.lock.start <= q.start,
                NEW m \in Held(owners), m.owner = q.owner, m.type = q.type, m.end = q.end,
                w.lock.end < m.start, q.start <= m.start,
                q.start <= w.lock.end => m.start = w.lock.end + 1,
                w.lock.end < q.start => m.start = q.start
         PROVE  Walked(s, x, k + 1, insert_lock(w, <<m>>), owners)
    <3>1. /\ w = [out |-> w.out, lock |-> w.lock, over |-> FALSE]
          /\ \A b \in Nat : \A ty : Covers(w.out, x.owner, b, ty)
                                <=> Covers(w.out, x.owner, b, ty)
                                    \/ (Has(q, x.owner, b, ty) /\ b < w.lock.start)
      BY <2>12, <2>16
    <3>2. /\ w.out \in Seq(Held(owners)) /\ Ordered(w.out) /\ Below(w.out, w.lock)
          /\ \A j \in k + 2 .. Len(s) : Below(w.out, s[j])
      BY <2>5
    <3> QED
      BY <2>3, <2>16, <3>1, <3>2, StepInserts
  <2>13. Visit(w, q) = IF q.type = x.type THEN SameType(w, q) ELSE OtherType(w, q)
    BY <1>1, <1>3, <2>2 DEF Visit
  <2>14. CASE q.type = x.type
    <3>1. CASE q.end < w.lock.start - 1
      <4>1. Visit(w, q) = Keep(w, <<q>>)
        BY <2>5, <2>13, <2>14, <3>1 DEF SameType
      <4>2. q.end < w.lock.start
        BY <2>5, <3>1
      <4> QED
        BY <2>3, <2>5, <4>1, <4>2, StepKeeps, <2>2 DEF l
    <3>2. CASE ~(q.end < w.lock.start - 1) /\ w.lock.end < q.start - 1
      <4>1. Visit(w, q) = insert_lock(w, <<q>>)
        BY <2>5, <2>13, <2>14, <3>2 DEF SameType
      <4>2. w.lock.end < q.start /\ w.lock.start <= q.start
        BY <2>5, <3>2
      <4> QED
        <5>1. Walked(s, x, k + 1, insert_lock(w, <<q>>), owners)
          BY <2>5, <2>16, <4>2
        <5> QED
          BY <2>2, <4>1, <5>1 DEF l
    <3>3. CASE /\ ~(q.end < w.lock.start - 1) /\ ~(w.lock.end < q.start - 1)
               /\ q.start <= w.lock.start /\ w.lock.end <= q.end
      <4>1. Visit(w, q) = End(w, <<q>>)
        BY <2>13, <2>14, <3>3 DEF SameType
      <4> QED
        BY <2>3, <2>14, <3>3, <4>1, StepContained, <2>2 DEF l
    <3>4. CASE /\ ~(q.end < w.lock.start - 1) /\ ~(w.lock.end < q.start - 1)
               /\ ~(q.start <= w.lock.start /\ w.lock.end <= q.end)
      <4>1. Visit(w, q) = [w EXCEPT !.lock = Grow(@, q)]
        BY <2>13, <2>14, <3>4 DEF SameType
      <4> QED
        BY <2>3, <2>14, <3>4, <4>1, StepGrows, <2>2 DEF l
    <3> QED
      BY <3>1, <3>2, <3>3, <3>4
  <2>15. CASE q.type # x.type
    <3>1. CASE q.end < w.lock.start
      <4>1. Visit(w, q) = Keep(w, <<q>>)
        BY <2>13, <2>15, <3>1 DEF OtherType
      <4> QED
        BY <2>3, <2>5, <3>1, <4>1, StepKeeps, <2>2 DEF l
    <3>2. CASE ~(q.end < w.lock.start) /\ w.lock.end < q.start
      <4>1. Visit(w, q) = insert_lock(w, <<q>>)
        BY <2>13, <2>15, <3>2 DEF OtherType
      <4>2. w.lock.end < q.start /\ w.lock.start <= q.start
        BY <2>5, <3>2
      <4> QED
        <5>1. Walked(s, x, k + 1, insert_lock(w, <<q>>), owners)
          BY <2>5, <2>16, <4>2
        <5> QED
          BY <2>2, <4>1, <5>1 DEF l
    <3>3. CASE /\ ~(q.end < w.lock.start) /\ ~(w.lock.end < q.start)
               /\ ~(q.start < w.lock.start) /\ ~(w.lock.end < q.end)
      <4>1. Visit(w, q) = w
        BY <2>13, <2>15, <3>3 DEF OtherType
      <4>2. w.lock.start <= q.start /\ q.end <= w.lock.end
        BY <2>5, <3>3
      <4> QED
        BY <2>3, <2>15, <4>1, <4>2, StepDeletes, <2>2 DEF l
    <3>4. CASE /\ ~(q.end < w.lock.start) /\ ~(w.lock.end < q.start)
               /\ q.start < w.lock.start /\ ~(w.lock.end < q.end)
      <4>1. Visit(w, q) = Keep(w, <<Before(w, q)>>)
        BY <2>13, <2>15, <3>4 DEF OtherType
      <4>2. PICK m : m = Before(w, q)
        OBVIOUS
      <4>3. /\ m \in Held(owners) /\ m.owner = q.owner /\ m.type = q.type /\ m.start = q.start
            /\ m.end = w.lock.start - 1 /\ m.end <= q.end
        BY <2>10, <3>4, <4>2
      <4>4. m.end < w.lock.start
        BY <2>5, <4>3
      <4>5. \A b \in Nat : m.end < b /\ b <= q.end => w.lock.start <= b /\ b <= w.lock.end
        BY <2>5, <3>4, <4>3
      <4> QED
        BY <2>3, <4>1, <4>2, <4>3, <4>4, <4>5, StepKeeps, <2>2 DEF l
    <3>5. CASE /\ ~(q.end < w.lock.start) /\ ~(w.lock.end < q.start)
               /\ ~(q.start < w.lock.start) /\ w.lock.end < q.end
      <4>1. Visit(w, q) = insert_lock(w, <<After(w, q)>>)
        BY <2>13, <2>15, <3>5 DEF OtherType
      <4>2. PICK m : m = After(w, q)
        OBVIOUS
      <4>3. /\ m \in Held(owners) /\ m.owner = q.owner /\ m.type = q.type /\ m.end = q.end
            /\ m.start = w.lock.end + 1
        BY <2>11, <3>5, <4>2
      <4>4. w.lock.end < m.start /\ q.start <= m.start /\ w.lock.start <= q.start
        BY <2>5, <3>5, <4>3
      <4> QED
        <5>1. Walked(s, x, k + 1, insert_lock(w, <<m>>), owners)
          BY <2>5, <2>16, <3>5, <4>3, <4>4
        <5> QED
          BY <2>2, <4>1, <4>2, <5>1 DEF l
    <3>6. CASE /\ ~(q.end < w.lock.start) /\ ~(w.lock.end < q.start)
               /\ q.start < w.lock.start /\ w.lock.end < q.end
      <4>1. PICK h, m, u : h = Before(w, q) /\ m = After(w, q) /\ u = Keep(w, <<h>>)
        OBVIOUS
      <4>2. Visit(w, q) = insert_lock(u, <<m>>)
        BY <2>13, <2>15, <3>6, <4>1 DEF OtherType
      <4>3. /\ m \in Held(owners) /\ m.owner = q.owner /\ m.type = q.type /\ m.end = q.end
            /\ m.start = w.lock.end + 1
        BY <2>11, <3>6, <4>1
      <4>4. w.lock.end < m.start /\ q.start <= m.start
        BY <2>5, <3>6, <4>3
      <4>5. /\ h \in Held(owners) /\ h.owner = q.owner /\ h.type = q.type /\ h.start = q.start
            /\ h.end = w.lock.start - 1 /\ h.end <= q.end
        BY <2>10, <3>6, <4>1
      <4>6. u = [out |-> w.out \o <<h>>, lock |-> w.lock, over |-> w.over] /\ w.over = FALSE
        <5>1. w = [out |-> w.out, lock |-> w.lock, over |-> w.over]
          BY <2>5
        <5>2. w.over = FALSE
          BY <1>1, <1>3
        <5> QED
          BY <4>1, <5>1, <5>2, Records, Zenon
      <4>7. u.out = w.out \o <<h>> /\ u = [out |-> u.out, lock |-> w.lock, over |-> FALSE]
        BY <4>6
      <4>8. Below(w.out, h)
        BY <2>5, <4>5 DEF Below
      <4>9. /\ u.out \in Seq(Held(owners)) /\ Ordered(u.out)
            /\ \A o, b, ty : Covers(u.out, o, b, ty) <=> Covers(w.out, o, b, ty) \/ Has(h, o, b, ty)
            /\ \A r : Below(u.out, r) <=> Below(w.out, r) /\ (h.owner = r.owner => h.end < r.start)
        BY <2>5, <4>5, <4>7, <4>8, Longer
      <4>10. Below(u.out, w.lock) /\ \A j \in k + 2 .. Len(s) : Below(u.out, s[j])
        <5>1. Below(u.out, w.lock)
          BY <2>5, <4>5, <4>9
        <5>2. ASSUME NEW j \in k + 2 .. Len(s) PROVE Below(u.out, s[j])
          <6>1. s[j].owner = q.owner => h.end < s[j].start
            BY <2>5, <4>5
          <6> QED
            BY <2>5, <4>5, <4>9, <6>1
        <5> QED
          BY <5>1, <5>2
      <4>11. \A o, b, ty : o # x.owner => (Covers(u.out, o, b, ty) <=> Covers(w.out, o, b, ty))
        BY <2>5, <4>5, <4>9, Zenon DEF Has
      <4>12. \A b \in Nat : \A ty : Has(h, x.owner, b, ty) <=> Has(q, x.owner, b, ty) /\ b < w.lock.start
        BY <2>5, <3>6, <4>5 DEF Has
      <4>13. \A b \in Nat : \A ty : Covers(u.out, x.owner, b, ty)
                                <=> Covers(w.out, x.owner, b, ty)
                                    \/ (Has(q, x.owner, b, ty) /\ b < w.lock.start)
        BY <4>9, <4>12
      <4> QED
        BY <2>3, <3>6, <4>2, <4>3, <4>4, <4>7, <4>9, <4>10, <4>11, <4>13, StepInserts, <2>2 DEF l
    <3> QED
      BY <3>1, <3>2, <3>3, <3>4, <3>5, <3>6
  <2> QED
    BY <2>14, <2>15
<1> QED
  BY <1>2, <1>3

----------------------------------------------------------------------------
\* The loop as a function of how many locks it has seen.
Walks(s, x, n, f) ==
    f = [k \in 0 .. n |-> IF k = 0 THEN [out |-> <<>>, lock |-> x, over |-> FALSE]
                          ELSE Visit(f[k - 1], s[k])]

\* There is such a function for every length.
LEMMA WalkExists ==
    ASSUME NEW s, NEW x
    PROVE  \A n \in Nat : \E f : Walks(s, x, n, f)
<1> DEFINE S == {n \in Nat : \E f : Walks(s, x, n, f)}
           first == [out |-> <<>>, lock |-> x, over |-> FALSE]
<1>1. 0 \in S
  <2> DEFINE f == [k \in 0 .. 0 |-> first]
  <2>1. f = [k \in 0 .. 0 |-> IF k = 0 THEN first ELSE Visit(f[k - 1], s[k])]
    <3> HIDE DEF first
    <3>1. \A k \in 0 .. 0 : k = 0
      OBVIOUS
    <3> QED
      BY <3>1
  <2> QED
    BY <2>1 DEF Walks
<1>2. ASSUME NEW n \in Nat, n \in S PROVE n + 1 \in S
  <2>1. PICK f : Walks(s, x, n, f)
    BY <1>2
  <2> DEFINE g == [k \in 0 .. n + 1 |-> IF k = n + 1 THEN Visit(f[n], s[n + 1]) ELSE f[k]]
             body(k) == IF k = 0 THEN first ELSE Visit(g[k - 1], s[k])
  <2>2. ASSUME NEW k \in 0 .. n + 1 PROVE g[k] = body(k)
    <3>1. CASE k = n + 1
      <4>1. k # 0 /\ k - 1 = n /\ n \in 0 .. n + 1 /\ n # n + 1
        BY <3>1
      <4> HIDE DEF first
      <4> QED
        BY <3>1, <4>1
    <3>2. CASE k \in 0 .. n
      <4>1. g[k] = f[k] /\ k # n + 1
        BY <3>2
      <4>2. f[k] = IF k = 0 THEN first ELSE Visit(f[k - 1], s[k])
        <5> HIDE DEF first
        <5> QED
          BY <2>1, <3>2 DEF Walks, first
      <4>3. k # 0 => k - 1 \in 0 .. n + 1 /\ k - 1 # n + 1
        BY <3>2
      <4>4. k # 0 => g[k - 1] = f[k - 1]
        BY <4>3
      <4> HIDE DEF first, g
      <4> QED
        BY <4>1, <4>2, <4>4
    <3> QED
      BY <3>1, <3>2
  <2>3. g = [k \in 0 .. n + 1 |-> body(k)]
    <3>1. g = [k \in 0 .. n + 1 |-> g[k]]
      OBVIOUS
    <3> HIDE DEF g, body
    <3> QED
      BY <2>2, <3>1
  <2> HIDE DEF g
  <2>4. Walks(s, x, n + 1, g)
    BY <2>3 DEF Walks
  <2> QED
    BY <2>4
<1> HIDE DEF S
<1>3. Nat \subseteq S
  BY <1>1, <1>2, SetInduction
<1> QED
  BY <1>3 DEF S

\* Its values satisfy the invariant of the loop.
LEMMA WalkSound ==
    ASSUME NEW owners, NEW s \in Seq(Held(owners)), Ordered(s), NEW x \in Asked(owners),
           NEW f, Walks(s, x, Len(s), f)
    PROVE  Walked(s, x, Len(s), f[Len(s)], owners)
<1> DEFINE S == {n \in Nat : n <= Len(s) => Walked(s, x, n, f[n], owners)}
           first == [out |-> <<>>, lock |-> x, over |-> FALSE]
<1>0. Len(s) \in Nat
  OBVIOUS
<1>01. \A k \in 0 .. Len(s) : f[k] = IF k = 0 THEN first ELSE Visit(f[k - 1], s[k])
  <2> HIDE DEF first
  <2> QED
    BY DEF Walks, first
<1>1. 0 \in S
  <2>1. f[0] = first
    <3>1. 0 \in 0 .. Len(s)
      BY <1>0
    <3> HIDE DEF first
    <3> QED
      BY <1>01, <3>1
  <2> QED
    BY <2>1, WalkStarts
<1>2. ASSUME NEW n \in Nat, n \in S PROVE n + 1 \in S
  <2> SUFFICES ASSUME n + 1 <= Len(s) PROVE Walked(s, x, n + 1, f[n + 1], owners)
    OBVIOUS
  <2>1. n < Len(s) /\ n + 1 \in 0 .. Len(s) /\ n + 1 # 0 /\ n + 1 - 1 = n
    BY <1>0
  <2>2. Walked(s, x, n, f[n], owners)
    BY <1>0, <1>2, <2>1
  <2>3. f[n + 1] = Visit(f[n], s[n + 1])
    <3> HIDE DEF first
    <3> QED
      BY <1>01, <2>1
  <2>4. Stepping(s, x, n, f[n], owners)
    BY <2>1, <2>2 DEF Stepping
  <2> QED
    BY <2>3, <2>4, VisitStep
<1> HIDE DEF S
<1>3. Nat \subseteq S
  BY <1>1, <1>2, SetInduction
<1>4. Len(s) \in S
  BY <1>0, <1>3
<1> QED
  BY <1>0, <1>4 DEF S

\* The walk over the whole list.
LEMMA VisitedSound ==
    ASSUME NEW owners, NEW s \in Seq(Held(owners)), Ordered(s), NEW x \in Asked(owners)
    PROVE  Walked(s, x, Len(s), Visited(s, x), owners)
<1> DEFINE f == CHOOSE g : Walks(s, x, Len(s), g)
<1>1. Len(s) \in Nat
  OBVIOUS
<1>2. Walks(s, x, Len(s), f)
  BY <1>1, WalkExists
<1>3. Visited(s, x) = f[Len(s)]
  BY Zenon DEF Visited, Walks
<1> HIDE DEF f
<1> QED
  BY <1>2, <1>3, WalkSound

\* locks_insert on a list that is in order gives one that is in order, in
\* which the bytes of the lock have its type, or none if it unlocks, and
\* every other byte, and every other owner, has what it had.
THEOREM InsertExact ==
    ASSUME NEW owners, NEW s \in Seq(Held(owners)), Ordered(s), NEW x \in Asked(owners)
    PROVE  /\ locks_insert(s, x) \in Seq(Held(owners)) /\ Ordered(locks_insert(s, x))
           /\ \A o \in owners, b \in Nat, ty \in LockTypes :
                Covers(locks_insert(s, x), o, b, ty) <=> Should(x, o, b, ty, Covers(s, o, b, ty))
<1>1. PICK w : w = Visited(s, x)
  OBVIOUS
<1>2. Walked(s, x, Len(s), w, owners)
  BY <1>1, VisitedSound
<1>3. /\ w \in [out : Seq(Held(owners)), lock : Asked(owners), over : BOOLEAN]
      /\ w.lock.owner = x.owner /\ w.lock.type = x.type
      /\ Ordered(w.out) /\ OthersCovered(s, x, Len(s), w)
      /\ IF w.over THEN Ended(s, x, Len(s), w) ELSE Going(s, x, Len(s), w)
  BY <1>2 DEF Walked, Types, Behind
<1>4. \A o, b, ty : CoversFirst(s, Len(s), o, b, ty) <=> Covers(s, o, b, ty)
  <2>1. DOMAIN s = 1 .. Len(s)
    OBVIOUS
  <2> QED
    BY <2>1, Zenon DEF Covers, CoversFirst
<1>5. ASSUME NEW o, NEW b, NEW ty, o # x.owner
      PROVE  /\ Covers(w.out, o, b, ty) <=> Should(x, o, b, ty, Covers(s, o, b, ty))
             /\ ~Has(w.lock, o, b, ty)
  <2>1. Covers(w.out, o, b, ty) <=> Covers(s, o, b, ty)
    BY <1>3, <1>4, <1>5, Zenon DEF OthersCovered
  <2> QED
    BY <1>3, <1>5, <2>1, Zenon DEF Should, Has
<1>6. CASE w.over
  <2>1. locks_insert(s, x) = w.out
    BY <1>1, <1>6 DEF locks_insert
  <2>2. \A b \in Nat, ty \in LockTypes :
          Covers(w.out, x.owner, b, ty) <=> Should(x, x.owner, b, ty, Covers(s, x.owner, b, ty))
    BY <1>3, <1>4, <1>6 DEF Ended, Should
  <2> QED
    BY <1>3, <1>5, <2>1, <2>2
<1>7. CASE ~w.over
  <2>1. /\ Below(w.out, w.lock)
        /\ \A b \in Nat, ty \in LockTypes :
             Covers(w.out, x.owner, b, ty) \/ Has(w.lock, x.owner, b, ty)
             <=> Should(x, x.owner, b, ty, Covers(s, x.owner, b, ty))
    BY <1>3, <1>4, <1>7 DEF Going, Should
  <2>2. locks_insert(s, x) = insert_lock(w, <<>>).out
    BY <1>1, <1>7 DEF locks_insert
  <2> DEFINE new == IF w.lock.type = "F_UNLCK" THEN <<>> ELSE <<w.lock>>
  <2>3. insert_lock(w, <<>>).out = w.out \o (new \o <<>>)
    <3>1. w = [out |-> w.out, lock |-> w.lock, over |-> w.over]
      BY <1>3
    <3>2. insert_lock(w, <<>>) = End(w, new \o <<>>)
      BY Zenon DEF insert_lock
    <3>3. PICK c : c = w.out \o (new \o <<>>)
      OBVIOUS
    <3>4. End(w, new \o <<>>) = [out |-> c, lock |-> w.lock, over |-> TRUE]
      BY <3>1, <3>3, Records, Zenon
    <3>5. [out |-> c, lock |-> w.lock, over |-> TRUE].out = c
      OBVIOUS
    <3> QED
      BY <3>2, <3>3, <3>4, <3>5, Zenon
  <2>4. CASE x.type = "F_UNLCK"
    <3>1. new = <<>> /\ new \o <<>> = <<>>
      BY <1>3, <2>4
    <3>2. w.out \o <<>> = w.out
      BY <1>3
    <3>3. locks_insert(s, x) = w.out
      BY <2>2, <2>3, <3>1, <3>2, Zenon
    <3>4. \A b \in Nat, ty \in LockTypes : ~Has(w.lock, x.owner, b, ty)
      BY <1>3, <2>4 DEF Has, LockTypes
    <3> QED
      BY <1>3, <1>5, <2>1, <3>3, <3>4
  <2>5. CASE x.type # "F_UNLCK"
    <3>1. new = <<w.lock>>
      BY <1>3, <2>5
    <3>2. w.lock \in Held(owners)
      BY <1>3, <2>5 DEF Held, Asked
    <3>3. <<w.lock>> \o <<>> = <<w.lock>>
      OBVIOUS
    <3>4. locks_insert(s, x) = w.out \o <<w.lock>>
      BY <2>2, <2>3, <3>1, <3>3, Zenon
    <3> HIDE DEF new
    <3>5. /\ w.out \o <<w.lock>> \in Seq(Held(owners)) /\ Ordered(w.out \o <<w.lock>>)
          /\ \A o, b, ty : Covers(w.out \o <<w.lock>>, o, b, ty)
                           <=> Covers(w.out, o, b, ty) \/ Has(w.lock, o, b, ty)
      BY <1>3, <2>1, <3>2, Longer
    <3>6. ASSUME NEW o \in owners, NEW b \in Nat, NEW ty \in LockTypes
          PROVE  Covers(w.out \o <<w.lock>>, o, b, ty) <=> Should(x, o, b, ty, Covers(s, o, b, ty))
      <4>1. CASE o = x.owner
        BY <2>1, <3>5, <4>1
      <4>2. CASE o # x.owner
        BY <1>5, <3>5, <4>2
      <4> QED
        BY <4>1, <4>2
    <3> QED
      BY <3>4, <3>5, <3>6, Zenon
  <2> QED
    BY <2>4, <2>5
<1> QED
  BY <1>3, <1>6, <1>7
----------------------------------------------------------------------------
(***************************************************************************)
(* The list of POSIX locks that fuse_lib_getlk answers from says what the  *)
(* file system has locked (LocksAgree), for any number of threads, owners  *)
(* and offsets, and every order of their steps.                            *)
(*                                                                         *)
(* The list and the file system are changed in two steps of a thread, with *)
(* the path lock given back in between.  The invariant says what the two   *)
(* disagree in meanwhile: by what the lock of the one request under way    *)
(* means (Agree), which is what InsertExact then makes of the list.        *)
(***************************************************************************)

\* The threads by where they are (p) and their request (r).
Fields(r) == {"op", "ino", "n", "lock", "killed", "done"} \subseteq DOMAIN r
LockReq(p, r) == p # "idle" /\ r.lock # NoLock
\* The file system has been asked and the list not yet.
Pending(p, r) ==
    /\ LockReq(p, r)
    /\ p = "insert" \/ (p = "free" /\ r.op = "setlk" /\ r.n = 1)

\* Which requests can be where.
Stage(p, r, c) ==
    /\ Fields(r)
    /\ p = "idle" => r.lock = NoLock
    /\ p # "idle" => r.op \in c.sent
    /\ p \in {"found", "opened"} => Shape(r) \in {"open", "create"}
    /\ p = "reply" => Shape(r) \in {"entry", "link"}
    /\ p \in {"hide", "hiding", "change"} => Shape(r) \in {"unlink", "rmdir", "rename"}
    /\ p \in {"forget", "fwait"} => Shape(r) \in {"entry", "link", "create", "forget"}
    /\ p \in {"release", "unhide"} => Shape(r) \in {"open", "create", "release"}
    /\ p = "insert" => r.lock # NoLock /\ (Shape(r) = "lock" => r.op = "setlk")
    /\ p # "idle" /\ Shape(r) = "lock" => r.lock # NoLock
\* A request about locks is about the open file, and nobody gives it up.
LockStage(p, r, c) ==
    LockReq(p, r) =>
      /\ Shape(r) \in {"lock", "flush", "release"} /\ ~r.killed /\ ~r.done
      /\ r.ino = c.opened /\ c.opened \in Ids
      /\ LockOf(r) \in Asked(Nat) /\ LockOf(r).end <= OffsetMax
      /\ r.op = "setlk" /\ p \in {"getlk", "start", "wait", "locked"} => r.n # 1

Threading ==
    /\ case \in Cases
    /\ pc = [t \in Threads |-> pc[t]] /\ req = [t \in Threads |-> req[t]]
    /\ \A t \in Threads : Stage(pc[t], req[t], case) /\ LockStage(pc[t], req[t], case)
    /\ \A t, u \in Threads : t # u /\ LockReq(pc[t], req[t]) /\ LockReq(pc[u], req[u]) =>
          req[t].lock.owner # req[u].lock.owner

\* The lists and the locks of the file system: only those of the file that
\* is open, which does not go away.
NodeFields(n) == {"refctr", "locks"} \subseteq DOMAIN n
Listing(ns, c) ==
    /\ Ids \subseteq DOMAIN ns
    /\ \A i \in Ids : NodeFields(ns[i]) /\ (i # c.opened => ns[i].locks = <<>>)
    /\ c.opened \in Ids =>
         /\ ns[c.opened].refctr > 0
         /\ ns[c.opened].locks \in Seq(Held(Nat)) /\ Ordered(ns[c.opened].locks)
         /\ \A o \in Nat, b \in Nat, ty \in LockTypes :
               Covers(ns[c.opened].locks, o, b, ty) => b <= OffsetMax
FsListing ==
    /\ \A h \in fslocks : \E o \in Nat, b \in 0 .. OffsetMax, ty \in LockTypes :
          h = <<case.opened, o, b, ty>>
    /\ case.opened \notin Ids => fslocks = {}

\* An owner without a pending request has the same bytes in both; one that
\* has will have them once the list has followed.  An owner whose insertion
\* failed, or whose locks the file system kept, is made good by an unlock of
\* the whole file that leaves the file system nothing of his.
FsHas(o, b, ty) == <<case.opened, o, b, ty>> \in fslocks
Listed(o, b, ty) == Covers(nodes[case.opened].locks, o, b, ty)
Agree ==
    case.opened \in Ids =>
      \A o \in Nat, b \in 0 .. OffsetMax, ty \in LockTypes :
        /\ /\ o \notin unlisted
           /\ \A t \in Threads : Pending(pc[t], req[t]) => req[t].lock.owner # o
           => (FsHas(o, b, ty) <=> Listed(o, b, ty))
        /\ \A t \in Threads : Pending(pc[t], req[t]) /\ req[t].lock.owner = o /\ o \notin unlisted =>
              (FsHas(o, b, ty) <=> Should(LockOf(req[t]), o, b, ty, Listed(o, b, ty)))

LInv == Threading /\ Listing(nodes, case) /\ FsListing /\ Agree

----------------------------------------------------------------------------
\* The shapes that the proofs tell apart.
LEMMA ShapeOf ==
    /\ fuse_path_ops["setlk"] = "lock" /\ fuse_path_ops["getlk"] = "lock"
    /\ fuse_path_ops["flush"] = "flush" /\ fuse_path_ops["create"] = "create"
    /\ fuse_path_ops["release"] = "release" /\ fuse_path_ops["forget"] = "forget"
<1> DEFINE T == {fuse_lib_name, fuse_lib_attr, fuse_lib_make, fuse_lib_file, fuse_lib_dir,
                 fuse_lib_xattr, fuse_lib_lock, fuse_lib_misc}
<1>1. fuse_path_ops = [op \in UNION {DOMAIN f : f \in T} |-> (CHOOSE f \in T : op \in DOMAIN f)[op]]
  BY DEF fuse_path_ops
<1>2. ASSUME NEW f \in T, NEW op \in DOMAIN f, \A g \in T : op \in DOMAIN g => g = f
      PROVE  fuse_path_ops[op] = f[op]
  <2> HIDE DEF T
  <2>1. (CHOOSE g \in T : op \in DOMAIN g) = f
    BY <1>2
  <2>2. op \in UNION {DOMAIN g : g \in T}
    OBVIOUS
  <2> QED
    BY <1>1, <2>1, <2>2, Zenon
<1> DEFINE Only(f, op) == \A g \in T : op \in DOMAIN g => g = f
<1>3. fuse_lib_lock \in T /\ fuse_lib_name \in T
  OBVIOUS
<1>4. Only(fuse_lib_lock, "setlk") /\ Only(fuse_lib_lock, "getlk") /\ Only(fuse_lib_lock, "flush")
  BY DEF fuse_lib_name, fuse_lib_attr, fuse_lib_make, fuse_lib_file, fuse_lib_dir,
         fuse_lib_xattr, fuse_lib_misc
<1>5. Only(fuse_lib_name, "create") /\ Only(fuse_lib_name, "release") /\ Only(fuse_lib_name, "forget")
  BY DEF fuse_lib_lock, fuse_lib_attr, fuse_lib_make, fuse_lib_file, fuse_lib_dir,
         fuse_lib_xattr, fuse_lib_misc
<1>6. /\ {"setlk", "getlk", "flush"} \subseteq DOMAIN fuse_lib_lock
      /\ fuse_lib_lock["setlk"] = "lock" /\ fuse_lib_lock["getlk"] = "lock"
      /\ fuse_lib_lock["flush"] = "flush"
  BY DEF fuse_lib_lock
<1>7. /\ {"create", "release", "forget"} \subseteq DOMAIN fuse_lib_name
      /\ fuse_lib_name["create"] = "create" /\ fuse_lib_name["release"] = "release"
      /\ fuse_lib_name["forget"] = "forget"
  BY DEF fuse_lib_name
<1> HIDE DEF T
<1> QED
  BY <1>2, <1>3, <1>4, <1>5, <1>6, <1>7

----------------------------------------------------------------------------
\* What the tree lock changes of the nodes is neither their locks nor their
\* references.
Sound(ns) == Ids \subseteq DOMAIN ns /\ \A i \in Ids : NodeFields(ns[i])
Kept(ns, ms) ==
    /\ Ids \subseteq DOMAIN ms
    /\ \A i \in Ids : NodeFields(ms[i]) /\ ms[i].locks = ns[i].locks /\ ms[i].refctr = ns[i].refctr

\* Two such changes are one.
LEMMA KeptTwice ==
    ASSUME NEW ns, NEW ms, NEW ls, Sound(ns), Kept(ns, ms), Kept(ms, ls)
    PROVE  Kept(ns, ls) /\ Sound(ms) /\ Sound(ls) /\ Kept(ns, ns)
BY DEF Sound, Kept

\* The table stays a table of nodes.
LEMMA KeptSound ==
    ASSUME NEW ns, NEW ms, Sound(ns), Kept(ns, ms)
    PROVE  Sound(ms)
BY DEF Sound, Kept

\* A node that is unlocked.
LEMMA LeaveKept ==
    ASSUME NEW n, NodeFields(n), NEW by, NEW tk, NEW m, m = Leave(n, by, tk)
    PROVE  NodeFields(m) /\ m.locks = n.locks /\ m.refctr = n.refctr
BY DEF Leave, NodeFields

\* unlock_path.
LEMMA UnlockKept ==
    ASSUME NEW ns, Sound(ns), NEW i, NEW w, NEW tk
    PROVE  Kept(ns, unlock_path(ns, i, w, tk))
<1> DEFINE U == ToSet(Up(ns, i)) \ {Root}
           ms == unlock_path(ns, i, w, tk)
<1>1. ms = [j \in DOMAIN ns |-> IF j \in U THEN Leave(ns[j], -1, tk)
                                ELSE IF j = w THEN Leave(ns[j], 1, tk) ELSE ns[j]]
  BY DEF unlock_path
<1> HIDE DEF U, ms
<1>2. ASSUME NEW j \in Ids
      PROVE  j \in DOMAIN ms /\ NodeFields(ms[j]) /\ ms[j].locks = ns[j].locks /\ ms[j].refctr = ns[j].refctr
  <2>1. j \in DOMAIN ns /\ NodeFields(ns[j])
    BY DEF Sound
  <2>2. ms[j] \in {Leave(ns[j], -1, tk), Leave(ns[j], 1, tk), ns[j]}
    BY <1>1, <2>1, Zenon
  <2>3. j \in DOMAIN ms
    BY <1>1, <2>1
  <2> QED
    BY <2>1, <2>2, <2>3, LeaveKept
<1> QED
  BY <1>2 DEF Kept, ms

\* The locks and the tickets that try_get_path takes.
LEMMA TakenKept ==
    ASSUME NEW ns, Sound(ns), NEW got, NEW w, NEW tk
    PROVE  Kept(ns, Taken(ns, got, w)) /\ Kept(ns, Reserved(ns, got, tk))
<1>1. ASSUME NEW n, NodeFields(n)
      PROVE  /\ NodeFields([n EXCEPT !.treelock = @ + 1, !.ticket = 0])
             /\ [n EXCEPT !.treelock = @ + 1, !.ticket = 0].locks = n.locks
             /\ [n EXCEPT !.treelock = @ + 1, !.ticket = 0].refctr = n.refctr
  BY <1>1 DEF NodeFields
<1>5. ASSUME NEW n, NodeFields(n)
      PROVE  /\ NodeFields([n EXCEPT !.treelock = -1, !.ticket = 0])
             /\ [n EXCEPT !.treelock = -1, !.ticket = 0].locks = n.locks
             /\ [n EXCEPT !.treelock = -1, !.ticket = 0].refctr = n.refctr
  BY <1>5 DEF NodeFields
<1>6. ASSUME NEW n, NodeFields(n)
      PROVE  /\ NodeFields([n EXCEPT !.ticket = tk])
             /\ [n EXCEPT !.ticket = tk].locks = n.locks
             /\ [n EXCEPT !.ticket = tk].refctr = n.refctr
  BY <1>6 DEF NodeFields
<1>2. ASSUME NEW j \in Ids
      PROVE  j \in DOMAIN ns /\ NodeFields(ns[j])
  BY DEF Sound
<1>3. Kept(ns, Taken(ns, got, w))
  BY <1>1, <1>2, <1>5, Zenon DEF Kept, Taken
<1>4. Kept(ns, Reserved(ns, got, tk))
  BY <1>2, <1>6 DEF Kept, Reserved
<1> QED
  BY <1>3, <1>4

\* try_get_path, for readers and for writers.
LEMMA TryOneKept ==
    ASSUME NEW ns, Sound(ns), NEW i, NEW n, NEW wr, NEW tk
    PROVE  Kept(ns, try_get_path(ns, i, n, wr, tk).ns)
<1> DEFINE w == IF wr THEN lookup_node(ns, i, n) ELSE 0
           up == Up(ns, i)
           stop == FirstStop(ns, up, tk)
<1>1. ASSUME NEW v
      PROVE  Kept(ns, TryRead(ns, i, v, tk).ns)
  <2> HIDE DEF up, stop
  <2>1. TryRead(ns, i, v, tk) = Climbed(ns, up, stop, v, tk)
    BY DEF TryRead, Climb, up, stop
  <2> DEFINE got == {up[k] : k \in 1 .. stop - 1}
  <2>2. Climbed(ns, up, stop, v, tk).ns \in {Taken(ns, got, v), Reserved(ns, got \cup {v}, tk)}
    <3> HIDE DEF got
    <3> QED
      BY DEF Climbed, got
  <2> HIDE DEF got
  <2> QED
    BY <2>1, <2>2, TakenKept, Zenon
<1>2. ASSUME NEW v
      PROVE  Kept(ns, Again([ns EXCEPT ![v].ticket = IF @ = 0 THEN tk ELSE @]).ns)
  BY DEF Again, Kept, Sound, NodeFields
<1>3. try_get_path(ns, i, n, wr, tk) = TryWrite(ns, i, w, tk)
  BY DEF try_get_path
<1> HIDE DEF w, up, stop
<1> QED
  BY <1>1, <1>2, <1>3 DEF TryWrite

\* All the paths of a request, those given back included.
LEMMA TryKept ==
    ASSUME NEW ns, Sound(ns), NEW r, NEW tk
    PROVE  Kept(ns, TryLock(ns, r, tk).ns)
<1>1. CASE r.op \notin TwoPathOps
  <2>1. TryLock(ns, r, tk).ns = try_get_path(ns, r.ino, r.name, Writes(r), tk).ns
    BY <1>1 DEF TryLock, OnePath
  <2> QED
    BY <2>1, TryOneKept
<1>2. CASE r.op \in TwoPathOps
  <2>1. PICK a : a = try_get_path(ns, r.ino, r.name, Exclusive(r), tk)
    OBVIOUS
  <2>2. Kept(ns, a.ns) /\ Sound(a.ns)
    BY <2>1, TryOneKept, KeptSound
  <2>3. PICK b : b = try_get_path(a.ns, r.ino2, r.name2, Exclusive(r), tk)
    OBVIOUS
  <2>4. Kept(a.ns, b.ns) /\ Kept(ns, b.ns) /\ Sound(b.ns)
    <3>1. Kept(a.ns, b.ns)
      BY <2>2, <2>3, TryOneKept
    <3> QED
      BY <2>2, <3>1, KeptTwice
  <2>5. Kept(ns, unlock_path(b.ns, r.ino, a.wnode, tk))
    <3>1. Kept(b.ns, unlock_path(b.ns, r.ino, a.wnode, tk))
      BY <2>4, UnlockKept
    <3> QED
      BY <2>4, <3>1, KeptTwice
  <2>6. TryLock(ns, r, tk) = OneTried(a, r, tk)
    BY <1>2, <2>1 DEF TryLock, try_get_path2
  <2>7. TryLock(ns, r, tk).ns \in {a.ns, b.ns, unlock_path(b.ns, r.ino, a.wnode, tk)}
    <3>0. PICK z, u : z = TryLock(ns, r, tk) /\ u = unlock_path(b.ns, r.ino, a.wnode, tk)
      OBVIOUS
    <3>1. CASE a.err # ""
      <4>1. z = [err |-> a.err, ns |-> a.ns, wnode |-> 0, wnode2 |-> 0]
        BY <2>6, <3>0, <3>1, Zenon DEF OneTried
      <4>2. z.ns = a.ns
        BY <4>1
      <4> QED
        BY <3>0, <4>2, Zenon
    <3>2. CASE a.err = ""
      <4>1. z = BothTried(a, b, r, tk)
        BY <2>3, <2>6, <3>0, <3>2, Zenon DEF OneTried
      <4>2. \/ z = [err |-> "", ns |-> b.ns, wnode |-> a.wnode, wnode2 |-> b.wnode]
            \/ z = [err |-> b.err, ns |-> u, wnode |-> 0, wnode2 |-> 0]
        BY <3>0, <4>1, Zenon DEF BothTried
      <4>3. ASSUME NEW e, NEW m, NEW v, NEW w, z = [err |-> e, ns |-> m, wnode |-> v, wnode2 |-> w]
            PROVE  z.ns = m
        BY <4>3
      <4> QED
        BY <3>0, <4>2, <4>3, Zenon
    <3> QED
      BY <3>1, <3>2
  <2> QED
    BY <2>2, <2>4, <2>5, <2>7, Zenon
<1> QED
  BY <1>1, <1>2

\* free_path and free_path2.
LEMMA UnlockAllKept ==
    ASSUME NEW ns, Sound(ns), NEW r
    PROVE  Kept(ns, UnlockAll(ns, r))
<1>1. PICK one : one = unlock_path(ns, r.ino, r.wnode, 0)
  OBVIOUS
<1>2. Kept(ns, one) /\ Sound(one)
  BY <1>1, UnlockKept, KeptSound
<1>3. Kept(ns, unlock_path(one, r.ino2, r.wnode2, 0))
  <2>1. Kept(one, unlock_path(one, r.ino2, r.wnode2, 0))
    BY <1>2, UnlockKept
  <2> QED
    BY <1>2, <2>1, KeptTwice
<1> QED
  BY <1>1, <1>2, <1>3 DEF UnlockAll

\* No node has locks.
Bare(ns) == Sound(ns) /\ \A i \in Ids : ns[i].locks = <<>>

\* The tree lock gives no node locks.
LEMMA KeptBare ==
    ASSUME NEW ns, NEW ms, Bare(ns), Kept(ns, ms)
    PROVE  Bare(ms)
BY DEF Bare, Kept, Sound

\* Neither has a new node, nor none.
LEMMA NewNodeFields ==
    /\ NodeFields(NoNode) /\ NoNode.locks = <<>>
    /\ \A p, n : NodeFields(NewNode(p, n)) /\ NewNode(p, n).locks = <<>>
BY DEF NoNode, NewNode, NodeFields

\* A node without locks in the place of another.
LEMMA PutBare ==
    ASSUME NEW ns, Bare(ns), NEW i, NEW m, NodeFields(m), m.locks = <<>>
    PROVE  Bare([ns EXCEPT ![i] = m])
BY DEF Bare, Sound

\* unref_node, whether it deletes the node or not.
LEMMA UnrefBare ==
    ASSUME NEW ns, Bare(ns), NEW i
    PROVE  Bare(unref_node(ns, i))
<1>1. Bare([ns EXCEPT ![i] = NoNode])
  BY PutBare, NewNodeFields
<1>2. Bare([ns EXCEPT ![i].refctr = @ - 1])
  BY DEF Bare, Sound, NodeFields
<1> QED
  BY <1>1, <1>2 DEF unref_node

\* unhash_name, with the reference on the parent.
LEMMA UnhashBare ==
    ASSUME NEW ns, Bare(ns), NEW i
    PROVE  Bare(unhash_name(ns, i))
<1>1. Bare([ns EXCEPT ![i].name = Null, ![i].parent = 0])
  BY DEF Bare, Sound, NodeFields
<1> QED
  BY <1>1, UnrefBare DEF unhash_name

\* hash_name.
LEMMA HashBare ==
    ASSUME NEW ns, Bare(ns), NEW i, NEW p, NEW n
    PROVE  Bare(hash_name(ns, i, p, n))
BY DEF Bare, Sound, NodeFields, hash_name

\* rename_node and remove_node.
LEMMA RenameBare ==
    ASSUME NEW ns, Bare(ns), NEW d, NEW n, NEW e, NEW m
    PROVE  Bare(rename_node(ns, d, n, e, m)) /\ Bare(remove_node(ns, d, n))
<1>1. PICK i, j : i = lookup_node(ns, d, n) /\ j = lookup_node(ns, e, m)
  OBVIOUS
<1>2. PICK fr : fr = remove_node(ns, e, m)
  OBVIOUS
<1>3. Bare(fr)
  BY <1>2, UnhashBare DEF remove_node
<1>4. Bare(hash_name(unhash_name(fr, i), i, e, m))
  BY <1>3, UnhashBare, HashBare
<1>5. Bare(rename_node(ns, d, n, e, m))
  BY <1>1, <1>2, <1>4 DEF rename_node
<1>6. Bare(remove_node(ns, d, n))
  BY UnhashBare DEF remove_node
<1> QED
  BY <1>5, <1>6

\* The mark of a hidden file.
LEMMA MarkBare ==
    ASSUME NEW ns, Bare(ns), NEW i
    PROVE  Bare(Mark(ns, i))
BY DEF Bare, Sound, NodeFields, Mark

\* forget_node.
LEMMA ForgetBare ==
    ASSUME NEW ns, Bare(ns), NEW r
    PROVE  Bare(ForgetDone(ns, r))
<1>1. Bare([ns EXCEPT ![r.entry].nlookup = @ - r.n]) /\ Bare([ns EXCEPT ![r.entry].nlookup = 0])
  BY DEF Bare, Sound, NodeFields
<1> QED
  BY <1>1, UnhashBare, UnrefBare DEF ForgetDone

----------------------------------------------------------------------------
\* A step of thread t, to p with request r, that is not about locks.
Quiet(p0, r0, p, r) ==
    /\ LockReq(p, r) => LockReq(p0, r0) /\ r.lock = r0.lock
    /\ Pending(p, r) <=> Pending(p0, r0)

Goes(t, p, r) ==
    /\ pc' = [pc EXCEPT ![t] = p] /\ req' = [req EXCEPT ![t] = r] /\ case' = case
    /\ Stage(p, r, case) /\ LockStage(p, r, case)

\* The threads after such a step, if no lock request comes from nowhere.
LEMMA ThreadMoves ==
    ASSUME NEW t \in Threads, NEW p, NEW r, Threading, Goes(t, p, r),
           LockReq(p, r) => LockReq(pc[t], req[t]) /\ r.lock = req[t].lock
    PROVE  Threading'
<1>0. DOMAIN pc = Threads /\ DOMAIN req = Threads
  BY DEF Threading
<1>1. /\ pc' = [u \in Threads |-> pc'[u]] /\ req' = [u \in Threads |-> req'[u]] /\ pc'[t] = p /\ req'[t] = r
      /\ \A u \in Threads : u # t => pc'[u] = pc[u] /\ req'[u] = req[u]
  BY <1>0 DEF Goes
<1>2. \A u \in Threads : Stage(pc'[u], req'[u], case) /\ LockStage(pc'[u], req'[u], case)
  BY <1>1 DEF Threading, Goes
<1>3. ASSUME NEW u \in Threads, NEW v \in Threads, u # v, LockReq(pc'[u], req'[u]), LockReq(pc'[v], req'[v])
      PROVE  req'[u].lock.owner # req'[v].lock.owner
  <2>1. LockReq(pc[u], req[u]) /\ req'[u].lock = req[u].lock
    BY <1>1, <1>3
  <2>2. LockReq(pc[v], req[v]) /\ req'[v].lock = req[v].lock
    BY <1>1, <1>3
  <2> QED
    BY <1>3, <2>1, <2>2 DEF Threading
<1> QED
  BY <1>1, <1>2, <1>3 DEF Threading, Goes

\* The invariant after such a step.
LEMMA LocksStep ==
    ASSUME NEW t \in Threads, NEW p, NEW r, LInv, Goes(t, p, r), Threading',
           Pending(p, r) <=> Pending(pc[t], req[t]), Pending(p, r) => r.lock = req[t].lock,
           fslocks' = fslocks, unlisted' = unlisted, Listing(nodes', case),
           case.opened \in Ids => nodes'[case.opened].locks = nodes[case.opened].locks
    PROVE  LInv'
<1>1. /\ pc'[t] = p /\ req'[t] = r
      /\ \A u \in Threads : u # t => pc'[u] = pc[u] /\ req'[u] = req[u]
  <2>1. DOMAIN pc = Threads /\ DOMAIN req = Threads
    BY DEF LInv, Threading
  <2> QED
    BY <2>1 DEF Goes
<1>2. Threading'
  OBVIOUS
<1>3. Listing(nodes', case') /\ FsListing'
  BY DEF LInv, FsListing, Goes
<1>4. \A u \in Threads :
        /\ Pending(pc'[u], req'[u]) <=> Pending(pc[u], req[u])
        /\ Pending(pc'[u], req'[u]) => req'[u].lock = req[u].lock
  BY <1>1
<1>5. \A u \in Threads : req'[u].lock = req[u].lock => LockOf(req'[u]) = LockOf(req[u])
  BY DEF LockOf, flock_to_lock
<1>6. \A o, b, ty : FsHas(o, b, ty)' = FsHas(o, b, ty)
  BY DEF FsHas, Goes
<1>7. case.opened \in Ids => \A o, b, ty : Listed(o, b, ty)' = Listed(o, b, ty)
  BY DEF Listed, Goes
<1>8. Agree'
  <2> SUFFICES ASSUME case.opened \in Ids, NEW o \in Nat, NEW b \in 0 .. OffsetMax, NEW ty \in LockTypes
               PROVE
        /\ /\ o \notin unlisted
           /\ \A u \in Threads : Pending(pc'[u], req'[u]) => req'[u].lock.owner # o
           => (FsHas(o, b, ty)' <=> Listed(o, b, ty)')
        /\ \A u \in Threads : Pending(pc'[u], req'[u]) /\ req'[u].lock.owner = o /\ o \notin unlisted =>
              (FsHas(o, b, ty)' <=> Should(LockOf(req'[u]), o, b, ty, Listed(o, b, ty)'))
    BY DEF Agree, Goes
  <2>1. (FsHas(o, b, ty)' = FsHas(o, b, ty)) /\ (Listed(o, b, ty)' = Listed(o, b, ty))
    BY <1>6, <1>7
  <2>2. /\ /\ o \notin unlisted
           /\ \A u \in Threads : Pending(pc[u], req[u]) => req[u].lock.owner # o
           => (FsHas(o, b, ty) <=> Listed(o, b, ty))
        /\ \A u \in Threads : Pending(pc[u], req[u]) /\ req[u].lock.owner = o /\ o \notin unlisted =>
              (FsHas(o, b, ty) <=> Should(LockOf(req[u]), o, b, ty, Listed(o, b, ty)))
    BY DEF LInv, Agree
  <2>3. ASSUME o \notin unlisted, \A u \in Threads : Pending(pc'[u], req'[u]) => req'[u].lock.owner # o
        PROVE  FsHas(o, b, ty)' <=> Listed(o, b, ty)'
    BY <1>4, <2>1, <2>2, <2>3
  <2>4. ASSUME NEW u \in Threads, Pending(pc'[u], req'[u]), req'[u].lock.owner = o
        PROVE  o \notin unlisted => (FsHas(o, b, ty)' <=> Should(LockOf(req'[u]), o, b, ty, Listed(o, b, ty)'))
    <3>1. Pending(pc[u], req[u]) /\ req[u].lock.owner = o /\ LockOf(req'[u]) = LockOf(req[u])
      BY <1>4, <1>5, <2>4
    <3> QED
      BY <2>1, <2>2, <3>1
  <2> QED
    BY <2>3, <2>4
<1> QED
  BY <1>2, <1>3, <1>8 DEF LInv

\* The same, from what the step leaves alone.
LEMMA QuietStep ==
    ASSUME NEW t \in Threads, NEW p, NEW r, LInv, Goes(t, p, r), Quiet(pc[t], req[t], p, r),
           fslocks' = fslocks, unlisted' = unlisted, Listing(nodes', case),
           case.opened \in Ids => nodes'[case.opened].locks = nodes[case.opened].locks
    PROVE  LInv'
<1>1. Threading'
  BY ThreadMoves DEF LInv, Quiet
<1>2. Pending(p, r) => r.lock = req[t].lock
  BY DEF Quiet, Pending
<1> QED
  BY <1>1, <1>2, LocksStep DEF Quiet

\* The same when the tree lock is all that changes of the nodes, and when
\* there are no locks at all.
LEMMA ListingKept ==
    ASSUME Listing(nodes, case), NEW ms, Kept(nodes, ms)
    PROVE  /\ Listing(ms, case) /\ Sound(nodes)
           /\ case.opened \in Ids => ms[case.opened].locks = nodes[case.opened].locks
BY DEF Listing, Kept, Sound

\* The table of the invariant is a table of nodes.
LEMMA ListingSound ==
    ASSUME Listing(nodes, case)
    PROVE  Sound(nodes) /\ Kept(nodes, nodes)
BY DEF Listing, Sound, Kept

\* No file open at the start: no locks.
LEMMA ListingBare ==
    ASSUME Listing(nodes, case), case.opened \notin Ids
    PROVE  Bare(nodes) /\ \A ms : Bare(ms) => Listing(ms, case)
BY DEF Listing, Bare, Sound

\* A quiet step that leaves the locks and the references of the nodes.
LEMMA KeptStep ==
    ASSUME NEW t \in Threads, NEW p, NEW r, LInv, Goes(t, p, r), Quiet(pc[t], req[t], p, r),
           fslocks' = fslocks, unlisted' = unlisted, Kept(nodes, nodes')
    PROVE  LInv'
BY QuietStep, ListingKept DEF LInv

\* A quiet step on names, in a case where no file has locks.
LEMMA BareStep ==
    ASSUME NEW t \in Threads, NEW p, NEW r, LInv, Goes(t, p, r), Quiet(pc[t], req[t], p, r),
           fslocks' = fslocks, unlisted' = unlisted, case.opened \notin Ids, Bare(nodes')
    PROVE  LInv'
BY QuietStep, ListingBare DEF LInv

----------------------------------------------------------------------------
\* The steps.  What the invariant says of thread t.
LEMMA ThreadFacts ==
    ASSUME NEW t \in Threads, LInv
    PROVE  /\ Stage(pc[t], req[t], case) /\ LockStage(pc[t], req[t], case) /\ Fields(req[t])
           /\ case \in Cases /\ DOMAIN pc = Threads /\ DOMAIN req = Threads
           /\ req = [req EXCEPT ![t] = req[t]]
           /\ Sound(nodes) /\ Kept(nodes, nodes)
<1>1. pc = [u \in Threads |-> pc[u]] /\ req = [u \in Threads |-> req[u]] /\ case \in Cases
  BY DEF LInv, Threading
<1>2. DOMAIN pc = Threads /\ DOMAIN req = Threads /\ req = [req EXCEPT ![t] = req[t]]
  BY <1>1
<1>3. Stage(pc[t], req[t], case) /\ LockStage(pc[t], req[t], case) /\ Fields(req[t])
  BY DEF LInv, Threading, Stage
<1>4. Sound(nodes) /\ Kept(nodes, nodes)
  BY ListingSound DEF LInv
<1> QED
  BY <1>1, <1>2, <1>3, <1>4

\* Requests about names are not made while a file with locks is looked at.
LEMMA NoNames ==
    ASSUME case \in Cases, NEW op \in case.sent, fuse_path_ops[op] \in NameShapes
    PROVE  case.opened \notin Ids
<1>1. case.opened = 0
  BY TreeAssumption
<1> QED
  BY <1>1 DEF Ids

\* A request that is the same in what the invariant speaks of.
Like(r0, r) ==
    /\ Fields(r) /\ r.op = r0.op /\ r.ino = r0.ino /\ r.n = r0.n /\ r.lock = r0.lock
    /\ r.killed = r0.killed /\ r.done = r0.done

\* Such requests are at the same stage.
LEMMA LikeFacts ==
    ASSUME NEW r0, NEW r, Fields(r0), Like(r0, r)
    PROVE  /\ Shape(r) = Shape(r0) /\ LockOf(r) = LockOf(r0)
           /\ \A p, c : (Stage(p, r0, c) => Stage(p, r, c)) /\ (LockStage(p, r0, c) => LockStage(p, r, c))
           /\ \A p : (LockReq(p, r) <=> LockReq(p, r0)) /\ (Pending(p, r) <=> Pending(p, r0))
<1>1. Shape(r) = Shape(r0) /\ LockOf(r) = LockOf(r0)
  BY DEF Like, Shape, LockOf, flock_to_lock
<1>2. \A p : (LockReq(p, r) <=> LockReq(p, r0)) /\ (Pending(p, r) <=> Pending(p, r0))
  BY DEF Like, LockReq, Pending
<1>3. \A p, c : Stage(p, r0, c) => Stage(p, r, c)
  BY <1>1 DEF Like, Stage
<1>4. \A p, c : LockStage(p, r0, c) => LockStage(p, r, c)
  BY <1>1, <1>2 DEF Like, LockStage
<1> QED
  BY <1>1, <1>2, <1>3, <1>4

\* The requests that differ in the paths, the entry or the name only.
LEMMA LikeForms ==
    ASSUME NEW r, Fields(r), NEW a, NEW b, NEW c, NEW d, NEW e
    PROVE  /\ Like(r, r) /\ Like(r, [r EXCEPT !.ticket = a]) /\ Like(r, [r EXCEPT !.held = a])
           /\ Like(r, [r EXCEPT !.wnode = a, !.wnode2 = b, !.held = c, !.ticket = d, !.path = e])
           /\ Like(r, [r EXCEPT !.hide = a]) /\ Like(r, [r EXCEPT !.entry = a])
<1>1. Like(r, r) /\ Like(r, [r EXCEPT !.ticket = a]) /\ Like(r, [r EXCEPT !.held = a])
  BY DEF Like, Fields
<1>2. Like(r, [r EXCEPT !.hide = a]) /\ Like(r, [r EXCEPT !.entry = a])
  BY DEF Like, Fields
<1>3. Like(r, [r EXCEPT !.wnode = a, !.wnode2 = b, !.held = c, !.ticket = d, !.path = e])
  BY DEF Like, Fields
<1> QED
  BY <1>1, <1>2, <1>3

\* The request of an idle thread.
LEMMA NoReqFacts ==
    /\ Fields(NoReq) /\ NoReq.lock = NoLock /\ ~LockReq("idle", NoReq) /\ ~Pending("idle", NoReq)
    /\ \A c : Stage("idle", NoReq, c) /\ LockStage("idle", NoReq, c)
<1>1. Fields(NoReq) /\ NoReq.lock = NoLock
  BY DEF Fields, NoReq
<1>2. ~LockReq("idle", NoReq) /\ ~Pending("idle", NoReq)
  BY DEF LockReq, Pending
<1>3. \A c : Stage("idle", NoReq, c) /\ LockStage("idle", NoReq, c)
  BY <1>1, <1>2 DEF Stage, LockStage
<1> QED
  BY <1>1, <1>2, <1>3

\* A thread that is done with a request which is not pending.
LEMMA IdleStep ==
    ASSUME NEW t \in Threads, LInv, pc' = [pc EXCEPT ![t] = "idle"], req' = [req EXCEPT ![t] = NoReq],
           UNCHANGED <<case, fslocks, unlisted>>, ~Pending(pc[t], req[t]), Kept(nodes, nodes')
    PROVE  LInv'
<1>1. Goes(t, "idle", NoReq)
  BY NoReqFacts DEF Goes
<1>2. Quiet(pc[t], req[t], "idle", NoReq)
  BY NoReqFacts DEF Quiet
<1> QED
  BY <1>1, <1>2, KeptStep

\* A thread that goes on to p with a request like its own.
LEMMA OnStep ==
    ASSUME NEW t \in Threads, NEW p, NEW r, LInv, Like(req[t], r),
           pc' = [pc EXCEPT ![t] = p], req' = [req EXCEPT ![t] = r],
           UNCHANGED <<case, fslocks, unlisted>>, Kept(nodes, nodes'),
           Stage(p, req[t], case), LockStage(p, req[t], case), pc[t] # "idle",
           Pending(p, req[t]) <=> Pending(pc[t], req[t])
    PROVE  LInv'
<1>0. Fields(req[t])
  BY ThreadFacts
<1>1. Goes(t, p, r)
  BY <1>0, LikeFacts DEF Goes
<1>2. Quiet(pc[t], req[t], p, r)
  BY <1>0, LikeFacts DEF Quiet, LockReq, Like
<1> QED
  BY <1>1, <1>2, KeptStep

\* Where a thread can go from anywhere.
Early == {"getlk", "start", "wait", "locked"}
Plain == Early \cup {"free", "aborted"}

\* A thread that goes on there keeps what the invariant says of it.
LEMMA PlainStage ==
    ASSUME NEW p0, NEW p \in Plain, NEW r, NEW c, Stage(p0, r, c), LockStage(p0, r, c), p0 # "idle",
           p \in Early => p0 \in Early
    PROVE  Stage(p, r, c) /\ LockStage(p, r, c) /\ p # "idle"
<1>1. p # "idle"
  BY DEF Plain, Early
<1>2. Stage(p, r, c)
  BY DEF Stage, Plain, Early
<1>3. LockStage(p, r, c)
  BY <1>1 DEF LockStage, LockReq, Early
<1> QED
  BY <1>1, <1>2, <1>3

\* A thread that aborts had not changed the locks of the file system.
LEMMA AbortStep ==
    ASSUME NEW t \in Threads, LInv, NEW why, Abort(t, why), UNCHANGED <<case, fslocks, unlisted>>,
           pc[t] # "idle", ~Pending(pc[t], req[t])
    PROVE  LInv'
<1>0. /\ Stage(pc[t], req[t], case) /\ LockStage(pc[t], req[t], case) /\ Fields(req[t])
      /\ req = [req EXCEPT ![t] = req[t]] /\ Kept(nodes, nodes)
  BY ThreadFacts
<1>1. pc' = [pc EXCEPT ![t] = "aborted"] /\ req' = [req EXCEPT ![t] = req[t]] /\ nodes' = nodes
  BY <1>0 DEF Abort
<1>2. Stage("aborted", req[t], case) /\ LockStage("aborted", req[t], case)
  BY <1>0, PlainStage DEF Plain, Early
<1>3. ~Pending("aborted", req[t])
  BY DEF Pending
<1>4. Like(req[t], req[t])
  BY <1>0, LikeForms
<1> QED
  BY <1>0, <1>1, <1>2, <1>3, <1>4, OnStep

\* An attempt to lock the paths of a request, however it ends.
LEMMA AttemptStep ==
    ASSUME NEW t \in Threads, LInv, NEW tk, Attempt(t, tk), UNCHANGED <<case, fslocks, unlisted>>,
           pc[t] \in {"start", "wait"}
    PROVE  LInv'
<1>0. /\ Stage(pc[t], req[t], case) /\ LockStage(pc[t], req[t], case) /\ Fields(req[t])
      /\ DOMAIN req = Threads /\ DOMAIN pc = Threads /\ Sound(nodes)
  BY ThreadFacts
<1>1. PICK a : /\ a = TryLock(nodes, req[t], tk) /\ nodes' = a.ns
               /\ IF a.err = "EAGAIN"
                  THEN pc' = [pc EXCEPT ![t] = "wait"] /\ req' = [req EXCEPT ![t].ticket = tk]
                  ELSE Granted(t, a, tk)
  BY DEF Attempt
<1>2. Kept(nodes, nodes')
  BY <1>0, <1>1, TryKept
<1>3. ~Pending(pc[t], req[t]) /\ pc[t] # "idle" /\ pc[t] \in Early
  BY DEF Pending, Early
<1>4. \A p \in {"wait", "locked"} :
        Stage(p, req[t], case) /\ LockStage(p, req[t], case) /\ ~Pending(p, req[t])
  <2>1. \A p \in {"wait", "locked"} : Stage(p, req[t], case) /\ LockStage(p, req[t], case)
    BY <1>0, <1>3, PlainStage DEF Plain, Early
  <2> QED
    BY <2>1 DEF Pending
<1>5. CASE a.err = "EAGAIN"
  <2>1. pc' = [pc EXCEPT ![t] = "wait"] /\ req' = [req EXCEPT ![t] = [req[t] EXCEPT !.ticket = tk]]
    BY <1>0, <1>1, <1>5
  <2>2. Like(req[t], [req[t] EXCEPT !.ticket = tk])
    BY <1>0, LikeForms
  <2> QED
    BY <1>2, <1>3, <1>4, <2>1, <2>2, OnStep
<1>6. CASE a.err = ""
  <2> DEFINE r == [req[t] EXCEPT !.wnode = a.wnode, !.wnode2 = a.wnode2, !.held = TRUE,
                                 !.ticket = tk, !.path = PathOf2(nodes, req[t])]
  <2>1. pc' = [pc EXCEPT ![t] = "locked"] /\ req' = [req EXCEPT ![t] = r]
    BY <1>0, <1>1, <1>6 DEF Granted
  <2>2. Like(req[t], r)
    BY <1>0, LikeForms
  <2> HIDE DEF r
  <2> QED
    BY <1>2, <1>3, <1>4, <2>1, <2>2, OnStep
<1>7. CASE a.err \notin {"EAGAIN", ""} /\ PathErr(req[t])
  <2>1. pc' = [pc EXCEPT ![t] = "locked"] /\ req' = [req EXCEPT ![t] = req[t]]
    BY <1>0, <1>1, <1>7 DEF Granted
  <2>2. Like(req[t], req[t])
    BY <1>0, LikeForms
  <2> QED
    BY <1>2, <1>3, <1>4, <2>1, <2>2, OnStep
<1>8. CASE a.err \notin {"EAGAIN", ""} /\ ~PathErr(req[t])
  <2>1. pc' = [pc EXCEPT ![t] = "idle"] /\ req' = [req EXCEPT ![t] = NoReq]
    BY <1>1, <1>8 DEF Granted
  <2> QED
    BY <1>2, <1>3, <2>1, IdleStep
<1> QED
  BY <1>5, <1>6, <1>7, <1>8

\* get_path_common, and the attempts after a wait.
LEMMA PathStep ==
    ASSUME NEW t \in Threads, LInv, get_path_common(t) \/ get_path_retry(t)
    PROVE  LInv'
<1>1. UNCHANGED <<case, fslocks, unlisted>> /\ pc[t] \in {"start", "wait"}
  BY DEF get_path_common, get_path_retry, kvars, lvars
<1>2. (\E tk : Attempt(t, tk)) \/ Abort(t, "get_node")
  BY DEF get_path_common, get_path_retry
<1>3. ~Pending(pc[t], req[t]) /\ pc[t] # "idle"
  BY <1>1 DEF Pending
<1> QED
  BY <1>1, <1>2, <1>3, AttemptStep, AbortStep

\* free_path: a setlk that the file system granted stays pending.
LEMMA FreeStep ==
    ASSUME NEW t \in Threads, LInv, free_path(t)
    PROVE  LInv'
<1>0. /\ Stage(pc[t], req[t], case) /\ LockStage(pc[t], req[t], case) /\ Fields(req[t])
      /\ DOMAIN req = Threads /\ DOMAIN pc = Threads /\ Sound(nodes) /\ Kept(nodes, nodes)
  BY ThreadFacts
<1>1. UNCHANGED <<case, fslocks, unlisted>>
  BY DEF free_path, kvars, lvars
<1>2. pc[t] = "free" \/ (pc[t] = "locked" /\ Shape(req[t]) \in {"path", "nullok", "always"})
  BY DEF free_path
<1>3. Kept(nodes, nodes')
  <2>1. nodes' \in {nodes, UnlockAll(nodes, req[t])}
    BY DEF free_path
  <2> QED
    BY <1>0, <2>1, UnlockAllKept
<1>4. /\ pc' = [pc EXCEPT ![t] = AfterFree(req[t])]
      /\ req' = [req EXCEPT ![t] = IF AfterFree(req[t]) = "idle" THEN NoReq
                                   ELSE [req[t] EXCEPT !.held = FALSE]]
  BY <1>0 DEF free_path
<1>5. pc[t] # "idle"
  BY <1>2
<1>6. CASE AfterFree(req[t]) = "idle"
  <2>1. ~Pending(pc[t], req[t])
    BY <1>2, <1>6 DEF Pending, AfterFree
  <2> QED
    BY <1>1, <1>3, <1>4, <1>6, <2>1, IdleStep
<1>7. CASE AfterFree(req[t]) = "reply"
  <2>1. Shape(req[t]) \in {"entry", "link"}
    BY <1>7 DEF AfterFree
  <2>2. ~LockReq(pc[t], req[t]) /\ ~LockReq("reply", req[t])
    BY <1>0, <1>5, <2>1 DEF LockStage, LockReq
  <2>3. Stage("reply", req[t], case) /\ LockStage("reply", req[t], case)
    BY <1>0, <1>5, <2>1, <2>2 DEF Stage, LockStage
  <2>4. Pending("reply", req[t]) <=> Pending(pc[t], req[t])
    BY <2>2 DEF Pending
  <2>5. Like(req[t], [req[t] EXCEPT !.held = FALSE])
    BY <1>0, LikeForms
  <2>6. pc' = [pc EXCEPT ![t] = "reply"] /\ req' = [req EXCEPT ![t] = [req[t] EXCEPT !.held = FALSE]]
    BY <1>4, <1>7
  <2> QED
    BY <1>1, <1>3, <1>5, <2>3, <2>4, <2>5, <2>6, OnStep
<1>8. CASE AfterFree(req[t]) = "insert"
  <2>1. req[t].op = "setlk" /\ req[t].n = 1
    BY <1>8 DEF AfterFree
  <2>2. Shape(req[t]) = "lock"
    BY <2>1, ShapeOf DEF Shape
  <2>3. pc[t] = "free" /\ req[t].lock # NoLock
    BY <1>0, <1>2, <1>5, <2>2 DEF Stage
  <2>4. Stage("insert", req[t], case) /\ LockStage("insert", req[t], case)
    BY <1>0, <1>5, <2>1, <2>2, <2>3 DEF Stage, LockStage, LockReq
  <2>5. Pending("insert", req[t]) <=> Pending(pc[t], req[t])
    BY <2>1, <2>3 DEF Pending, LockReq
  <2>6. Like(req[t], [req[t] EXCEPT !.held = FALSE])
    BY <1>0, LikeForms
  <2>7. pc' = [pc EXCEPT ![t] = "insert"] /\ req' = [req EXCEPT ![t] = [req[t] EXCEPT !.held = FALSE]]
    BY <1>4, <1>8
  <2> QED
    BY <1>1, <1>3, <1>5, <2>4, <2>5, <2>6, <2>7, OnStep
<1> QED
  BY <1>6, <1>7, <1>8 DEF AfterFree

\* A thread whose request is not about locks, on to p with request r.
LEMMA LocklessStep ==
    ASSUME NEW t \in Threads, NEW p, NEW r, LInv, pc[t] # "idle", req[t].lock = NoLock,
           Fields(r), r.op = req[t].op, r.lock = NoLock,
           pc' = [pc EXCEPT ![t] = p], req' = [req EXCEPT ![t] = r],
           UNCHANGED <<case, fslocks, unlisted>>, Stage(p, r, case),
           Kept(nodes, nodes') \/ (case.opened \notin Ids /\ Bare(nodes'))
    PROVE  LInv'
<1>1. Goes(t, p, r)
  BY DEF Goes, LockStage, LockReq
<1>2. Quiet(pc[t], req[t], p, r)
  BY DEF Quiet, Pending, LockReq
<1> QED
  BY <1>1, <1>2, KeptStep, BareStep

\* A request of a shape that has no lock.
LEMMA Lockless ==
    ASSUME NEW t \in Threads, LInv, pc[t] # "idle", Shape(req[t]) \notin {"lock", "flush", "release"}
    PROVE  req[t].lock = NoLock
BY ThreadFacts DEF LockStage, LockReq

\* A request about names.
LEMMA Nameful ==
    ASSUME NEW t \in Threads, LInv, pc[t] # "idle", Shape(req[t]) \in NameShapes
    PROVE  /\ req[t].lock = NoLock /\ case.opened \notin Ids /\ Bare(nodes)
           /\ req[t].op \in case.sent
<1>1. req[t].lock = NoLock
  BY Lockless DEF NameShapes
<1>2. req[t].op \in case.sent /\ case \in Cases
  BY ThreadFacts DEF Stage
<1>3. case.opened \notin Ids
  BY <1>2, NoNames DEF Shape
<1> QED
  BY <1>1, <1>2, <1>3, ListingBare DEF LInv

\* lookup_path with find_node.
LEMMA LookupStep ==
    ASSUME NEW t \in Threads, LInv, lookup_path(t)
    PROVE  LInv'
<1>0. /\ Stage(pc[t], req[t], case) /\ Fields(req[t]) /\ DOMAIN req = Threads
      /\ req = [req EXCEPT ![t] = req[t]] /\ Kept(nodes, nodes)
  BY ThreadFacts
<1>1. UNCHANGED <<case, fslocks, unlisted>> /\ pc[t] = "locked" /\ Shape(req[t]) \in {"entry", "link", "create"}
  BY DEF lookup_path, lvars
<1>2. req[t].lock = NoLock /\ case.opened \notin Ids /\ Bare(nodes) /\ req[t].op \in case.sent
  BY <1>1, Nameful DEF NameShapes
<1>3. \/ find_node(t) /\ pc' = [pc EXCEPT ![t] = IF req[t].op = "create" THEN "found" ELSE "free"]
      \/ pc' = [pc EXCEPT ![t] = "free"] /\ UNCHANGED <<nodes, req>>
      \/ Abort(t, "get_node")
  BY DEF lookup_path
<1>4. CASE find_node(t) /\ pc' = [pc EXCEPT ![t] = IF req[t].op = "create" THEN "found" ELSE "free"]
  <2>1. PICK p, n, old, new, i :
          /\ req' = [req EXCEPT ![t].entry = i, ![t].n = 1]
          /\ \/ nodes' = [nodes EXCEPT ![old].nlookup = @ + 1]
             \/ nodes' = hash_name([nodes EXCEPT ![i] = [NewNode(0, Null) EXCEPT !.nlookup = 1]], i, p, n)
    BY <1>4, Zenon DEF find_node
  <2>2. Bare(nodes')
    <3>1. Bare([nodes EXCEPT ![old].nlookup = @ + 1])
      BY <1>2 DEF Bare, Sound, NodeFields
    <3>2. NodeFields([NewNode(0, Null) EXCEPT !.nlookup = 1]) /\ [NewNode(0, Null) EXCEPT !.nlookup = 1].locks = <<>>
      BY DEF NewNode, NodeFields
    <3>3. Bare([nodes EXCEPT ![i] = [NewNode(0, Null) EXCEPT !.nlookup = 1]])
      BY <1>2, <3>2, PutBare
    <3> QED
      BY <2>1, <3>1, <3>3, HashBare
  <2> DEFINE r == [req[t] EXCEPT !.entry = i, !.n = 1]
  <2>3. req' = [req EXCEPT ![t] = r]
    BY <1>0, <2>1
  <2>4. Fields(r) /\ r.op = req[t].op /\ r.lock = req[t].lock
    BY <1>0 DEF Fields
  <2> HIDE DEF r
  <2>5. Shape(r) = Shape(req[t])
    BY <2>4 DEF Shape
  <2>6. CASE req[t].op = "create"
    <3>1. Stage("found", r, case)
      BY <1>0, <1>1, <1>2, <2>4, <2>5, <2>6, ShapeOf DEF Stage, Shape
    <3> QED
      BY <1>1, <1>2, <1>4, <2>2, <2>3, <2>4, <2>6, <3>1, LocklessStep
  <2>7. CASE req[t].op # "create"
    <3>1. Stage("free", r, case)
      BY <1>0, <1>1, <1>2, <2>4, <2>5 DEF Stage
    <3> QED
      BY <1>1, <1>2, <1>4, <2>2, <2>3, <2>4, <2>7, <3>1, LocklessStep
  <2> QED
    BY <2>6, <2>7
<1>5. CASE pc' = [pc EXCEPT ![t] = "free"] /\ UNCHANGED <<nodes, req>>
  <2>1. Stage("free", req[t], case)
    BY <1>0, <1>1, <1>2 DEF Stage
  <2> QED
    BY <1>0, <1>1, <1>2, <1>5, <2>1, LocklessStep
<1>6. CASE Abort(t, "get_node")
  BY <1>1, <1>6, AbortStep DEF Pending
<1> QED
  BY <1>3, <1>4, <1>5, <1>6

\* reply_entry.
LEMMA ReplyStep ==
    ASSUME NEW t \in Threads, LInv, reply_entry(t)
    PROVE  LInv'
<1>0. /\ Stage(pc[t], req[t], case) /\ Fields(req[t]) /\ DOMAIN req = Threads
      /\ req = [req EXCEPT ![t] = req[t]] /\ Kept(nodes, nodes)
  BY ThreadFacts
<1>1. UNCHANGED <<case, fslocks, unlisted, nodes>> /\ pc[t] = "reply" /\ Shape(req[t]) \in {"entry", "link"}
  BY DEF reply_entry, lvars, fvars
<1>2. req[t].lock = NoLock
  BY <1>1, Lockless
<1>3. \/ pc' = [pc EXCEPT ![t] = "forget"] /\ req' = req
      \/ pc' = [pc EXCEPT ![t] = "idle"] /\ req' = [req EXCEPT ![t] = NoReq]
  BY DEF reply_entry
<1>4. Stage("forget", req[t], case)
  BY <1>0, <1>1, <1>2 DEF Stage
<1>5. ~Pending(pc[t], req[t])
  BY <1>1 DEF Pending
<1> QED
  BY <1>0, <1>1, <1>2, <1>3, <1>4, <1>5, LocklessStep, IdleStep

\* fuse_lib_open and fuse_lib_create.
LEMMA OpenStep ==
    ASSUME NEW t \in Threads, LInv, fuse_lib_open(t) \/ CreateNotRegular(t) \/ CountOpen(t) \/ reply_open(t)
    PROVE  LInv'
<1>0. /\ Stage(pc[t], req[t], case) /\ Fields(req[t]) /\ DOMAIN req = Threads
      /\ req = [req EXCEPT ![t] = req[t]] /\ Kept(nodes, nodes) /\ Sound(nodes)
  BY ThreadFacts
<1>1. UNCHANGED <<case, fslocks, unlisted>> /\ pc[t] # "idle"
  BY DEF fuse_lib_open, CreateNotRegular, CountOpen, reply_open, kvars, lvars
<1>2. Shape(req[t]) \in {"open", "create"}
  BY <1>0 DEF fuse_lib_open, CreateNotRegular, CountOpen, reply_open, Stage
<1>3. req[t].lock = NoLock
  BY <1>1, <1>2, Lockless
<1>4. Kept(nodes, nodes')
  <2>1. \A i : Kept(nodes, [nodes EXCEPT ![i].open = @ + 1])
    BY <1>0 DEF Kept, Sound, NodeFields
  <2>2. nodes' = nodes \/ nodes' = [nodes EXCEPT ![File(req[t])].open = @ + 1]
    BY DEF fuse_lib_open, CreateNotRegular, CountOpen, reply_open, fvars, Abort
  <2> QED
    BY <1>0, <2>1, <2>2
<1>5. \A p \in {"found", "opened", "free", "release"} : Stage(p, req[t], case)
  BY <1>0, <1>1, <1>2, <1>3 DEF Stage
<1>9. CASE Abort(t, "get_node") /\ CountOpen(t)
  BY <1>1, <1>9, AbortStep DEF Pending, CountOpen
<1>6. CASE \/ fuse_lib_open(t) \/ (CountOpen(t) /\ ~Abort(t, "get_node"))
           \/ (reply_open(t) /\ req[t].killed)
  <2>1. req' = req /\ \E p \in {"found", "opened", "free", "release"} : pc' = [pc EXCEPT ![t] = p]
    BY <1>6 DEF fuse_lib_open, CountOpen, reply_open
  <2> QED
    BY <1>0, <1>1, <1>3, <1>4, <1>5, <2>1, LocklessStep
<1>7. CASE CreateNotRegular(t)
  <2>1. req' = req /\ pc' = [pc EXCEPT ![t] = "forget"] /\ req[t].op = "create"
    BY <1>7 DEF CreateNotRegular
  <2>2. Stage("forget", req[t], case)
    BY <1>0, <1>1, <1>3, <2>1, ShapeOf DEF Stage, Shape
  <2> QED
    BY <1>0, <1>1, <1>3, <1>4, <2>1, <2>2, LocklessStep
<1>8. CASE reply_open(t) /\ ~req[t].killed
  <2> DEFINE r == [req[t] EXCEPT !.done = TRUE]
  <2>1. req' = [req EXCEPT ![t] = r] /\ pc' = [pc EXCEPT ![t] = "free"]
    BY <1>0, <1>8 DEF reply_open
  <2>2. Fields(r) /\ r.op = req[t].op /\ r.lock = req[t].lock
    BY <1>0 DEF Fields
  <2> HIDE DEF r
  <2>3. Stage("free", r, case)
    BY <1>5, <2>2 DEF Stage, Shape
  <2> QED
    BY <1>1, <1>3, <1>4, <2>1, <2>2, <2>3, LocklessStep
<1> QED
  BY <1>6, <1>7, <1>8, <1>9

\* fuse_do_release and the unlink of a hidden file.
LEMMA ReleaseStep ==
    ASSUME NEW t \in Threads, LInv, fuse_do_release(t) \/ UnlinkHidden(t)
    PROVE  LInv'
<1>0. /\ Stage(pc[t], req[t], case) /\ LockStage(pc[t], req[t], case) /\ Fields(req[t]) /\ DOMAIN req = Threads
      /\ req = [req EXCEPT ![t] = req[t]] /\ Kept(nodes, nodes) /\ Sound(nodes)
  BY ThreadFacts
<1>1. UNCHANGED <<case, fslocks, unlisted>> /\ pc[t] \in {"release", "locked", "unhide"}
  BY DEF fuse_do_release, UnlinkHidden, kvars, lvars
<1>2. ~Pending(pc[t], req[t]) /\ pc[t] # "idle"
  BY <1>1 DEF Pending
<1>3. CASE \E why : Abort(t, why)
  BY <1>1, <1>2, <1>3, AbortStep
<1>4. CASE ~(\E why : Abort(t, why))
  <2>1. Kept(nodes, nodes')
    <3>1. \A i, v, w : Kept(nodes, [nodes EXCEPT ![i].open = v, ![i].hidden = w])
      BY <1>0 DEF Kept, Sound, NodeFields
    <3>2. nodes' = nodes \/ \E i, v, w : nodes' = [nodes EXCEPT ![i].open = v, ![i].hidden = w]
      BY <1>4 DEF fuse_do_release, UnlinkHidden, fvars
    <3> QED
      <4>1. CASE nodes' = nodes
        BY <1>0, <4>1
      <4>2. CASE \E i, v, w : nodes' = [nodes EXCEPT ![i].open = v, ![i].hidden = w]
        <5>1. PICK i, v, w : nodes' = [nodes EXCEPT ![i].open = v, ![i].hidden = w]
          BY <4>2
        <5>2. Kept(nodes, [nodes EXCEPT ![i].open = v, ![i].hidden = w])
          BY <3>1, Zenon
        <5> QED
          BY <5>1, <5>2
      <4> QED
        BY <3>2, <4>1, <4>2
  <2>2. req' = req /\ \E p \in {"unhide", AfterRelease(req[t])} : pc' = [pc EXCEPT ![t] = p]
    BY <1>4 DEF fuse_do_release, UnlinkHidden
  <2>0. Shape(req[t]) \in {"open", "create", "release"}
    BY <1>0 DEF fuse_do_release, UnlinkHidden, Stage
  <2>3. \A p \in {"unhide", "free"} :
          Stage(p, req[t], case) /\ LockStage(p, req[t], case)
    BY <1>0, <1>2, <2>0 DEF Stage, LockStage, LockReq
  <2>4. Like(req[t], req[t])
    BY <1>0, LikeForms
  <2>5. CASE req[t].op # "create"
    <3>1. \E p \in {"unhide", "free"} : pc' = [pc EXCEPT ![t] = p]
      BY <2>2, <2>5 DEF AfterRelease
    <3>2. ~Pending("unhide", req[t])
      BY DEF Pending
    <3>3. ~Pending("free", req[t])
      <4> SUFFICES ASSUME Pending("free", req[t]) PROVE FALSE
        OBVIOUS
      <4>1. req[t].op = "setlk" /\ req[t].lock # NoLock /\ req[t].n = 1
        BY DEF Pending, LockReq
      <4>2. Shape(req[t]) = "lock"
        BY <4>1, ShapeOf DEF Shape
      <4> QED
        BY <2>0, <4>2
    <3> QED
      BY <1>0, <1>1, <1>2, <2>1, <2>2, <2>3, <2>4, <3>1, <3>2, <3>3, OnStep
  <2>6. CASE req[t].op = "create"
    <3>1. Shape(req[t]) = "create"
      BY <2>6, ShapeOf DEF Shape
    <3>2. req[t].lock = NoLock
      BY <1>2, <3>1, Lockless
    <3>3. Stage("forget", req[t], case)
      BY <1>0, <1>2, <3>1, <3>2 DEF Stage
    <3>4. \E p \in {"unhide", "forget"} : pc' = [pc EXCEPT ![t] = p]
      BY <2>2, <2>6 DEF AfterRelease
    <3> QED
      BY <1>0, <1>1, <1>2, <2>1, <2>2, <2>3, <3>2, <3>3, <3>4, LocklessStep
  <2> QED
    BY <2>5, <2>6
<1> QED
  BY <1>3, <1>4
\* The handlers that flush.
LEMMA FlushOp ==
    ASSUME NEW op \in DOMAIN fuse_path_ops, fuse_path_ops[op] = "flush"
    PROVE  op = "flush"
<1> DEFINE T == {fuse_lib_name, fuse_lib_attr, fuse_lib_make, fuse_lib_file, fuse_lib_dir,
                 fuse_lib_xattr, fuse_lib_lock, fuse_lib_misc}
<1>1. fuse_path_ops = [o \in UNION {DOMAIN f : f \in T} |-> (CHOOSE f \in T : o \in DOMAIN f)[o]]
  BY DEF fuse_path_ops
<1>2. PICK f \in T : op \in DOMAIN f /\ f[op] = "flush"
  <2> HIDE DEF T
  <2>1. op \in UNION {DOMAIN g : g \in T}
    BY <1>1
  <2>2. \E g \in T : op \in DOMAIN g
    BY <2>1
  <2> QED
    BY <1>1, <2>1, <2>2
<1>3. \A g \in {fuse_lib_attr, fuse_lib_make, fuse_lib_file, fuse_lib_dir, fuse_lib_xattr, fuse_lib_misc} :
        \A o \in DOMAIN g : g[o] # "flush"
  BY DEF fuse_lib_attr, fuse_lib_make, fuse_lib_file, fuse_lib_dir, fuse_lib_xattr, fuse_lib_misc
<1>4. \A o \in DOMAIN fuse_lib_name : fuse_lib_name[o] # "flush"
  BY DEF fuse_lib_name
<1>5. \A o \in DOMAIN fuse_lib_lock : fuse_lib_lock[o] = "flush" => o = "flush"
  BY DEF fuse_lib_lock
<1> QED
  BY <1>2, <1>3, <1>4, <1>5

\* Where a thread goes that has flushed.
LEMMA AfterFlushStage ==
    ASSUME NEW t \in Threads, LInv, pc[t] \in {"locked", "insert"}, req[t].op # "setlk",
           Shape(req[t]) \in {"flush", "release"}, NEW p, p = AfterFlush(req[t])
    PROVE  Stage(p, req[t], case) /\ LockStage(p, req[t], case) /\ p \in {"free", "release"}
<1>0. /\ Stage(pc[t], req[t], case) /\ LockStage(pc[t], req[t], case)
      /\ case \in Cases
  BY ThreadFacts
<1>1. req[t].op \in case.sent /\ case.sent \subseteq DOMAIN fuse_path_ops
  BY <1>0, TreeAssumption DEF Stage
<1>2. p \in {"free", "release"} /\ (p = "release" => req[t].op # "flush")
  BY DEF AfterFlush
<1>3. p = "release" => Shape(req[t]) = "release"
  BY <1>1, <1>2, FlushOp DEF Shape
<1>4. Stage(p, req[t], case) /\ LockStage(p, req[t], case)
  BY <1>0, <1>2, <1>3 DEF Stage, LockStage, LockReq
<1> QED
  BY <1>2, <1>4

\* fuse_lib_getlk only looks at the list.
LEMMA GetlkStep ==
    ASSUME NEW t \in Threads, LInv, fuse_lib_getlk(t)
    PROVE  LInv'
<1>0. /\ Stage(pc[t], req[t], case) /\ LockStage(pc[t], req[t], case) /\ Fields(req[t]) /\ DOMAIN req = Threads
      /\ req = [req EXCEPT ![t] = req[t]] /\ Kept(nodes, nodes)
  BY ThreadFacts
<1>1. UNCHANGED <<case, fslocks, unlisted>> /\ pc[t] = "getlk"
  BY DEF fuse_lib_getlk, kvars, lvars
<1>2. ~Pending(pc[t], req[t]) /\ ~Pending("start", req[t])
  BY <1>1 DEF Pending
<1>3. \/ Abort(t, "get_node")
      \/ nodes' = nodes /\ pc' = [pc EXCEPT ![t] = "idle"] /\ req' = [req EXCEPT ![t] = NoReq]
      \/ nodes' = nodes /\ pc' = [pc EXCEPT ![t] = "start"] /\ req' = req
  BY DEF fuse_lib_getlk
<1>4. Stage("start", req[t], case) /\ LockStage("start", req[t], case)
  BY <1>0, <1>1, PlainStage DEF Plain, Early
<1>5. Like(req[t], req[t])
  BY <1>0, LikeForms
<1>6. CASE Abort(t, "get_node")
  BY <1>1, <1>2, <1>6, AbortStep
<1>7. CASE nodes' = nodes /\ pc' = [pc EXCEPT ![t] = "idle"] /\ req' = [req EXCEPT ![t] = NoReq]
  BY <1>0, <1>1, <1>2, <1>7, IdleStep
<1>8. CASE nodes' = nodes /\ pc' = [pc EXCEPT ![t] = "start"] /\ req' = req
  <2>1. pc' = [pc EXCEPT ![t] = "start"] /\ req' = [req EXCEPT ![t] = req[t]] /\ Kept(nodes, nodes')
    BY <1>0, <1>8
  <2> QED
    BY <1>1, <1>2, <1>4, <1>5, <2>1, OnStep
<1> QED
  BY <1>3, <1>6, <1>7, <1>8

\* The file system does what the lock of thread t means, and the request
\* becomes pending.
LEMMA AskedStep ==
    ASSUME NEW t \in Threads, NEW p, NEW r, LInv, Goes(t, p, r), LockReq(pc[t], req[t]),
           ~Pending(pc[t], req[t]), Pending(p, r), r.lock = req[t].lock, r.ino = req[t].ino,
           fslocks' = FsSet(req[t].ino, LockOf(req[t])), unlisted' = unlisted, nodes' = nodes
    PROVE  LInv'
<1>0. /\ DOMAIN pc = Threads /\ DOMAIN req = Threads
      /\ LockStage(pc[t], req[t], case)
  BY ThreadFacts
<1>1. /\ pc'[t] = p /\ req'[t] = r
      /\ \A u \in Threads : u # t => pc'[u] = pc[u] /\ req'[u] = req[u]
  BY <1>0 DEF Goes
<1>2. Threading'
  BY ThreadMoves DEF LInv
<1>3. PICK l : l = LockOf(req[t])
  OBVIOUS
<1>4. /\ req[t].ino = case.opened /\ case.opened \in Ids
      /\ l \in Asked(Nat) /\ l.end <= OffsetMax
  BY <1>0, <1>3 DEF LockStage
<1>5. LockOf(r) = l /\ l.owner = req[t].lock.owner
  BY <1>3 DEF LockOf, flock_to_lock
<1>6. /\ l.owner \in Nat /\ l.start \in Nat /\ l.end \in Nat /\ l.start <= l.end
      /\ l.type \in LockTypes \cup {"F_UNLCK"} /\ OffsetMax \in Nat
  BY <1>4, TreeAssumption DEF Asked
<1>7. \A b : b \in Bytes(l) <=> b \in Int /\ l.start <= b /\ b <= l.end
  BY <1>6 DEF Bytes
<1>8. fslocks' = {h \in fslocks : ~(h[1] = case.opened /\ h[2] = l.owner /\ h[3] \in Bytes(l))}
                 \cup IF l.type = "F_UNLCK" THEN {} ELSE {<<case.opened, l.owner, b, l.type>> : b \in Bytes(l)}
  BY <1>3, <1>4, Zenon DEF FsSet
<1>9. ASSUME NEW o \in Nat, NEW b \in 0 .. OffsetMax, NEW ty \in LockTypes
      PROVE  FsHas(o, b, ty)' <=> Should(l, o, b, ty, FsHas(o, b, ty))
  <2>1. FsHas(o, b, ty)' <=> <<case.opened, o, b, ty>> \in fslocks'
    BY DEF FsHas, Goes
  <2>2. <<case.opened, o, b, ty>> \in fslocks' <=>
          \/ /\ <<case.opened, o, b, ty>> \in fslocks /\ ~(o = l.owner /\ b \in Bytes(l))
          \/ l.type # "F_UNLCK" /\ o = l.owner /\ b \in Bytes(l) /\ ty = l.type
    BY <1>8
  <2>3. ty # "F_UNLCK"
    BY DEF LockTypes
  <2> QED
    BY <1>7, <2>1, <2>2, <2>3 DEF Should, FsHas
<1>10. FsListing'
  <2>1. case' = case
    BY DEF Goes
  <2>2. ASSUME NEW h \in fslocks'
        PROVE  \E o \in Nat, b \in 0 .. OffsetMax, ty \in LockTypes : h = <<case.opened, o, b, ty>>
    <3>1. CASE h \in fslocks
      BY <3>1 DEF LInv, FsListing
    <3>2. CASE h \notin fslocks
      <4>1. l.type # "F_UNLCK" /\ \E b \in Bytes(l) : h = <<case.opened, l.owner, b, l.type>>
        BY <1>8, <2>2, <3>2
      <4>2. \A b \in Bytes(l) : b \in 0 .. OffsetMax
        BY <1>4, <1>6, <1>7
      <4>3. l.type \in LockTypes
        BY <1>6, <4>1
      <4> QED
        BY <1>6, <4>1, <4>2, <4>3
    <3> QED
      BY <3>1, <3>2
  <2> QED
    BY <1>4, <2>1, <2>2 DEF FsListing
<1>11. \A o, b, ty : Listed(o, b, ty)' = Listed(o, b, ty)
  BY DEF Listed, Goes
<1>12. ASSUME NEW o \in Nat, NEW b \in 0 .. OffsetMax, NEW ty \in LockTypes
       PROVE
        /\ /\ o \notin unlisted
           /\ \A u \in Threads : Pending(pc'[u], req'[u]) => req'[u].lock.owner # o
           => (FsHas(o, b, ty)' <=> Listed(o, b, ty))
        /\ \A u \in Threads : Pending(pc'[u], req'[u]) /\ req'[u].lock.owner = o /\ o \notin unlisted =>
              (FsHas(o, b, ty)' <=> Should(LockOf(req'[u]), o, b, ty, Listed(o, b, ty)))
  <2>1. /\ /\ o \notin unlisted
           /\ \A u \in Threads : Pending(pc[u], req[u]) => req[u].lock.owner # o
           => (FsHas(o, b, ty) <=> Listed(o, b, ty))
        /\ \A u \in Threads : Pending(pc[u], req[u]) /\ req[u].lock.owner = o /\ o \notin unlisted =>
              (FsHas(o, b, ty) <=> Should(LockOf(req[u]), o, b, ty, Listed(o, b, ty)))
    BY <1>4 DEF LInv, Agree
  <2>2. \A u \in Threads : Pending(pc[u], req[u]) /\ u # t => req[u].lock.owner # l.owner
    BY <1>5 DEF LInv, Threading, Pending
  <2>3. CASE o = l.owner
    <3>1. \A u \in Threads : Pending(pc'[u], req'[u]) /\ req'[u].lock.owner = o => u = t
      BY <1>1, <2>2, <2>3
    <3>2. o \notin unlisted => (FsHas(o, b, ty) <=> Listed(o, b, ty))
      BY <2>1, <2>2, <2>3
    <3>3. o \notin unlisted => (FsHas(o, b, ty)' <=> Should(l, o, b, ty, Listed(o, b, ty)))
      BY <1>9, <3>2 DEF Should
    <3>4. Pending(pc'[t], req'[t]) /\ req'[t].lock.owner = o /\ LockOf(req'[t]) = l
      BY <1>1, <1>5, <2>3
    <3> QED
      BY <3>1, <3>3, <3>4
  <2>4. CASE o # l.owner
    <3>1. FsHas(o, b, ty)' <=> FsHas(o, b, ty)
      BY <1>9, <2>4 DEF Should
    <3>2. \A u \in Threads : Pending(pc'[u], req'[u]) /\ req'[u].lock.owner = o =>
             u # t /\ Pending(pc[u], req[u]) /\ req[u].lock.owner = o /\ req'[u] = req[u]
      BY <1>1, <1>5, <2>4
    <3>3. \A u \in Threads : Pending(pc[u], req[u]) /\ req[u].lock.owner = o =>
             Pending(pc'[u], req'[u]) /\ req'[u].lock.owner = o
      BY <1>1
    <3> QED
      BY <2>1, <3>1, <3>2, <3>3
  <2> QED
    BY <2>3, <2>4
<1>13. Agree'
  BY <1>11, <1>12 DEF Agree, Goes
<1>14. Listing(nodes', case')
  BY DEF LInv, Goes
<1> QED
  BY <1>2, <1>10, <1>13, <1>14 DEF LInv

\* The file system refuses, and the list will follow all the same.
LEMMA RefusedStep ==
    ASSUME NEW t \in Threads, NEW p, NEW r, LInv, Goes(t, p, r), LockReq(pc[t], req[t]),
           ~Pending(pc[t], req[t]), Pending(p, r), r.lock = req[t].lock, r.ino = req[t].ino,
           unlisted' = unlisted \cup {req[t].lock.owner}, fslocks' = fslocks, nodes' = nodes
    PROVE  LInv'
<1>0. /\ DOMAIN pc = Threads /\ DOMAIN req = Threads /\ case' = case
  BY ThreadFacts DEF Goes
<1>1. /\ pc'[t] = p /\ req'[t] = r
      /\ \A u \in Threads : u # t => pc'[u] = pc[u] /\ req'[u] = req[u]
  BY <1>0 DEF Goes
<1>2. Threading'
  BY ThreadMoves DEF LInv
<1>3. /\ \A o, b, ty : Listed(o, b, ty)' = Listed(o, b, ty)
      /\ \A o, b, ty : FsHas(o, b, ty)' = FsHas(o, b, ty)
  BY <1>0 DEF Listed, FsHas
<1>4. ASSUME case.opened \in Ids, NEW o \in Nat, NEW b \in 0 .. OffsetMax, NEW ty \in LockTypes
      PROVE
        /\ /\ o \notin unlisted'
           /\ \A u \in Threads : Pending(pc'[u], req'[u]) => req'[u].lock.owner # o
           => (FsHas(o, b, ty) <=> Listed(o, b, ty))
        /\ \A u \in Threads : Pending(pc'[u], req'[u]) /\ req'[u].lock.owner = o /\ o \notin unlisted' =>
              (FsHas(o, b, ty) <=> Should(LockOf(req'[u]), o, b, ty, Listed(o, b, ty)))
  <2>1. /\ /\ o \notin unlisted
           /\ \A u \in Threads : Pending(pc[u], req[u]) => req[u].lock.owner # o
           => (FsHas(o, b, ty) <=> Listed(o, b, ty))
        /\ \A u \in Threads : Pending(pc[u], req[u]) /\ req[u].lock.owner = o /\ o \notin unlisted =>
              (FsHas(o, b, ty) <=> Should(LockOf(req[u]), o, b, ty, Listed(o, b, ty)))
    BY <1>4 DEF LInv, Agree
  <2>2. o \notin unlisted' => o \notin unlisted /\ o # req[t].lock.owner
    OBVIOUS
  <2>3. \A u \in Threads : Pending(pc'[u], req'[u]) /\ req'[u].lock.owner = o /\ o \notin unlisted' =>
           u # t /\ Pending(pc[u], req[u]) /\ req[u].lock.owner = o /\ req'[u] = req[u]
    BY <1>1, <2>2
  <2>4. \A u \in Threads : Pending(pc[u], req[u]) /\ req[u].lock.owner = o =>
           Pending(pc'[u], req'[u]) /\ req'[u].lock.owner = o
    BY <1>1
  <2> QED
    BY <2>1, <2>2, <2>3, <2>4
<1>5. Agree'
  BY <1>0, <1>3, <1>4 DEF Agree
<1>6. Listing(nodes', case') /\ FsListing'
  BY <1>0 DEF LInv, FsListing
<1> QED
  BY <1>2, <1>5, <1>6 DEF LInv

\* fuse_lock_common: the file system grants a setlk, or nothing happens.
LEMMA LockStep ==
    ASSUME NEW t \in Threads, LInv, fuse_lock_common(t)
    PROVE  LInv'
<1>0. /\ Stage(pc[t], req[t], case) /\ LockStage(pc[t], req[t], case) /\ Fields(req[t]) /\ DOMAIN req = Threads
      /\ req = [req EXCEPT ![t] = req[t]] /\ Kept(nodes, nodes)
  BY ThreadFacts
<1>1. /\ UNCHANGED <<case, unlisted, nodes>> /\ pc[t] = "locked" /\ Shape(req[t]) = "lock"
      /\ pc' = [pc EXCEPT ![t] = "free"]
  BY DEF fuse_lock_common, fvars
<1>2. LockReq(pc[t], req[t]) /\ ~Pending(pc[t], req[t])
  BY <1>0, <1>1 DEF Stage, LockReq, Pending
<1>3. Stage("free", req[t], case) /\ LockStage("free", req[t], case)
  BY <1>0, <1>1, PlainStage DEF Plain, Early
<1>4. \/ /\ req[t].op = "setlk" /\ fslocks' = FsSet(req[t].ino, LockOf(req[t]))
         /\ req' = [req EXCEPT ![t].n = 1]
      \/ UNCHANGED <<fslocks, req>>
  BY DEF fuse_lock_common
<1>5. CASE /\ req[t].op = "setlk" /\ fslocks' = FsSet(req[t].ino, LockOf(req[t]))
           /\ req' = [req EXCEPT ![t].n = 1]
  <2> DEFINE r == [req[t] EXCEPT !.n = 1]
  <2>1. req' = [req EXCEPT ![t] = r]
    BY <1>0, <1>5
  <2>2. /\ Fields(r) /\ r.op = req[t].op /\ r.ino = req[t].ino /\ r.lock = req[t].lock
        /\ r.killed = req[t].killed /\ r.done = req[t].done /\ r.n = 1
    BY <1>0 DEF Fields
  <2> HIDE DEF r
  <2>3. Shape(r) = Shape(req[t]) /\ LockOf(r) = LockOf(req[t])
    BY <2>2 DEF Shape, LockOf, flock_to_lock
  <2>4. Stage("free", r, case)
    BY <1>3, <2>2, <2>3 DEF Stage
  <2>5. LockStage("free", r, case)
    BY <1>3, <2>2, <2>3 DEF LockStage, LockReq
  <2>6. Pending("free", r)
    BY <1>2, <1>5, <2>2 DEF Pending, LockReq
  <2>7. Goes(t, "free", r)
    BY <1>1, <2>1, <2>4, <2>5 DEF Goes
  <2> QED
    BY <1>1, <1>2, <1>5, <2>2, <2>6, <2>7, AskedStep
<1>6. CASE UNCHANGED <<fslocks, req>>
  <2>1. ~Pending("free", req[t])
    BY <1>0, <1>1, <1>2 DEF Pending, LockStage
  <2>2. Like(req[t], req[t])
    BY <1>0, LikeForms
  <2>3. req' = [req EXCEPT ![t] = req[t]] /\ Kept(nodes, nodes')
    BY <1>0, <1>1, <1>6
  <2> QED
    BY <1>1, <1>2, <1>3, <1>6, <2>1, <2>2, <2>3, OnStep
<1> QED
  BY <1>4, <1>5, <1>6

\* fuse_flush_common: the locks of the owner go in the file system, if it
\* does not refuse.
LEMMA FlushStep ==
    ASSUME NEW t \in Threads, LInv, fuse_flush_common(t)
    PROVE  LInv'
<1>0. /\ Stage(pc[t], req[t], case) /\ LockStage(pc[t], req[t], case) /\ Fields(req[t])
      /\ req = [req EXCEPT ![t] = req[t]] /\ Kept(nodes, nodes)
  BY ThreadFacts
<1>1. /\ UNCHANGED <<case, nodes, req>> /\ pc[t] = "locked"
      /\ Shape(req[t]) \in {"flush", "release"} /\ req[t].lock # NoLock
  BY DEF fuse_flush_common, fvars
<1>2. LockReq(pc[t], req[t]) /\ ~Pending(pc[t], req[t])
  BY <1>1 DEF LockReq, Pending
<1>3. req[t].op # "setlk"
  BY <1>1, ShapeOf DEF Shape
<1>4. \/ pc' = [pc EXCEPT ![t] = AfterFlush(req[t])] /\ fslocks' = fslocks /\ unlisted' = unlisted
      \/ /\ pc' = [pc EXCEPT ![t] = "insert"]
         /\ \/ fslocks' = FsSet(req[t].ino, LockOf(req[t])) /\ unlisted' = unlisted
            \/ unlisted' = unlisted \cup {req[t].lock.owner} /\ fslocks' = fslocks
  BY DEF fuse_flush_common, lvars
<1>5. CASE pc' = [pc EXCEPT ![t] = AfterFlush(req[t])] /\ fslocks' = fslocks /\ unlisted' = unlisted
  <2>1. PICK p : p = AfterFlush(req[t])
    OBVIOUS
  <2>2. Stage(p, req[t], case) /\ LockStage(p, req[t], case) /\ p \in {"free", "release"}
    BY <1>1, <1>3, <2>1, AfterFlushStage
  <2>3. ~Pending(p, req[t])
    BY <1>3, <2>2 DEF Pending
  <2>4. Like(req[t], req[t])
    BY <1>0, LikeForms
  <2>5. pc' = [pc EXCEPT ![t] = p] /\ req' = [req EXCEPT ![t] = req[t]] /\ Kept(nodes, nodes')
    BY <1>0, <1>1, <1>5, <2>1
  <2> QED
    BY <1>1, <1>2, <1>5, <2>2, <2>3, <2>4, <2>5, OnStep
<1>6. CASE /\ pc' = [pc EXCEPT ![t] = "insert"]
           /\ \/ fslocks' = FsSet(req[t].ino, LockOf(req[t])) /\ unlisted' = unlisted
              \/ unlisted' = unlisted \cup {req[t].lock.owner} /\ fslocks' = fslocks
  <2>1. Stage("insert", req[t], case) /\ LockStage("insert", req[t], case)
    BY <1>0, <1>1 DEF Stage, LockStage, LockReq
  <2>2. Pending("insert", req[t])
    BY <1>1 DEF Pending, LockReq
  <2>3. Goes(t, "insert", req[t])
    BY <1>0, <1>1, <1>6, <2>1 DEF Goes
  <2>4. CASE fslocks' = FsSet(req[t].ino, LockOf(req[t])) /\ unlisted' = unlisted
    BY <1>1, <1>2, <2>2, <2>3, <2>4, AskedStep
  <2>5. CASE unlisted' = unlisted \cup {req[t].lock.owner} /\ fslocks' = fslocks
    BY <1>1, <1>2, <2>2, <2>3, <2>5, RefusedStep
  <2> QED
    BY <1>6, <2>4, <2>5
<1> QED
  BY <1>4, <1>5, <1>6

\* The list follows, or there was no memory for it.
LEMMA ListedStep ==
    ASSUME NEW t \in Threads, NEW p, NEW r, LInv, Goes(t, p, r), Pending(pc[t], req[t]), ~Pending(p, r),
           LockReq(p, r) => r.lock = req[t].lock, fslocks' = fslocks,
           NEW l, l = LockOf(req[t]),
           \/ /\ nodes' = [nodes EXCEPT ![case.opened].locks = locks_insert(@, l)]
              /\ unlisted' = IF \/ NeedsMemory(l, OffsetMax)
                                \/ \E h \in fslocks : h[1] = case.opened /\ h[2] = l.owner
                             THEN unlisted ELSE unlisted \ {l.owner}
           \/ unlisted' = unlisted \cup {l.owner} /\ nodes' = nodes
    PROVE  LInv'
<1>0. /\ DOMAIN pc = Threads /\ DOMAIN req = Threads
      /\ LockStage(pc[t], req[t], case) /\ LockReq(pc[t], req[t])
  BY ThreadFacts DEF Pending
<1>1. /\ pc'[t] = p /\ req'[t] = r /\ case' = case
      /\ \A u \in Threads : u # t => pc'[u] = pc[u] /\ req'[u] = req[u]
  BY <1>0 DEF Goes
<1>2. Threading'
  BY <1>0, ThreadMoves DEF LInv
<1>3. case.opened \in Ids /\ l \in Asked(Nat) /\ l.end <= OffsetMax /\ l.owner = req[t].lock.owner
  BY <1>0 DEF LockStage, LockOf, flock_to_lock
<1>4. /\ l.owner \in Nat /\ l.start \in Nat /\ l.end \in Nat /\ l.start <= l.end
      /\ l.type \in LockTypes \cup {"F_UNLCK"} /\ OffsetMax \in Nat
  BY <1>3, TreeAssumption DEF Asked
<1>5. PICK s : s = nodes[case.opened].locks
  OBVIOUS
<1>6. /\ s \in Seq(Held(Nat)) /\ Ordered(s)
      /\ \A o \in Nat, b \in Nat, ty \in LockTypes : Covers(s, o, b, ty) => b <= OffsetMax
      /\ Sound(nodes)
  BY <1>3, <1>5, ListingSound DEF LInv, Listing
<1>7. PICK n : n = locks_insert(s, l)
  OBVIOUS
<1>8. /\ n \in Seq(Held(Nat)) /\ Ordered(n)
      /\ \A o \in Nat, b \in Nat, ty \in LockTypes :
           Covers(n, o, b, ty) <=> Should(l, o, b, ty, Covers(s, o, b, ty))
  BY <1>3, <1>6, <1>7, InsertExact
<1>9. \/ nodes' = [nodes EXCEPT ![case.opened].locks = n]
      \/ nodes' = nodes
  BY <1>5, <1>7
<1>10. Listing(nodes', case)
  <2>1. CASE nodes' = nodes
    BY <2>1 DEF LInv
  <2>2. CASE nodes' = [nodes EXCEPT ![case.opened].locks = n]
    <3>1. /\ Ids \subseteq DOMAIN nodes'
          /\ \A i \in Ids : NodeFields(nodes'[i]) /\ (i # case.opened => nodes'[i].locks = <<>>)
          /\ nodes'[case.opened].refctr > 0 /\ nodes'[case.opened].locks = n
      BY <1>3, <2>2 DEF LInv, Listing, NodeFields
    <3>2. ASSUME NEW o \in Nat, NEW b \in Nat, NEW ty \in LockTypes, Covers(n, o, b, ty)
          PROVE  b <= OffsetMax
      <4>1. Should(l, o, b, ty, Covers(s, o, b, ty))
        BY <1>8, <3>2
      <4>2. CASE Covers(s, o, b, ty)
        BY <1>6, <4>2
      <4>3. CASE ~Covers(s, o, b, ty)
        <5>1. b <= l.end
          BY <4>1, <4>3 DEF Should
        <5> QED
          BY <1>3, <1>4, <5>1
      <4> QED
        BY <4>2, <4>3
    <3> QED
      BY <1>8, <3>1, <3>2 DEF Listing
  <2> QED
    BY <1>9, <2>1, <2>2
<1>11. FsListing'
  BY <1>1 DEF LInv, FsListing
<1>12. ASSUME NEW o \in Nat, NEW b \in 0 .. OffsetMax, NEW ty \in LockTypes
       PROVE
        /\ /\ o \notin unlisted'
           /\ \A u \in Threads : Pending(pc'[u], req'[u]) => req'[u].lock.owner # o
           => (FsHas(o, b, ty)' <=> Listed(o, b, ty)')
        /\ \A u \in Threads : Pending(pc'[u], req'[u]) /\ req'[u].lock.owner = o /\ o \notin unlisted' =>
              (FsHas(o, b, ty)' <=> Should(LockOf(req'[u]), o, b, ty, Listed(o, b, ty)'))
  <2>0. b \in Nat
    BY <1>4
  <2>1. /\ /\ o \notin unlisted
           /\ \A u \in Threads : Pending(pc[u], req[u]) => req[u].lock.owner # o
           => (FsHas(o, b, ty) <=> Listed(o, b, ty))
        /\ \A u \in Threads : Pending(pc[u], req[u]) /\ req[u].lock.owner = o /\ o \notin unlisted =>
              (FsHas(o, b, ty) <=> Should(LockOf(req[u]), o, b, ty, Listed(o, b, ty)))
    BY <1>3 DEF LInv, Agree
  <2>2. \A u \in Threads : Pending(pc[u], req[u]) /\ u # t => req[u].lock.owner # l.owner
    BY <1>0, <1>3 DEF LInv, Threading, Pending
  <2>3. FsHas(o, b, ty)' <=> FsHas(o, b, ty)
    BY <1>1 DEF FsHas
  <2>4. /\ Listed(o, b, ty) <=> Covers(s, o, b, ty)
        /\ nodes' = nodes => (Listed(o, b, ty)' <=> Listed(o, b, ty))
    BY <1>1, <1>5 DEF Listed
  <2>5. nodes' = [nodes EXCEPT ![case.opened].locks = n] =>
           (Listed(o, b, ty)' <=> Should(l, o, b, ty, Listed(o, b, ty)))
    <3> SUFFICES ASSUME nodes' = [nodes EXCEPT ![case.opened].locks = n]
                 PROVE  Listed(o, b, ty)' <=> Should(l, o, b, ty, Listed(o, b, ty))
      OBVIOUS
    <3>1. nodes'[case.opened].locks = n
      BY <1>3, <1>6 DEF Sound, NodeFields
    <3>2. Listed(o, b, ty)' <=> Covers(n, o, b, ty)
      BY <1>1, <3>1 DEF Listed
    <3> QED
      BY <1>8, <2>0, <2>4, <3>2 DEF Should
  <2>6. CASE o = l.owner
    <3>1. \A u \in Threads : ~(Pending(pc'[u], req'[u]) /\ req'[u].lock.owner = o)
      BY <1>1, <2>2, <2>6
    <3>2. ASSUME o \notin unlisted' PROVE FsHas(o, b, ty)' <=> Listed(o, b, ty)'
      <4>1. nodes' = [nodes EXCEPT ![case.opened].locks = n]
        BY <1>5, <1>7, <2>6, <3>2
      <4>2. Listed(o, b, ty)' <=> Should(l, o, b, ty, Listed(o, b, ty))
        BY <2>5, <4>1
      <4>3. CASE o \notin unlisted
        BY <1>3, <2>1, <2>3, <2>6, <4>2, <4>3
      <4>4. CASE o \in unlisted
        <5>1. ~NeedsMemory(l, OffsetMax) /\ \A h \in fslocks : ~(h[1] = case.opened /\ h[2] = l.owner)
          BY <2>6, <3>2, <4>4
        <5>2. l.type = "F_UNLCK" /\ l.start = 0 /\ l.end = OffsetMax
          BY <5>1 DEF NeedsMemory
        <5>3. ty # l.type /\ l.start <= b /\ b <= l.end
          BY <1>4, <5>2 DEF LockTypes
        <5>4. ~FsHas(o, b, ty)
          BY <2>6, <5>1 DEF FsHas
        <5>5. ~Listed(o, b, ty)'
          BY <2>6, <4>2, <5>3 DEF Should
        <5> QED
          BY <2>3, <5>4, <5>5
      <4> QED
        BY <4>3, <4>4
    <3> QED
      BY <3>1, <3>2
  <2>7. CASE o # l.owner
    <3>1. Listed(o, b, ty)' <=> Listed(o, b, ty)
      BY <1>9, <2>4, <2>5, <2>7 DEF Should
    <3>2. \A u \in Threads : Pending(pc'[u], req'[u]) /\ req'[u].lock.owner = o =>
             u # t /\ Pending(pc[u], req[u]) /\ req[u].lock.owner = o /\ req'[u] = req[u]
      BY <1>1
    <3>3. \A u \in Threads : Pending(pc[u], req[u]) /\ req[u].lock.owner = o =>
             Pending(pc'[u], req'[u]) /\ req'[u].lock.owner = o
      BY <1>1, <1>3, <2>7
    <3>4. o \notin unlisted' => o \notin unlisted
      BY <2>7
    <3>5. ASSUME o \notin unlisted', \A u \in Threads : Pending(pc'[u], req'[u]) => req'[u].lock.owner # o
          PROVE  FsHas(o, b, ty)' <=> Listed(o, b, ty)'
      BY <2>1, <2>3, <3>1, <3>3, <3>4, <3>5
    <3>6. ASSUME NEW u \in Threads, Pending(pc'[u], req'[u]), req'[u].lock.owner = o
          PROVE  o \notin unlisted' => (FsHas(o, b, ty)' <=> Should(LockOf(req'[u]), o, b, ty, Listed(o, b, ty)'))
      <4>1. Pending(pc[u], req[u]) /\ req[u].lock.owner = o /\ req'[u] = req[u]
        BY <3>2, <3>6
      <4> QED
        BY <2>1, <2>3, <3>1, <3>4, <4>1 DEF Should
    <3> QED
      BY <3>5, <3>6
  <2> QED
    BY <2>6, <2>7
<1>13. Agree'
  BY <1>1, <1>12 DEF Agree
<1> QED
  BY <1>1, <1>2, <1>10, <1>11, <1>13 DEF LInv

\* The insertion into the list, of setlk and of flush.
LEMMA ListStep ==
    ASSUME NEW t \in Threads, LInv, ListLock(t)
    PROVE  LInv'
<1>0. /\ Stage(pc[t], req[t], case) /\ LockStage(pc[t], req[t], case) /\ Fields(req[t])
      /\ req = [req EXCEPT ![t] = req[t]] /\ Kept(nodes, nodes) /\ DOMAIN req = Threads
  BY ThreadFacts
<1>1. UNCHANGED <<case, fslocks>> /\ pc[t] = "insert"
  BY DEF ListLock
<1>2. LockReq(pc[t], req[t]) /\ Pending(pc[t], req[t])
  BY <1>0, <1>1 DEF Stage, LockReq, Pending
<1>3. req[t].ino = case.opened /\ case.opened \in Ids
  BY <1>0, <1>2 DEF LockStage
<1>4. Live(nodes, req[t].ino)
  BY <1>3 DEF Live, LInv, Listing
<1>5. PICK l : l = LockOf(req[t])
  OBVIOUS
<1>6. /\ \/ /\ nodes' = [nodes EXCEPT ![case.opened].locks = locks_insert(@, l)]
            /\ unlisted' = IF \/ NeedsMemory(l, OffsetMax)
                              \/ \E h \in fslocks : h[1] = case.opened /\ h[2] = l.owner
                           THEN unlisted ELSE unlisted \ {l.owner}
         \/ unlisted' = unlisted \cup {l.owner} /\ nodes' = nodes
      /\ pc' = [pc EXCEPT ![t] = AfterFlush(req[t])]
      /\ req' = [req EXCEPT ![t] = IF req[t].op = "setlk" THEN NoReq ELSE req[t]]
  BY <1>0, <1>3, <1>4, <1>5 DEF ListLock
<1>7. CASE req[t].op = "setlk"
  <2>1. pc' = [pc EXCEPT ![t] = "idle"] /\ req' = [req EXCEPT ![t] = NoReq]
    BY <1>6, <1>7 DEF AfterFlush
  <2>2. Goes(t, "idle", NoReq)
    BY <1>1, <2>1, NoReqFacts DEF Goes
  <2> QED
    BY <1>1, <1>2, <1>5, <1>6, <2>2, NoReqFacts, ListedStep
<1>8. CASE req[t].op # "setlk"
  <2>1. PICK p : p = AfterFlush(req[t])
    OBVIOUS
  <2>2. Shape(req[t]) \in {"flush", "release"}
    BY <1>0, <1>1, <1>2, <1>8 DEF Stage, LockStage
  <2>3. Stage(p, req[t], case) /\ LockStage(p, req[t], case) /\ p \in {"free", "release"}
    BY <1>1, <1>8, <2>1, <2>2, AfterFlushStage
  <2>4. ~Pending(p, req[t])
    BY <1>8, <2>3 DEF Pending
  <2>5. Goes(t, p, req[t])
    BY <1>1, <1>6, <1>8, <2>1, <2>3 DEF Goes
  <2> QED
    BY <1>1, <1>2, <1>5, <1>6, <2>4, <2>5, ListedStep
<1> QED
  BY <1>7, <1>8

\* A thread with a request about names goes on, or is done.
LEMMA NameStep ==
    ASSUME NEW t \in Threads, LInv, pc[t] # "idle", Shape(req[t]) \in NameShapes,
           UNCHANGED <<case, fslocks, unlisted>>, Bare(nodes'),
           \/ \E p : /\ pc' = [pc EXCEPT ![t] = p] /\ Stage(p, req[t], case)
                     /\ \E r : req' = [req EXCEPT ![t] = r] /\ Like(req[t], r)
           \/ pc' = [pc EXCEPT ![t] = "idle"] /\ req' = [req EXCEPT ![t] = NoReq]
    PROVE  LInv'
<1>0. Fields(req[t])
  BY ThreadFacts
<1>1. req[t].lock = NoLock /\ case.opened \notin Ids
  BY Nameful
<1>2. CASE \E p : /\ pc' = [pc EXCEPT ![t] = p] /\ Stage(p, req[t], case)
                  /\ \E r : req' = [req EXCEPT ![t] = r] /\ Like(req[t], r)
  <2>1. PICK p, r : /\ pc' = [pc EXCEPT ![t] = p] /\ Stage(p, req[t], case)
                    /\ req' = [req EXCEPT ![t] = r] /\ Like(req[t], r)
    BY <1>2
  <2>2. Stage(p, r, case)
    BY <1>0, <2>1, LikeFacts
  <2>3. Fields(r) /\ r.op = req[t].op /\ r.lock = NoLock
    BY <1>1, <2>1 DEF Like
  <2> QED
    BY <1>1, <2>1, <2>2, <2>3, LocklessStep
<1>3. CASE pc' = [pc EXCEPT ![t] = "idle"] /\ req' = [req EXCEPT ![t] = NoReq]
  <2>1. Goes(t, "idle", NoReq)
    BY <1>3, NoReqFacts DEF Goes
  <2>2. Quiet(pc[t], req[t], "idle", NoReq)
    BY <1>1, NoReqFacts DEF Quiet, Pending, LockReq
  <2> QED
    BY <1>1, <2>1, <2>2, BareStep
<1> QED
  BY <1>2, <1>3

\* unlink, rmdir and rename.
LEMMA HideStep ==
    ASSUME NEW t \in Threads, LInv, IsOpen(t) \/ hidden_name(t) \/ hide_node(t) \/ Change(t)
    PROVE  LInv'
<1>0. /\ Stage(pc[t], req[t], case) /\ Fields(req[t]) /\ DOMAIN req = Threads
      /\ req = [req EXCEPT ![t] = req[t]]
  BY ThreadFacts
<1>1. UNCHANGED <<case, fslocks, unlisted>> /\ pc[t] # "idle"
  BY DEF IsOpen, hidden_name, hide_node, Change, kvars, lvars
<1>2. Shape(req[t]) \in {"unlink", "rmdir", "rename"}
  BY <1>0 DEF IsOpen, hidden_name, hide_node, Change, Stage
<1>3. Shape(req[t]) \in NameShapes
  BY <1>2 DEF NameShapes
<1>4. req[t].lock = NoLock /\ Bare(nodes)
  BY <1>1, <1>3, Nameful
<1>5. \A p \in {"hide", "hiding", "change", "free", "aborted"} : Stage(p, req[t], case)
  BY <1>0, <1>1, <1>2 DEF Stage
<1>6. \E p \in {"hide", "hiding", "change", "free", "aborted"} : pc' = [pc EXCEPT ![t] = p]
  BY DEF IsOpen, hidden_name, hide_node, Change, Abort, AfterHide
<1>7. \E r : req' = [req EXCEPT ![t] = r] /\ Like(req[t], r)
  <2>1. Like(req[t], req[t]) /\ Like(req[t], [req[t] EXCEPT !.hide = Hidden(hidectr + 1)])
    BY <1>0, LikeForms
  <2>2. req' = req \/ req' = [req EXCEPT ![t].hide = Hidden(hidectr + 1)]
    BY DEF IsOpen, hidden_name, hide_node, Change, Abort
  <2>3. [req EXCEPT ![t].hide = Hidden(hidectr + 1)] = [req EXCEPT ![t] = [req[t] EXCEPT !.hide = Hidden(hidectr + 1)]]
    BY <1>0
  <2> QED
    BY <1>0, <2>1, <2>2, <2>3, Zenon
<1>8. Bare(nodes')
  <2>1. \/ nodes' = nodes
        \/ \E d, n, e, m : nodes' = rename_node(nodes, d, n, e, m)
        \/ \E d, n, e, m, i : nodes' = Mark(rename_node(nodes, d, n, e, m), i)
        \/ \E d, n : nodes' = remove_node(nodes, d, n)
    <3>1. CASE IsOpen(t) \/ hidden_name(t)
      BY <3>1 DEF IsOpen, hidden_name, fvars
    <3>2. CASE hide_node(t)
      <4>0. PICK d, n, i, m : /\ d = GoneDir(req[t]) /\ n = GoneName(req[t])
                              /\ i = lookup_node(nodes, d, n) /\ m = req[t].hide
        OBVIOUS
      <4>1. nodes' = nodes \/ nodes' = Mark(rename_node(nodes, d, n, d, m), i)
        BY <3>2, <4>0 DEF hide_node, Abort
      <4> QED
        BY <4>1, Zenon
    <3>3. CASE Change(t)
      <4>1. \/ nodes' = nodes
            \/ nodes' = rename_node(nodes, req[t].ino, req[t].name, req[t].ino2, req[t].name2)
            \/ nodes' = remove_node(nodes, req[t].ino, req[t].name)
        BY <3>3, Zenon DEF Change, Changed, Abort
      <4> QED
        BY <4>1, Zenon
    <3> QED
      BY <3>1, <3>2, <3>3
  <2>2. \A d, n, e, m : Bare(rename_node(nodes, d, n, e, m)) /\ Bare(remove_node(nodes, d, n))
    BY <1>4, RenameBare
  <2>3. \A d, n, e, m, i : Bare(Mark(rename_node(nodes, d, n, e, m), i))
    BY <2>2, MarkBare
  <2> QED
    BY <1>4, <2>1, <2>2, <2>3, Zenon
<1> QED
  BY <1>1, <1>3, <1>5, <1>6, <1>7, <1>8, NameStep

\* forget_node, at once and after a wait.
LEMMA ForgetStep ==
    ASSUME NEW t \in Threads, LInv, forget_node(t) \/ forget_node_retry(t)
    PROVE  LInv'
<1>0. /\ Stage(pc[t], req[t], case) /\ Fields(req[t]) /\ DOMAIN req = Threads /\ DOMAIN pc = Threads
      /\ req = [req EXCEPT ![t] = req[t]] /\ pc = [pc EXCEPT ![t] = pc[t]]
  <2>1. pc = [u \in Threads |-> pc[u]]
    BY DEF LInv, Threading
  <2>2. pc = [pc EXCEPT ![t] = pc[t]]
    BY <2>1
  <2> QED
    BY <2>2, ThreadFacts
<1>1. UNCHANGED <<case, fslocks, unlisted>> /\ pc[t] \in {"forget", "fwait"}
  BY DEF forget_node, forget_node_retry, kvars, lvars
<1>2. Shape(req[t]) \in {"entry", "link", "create", "forget"} /\ Shape(req[t]) \in NameShapes
  BY <1>0, <1>1 DEF Stage, NameShapes
<1>3. req[t].lock = NoLock /\ Bare(nodes) /\ pc[t] # "idle"
  BY <1>1, <1>2, Nameful
<1>4. \A p \in {"forget", "fwait", "aborted", "free"} : Stage(p, req[t], case)
  BY <1>0, <1>1, <1>2, <1>3 DEF Stage
<1>5. Bare(ForgetDone(nodes, req[t]))
  BY <1>3, ForgetBare
<1>6. Like(req[t], req[t]) /\ Like(req[t], [req[t] EXCEPT !.entry = 0])
  BY <1>0, LikeForms
<1>7. \/ Abort(t, "forget_node") \/ ForgetQueue(t) \/ UNCHANGED <<nodes, pc, req>> \/ ForgetEnd(t)
  BY DEF forget_node, forget_node_retry
<1>8. CASE Abort(t, "forget_node") \/ ForgetQueue(t) \/ UNCHANGED <<nodes, pc, req>>
  <2>1. /\ nodes' = nodes /\ req' = [req EXCEPT ![t] = req[t]]
        /\ \E p \in {"forget", "fwait", "aborted", "free"} : pc' = [pc EXCEPT ![t] = p]
    BY <1>0, <1>1, <1>8 DEF Abort, ForgetQueue
  <2> QED
    BY <1>1, <1>2, <1>3, <1>4, <1>6, <2>1, NameStep
<1>9. CASE ForgetEnd(t)
  <2>1. nodes' = ForgetDone(nodes, req[t])
    BY <1>9 DEF ForgetEnd
  <2>2. CASE req[t].op = "create"
    <3>1. pc' = [pc EXCEPT ![t] = "free"] /\ req' = [req EXCEPT ![t] = [req[t] EXCEPT !.entry = 0]]
      BY <1>0, <1>9, <2>2 DEF ForgetEnd
    <3> QED
      BY <1>1, <1>2, <1>3, <1>4, <1>5, <1>6, <2>1, <3>1, NameStep
  <2>3. CASE req[t].op # "create"
    <3>1. pc' = [pc EXCEPT ![t] = "idle"] /\ req' = [req EXCEPT ![t] = NoReq]
      BY <1>0, <1>9, <2>3 DEF ForgetEnd
    <3> QED
      BY <1>1, <1>2, <1>3, <1>5, <2>1, <3>1, NameStep
  <2> QED
    BY <2>2, <2>3
<1> QED
  BY <1>7, <1>8, <1>9

----------------------------------------------------------------------------
\* The kernel's steps.  The file that is open at the start has a node.
LEMMA OpenedKnown ==
    ASSUME case \in Cases, case.opened # 0
    PROVE  case.opened \in Ids
<1>1. /\ case.opened \in {0} \cup DOMAIN case.tree /\ DOMAIN case.tree \subseteq 2 .. case.ctr
      /\ case.ctr \in 1 .. Unknown - 1 /\ IdSpace \in Nat
  BY TreeAssumption
<1>2. case.opened \in 2 .. case.ctr
  BY <1>1
<1> QED
  BY <1>1, <1>2 DEF Ids, Unknown

\* A struct flock of the kernel, as a lock.
LEMMA FlockAsked ==
    ASSUME NEW fl \in [owner : Nat, type : {"F_RDLCK", "F_WRLCK", "F_UNLCK"}, start : Nat, len : Nat],
           fl.start + fl.len - 1 < OffsetMax
    PROVE  /\ flock_to_lock(fl, OffsetMax) \in Asked(Nat) /\ flock_to_lock(fl, OffsetMax).end <= OffsetMax
           /\ fl # NoLock
<1>1. OffsetMax \in Nat
  BY TreeAssumption
<1>2. PICK e : e = IF fl.len = 0 THEN OffsetMax ELSE fl.start + fl.len - 1
  OBVIOUS
<1>3. e \in Nat /\ fl.start <= e /\ e <= OffsetMax
  BY <1>1, <1>2
<1>4. flock_to_lock(fl, OffsetMax) = [owner |-> fl.owner, type |-> fl.type, start |-> fl.start, end |-> e]
  BY <1>2, Zenon DEF flock_to_lock
<1>5. [owner |-> fl.owner, type |-> fl.type, start |-> fl.start, end |-> e] \in Asked(Nat)
  BY <1>3 DEF Asked, LockTypes
<1>6. fl.type # NoLock.type
  BY DEF NoLock
<1> QED
  BY <1>3, <1>4, <1>5, <1>6

\* What the kernel asks for.
Fresh(r, op) ==
    Fields(r) /\ r.op = op /\ r.n = 0 /\ ~r.killed /\ ~r.done
\* A request about locks is about the file that is open, with offsets up to
\* OFFSET_MAX.
LEMMA RequestForm ==
    ASSUME case \in Cases, NEW op \in case.sent, NEW r \in Requests(op)
    PROVE  /\ Fresh(r, op)
           /\ \/ r.lock = NoLock /\ fuse_path_ops[op] # "lock"
              \/ /\ fuse_path_ops[op] \in {"lock", "flush", "release"} /\ case.opened \in Ids
                 /\ r.ino = case.opened /\ r.lock # NoLock
                 /\ LockOf(r) \in Asked(Nat) /\ LockOf(r).end <= OffsetMax
<1> DEFINE s == fuse_path_ops[op]
<1>0. s = "lock" => case.opened # 0
  BY TreeAssumption
<1>1. ASSUME NEW i, NEW n
      PROVE  Fresh(OneRequest(op, i, n), op) /\ OneRequest(op, i, n).lock = NoLock /\ OneRequest(op, i, n).ino = i
  <2>1. PICK v : v = IF fuse_path_ops[op] \in {"unlink", "rmdir"} THEN lookup_node(nodes, i, n) ELSE 0
    OBVIOUS
  <2>2. OneRequest(op, i, n) = [NoReq EXCEPT !.op = op, !.ino = i, !.name = n, !.victim = v]
    BY <2>1 DEF OneRequest
  <2> QED
    BY <2>2 DEF Fresh, Fields, NoReq
<1>2. ASSUME NEW i, NEW n, NEW j, NEW m
      PROVE  Fresh(TwoRequest(op, i, n, j, m), op) /\ TwoRequest(op, i, n, j, m).lock = NoLock
  <2>1. PICK v : v = IF fuse_path_ops[op] = "rename" THEN lookup_node(nodes, j, m) ELSE 0
    OBVIOUS
  <2>2. TwoRequest(op, i, n, j, m) =
          [NoReq EXCEPT !.op = op, !.ino = i, !.name = n, !.ino2 = j, !.name2 = m, !.victim = v]
    BY <2>1 DEF TwoRequest
  <2> QED
    BY <2>2 DEF Fresh, Fields, NoReq
<1>3. ASSUME NEW x, Fresh(x, op), NEW fl
      PROVE  /\ Fresh([x EXCEPT !.lock = fl], op) /\ [x EXCEPT !.lock = fl].lock = fl
             /\ [x EXCEPT !.lock = fl].ino = x.ino
  BY <1>3 DEF Fresh, Fields
<1>4. s = fuse_path_ops[op]
  OBVIOUS
<1> HIDE DEF s
<1>5. CASE s \in {"entry", "create", "unlink", "rmdir"}
  <2>1. PICK i, n : r = OneRequest(op, i, n)
    BY <1>4, <1>5 DEF Requests
  <2>2. Fresh(r, op) /\ r.lock = NoLock
    BY <1>1, <2>1
  <2> QED
    BY <1>4, <1>5, <2>2
<1>6. CASE s \in {"link", "rename"}
  <2>1. PICK i, n, j, m : r = TwoRequest(op, i, n, j, m)
    BY <1>4, <1>6 DEF Requests
  <2>2. Fresh(r, op) /\ r.lock = NoLock
    BY <1>2, <2>1
  <2> QED
    BY <1>4, <1>6, <2>2
<1>7. CASE case.opened # 0 /\ s \in {"lock", "flush", "release"}
  <2>1. PICK fl \in IF s = "lock" THEN case.locks ELSE Flushes :
          r = [OneRequest(op, case.opened, Null) EXCEPT !.lock = fl]
    BY <1>4, <1>7 DEF Requests
  <2>2. /\ fl \in [owner : Nat, type : {"F_RDLCK", "F_WRLCK", "F_UNLCK"}, start : Nat, len : Nat]
        /\ fl.start + fl.len - 1 < OffsetMax
    <3>1. /\ case.locks \subseteq [owner : Nat, type : {"F_RDLCK", "F_WRLCK", "F_UNLCK"}, start : Nat, len : Nat]
          /\ \A x \in case.locks : x.start + x.len - 1 < OffsetMax
          /\ OffsetMax \in Nat
      BY TreeAssumption
    <3> QED
      BY <2>1, <3>1 DEF Flushes
  <2>3. r.lock = fl /\ r.ino = case.opened /\ Fresh(r, op)
    <3>1. PICK x : x = OneRequest(op, case.opened, Null)
      OBVIOUS
    <3>2. Fresh(x, op) /\ x.ino = case.opened
      BY <1>1, <3>1
    <3>3. r = [x EXCEPT !.lock = fl]
      BY <2>1, <3>1
    <3> QED
      BY <1>3, <3>2, <3>3
  <2>4. LockOf(r) = flock_to_lock(fl, OffsetMax)
    BY <2>3 DEF LockOf
  <2> QED
    BY <1>4, <1>7, <2>2, <2>3, <2>4, FlockAsked, OpenedKnown
<1>8. CASE /\ ~(case.opened # 0 /\ s \in {"lock", "flush", "release"})
           /\ s \notin {"entry", "create", "unlink", "rmdir", "link", "rename"}
  <2>1. PICK i : r = OneRequest(op, i, Null)
    BY <1>4, <1>8 DEF Requests
  <2>2. Fresh(r, op) /\ r.lock = NoLock
    BY <1>1, <2>1
  <2> QED
    BY <1>0, <1>4, <1>8, <2>2
<1> QED
  BY <1>5, <1>6, <1>7, <1>8

\* The thread that takes a request.
LEMMA TakerIdle ==
    ASSUME LInv, CanSend
    PROVE  /\ Taker \in Threads /\ pc[Taker] = "idle" /\ req[Taker].lock = NoLock
           /\ ~Pending(pc[Taker], req[Taker])
<1>1. Taker \in Threads /\ pc[Taker] = "idle"
  BY DEF CanSend, Taker
<1>2. Stage(pc[Taker], req[Taker], case)
  BY <1>1 DEF LInv, Threading
<1> QED
  BY <1>1, <1>2 DEF Stage, Pending, LockReq

\* A request arrives: of an owner that has no other under way.
LEMMA SendStep ==
    ASSUME LInv, NEW op, KernelSend(op)
    PROVE  LInv'
<1>0. CanSend /\ op \in case.sent /\ case \in Cases
  BY DEF KernelSend, LInv, Threading
<1>1. PICK t \in Threads : t = Taker /\ pc[t] = "idle" /\ req[t].lock = NoLock /\ ~Pending(pc[t], req[t])
  BY <1>0, TakerIdle
<1>2. PICK r \in Requests(op), p \in {"getlk", "start"} :
        /\ r.lock # NoLock => \A u \in InService : req[u].lock.owner # r.lock.owner
        /\ pc' = [pc EXCEPT ![t] = p] /\ req' = [req EXCEPT ![t] = r]
  BY <1>1 DEF KernelSend
<1>3. UNCHANGED <<case, fslocks, unlisted, nodes>>
  BY DEF KernelSend, lvars, fvars
<1>4. /\ Fresh(r, op)
      /\ \/ r.lock = NoLock /\ fuse_path_ops[op] # "lock"
         \/ /\ fuse_path_ops[op] \in {"lock", "flush", "release"} /\ case.opened \in Ids
            /\ r.ino = case.opened /\ r.lock # NoLock
            /\ LockOf(r) \in Asked(Nat) /\ LockOf(r).end <= OffsetMax
  BY <1>0, <1>2, RequestForm
<1>5. Shape(r) = fuse_path_ops[op]
  BY <1>4 DEF Shape, Fresh
<1>6. Stage(p, r, case)
  BY <1>0, <1>4, <1>5 DEF Stage, Fresh
<1>7. LockStage(p, r, case)
  BY <1>4, <1>5 DEF LockStage, LockReq, Fresh
<1>8. Goes(t, p, r)
  BY <1>2, <1>3, <1>6, <1>7 DEF Goes
<1>9. ~Pending(p, r)
  BY DEF Pending
<1>10. Threading'
  <2>0. DOMAIN pc = Threads /\ DOMAIN req = Threads
    BY <1>1, ThreadFacts
  <2>1. /\ pc' = [u \in Threads |-> pc'[u]] /\ req' = [u \in Threads |-> req'[u]] /\ pc'[t] = p /\ req'[t] = r
        /\ \A u \in Threads : u # t => pc'[u] = pc[u] /\ req'[u] = req[u]
    BY <1>2, <2>0
  <2>2. \A u \in Threads : Stage(pc'[u], req'[u], case) /\ LockStage(pc'[u], req'[u], case)
    BY <1>6, <1>7, <2>1 DEF LInv, Threading
  <2>3. ASSUME NEW u \in Threads, u # t, LockReq(pc[u], req[u]), r.lock # NoLock
        PROVE  req[u].lock.owner # r.lock.owner
    <3>1. LockStage(pc[u], req[u], case)
      BY DEF LInv, Threading
    <3>2. u \in InService
      BY <2>3, <3>1 DEF InService, LockStage, LockReq
    <3> QED
      BY <1>2, <2>3, <3>2
  <2>4. ASSUME NEW u \in Threads, NEW v \in Threads, u # v, LockReq(pc'[u], req'[u]), LockReq(pc'[v], req'[v])
        PROVE  req'[u].lock.owner # req'[v].lock.owner
    <3>1. CASE u # t /\ v # t
      BY <2>1, <2>4, <3>1 DEF LInv, Threading
    <3>2. CASE u = t
      BY <2>1, <2>3, <2>4, <3>2 DEF LockReq
    <3>3. CASE v = t
      BY <2>1, <2>3, <2>4, <3>3 DEF LockReq
    <3> QED
      BY <3>1, <3>2, <3>3
  <2> QED
    BY <1>0, <1>3, <2>1, <2>2, <2>4 DEF Threading
<1>11. Listing(nodes', case) /\ nodes'[case.opened].locks = nodes[case.opened].locks
  BY <1>3 DEF LInv
<1> QED
  BY <1>1, <1>3, <1>8, <1>9, <1>10, <1>11, LocksStep

\* A FORGET arrives.
LEMMA KernelForgetStep ==
    ASSUME LInv, NEW i, KernelForget(i)
    PROVE  LInv'
<1>0. CanSend /\ "forget" \in case.sent
  BY DEF KernelForget
<1>1. PICK t \in Threads : t = Taker /\ pc[t] = "idle" /\ req[t].lock = NoLock /\ ~Pending(pc[t], req[t])
  BY <1>0, TakerIdle
<1> DEFINE r == [NoReq EXCEPT !.op = "forget", !.entry = i, !.n = klook[i]]
<1>2. pc' = [pc EXCEPT ![t] = "forget"] /\ req' = [req EXCEPT ![t] = r]
  BY <1>1 DEF KernelForget
<1>3. UNCHANGED <<case, fslocks, unlisted, nodes>>
  BY DEF KernelForget, lvars, fvars
<1>4. Fields(r) /\ r.op = "forget" /\ r.lock = NoLock
  BY DEF NoReq, Fields
<1> HIDE DEF r
<1>5. Shape(r) = "forget"
  BY <1>4, ShapeOf DEF Shape
<1>6. Stage("forget", r, case) /\ LockStage("forget", r, case)
  BY <1>0, <1>4, <1>5 DEF Stage, LockStage, LockReq
<1>7. Goes(t, "forget", r)
  BY <1>2, <1>3, <1>6 DEF Goes
<1>8. Quiet(pc[t], req[t], "forget", r)
  BY <1>1, <1>4 DEF Quiet, Pending, LockReq
<1>9. Kept(nodes, nodes')
  BY <1>1, <1>3, ThreadFacts
<1> QED
  BY <1>3, <1>7, <1>8, <1>9, KeptStep

\* The process behind a request is killed.
LEMMA GiveUpStep ==
    ASSUME LInv, NEW t \in Threads, KernelGiveUp(t)
    PROVE  LInv'
<1>0. /\ Stage(pc[t], req[t], case) /\ Fields(req[t]) /\ DOMAIN req = Threads /\ Kept(nodes, nodes)
      /\ pc = [pc EXCEPT ![t] = pc[t]]
  <2>1. pc = [u \in Threads |-> pc[u]]
    BY DEF LInv, Threading
  <2>2. pc = [pc EXCEPT ![t] = pc[t]]
    BY <2>1
  <2> QED
    BY <2>2, ThreadFacts
<1>1. /\ pc[t] # "idle" /\ Shape(req[t]) \in {"entry", "create", "open", "link"}
      /\ UNCHANGED <<case, fslocks, unlisted, nodes, pc>>
  BY DEF KernelGiveUp, InService, fvars, kvars, lvars
<1>2. req[t].lock = NoLock
  BY <1>1, Lockless
<1> DEFINE r == [req[t] EXCEPT !.killed = TRUE]
<1>3. req' = [req EXCEPT ![t] = r]
  BY <1>0 DEF KernelGiveUp
<1>4. Fields(r) /\ r.op = req[t].op /\ r.lock = req[t].lock
  BY <1>0 DEF Fields
<1> HIDE DEF r
<1>5. Stage(pc[t], r, case)
  BY <1>0, <1>4 DEF Stage, Shape
<1>6. pc' = [pc EXCEPT ![t] = pc[t]] /\ Kept(nodes, nodes')
  BY <1>0, <1>1
<1> QED
  BY <1>1, <1>2, <1>3, <1>4, <1>5, <1>6, LocklessStep

\* What changes none of the variables the invariant speaks of.
LEMMA SameStep ==
    ASSUME LInv, UNCHANGED <<nodes, case, fslocks, unlisted, pc, req>>
    PROVE  LInv'
BY DEF LInv, Threading, FsListing, Agree, FsHas, Listed

----------------------------------------------------------------------------
\* The nodes of the start.
LEMMA InitNodes ==
    ASSUME Init
    PROVE  /\ Sound(nodes) /\ Bare(nodes)
           /\ case.opened \in Ids => nodes[case.opened].refctr > 0
<1>0. /\ case \in Cases
      /\ nodes = [i \in Ids |-> IF i = Root THEN RootNode(case.tree)
                                ELSE IF i = case.opened THEN [TreeNode(case.tree, i) EXCEPT !.open = 1]
                                ELSE IF i \in DOMAIN case.tree THEN TreeNode(case.tree, i) ELSE NoNode]
  BY DEF Init
<1>1. /\ DOMAIN case.tree \subseteq 2 .. case.ctr /\ case.ctr \in 1 .. Unknown - 1 /\ IdSpace \in Nat
      /\ case.opened \in {0} \cup DOMAIN case.tree
  BY <1>0, TreeAssumption
<1>2. \A p : Kids(case.tree, p) \in Nat
  <2> SUFFICES ASSUME NEW p PROVE Kids(case.tree, p) \in Nat
    OBVIOUS
  <2>1. case.ctr \in Nat
    BY <1>1 DEF Unknown
  <2>2. IsFiniteSet(2 .. case.ctr)
    BY <2>1, FS_Interval
  <2>3. {i \in DOMAIN case.tree : case.tree[i][1] = p} \subseteq 2 .. case.ctr
    BY <1>1
  <2>4. IsFiniteSet({i \in DOMAIN case.tree : case.tree[i][1] = p})
    BY <2>2, <2>3, FS_Subset
  <2> QED
    BY <2>4, FS_CardinalityType DEF Kids
<1>3. NodeFields(RootNode(case.tree)) /\ RootNode(case.tree).locks = <<>>
  <2>1. PICK k : k = Kids(case.tree, Root)
    OBVIOUS
  <2>2. RootNode(case.tree) = [NewNode(0, <<"/", 0>>) EXCEPT !.nlookup = 1, !.refctr = 1 + k] /\ k \in Nat
    BY <1>2, <2>1 DEF RootNode
  <2> QED
    BY <2>2 DEF NewNode, NodeFields
<1>4. ASSUME NEW i
      PROVE  /\ NodeFields(TreeNode(case.tree, i)) /\ TreeNode(case.tree, i).locks = <<>>
             /\ NodeFields([TreeNode(case.tree, i) EXCEPT !.open = 1])
             /\ [TreeNode(case.tree, i) EXCEPT !.open = 1].locks = <<>>
             /\ [TreeNode(case.tree, i) EXCEPT !.open = 1].refctr > 0
  <2>1. PICK k, a, b, n : /\ k = Kids(case.tree, i) /\ a = case.tree[i][1] /\ b = case.tree[i][2]
                          /\ n = TreeNode(case.tree, i)
    OBVIOUS
  <2>2. n = [NewNode(a, b) EXCEPT !.nlookup = 1, !.refctr = 1 + k] /\ k \in Nat
    BY <1>2, <2>1 DEF TreeNode
  <2>3. NodeFields(n) /\ n.locks = <<>> /\ n.refctr > 0
    BY <2>2 DEF NewNode, NodeFields
  <2>4. /\ NodeFields([n EXCEPT !.open = 1]) /\ [n EXCEPT !.open = 1].locks = <<>>
        /\ [n EXCEPT !.open = 1].refctr > 0
    BY <2>3 DEF NodeFields
  <2> QED
    BY <2>1, <2>3, <2>4
<1>5. ASSUME NEW i \in Ids
      PROVE  NodeFields(nodes[i]) /\ nodes[i].locks = <<>>
  <2>1. nodes[i] \in {RootNode(case.tree), [TreeNode(case.tree, i) EXCEPT !.open = 1],
                      TreeNode(case.tree, i), NoNode}
    BY <1>0, Zenon
  <2> QED
    BY <1>3, <1>4, <2>1, NewNodeFields
<1>6. case.opened \in Ids => nodes[case.opened].refctr > 0
  <2> SUFFICES ASSUME case.opened \in Ids PROVE nodes[case.opened].refctr > 0
    OBVIOUS
  <2>1. case.opened # Root
    BY <1>1 DEF Root
  <2>2. nodes[case.opened] = [TreeNode(case.tree, case.opened) EXCEPT !.open = 1]
    BY <1>0, <2>1, Zenon
  <2> QED
    BY <1>4, <2>2
<1>7. DOMAIN nodes = Ids
  BY <1>0
<1> QED
  BY <1>5, <1>6, <1>7 DEF Sound, Bare

\* The invariant holds at the start.
LEMMA LInvInit == Init => LInv
<1> SUFFICES ASSUME Init PROVE LInv
  OBVIOUS
<1>0. /\ case \in Cases /\ pc = [t \in Threads |-> "idle"] /\ req = [t \in Threads |-> NoReq]
      /\ fslocks = {} /\ unlisted = {}
  BY DEF Init
<1>1. /\ Sound(nodes) /\ Bare(nodes)
      /\ case.opened \in Ids => nodes[case.opened].refctr > 0
  BY InitNodes
<1>2. Threading
  <2>1. pc = [t \in Threads |-> pc[t]] /\ req = [t \in Threads |-> req[t]]
    BY <1>0
  <2>2. \A t \in Threads : Stage(pc[t], req[t], case) /\ LockStage(pc[t], req[t], case)
    BY <1>0, NoReqFacts
  <2>3. \A t \in Threads : ~LockReq(pc[t], req[t])
    BY <1>0, NoReqFacts
  <2> QED
    BY <1>0, <2>1, <2>2, <2>3 DEF Threading
<1>3. \A o, b, ty : ~Covers(<<>>, o, b, ty)
  BY DEF Covers
<1>4. Listing(nodes, case)
  <2>1. <<>> \in Seq(Held(Nat)) /\ Ordered(<<>>)
    BY DEF Ordered
  <2> QED
    BY <1>1, <1>3, <2>1 DEF Listing, Sound, Bare
<1>5. FsListing
  BY <1>0 DEF FsListing
<1>6. Agree
  <2>1. \A t \in Threads : ~Pending(pc[t], req[t])
    BY <1>0, NoReqFacts
  <2>2. \A o, b, ty : ~FsHas(o, b, ty)
    BY <1>0 DEF FsHas
  <2>3. case.opened \in Ids => \A o, b, ty : ~Listed(o, b, ty)
    BY <1>1, <1>3 DEF Listed, Bare
  <2> QED
    BY <2>1, <2>2, <2>3 DEF Agree
<1> QED
  BY <1>2, <1>4, <1>5, <1>6 DEF LInv

\* Every step keeps it.
LEMMA LInvNext == LInv /\ [Next]_vars => LInv'
<1> SUFFICES ASSUME LInv, [Next]_vars PROVE LInv'
  OBVIOUS
<1>1. ASSUME NEW t \in Threads, ThreadStep(t) PROVE LInv'
  BY <1>1, PathStep, FreeStep, LookupStep, ReplyStep, OpenStep, ReleaseStep, GetlkStep,
     LockStep, FlushStep, ListStep, HideStep, ForgetStep DEF ThreadStep
<1>2. CASE fuse_destroy
  BY <1>2, SameStep DEF fuse_destroy, fvars, lvars
<1>3. CASE UNCHANGED vars
  BY <1>3, SameStep DEF vars, fvars, kvars, lvars
<1> QED
  BY <1>1, <1>2, <1>3, SendStep, KernelForgetStep, GiveUpStep DEF Next

\* It says more than LocksAgree.
LEMMA LInvAgrees == LInv => LocksAgree
<1> SUFFICES ASSUME LInv, NEW i \in Ids, Live(nodes, i)
             PROVE
      LET listed == UNION {{<<i, l.owner, b, l.type>> : b \in Bytes(l)} : l \in ToSet(nodes[i].locks)}
          settled(o) == o \notin unlisted /\ \A t \in Threads : req[t].lock.owner # o
      IN  \A h \in {h \in fslocks : h[1] = i} \cup listed :
            settled(h[2]) => (h \in fslocks) = (h \in listed)
  BY DEF LocksAgree
<1> DEFINE listed == UNION {{<<i, l.owner, b, l.type>> : b \in Bytes(l)} : l \in ToSet(nodes[i].locks)}
<1>1. CASE i # case.opened
  <2>1. nodes[i].locks = <<>>
    BY <1>1 DEF LInv, Listing
  <2>2. ToSet(nodes[i].locks) = {}
    BY <2>1 DEF ToSet
  <2>3. listed = {}
    BY <2>2
  <2>4. \A h \in fslocks : h[1] # i
    BY <1>1 DEF LInv, FsListing
  <2> QED
    BY <2>3, <2>4
<1>2. CASE i = case.opened
  <2>1. PICK s : s = nodes[i].locks
    OBVIOUS
  <2>2. /\ s \in Seq(Held(Nat))
        /\ \A o \in Nat, b \in Nat, ty \in LockTypes : Covers(s, o, b, ty) => b <= OffsetMax
    BY <1>2, <2>1 DEF LInv, Listing
  <2>3. ToSet(s) = {s[k] : k \in DOMAIN s} /\ \A k \in DOMAIN s : s[k] \in Held(Nat)
    BY <2>2 DEF ToSet
  <2>4. ASSUME NEW o, NEW b, NEW ty
        PROVE  <<i, o, b, ty>> \in listed <=> b \in Int /\ Covers(s, o, b, ty)
    <3>1. <<i, o, b, ty>> \in listed <=>
            \E k \in DOMAIN s : b \in Bytes(s[k]) /\ s[k].owner = o /\ s[k].type = ty
      BY <2>1, <2>3
    <3>2. \A k \in DOMAIN s : b \in Bytes(s[k]) <=> b \in Int /\ s[k].start <= b /\ b <= s[k].end
      BY <2>3 DEF Bytes, Held
    <3> QED
      BY <3>1, <3>2 DEF Covers, Has
  <2>5. ASSUME NEW h \in {h \in fslocks : h[1] = i} \cup listed
        PROVE  \E o \in Nat, b \in 0 .. OffsetMax, ty \in LockTypes : h = <<i, o, b, ty>>
    <3>1. CASE h \in fslocks
      BY <1>2, <3>1 DEF LInv, FsListing
    <3>2. CASE h \in listed
      <4>0. PICK k \in DOMAIN s : h \in {<<i, s[k].owner, b, s[k].type>> : b \in Bytes(s[k])}
        BY <2>1, <2>3, <3>2
      <4>1. PICK b \in Bytes(s[k]) : h = <<i, s[k].owner, b, s[k].type>>
        BY <4>0
      <4>2. s[k].owner \in Nat /\ s[k].type \in LockTypes /\ b \in Nat /\ s[k].start <= b /\ b <= s[k].end
        BY <2>3, <4>1 DEF Held, Bytes
      <4>3. Covers(s, s[k].owner, b, s[k].type)
        BY <4>2 DEF Covers, Has
      <4>4. b \in 0 .. OffsetMax
        <5>1. OffsetMax \in Nat
          BY TreeAssumption
        <5> QED
          BY <2>2, <4>2, <4>3, <5>1
      <4> QED
        BY <4>1, <4>2, <4>4
    <3> QED
      BY <2>5, <3>1, <3>2
  <2> HIDE DEF listed
  <2>6. ASSUME NEW h \in {h \in fslocks : h[1] = i} \cup listed,
               h[2] \notin unlisted, \A t \in Threads : req[t].lock.owner # h[2]
        PROVE  h \in fslocks <=> h \in listed
    <3>1. PICK o \in Nat, b \in 0 .. OffsetMax, ty \in LockTypes : h = <<i, o, b, ty>>
      BY <2>5
    <3>2. h[2] = o
      BY <3>1
    <3>3. FsHas(o, b, ty) <=> Listed(o, b, ty)
      BY <1>2, <2>6, <3>2 DEF LInv, Agree
    <3>4. h \in listed <=> Listed(o, b, ty)
      BY <1>2, <2>1, <2>4, <3>1 DEF Listed
    <3>5. h \in fslocks <=> FsHas(o, b, ty)
      BY <1>2, <3>1 DEF FsHas
    <3> QED
      BY <3>3, <3>4, <3>5
  <2>7. \A h \in {h \in fslocks : h[1] = i} \cup listed :
          h[2] \notin unlisted /\ (\A t \in Threads : req[t].lock.owner # h[2])
          => (h \in fslocks) = (h \in listed)
    BY <2>6
  <2> QED
    BY <2>7 DEF listed
<1> QED
  BY <1>1, <1>2

\* For every owner that has no request of its own under way, the list that
\* fuse_lib_getlk answers from is what the file system has locked, whatever
\* the threads do between the two steps of a setlk, a flush or a release,
\* and whichever insertions fail for want of memory: for any number of
\* threads, owners, offsets and requests.
THEOREM LocksListed == Spec => []LocksAgree
<1>1. Init => LInv
  BY LInvInit
<1>2. LInv /\ [Next]_vars => LInv'
  BY LInvNext
<1>3. LInv => LocksAgree
  BY LInvAgrees
<1> QED
  BY <1>1, <1>2, <1>3, PTL DEF Spec
=============================================================================
