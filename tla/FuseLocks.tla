----------------------------- MODULE FuseLocks -----------------------------
(***************************************************************************)
(* The POSIX locks of a file as the path based FUSE library lists them     *)
(* (struct lock of fuse/fuse.c): the list of a node, which lock of it      *)
(* stands in the way of another, and what a new lock or an unlock makes of *)
(* the locks its owner has.                                                *)
(*                                                                         *)
(* A lock is [owner, type, start, end], both ends included; an unlock is a *)
(* lock of type F_UNLCK.  Offsets are 0 .. OFFSET_MAX.                     *)
(***************************************************************************)
EXTENDS Integers, SequencesExt

(* flock_to_lock of a struct flock: l_len counts the bytes, 0 means to the *)
(* end of the file, whatever that will be.                                 *)
flock_to_lock(fl, max) ==
    [owner |-> fl.owner, type |-> fl.type, start |-> fl.start,
     end |-> IF fl.len = 0 THEN max ELSE fl.start + fl.len - 1]

(* locks_conflict: one of them writes, and they meet.                      *)
Conflict(l, lock) ==
    /\ l.owner # lock.owner
    /\ lock.start <= l.end /\ l.start <= lock.end
    /\ "F_WRLCK" \in {l.type, lock.type}
locks_conflict(locks, lock) == \E l \in ToSet(locks) : Conflict(l, lock)

----------------------------------------------------------------------------
(* locks_insert goes through the list once.  `out' is what lies behind lp, *)
(* `lock' the new lock, which grows by those of its type that it touches   *)
(* and that are deleted; `over' says that the loop has ended, with the     *)
(* lock inserted or with nothing to insert, and the rest stays.            *)
Keep(w, ls) == [w EXCEPT !.out = @ \o ls]
End(w, ls) == [w EXCEPT !.out = @ \o ls, !.over = TRUE]
insert_lock(w, ls) == End(w, (IF w.lock.type = "F_UNLCK" THEN <<>> ELSE <<w.lock>>) \o ls)

Grow(lock, l) ==
    [lock EXCEPT !.start = IF l.start < @ THEN l.start ELSE @,
                 !.end = IF @ < l.end THEN l.end ELSE @]
SameType(w, l) ==
    CASE l.end < w.lock.start - 1 -> Keep(w, <<l>>)
      [] w.lock.end < l.start - 1 -> insert_lock(w, <<l>>)
      [] l.start <= w.lock.start /\ w.lock.end <= l.end -> End(w, <<l>>)
      [] OTHER -> [w EXCEPT !.lock = Grow(@, l)]

(* A lock of the other type, or what is unlocked, loses what the new one   *)
(* covers, and may fall in two.                                            *)
Before(w, l) == [l EXCEPT !.end = w.lock.start - 1]
(* Mutant: the byte behind the lock is lost. *)
AfterGap(w, l) == [l EXCEPT !.start = w.lock.end + 2]
After(w, l) == [l EXCEPT !.start = w.lock.end + 1]
OtherType(w, l) ==
    LET head == l.start < w.lock.start
        tail == w.lock.end < l.end
    IN  IF l.end < w.lock.start THEN Keep(w, <<l>>)
        ELSE IF w.lock.end < l.start THEN insert_lock(w, <<l>>)
        ELSE CASE ~head /\ ~tail -> w
               [] head /\ ~tail -> Keep(w, <<Before(w, l)>>)
               [] ~head /\ tail -> insert_lock(w, <<After(w, l)>>)
               [] head /\ tail -> insert_lock(Keep(w, <<Before(w, l)>>), <<After(w, l)>>)

Visit(w, l) ==
    IF w.over \/ l.owner # w.lock.owner THEN Keep(w, <<l>>)
    ELSE IF l.type = w.lock.type THEN SameType(w, l) ELSE OtherType(w, l)

(* Where the loop is after the whole list.                                 *)
Visited(locks, lock) ==
    LET walk[k \in 0 .. Len(locks)] ==
          IF k = 0 THEN [out |-> <<>>, lock |-> lock, over |-> FALSE]
          ELSE Visit(walk[k - 1], locks[k])
    IN  walk[Len(locks)]

locks_insert(locks, lock) ==
    LET w == Visited(locks, lock)
    IN  IF w.over THEN w.out ELSE insert_lock(w, <<>>).out

(* All but the unlock of a whole file allocates first, and may fail.       *)
NeedsMemory(lock, max) == ~(lock.type = "F_UNLCK" /\ lock.start = 0 /\ lock.end = max)
=============================================================================
