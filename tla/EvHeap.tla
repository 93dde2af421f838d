------------------------------ MODULE EvHeap -------------------------------
(***************************************************************************)
(* The heaps of libev (ev.c): the timers and the periodics are kept in an  *)
(* array that is a d-ary heap, d = 4, or 2 in a minimal build.  Every      *)
(* watcher has its index in `active', from which the stop functions find   *)
(* it; position 1 is HEAP0 of the code.                                    *)
(*                                                                         *)
(* A heap is [h |-> sequence of [at, w], act |-> active of every watcher]. *)
(***************************************************************************)
EXTENDS Integers, Sequences

HPARENT(d, k) == IF k = 1 THEN 1 ELSE ((k - 2) \div d) + 1
Children(d, k, n) == {c \in d * (k - 1) + 2 .. d * k + 1 : c <= n}

(* heap [k] = he; ev_active (he.w) = k.                                    *)
Put(e, k, he) == [h |-> [e.h EXCEPT ![k] = he], act |-> [e.act EXCEPT ![he.w] = k]]

(* Away from the root: he sinks below its smallest child, the first of     *)
(* those that are equal.                                                   *)
RECURSIVE sink(_, _, _, _, _)
sink(d, e, n, k, he) ==
    LET cs == Children(d, k, n)
        c == CHOOSE i \in cs : \A j \in cs : \/ e.h[i].at < e.h[j].at
                                             \/ e.h[i].at = e.h[j].at /\ i <= j
    IN  IF cs = {} THEN Put(e, k, he)
        ELSE IF he.at <= e.h[c].at THEN Put(e, k, he)
        ELSE sink(d, Put(e, k, e.h[c]), n, c, he)
downheap(d, e, n, k) == sink(d, e, n, k, e.h[k])

(* Towards the root.                                                       *)
RECURSIVE rise(_, _, _, _)
rise(d, e, k, he) ==
    LET p == HPARENT(d, k)
    IN  IF p = k \/ e.h[p].at <= he.at THEN Put(e, k, he)
        ELSE rise(d, Put(e, k, e.h[p]), p, he)
upheap(d, e, k) == rise(d, e, k, e.h[k])

(* Mutant: what replaces a stopped timer only sinks. *)
adjustdown(d, e, n, k) == downheap(d, e, n, k)
adjustheap(d, e, n, k) ==
    IF k > 1 /\ e.h[HPARENT(d, k)].at >= e.h[k].at THEN upheap(d, e, k)
                                                    ELSE downheap(d, e, n, k)

RECURSIVE reheapFrom(_, _, _)
reheapFrom(d, e, k) == IF k > Len(e.h) THEN e ELSE reheapFrom(d, upheap(d, e, k), k + 1)
reheap(d, e) == reheapFrom(d, e, 1)

(* What ev_timer_start and ev_timer_stop do with the array.                *)
HeapAdd(d, e, w, at) ==
    upheap(d, [h |-> Append(e.h, [at |-> at, w |-> w]), act |-> [e.act EXCEPT ![w] = Len(e.h) + 1]],
           Len(e.h) + 1)
HeapDel(d, e, w) ==
    LET n == Len(e.h) - 1
        k == e.act[w]
        cut == [e EXCEPT !.h = SubSeq(e.h, 1, n)]
    IN  IF k = n + 1 THEN cut ELSE adjustheap(d, [cut EXCEPT !.h[k] = e.h[n + 1]], n, k)
HeapSet(d, e, w, at) == adjustheap(d, [e EXCEPT !.h[e.act[w]].at = at], Len(e.h), e.act[w])

(* verify_heap: every watcher knows its place, and no parent is later than *)
(* its children.                                                           *)
verify_heap(d, e, at) ==
    \A i \in DOMAIN e.h : /\ e.act[e.h[i].w] = i
                          /\ e.h[HPARENT(d, i)].at <= e.h[i].at
                          /\ e.h[i].at = at[e.h[i].w]
=============================================================================
