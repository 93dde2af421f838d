------------------------------ MODULE EvWatch ------------------------------
(***************************************************************************)
(* The watchers of libev (ev.c): how they are started and stopped, where a *)
(* loop keeps them, and the queues of events whose callbacks are due.      *)
(*                                                                         *)
(* The state of a loop is a record L, the arguments of the program are in  *)
(* `case'; the functions of the source are operators from L to L.          *)
(***************************************************************************)
EXTENDS EvHeap, SequencesExt

CONSTANTS MaxPri,      \* priorities are 1 .. MaxPri
          HashSize     \* EV_PID_HASHSIZE
VARIABLE case          \* the watchers of the program and what it does with them:
                       \*   w: name |-> [type, pri, and the fields of the type]

ASSUME WatchAssumption == MaxPri \in Nat \ {0} /\ HashSize \in Nat \ {0}

Pipe == 0              \* evfd
CHLD == "CHLD"
Internal ==
    [pipeev  |-> [type |-> "io", pri |-> MaxPri, fd |-> Pipe, events |-> {"r"}],
     childev |-> [type |-> "signal", pri |-> MaxPri, sig |-> CHLD]]
Def == Internal @@ case.w
W == DOMAIN Def
Of(type) == {w \in W : Def[w].type = type}
Fds == {Def[w].fd : w \in Of("io")}
Sigs == {Def[w].sig : w \in Of("signal")}
Arrays == ({"prepare", "check", "fork", "async"} \X {0}) \cup ({"idle"} \X (1 .. MaxPri))

----------------------------------------------------------------------------
(* ev_feed_event: an event more for a watcher that is pending already.     *)
ev_feed_event(L, w, ev) ==
    LET p == L.pri[w]
    IN  IF L.pend[w] # 0 THEN [L EXCEPT !.q[p][L.pend[w]].ev = @ \cup ev]
        ELSE [L EXCEPT !.q[p] = Append(@, [w |-> w, ev |-> ev]),
                       !.pend[w] = Len(L.q[p]) + 1, !.free = @ \ {w}]
queue_events(L, ws, ev) == FoldLeft(LAMBDA l, w : ev_feed_event(l, w, ev), L, ws)

(* Mutant: only an active watcher loses its event. *)
keep_pending(L, w) ==
    IF L.pend[w] = 0 \/ L.act[w] = 0 THEN L
    ELSE [L EXCEPT !.q[L.pri[w]][L.pend[w]].w = "", !.pend[w] = 0]
clear_pending(L, w) ==
    IF L.pend[w] = 0 THEN L
    ELSE [L EXCEPT !.q[L.pri[w]][L.pend[w]].w = "", !.pend[w] = 0]

pri_adjust(p) == IF p < 1 THEN 1 ELSE IF p > MaxPri THEN MaxPri ELSE p
ev_start(L, w, a) ==
    [L EXCEPT !.act[w] = a, !.pri[w] = pri_adjust(@), !.active = @ + 1, !.free = @ \ {w}]
ev_stop(L, w) == [L EXCEPT !.act[w] = 0, !.active = @ - 1]

wlist_add(l, w) == <<w>> \o l
wlist_del(l, w) == SelectSeq(l, LAMBDA x : x # w)

----------------------------------------------------------------------------
(* Descriptors.  A change is queued once, until fd_reify has seen it; a    *)
(* watcher that only writes sets no flag.                                  *)
fd_change(L, fd, flags) ==
    [L EXCEPT !.fds[fd].reify = @ \cup flags,
              !.chg = IF L.fds[fd].reify = {} THEN Append(@, fd) ELSE @]

ev_io_start(L, w) ==
    LET fd == Def[w].fd
        flags == (IF L.fdset[w] THEN {"fdset"} ELSE {}) \cup (IF "r" \in Def[w].events THEN {"1"} ELSE {})
    IN  IF L.act[w] # 0 THEN L
        ELSE fd_change([ev_start(L, w, 1) EXCEPT !.fds[fd].head = wlist_add(@, w), !.fdset[w] = FALSE],
                       fd, flags)
ev_io_stop(L, w) ==
    LET l == clear_pending(L, w)
        fd == Def[w].fd
    IN  IF L.act[w] = 0 THEN l
        ELSE fd_change(ev_stop([l EXCEPT !.fds[fd].head = wlist_del(@, w)], w), fd, {"1"})

fd_event(L, fd, ev) ==
    FoldLeft(LAMBDA l, w : IF Def[w].events \cap ev = {} THEN l
                           ELSE ev_feed_event(l, w, Def[w].events \cap ev), L, L.fds[fd].head)
fd_kill(L, fd) ==
    FoldLeft(LAMBDA l, w : ev_feed_event(ev_io_stop(l, w), w, {"error", "r", "w"}), L, L.fds[fd].head)
fd_rearm_all(L) ==
    FoldLeft(LAMBDA l, fd : IF l.fds[fd].events = {} THEN l
                            ELSE fd_change([l EXCEPT !.fds[fd].events = {}, !.fds[fd].emask = {}],
                                           fd, {"fdset", "1"}),
             L, SetToSortSeq(Fds, <))

(* evpipe_init, with ev_unref: the pipe does not keep the loop alive.      *)
evpipe_init(L) ==
    IF L.act["pipeev"] # 0 THEN L
    ELSE [ev_io_start([L EXCEPT !.fdset["pipeev"] = TRUE], "pipeev") EXCEPT !.active = @ - 1]

----------------------------------------------------------------------------
(* Timers and periodics.                                                   *)
Heap(L, field) == [h |-> L[field], act |-> L.act]
WithTimers(L, e) == [L EXCEPT !.timers = e.h, !.act = e.act]
WithPeriodics(L, e) == [L EXCEPT !.periodics = e.h, !.act = e.act]

ev_timer_start(L, w) ==
    IF L.act[w] # 0 THEN L
    ELSE WithTimers([ev_start(L, w, 1) EXCEPT !.at[w] = @ + L.mn_now],
                    HeapAdd(case.dheap, Heap(L, "timers"), w, L.at[w] + L.mn_now))
ev_timer_stop(L, w) ==
    LET l == clear_pending(L, w)
    IN  IF L.act[w] = 0 THEN l
        ELSE ev_stop([WithTimers(l, HeapDel(case.dheap, Heap(l, "timers"), w))
                        EXCEPT !.at[w] = @ - L.mn_now], w)
ev_timer_again(L, w) ==
    LET r == Def[w].repeat
    IN  IF L.act[w] = 0
        THEN IF r = 0 THEN L ELSE ev_timer_start([L EXCEPT !.at[w] = r], w)
        ELSE IF r = 0 THEN ev_timer_stop(L, w)
        ELSE WithTimers([L EXCEPT !.at[w] = L.mn_now + r],
                        HeapSet(case.dheap, Heap(L, "timers"), w, L.mn_now + r))

(* The next time of a periodic: the program's choice, or the next multiple *)
(* of the interval; without either it is the offset, once.                 *)
ceil(n, d) == -((-n) \div d)
Multiple(L, w) == Def[w].offset + ceil(L.rt_now - Def[w].offset, Def[w].interval) * Def[w].interval
NextTime(L, w) ==
    IF Def[w].resched THEN L.rt_now + Def[w].offset
    ELSE IF Def[w].interval # 0 THEN Multiple(L, w) ELSE Def[w].offset

ev_periodic_start(L, w) ==
    IF L.act[w] # 0 THEN L
    ELSE WithPeriodics([ev_start(L, w, 1) EXCEPT !.at[w] = NextTime(L, w)],
                       HeapAdd(case.dheap, Heap(L, "periodics"), w, NextTime(L, w)))
ev_periodic_stop(L, w) ==
    LET l == clear_pending(L, w)
    IN  IF L.act[w] = 0 THEN l
        ELSE ev_stop(WithPeriodics(l, HeapDel(case.dheap, Heap(l, "periodics"), w)), w)
ev_periodic_again(L, w) == ev_periodic_start(ev_periodic_stop(L, w), w)

----------------------------------------------------------------------------
(* Signals and children.                                                   *)
ev_signal_start(L, w) ==
    IF L.act[w] # 0 THEN L
    ELSE [ev_start(evpipe_init(L), w, 1) EXCEPT !.sigs[Def[w].sig] = wlist_add(@, w)]
ev_signal_stop(L, w) ==
    LET l == clear_pending(L, w)
    IN  IF L.act[w] = 0 THEN l
        ELSE ev_stop([l EXCEPT !.sigs[Def[w].sig] = wlist_del(@, w)], w)
ev_feed_signal_event(L, s) == queue_events(L, L.sigs[s], {"signal"})

ev_child_start(L, w) ==
    IF L.act[w] # 0 THEN L
    ELSE [ev_start(L, w, 1) EXCEPT !.childs[Def[w].pid % HashSize] = wlist_add(@, w)]
ev_child_stop(L, w) ==
    LET l == clear_pending(L, w)
    IN  IF L.act[w] = 0 THEN l
        ELSE ev_stop([l EXCEPT !.childs[Def[w].pid % HashSize] = wlist_del(@, w)], w)
child_reap(L, chain, pid) ==
    FoldLeft(LAMBDA l, w : IF Def[w].pid \notin {0, pid} THEN l
                           ELSE ev_feed_event([l EXCEPT !.pri[w] = MaxPri], w, {"child"}),
             L, L.childs[chain % HashSize])

----------------------------------------------------------------------------
(* The arrays: idle, one per priority, prepare, check, fork and async.     *)
(* The last one takes the place of one that is stopped.                    *)
Array(L, w) == IF Def[w].type = "idle" THEN <<"idle", pri_adjust(L.pri[w])>> ELSE <<Def[w].type, 0>>
array_start(L, w) ==
    LET a == Array(L, w)
    IN  IF L.act[w] # 0 THEN L
        ELSE [ev_start(L, w, Len(L.arr[a]) + 1) EXCEPT !.arr[a] = Append(@, w)]
array_stop(L, w) ==
    LET a == Array(L, w)
        l == clear_pending(L, w)
        last == Last(L.arr[a])
    IN  IF L.act[w] = 0 THEN l
        ELSE ev_stop([l EXCEPT !.arr[a] = Front([@ EXCEPT ![L.act[w]] = last]),
                               !.act[last] = L.act[w]], w)
ev_idle_start(L, w) == array_start(L, w)
ev_idle_stop(L, w) == array_stop(L, w)
ev_prepare_start(L, w) == array_start(L, w)
ev_prepare_stop(L, w) == array_stop(L, w)
ev_check_start(L, w) == array_start(L, w)
ev_check_stop(L, w) == array_stop(L, w)
ev_fork_start(L, w) == array_start(L, w)
ev_fork_stop(L, w) == array_stop(L, w)
ev_async_start(L, w) == IF L.act[w] # 0 THEN L ELSE array_start(evpipe_init(L), w)
ev_async_stop(L, w) == array_stop(L, w)

Start(L, w) ==
    CASE Def[w].type = "io" -> ev_io_start(L, w)
      [] Def[w].type = "timer" -> ev_timer_start(L, w)
      [] Def[w].type = "periodic" -> ev_periodic_start(L, w)
      [] Def[w].type = "signal" -> ev_signal_start(L, w)
      [] Def[w].type = "child" -> ev_child_start(L, w)
      [] Def[w].type = "idle" -> ev_idle_start(L, w)
      [] Def[w].type = "prepare" -> ev_prepare_start(L, w)
      [] Def[w].type = "check" -> ev_check_start(L, w)
      [] Def[w].type = "fork" -> ev_fork_start(L, w)
      [] Def[w].type = "async" -> ev_async_start(L, w)
StopAny(L, w) ==
    CASE Def[w].type = "io" -> ev_io_stop(L, w)
      [] Def[w].type = "timer" -> ev_timer_stop(L, w)
      [] Def[w].type = "periodic" -> ev_periodic_stop(L, w)
      [] Def[w].type = "signal" -> ev_signal_stop(L, w)
      [] Def[w].type = "child" -> ev_child_stop(L, w)
      [] Def[w].type = "idle" -> ev_idle_stop(L, w)
      [] Def[w].type = "prepare" -> ev_prepare_stop(L, w)
      [] Def[w].type = "check" -> ev_check_stop(L, w)
      [] Def[w].type = "fork" -> ev_fork_stop(L, w)
      [] Def[w].type = "async" -> ev_async_stop(L, w)

(* The program may free a watcher it has stopped.                          *)
Stop(L, w) == [StopAny(L, w) EXCEPT !.free = @ \cup {w}]
=============================================================================
