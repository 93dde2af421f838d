------------------------------- MODULE EvLoop -------------------------------
(***************************************************************************)
(* libev's default loop (ev_loop in ev.c), with the program's callbacks,   *)
(* the signal handler, threads that call ev_async_send, the clocks and the *)
(* kernel around it.  A step of the loop ends where somebody else can be   *)
(* noticed: before a callback, around a wait, inside pipecb.               *)
(***************************************************************************)
EXTENDS EvBackend, FiniteSets

CONSTANTS Cases        \* what to look at, see EvWatch for w, and
                       \*   begin: the watchers the program starts before ev_loop
                       \*   acts: watcher |-> what its callback may do
                       \*   budget: bounds on what happens outside, kind |-> Nat
                       \*   backends, dheap, dup, mono, jump, nonblock

ASSUME CasesAssumption ==
    \A c \in Cases : c.dheap \in Nat \ {0} /\ c.backends # {} /\ c.jump \in Int

MINJUMP == 2           \* MIN_TIMEJUMP, in half seconds like every time here
MAXBLOCK == 3          \* MAX_BLOCKTIME
Inf == 1000            \* 1e100

VARIABLES
    L,          \* the loop, see EvWatch
    F, R,       \* descriptors and readiness, see EvBackend
    old,        \* files that are closed here and open elsewhere
    clk,        \* the clocks, mn and rt
    sig,        \* gotsig, gotasync and per signal and async watcher its flag
    sender,     \* the thread in ev_async_send: its line and its watcher
    zombies,    \* children that have exited and are not reaped
    owed,       \* watchers with a signal, async or child event on the way
    pc, cont, lvl, wait,   \* the loop: line, line after call_pending, pri, and
                \*   of the wait its length (waittime + sleeptime) and its end
    left        \* the budget that is left

lvars == <<L, pc, cont, lvl, wait>>
evars == <<F, R, old, clk, sig, sender, zombies, owed, left>>
vars == <<case, lvars, evars>>

----------------------------------------------------------------------------
(* The clocks.  The time of day is only read twice a second and otherwise  *)
(* derived; when it has jumped the periodics are set anew.  Without a      *)
(* monotonic clock a jump is guessed from how long the loop can have slept.*)
RECURSIVE setPeriodics(_, _)
setPeriodics(l, i) ==
    IF i > Len(l.periodics) THEN l
    ELSE LET w == l.periodics[i].w
             t == IF Def[w].resched \/ Def[w].interval # 0 THEN NextTime(l, w) ELSE l.at[w]
         IN  setPeriodics([l EXCEPT !.at[w] = t, !.periodics[i].at = t], i + 1)
periodics_reschedule(l) ==
    LET s == setPeriodics(l, 1) IN WithPeriodics(s, reheap(case.dheap, Heap(s, "periodics")))

Abs(n) == IF n < 0 THEN -n ELSE n
moveTimers(l, by) ==
    [l EXCEPT !.at = [w \in W |-> IF Def[w].type = "timer" /\ l.act[w] # 0 THEN @[w] + by ELSE @[w]],
              !.timers = [i \in DOMAIN @ |-> [@[i] EXCEPT !.at = @ + by]]]

time_update(l, max_block) ==
    LET rt == clk.rt
        mn == clk.mn
        diff == rt - mn
        read == [l EXCEPT !.mn_now = mn, !.now_floor = mn, !.rt_now = rt, !.rtmn_diff = diff]
        jumped == l.mn_now > rt \/ rt > l.mn_now + max_block + MINJUMP
        moved == moveTimers(periodics_reschedule([l EXCEPT !.rt_now = rt]), rt - l.mn_now)
    IN  IF case.mono
        THEN IF 2 * (mn - l.now_floor) < MINJUMP
             THEN [l EXCEPT !.mn_now = mn, !.rt_now = l.rtmn_diff + mn]
             ELSE IF Abs(l.rtmn_diff - diff) < MINJUMP THEN read ELSE periodics_reschedule(read)
        ELSE [(IF jumped THEN moved ELSE l) EXCEPT !.rt_now = rt, !.mn_now = rt]

(* A timer that is over is set again, or stopped, and its event is queued. *)
Ahead(l, w) == IF l.at[w] + Def[w].repeat < l.mn_now THEN l.mn_now ELSE l.at[w] + Def[w].repeat
RECURSIVE timers_reify(_)
timers_reify(l) ==
    IF l.timers = <<>> \/ l.timers[1].at >= l.mn_now THEN l
    ELSE LET w == l.timers[1].w
             again == WithTimers([l EXCEPT !.at[w] = Ahead(l, w)],
                                 downheap(case.dheap, [Heap(l, "timers") EXCEPT !.h[1].at = Ahead(l, w)],
                                          Len(l.timers), 1))
         IN  timers_reify(ev_feed_event(IF Def[w].repeat # 0 THEN again ELSE ev_timer_stop(l, w),
                                        w, {"timeout"}))

Later(l, w) ==
    IF Def[w].resched THEN NextTime(l, w)
    ELSE LET t == Multiple(l, w)
         IN  IF t > l.rt_now THEN t
             ELSE IF t + Def[w].interval < l.rt_now THEN l.rt_now ELSE t + Def[w].interval
RECURSIVE periodics_reify(_)
periodics_reify(l) ==
    IF l.periodics = <<>> \/ l.periodics[1].at >= l.rt_now THEN l
    ELSE LET w == l.periodics[1].w
             again == WithPeriodics([l EXCEPT !.at[w] = Later(l, w)],
                                    downheap(case.dheap, [Heap(l, "periodics") EXCEPT !.h[1].at = Later(l, w)],
                                             Len(l.periodics), 1))
         IN  periodics_reify(ev_feed_event(IF Def[w].resched \/ Def[w].interval # 0 THEN again
                                           ELSE ev_periodic_stop(l, w), w, {"periodic"}))

(* Idle watchers, unless something of their priority or above is pending.  *)
Idle(l, p) == l.arr[<<"idle", p>>]
idleall(l) == \E p \in 1 .. MaxPri : Idle(l, p) # <<>>
idle_reify(l) ==
    LET ps == {p \in 1 .. MaxPri : l.q[p] # <<>> \/ Idle(l, p) # <<>>}
        top == CHOOSE p \in ps : \A o \in ps : o <= p
    IN  IF ~idleall(l) \/ l.q[top] # <<>> THEN l ELSE queue_events(l, Idle(l, top), {"idle"})

----------------------------------------------------------------------------
(* ev_default_loop_init: the loop with the watcher of SIGCHLD and the pipe.*)
Empty ==
    [act |-> [w \in W |-> 0], pend |-> [w \in W |-> 0], pri |-> [w \in W |-> Def[w].pri],
     q |-> [p \in 1 .. MaxPri |-> <<>>], active |-> 0,
     fds |-> [fd \in Fds |-> [head |-> <<>>, events |-> {}, reify |-> {}, emask |-> {}, egen |-> 0]],
     fdset |-> [w \in W |-> TRUE], chg |-> <<>>,
     timers |-> <<>>, periodics |-> <<>>,
     at |-> [w \in W |-> IF Def[w].type = "timer" THEN Def[w].at ELSE 0],
     sigs |-> [s \in Sigs |-> <<>>], childs |-> [i \in 0 .. HashSize - 1 |-> <<>>],
     arr |-> [a \in Arrays |-> <<>>],
     mn_now |-> 0, rt_now |-> 0, now_floor |-> 0, rtmn_diff |-> 0,
     postfork |-> FALSE, done |-> FALSE,
     reg |-> {}, vec |-> [fd \in Fds |-> {}], polls |-> <<>>, pollidxs |-> [fd \in Fds |-> 0],
     changes |-> <<>>, stale |-> FALSE, free |-> {}]
ev_default_loop_init == [ev_signal_start(Empty, "childev") EXCEPT !.active = @ - 1]

Init ==
    /\ case \in Cases
    /\ L = ev_default_loop_init
    /\ F = [fd \in Fds |-> <<fd, 0>>] /\ R = {} /\ old = {}
    /\ clk = [mn |-> 0, rt |-> 0]
    /\ sig = [got |-> FALSE, gotasync |-> FALSE, of |-> [x \in Sigs \cup Of("async") |-> FALSE]]
    /\ sender = [at |-> "out", w |-> ""]
    /\ zombies = {} /\ owed = {}
    /\ pc = "begin" /\ cont = "" /\ lvl = 0 /\ wait = [time |-> 0, ends |-> 0]
    /\ left = case.budget

Begin ==
    /\ pc = "begin"
    /\ L' = FoldLeft(Start, L, case.begin)
    /\ pc' = "call" /\ lvl' = MaxPri /\ cont' = "top"
    /\ UNCHANGED <<case, wait, evars>>

----------------------------------------------------------------------------
(* Outside the loop.  A write to the pipe happens unless the flag is set.  *)
PipeReady == <<F[Pipe], "r">>

(* ev_sighandler, in the loop's thread between two of its steps.           *)
RaiseAll(s) ==
    /\ sig' = [sig EXCEPT !.of[s] = TRUE, !.got = TRUE]
    /\ R' = IF sig.got THEN R ELSE R \cup {PipeReady}
Raise(s) ==
    /\ left["signal"] > 0 /\ s # CHLD /\ L.sigs[s] # <<>>
    /\ RaiseAll(s)
    /\ left' = [left EXCEPT !["signal"] = @ - 1]
    /\ owed' = owed \cup ToSet(L.sigs[s])
    /\ UNCHANGED <<case, lvars, F, old, clk, sender, zombies>>

Exit(pid) ==
    /\ left["child"] > 0 /\ pid \notin zombies
    /\ zombies' = zombies \cup {pid}
    /\ RaiseAll(CHLD)
    /\ left' = [left EXCEPT !["child"] = @ - 1]
    /\ owed' = owed \cup {w \in Of("child") : L.act[w] # 0 /\ Def[w].pid \in {0, pid}}
    /\ UNCHANGED <<case, lvars, F, old, clk, sender>>

(* ev_async_send in another thread: the flag of the watcher, then          *)
(* evpipe_write in three steps.                                            *)
ev_async_send(w) ==
    /\ sender.at = "out" /\ left["async"] > 0 /\ L.act[w] # 0
    /\ sig' = [sig EXCEPT !.of[w] = TRUE]
    /\ sender' = [at |-> "test", w |-> w]
    /\ left' = [left EXCEPT !["async"] = @ - 1]
    /\ owed' = owed \cup {w}
    /\ UNCHANGED <<case, lvars, F, R, old, clk, zombies>>
evpipe_write ==
    /\ \/ /\ sender.at = "test"
          /\ sender' = IF sig.gotasync THEN [at |-> "out", w |-> ""] ELSE [sender EXCEPT !.at = "set"]
          /\ UNCHANGED <<sig, R>>
       \/ /\ sender.at = "set"
          /\ sig' = [sig EXCEPT !.gotasync = TRUE]
          /\ sender' = [sender EXCEPT !.at = "write"] /\ UNCHANGED R
       \/ /\ sender.at = "write"
          /\ R' = R \cup {PipeReady}
          /\ sender' = [at |-> "out", w |-> ""] /\ UNCHANGED sig
    /\ UNCHANGED <<case, lvars, F, old, clk, zombies, owed, left>>

Files == ({F[fd] : fd \in Fds \ {Pipe}} \ {None}) \cup old
BecomesReady(f, e) ==
    /\ left["ready"] > 0 /\ <<f, e>> \notin R
    /\ R' = R \cup {<<f, e>>}
    /\ left' = [left EXCEPT !["ready"] = @ - 1]
    /\ UNCHANGED <<case, lvars, F, old, clk, sig, sender, zombies, owed>>

Tick ==
    /\ left["time"] > 0
    /\ clk' = [mn |-> clk.mn + 1, rt |-> clk.rt + 1]
    /\ left' = [left EXCEPT !["time"] = @ - 1]
    /\ UNCHANGED <<case, lvars, F, R, old, sig, sender, zombies, owed>>
TimeJump ==
    /\ left["jump"] > 0
    /\ clk' = [clk EXCEPT !.rt = @ + case.jump]
    /\ left' = [left EXCEPT !["jump"] = @ - 1]
    /\ UNCHANGED <<case, lvars, F, R, old, sig, sender, zombies, owed>>

----------------------------------------------------------------------------
(* What a callback of the program does with watchers and descriptors.      *)
Close(l, fd) ==
    [l EXCEPT !.reg = IF loop_init = "epoll" /\ case.dup THEN @
                      ELSE {r \in @ : r.fd # fd \/ (loop_init = "epoll" /\ r.file # F[fd])}]
Reopen(l, x) ==
    ev_io_start([Close(ev_io_stop(l, x), Def[x].fd) EXCEPT !.fdset[x] = TRUE], x)

Files2(a) == IF a.do = "reopen" THEN [F EXCEPT ![Def[a.x].fd] = <<@[1], @[2] + 1>>]
             ELSE IF a.do = "close" THEN [F EXCEPT ![Def[a.x].fd] = None] ELSE F
Done(l, a) ==
    CASE a.do = "start" -> Start(l, a.x)
      [] a.do = "stop" -> Stop(l, a.x)
      [] a.do = "again" -> IF Def[a.x].type = "timer" THEN ev_timer_again(l, a.x)
                                                      ELSE ev_periodic_again(l, a.x)
      [] a.do = "feed" -> ev_feed_event(l, a.x, {"custom"})
      [] a.do = "reopen" -> Reopen(l, a.x)
      [] a.do = "close" -> Close(l, Def[a.x].fd)
      [] a.do = "fork" -> [l EXCEPT !.postfork = TRUE]
      [] a.do = "unloop" -> [l EXCEPT !.done = TRUE]

Acts(w) == IF w \in DOMAIN case.acts THEN case.acts[w] ELSE {}
Consumed(w, ev) ==
    IF Def[w].type # "io" THEN R ELSE R \ ({F[Def[w].fd]} \X (ev \cup {"hup"}))
Callback(l, w, ev) ==
    /\ R' = Consumed(w, ev)
    /\ \/ L' = l /\ owed' = owed \ {w} /\ UNCHANGED <<F, old, left>>
       \/ /\ left["act"] > 0 /\ left' = [left EXCEPT !["act"] = @ - 1]
          /\ \E a \in Acts(w) :
               /\ a.do \in {"reopen", "close"} => F[Def[a.x].fd] # None
               /\ L' = Done(l, a) /\ F' = Files2(a)
               /\ old' = IF F' # F /\ case.dup THEN old \cup {F[Def[a.x].fd]} ELSE old
               /\ owed' = owed \ (IF a.do = "stop" THEN {w, a.x} ELSE {w})

(* once_cb: both watchers of an ev_once are stopped and freed before the   *)
(* program hears of it.                                                    *)
once_cb(l, w) == Stop(Stop(clear_pending(l, Def[w].once), w), Def[w].once)
IsOnce(w) == "once" \in DOMAIN Def[w]

(* childcb reaps one child and has itself called again.                    *)
(* Mutant: it is not called again. *)
CallOnce(l) == l
CallAgain(l) == ev_feed_event(l, "childev", {"signal"})
childcb(l, pid) == child_reap(child_reap(CallAgain(l), pid, pid), 0, pid)

(* call_pending: from the highest priority down and not up again, the last *)
(* event of a queue first.  A stopped watcher leaves a hole.               *)
Level == {p \in 1 .. lvl : L.q[p] # <<>>}
call_pending ==
    /\ pc = "call"
    /\ IF Level = {} THEN pc' = cont /\ lvl' = 0 /\ UNCHANGED <<L, evars>>
       ELSE \E p \in {CHOOSE p \in Level : \A o \in Level : o <= p} :
            \E e \in {Last(L.q[p])} :
            \E l \in {[L EXCEPT !.q[p] = Front(@),
                                !.pend = IF e.w = "" THEN @ ELSE [@ EXCEPT ![e.w] = 0]]} :
              /\ lvl' = p
              /\ IF e.w = "" THEN L' = l /\ UNCHANGED <<pc, evars>>
                 ELSE IF e.w = "pipeev" THEN L' = l /\ pc' = "read" /\ UNCHANGED evars
                 ELSE /\ UNCHANGED <<clk, sig, sender, pc>>
                      /\ IF e.w = "childev"
                         THEN /\ IF zombies = {} THEN L' = l /\ UNCHANGED zombies
                                 ELSE \E pid \in zombies : /\ zombies' = zombies \ {pid}
                                                           /\ L' = childcb(l, pid)
                              /\ UNCHANGED <<F, R, old, owed, left>>
                         ELSE /\ UNCHANGED zombies
                              /\ IF IsOnce(e.w)
                                 THEN /\ L' = once_cb(l, e.w) /\ R' = Consumed(e.w, e.ev)
                                      /\ UNCHANGED <<F, old, left, owed>>
                                 ELSE Callback(l, e.w, e.ev)
    /\ UNCHANGED <<case, cont, wait>>

(* pipecb: empty the pipe, then for the signals and for the async watchers *)
(* clear the flag and look who was meant.                                  *)
pipecb_read ==
    /\ pc = "read"
    /\ R' = R \ {PipeReady}
    /\ pc' = "gotsig"
    /\ UNCHANGED <<case, L, cont, lvl, wait, F, old, clk, sig, sender, zombies, owed, left>>
pipecb_sig ==
    /\ pc = "gotsig"
    /\ sig' = [sig EXCEPT !.got = FALSE]
    /\ pc' = IF sig.got THEN "scansig" ELSE "gotasync"
    /\ UNCHANGED <<case, L, cont, lvl, wait, F, R, old, clk, sender, zombies, owed, left>>
pipecb_signals ==
    /\ pc = "scansig"
    /\ L' = FoldLeft(LAMBDA l, s : ev_feed_signal_event(l, s), L, SetToSeq({s \in Sigs : sig.of[s]}))
    /\ sig' = [sig EXCEPT !.of = [x \in DOMAIN @ |-> @[x] /\ x \notin Sigs]]
    /\ pc' = "gotasync"
    /\ UNCHANGED <<case, cont, lvl, wait, F, R, old, clk, sender, zombies, owed, left>>
PipeReturn == IF lvl = 0 THEN "reify" ELSE "call"
pipecb_async ==
    /\ pc = "gotasync"
    /\ sig' = [sig EXCEPT !.gotasync = FALSE]
    /\ pc' = IF sig.gotasync THEN "scanasync" ELSE PipeReturn
    /\ UNCHANGED <<case, L, cont, lvl, wait, F, R, old, clk, sender, zombies, owed, left>>
pipecb_asyncs ==
    /\ pc = "scanasync"
    /\ LET hit == SelectSeq(L.arr[<<"async", 0>>], LAMBDA w : sig.of[w])
       IN  /\ L' = queue_events(L, Reverse(hit), {"async"})
           /\ sig' = [sig EXCEPT !.of = [x \in DOMAIN @ |-> @[x] /\ x \notin ToSet(hit)]]
    /\ pc' = PipeReturn
    /\ UNCHANGED <<case, cont, lvl, wait, F, R, old, clk, sender, zombies, owed, left>>

----------------------------------------------------------------------------
(* ev_loop.                                                                *)
Queue(name, next) ==
    LET ws == L.arr[<<name, 0>>]
    IN  /\ L' = queue_events(L, ws, {name})
        /\ pc' = IF ws = <<>> THEN next ELSE "call"
        /\ lvl' = IF ws = <<>> THEN 0 ELSE MaxPri
        /\ cont' = next

ev_loop_top ==
    /\ pc = "top"
    /\ IF L.postfork THEN Queue("fork", "prepare")
       ELSE pc' = "prepare" /\ UNCHANGED <<L, lvl, cont>>
    /\ UNCHANGED <<case, wait, evars>>
ev_loop_prepare ==
    /\ pc = "prepare"
    /\ Queue("prepare", "active")
    /\ UNCHANGED <<case, wait, evars>>

(* loop_fork: the kernel's state and the pipe anew, then pipecb in case a  *)
(* signal got lost.                                                        *)
loop_fork(l) ==
    [evpipe_init(ev_io_stop([backend_fork(l) EXCEPT !.active = @ + 1], "pipeev")) EXCEPT !.postfork = FALSE]
ev_loop_active ==
    /\ pc = "active"
    /\ IF L.active = 0 THEN pc' = "done" /\ UNCHANGED <<L, sig, R>>
       ELSE IF ~L.postfork THEN pc' = "reify" /\ UNCHANGED <<L, sig, R>>
       ELSE /\ L' = loop_fork(L)
            /\ sig' = [sig EXCEPT !.got = TRUE, !.gotasync = TRUE]
            /\ R' = R \ {PipeReady}
            /\ pc' = "read"
    /\ lvl' = 0
    /\ UNCHANGED <<case, cont, wait, F, old, clk, sender, zombies, owed, left>>

Min2(a, b) == IF a < b THEN a ELSE b
waittime(l) ==
    LET t == IF l.timers = <<>> THEN MAXBLOCK ELSE Min2(MAXBLOCK, l.timers[1].at - l.mn_now)
        p == IF l.periodics = <<>> THEN t ELSE Min2(t, l.periodics[1].at - l.rt_now)
    IN  IF p < 0 THEN 0 ELSE p
Waits(l) == ~case.nonblock /\ ~idleall(l) /\ l.active # 0
ev_loop_block ==
    /\ pc = "reify"
    /\ \E l \in {fd_reify(L, F)} :
       \E u \in {IF Waits(l) THEN time_update(l, Inf) ELSE l} :
       \E t \in {IF Waits(l) THEN waittime(u) ELSE 0} :
         L' = u /\ wait' = [time |-> t, ends |-> clk.mn + t]
    /\ pc' = "poll"
    /\ UNCHANGED <<case, cont, lvl, evars>>

(* The wait is over because of an event or the time, or a signal has ended *)
(* it (EINTR; only looked at when the clocks have come to their bound).    *)
(* ENOMEM is one of the errors of select and poll.                         *)
WaitOver == Polled(L, F, R) \/ clk.mn >= wait.ends \/ left["time"] = 0
ev_loop_poll ==
    /\ pc = "poll"
    /\ \/ /\ WaitOver
          /\ \E l \in {backend_poll(L, F, R)} :
             \E t \in {time_update(l, wait.time)} :
             \E s \in {periodics_reify(timers_reify(t))} :
             \E i \in {idle_reify(s)} : L' = queue_events(i, i.arr[<<"check", 0>>], {"check"})
          /\ UNCHANGED left
       \/ /\ left["nomem"] > 0 /\ loop_init \in {"select", "poll"}
          /\ L' = fd_enomem(L)
          /\ left' = [left EXCEPT !["nomem"] = @ - 1]
    /\ pc' = "call" /\ lvl' = MaxPri /\ cont' = "end"
    /\ UNCHANGED <<case, wait, F, R, old, clk, sig, sender, zombies, owed>>

ev_loop_end ==
    /\ pc = "end"
    /\ pc' = IF L.active # 0 /\ ~L.done /\ ~case.nonblock THEN "top" ELSE "done"
    /\ UNCHANGED <<case, L, cont, lvl, wait, evars>>

LoopStep ==
    \/ Begin \/ call_pending
    \/ pipecb_read \/ pipecb_sig \/ pipecb_signals \/ pipecb_async \/ pipecb_asyncs
    \/ ev_loop_top \/ ev_loop_prepare \/ ev_loop_active \/ ev_loop_block \/ ev_loop_poll
    \/ ev_loop_end

Next ==
    \/ LoopStep \/ evpipe_write
    \/ \E s \in Sigs : Raise(s)
    \/ \E pid \in 1 .. 2 : Exit(pid)
    \/ \E w \in Of("async") : ev_async_send(w)
    \/ \E f \in Files : \E e \in {"r", "w", "hup"} : BecomesReady(f, e)
    \/ Tick \/ TimeJump

(* The thread of the loop runs unless the kernel makes it wait, a thread   *)
(* in ev_async_send gets to its end, and time passes.                      *)
Able == pc # "done" /\ (pc = "poll" => WaitOver)
Fairness ==
    /\ []<>(~Able) \/ []<><<lvars' # lvars>>_vars
    /\ WF_vars(evpipe_write)
    /\ []<>(left["time"] = 0) \/ []<><<clk'.mn # clk.mn>>_vars
Spec == Init /\ [][Next]_vars /\ Fairness

----------------------------------------------------------------------------
(* The assertions of ev_loop_verify.                                       *)
verify_watcher(w) == L.pri[w] \in 1 .. MaxPri /\ (L.pend[w] # 0 => L.q[L.pri[w]][L.pend[w]].w = w)
array_verify(a) == \A i \in DOMAIN a : L.act[a[i]] = i
ev_loop_verify ==
    /\ \A w \in W : verify_watcher(w)
    /\ \A fd \in Fds : \A w \in ToSet(L.fds[fd].head) : L.act[w] = 1 /\ Def[w].fd = fd
    /\ verify_heap(case.dheap, Heap(L, "timers"), L.at)
    /\ verify_heap(case.dheap, Heap(L, "periodics"), L.at)
    /\ \A a \in Arrays : array_verify(L.arr[a])

(* What ev_loop_verify asserts, and what it leaves out: whatever is kept   *)
(* twice agrees.  An event in a queue is the one its watcher knows of; an  *)
(* active watcher is where its kind belongs; the array of poll and its     *)
(* index agree; activecnt, which ends the loop, counts the active ones.    *)
Active(type) == {w \in Of(type) : L.act[w] # 0}
Verified ==
    /\ ev_loop_verify
    /\ \A p \in 1 .. MaxPri : \A i \in DOMAIN L.q[p] :
          L.q[p][i].w # "" => L.pend[L.q[p][i].w] = i /\ L.pri[L.q[p][i].w] = p
    /\ UNION {ToSet(L.fds[fd].head) : fd \in Fds} = Active("io")
    /\ {L.timers[i].w : i \in DOMAIN L.timers} = Active("timer")
    /\ {L.periodics[i].w : i \in DOMAIN L.periodics} = Active("periodic")
    /\ \A i \in DOMAIN L.polls : L.pollidxs[L.polls[i].fd] = i
    /\ Cardinality({fd \in Fds : L.pollidxs[fd] # 0}) = Len(L.polls)
    /\ L.active = Cardinality({w \in DOMAIN case.w : L.act[w] # 0})

(* A watcher the program has stopped may be freed: nothing of the loop     *)
(* leads to it any more, and its callback is not called.                   *)
Reaches(w) ==
    \/ \E p \in 1 .. MaxPri : \E i \in DOMAIN L.q[p] : L.q[p][i].w = w
    \/ \E fd \in Fds : w \in ToSet(L.fds[fd].head)
    \/ \E i \in DOMAIN L.timers : L.timers[i].w = w
    \/ \E i \in DOMAIN L.periodics : L.periodics[i].w = w
    \/ \E s \in Sigs : w \in ToSet(L.sigs[s])
    \/ \E i \in DOMAIN L.childs : w \in ToSet(L.childs[i])
    \/ \E a \in Arrays : w \in ToSet(L.arr[a])
StoppedSilent == \A w \in L.free : ~Reaches(w)

(* No watcher hears of a file its descriptor stands for no more, although  *)
(* epoll keeps what was registered for a file that is open elsewhere.      *)
RightFile == ~L.stale

(* Something is due for a watcher: an event is queued or on its way, its   *)
(* time is over by the clock it is kept with, or its descriptor is ready.  *)
(* (Beside a monotonic clock the time of day is what the loop last read.)  *)
Due(w) ==
    /\ pc # "done" /\ w \in W
    /\ \/ w \in owed \/ L.pend[w] # 0
       \/ /\ L.act[w] # 0
          /\ \/ Def[w].type = "timer" /\ L.at[w] < (IF case.mono THEN clk.mn ELSE clk.rt)
             \/ Def[w].type = "periodic" /\ L.at[w] < (IF case.mono THEN L.rt_now ELSE clk.rt)
             \/ /\ Def[w].type = "io" /\ F[Def[w].fd] # None
                /\ \E e \in Def[w].events \cup {"hup"} : <<F[Def[w].fd], e>> \in R
Names == {"pipeev", "childev"} \cup UNION {DOMAIN c.w : c \in Cases}

(* What is due is delivered, unless the loop ends.                         *)
Delivered == \A w \in Names : Due(w) ~> ~Due(w)
=============================================================================
