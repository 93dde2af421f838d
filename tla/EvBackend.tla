----------------------------- MODULE EvBackend -----------------------------
(***************************************************************************)
(* The backends of libev: how the wishes of the watchers get to the kernel *)
(* (backend_modify, from fd_reify) and how its answers get to the watchers *)
(* (backend_poll).  F is the descriptor table of the process: the file of  *)
(* a descriptor, None if it is closed.  R is what is ready, as pairs of a  *)
(* file and "r", "w" or "hup".  What belongs to the kernel is in L.reg,    *)
(* the registrations behind backend_fd.                                    *)
(***************************************************************************)
EXTENDS EvWatch

None == <<>>

Answer(R, f, mask) ==
    (IF <<f, "hup">> \in R THEN {"r", "w"} ELSE {}) \cup {e \in mask : <<f, e>> \in R}

----------------------------------------------------------------------------
(* ev_epoll.c.  The kernel keeps an entry per descriptor and file, as long *)
(* as the file is open anywhere.                                           *)
epoll_ctl(reg, F, op, fd, mask, gen) ==
    LET old == {r \in reg : r.fd = fd /\ r.file = F[fd]}
        new == [fd |-> fd, file |-> F[fd], mask |-> mask, gen |-> gen]
    IN  CASE F[fd] = None -> [err |-> "EBADF", reg |-> reg]
          [] F[fd] # None /\ op = "ADD" /\ old # {} -> [err |-> "EEXIST", reg |-> reg]
          [] F[fd] # None /\ op # "ADD" /\ old = {} -> [err |-> "ENOENT", reg |-> reg]
          [] OTHER -> [err |-> "", reg |-> (reg \ old) \cup (IF op = "DEL" THEN {} ELSE {new})]

(* A removal is not passed on.  The generation counter only goes up if the *)
(* kernel has taken the new one.                                           *)
epoll_modify(L, F, fd, oev, nev) ==
    LET g == L.fds[fd].egen + 1
        try(op) == epoll_ctl(L.reg, F, op, fd, nev, g)
        ok(op) == [L EXCEPT !.reg = try(op).reg, !.fds[fd].egen = g, !.fds[fd].emask = nev]
        first == IF oev # {} THEN "MOD" ELSE "ADD"
        same == [L EXCEPT !.fds[fd].emask = nev]
    IN  IF nev = {} THEN L
        ELSE IF try(first).err = "" THEN ok(first)
        ELSE IF try(first).err = "ENOENT" /\ try("ADD").err = "" THEN ok("ADD")
        ELSE IF try(first).err = "EEXIST" /\ L.fds[fd].emask = nev THEN same
        ELSE IF try(first).err = "EEXIST" /\ try("MOD").err = "" THEN ok("MOD")
        ELSE fd_kill(same, fd)

(* Mutant: the generation of the event is not looked at. *)
AnyGeneration(L, e) == FALSE
Spurious(L, e) == L.fds[e.fd].egen # e.gen

(* An event nobody asked for is unregistered; if that fails, or the event  *)
(* is of an older registration, the kernel's state is built anew.          *)
epoll_event(L, F, R, e) ==
    LET want == L.fds[e.fd].events
        got == Answer(R, e.file, e.mask)
        fix == epoll_ctl(L.reg, F, IF want # {} THEN "MOD" ELSE "DEL", e.fd, want, e.gen)
        fixed == [L EXCEPT !.fds[e.fd].emask = want, !.reg = fix.reg]
        fed(l) == [fd_event(l, e.fd, got) EXCEPT !.stale = @ \/ (l.fds[e.fd].head # <<>> /\ F[e.fd] \notin {None, e.file})]
    IN  IF Spurious(L, e) THEN [L EXCEPT !.postfork = TRUE]
        ELSE IF got \subseteq want THEN fed(L)
        ELSE IF fix.err # "" THEN [fixed EXCEPT !.postfork = TRUE]
        ELSE fed(fixed)
Ready(L, R) == {r \in L.reg : Answer(R, r.file, r.mask) # {}}
epoll_poll(L, F, R) ==
    FoldLeft(LAMBDA l, e : epoll_event(l, F, R, e), L, SetToSeq(Ready(L, R)))

----------------------------------------------------------------------------
(* ev_select.c: the two sets of descriptors, here one mask per descriptor. *)
select_modify(L, fd, oev, nev) == IF oev = nev THEN L ELSE [L EXCEPT !.vec[fd] = nev]

(* EBADF and ENOMEM: the watchers of closed descriptors, or of the highest *)
(* one, are stopped with an error.                                         *)
fd_ebadf(L, F) ==
    FoldLeft(LAMBDA l, fd : IF l.fds[fd].events # {} /\ F[fd] = None THEN fd_kill(l, fd) ELSE l,
             L, SetToSortSeq(Fds, <))
fd_enomem(L) ==
    LET on == {fd \in Fds : L.fds[fd].events # {}}
    IN  IF on = {} THEN L ELSE fd_kill(L, CHOOSE fd \in on : \A o \in on : o <= fd)

select_poll(L, F, R) ==
    IF \E fd \in Fds : L.vec[fd] # {} /\ F[fd] = None THEN fd_ebadf(L, F)
    ELSE FoldLeft(LAMBDA l, fd : fd_event(l, fd, Answer(R, F[fd], l.vec[fd]) \cap l.vec[fd]),
                  L, SetToSortSeq(Fds, >))

----------------------------------------------------------------------------
(* ev_poll.c: an array without holes, and where a descriptor is in it.     *)
poll_modify(L, fd, oev, nev) ==
    LET n == Len(L.polls)
        i == IF L.pollidxs[fd] = 0 THEN n + 1 ELSE L.pollidxs[fd]
        last == L.polls[n]
    IN  IF oev = nev THEN L
        ELSE IF nev # {}
        THEN [L EXCEPT !.polls = IF i > n THEN Append(@, [fd |-> fd, events |-> nev])
                                 ELSE [@ EXCEPT ![i].events = nev],
                       !.pollidxs[fd] = i]
        ELSE [L EXCEPT !.polls = IF i = n THEN Front(@) ELSE Front([@ EXCEPT ![i] = last]),
                       !.pollidxs = IF i = n THEN [@ EXCEPT ![fd] = 0]
                                    ELSE [@ EXCEPT ![fd] = 0, ![last.fd] = i]]
poll_poll(L, F, R) ==
    FoldLeft(LAMBDA l, p : IF F[p.fd] = None THEN fd_kill(l, p.fd)
                           ELSE fd_event(l, p.fd, Answer(R, F[p.fd], p.events)),
             L, L.polls)

----------------------------------------------------------------------------
(* ev_kqueue.c: changes are collected and handed over with the next        *)
(* kevent, which reports those that failed instead of events.              *)
kqueue_change(L, fd, ev, add) == [L EXCEPT !.changes = Append(@, [fd |-> fd, ev |-> ev, add |-> add])]
Changes(L, fd, evs, add) ==
    FoldLeft(LAMBDA l, e : IF e \in evs THEN kqueue_change(l, fd, e, add) ELSE l, L, <<"r", "w">>)
kqueue_modify(L, fd, oev, nev) ==
    Changes(IF oev # nev THEN Changes(L, fd, oev, FALSE) ELSE L, fd, nev, TRUE)

kevent(L, F) ==
    LET one(k, c) ==
          LET old == {r \in k.reg : r.fd = c.fd /\ r.mask = {c.ev}}
              new == [fd |-> c.fd, file |-> F[c.fd], mask |-> {c.ev}, gen |-> 0]
          IN  IF F[c.fd] = None THEN [k EXCEPT !.errs = Append(@, [fd |-> c.fd, err |-> "EBADF"])]
              ELSE IF c.add THEN [k EXCEPT !.reg = (@ \ old) \cup {new}]
              ELSE IF old = {} THEN [k EXCEPT !.errs = Append(@, [fd |-> c.fd, err |-> "ENOENT"])]
              ELSE [k EXCEPT !.reg = @ \ old]
    IN  FoldLeft(one, [reg |-> L.reg, errs |-> <<>>], L.changes)

kqueue_error(L, F, e) ==
    IF L.fds[e.fd].events = {} THEN L
    ELSE IF e.err = "ENOENT" \/ F[e.fd] # None THEN kqueue_modify(L, e.fd, {}, L.fds[e.fd].events)
    ELSE fd_kill(L, e.fd)
kqueue_poll(L, F, R) ==
    LET k == kevent(L, F)
        l == [L EXCEPT !.reg = k.reg, !.changes = <<>>]
    IN  IF k.errs # <<>> THEN FoldLeft(LAMBDA x, e : kqueue_error(x, F, e), l, k.errs)
        ELSE FoldLeft(LAMBDA x, e : fd_event(x, e.fd, Answer(R, e.file, e.mask) \cap e.mask),
                      l, SetToSeq(Ready(l, R)))

----------------------------------------------------------------------------
(* ev_port.c: an association ends with its event and is made again.        *)
port_associate_and_check(L, F, fd, ev) ==
    IF F[fd] = None THEN fd_kill(L, fd)
    ELSE [L EXCEPT !.reg = {r \in @ : r.fd # fd}
                           \cup {[fd |-> fd, file |-> F[fd], mask |-> ev, gen |-> 0]}]
port_modify(L, F, fd, oev, nev) ==
    IF nev # {} THEN port_associate_and_check(L, F, fd, nev)
    ELSE IF oev # {} THEN [L EXCEPT !.reg = {r \in @ : r.fd # fd}] ELSE L
port_poll(L, F, R) ==
    FoldLeft(LAMBDA l, e : port_associate_and_check(fd_event(l, e.fd, Answer(R, e.file, e.mask)),
                                                    F, e.fd, l.fds[e.fd].events),
             [L EXCEPT !.reg = @ \ Ready(L, R)], SetToSeq(Ready(L, R)))

----------------------------------------------------------------------------
(* The first backend of loop_init that can be had.                         *)
loop_init == CHOOSE b \in case.backends :
                \A o \in case.backends : LET order == <<"port", "kqueue", "epoll", "poll", "select">>
                                             at(x) == CHOOSE i \in DOMAIN order : order[i] = x
                                         IN  at(b) <= at(o)

backend_modify(L, F, fd, oev, nev) ==
    CASE loop_init = "epoll" -> epoll_modify(L, F, fd, oev, nev)
      [] loop_init = "select" -> select_modify(L, fd, oev, nev)
      [] loop_init = "poll" -> poll_modify(L, fd, oev, nev)
      [] loop_init = "kqueue" -> kqueue_modify(L, fd, oev, nev)
      [] loop_init = "port" -> port_modify(L, F, fd, oev, nev)

backend_poll(L, F, R) ==
    CASE loop_init = "epoll" -> epoll_poll(L, F, R)
      [] loop_init = "select" -> select_poll(L, F, R)
      [] loop_init = "poll" -> poll_poll(L, F, R)
      [] loop_init = "kqueue" -> kqueue_poll(L, F, R)
      [] loop_init = "port" -> port_poll(L, F, R)

(* Whether the call of the kernel in backend_poll has something to return. *)
Polled(L, F, R) ==
    CASE loop_init \in {"epoll", "port"} -> Ready(L, R) # {}
      [] loop_init = "select" -> \E fd \in Fds : \/ L.vec[fd] # {} /\ F[fd] = None
                                                 \/ Answer(R, F[fd], L.vec[fd]) \cap L.vec[fd] # {}
      [] loop_init = "poll" -> \E i \in DOMAIN L.polls : \/ F[L.polls[i].fd] = None
                                                         \/ Answer(R, F[L.polls[i].fd], L.polls[i].events) # {}
      [] loop_init = "kqueue" -> kevent(L, F).errs # <<>> \/ Ready([L EXCEPT !.reg = kevent(L, F).reg], R) # {}

(* After a fork the kernel's state is built anew; select and poll have     *)
(* none.                                                                   *)
backend_fork(L) ==
    IF loop_init \in {"select", "poll"} THEN L ELSE fd_rearm_all([L EXCEPT !.reg = {}])

(* fd_reify: changes that are queued meanwhile are looked at as well.      *)
reify(L, F, fd) ==
    LET events == UNION {Def[w].events : w \in ToSet(L.fds[fd].head)}
        old == L.fds[fd]
        l == [L EXCEPT !.fds[fd].reify = {}, !.fds[fd].events = events]
    IN  IF old.events # events \/ "fdset" \in old.reify
        THEN backend_modify(l, F, fd, old.events, events) ELSE l
RECURSIVE reifyFrom(_, _, _)
reifyFrom(L, F, i) == IF i > Len(L.chg) THEN [L EXCEPT !.chg = <<>>]
                      ELSE reifyFrom(reify(L, F, L.chg[i]), F, i + 1)
fd_reify(L, F) == reifyFrom(L, F, 1)
=============================================================================
