------------------------------ MODULE MCEvLoop ------------------------------
(***************************************************************************)
(* The programs EvLoop is checked with.                                    *)
(***************************************************************************)
EXTENDS EvLoop

Io(fd, events, pri) == [type |-> "io", pri |-> pri, fd |-> fd, events |-> events]
Timer(at, repeat) == [type |-> "timer", pri |-> 1, at |-> at, repeat |-> repeat]
Periodic(offset, interval, resched) ==
    [type |-> "periodic", pri |-> 1, offset |-> offset, interval |-> interval, resched |-> resched]
Sig(s) == [type |-> "signal", pri |-> 1, sig |-> s]
Child(pid) == [type |-> "child", pri |-> 1, pid |-> pid]
Plain(type, pri) == [type |-> type, pri |-> pri]
Do(do, x) == [do |-> do, x |-> x]

NoBudget == [k \in {"signal", "child", "async", "ready", "time", "jump", "act", "nomem"} |-> 0]
Base(w, begin, acts, budget) ==
    [w |-> w, begin |-> begin, acts |-> acts, budget |-> budget @@ NoBudget,
     backends |-> {"select"}, dheap |-> 2, dup |-> FALSE, mono |-> TRUE, jump |-> 0,
     nonblock |-> FALSE]

(* Two descriptors, one with a reader and a writer, on every backend.      *)
Descriptors ==
    Base([a |-> Io(1, {"r"}, 1), b |-> Io(1, {"w"}, 1), c |-> Io(2, {"r", "w"}, 2)],
         <<"a", "b", "c">>,
         [a |-> {Do("stop", "a"), Do("stop", "b"), Do("fork", "")},
          b |-> {Do("stop", "a"), Do("start", "a"), Do("reopen", "c")},
          c |-> {Do("reopen", "c"), Do("stop", "c"), Do("close", "c"), Do("unloop", "")}],
         [ready |-> 3, act |-> 2])
OnBackend == {[Descriptors EXCEPT !.backends = {b}] : b \in {"port", "kqueue", "poll", "select"}}
             \cup {[Descriptors EXCEPT !.backends = {"epoll", "select"}, !.dup = d] : d \in BOOLEAN}
NoMemory == {[Descriptors EXCEPT !.backends = {b}, !.budget = [@ EXCEPT !["nomem"] = 1, !["act"] = 1, !["ready"] = 2]]
               : b \in {"poll", "select"}}

(* Timers in a heap of three and of two levels, stopped in the middle and  *)
(* set again from each other's callbacks.                                  *)
TimerActs == [a |-> {Do("stop", "d"), Do("again", "c"), Do("stop", "b")},
              c |-> {Do("stop", "f"), Do("stop", "c"), Do("start", "a")}, e |-> {Do("again", "b")},
              f |-> {Do("stop", "c")}]
Timers ==
    {Base([a |-> Timer(0, 1), b |-> Timer(4, 3), c |-> Timer(1, 0), d |-> Timer(5, 0),
           e |-> Timer(6, 0), f |-> Timer(2, 0), g |-> Timer(3, 0)],
          <<"a", "b", "c", "d", "e", "f", "g">>, TimerActs, [time |-> 5, act |-> 2]),
     [Base([a |-> Timer(0, 0), b |-> Timer(2, 0), c |-> Timer(2, 0), d |-> Timer(1, 0),
            e |-> Timer(3, 0), f |-> Timer(4, 0), g |-> Timer(0, 2)],
           <<"g", "f", "e", "d", "c", "b", "a">>, TimerActs, [time |-> 4, act |-> 2])
      EXCEPT !.dheap = 4]}

(* Absolute times, with a time of day that jumps either way, with and      *)
(* without a monotonic clock.                                              *)
Jumps ==
    {[Base([a |-> Periodic(0, 2, FALSE), b |-> Periodic(2, 0, TRUE), c |-> Periodic(3, 0, FALSE),
            d |-> Timer(1, 2)],
           <<"a", "b", "c", "d">>,
           [a |-> {Do("again", "b"), Do("stop", "b")}, d |-> {Do("stop", "a"), Do("start", "c")}],
           [time |-> 5, jump |-> 1, act |-> 1]) EXCEPT !.mono = m, !.jump = j]
       : m \in BOOLEAN, j \in {-4, 5}}

(* Signals, threads that send and children that share a chain.             *)
Flags ==
    {Base([a |-> Sig("HUP"), b |-> Plain("async", 1), c |-> Plain("async", 2)],
          <<"a", "b", "c">>,
          [a |-> {Do("fork", ""), Do("stop", "b")}, b |-> {Do("stop", "a")}, c |-> {Do("stop", "b")}],
          [signal |-> 2, async |-> 2, act |-> 1])}
Children2 ==
    {Base([a |-> Child(1), b |-> Child(0), c |-> Child(2), d |-> Sig("CHLD")],
          <<"a", "b", "c", "d">>,
          [a |-> {Do("stop", "a"), Do("stop", "c")}, b |-> {Do("stop", "b")}], [child |-> 2, act |-> 1])}

(* The watchers of the loop itself, ev_once, and a loop that does not wait.*)
Hooks ==
    {[Base([a |-> Plain("prepare", 1), b |-> Plain("check", 2), c |-> Plain("idle", 1), d |-> Plain("idle", 2),
            e |-> Plain("fork", 1), f |-> Plain("check", 1), g |-> Io(1, {"r"}, 1)],
           <<"a", "b", "c", "d", "e", "f", "g">>,
           [a |-> {Do("stop", "d"), Do("fork", ""), Do("feed", "g")}, b |-> {Do("stop", "b"), Do("feed", "c")},
            c |-> {Do("stop", "c"), Do("unloop", "")}, d |-> {Do("stop", "d"), Do("stop", "f")}, e |-> {Do("stop", "e")}],
           [act |-> 3, ready |-> 1]) EXCEPT !.nonblock = n] : n \in BOOLEAN}
Once ==
    {Base([a |-> [type |-> "io", pri |-> 1, fd |-> 1, events |-> {"r"}, once |-> "b"],
           b |-> [type |-> "timer", pri |-> 1, at |-> 1, repeat |-> 0, once |-> "a"]],
          <<"a", "b">>, NoBudget, [time |-> 3, ready |-> 1])}

MCCases == OnBackend \cup NoMemory \cup Timers \cup Jumps \cup Flags \cup Children2 \cup Hooks \cup Once
=============================================================================
