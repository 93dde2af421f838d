------------------------------ MODULE FuseTree ------------------------------
(***************************************************************************)
(* The node table of the path based FUSE library (fuse/fuse.c): which      *)
(* nodes the kernel knows, under which names, and the tree lock that keeps *)
(* the path of a request valid while the file system works on it.          *)
(*                                                                         *)
(* The worker threads run the fuse_lib_* handlers.  Everything that is     *)
(* done under f->lock in one go is one step; the calls of the file system  *)
(* happen between two steps and only their results matter.  The hash       *)
(* tables are the parent and name fields of the nodes.                     *)
(***************************************************************************)
EXTENDS FuseLib, FuseLocks, FiniteSets

CONSTANTS Threads,    \* the worker threads of the session
          IdSpace,    \* node ids are taken modulo this (2^32 in the code)
          Names,      \* the names of files
          Ops,        \* the operations the file system implements
          OffsetMax,  \* OFFSET_MAX, the last offset of a lock
          Cases       \* what to look at:
                      \*   tree: the nodes known at the start, id |-> <<parent, name, dir>>
                      \*   ctr: the last id that was given out
                      \*   sent: the requests the kernel makes
                      \*   max, kill, two: bounds on the requests, on those the kernel
                      \*     gives up, on rename and link requests at the same time
                      \*   queued: the kernel also gives up those that wait for a path
                      \*   vanish: directories go away with entries the kernel knows
                      \*   hard: conf.hard_remove
                      \*   opened, locks: a file that is open at the start, the struct flocks
                      \*     of its requests

Root == 1
Unknown == IdSpace - 1          \* FUSE_UNKNOWN_INO
Ids == 1 .. IdSpace - 1

(* The requests that make, move or remove nodes.  A case with a file that  *)
(* is open at the start looks at the requests about open files only.       *)
NameShapes == {"entry", "create", "link", "unlink", "rmdir", "rename", "forget"}

ASSUME TreeAssumption ==
    /\ IdSpace \in Nat /\ OffsetMax \in Nat /\ IsFiniteSet(Threads) /\ <<"", 0>> \notin Names
    /\ \A c \in Cases :
        /\ DOMAIN c.tree \subseteq 2 .. c.ctr /\ c.ctr \in 1 .. Unknown - 1
        /\ \A i \in DOMAIN c.tree :
             /\ c.tree[i][1] \in {Root} \cup DOMAIN c.tree /\ c.tree[i][1] < i
             /\ c.tree[i][2] \in Names /\ c.tree[i][3] \in BOOLEAN
             /\ \A j \in DOMAIN c.tree : c.tree[i][1] = c.tree[j][1] /\ c.tree[i][2] = c.tree[j][2] => i = j
        /\ c.sent \subseteq DOMAIN fuse_path_ops
        /\ c.max \in Nat /\ c.kill \in Nat /\ c.two \in Nat
        /\ c.locks \subseteq [owner : Nat, type : {"F_RDLCK", "F_WRLCK", "F_UNLCK"}, start : Nat, len : Nat]
        /\ \A fl \in c.locks : fl.start + fl.len - 1 < OffsetMax
        /\ \A op \in c.sent :
             /\ c.opened # 0 => fuse_path_ops[op] \notin NameShapes
             /\ c.opened = 0 => fuse_path_ops[op] # "lock"
        /\ c.opened \in {0} \cup {i \in DOMAIN c.tree : ~c.tree[i][3]}

(* A name is a pair, so that those the library makes up are not names of   *)
(* files; NULL is no name.                                                 *)
Null == <<"", 0>>
Hidden(k) == <<".fuse_hidden", k>>

NewNode(p, n) ==
    [parent |-> p, name |-> n, refctr |-> 1, nlookup |-> 0, open |-> 0,
     hidden |-> FALSE, treelock |-> 0, ticket |-> 0, locks |-> <<>>]
NoNode == [NewNode(0, Null) EXCEPT !.refctr = 0]

NoLock == [type |-> "none", owner |-> 0]
NoReq == [op |-> "", ino |-> 0, name |-> Null, ino2 |-> 0, name2 |-> Null, n |-> 0,
          ticket |-> 0, wnode |-> 0, wnode2 |-> 0, path |-> <<>>, held |-> FALSE,
          killed |-> FALSE, done |-> FALSE, victim |-> 0, entry |-> 0, hide |-> Null,
          lock |-> NoLock]

VARIABLES
    nodes,     \* the node of an id, or NoNode
    ctr, gen,  \* f->ctr, f->generation
    hidectr, ticket,     \* f->hidectr, f->curr_ticket
    lockq,     \* f->lockq: the threads that wait for a path or a forget
    woken,     \* those whose condition has been signalled
    pc, req,   \* per thread: where it is, its request and its local variables
    klook,     \* the kernel: the lookups of an id it has not given back
    kopen,     \* the kernel: the files it has open
    isdir,     \* the file system: what an id is
    litter,    \* the file system: hidden files, by the id of their node
    fslocks,   \* the file system: the bytes it has locked, as <<id, owner, offset, type>>
    unlisted,  \* the owners whose lock did not get into the list for want of memory,
               \* or left it while the file system kept it
    given,     \* the ids that were given to the kernel, with generation
    case,      \* the case of this behaviour
    sent,      \* how many requests the kernel has sent
    down,      \* fuse_destroy is over
    aborted    \* the assertions that failed, the nodes that were not found

fvars == <<nodes, ctr, gen, hidectr, ticket, lockq, woken>>
lvars == <<fslocks, unlisted>>
kvars == <<klook, kopen, isdir, litter, given, lvars, case, sent>>
vars == <<fvars, kvars, pc, req, down, aborted>>

----------------------------------------------------------------------------
(* Nodes.                                                                  *)
Live(ns, i) == i \in DOMAIN ns /\ ns[i].refctr > 0

(* lookup_node: 0 is NULL.                                                 *)
lookup_node(ns, p, n) ==
    LET hits == {i \in Ids : Live(ns, i) /\ i # Root /\ ns[i].parent = p /\ ns[i].name = n}
    IN  IF hits = {} THEN 0 ELSE CHOOSE i \in hits : TRUE

(* next_id skips 0, FUSE_UNKNOWN_INO and the ids in use; a pass over 0     *)
(* starts a new generation.                                                *)
Skipped(ns, c) == c % IdSpace \in {0, Unknown} \/ Live(ns, c % IdSpace)
Steps(ns, c) == CHOOSE k \in 1 .. IdSpace :
                   ~Skipped(ns, c + k) /\ \A j \in 1 .. k - 1 : Skipped(ns, c + j)

(* Mutant: the generation stays when the counter passes 0. *)
SameGeneration(ns, c) == [ctr |-> (c + Steps(ns, c)) % IdSpace, wraps |-> 0]
next_id(ns, c) ==
    [ctr |-> (c + Steps(ns, c)) % IdSpace,
     wraps |-> IF c + Steps(ns, c) >= IdSpace THEN 1 ELSE 0]

(* unref_node deletes the node with its last reference.                    *)
unref_node(ns, i) ==
    IF ns[i].refctr = 1 THEN [ns EXCEPT ![i] = NoNode]
                        ELSE [ns EXCEPT ![i].refctr = @ - 1]

(* Mutant: the reference on the parent is kept. *)
unhash_keep(ns, i) ==
    IF ns[i].name = Null THEN ns ELSE [ns EXCEPT ![i].name = Null, ![i].parent = 0]
unhash_name(ns, i) ==
    IF ns[i].name = Null THEN ns
    ELSE unref_node([ns EXCEPT ![i].name = Null, ![i].parent = 0], ns[i].parent)

hash_name(ns, i, p, n) ==
    [ns EXCEPT ![p].refctr = @ + 1, ![i].parent = p, ![i].name = n]

(* What the assertions of delete_node stop at: a node that is deleted      *)
(* while it has a name or is locked, here the parent of a node that loses  *)
(* its name.                                                               *)
DeletesBusy(ns, i) == ns[i].refctr = 1 /\ (ns[i].name # Null \/ ns[i].treelock # 0)
UnhashBad(ns, i) == ns[i].name # Null /\ DeletesBusy(ns, ns[i].parent)

----------------------------------------------------------------------------
(* The tree lock.  Up is the chain of nodes from a node to the root, or to *)
(* the first one that has no name.                                         *)
Up(ns, i) ==
    LET par == [j \in Ids |-> IF j = Root \/ ~Live(ns, j) \/ ns[j].name = Null THEN j ELSE ns[j].parent]
        up[k \in 0 .. IdSpace] == IF k = 0 THEN i ELSE par[up[k - 1]]
        top == CHOOSE k \in 0 .. IdSpace : /\ par[up[k]] = up[k]
                                           /\ k > 0 => par[up[k - 1]] # up[k - 1]
    IN  [k \in 1 .. top + 1 |-> up[k - 1]]

(* The path as the file system gets it, from the root down; of a node that *)
(* has none, what remains of it.                                           *)
PathOf(ns, i) == LET up == Up(ns, i) IN [k \in 1 .. Len(up) - 1 |-> ns[up[Len(up) - k]].name]

Blocked(ns, i, tk) == \/ ns[i].treelock = -1
                      \/ ns[i].ticket # 0 /\ ns[i].ticket # tk

WBlocked(ns, w, tk) == \/ ns[w].treelock # 0
                       \/ ns[w].ticket # 0 /\ ns[w].ticket # tk

(* unlock_path on the chain from i below `end', and on wnode.              *)
Leave(n, by, tk) == [n EXCEPT !.treelock = @ + by, !.ticket = IF @ = 0 THEN tk ELSE @]
unlock_path(ns, i, w, tk) ==
    [j \in DOMAIN ns |-> IF j \in ToSet(Up(ns, i)) \ {Root} THEN Leave(ns[j], -1, tk)
                         ELSE IF j = w THEN Leave(ns[j], 1, tk) ELSE ns[j]]

(* try_get_path of node i, and for a writer of the node under `name'; the  *)
(* locks that were taken are given back if it fails, but the ticket stays. *)
Again(ns) == [err |-> "EAGAIN", ns |-> ns, wnode |-> 0]
Taken(ns, got, w) ==
    [j \in DOMAIN ns |-> IF j \in got THEN [ns[j] EXCEPT !.treelock = @ + 1, !.ticket = 0]
                         ELSE IF j = w THEN [ns[j] EXCEPT !.treelock = -1, !.ticket = 0] ELSE ns[j]]
Reserved(ns, got, tk) ==
    [j \in DOMAIN ns |-> IF j \in got THEN [ns[j] EXCEPT !.ticket = tk] ELSE ns[j]]

Climbed(ns, up, stop, w, tk) ==
    LET got == {up[k] : k \in 1 .. stop - 1}
    IN  IF up[stop] = Root THEN [err |-> "", ns |-> Taken(ns, got, w), wnode |-> w]
        ELSE [err |-> IF ns[up[stop]].name = Null THEN "ENOENT" ELSE "EAGAIN",
              ns |-> Reserved(ns, got \cup {w}, tk), wnode |-> 0]
FirstStop(ns, up, tk) ==
    CHOOSE k \in 1 .. Len(up) :
        /\ k = Len(up) \/ Blocked(ns, up[k], tk)
        /\ \A j \in 1 .. k - 1 : ~Blocked(ns, up[j], tk)
Climb(ns, up, w, tk) == Climbed(ns, up, FirstStop(ns, up, tk), w, tk)
TryRead(ns, i, w, tk) == Climb(ns, Up(ns, i), w, tk)

TryWrite(ns, i, w, tk) ==
    IF w # 0 /\ WBlocked(ns, w, tk)
    THEN Again([ns EXCEPT ![w].ticket = IF @ = 0 THEN tk ELSE @])
    ELSE TryRead(ns, i, w, tk)
try_get_path(ns, i, n, wr, tk) == TryWrite(ns, i, IF wr THEN lookup_node(ns, i, n) ELSE 0, tk)

(* rename asks for the nodes it moves to be locked against readers.        *)
(* Mutant: it locks the directories only. *)
NotExclusive(r) == FALSE
Exclusive(r) == r.op = "rename"

(* rename and link lock two paths; the first is given back if the second   *)
(* cannot be locked.                                                       *)
BothTried(a, b, r, tk) ==
    IF b.err = "" THEN [err |-> "", ns |-> b.ns, wnode |-> a.wnode, wnode2 |-> b.wnode]
    ELSE [err |-> b.err, ns |-> unlock_path(b.ns, r.ino, a.wnode, tk), wnode |-> 0, wnode2 |-> 0]
OneTried(a, r, tk) ==
    IF a.err # "" THEN [err |-> a.err, ns |-> a.ns, wnode |-> 0, wnode2 |-> 0]
    ELSE BothTried(a, try_get_path(a.ns, r.ino2, r.name2, Exclusive(r), tk), r, tk)
try_get_path2(ns, r, tk) ==
    OneTried(try_get_path(ns, r.ino, r.name, Exclusive(r), tk), r, tk)

TwoPathOps == {"rename", "link"}
Writes(r) == fuse_path_ops[r.op] \in {"unlink", "rmdir"}

(* The attempt of a request with all its paths.                            *)
OnePath(a) == [err |-> a.err, ns |-> a.ns, wnode |-> a.wnode, wnode2 |-> 0]
TryLock(ns, r, tk) ==
    IF r.op \in TwoPathOps THEN try_get_path2(ns, r, tk)
    ELSE OnePath(try_get_path(ns, r.ino, r.name, Writes(r), tk))

----------------------------------------------------------------------------
(* fuse_new_common makes the root; the nodes of Tree have been looked up   *)
(* once each, in the order of their ids.                                   *)
Kids(tree, p) == Cardinality({i \in DOMAIN tree : tree[i][1] = p})
TreeNode(tree, i) ==
    [NewNode(tree[i][1], tree[i][2]) EXCEPT !.nlookup = 1, !.refctr = 1 + Kids(tree, i)]
RootNode(tree) == [NewNode(0, <<"/", 0>>) EXCEPT !.nlookup = 1, !.refctr = 1 + Kids(tree, Root)]

Init ==
    /\ case \in Cases
    /\ nodes = [i \in Ids |-> IF i = Root THEN RootNode(case.tree)
                              ELSE IF i = case.opened THEN [TreeNode(case.tree, i) EXCEPT !.open = 1]
                              ELSE IF i \in DOMAIN case.tree THEN TreeNode(case.tree, i) ELSE NoNode]
    /\ ctr = case.ctr
    /\ gen = 0 /\ hidectr = 0 /\ ticket = 0
    /\ lockq = <<>> /\ woken = {}
    /\ pc = [t \in Threads |-> "idle"]
    /\ req = [t \in Threads |-> NoReq]
    /\ klook = [i \in Ids |-> IF i \in DOMAIN case.tree THEN 1 ELSE 0]
    /\ kopen = [i \in Ids |-> IF i = case.opened THEN 1 ELSE 0]
    /\ fslocks = {} /\ unlisted = {}
    /\ isdir = [i \in Ids |-> i = Root \/ (i \in DOMAIN case.tree /\ case.tree[i][3])]
    /\ litter = {}
    /\ given = {<<i, 0>> : i \in 1 .. case.ctr}
    /\ sent = 0 /\ down = FALSE /\ aborted = {}

----------------------------------------------------------------------------
(* The kernel.  A request on names holds the mutexes of the directories it *)
(* changes, and of what it removes, until it is answered or given up.      *)
InService == {t \in Threads : pc[t] # "idle" /\ ~req[t].killed /\ ~req[t].done}
Shape(r) == fuse_path_ops[r.op]
Mutexes(r) ==
    CASE Shape(r) \in {"entry", "create"} -> {r.ino}
      [] Shape(r) \in {"unlink", "rmdir"} -> {r.ino, r.victim}
      [] Shape(r) = "rename" -> {r.ino, r.ino2, r.victim}
      [] Shape(r) = "link" -> {r.ino2}
      [] OTHER -> {}
Refers(r) == {r.ino, r.ino2, r.victim, lookup_node(nodes, r.ino, r.name)} \ {0}

Known(i) == i = Root \/ klook[i] > 0
KnownAt(i, n) == LET c == lookup_node(nodes, i, n) IN c # 0 /\ Known(c)
Above(i, j) == i \in ToSet(Up(nodes, j))
EmptyDir(i) == \A c \in Ids : Live(nodes, c) /\ c # Root /\ nodes[c].parent = i =>
                  case.vanish /\ ~nodes[c].hidden

(* The requests that make sense to the kernel: names are not looked for or *)
(* changed in a directory it has removed.                                  *)
Alive(i) == Known(i) /\ isdir[i] /\ nodes[i].name # Null
Sensible(r) ==
    LET c == lookup_node(nodes, r.ino, r.name)
        d == lookup_node(nodes, r.ino2, r.name2)
    IN
    /\ Known(r.ino)
    /\ CASE Shape(r) = "entry" -> Alive(r.ino) /\ (r.op = "lookup" \/ c = 0)
         [] Shape(r) = "create" -> Alive(r.ino) /\ c = 0
         [] Shape(r) = "open" -> ~isdir[r.ino]
         [] Shape(r) \in {"release", "flush"} -> kopen[r.ino] > 0
         [] Shape(r) = "lock" -> kopen[r.ino] > 0 /\ (r.op = "getlk" => r.lock.type # "F_UNLCK")
         [] Shape(r) = "unlink" -> Alive(r.ino) /\ KnownAt(r.ino, r.name) /\ ~isdir[c]
         [] Shape(r) = "rmdir" -> Alive(r.ino) /\ KnownAt(r.ino, r.name) /\ isdir[c]
         [] Shape(r) = "link" -> ~isdir[r.ino] /\ Alive(r.ino2) /\ d = 0
         [] Shape(r) = "rename" ->
              /\ Alive(r.ino) /\ Alive(r.ino2) /\ KnownAt(r.ino, r.name)
              /\ c # d /\ ~Above(c, r.ino2) /\ (d # 0 => ~Above(d, r.ino))
              /\ d # 0 => Known(d) /\ isdir[d] = isdir[c]
         [] OTHER -> TRUE

(* What FLUSH, and RELEASE with flush, ask for: the owner's locks go.      *)
Flushes == {[owner |-> fl.owner, type |-> "F_UNLCK", start |-> 0, len |-> 0] : fl \in case.locks}

(* A request on one node or name, and one on two.                          *)
OneRequest(op, i, n) ==
    [NoReq EXCEPT !.op = op, !.ino = i, !.name = n,
        !.victim = IF fuse_path_ops[op] \in {"unlink", "rmdir"} THEN lookup_node(nodes, i, n) ELSE 0]
TwoRequest(op, i, n, j, m) ==
    [NoReq EXCEPT !.op = op, !.ino = i, !.name = n, !.ino2 = j, !.name2 = m,
        !.victim = IF fuse_path_ops[op] = "rename" THEN lookup_node(nodes, j, m) ELSE 0]

(* The arguments a request of this shape has.                              *)
Requests(op) ==
    LET dirs == {i \in Ids : Known(i) /\ isdir[i]}
        known == {i \in Ids : Known(i)}
        s == fuse_path_ops[op]
    IN  CASE s \in {"entry", "create", "unlink", "rmdir"} ->
               {OneRequest(op, i, n) : i \in dirs, n \in Names}
          [] s = "link" -> {TwoRequest(op, i, Null, j, m) : i \in known, j \in dirs, m \in Names}
          [] s = "rename" ->
               {TwoRequest(op, i, n, j, m) : i \in dirs, j \in dirs, n \in Names, m \in Names}
          [] case.opened # 0 /\ s \in {"lock", "flush", "release"} ->
               {[OneRequest(op, case.opened, Null) EXCEPT !.lock = fl] :
                  fl \in IF s = "lock" THEN case.locks ELSE Flushes}
          [] OTHER -> {OneRequest(op, i, Null) : i \in known}

(* The threads are alike: an idle one takes the request.                   *)
Taker == CHOOSE t \in Threads : pc[t] = "idle"
(* Bound: next_id always finds a free id.                                  *)
Room == Cardinality({i \in Ids : Live(nodes, i)}) + Cardinality({t \in Threads : pc[t] # "idle"})
        < IdSpace - 2
CanSend == ~down /\ sent < case.max /\ \E t \in Threads : pc[t] = "idle"

(* Bound: one request about the locks of an owner at a time.               *)
KernelSend(op) ==
    /\ CanSend /\ op \in case.sent \ {"forget"}
    /\ fuse_path_ops[op] \in {"entry", "create", "link"} => Room
    /\ \E r \in Requests(op) :
        /\ Sensible(r)
        /\ \A t \in InService : Mutexes(req[t]) \cap Mutexes(r) \subseteq {0}
        /\ op \in TwoPathOps => Cardinality({t \in InService : req[t].op \in TwoPathOps}) < case.two
        /\ r.lock # NoLock => \A t \in InService : req[t].lock.owner # r.lock.owner
        /\ pc' = [pc EXCEPT ![Taker] = IF op = "getlk" THEN "getlk" ELSE "start"]
        /\ req' = [req EXCEPT ![Taker] = r]
        /\ kopen' = IF op = "release" THEN [kopen EXCEPT ![r.ino] = @ - 1] ELSE kopen
    /\ sent' = sent + 1
    /\ UNCHANGED <<fvars, klook, isdir, litter, given, lvars, case, down, aborted>>

(* Nothing the kernel still works with is forgotten.                       *)
KernelForget(i) ==
    /\ CanSend /\ "forget" \in case.sent /\ i # Root /\ klook[i] > 0 /\ kopen[i] = 0
    /\ \A t \in InService : i \notin Refers(req[t])
    /\ \A c \in Ids : Live(nodes, c) /\ c # Root /\ nodes[c].parent = i => klook[c] = 0
    /\ pc' = [pc EXCEPT ![Taker] = "forget"]
    /\ req' = [req EXCEPT ![Taker] = [NoReq EXCEPT !.op = "forget", !.entry = i, !.n = klook[i]]]
    /\ klook' = [klook EXCEPT ![i] = 0]
    /\ sent' = sent + 1
    /\ UNCHANGED <<fvars, kopen, isdir, litter, given, lvars, case, down, aborted>>

(* The process that made the request is killed.                            *)
KernelGiveUp(t) ==
    /\ t \in InService /\ Shape(req[t]) \in {"entry", "create", "open", "link"}
    /\ Cardinality({u \in Threads : req[u].killed}) < case.kill
    /\ pc[t] \in {"start", "wait"} => case.queued
    /\ req' = [req EXCEPT ![t].killed = TRUE]
    /\ UNCHANGED <<fvars, kvars, pc, down, aborted>>

----------------------------------------------------------------------------
(* Locking the paths of a request.  A thread that cannot have them waits   *)
(* in lockq; every waiter that is woken tries again and wakes the next.    *)
Gone(r) == {i \in {r.ino, r.ino2} \ {0} : ~Live(nodes, i)}
PathErr(r) == Shape(r) \in {"nullok", "always", "release", "lock", "flush"}
PathOf2(ns, r) == <<PathOf(ns, r.ino), IF r.ino2 = 0 THEN <<>> ELSE PathOf(ns, r.ino2)>>

(* What becomes of thread t when its attempt `a' did not give EAGAIN: it   *)
(* has its paths, or it has none and goes on without, or it answers.       *)
Granted(t, a, tk) ==
    IF a.err = ""
    THEN /\ pc' = [pc EXCEPT ![t] = "locked"]
         /\ req' = [req EXCEPT ![t].wnode = a.wnode, ![t].wnode2 = a.wnode2, ![t].held = TRUE,
                               ![t].ticket = tk, ![t].path = PathOf2(nodes, req[t])]
    ELSE /\ pc' = [pc EXCEPT ![t] = IF PathErr(req[t]) THEN "locked" ELSE "idle"]
         /\ req' = [req EXCEPT ![t] = IF PathErr(req[t]) THEN req[t] ELSE NoReq]

dequeue_path(q, t) == SelectSeq(q, LAMBDA u : u # t)

(* get_node does not find the node of the request, an assertion fails.     *)
Abort(t, why) ==
    /\ aborted' = aborted \cup {why}
    /\ pc' = [pc EXCEPT ![t] = "aborted"]
    /\ UNCHANGED <<nodes, lockq, req>>

Attempt(t, tk) ==
    \E a \in {TryLock(nodes, req[t], tk)} :
        /\ nodes' = a.ns
        /\ UNCHANGED aborted
        /\ IF a.err = "EAGAIN"
           THEN /\ lockq' = IF pc[t] = "start" THEN Append(lockq, t) ELSE lockq
                /\ pc' = [pc EXCEPT ![t] = "wait"]
                /\ req' = [req EXCEPT ![t].ticket = tk]
           ELSE /\ lockq' = dequeue_path(lockq, t)
                /\ Granted(t, a, tk)

get_path_common(t) ==
    /\ pc[t] = "start"
    /\ IF Gone(req[t]) = {} THEN Attempt(t, ticket + 1) ELSE Abort(t, "get_node")
    /\ ticket' = ticket + 1
    /\ UNCHANGED <<ctr, gen, hidectr, woken, kvars, down>>

(* Mutant: a waiter that is served does not wake the next. *)
WakeNobody(q, t) == {}
wake_up_next(q, t) ==
    LET k == CHOOSE k \in 1 .. Len(q) : q[k] = t
    IN  IF k < Len(q) THEN {q[k + 1]} ELSE {}

get_path_retry(t) ==
    /\ pc[t] = "wait" /\ t \in woken
    /\ woken' = (woken \ {t}) \cup wake_up_next(lockq, t)
    /\ IF Gone(req[t]) = {} THEN Attempt(t, req[t].ticket) ELSE Abort(t, "get_node")
    /\ UNCHANGED <<ctr, gen, hidectr, ticket, kvars, down>>

wake_up_first(q) == IF q = <<>> THEN {} ELSE {Head(q)}

(* The assertions of unlock_path.                                          *)
Unlockable(ns, i, w) ==
    /\ w # 0 => Live(ns, w) /\ ns[w].treelock = -1
    /\ \A j \in ToSet(Up(ns, i)) \ {Root} : ns[j].name # Null /\ ns[j].treelock > 0
UnlockAll(ns, r) ==
    LET one == unlock_path(ns, r.ino, r.wnode, 0)
    IN  IF r.op \in TwoPathOps THEN unlock_path(one, r.ino2, r.wnode2, 0) ELSE one

(* free_path, free_path_wrlock, free_path2; nothing is locked without a    *)
(* path.  Afterwards a request that found an entry is answered; the others *)
(* have been, or are with no more to it.                                   *)
AfterFree(r) ==
    IF Shape(r) \in {"entry", "link"} /\ r.entry # 0 THEN "reply"
    ELSE IF r.op = "setlk" /\ r.n = 1 THEN "insert" ELSE "idle"
free_path(t) ==
    /\ pc[t] = "free" \/ (pc[t] = "locked" /\ Shape(req[t]) \in {"path", "nullok", "always"})
    /\ IF ~req[t].held THEN UNCHANGED <<nodes, woken, aborted>>
       ELSE /\ nodes' = UnlockAll(nodes, req[t])
            /\ woken' = woken \cup wake_up_first(lockq)
            /\ aborted' = IF /\ Unlockable(nodes, req[t].ino, req[t].wnode)
                             /\ req[t].ino2 # 0 => Unlockable(nodes, req[t].ino2, req[t].wnode2)
                          THEN aborted ELSE aborted \cup {"unlock_path"}
    /\ pc' = [pc EXCEPT ![t] = AfterFree(req[t])]
    /\ req' = [req EXCEPT ![t] = IF AfterFree(@) = "idle" THEN NoReq ELSE [@ EXCEPT !.held = FALSE]]
    /\ UNCHANGED <<ctr, gen, hidectr, ticket, lockq, kvars, down>>

----------------------------------------------------------------------------
(* Entries.  find_node returns the node of a name, with one more lookup.   *)
EntryDir(r) == IF r.op = "link" THEN r.ino2 ELSE r.ino
EntryName(r) == IF r.op = "link" THEN r.name2 ELSE r.name
MayBeDir(op) == CASE op = "mkdir" -> {TRUE} [] op \in {"lookup", "create"} -> BOOLEAN [] OTHER -> {FALSE}

find_node(t) ==
    LET p == EntryDir(req[t])
        n == EntryName(req[t])
        old == lookup_node(nodes, p, n)
        new == next_id(nodes, ctr)
        i == IF old # 0 THEN old ELSE new.ctr
    IN  /\ req' = [req EXCEPT ![t].entry = i, ![t].n = 1]
        /\ IF old # 0
           THEN /\ nodes' = [nodes EXCEPT ![old].nlookup = @ + 1]
                /\ UNCHANGED <<ctr, gen, isdir, given>>
           ELSE /\ nodes' = hash_name([nodes EXCEPT ![i] = [NewNode(0, Null) EXCEPT !.nlookup = 1]], i, p, n)
                /\ ctr' = i /\ gen' = gen + new.wraps
                /\ \E d \in MayBeDir(req[t].op) : isdir' = [isdir EXCEPT ![i] = d]
                /\ given' = given \cup {<<i, gen'>>}

(* hash_name asks for the node of the directory.                           *)
NoParent(r) == lookup_node(nodes, EntryDir(r), EntryName(r)) = 0 /\ ~Live(nodes, EntryDir(r))

lookup_path(t) ==
    /\ pc[t] = "locked" /\ Shape(req[t]) \in {"entry", "link", "create"}
    /\ \E res \in fuse_lib_entry(req[t].op, Ops) :
          IF res # "ok"
          THEN pc' = [pc EXCEPT ![t] = "free"] /\ UNCHANGED <<nodes, ctr, gen, lockq, isdir, given, req, aborted>>
          ELSE IF NoParent(req[t]) THEN Abort(t, "get_node") /\ UNCHANGED <<ctr, gen, isdir, given>>
          ELSE /\ find_node(t)
               /\ pc' = [pc EXCEPT ![t] = IF req[t].op = "create" THEN "found" ELSE "free"]
               /\ UNCHANGED <<lockq, aborted>>
    /\ UNCHANGED <<hidectr, ticket, woken, klook, kopen, litter, lvars, case, sent, down>>

(* The entry goes to the kernel, or back if the kernel no longer waits.    *)
reply_entry(t) ==
    /\ pc[t] = "reply" /\ Shape(req[t]) \in {"entry", "link"}
    /\ IF req[t].killed
       THEN /\ pc' = [pc EXCEPT ![t] = "forget"]
            /\ UNCHANGED <<req, klook>>
       ELSE /\ pc' = [pc EXCEPT ![t] = "idle"]
            /\ req' = [req EXCEPT ![t] = NoReq]
            /\ klook' = [klook EXCEPT ![req[t].entry] = @ + 1]
    /\ UNCHANGED <<fvars, kopen, isdir, litter, given, lvars, case, sent, down, aborted>>

----------------------------------------------------------------------------
(* Open files.  The node of an open file: what create found, or the ino.   *)
File(r) == IF r.op = "create" THEN r.entry ELSE r.ino

fuse_lib_open(t) ==
    /\ pc[t] = "locked" /\ Shape(req[t]) = "open"
    /\ \E res \in fuse_fs_open(Ops) : pc' = [pc EXCEPT ![t] = IF res = "ok" THEN "found" ELSE "free"]
    /\ UNCHANGED <<fvars, kvars, req, down, aborted>>

(* create refuses what turned out not to be a regular file.                *)
CreateNotRegular(t) ==
    /\ pc[t] = "found" /\ req[t].op = "create" /\ isdir[req[t].entry]
    /\ pc' = [pc EXCEPT ![t] = "forget"]
    /\ UNCHANGED <<fvars, kvars, req, down, aborted>>

CountOpen(t) ==
    /\ pc[t] = "found" /\ ~(req[t].op = "create" /\ isdir[req[t].entry])
    /\ IF ~Live(nodes, File(req[t])) THEN Abort(t, "get_node")
       ELSE /\ nodes' = [nodes EXCEPT ![File(req[t])].open = @ + 1]
            /\ pc' = [pc EXCEPT ![t] = "opened"]
            /\ UNCHANGED <<lockq, req, aborted>>
    /\ UNCHANGED <<ctr, gen, hidectr, ticket, woken, kvars, down>>

(* If the open was interrupted it is undone; for create the lookup too.    *)
reply_open(t) ==
    /\ pc[t] = "opened"
    /\ pc' = [pc EXCEPT ![t] = IF req[t].killed THEN "release" ELSE "free"]
    /\ IF req[t].killed THEN UNCHANGED <<req, klook, kopen>>
       ELSE /\ req' = [req EXCEPT ![t].done = TRUE]
            /\ kopen' = [kopen EXCEPT ![File(req[t])] = @ + 1]
            /\ klook' = IF req[t].op = "create" THEN [klook EXCEPT ![req[t].entry] = @ + 1] ELSE klook
    /\ UNCHANGED <<fvars, isdir, litter, given, lvars, case, sent, down, aborted>>

(* fuse_do_release: the last one that has a hidden file open removes it.   *)
LastOpen(n) == n.hidden /\ n.open = 1
AfterRelease(r) == IF r.op = "create" THEN "forget" ELSE "free"
fuse_do_release(t) ==
    LET i == File(req[t])
    IN
    /\ pc[t] = "release" \/ (pc[t] = "locked" /\ Shape(req[t]) = "release" /\ req[t].lock = NoLock)
    /\ IF ~Live(nodes, i) \/ nodes[i].open = 0 THEN Abort(t, "fuse_do_release")
       ELSE /\ nodes' = [nodes EXCEPT ![i].open = @ - 1, ![i].hidden = @ /\ ~LastOpen(nodes[i])]
            /\ pc' = [pc EXCEPT ![t] = IF LastOpen(nodes[i]) /\ req[t].held THEN "unhide"
                                       ELSE AfterRelease(req[t])]
            /\ UNCHANGED <<lockq, req, aborted>>
    /\ UNCHANGED <<ctr, gen, hidectr, ticket, woken, kvars, down>>

(* The path of the request is unlinked; create has locked that of the      *)
(* directory.  The hidden file is gone if this was its path.               *)
ReleasePath(r) == IF r.op = "create" THEN Append(r.path[1], r.name) ELSE r.path[1]
UnlinkHidden(t) ==
    /\ pc[t] = "unhide"
    /\ litter' = {i \in litter : ~Live(nodes, i) \/ PathOf(nodes, i) # ReleasePath(req[t])}
    /\ pc' = [pc EXCEPT ![t] = AfterRelease(req[t])]
    /\ UNCHANGED <<fvars, klook, kopen, isdir, given, lvars, case, sent, req, down, aborted>>

----------------------------------------------------------------------------
(* Locks of files.  What the file system has locked, byte by byte; it      *)
(* grants a lock that conflicts with none, or refuses.                     *)
LockOf(r) == flock_to_lock(r.lock, OffsetMax)
Bytes(l) == l.start .. l.end
FsGrants(i, l) ==
    \A h \in fslocks : h[1] = i /\ h[3] \in Bytes(l) =>
        ~Conflict([owner |-> h[2], type |-> h[4], start |-> h[3], end |-> h[3]], l)
FsSet(i, l) ==
    {h \in fslocks : ~(h[1] = i /\ h[2] = l.owner /\ h[3] \in Bytes(l))}
    \cup IF l.type = "F_UNLCK" THEN {} ELSE {<<i, l.owner, b, l.type>> : b \in Bytes(l)}

AfterFlush(r) == CASE r.op = "setlk" -> "idle" [] r.op = "flush" -> "free" [] OTHER -> "release"

(* A lock that is in the way is found in the list of the node; if there is *)
(* none the file system is asked.                                          *)
fuse_lib_getlk(t) ==
    /\ pc[t] = "getlk"
    /\ IF ~Live(nodes, req[t].ino) THEN Abort(t, "get_node")
       ELSE /\ IF locks_conflict(nodes[req[t].ino].locks, LockOf(req[t]))
               THEN pc' = [pc EXCEPT ![t] = "idle"] /\ req' = [req EXCEPT ![t] = NoReq]
               ELSE pc' = [pc EXCEPT ![t] = "start"] /\ UNCHANGED req
            /\ UNCHANGED <<nodes, lockq, aborted>>
    /\ UNCHANGED <<ctr, gen, hidectr, ticket, woken, kvars, down>>

(* The file system's part of getlk and setlk, while the path is locked.    *)
fuse_lock_common(t) ==
    LET l == LockOf(req[t])
    IN
    /\ pc[t] = "locked" /\ Shape(req[t]) = "lock"
    /\ pc' = [pc EXCEPT ![t] = "free"]
    /\ \E res \in fuse_fs_lock(Ops) :
         IF req[t].op = "setlk" /\ res = "ok"
         THEN /\ FsGrants(req[t].ino, l)
              /\ fslocks' = FsSet(req[t].ino, l)
              /\ req' = [req EXCEPT ![t].n = 1]
         ELSE UNCHANGED <<fslocks, req>>
    /\ UNCHANGED <<fvars, klook, kopen, isdir, litter, unlisted, given, case, sent, down, aborted>>

(* The locks of the owner go with flush, and with a release that flushes.  *)
(* The list follows too when the file system refused: only ENOSYS is told  *)
(* apart.                                                                  *)
fuse_flush_common(t) ==
    /\ pc[t] = "locked" /\ Shape(req[t]) \in {"flush", "release"} /\ req[t].lock # NoLock
    /\ IF fuse_fs_lock(Ops) = Missing
       THEN pc' = [pc EXCEPT ![t] = AfterFlush(req[t])] /\ UNCHANGED lvars
       ELSE /\ pc' = [pc EXCEPT ![t] = "insert"]
            /\ \E res \in fuse_fs_lock(Ops) :
                 IF res = "ok"
                 THEN fslocks' = FsSet(req[t].ino, LockOf(req[t])) /\ UNCHANGED unlisted
                 ELSE unlisted' = unlisted \cup {req[t].lock.owner} /\ UNCHANGED fslocks
    /\ UNCHANGED <<fvars, klook, kopen, isdir, litter, given, case, sent, req, down, aborted>>

(* The list follows: after setlk has given its path back, before flush and *)
(* release do.  Nobody looks at ENOLCK.                                    *)
ListLock(t) ==
    LET i == req[t].ino
        l == LockOf(req[t])
        apart == NeedsMemory(l, OffsetMax) \/ \E h \in fslocks : h[1] = i /\ h[2] = l.owner
    IN
    /\ pc[t] = "insert"
    /\ IF ~Live(nodes, i) THEN Abort(t, "get_node") /\ UNCHANGED unlisted
       ELSE /\ \/ /\ nodes' = [nodes EXCEPT ![i].locks = locks_insert(@, l)]
                  /\ unlisted' = IF apart THEN unlisted ELSE unlisted \ {l.owner}
               \/ /\ NeedsMemory(l, OffsetMax)
                  /\ unlisted' = unlisted \cup {l.owner} /\ UNCHANGED nodes
            /\ pc' = [pc EXCEPT ![t] = AfterFlush(req[t])]
            /\ req' = [req EXCEPT ![t] = IF @.op = "setlk" THEN NoReq ELSE @]
            /\ UNCHANGED <<lockq, aborted>>
    /\ UNCHANGED <<ctr, gen, hidectr, ticket, woken, klook, kopen, isdir, litter, fslocks, given, case, sent, down>>

----------------------------------------------------------------------------
(* Names.  A file that is open is not removed but renamed: by unlink, and  *)
(* by rename for the file it replaces.                                     *)
GoneDir(r) == IF r.op = "rename" THEN r.ino2 ELSE r.ino
GoneName(r) == IF r.op = "rename" THEN r.name2 ELSE r.name
is_open(ns, r) ==
    LET c == lookup_node(ns, GoneDir(r), GoneName(r)) IN c # 0 /\ ns[c].open > 0

IsOpen(t) ==
    /\ pc[t] = "locked" /\ Shape(req[t]) \in {"unlink", "rmdir", "rename"}
    /\ pc' = [pc EXCEPT ![t] = IF ~case.hard /\ Shape(req[t]) # "rmdir" /\ is_open(nodes, req[t])
                               THEN "hide" ELSE "change"]
    /\ UNCHANGED <<fvars, kvars, req, down, aborted>>

(* hidden_name counts until the name is free in the table and in the file  *)
(* system; it gives up after ten names the file system has, or without     *)
(* getattr.                                                                *)
hidden_name(t) ==
    /\ pc[t] = "hide"
    /\ \/ /\ "getattr" \in Ops
          /\ lookup_node(nodes, GoneDir(req[t]), GoneName(req[t])) # 0
          /\ hidectr' = hidectr + 1
          /\ req' = [req EXCEPT ![t].hide = Hidden(hidectr + 1)]
          /\ pc' = [pc EXCEPT ![t] = "hiding"]
       \/ /\ hidectr' = hidectr + 10
          /\ pc' = [pc EXCEPT ![t] = "free"] /\ UNCHANGED req
    /\ UNCHANGED <<nodes, ctr, gen, ticket, lockq, woken, kvars, down, aborted>>

remove_node(ns, d, n) ==
    LET i == lookup_node(ns, d, n) IN IF i = 0 THEN ns ELSE unhash_name(ns, i)
RemoveBad(ns, d, n) ==
    LET i == lookup_node(ns, d, n) IN i # 0 /\ UnhashBad(ns, i)

(* rename_node; what had the new name loses it.                            *)
rename_node(ns, d, n, e, m) ==
    LET i == lookup_node(ns, d, n)
    IN  IF i = 0 THEN ns ELSE hash_name(unhash_name(remove_node(ns, e, m), i), i, e, m)
(* An assertion fails, or hash_name does not find the new directory.       *)
RenameBad(ns, d, n, e, m) ==
    LET i == lookup_node(ns, d, n)
        freed == remove_node(ns, e, m)
    IN  i # 0 /\ (RemoveBad(ns, e, m) \/ UnhashBad(freed, i) \/ ~Live(unhash_name(freed, i), e))

(* Mutant: the node is not marked. *)
NotMarked(ns, i) == ns
Mark(ns, i) == [ns EXCEPT ![i].hidden = TRUE]

(* A hidden file that got created meanwhile is left alone.                 *)
HideTaken(ns, r) ==
    lookup_node(ns, GoneDir(r), GoneName(r)) # 0 /\ lookup_node(ns, GoneDir(r), r.hide) # 0
AfterHide(r) == IF r.op = "rename" THEN "change" ELSE "free"
hide_node(t) ==
    LET r == req[t]
        d == GoneDir(r)
        i == lookup_node(nodes, d, GoneName(r))
    IN
    /\ pc[t] = "hiding"
    /\ \E res \in fuse_fs_name("rename", Ops) :
         IF res # "ok" \/ HideTaken(nodes, r)
         THEN pc' = [pc EXCEPT ![t] = "free"] /\ UNCHANGED <<nodes, lockq, litter, req, aborted>>
         ELSE IF i = 0
         THEN pc' = [pc EXCEPT ![t] = AfterHide(r)] /\ UNCHANGED <<nodes, lockq, litter, req, aborted>>
         ELSE IF RenameBad(nodes, d, GoneName(r), d, r.hide)
         THEN Abort(t, "rename_node") /\ UNCHANGED litter
         ELSE /\ nodes' = Mark(rename_node(nodes, d, GoneName(r), d, r.hide), i)
              /\ litter' = litter \cup {i}
              /\ pc' = [pc EXCEPT ![t] = AfterHide(r)]
              /\ UNCHANGED <<lockq, req, aborted>>
    /\ UNCHANGED <<ctr, gen, hidectr, ticket, woken, klook, kopen, isdir, given, lvars, case, sent, down>>

(* The file system unlinks, removes or renames, and the table follows.     *)
FsAllows(r) ==
    LET c == lookup_node(nodes, GoneDir(r), GoneName(r)) IN c = 0 \/ ~isdir[c] \/ EmptyDir(c)
Changed(ns, r) ==
    IF r.op = "rename" THEN rename_node(ns, r.ino, r.name, r.ino2, r.name2)
                       ELSE remove_node(ns, r.ino, r.name)
ChangeBad(ns, r) ==
    IF r.op = "rename" THEN RenameBad(ns, r.ino, r.name, r.ino2, r.name2)
                       ELSE RemoveBad(ns, r.ino, r.name)
Change(t) ==
    /\ pc[t] = "change"
    /\ \E res \in fuse_fs_name(req[t].op, Ops) :
         IF res # "ok" \/ ~FsAllows(req[t])
         THEN pc' = [pc EXCEPT ![t] = "free"] /\ UNCHANGED <<nodes, lockq, req, aborted>>
         ELSE IF ChangeBad(nodes, req[t]) THEN Abort(t, "rename_node")
         ELSE /\ nodes' = Changed(nodes, req[t])
              /\ pc' = [pc EXCEPT ![t] = "free"]
              /\ UNCHANGED <<lockq, req, aborted>>
    /\ UNCHANGED <<ctr, gen, hidectr, ticket, woken, kvars, down>>

----------------------------------------------------------------------------
(* forget_node.  The last lookups are only given back when nobody has the  *)
(* node locked; until then the thread waits with those that want a path.   *)
(* Mutant: it does not wait. *)
NeverBusy(ns, r) == FALSE
ForgetBusy(ns, r) == ns[r.entry].nlookup = r.n /\ ns[r.entry].treelock # 0

ForgetLost(r) == ~Live(nodes, r.entry) \/ nodes[r.entry].nlookup < r.n
ForgetDone(ns, r) ==
    IF ns[r.entry].nlookup > r.n THEN [ns EXCEPT ![r.entry].nlookup = @ - r.n]
    ELSE unref_node(unhash_name([ns EXCEPT ![r.entry].nlookup = 0], r.entry), r.entry)
ForgetBad(ns, r) ==
    /\ ns[r.entry].nlookup = r.n
    /\ \/ ns[r.entry].treelock # 0 /\ ns[r.entry].refctr = 1
       \/ UnhashBad(ns, r.entry)

ForgetEnd(t) ==
    /\ nodes' = ForgetDone(nodes, req[t])
    /\ aborted' = IF ForgetBad(nodes, req[t]) THEN aborted \cup {"delete_node"} ELSE aborted
    /\ pc' = [pc EXCEPT ![t] = IF req[t].op = "create" THEN "free" ELSE "idle"]
    /\ req' = [req EXCEPT ![t] = IF @.op = "create" THEN [@ EXCEPT !.entry = 0] ELSE NoReq]

ForgetQueue(t) ==
    /\ lockq' = Append(lockq, t)
    /\ pc' = [pc EXCEPT ![t] = "fwait"]
    /\ UNCHANGED <<nodes, req, aborted>>

forget_node(t) ==
    /\ pc[t] = "forget"
    /\ IF ForgetLost(req[t]) THEN Abort(t, "forget_node")
       ELSE IF ForgetBusy(nodes, req[t]) THEN ForgetQueue(t) ELSE ForgetEnd(t) /\ UNCHANGED lockq
    /\ UNCHANGED <<ctr, gen, hidectr, ticket, woken, kvars, down>>

forget_node_retry(t) ==
    /\ pc[t] = "fwait" /\ t \in woken
    /\ woken' = (woken \ {t}) \cup wake_up_next(lockq, t)
    /\ IF ForgetLost(req[t]) THEN Abort(t, "forget_node")
       ELSE IF ForgetBusy(nodes, req[t]) THEN UNCHANGED <<nodes, lockq, pc, req, aborted>>
       ELSE ForgetEnd(t) /\ lockq' = dequeue_path(lockq, t)
    /\ UNCHANGED <<ctr, gen, hidectr, ticket, kvars, down>>

----------------------------------------------------------------------------
(* The threads are gone; hidden files that still have a path are removed.  *)
fuse_destroy ==
    /\ ~down /\ \A t \in Threads : pc[t] = "idle"
    /\ down' = TRUE
    /\ litter' = {i \in litter : ~Live(nodes, i) \/ ~nodes[i].hidden
                                 \/ Last(Up(nodes, i)) # Root}
    /\ UNCHANGED <<fvars, klook, kopen, isdir, given, lvars, case, sent, pc, req, aborted>>

ThreadStep(t) ==
    \/ get_path_common(t) \/ get_path_retry(t) \/ free_path(t)
    \/ lookup_path(t) \/ reply_entry(t)
    \/ fuse_lib_open(t) \/ CreateNotRegular(t) \/ CountOpen(t) \/ reply_open(t)
    \/ fuse_do_release(t) \/ UnlinkHidden(t)
    \/ fuse_lib_getlk(t) \/ fuse_lock_common(t) \/ fuse_flush_common(t) \/ ListLock(t)
    \/ IsOpen(t) \/ hidden_name(t) \/ hide_node(t) \/ Change(t)
    \/ forget_node(t) \/ forget_node_retry(t)

Next ==
    \/ \E op \in case.sent : KernelSend(op)
    \/ \E i \in Ids : KernelForget(i)
    \/ \E t \in Threads : KernelGiveUp(t) \/ ThreadStep(t)
    \/ fuse_destroy

(* The threads run and the file system returns from its calls: what weak   *)
(* fairness of ThreadStep(t) says, in terms of where the thread is.        *)
Able(t) == pc[t] \notin {"idle", "aborted"} /\ (pc[t] \in {"wait", "fwait"} => t \in woken)
Moved(t) == pc'[t] # pc[t] \/ (t \in woken /\ t \notin woken')
Fairness == \A t \in Threads : []<>(~Able(t)) \/ []<><<Moved(t)>>_vars
Spec == Init /\ [][Next]_vars /\ Fairness

----------------------------------------------------------------------------
(* Types: the node table, the queue and the program counters.              *)
TypeOK ==
    /\ nodes[Root].refctr > 0 /\ nodes[Root].nlookup = 1
    /\ \A i \in Ids : Live(nodes, i) =>
         /\ nodes[i].treelock \in -1 .. 2 * Cardinality(Threads)
         /\ nodes[i].parent \in Ids \cup {0} /\ nodes[i].ticket \in 0 .. ticket
    /\ ToSet(lockq) = {t \in Threads : pc[t] \in {"wait", "fwait"}} /\ IsInjective(lockq)
    /\ woken \subseteq Threads /\ sent \in 0 .. case.max /\ litter \subseteq Ids

(* No assertion of the node table fails and get_node finds every node it   *)
(* is asked for: neither a request that is given up, nor a FORGET that     *)
(* overtakes it, leaves a thread with a node that has been deleted.        *)
NoAbort == aborted = {}

(* While a thread has the tree lock, the path it gave to the file system   *)
(* is the path of its node: no rename, unlink or forget of another thread  *)
(* moves the node or one of the directories above it (try_get_path).       *)
PathStable ==
    \A t \in Threads : req[t].held => req[t].path = PathOf2(nodes, req[t])

(* The lookups of node i that threads are about to hand to the kernel, or  *)
(* to give back for it; its children; the opens and releases of it that    *)
(* are under way.                                                          *)
Carries(p, r, i) == p # "idle" /\ r.entry = i /\ ~r.done
InFlight(i) == UNION {{t} \X (1 .. req[t].n) : t \in {u \in Threads : Carries(pc[u], req[u], i)}}
Children(ns, i) == {c \in Ids \ {Root} : Live(ns, c) /\ ns[c].parent = i}
Opening(p, r, i) == p \in {"opened", "release"} /\ File(r) = i
Closing(p, r, i) == r.op = "release" /\ r.ino = i /\ p \in {"start", "wait", "locked", "insert"}
OpenUsers(i) == {t \in Threads : Opening(pc[t], req[t], i) \/ Closing(pc[t], req[t], i)}

(* The references of a node are the lookups of the kernel and its          *)
(* children, and nlookup is what the kernel holds, plus what a thread is   *)
(* about to hand over or to give back; the same for open files.  This is   *)
(* what find_node, forget_node, unhash_name and the undoing of an          *)
(* interrupted create keep between them.                                   *)
CountsExact ==
    \A i \in Ids \ {Root} : Live(nodes, i) =>
      /\ nodes[i].refctr = Cardinality(Children(nodes, i)) + IF nodes[i].nlookup > 0 THEN 1 ELSE 0
      /\ nodes[i].nlookup = klook[i] + Cardinality(InFlight(i))
      /\ nodes[i].open = kopen[i] + Cardinality(OpenUsers(i))

(* A file that was renamed because it was open is removed: its node is     *)
(* marked and open until the last release, which has the path to unlink it *)
(* by, and nothing is left of it after fuse_destroy.                       *)
HiddenRemoved ==
    \A i \in litter :
      /\ ~down /\ Live(nodes, i)
      /\ \/ nodes[i].hidden /\ nodes[i].open > 0
         \/ \E t \in Threads : pc[t] = "unhide" /\ File(req[t]) = i

(* The list that fuse_lib_getlk answers from says what the file system has *)
(* locked, byte by byte, for every owner that has no request of its own    *)
(* under way: locks that were joined, cut and split in any order, requests *)
(* of other owners in between, and insertions that failed or unlocks that  *)
(* the file system refused to flush, which a later flush or unlock of the  *)
(* whole file makes good.                                                  *)
LocksAgree ==
    \A i \in Ids : Live(nodes, i) =>
      LET listed == UNION {{<<i, l.owner, b, l.type>> : b \in Bytes(l)} : l \in ToSet(nodes[i].locks)}
          settled(o) == o \notin unlisted /\ \A t \in Threads : req[t].lock.owner # o
      IN  \A h \in {h \in fslocks : h[1] = i} \cup listed :
            settled(h[2]) => (h \in fslocks) = (h \in listed)

(* The kernel tells nodes apart by id and generation: no pair of them is   *)
(* given out twice, though ids are used again (next_id).                   *)
EntryOnce ==
    [][\A i \in Ids : Live(nodes', i) /\ ~Live(nodes, i) => <<i, gen'>> \notin given]_vars

(* Every request is answered: no thread waits for ever for a path, since   *)
(* whoever frees one wakes the first waiter and each waiter the next.      *)
Answered == \A t \in Threads : (pc[t] # "idle") ~> (pc[t] = "idle")
=============================================================================
