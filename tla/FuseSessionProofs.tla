------------------------- MODULE FuseSessionProofs -------------------------
(***************************************************************************)
(* Proofs about FuseSession for any number of requests and threads, any    *)
(* kernel and each of the three loops.                                     *)
(*                                                                         *)
(* The inductive invariant says where a thread can be with which message   *)
(* (Places), that a request has one handler (OneHandler), and what the     *)
(* fields of a request mean in terms of the places of the threads: its     *)
(* counter, the list it is on, its interrupt function and its lock.        *)
(***************************************************************************)
EXTENDS FuseSession, FiniteSetTheorems, SequenceTheorems, TLAPS

Busy == {"handler", "interruptible", "finished", "send", "free"}
Seeking == {"found", "calling", "drop"}
PCs == Busy \cup Seeking \cup {"off", "loop", "read", "left", "got", "process", "back", "crash", "pause",
                                "dead"}
Messages == {"req", "intr"} \X Reqs
Users(r) == {w \in Workers : Uses(w, r)}

ReqType ==
    [ctr : Nat, listed : BOOLEAN, interrupted : BOOLEAN, func : BOOLEAN,
     called : BOOLEAN, lock : Workers \cup {None}]

\* Of struct fuse_mt and of the replies only the shape is needed.
MtType ==
    /\ mt = [main |-> mt.main, list |-> mt.list, avail |-> mt.avail, finish |-> mt.finish,
             exit |-> mt.exit, walk |-> mt.walk, cancelled |-> mt.cancelled, raced |-> mt.raced]
    /\ mt.avail \in Int /\ mt.exit \in BOOLEAN

Types ==
    /\ kern \in [Reqs -> {"idle", "queued", "read", "answered", "dropped", "lost"}]
    /\ op \in [Reqs -> case.ops \cup {None}]
    /\ intr \in [Reqs -> {"no", "queued", "lib", "done", "dropped"}]
    /\ req \in [Reqs -> ReqType]
    /\ interrupts \in Seq(Reqs)
    /\ exited \in BOOLEAN /\ case \in Cases
    /\ pc \in [Workers -> PCs]
    /\ job \in [Workers -> Messages \cup {<<>>}]
    /\ todo = [w \in Workers |-> todo[w]]
    /\ MtType

\* Where a thread is with which message; only fuse_loop_mt.c starts threads.
Places ==
    \A w \in Workers :
        /\ pc[w] \in Busy \cup Seeking \cup {"got", "process", "back"} => job[w] \in Messages
        /\ pc[w] \in Busy => job[w][1] = "req"
        /\ pc[w] \in Seeking => job[w][1] = "intr" /\ case.loop = "mt"
        /\ pc[w] \in {"handler", "interruptible", "finished"} => case.loop # "ev"
        /\ case.loop # "mt" => w = MainThread \/ pc[w] = "off"

\* Only vfs_fuse_open has more than one reply to send.
Replies ==
    \A w \in Workers :
        pc[w] \in Busy /\ Len(todo[w]) > 1 => case.loop = "ev" /\ op[job[w][2]] = "OPEN"

OneHandler ==
    \A r \in Reqs :
        /\ \A v, w \in Workers : job[v] = <<"req", r>> /\ job[w] = <<"req", r>> => v = w
        /\ \A w \in Workers :
              job[w] \in {<<"req", r>>, <<"intr", r>>} => kern[r] \notin {"idle", "queued"}

\* The handler of r is at a place of P, or a thread with its INTERRUPT.
HandlerIn(r, P) == \E w \in Workers : job[w] = <<"req", r>> /\ pc[w] \in P
SeekerIn(r, P) == \E w \in Workers : job[w] = <<"intr", r>> /\ pc[w] \in P

\* Before fuse_ll_process nobody knows a request.
Fresh ==
    \A r \in Reqs :
        /\ kern[r] \in {"idle", "queued"} =>
               req[r] = NoReq /\ Users(r) = {} /\ intr[r] = "no" /\ r \notin ToSet(interrupts)
        /\ \A w \in Workers : job[w] = <<"req", r>> /\ pc[w] \in {"got", "process"} =>
               req[r] = NoReq /\ Users(r) = {}

\* What the fields of a request say.
FieldsOf(r) ==
    /\ req[r].ctr = 0 => req[r] = NoReq
    /\ req[r].listed => HandlerIn(r, Busy)
    /\ req[r].func => HandlerIn(r, {"interruptible", "finished"})
Fields == \A r \in Reqs : FieldsOf(r)

Locked == \A w \in Workers : pc[w] = "calling" => req[job[w][2]].lock = w

\* Only vfs_fuse_open works on a request it has answered.
NotTouched ==
    \A r \in Reqs : <<"req", r>> \in touched =>
        case.loop = "ev" /\ op[r] = "OPEN" /\ kern[r] \notin {"idle", "queued"}

\* A request the kernel waits for has a handler that has not replied.
ReadHeld ==
    \A r \in Reqs : kern[r] = "read" =>
        \/ mt.exit
        \/ HandlerIn(r, {"got", "process"})
        \/ HandlerIn(r, Busy \ {"free"}) /\ req[r].ctr > 0

\* InterruptKept without the threads that are through with it.
Kept ==
    \A r \in Reqs :
        kern[r] = "read" /\ intr[r] = "lib" =>
            \/ SeekerIn(r, {"got", "process", "found"})
            \/ r \in ToSet(interrupts)
            \/ req[r].interrupted /\ (req[r].func => req[r].called)
            \/ mt.exit

\* Until the session exits nobody is cancelled, leaves or dies.
GoingOn == case.loop = "mt" /\ ~exited /\ mt.main # "returned"
Running ==
    /\ GoingOn =>
        /\ mt.main \in {"check", "sem"} /\ mt.cancelled = {} /\ ~mt.exit
        /\ \A w \in Workers : pc[w] \notin {"left", "pause", "dead", "crash"}
    /\ case.loop # "mt" => ~mt.exit /\ mt.main = None

\* The workers numavail counts.
Counted == {w \in Threads : \/ pc[w] \in {"loop", "read", "got", "left", "pause"}
                            \/ job[w] # <<>> /\ IsForget(job[w])}

IInv ==
    /\ Types /\ Places /\ Replies /\ OneHandler /\ Fresh /\ Fields /\ Locked
    /\ RequestsLive /\ FunctionInTime /\ NotTouched /\ ReadHeld /\ Kept /\ Running /\ SomeoneReads

-----------------------------------------------------------------------------
\* The session starts with one of its threads.
LEMMA MainWorker == MainThread \in Workers
  BY SessionAssumption DEF MainThread

\* The session starts with values of the right types.
LEMMA InitTypes == Init => Types
<1> SUFFICES ASSUME Init PROVE Types
  OBVIOUS
<1>1. pc \in [Workers -> PCs]
  BY DEF Init, PCs
<1>2. NoReq \in ReqType
  BY DEF NoReq, ReqType
<1>3. req \in [Reqs -> ReqType]
  BY <1>2 DEF Init
<1>4. /\ kern \in [Reqs -> {"idle", "queued", "read", "answered", "dropped", "lost"}]
      /\ op \in [Reqs -> case.ops \cup {None}]
      /\ intr \in [Reqs -> {"no", "queued", "lib", "done", "dropped"}]
      /\ interrupts \in Seq(Reqs)
  BY DEF Init
<1>5. job \in [Workers -> Messages \cup {<<>>}] /\ todo = [w \in Workers |-> todo[w]]
  BY DEF Init
<1>6. MtType
  BY DEF Init, MtType
<1> QED
  BY <1>1, <1>3, <1>4, <1>5, <1>6 DEF Types, Init

\* fuse_session_loop_mt starts in a state of the invariant.
LEMMA InitIInv == Init => IInv
<1> SUFFICES ASSUME Init PROVE IInv
  OBVIOUS
<1>1. Types
  BY InitTypes
<1>2. \A r \in Reqs : Users(r) = {}
  BY DEF Init, Users, Uses, Handling
<1>3. Places
  BY MainWorker DEF Init, Places, Busy, Seeking
<1>4. Replies /\ OneHandler /\ Locked /\ NotTouched /\ ReadHeld /\ Kept
  BY DEF Init, Replies, OneHandler, Locked, NotTouched, ReadHeld, Kept, Busy
<1>5. Fields /\ Fresh
  <2>1. ToSet(interrupts) = {}
    BY DEF Init, ToSet
  <2> QED
    BY <1>2, <2>1 DEF Init, Fresh, Fields, FieldsOf, NoReq
<1>6. RequestsLive /\ FunctionInTime
  BY <1>2, FS_EmptySet DEF Init, RequestsLive, FunctionInTime, Users, NoReq
<1>7. Running
  BY DEF Init, Running, GoingOn, None
<1>8. SomeoneReads
  <2>1. Counted = {MainThread}
    BY MainWorker DEF Init, Threads, Counted
  <2>2. mt.avail = 1
    BY DEF Init
  <2>3. Cardinality(Counted) = 1
    BY <2>1, FS_Singleton
  <2> QED
    BY <2>2, <2>3 DEF SomeoneReads, Counted
<1> QED
  BY <1>1, <1>3, <1>4, <1>5, <1>6, <1>7, <1>8 DEF IInv


-----------------------------------------------------------------------------
(* Steps that only move threads between places where they use no request.  *)
Outside == {"off", "loop", "read", "left", "pause", "dead"}
Moves(v) ==
    \/ pc'[v] = pc[v] /\ job'[v] = job[v]
    \/ /\ pc[v] \in Outside \cup {"back"} \/ (pc[v] = "got" /\ mt.exit)
       /\ pc'[v] \in Outside /\ job'[v] \in {job[v], <<>>}
    \/ pc[v] = "got" /\ pc'[v] = "process" /\ job'[v] = job[v]
OnlyMoves ==
    /\ UNCHANGED <<kern, op, intr, req, interrupts, todo, case>>
    /\ \A r \in Reqs : <<"req", r>> \in touched' => <<"req", r>> \in touched
    /\ mt.exit => mt'.exit
    /\ \A v \in Workers : Moves(v) /\ (case.loop # "mt" => v = MainThread \/ pc'[v] \in {pc[v], "off"})
    /\ pc' \in [Workers -> PCs] /\ job' \in [Workers -> Messages \cup {<<>>}]

\* A step that only moves threads between places that hold no request keeps
\* the invariant.
LEMMA MovesIInv ==
    ASSUME IInv, OnlyMoves, MtType', exited' \in BOOLEAN
    PROVE  /\ Types' /\ Places' /\ Replies' /\ OneHandler' /\ Fresh' /\ Fields' /\ Locked'
           /\ RequestsLive' /\ FunctionInTime' /\ NotTouched' /\ ReadHeld' /\ Kept'
<1>1. Types'
  BY DEF IInv, Types, OnlyMoves
<1>2. ASSUME NEW v \in Workers, pc[v] \in Busy \cup Seeking \/ pc'[v] \in Busy \cup Seeking
      PROVE  pc'[v] = pc[v] /\ job'[v] = job[v]
  BY <1>2 DEF OnlyMoves, Moves, Outside, Busy, Seeking
<1>3. ASSUME NEW v \in Workers, NEW k, NEW r \in Reqs, job'[v] = <<k, r>>
      PROVE  job[v] = <<k, r>>
  <2>1. <<k, r>> # <<>>
    OBVIOUS
  <2> QED
    BY <1>3, <2>1 DEF OnlyMoves, Moves
<1>4. \A r \in Reqs : Users(r)' = Users(r)
  BY DEF IInv, Types, Users, Uses, Handling, OnlyMoves, Moves, Outside
<1>5. Places'
  BY DEF IInv, Types, Places, Busy, Seeking, Messages, OnlyMoves, Moves, Outside
<1>6. Replies' 
  BY <1>2 DEF IInv, Replies, OnlyMoves
<1>7. OneHandler'
  BY <1>3 DEF IInv, OneHandler, OnlyMoves
<1>8. Fresh'
  BY <1>3, <1>4 DEF IInv, Fresh, OnlyMoves, Moves, Outside
<1>9. ASSUME NEW r \in Reqs, NEW P, P \subseteq Busy, HandlerIn(r, P)
      PROVE  HandlerIn(r, P)'
  BY <1>2, <1>9 DEF HandlerIn
<1>a. Fields'
  <2>1. \A r \in Reqs : req'[r] = req[r]
    BY DEF OnlyMoves
  <2>2. ASSUME NEW r \in Reqs PROVE req[r].listed => HandlerIn(r, Busy)'
    BY <1>9 DEF IInv, Fields, FieldsOf
  <2>3. ASSUME NEW r \in Reqs PROVE req[r].func => HandlerIn(r, {"interruptible", "finished"})'
    BY <1>9 DEF IInv, Fields, FieldsOf, Busy
  <2> QED
    BY <2>1, <2>2, <2>3 DEF IInv, Fields, FieldsOf
<1>10. Locked'
  BY <1>2 DEF IInv, Locked, OnlyMoves, Seeking
<1>11. FunctionInTime'
  BY <1>2 DEF IInv, FunctionInTime, Busy, Seeking
<1>12. NotTouched'
  BY DEF IInv, NotTouched, OnlyMoves
<1>13. RequestsLive'
  BY <1>4 DEF IInv, RequestsLive, Users, OnlyMoves
<1>14. ReadHeld'
  <2> SUFFICES ASSUME NEW r \in Reqs, kern[r] = "read", ~mt'.exit
               PROVE  \/ HandlerIn(r, {"got", "process"})'
                      \/ HandlerIn(r, Busy \ {"free"})' /\ req'[r].ctr > 0
    BY DEF ReadHeld, OnlyMoves
  <2>1. ~mt.exit /\ req' = req
    BY DEF OnlyMoves
  <2>2. HandlerIn(r, {"got", "process"}) => HandlerIn(r, {"got", "process"})'
    BY <2>1 DEF HandlerIn, OnlyMoves, Moves, Outside
  <2> QED
    BY <1>9, <2>1, <2>2 DEF IInv, ReadHeld
<1>15. Kept'
  <2> SUFFICES ASSUME NEW r \in Reqs, kern[r] = "read", intr[r] = "lib", ~mt'.exit
               PROVE  Kept!(r)!2'
    BY DEF Kept, OnlyMoves
  <2>1. ~mt.exit /\ req' = req /\ interrupts' = interrupts
    BY DEF OnlyMoves
  <2>2. SeekerIn(r, {"got", "process", "found"}) => SeekerIn(r, {"got", "process", "found"})'
    BY <1>2, <2>1 DEF SeekerIn, OnlyMoves, Moves, Outside, Seeking
  <2> QED
    BY <2>1, <2>2 DEF IInv, Kept, OnlyMoves
<1> QED
  BY <1>1, <1>5, <1>6, <1>7, <1>8, <1>a, <1>10, <1>11, <1>12, <1>13, <1>14, <1>15

(* Nothing but the session's end and the list of workers: the loop's thread*)
(* and the signal.                                                         *)
LEMMA SameCount ==
    ASSUME SomeoneReads, Counted' = Counted, Threads' = Threads,
           GoingOn' => GoingOn, mt'.avail = mt.avail
    PROVE  SomeoneReads'
  BY DEF SomeoneReads, Counted, GoingOn

\* The readers and the threads are the same while nobody moves.
LEMMA SamePlaces ==
    ASSUME UNCHANGED <<op, pc, job>>
    PROVE  Counted' = Counted /\ Threads' = Threads
  BY DEF Counted, Threads, IsForget

\* The first thread starting or joining the workers, and exit_handler, keep
\* the invariant.
LEMMA StepMain == ASSUME IInv, Main \/ exit_handler PROVE IInv'
<1> USE DEF kvars, lvars, tvars
<1>1. CASE MainCheck \/ MainSemWait \/ MainCancel \/ MainWalked \/ MainExit \/ MainReturn
  <2> USE DEF MainCheck, MainSemWait, MainCancel, MainWalked, MainExit, MainReturn
  <2>1. UNCHANGED <<kern, op, intr, req, interrupts, case, touched, pc, job, todo>>
    BY <1>1
  <2>2. MtType' /\ exited' \in BOOLEAN /\ (mt.exit => mt'.exit) /\ mt'.avail = mt.avail
    BY <1>1 DEF IInv, Types, MtType
  <2>3. OnlyMoves
    BY <2>1, <2>2 DEF OnlyMoves, Moves, IInv, Types
  <2>4. GoingOn' => GoingOn
    BY <1>1 DEF IInv, Types, MtType, GoingOn, Running
  <2>5. Running'
    BY <1>1, <2>1 DEF IInv, Types, MtType, GoingOn, Running, None
  <2>6. SomeoneReads'
    BY <2>1, <2>2, <2>4, SamePlaces, SameCount DEF IInv
  <2> QED
    BY <2>2, <2>3, <2>5, <2>6, MovesIInv DEF IInv
<1>2. CASE fuse_join_worker
  <2> USE DEF fuse_join_worker, Go
  <2>1. MtType' /\ exited' \in BOOLEAN
    BY <1>2 DEF IInv, Types, MtType
  <2>2. OnlyMoves
    <3>1. UNCHANGED <<kern, op, intr, req, interrupts, todo, case, touched, job>>
      BY <1>2
    <3>4. mt.exit => mt'.exit
      BY <1>2 DEF IInv, Types, MtType
    <3>2. pc' \in [Workers -> PCs]
      BY <1>2 DEF IInv, Types, PCs
    <3>3. ASSUME NEW v \in Workers PROVE Moves(v) /\ pc'[v] \in {pc[v], "off"}
      <4>1. pc'[v] = pc[v] \/ (pc[v] = "dead" /\ pc'[v] = "off")
        BY <1>2 DEF IInv, Types
      <4>2. job'[v] = job[v]
        BY <1>2
      <4> QED
        BY <4>1, <4>2 DEF Moves, Outside
    <3> QED
      BY <3>1, <3>2, <3>3, <3>4 DEF OnlyMoves, IInv, Types
  <2>3. ~GoingOn' /\ case.loop = "mt"
    BY <1>2 DEF IInv, Types, MtType, GoingOn, Running, None
  <2> QED
    BY <1>2, <2>1, <2>2, <2>3, MovesIInv DEF IInv, Running, SomeoneReads, GoingOn
<1>3. CASE exit_handler
  <2> USE DEF exit_handler
  <2>1. /\ UNCHANGED <<kern, op, intr, req, interrupts, case, touched, job, todo>>
        /\ exited' = TRUE
    BY <1>3
  <2>2. MtType' /\ exited' \in BOOLEAN /\ (mt.exit => mt'.exit) /\ mt'.exit = mt.exit
    BY <1>3 DEF IInv, Types, MtType
  <2>3. case.loop # "mt" => mt'.main = mt.main
    BY <1>3 DEF IInv, Running, None
  <2>4. OnlyMoves
    <3>1. pc' \in [Workers -> PCs]
      BY <1>3 DEF IInv, Types, PCs
    <3>2. ASSUME NEW v \in Workers
          PROVE  /\ pc'[v] = pc[v] \/ (pc[v] = "read" /\ pc'[v] = "left")
                 /\ Moves(v) /\ (case.loop # "mt" => v = MainThread \/ pc'[v] = pc[v])
      <4>1. pc'[v] = pc[v] \/ (pc[v] = "read" /\ pc'[v] = "left")
        BY <1>3 DEF IInv, Types
      <4>2. case.loop # "mt" => v = MainThread \/ pc[v] = "off"
        BY DEF IInv, Places
      <4> QED
        BY <2>1, <4>1, <4>2 DEF Moves, Outside
    <3> QED
      BY <2>1, <2>2, <3>1, <3>2 DEF OnlyMoves, IInv, Types
  <2>5. ~GoingOn'
    BY <2>1 DEF GoingOn
  <2>6. Running' /\ SomeoneReads'
    BY <2>1, <2>2, <2>3, <2>5 DEF IInv, Running, SomeoneReads, GoingOn
  <2> QED
    BY <2>2, <2>4, <2>6, MovesIInv DEF IInv
<1> QED
  BY <1>1, <1>2, <1>3 DEF Main

\* do_init keeps the invariant.
LEMMA StepDoInit == ASSUME IInv, NEW arg, DoInit(arg) PROVE IInv'
<1>1. OnlyMoves
  BY DEF DoInit, kvars, tvars, OnlyMoves, Moves, IInv, Types
<1>2. MtType' /\ exited' \in BOOLEAN
  BY DEF DoInit, MtType, IInv, Types
<1>3. Running' /\ (GoingOn' => GoingOn)
  BY DEF DoInit, tvars, Running, GoingOn, IInv
<1>4. SomeoneReads'
  BY <1>3, SamePlaces, SameCount DEF DoInit, kvars, tvars, IInv
<1> QED
  BY <1>1, <1>2, <1>3, <1>4, MovesIInv DEF IInv

(* A worker that leaves its loop, or the one thread of the other loops.    *)
Leaves(w) ==
    \/ ReceiveNoDevice(w) \/ fuse_do_work_left(w) \/ Cancelled(w)
    \/ SingleGot(w) \/ SingleBack(w) \/ SingleLeft(w) \/ vfs_fuse_fini(w)

\* A worker that leaves its loop keeps the invariant.
LEMMA StepLeaves == ASSUME IInv, NEW w \in Workers, Leaves(w) PROVE IInv'
<1> USE DEF Leaves, ReceiveNoDevice, fuse_do_work_left, Cancelled, SingleGot, SingleBack,
            SingleLeft, vfs_fuse_fini, Go, Post, kvars, lvars, tvars
<1>1. UNCHANGED <<kern, op, intr, req, interrupts, todo, case>>
  OBVIOUS
<1>2. MtType' /\ exited' \in BOOLEAN /\ mt'.exit = mt.exit /\ mt'.main = mt.main
  BY DEF IInv, Types, MtType
<1>3. pc' \in [Workers -> PCs] /\ job' \in [Workers -> Messages \cup {<<>>}]
  BY DEF IInv, Types, PCs
<1>4. ASSUME NEW v \in Workers, v # w PROVE pc'[v] = pc[v] /\ job'[v] = job[v]
  BY <1>4 DEF IInv, Types
<1>5. Moves(w) /\ pc[w] # "off"
  BY DEF IInv, Types, Moves, Outside
<1>6. case.loop # "mt" => w = MainThread
  BY <1>5 DEF IInv, Places
<1>8. ~GoingOn'
  BY <1>1, <1>2 DEF IInv, Types, GoingOn, Running
<1>9. Running' /\ SomeoneReads'
  BY <1>1, <1>2, <1>8 DEF IInv, Types, GoingOn, Running, SomeoneReads
<1>10. \A r \in Reqs : <<"req", r>> \in touched' => <<"req", r>> \in touched
  <2>1. touched' \in {touched, touched \cup {<<"chan", 0>>}}
    OBVIOUS
  <2>2. \A r \in Reqs : <<"req", r>> # <<"chan", 0>>
    OBVIOUS
  <2> QED
    BY <2>1, <2>2
<1>11. OnlyMoves
  <2>1. mt.exit => mt'.exit
    BY <1>2
  <2>2. ASSUME NEW v \in Workers
        PROVE  Moves(v) /\ (case.loop # "mt" => v = MainThread \/ pc'[v] \in {pc[v], "off"})
    BY <1>4, <1>5, <1>6 DEF Moves
  <2> QED
    BY <1>1, <1>3, <1>10, <2>1, <2>2 DEF OnlyMoves
<1> QED
  BY <1>2, <1>9, <1>11, MovesIInv DEF IInv

\* The test at the head of the loop keeps the invariant.
LEMMA StepTest == ASSUME IInv, NEW w \in Workers, LoopTest(w) PROVE IInv'
<1>1. /\ UNCHANGED <<kern, op, intr, req, interrupts, todo, case, job, mt, exited, touched>>
      /\ pc[w] = "loop"
  BY DEF LoopTest, kvars, lvars
<1>2. PICK l \in {"left", "read"} :
        pc' = [pc EXCEPT ![w] = l] /\ (l = "left" => exited)
  BY DEF LoopTest, Go
<1>3. MtType' /\ exited' \in BOOLEAN
  BY <1>1 DEF IInv, Types, MtType
<1>4. ASSUME NEW v \in Workers
      PROVE  IF v = w THEN pc'[v] = l ELSE pc'[v] = pc[v]
  BY <1>2 DEF IInv, Types
<1>5. OnlyMoves
  <2>1. pc' \in [Workers -> PCs]
    BY <1>2 DEF IInv, Types, PCs
  <2>2. ASSUME NEW v \in Workers
        PROVE  Moves(v) /\ (case.loop # "mt" => v = MainThread \/ pc'[v] \in {pc[v], "off"})
    BY <1>1, <1>4 DEF Moves, Outside, IInv, Places
  <2> QED
    BY <1>1, <2>1, <2>2 DEF OnlyMoves, IInv, Types
<1>6. Running'
  BY <1>1, <1>2, <1>4 DEF IInv, Running, GoingOn
<1>7. Counted' = Counted /\ Threads' = Threads
  BY <1>1, <1>4 DEF Counted, Threads, IsForget
<1>8. SomeoneReads'
  BY <1>1, <1>7, SameCount DEF IInv, GoingOn
<1> QED
  BY <1>3, <1>5, <1>6, <1>8, MovesIInv DEF IInv

(* A worker counts itself out, and back in.                                *)
LEMMA CountedFinite == IsFiniteSet(Counted) /\ Counted \subseteq Workers
  BY SessionAssumption, FS_Subset DEF Counted, Threads

\* fuse_do_work after fuse_chan_recv keeps the invariant.
LEMMA StepGot == ASSUME IInv, NEW w \in Workers, fuse_do_work_got(w) PROVE IInv'
<1> DEFINE a == CountOut(job[w])
           s == IF NoneLeft(a) THEN fuse_start_thread([mt EXCEPT !.avail = a])
                               ELSE [mt |-> [mt EXCEPT !.avail = a], new |-> None]
<1>1. /\ case.loop = "mt" /\ pc[w] = "got"
      /\ UNCHANGED <<kern, op, intr, req, interrupts, job, todo, exited, case, touched>>
  BY DEF fuse_do_work_got, kvars, lvars
<1>2. job[w] \in Messages
  BY <1>1 DEF IInv, Places
<1>3. CASE mt.exit
  <2>1. mt' = mt /\ pc' = [pc EXCEPT ![w] = "dead"]
    BY <1>3 DEF fuse_do_work_got, Go
  <2>2. OnlyMoves
    BY <1>1, <1>3, <2>1 DEF OnlyMoves, Moves, Outside, IInv, Types, PCs
  <2>3. ~GoingOn' /\ MtType' /\ exited' \in BOOLEAN
    BY <1>1, <1>3, <2>1 DEF IInv, Running, GoingOn, Types, MtType
  <2> QED
    BY <1>1, <2>2, <2>3, MovesIInv DEF IInv, Running, SomeoneReads, GoingOn
<1>4. CASE ~mt.exit
  <2>1. /\ mt' = s.mt
        /\ pc' = [x \in Workers |-> IF x = w THEN "process" ELSE IF x = s.new THEN "loop" ELSE pc[x]]
    BY <1>4 DEF fuse_do_work_got
  <2>2. a = mt.avail - (IF IsForget(job[w]) THEN 0 ELSE 1) /\ a \in Int
    BY DEF CountOut, IInv, Types, MtType
  <2>3. /\ s.new \in Workers => pc[s.new] = "off"
        /\ mt'.avail = a + (IF s.new \in Workers THEN 1 ELSE 0)
        /\ mt'.main = mt.main /\ mt'.cancelled = mt.cancelled /\ mt'.exit = mt.exit
        /\ a = 0 => s.new \in Workers \/ \A x \in Workers : pc[x] # "off"
    BY <2>1, <2>2, SessionAssumption DEF IInv, Types, MtType, fuse_start_thread, NoneLeft, None
  <2>4. MtType'
    <3>1. CASE s.new = None /\ mt' = [mt EXCEPT !.avail = a]
      BY <3>1, <2>2 DEF IInv, Types, MtType
    <3>2. ASSUME NEW l, NEW x, mt' = [mt EXCEPT !.list = l, !.avail = a + 1, !.raced = x]
          PROVE  MtType'
      <4>1. a + 1 \in Int
        BY <2>2
      <4> HIDE DEF a
      <4> QED
        BY <3>2, <4>1 DEF IInv, Types, MtType
    <3> QED
      BY <2>1, <2>2, <3>1, <3>2 DEF IInv, Types, MtType, fuse_start_thread, NoneLeft
  <2> HIDE DEF a, s
  <2>5. ASSUME NEW v \in Workers
        PROVE  \/ v # w /\ v # s.new /\ pc'[v] = pc[v]
               \/ v = w /\ pc'[v] = "process"
               \/ v # w /\ v = s.new /\ pc[v] = "off" /\ pc'[v] = "loop"
    BY <2>1, <2>3
  <2>6. OnlyMoves
    <3>1. ASSUME NEW v \in Workers PROVE Moves(v)
      BY <1>1, <2>5 DEF Moves, Outside
    <3>2. pc' \in [Workers -> PCs]
      BY <2>1 DEF IInv, Types, PCs
    <3>3. mt.exit => mt'.exit
      BY <2>3
    <3> QED
      BY <1>1, <3>1, <3>2, <3>3 DEF OnlyMoves, IInv, Types
  <2>7. GoingOn' <=> GoingOn
    BY <1>1, <2>3 DEF GoingOn
  <2>8. Running'
    BY <1>1, <1>4, <2>3, <2>5, <2>7 DEF IInv, Running
  <2>9. SUFFICES ASSUME GoingOn
                 PROVE  mt'.avail = Cardinality(Counted') /\ (mt'.avail > 0 \/ Threads' = Workers)
    BY <1>1, <2>4, <2>6, <2>7, <2>8, MovesIInv DEF IInv, Types, SomeoneReads, GoingOn, Counted
  <2>10. mt.avail = Cardinality(Counted) /\ w \in Counted
    BY <1>1, <2>9 DEF IInv, SomeoneReads, GoingOn, Counted, Threads
  <2>11. job[w] # <<>>
    BY <1>2 DEF Messages
  <2>12. PICK C : /\ C = IF IsForget(job[w]) THEN Counted ELSE Counted \ {w}
                  /\ Cardinality(C) = a /\ IsFiniteSet(C) /\ a >= 0
    <3>1. CASE IsForget(job[w])
      BY <2>2, <2>10, <3>1, CountedFinite, FS_CardinalityType
    <3>2. CASE ~IsForget(job[w])
      <4>1. Cardinality(Counted \ {w}) = Cardinality(Counted) - 1 /\ IsFiniteSet(Counted \ {w})
        BY <2>10, CountedFinite, FS_RemoveElement
      <4> QED
        BY <2>2, <2>10, <3>2, <4>1, FS_CardinalityType
    <3> QED
      BY <3>1, <3>2
  <2>13. s.new \in Workers => s.new \notin Counted
    BY <2>3 DEF Counted, Threads
  <2>14. Counted' = IF s.new \in Workers THEN C \cup {s.new} ELSE C
    <3>1. ASSUME NEW v \in Workers PROVE v \in Counted' <=> v \in C \/ (v = s.new /\ v # w)
      <4>1. IsForget(job[v])' <=> IsForget(job[v])
        BY <1>1 DEF IsForget
      <4>2. CASE v = w
        BY <1>1, <2>5, <2>10, <2>11, <2>12, <4>1, <4>2 DEF Counted, Threads
      <4>3. CASE v # w
        BY <1>1, <2>5, <2>3, <2>12, <4>1, <4>3 DEF Counted, Threads
      <4> QED
        BY <4>2, <4>3
    <3>2. s.new # w
      BY <1>1, <2>3
    <3>3. Counted' \subseteq Workers /\ C \subseteq Workers
      BY <2>12 DEF Counted, Threads
    <3> QED
      BY <3>1, <3>2, <3>3
  <2>15. mt'.avail = Cardinality(Counted')
    <3>1. CASE s.new \in Workers
      BY <2>3, <2>12, <2>13, <2>14, <3>1, FS_AddElement
    <3>2. CASE s.new \notin Workers
      BY <2>2, <2>3, <2>12, <2>14, <3>2
    <3> QED
      BY <3>1, <3>2
  <2>16. a = 0 /\ s.new \notin Workers => Threads' = Workers
    BY <2>1, <2>3 DEF Threads
  <2> QED
    BY <2>2, <2>3, <2>12, <2>15, <2>16
<1> QED
  BY <1>3, <1>4

\* fuse_do_work after fuse_session_process keeps the invariant.
LEMMA StepBack == ASSUME IInv, NEW w \in Workers, fuse_do_work_back(w) PROVE IInv'
<1> DEFINE a == IF IsForget(job[w]) THEN mt.avail ELSE mt.avail + 1
<1>1. /\ case.loop = "mt" /\ pc[w] = "back"
      /\ UNCHANGED <<kern, op, intr, req, interrupts, todo, exited, case, touched>>
      /\ job' = [job EXCEPT ![w] = <<>>]
  BY DEF fuse_do_work_back, kvars, lvars
<1>0. job[w] \in Messages /\ MaxIdle \in Nat /\ MaxIdle >= 1
  BY <1>1, SessionAssumption DEF IInv, Places
<1>2. job[w] # <<>> /\ a \in Int
  <2>1. job[w] # <<>>
    BY <1>0 DEF Messages
  <2>2. mt.avail \in Int
    BY DEF IInv, Types, MtType
  <2> QED
    BY <2>1, <2>2
<1>3. PICK l \in {"loop", "dead", "off"} :
        /\ pc' = [pc EXCEPT ![w] = l]
        /\ l = "loop" => a <= MaxIdle
        /\ l = "dead" => mt.exit
        /\ l = "off" => a > MaxIdle
        /\ mt'.avail = IF l = "off" THEN a - 1 ELSE a
        /\ MtType' /\ mt'.main = mt.main /\ mt'.cancelled = mt.cancelled /\ mt'.exit = mt.exit
  <2>0. CASE a <= MaxIdle
    <3>1. mt' = [mt EXCEPT !.avail = a] /\ pc' = [pc EXCEPT ![w] = "loop"]
      BY <2>0 DEF fuse_do_work_back, Go
    <3> HIDE DEF a
    <3> QED
      BY <1>2, <2>0, <3>1 DEF IInv, Types, MtType
  <2>1. CASE ~(a <= MaxIdle) /\ mt.exit
    <3>1. mt' = [mt EXCEPT !.avail = a] /\ pc' = [pc EXCEPT ![w] = "dead"]
      BY <2>1 DEF fuse_do_work_back, Go
    <3> HIDE DEF a
    <3> QED
      BY <1>2, <2>1, <3>1 DEF IInv, Types, MtType
  <2>2. CASE ~(a <= MaxIdle) /\ ~mt.exit
    <3>1. PICK l, x : /\ mt' = [mt EXCEPT !.avail = a - 1, !.list = l, !.raced = x]
                      /\ pc' = [pc EXCEPT ![w] = "off"]
      BY <2>2 DEF fuse_do_work_back, Go
    <3>2. a > MaxIdle /\ a - 1 \in Int
      BY <1>2, <2>2, SessionAssumption
    <3> HIDE DEF a
    <3> QED
      BY <3>2, <3>1 DEF IInv, Types, MtType
  <2> QED
    BY <2>0, <2>1, <2>2
<1>4. OnlyMoves
  <2>1. ASSUME NEW v \in Workers PROVE Moves(v)
    BY <1>1, <1>3 DEF Moves, Outside, IInv, Types
  <2>2. pc' \in [Workers -> PCs] /\ job' \in [Workers -> Messages \cup {<<>>}]
    BY <1>1, <1>3 DEF IInv, Types, PCs
  <2>3. mt.exit => mt'.exit
    BY <1>3
  <2> QED
    BY <1>1, <2>1, <2>2, <2>3 DEF OnlyMoves
<1>5. GoingOn' <=> GoingOn
  BY <1>1, <1>3 DEF GoingOn
<1>6. Running'
  BY <1>1, <1>3, <1>5 DEF IInv, Running, Types
<1>7. SUFFICES ASSUME GoingOn
               PROVE  mt'.avail = Cardinality(Counted') /\ mt'.avail > 0
  BY <1>1, <1>3, <1>4, <1>5, <1>6, MovesIInv DEF IInv, Types, SomeoneReads, GoingOn, Counted
<1>8. mt.avail = Cardinality(Counted) /\ (w \in Counted <=> IsForget(job[w]))
  BY <1>1, <1>2, <1>7 DEF IInv, SomeoneReads, GoingOn, Counted, Threads
<1>9. l # "dead"
  BY <1>3, <1>7 DEF IInv, Running
<1>10. Counted' = IF l = "loop" THEN Counted \cup {w} ELSE Counted \ {w}
  <2>1. ASSUME NEW v \in Workers, v # w PROVE v \in Counted' <=> v \in Counted
    BY <1>1, <1>3, <2>1 DEF Counted, Threads, IsForget, IInv, Types
  <2>2. w \in Counted' <=> l = "loop"
    BY <1>1, <1>3, <1>9 DEF Counted, Threads, IInv, Types
  <2>3. Counted' \subseteq Workers /\ Counted \subseteq Workers
    BY DEF Counted, Threads
  <2> QED
    BY <2>1, <2>2, <2>3
<1>11. IsFiniteSet(Counted) /\ Cardinality(Counted) \in Nat
  BY CountedFinite, FS_CardinalityType
<1>12. CASE IsForget(job[w])
  <2>1. w \in Counted /\ a = mt.avail /\ Counted \cup {w} = Counted
    BY <1>8, <1>12
  <2>2. Cardinality(Counted \ {w}) = mt.avail - 1 /\ mt.avail > 0
    BY <1>8, <1>11, <2>1, FS_RemoveElement, FS_EmptySet
  <2> HIDE DEF a
  <2>3. CASE l = "loop"
    BY <1>3, <1>8, <1>10, <2>1, <2>2, <2>3
  <2>4. CASE l = "off"
    BY <1>0, <1>2, <1>3, <1>8, <1>10, <2>1, <2>2, <2>4
  <2> QED
    BY <1>9, <2>3, <2>4
<1>13. CASE ~IsForget(job[w])
  <2>1. w \notin Counted /\ a = mt.avail + 1 /\ Counted \ {w} = Counted
    BY <1>8, <1>13
  <2>2. Cardinality(Counted \cup {w}) = mt.avail + 1
    BY <1>8, <1>11, <2>1, FS_AddElement
  <2> HIDE DEF a
  <2>3. CASE l = "loop"
    BY <1>3, <1>8, <1>10, <1>11, <2>1, <2>2, <2>3
  <2>4. CASE l = "off"
    <3>1. Counted' = Counted /\ mt'.avail = a - 1
      BY <1>3, <1>10, <2>1, <2>4
    <3> QED
      BY <1>0, <1>3, <1>8, <1>11, <2>1, <2>4, <3>1
  <2> QED
    BY <1>9, <2>3, <2>4
<1> QED
  BY <1>12, <1>13

-----------------------------------------------------------------------------
(* The kernel changes what it knows of its requests, the threads go on.    *)
LEMMA KernelFrame ==
    ASSUME IInv, UNCHANGED <<lvars, tvars, case, mt, touched>>, exited' = exited
    PROVE  /\ Places' /\ Fields' /\ Locked' /\ FunctionInTime' /\ Running'
           /\ \A r \in Reqs : Users(r)' = Users(r)
<1> USE DEF lvars, tvars
<1>1. Places'
  BY DEF IInv, Places
<1>2. Fields'
  BY DEF IInv, Fields, FieldsOf, HandlerIn
<1>3. Locked' /\ FunctionInTime'
  BY DEF IInv, Locked, FunctionInTime
<1>4. Running'
  BY DEF IInv, Running, GoingOn
<1>5. \A r \in Reqs : Users(r)' = Users(r)
  BY DEF Users, Uses, Handling
<1> QED
  BY <1>1, <1>2, <1>3, <1>4, <1>5

\* A request queued by the kernel keeps the invariant.
LEMMA StepKernelSend ==
    ASSUME IInv, NEW r \in Reqs, NEW o, KernelSend(r, o)
    PROVE  IInv'
<1> USE DEF KernelSend, tvars, lvars
<1>1. Types'
  BY DEF IInv, Types, MtType
<1>0. NotTouched'
  BY DEF IInv, NotTouched, Types
<1>2. /\ Places' /\ Fields' /\ Locked' /\ FunctionInTime' /\ Running'
      /\ \A q \in Reqs : Users(q)' = Users(q)
  BY KernelFrame
<1>3. \A w \in Workers : job[w] # <<"req", r>>
  BY DEF IInv, OneHandler
<1>4. OneHandler'
  BY <1>3 DEF IInv, Types, OneHandler
<1>5. Fresh'
  BY <1>2 DEF IInv, Types, Fresh
<1>6. RequestsLive'
  <2>1. req[r].ctr = Cardinality(Users(r))
    <3>1. req[r] = NoReq /\ Users(r) = {}
      BY DEF IInv, Fresh
    <3> QED
      BY <3>1, FS_EmptySet DEF NoReq
  <2> QED
    BY <1>2, <2>1 DEF IInv, Types, RequestsLive, Users
<1>7. Replies'
  BY <1>3 DEF IInv, Types, Replies, Places, Messages
<1>8. ReadHeld'
  BY DEF IInv, Types, ReadHeld, HandlerIn
<1>9. Kept'
  BY DEF IInv, Types, Kept, SeekerIn
<1>10. SomeoneReads'
  <2>1. ASSUME NEW w \in Workers, job[w] # <<>> PROVE IsForget(job[w])' <=> IsForget(job[w])
    BY <1>3, <2>1 DEF IInv, Types, IsForget, Messages
  <2>2. Counted' = Counted /\ Threads' = Threads
    BY <2>1 DEF Counted, Threads
  <2> QED
    BY <2>2, SameCount DEF IInv, GoingOn
<1> QED
  BY <1>0, <1>1, <1>2, <1>4, <1>5, <1>6, <1>7, <1>8, <1>9, <1>10 DEF IInv

\* An INTERRUPT queued by the kernel keeps the invariant.
LEMMA StepKernelInterrupt ==
    ASSUME IInv, NEW r \in Reqs, KernelInterrupt(r)
    PROVE  IInv'
<1> USE DEF KernelInterrupt, tvars, lvars
<1>1. Types'
  BY DEF IInv, Types, MtType
<1>0. NotTouched'
  BY DEF IInv, NotTouched, Types
<1>2. /\ Places' /\ Fields' /\ Locked' /\ FunctionInTime' /\ Running'
      /\ \A q \in Reqs : Users(q)' = Users(q)
  BY KernelFrame
<1>3. OneHandler' /\ Replies'
  BY DEF IInv, OneHandler, Replies
<1>4. Fresh'
  BY <1>2 DEF IInv, Types, Fresh
<1>5. RequestsLive'
  BY <1>2 DEF IInv, RequestsLive, Users
<1>6. ReadHeld'
  BY DEF IInv, ReadHeld, HandlerIn
<1>7. Kept'
  BY DEF IInv, Types, Kept, SeekerIn
<1>8. SomeoneReads'
  BY SamePlaces, SameCount DEF IInv, GoingOn
<1> QED
  BY <1>0, <1>1, <1>2, <1>3, <1>4, <1>5, <1>6, <1>7, <1>8 DEF IInv

\* The end of the mount keeps the invariant.
LEMMA StepUnmount == ASSUME IInv, Unmount PROVE IInv'
<1> USE DEF Unmount, tvars, lvars
<1>1. Types'
  BY DEF IInv, Types, MtType
<1>0. NotTouched'
  BY DEF IInv, NotTouched, Types
<1>2. /\ Places' /\ Fields' /\ Locked' /\ FunctionInTime' /\ Running'
      /\ \A q \in Reqs : Users(q)' = Users(q)
  BY KernelFrame
<1>3. OneHandler' /\ Replies'
  BY DEF IInv, Types, OneHandler, Replies
<1>4. Fresh'
  BY <1>2 DEF IInv, Types, Fresh
<1>5. RequestsLive'
  BY <1>2 DEF IInv, RequestsLive, Users
<1>6. ReadHeld'
  BY DEF IInv, Types, ReadHeld, HandlerIn
<1>7. Kept'
  BY DEF IInv, Types, Kept, SeekerIn
<1>8. SomeoneReads'
  BY SamePlaces, SameCount DEF IInv, GoingOn
<1> QED
  BY <1>0, <1>1, <1>2, <1>3, <1>4, <1>5, <1>6, <1>7, <1>8 DEF IInv

-----------------------------------------------------------------------------
(* A worker reads a message.                                               *)
LEMMA StepReceive ==
    ASSUME IInv, NEW w \in Workers, NEW m \in NextMessages, fuse_kern_chan_receive(w, m)
    PROVE  IInv'
<1> USE DEF fuse_kern_chan_receive, Go
<1>1. PICK k \in {"req", "intr"}, r \in Reqs :
        m = <<k, r>> /\ (k = "req" => kern[r] = "queued") /\ (k = "intr" => intr[r] = "queued")
  BY DEF NextMessages
<1>2. /\ pc[w] = "read" /\ UNCHANGED <<op, req, interrupts, todo, case, mt, touched, exited>>
      /\ pc' = [pc EXCEPT ![w] = IF exited THEN "left" ELSE "got"]
      /\ job' = IF exited THEN job ELSE [job EXCEPT ![w] = <<k, r>>]
      /\ kern' = IF k = "req" THEN [kern EXCEPT ![r] = IF exited THEN "lost" ELSE "read"] ELSE kern
      /\ intr' = IF k = "intr" THEN [intr EXCEPT ![r] = IF exited THEN "done" ELSE "lib"] ELSE intr
  BY <1>1 DEF lvars
<1> HIDE DEF fuse_kern_chan_receive
<1>3. Types'
  <2>1. <<k, r>> \in Messages
    BY DEF Messages
  <2>2. pc' \in [Workers -> PCs] /\ job' \in [Workers -> Messages \cup {<<>>}]
    BY <1>2, <2>1 DEF IInv, Types, PCs
  <2> QED
    BY <1>2, <2>2 DEF IInv, Types, MtType
<1>4. ASSUME NEW v \in Workers
      PROVE  /\ v # w => pc'[v] = pc[v] /\ job'[v] = job[v]
             /\ pc'[w] \in {"left", "got"}
             /\ pc'[w] = "got" => ~exited /\ job'[w] = <<k, r>>
             /\ pc'[w] = "left" => exited /\ job'[w] = job[w]
  BY <1>2 DEF IInv, Types
<1>5. \A q \in Reqs : Users(q)' = Users(q)
  BY <1>2, <1>4 DEF Users, Uses, Handling
<1>6. Places'
  BY <1>2, <1>4 DEF IInv, Places, Busy, Seeking, Messages
<1>7. Replies' /\ NotTouched'
  BY <1>2, <1>4 DEF IInv, Replies, NotTouched, Busy
<1>8. OneHandler'
  <2>1. ASSUME NEW v \in Workers, NEW q \in Reqs, job'[v] = <<"req", q>>
        PROVE  \/ v # w /\ job[v] = <<"req", q>> /\ (~exited => <<"req", q>> # <<k, r>>)
               \/ v = w /\ job[v] = <<"req", q>> /\ exited
               \/ v = w /\ q = r /\ k = "req" /\ ~exited
    BY <1>1, <1>2, <1>4, <2>1 DEF IInv, OneHandler
  <2>2. ASSUME NEW q \in Reqs, kern'[q] \in {"idle", "queued"} PROVE kern[q] \in {"idle", "queued"}
    BY <1>2, <2>2 DEF IInv, Types
  <2>3. kern'[r] \notin {"idle", "queued"}
    BY <1>1, <1>2 DEF IInv, Types, Fresh
  <2>4. ASSUME NEW v \in Workers, NEW q \in Reqs, job'[v] = <<"intr", q>>
        PROVE  job[v] = <<"intr", q>> \/ q = r
    BY <1>2, <1>4, <2>4
  <2>5. ASSUME NEW v \in Workers, NEW q \in Reqs, job'[v] \in {<<"req", q>>, <<"intr", q>>}
        PROVE  kern'[q] \notin {"idle", "queued"}
    BY <2>1, <2>2, <2>3, <2>4, <2>5 DEF IInv, OneHandler
  <2> QED
    BY <2>1, <2>5 DEF IInv, OneHandler
<1>9. Fresh'
  <2>1. ASSUME NEW q \in Reqs, kern'[q] \in {"idle", "queued"}
        PROVE  kern[q] \in {"idle", "queued"} /\ intr'[q] = intr[q]
    BY <1>1, <1>2, <2>1 DEF IInv, Types, Fresh
  <2>2. ASSUME NEW q \in Reqs, NEW v \in Workers, job'[v] = <<"req", q>>, pc'[v] \in {"got", "process"}
        PROVE  req[q] = NoReq /\ Users(q) = {}
    BY <1>1, <1>4, <2>2 DEF IInv, Fresh
  <2> QED
    BY <1>2, <1>5, <2>1, <2>2 DEF IInv, Fresh
<1>10. ASSUME NEW q \in Reqs, NEW P, HandlerIn(q, P), "read" \notin P
       PROVE  HandlerIn(q, P)'
  BY <1>2, <1>4, <1>10 DEF HandlerIn
<1>11. ASSUME NEW q \in Reqs, NEW P, SeekerIn(q, P), "read" \notin P
       PROVE  SeekerIn(q, P)'
  BY <1>2, <1>4, <1>11 DEF SeekerIn
<1>12. Fields'
  BY <1>2, <1>10 DEF IInv, Fields, FieldsOf, Busy
<1>13. Locked'
  BY <1>2, <1>4 DEF IInv, Locked
<1>a. FunctionInTime'
  BY <1>2, <1>4, <1>10 DEF IInv, FunctionInTime
<1>14. RequestsLive'
  BY <1>2, <1>5 DEF IInv, RequestsLive, Users
<1>15. ReadHeld'
  <2> SUFFICES ASSUME NEW q \in Reqs, kern'[q] = "read", ~mt.exit
               PROVE  \/ HandlerIn(q, {"got", "process"})'
                      \/ HandlerIn(q, Busy \ {"free"})' /\ req[q].ctr > 0
    BY <1>2 DEF ReadHeld
  <2>1. CASE kern[q] = "read"
    BY <1>10, <2>1 DEF IInv, ReadHeld, Busy
  <2>2. CASE kern[q] # "read"
    <3>1. q = r /\ k = "req" /\ ~exited
      BY <1>2, <2>2 DEF IInv, Types
    <3> QED
      BY <1>4, <3>1 DEF HandlerIn
  <2> QED
    BY <2>1, <2>2
<1>16. Kept'
  <2> DEFINE P == {"got", "process", "found"}
  <2> SUFFICES ASSUME NEW q \in Reqs, kern'[q] = "read", intr'[q] = "lib"
               PROVE  SeekerIn(q, P)' \/ Kept!(q)!2!2 \/ Kept!(q)!2!3 \/ Kept!(q)!2!4
    BY <1>2 DEF Kept
  <2>1. CASE kern[q] = "read" /\ intr[q] = "lib"
    BY <1>11, <2>1 DEF IInv, Kept
  <2>2. CASE kern[q] = "read" /\ intr[q] # "lib"
    <3>1. q = r /\ k = "intr" /\ ~exited
      BY <1>2, <2>2 DEF IInv, Types
    <3> QED
      BY <1>4, <3>1 DEF SeekerIn
  <2>3. CASE kern[q] # "read"
    BY <1>1, <1>2, <2>3 DEF IInv, Types, Fresh
  <2> QED
    BY <2>1, <2>2, <2>3
<1>17. Running'
  BY <1>2, <1>4 DEF IInv, Running, GoingOn
<1>18. SomeoneReads'
  <2>1. SUFFICES ASSUME GoingOn PROVE SomeoneReads'
    BY <1>2 DEF SomeoneReads, GoingOn
  <2>2. \A v \in Workers : v # w => (IsForget(job[v])' <=> IsForget(job[v]))
    BY <1>2, <1>4 DEF IsForget
  <2>3. Threads' = Threads
    BY <1>2, <1>4 DEF Threads
  <2>4. Counted' = Counted
    BY <1>2, <1>4, <2>1, <2>2, <2>3 DEF Counted, GoingOn, Threads
  <2> QED
    BY <1>2, <2>3, <2>4, SameCount DEF IInv, GoingOn
<1> QED
  BY <1>3, <1>6, <1>7, <1>8, <1>9, <1>12, <1>13, <1>a, <1>14, <1>15, <1>16, <1>17, <1>18
  DEF IInv

-----------------------------------------------------------------------------
(* A worker with a message does the next step of processing it.            *)
Inside == Busy \cup Seeking \cup {"process", "back"}
Works(w, l) ==
    /\ pc[w] \in Inside /\ pc' = [pc EXCEPT ![w] = l]
    /\ l \in Inside \/ (l = "crash" /\ case.loop # "mt")
    /\ l \in Busy => job[w][1] = "req"
    /\ l \in Seeking => job[w][1] = "intr" /\ case.loop = "mt"
    /\ l \in {"handler", "interruptible", "finished"} => case.loop # "ev"
    /\ UNCHANGED <<op, job, case, mt, exited>>
    /\ \A r \in Reqs : kern'[r] \in {"idle", "queued"} => kern[r] \in {"idle", "queued"}

\* What a handler that works on its own request leaves alone.
LEMMA WorksFrame ==
    ASSUME IInv, NEW w \in Workers, NEW l, Works(w, l)
    PROVE  /\ pc' \in [Workers -> PCs] /\ pc'[w] = l /\ \A v \in Workers \ {w} : pc'[v] = pc[v]
           /\ job[w] = <<job[w][1], job[w][2]>> /\ job[w][1] \in {"req", "intr"} /\ job[w][2] \in Reqs
           /\ Places' /\ OneHandler' /\ Running' /\ SomeoneReads'
<1> USE DEF Works
<1>1. pc' \in [Workers -> PCs] /\ pc'[w] = l /\ \A v \in Workers \ {w} : pc'[v] = pc[v]
  BY DEF IInv, Types, PCs, Inside
<1>2. job[w] = <<job[w][1], job[w][2]>> /\ job[w][1] \in {"req", "intr"} /\ job[w][2] \in Reqs
  BY DEF IInv, Places, Inside, Messages
<1>3. Places'
  BY <1>1 DEF IInv, Places, Inside, Busy, Seeking
<1>4. OneHandler'
  BY DEF IInv, OneHandler
<1>5. Running'
  BY <1>1 DEF IInv, Running, GoingOn, Inside, Busy, Seeking
<1>6. SomeoneReads'
  <2>1. CASE case.loop # "mt"
    BY <2>1 DEF SomeoneReads
  <2>2. CASE case.loop = "mt"
    <3>1. Threads' = Threads
      BY <1>1, <2>2 DEF Threads, Inside, Busy, Seeking
    <3>2. Counted' = Counted
      BY <1>1, <2>2, <3>1 DEF Counted, Threads, IsForget, Inside, Busy, Seeking
    <3> QED
      BY <3>1, <3>2, SameCount DEF IInv, GoingOn
  <2> QED
    BY <2>1, <2>2
<1> QED
  BY <1>1, <1>2, <1>3, <1>4, <1>5, <1>6

\* A request that is used has a reference for each user.
LEMMA Held ==
    ASSUME IInv, NEW r \in Reqs, NEW w \in Users(r), case.loop # "ev"
    PROVE  req[r].ctr = Cardinality(Users(r)) /\ req[r].ctr \in Nat /\ req[r].ctr >= 1
<1>1. req[r].ctr = Cardinality(Users(r))
  BY DEF IInv, RequestsLive, Users
<1>2. IsFiniteSet(Users(r)) /\ Users(r) # {}
  BY SessionAssumption, FS_Subset DEF Users
<1> QED
  BY <1>1, <1>2, FS_EmptySet, FS_CardinalityType

(* It only changes what the request r says of interrupts, to x.            *)
Tends(w, r, l, x) ==
    /\ Works(w, l) /\ job[w] \in {<<"req", r>>, <<"intr", r>>} /\ case.loop # "ev"
    /\ \/ pc[w] \in Busy \ {"free"} /\ l \in Busy \ {"free"}
       \/ pc[w] \in Seeking /\ l \in Seeking
    /\ req' = [req EXCEPT ![r] = x]
    /\ x \in ReqType /\ x.ctr = req[r].ctr /\ x.listed = req[r].listed
    /\ x.func => HandlerIn(r, {"interruptible", "finished"})'
    /\ pc[w] = "found" \/ (req[r].interrupted /\ (req[r].func => req[r].called)) =>
           x.interrupted /\ (x.func => x.called)
    /\ l # "found"
    /\ UNCHANGED <<kern, intr, interrupts, todo, touched>>

\* What a thread that tends an interrupt leaves alone.
LEMMA TendsFrame ==
    ASSUME IInv, NEW w \in Workers, NEW r \in Reqs, NEW l, NEW x, Tends(w, r, l, x)
    PROVE  /\ Types' /\ Places' /\ Replies' /\ OneHandler' /\ Fresh' /\ Fields' /\ NotTouched'
           /\ RequestsLive' /\ ReadHeld' /\ Kept' /\ Running' /\ SomeoneReads'
           /\ req'[r] = x /\ \A q \in Reqs \ {r} : req'[q] = req[q]
           /\ pc'[w] = l /\ \A v \in Workers \ {w} : pc'[v] = pc[v]
<1>1. Works(w, l)
  BY DEF Tends
<1>2. /\ pc' \in [Workers -> PCs] /\ pc'[w] = l /\ \A v \in Workers \ {w} : pc'[v] = pc[v]
      /\ Places' /\ OneHandler' /\ Running' /\ SomeoneReads'
  BY <1>1, WorksFrame
<1>3. Types'
  BY <1>2 DEF Tends, Works, IInv, Types, MtType
<1>4. \A q \in Reqs : Users(q)' = Users(q)
  BY <1>2 DEF Tends, Works, Users, Uses, Handling, Busy, Seeking
<1>5. Replies' /\ NotTouched'
  BY <1>2 DEF Tends, Works, IInv, Replies, NotTouched, Busy, Seeking
<1>6. w \in Users(r)
  <2>1. job[w] # <<>> /\ job[w][2] = r
    BY DEF Tends
  <2> QED
    BY <2>1 DEF Tends, Users, Uses, Handling, Busy, Seeking
<1>7. /\ req'[r] = x /\ \A q \in Reqs \ {r} : req'[q] = req[q]
      /\ \A q \in Reqs : req'[q].ctr = req[q].ctr
  BY DEF Tends, IInv, Types
<1>8. Fresh'
  BY <1>2, <1>4, <1>6, <1>7 DEF Tends, Works, IInv, Fresh, Busy, Seeking
<1>9. RequestsLive'
  BY <1>4, <1>7 DEF Tends, Works, IInv, RequestsLive, Users
<1>10. ASSUME NEW q \in Reqs, HandlerIn(q, {"got", "process"}) PROVE HandlerIn(q, {"got", "process"})'
  BY <1>2, <1>10 DEF Tends, Works, HandlerIn, Busy, Seeking
<1>11. ASSUME NEW q \in Reqs, HandlerIn(q, Busy \ {"free"}) PROVE HandlerIn(q, Busy \ {"free"})'
  BY <1>2, <1>11 DEF Tends, Works, HandlerIn, Busy, Seeking
<1>12. ASSUME NEW q \in Reqs, HandlerIn(q, Busy) PROVE HandlerIn(q, Busy)'
  BY <1>2, <1>12 DEF Tends, Works, HandlerIn, Busy, Seeking
<1>13. ASSUME NEW q \in Reqs, q # r, HandlerIn(q, {"interruptible", "finished"})
       PROVE  HandlerIn(q, {"interruptible", "finished"})'
  BY <1>2, <1>13 DEF Tends, Works, HandlerIn
<1>14. ASSUME NEW q \in Reqs, q # r \/ pc[w] # "found", SeekerIn(q, {"got", "process", "found"})
       PROVE  SeekerIn(q, {"got", "process", "found"})'
  BY <1>2, <1>14 DEF Tends, Works, SeekerIn, Busy, Seeking
<1>15. ReadHeld'
  BY <1>7, <1>10, <1>11 DEF Tends, Works, IInv, ReadHeld
<1>16. Fields'
  <2>1. ASSUME NEW q \in Reqs, q # r PROVE FieldsOf(q)'
    BY <1>7, <1>12, <1>13, <2>1 DEF IInv, Fields, FieldsOf
  <2>2. req[r].ctr >= 1
    BY <1>6, Held DEF Tends
  <2>3. req[r].listed => HandlerIn(r, Busy)'
    BY <1>12 DEF IInv, Fields, FieldsOf
  <2>4. FieldsOf(r)'
    BY <1>7, <2>2, <2>3 DEF Tends, FieldsOf
  <2> QED
    BY <2>1, <2>4 DEF Fields
<1>17. Kept'
  BY <1>2, <1>7, <1>14 DEF Tends, Works, IInv, Kept
<1> QED
  BY <1>2, <1>3, <1>5, <1>7, <1>8, <1>9, <1>15, <1>16, <1>17
\* fuse_prepare_interrupt keeps the invariant.
LEMMA StepPrepare ==
    ASSUME IInv, NEW w \in Workers, fuse_do_prepare_interrupt(w)
    PROVE  IInv'
<1> USE DEF kvars, Go
<1>1. PICK r \in Reqs : job[w] = <<"req", r>>
  BY DEF fuse_do_prepare_interrupt, IInv, Places, Busy, Messages
<1> DEFINE x == [req[r] EXCEPT !.func = TRUE, !.called = @ \/ req[r].interrupted]
<1>2. /\ pc[w] = "handler" /\ pc' = [pc EXCEPT ![w] = "interruptible"] /\ case.loop # "ev"
      /\ UNCHANGED <<kern, op, intr, interrupts, job, todo, exited, case, mt, touched>>
  BY DEF fuse_do_prepare_interrupt, IInv, Places, Busy
<1>0. req[r] \in ReqType
  BY DEF IInv, Types
<1>3. req' = [req EXCEPT ![r] = x]
  <2>1. job[w][2] = r
    BY <1>1
  <2>2. fuse_req_interrupt_func(r, TRUE)
    BY <2>1 DEF fuse_do_prepare_interrupt
  <2> QED
    BY <2>2 DEF fuse_req_interrupt_func, IInv, Types
<1>4. /\ x \in ReqType /\ x.ctr = req[r].ctr /\ x.listed = req[r].listed /\ x.lock = req[r].lock
      /\ req[r].interrupted => x.interrupted /\ x.called
  BY <1>0 DEF ReqType
<1> HIDE DEF x
<1>5. HandlerIn(r, {"interruptible", "finished"})'
  BY <1>1, <1>2 DEF HandlerIn, IInv, Types
<1>6. Tends(w, r, "interruptible", x)
  BY <1>1, <1>2, <1>3, <1>4, <1>5 DEF Tends, Works, Inside, Busy, Seeking
<1>7. /\ req'[r] = x /\ \A q \in Reqs \ {r} : req'[q] = req[q]
      /\ pc'[w] = "interruptible" /\ \A v \in Workers \ {w} : pc'[v] = pc[v]
  BY <1>6, TendsFrame
<1>8. Locked'
  <2>1. \A q \in Reqs : req'[q].lock = req[q].lock
    BY <1>4, <1>7
  <2> QED
    BY <1>2, <1>7, <2>1 DEF IInv, Locked, Places, Seeking, Messages
<1>9. FunctionInTime'
  BY <1>2, <1>7 DEF IInv, FunctionInTime
<1> QED
  BY <1>6, <1>8, <1>9, TendsFrame DEF IInv

\* The finished flag of fuse_do_finish_interrupt keeps the invariant.
LEMMA StepSetFinished == ASSUME IInv, NEW w \in Workers, SetFinished(w) PROVE IInv'
<1> USE DEF kvars, lvars, Go
<1>1. PICK r \in Reqs : job[w] = <<"req", r>>
  BY DEF SetFinished, IInv, Places, Busy, Messages
<1>2. /\ pc[w] = "interruptible" /\ pc' = [pc EXCEPT ![w] = "finished"] /\ case.loop # "ev"
      /\ UNCHANGED <<kern, op, intr, req, interrupts, job, todo, exited, case, mt, touched>>
  BY DEF SetFinished, IInv, Places, Busy
<1>3. PICK x : x = req[r] /\ req' = [req EXCEPT ![r] = x] /\ x \in ReqType
  BY <1>2 DEF IInv, Types
<1>4. HandlerIn(r, {"interruptible", "finished"})'
  BY <1>1, <1>2 DEF HandlerIn, IInv, Types
<1>5. Tends(w, r, "finished", x)
  <2>1. Works(w, "finished")
    BY <1>1, <1>2 DEF Works, Inside, Busy, Seeking
  <2>2. x.ctr = req[r].ctr /\ x.listed = req[r].listed
    BY <1>3
  <2>3. /\ x.func => HandlerIn(r, {"interruptible", "finished"})'
        /\ req[r].interrupted /\ (req[r].func => req[r].called) => x.interrupted /\ (x.func => x.called)
    BY <1>3, <1>4
  <2> QED
    BY <1>1, <1>2, <1>3, <2>1, <2>2, <2>3 DEF Tends, Busy
<1>6. pc'[w] = "finished" /\ \A v \in Workers \ {w} : pc'[v] = pc[v]
  BY <1>5, TendsFrame
<1>7. Locked'
  BY <1>2, <1>6 DEF IInv, Locked
<1>8. FunctionInTime'
  BY <1>2, <1>6 DEF IInv, FunctionInTime
<1> QED
  BY <1>5, <1>7, <1>8, TendsFrame DEF IInv

\* fuse_finish_interrupt keeps the invariant.
LEMMA StepFinish == ASSUME IInv, NEW w \in Workers, fuse_do_finish_interrupt(w) PROVE IInv'
<1> USE DEF kvars, Go
<1>1. PICK r \in Reqs : job[w] = <<"req", r>>
  BY DEF fuse_do_finish_interrupt, IInv, Places, Busy, Messages
<1> DEFINE x == [req[r] EXCEPT !.func = FALSE, !.called = @]
<1>2. /\ pc[w] = "finished" /\ pc' = [pc EXCEPT ![w] = "send"] /\ case.loop # "ev"
      /\ UNCHANGED <<kern, op, intr, interrupts, job, todo, exited, case, mt, touched>>
  BY DEF fuse_do_finish_interrupt, IInv, Places, Busy
<1>0. req[r] \in ReqType /\ req[r].lock = None
  BY <1>1 DEF fuse_do_finish_interrupt, fuse_req_interrupt_func, LockFree, IInv, Types
<1>3. req' = [req EXCEPT ![r] = x]
  <2>1. job[w][2] = r
    BY <1>1
  <2>2. fuse_req_interrupt_func(r, FALSE)
    BY <2>1 DEF fuse_do_finish_interrupt
  <2> QED
    BY <2>2 DEF fuse_req_interrupt_func, IInv, Types
<1>4. /\ x \in ReqType /\ x.ctr = req[r].ctr /\ x.listed = req[r].listed /\ x.lock = req[r].lock
      /\ ~x.func
      /\ req[r].interrupted => x.interrupted
  BY <1>0 DEF ReqType
<1> HIDE DEF x
<1>5. Tends(w, r, "send", x)
  BY <1>1, <1>2, <1>3, <1>4 DEF Tends, Works, Inside, Busy, Seeking
<1>6. /\ req'[r] = x /\ \A q \in Reqs \ {r} : req'[q] = req[q]
      /\ pc'[w] = "send" /\ \A v \in Workers \ {w} : pc'[v] = pc[v]
  BY <1>5, TendsFrame
<1>7. Locked'
  <2>1. \A q \in Reqs : req'[q].lock = req[q].lock
    BY <1>4, <1>6
  <2> QED
    BY <1>2, <1>6, <2>1 DEF IInv, Locked, Places, Seeking, Messages
<1>8. \A v \in Workers : pc[v] = "calling" => job[v][2] # r
  BY <1>0, SessionAssumption DEF IInv, Locked, None
<1>9. FunctionInTime'
  <2> SUFFICES ASSUME NEW v \in Workers, pc[v] = "calling", v # w
               PROVE  FunctionInTime!(v)!2'
    BY <1>6 DEF FunctionInTime
  <2>1. PICK u \in Workers : job[u] = <<"req", job[v][2]>> /\ pc[u] \in {"interruptible", "finished"}
    BY DEF IInv, FunctionInTime
  <2>2. u # w
    BY <1>1, <1>8, <2>1
  <2> QED
    BY <1>2, <1>6, <2>1, <2>2
<1> QED
  BY <1>5, <1>7, <1>9, TendsFrame DEF IInv
\* find_interrupted taking the lock of its request keeps the invariant.
LEMMA StepFoundLock == ASSUME IInv, NEW w \in Workers, FoundLock(w) PROVE IInv'
<1> USE DEF kvars, Go
<1>1. PICK r \in Reqs : job[w] = <<"intr", r>>
  BY DEF FoundLock, IInv, Places, Seeking, Messages
<1> DEFINE x == [req[r] EXCEPT !.lock = IF req[r].func THEN w ELSE None,
                               !.interrupted = TRUE, !.called = @ \/ req[r].func]
           l == IF req[r].func THEN "calling" ELSE "drop"
<1>2. /\ job[w][2] = r /\ pc[w] = "found" /\ case.loop = "mt"
      /\ UNCHANGED <<kern, op, intr, interrupts, job, todo, exited, case, mt, touched>>
  BY <1>1 DEF FoundLock, IInv, Places, Seeking
<1>3. req[r] \in ReqType /\ req[r].lock = None
  BY <1>2 DEF FoundLock, LockFree, IInv, Types
<1>4. pc' = [pc EXCEPT ![w] = l] /\ req' = [req EXCEPT ![r] = x]
  BY <1>2 DEF FoundLock, IInv, Types
<1>5. /\ x \in ReqType /\ x.ctr = req[r].ctr /\ x.listed = req[r].listed
      /\ x.interrupted /\ (x.func => x.called) /\ (x.func <=> req[r].func)
      /\ l \in {"calling", "drop"} /\ (l = "calling" => x.func /\ x.lock = w)
  BY <1>3 DEF ReqType
<1> HIDE DEF x, l
<1>6. x.func => HandlerIn(r, {"interruptible", "finished"})'
  <2>1. x.func => HandlerIn(r, {"interruptible", "finished"})
    BY <1>5 DEF IInv, Fields, FieldsOf
  <2> QED
    BY <1>2, <1>4, <2>1 DEF HandlerIn, IInv, Types
<1>7. Tends(w, r, l, x)
  <2>1. Works(w, l)
    BY <1>1, <1>2, <1>4, <1>5 DEF Works, Inside, Busy, Seeking
  <2> QED
    BY <1>1, <1>2, <1>4, <1>5, <1>6, <2>1 DEF Tends, Seeking
<1>8. /\ req'[r] = x /\ \A q \in Reqs \ {r} : req'[q] = req[q]
      /\ pc'[w] = l /\ \A v \in Workers \ {w} : pc'[v] = pc[v]
  BY <1>7, TendsFrame
<1>9. Locked'
  <2>1. \A v \in Workers : pc[v] = "calling" => job[v][2] \in Reqs \ {r}
    BY <1>3, SessionAssumption DEF IInv, Locked, None, Places, Seeking, Messages
  <2> QED
    BY <1>2, <1>5, <1>8, <2>1 DEF IInv, Locked
<1>10. FunctionInTime'
  <2>1. pc'[w] = "calling" => HandlerIn(r, {"interruptible", "finished"})'
    BY <1>5, <1>6, <1>8
  <2>2. ASSUME NEW v \in Workers, v # w, pc'[v] = "calling"
        PROVE  \E u \in Workers : job[u] = <<"req", job[v][2]>> /\ pc'[u] \in {"interruptible", "finished"}
    BY <1>2, <1>8, <2>2 DEF IInv, FunctionInTime
  <2> QED
    BY <1>2, <2>1, <2>2 DEF FunctionInTime, HandlerIn
<1> QED
  BY <1>7, <1>9, <1>10, TendsFrame DEF IInv

\* find_interrupted calling the interrupt function keeps the invariant.
LEMMA StepFoundCall == ASSUME IInv, NEW w \in Workers, FoundCall(w) PROVE IInv'
<1> USE DEF kvars, Go
<1>1. PICK r \in Reqs : job[w] = <<"intr", r>>
  BY DEF FoundCall, IInv, Places, Seeking, Messages
<1> DEFINE x == [req[r] EXCEPT !.lock = None]
<1>2. /\ job[w][2] = r /\ pc[w] = "calling" /\ case.loop = "mt" /\ pc' = [pc EXCEPT ![w] = "drop"]
      /\ UNCHANGED <<kern, op, intr, interrupts, job, todo, exited, case, mt, touched>>
  BY <1>1 DEF FoundCall, IInv, Places, Seeking
<1>3. req[r] \in ReqType /\ req[r].lock = w
  BY <1>2 DEF IInv, Locked, Types
<1>4. req' = [req EXCEPT ![r] = x]
  BY <1>2 DEF FoundCall, Unlock, IInv, Types
<1>5. /\ x \in ReqType /\ x.ctr = req[r].ctr /\ x.listed = req[r].listed
      /\ (x.interrupted <=> req[r].interrupted) /\ (x.func <=> req[r].func) /\ (x.called <=> req[r].called)
  BY <1>3 DEF ReqType
<1> HIDE DEF x
<1>6. x.func => HandlerIn(r, {"interruptible", "finished"})'
  <2>1. x.func => HandlerIn(r, {"interruptible", "finished"})
    BY <1>5 DEF IInv, Fields, FieldsOf
  <2> QED
    BY <1>2, <2>1 DEF HandlerIn, IInv, Types
<1>7. Tends(w, r, "drop", x)
  <2>1. Works(w, "drop")
    BY <1>1, <1>2 DEF Works, Inside, Busy, Seeking
  <2> QED
    BY <1>1, <1>2, <1>4, <1>5, <1>6, <2>1 DEF Tends, Seeking
<1>8. /\ req'[r] = x /\ \A q \in Reqs \ {r} : req'[q] = req[q]
      /\ pc'[w] = "drop" /\ \A v \in Workers \ {w} : pc'[v] = pc[v]
  BY <1>7, TendsFrame
<1>9. Locked'
  <2>1. \A v \in Workers \ {w} : pc[v] = "calling" => job[v][2] \in Reqs \ {r}
    BY <1>3 DEF IInv, Locked, Places, Seeking, Messages
  <2> QED
    BY <1>2, <1>8, <2>1 DEF IInv, Locked
<1>10. FunctionInTime'
  BY <1>2, <1>8 DEF IInv, FunctionInTime
<1> QED
  BY <1>7, <1>9, <1>10, TendsFrame DEF IInv
-----------------------------------------------------------------------------
(* f->interrupts as a set.                                                 *)
LEMMA AwaitSet ==
    ASSUME NEW r \in Reqs, interrupts \in Seq(Reqs), AwaitRequest(r)
    PROVE  interrupts' \in Seq(Reqs) /\ ToSet(interrupts') = ToSet(interrupts) \cup {r}
<1>1. CASE r \in ToSet(interrupts)
  BY <1>1 DEF AwaitRequest
<1>2. CASE r \notin ToSet(interrupts)
  <2>1. interrupts' = Append(interrupts, r)
    BY <1>2 DEF AwaitRequest
  <2>2. interrupts' \in Seq(Reqs)
    BY <2>1
  <2>3. ASSUME NEW x PROVE x \in ToSet(interrupts') <=> x \in ToSet(interrupts) \/ x = r
    <3>1. Len(interrupts') = Len(interrupts) + 1 /\ interrupts'[Len(interrupts) + 1] = r
      BY <2>1
    <3>2. \A i \in 1 .. Len(interrupts) : interrupts'[i] = interrupts[i]
      BY <2>1
    <3>3. DOMAIN interrupts' = 1 .. Len(interrupts) + 1 /\ DOMAIN interrupts = 1 .. Len(interrupts)
      BY <2>2, <3>1
    <3>4. 1 .. Len(interrupts) + 1 = 1 .. Len(interrupts) \cup {Len(interrupts) + 1}
      OBVIOUS
    <3> QED
      BY <3>1, <3>2, <3>3, <3>4 DEF ToSet
  <2> QED
    BY <2>2, <2>3
<1> QED
  BY <1>1, <1>2

\* check_interrupt takes one interrupt from the list and leaves the others.
LEMMA CheckSet ==
    ASSUME NEW r \in Reqs, interrupts \in Seq(Reqs)
    PROVE  LET c == check_interrupt(r)
           IN  /\ c.rest \in Seq(Reqs) /\ ToSet(c.rest) \subseteq ToSet(interrupts)
               /\ c.mark \in BOOLEAN /\ (c.mark <=> r \in ToSet(interrupts))
               /\ c.back = 0 \/ c.back \in ToSet(interrupts) \cap Reqs
               /\ \A q \in ToSet(interrupts) : q \in ToSet(c.rest) \/ q = r \/ q = c.back
<1> DEFINE s == interrupts
           c == check_interrupt(r)
<1>0. DOMAIN s = 1 .. Len(s) /\ Len(s) \in Nat /\ \A i \in 1 .. Len(s) : s[i] \in Reqs
  OBVIOUS
<1>1. CASE r \in ToSet(s)
  <2> DEFINE i == CHOOSE i \in DOMAIN s : s[i] = r
             t == RemoveAt(s, i)
  <2>1. i \in 1 .. Len(s) /\ s[i] = r
    BY <1>0, <1>1 DEF ToSet
  <2> HIDE DEF i
  <2>2. /\ t \in Seq(Reqs) /\ Len(t) = Len(s) - 1
        /\ \A j \in 1 .. Len(s) - 1 : t[j] = IF j < i THEN s[j] ELSE s[j + 1]
    <3> DEFINE A == SubSeq(s, 1, i - 1)
               B == SubSeq(s, i + 1, Len(s))
    <3>1. /\ A \in Seq(Reqs) /\ Len(A) = i - 1
          /\ \A j \in 1 .. i - 1 : A[j] = s[j]
      BY <1>0, <2>1
    <3>2. /\ B \in Seq(Reqs) /\ Len(B) = Len(s) - i
          /\ \A j \in 1 .. Len(s) - i : B[j] = s[i + j]
      <4>1. i + 1 \in Int /\ Len(s) \in Int /\ \A j \in i + 1 .. Len(s) : s[j] \in Reqs
        BY <1>0, <2>1
      <4>2. /\ B \in Seq(Reqs)
            /\ Len(B) = IF i + 1 <= Len(s) THEN Len(s) - (i + 1) + 1 ELSE 0
            /\ \A j \in 1 .. Len(s) - (i + 1) + 1 : B[j] = s[(i + 1) + j - 1]
        BY <4>1, SubSeqProperties
      <4>3. \A j \in 1 .. Len(s) - i : (i + 1) + j - 1 = i + j
        BY <2>1
      <4> HIDE DEF B
      <4>4. Len(B) = Len(s) - i
        <5>1. \A n \in Nat : \A k \in 1 .. n : (IF k + 1 <= n THEN n - (k + 1) + 1 ELSE 0) = n - k
          OBVIOUS
        <5> QED
          BY <1>0, <2>1, <4>2, <5>1
      <4>5. Len(s) - (i + 1) + 1 = Len(s) - i
        BY <1>0, <2>1
      <4> QED
        BY <4>2, <4>3, <4>4, <4>5
    <3>3. t = A \o B
      BY DEF RemoveAt
    <3> HIDE DEF A, B
    <3>4. t \in Seq(Reqs) /\ Len(t) = Len(s) - 1
      <4>1. A \o B \in Seq(Reqs) /\ Len(A \o B) = Len(A) + Len(B)
        BY <3>1, <3>2, ConcatProperties
      <4>2. (i - 1) + (Len(s) - i) = Len(s) - 1
        BY <1>0, <2>1
      <4> QED
        BY <3>1, <3>2, <3>3, <4>1, <4>2
    <3>5. \A j \in 1 .. Len(s) - 1 : t[j] = IF j <= i - 1 THEN A[j] ELSE B[j - (i - 1)]
      BY <1>0, <2>1, <3>1, <3>2, <3>3
    <3>6. ASSUME NEW j \in 1 .. Len(s) - 1 PROVE t[j] = IF j < i THEN s[j] ELSE s[j + 1]
      <4>1. CASE j < i
        BY <2>1, <3>1, <3>5, <4>1
      <4>2. CASE ~(j < i)
        <5>1. j - (i - 1) \in 1 .. Len(s) - i /\ i + (j - (i - 1)) = j + 1
          BY <1>0, <2>1, <4>2
        <5> QED
          BY <1>0, <2>1, <3>2, <3>5, <4>2, <5>1
      <4> QED
        BY <4>1, <4>2
    <3> QED
      BY <3>4, <3>6
  <2> HIDE DEF t
  <2>3. DOMAIN t = 1 .. Len(s) - 1
    BY <2>2
  <2>4. ToSet(t) \subseteq ToSet(s)
    BY <1>0, <2>1, <2>2, <2>3 DEF ToSet
  <2>5. ASSUME NEW q \in ToSet(s), q # r PROVE q \in ToSet(t)
    <3>1. PICK j \in 1 .. Len(s) : s[j] = q
      BY <1>0 DEF ToSet
    <3>2. CASE j < i
      BY <1>0, <2>1, <2>2, <2>3, <3>1, <3>2 DEF ToSet
    <3>3. CASE j > i
      <4>1. j - 1 \in 1 .. Len(s) - 1 /\ t[j - 1] = q
        BY <1>0, <2>1, <2>2, <3>1, <3>3
      <4> QED
        BY <2>3, <4>1 DEF ToSet
    <3> QED
      BY <1>0, <2>1, <2>5, <3>1, <3>2, <3>3
  <2>6. c.rest = t /\ c.mark = TRUE /\ c.back = 0
    BY <1>1 DEF check_interrupt, t, i
  <2> QED
    BY <1>1, <2>2, <2>4, <2>5, <2>6
<1>2. CASE r \notin ToSet(s) /\ s # <<>>
  <2>1. c.rest = Tail(s) /\ c.mark = FALSE /\ c.back = Head(s)
    BY <1>2 DEF check_interrupt
  <2>2. /\ Tail(s) \in Seq(Reqs) /\ Len(Tail(s)) = Len(s) - 1 /\ Len(s) >= 1 /\ Head(s) = s[1]
        /\ \A j \in 1 .. Len(s) - 1 : Tail(s)[j] = s[j + 1]
    BY <1>2
  <2>3. DOMAIN Tail(s) = 1 .. Len(s) - 1
    BY <2>2
  <2>4. ToSet(Tail(s)) \subseteq ToSet(s)
    BY <1>0, <2>2, <2>3 DEF ToSet
  <2>5. Head(s) \in ToSet(s) \cap Reqs
    BY <1>0, <2>2 DEF ToSet
  <2>6. ASSUME NEW q \in ToSet(s), q # Head(s) PROVE q \in ToSet(Tail(s))
    <3>1. PICK j \in 1 .. Len(s) : s[j] = q
      BY <1>0 DEF ToSet
    <3>2. j - 1 \in 1 .. Len(s) - 1 /\ Tail(s)[j - 1] = q
      BY <1>0, <2>2, <2>6, <3>1
    <3> QED
      BY <2>3, <3>2 DEF ToSet
  <2> QED
    BY <1>2, <2>1, <2>2, <2>4, <2>5, <2>6
<1>3. CASE r \notin ToSet(s) /\ s = <<>>
  BY <1>3 DEF check_interrupt, ToSet
<1> QED
  BY <1>1, <1>2, <1>3
(* A message that touches no request: dropped for lack of memory, refused, *)
(* or kept for later.                                                      *)
Drops(w) ==
    \/ ProcessNoMemory(w) \/ InterruptTooEarly(w)
    \/ do_interrupt(w) /\ ~req[job[w][2]].listed

\* A message that is dropped without a request keeps the invariant.
LEMMA StepDrops == ASSUME IInv, NEW w \in Workers, Drops(w) PROVE IInv'
<1> USE DEF Drops, ProcessNoMemory, InterruptTooEarly, do_interrupt, Go, kvars, lvars
<1>1. PICK k \in {"req", "intr"}, r \in Reqs : job[w] = <<k, r>>
  BY DEF IInv, Places, Messages
<1>2. job[w][1] = k /\ job[w][2] = r
  BY <1>1
<1>3. /\ pc[w] = "process" /\ pc' = [pc EXCEPT ![w] = "back"]
      /\ UNCHANGED <<op, req, job, todo, exited, case, mt, touched>>
      /\ k = "req" => kern' = [kern EXCEPT ![r] = "dropped"] /\ UNCHANGED <<intr, interrupts>>
      /\ k = "intr" => kern' = kern
  BY <1>2
<1>4. ASSUME k = "intr"
      PROVE  \/ intr' = [intr EXCEPT ![r] = "done"] /\ UNCHANGED interrupts
             \/ intr' = [intr EXCEPT ![r] = "dropped"] /\ UNCHANGED interrupts
             \/ UNCHANGED intr /\ AwaitRequest(r)
  BY <1>2, <1>4
<1> HIDE DEF Drops, ProcessNoMemory, InterruptTooEarly, do_interrupt
<1>5. /\ interrupts' \in Seq(Reqs) /\ ToSet(interrupts) \subseteq ToSet(interrupts')
      /\ ToSet(interrupts') \subseteq ToSet(interrupts) \cup {r}
  BY <1>3, <1>4, AwaitSet DEF IInv, Types
<1>6. Works(w, "back")
  BY <1>3 DEF Works, Inside, Busy, Seeking, IInv, Types
<1>7. /\ pc' \in [Workers -> PCs] /\ pc'[w] = "back" /\ \A v \in Workers \ {w} : pc'[v] = pc[v]
      /\ Places' /\ OneHandler' /\ Running' /\ SomeoneReads'
  BY <1>6, WorksFrame
<1>8. Types'
  <2>1. kern' \in [Reqs -> {"idle", "queued", "read", "answered", "dropped", "lost"}]
    BY <1>3 DEF IInv, Types
  <2>2. intr' \in [Reqs -> {"no", "queued", "lib", "done", "dropped"}]
    BY <1>3, <1>4 DEF IInv, Types
  <2> QED
    BY <1>3, <1>5, <1>7, <2>1, <2>2 DEF IInv, Types, MtType
<1>9. \A q \in Reqs : Users(q)' = Users(q)
  BY <1>3, <1>7 DEF Users, Uses, Handling
<1>10. kern[r] \notin {"idle", "queued"}
  BY <1>1 DEF IInv, OneHandler
<1>11. \A q \in Reqs : (q # r => kern'[q] = kern[q] /\ intr'[q] = intr[q])
  BY <1>3, <1>4 DEF IInv, Types
<1>12. Replies'
  BY <1>3, <1>7 DEF IInv, Replies, Busy
<1>a. NotTouched'
  BY <1>3, <1>10, <1>11 DEF IInv, NotTouched, Types
<1>13. Fresh'
  <2>1. ASSUME NEW q \in Reqs, kern'[q] \in {"idle", "queued"}
        PROVE  q # r /\ kern[q] \in {"idle", "queued"}
    BY <1>3, <1>10, <1>11, <2>1 DEF IInv, Types
  <2>2. ASSUME NEW q \in Reqs, kern'[q] \in {"idle", "queued"}
        PROVE  req'[q] = NoReq /\ Users(q)' = {} /\ intr'[q] = "no" /\ q \notin ToSet(interrupts')
    BY <1>3, <1>5, <1>9, <1>11, <2>1, <2>2 DEF IInv, Fresh
  <2>3. ASSUME NEW q \in Reqs, NEW v \in Workers, job'[v] = <<"req", q>>, pc'[v] \in {"got", "process"}
        PROVE  req'[q] = NoReq /\ Users(q)' = {}
    BY <1>3, <1>7, <1>9, <2>3 DEF IInv, Fresh
  <2> QED
    BY <2>2, <2>3 DEF Fresh
<1>14. ASSUME NEW q \in Reqs, NEW P, "process" \notin P, HandlerIn(q, P) PROVE HandlerIn(q, P)'
  BY <1>3, <1>7, <1>14 DEF HandlerIn
<1>15. Fields'
  BY <1>3, <1>14 DEF IInv, Fields, FieldsOf, Busy
<1>16. Locked'
  BY <1>3, <1>7 DEF IInv, Locked
<1>17. FunctionInTime'
  BY <1>3, <1>7 DEF IInv, FunctionInTime
<1>18. RequestsLive'
  BY <1>3, <1>9 DEF IInv, RequestsLive, Users
<1>19. ReadHeld'
  <2> SUFFICES ASSUME NEW q \in Reqs, kern'[q] = "read", ~mt.exit
               PROVE  \/ HandlerIn(q, {"got", "process"})'
                      \/ HandlerIn(q, Busy \ {"free"})' /\ req[q].ctr > 0
    BY <1>3 DEF ReadHeld
  <2>1. kern[q] = "read" /\ (q = r => k = "intr")
    BY <1>3, <1>11 DEF IInv, Types
  <2>2. HandlerIn(q, {"got", "process"}) => HandlerIn(q, {"got", "process"})'
    BY <1>1, <1>3, <1>7, <2>1 DEF HandlerIn
  <2> QED
    BY <1>14, <2>1, <2>2 DEF IInv, ReadHeld, Busy
<1>20. Kept'
  <2> DEFINE P == {"got", "process", "found"}
  <2> SUFFICES ASSUME NEW q \in Reqs, kern'[q] = "read", intr'[q] = "lib", ~mt.exit
               PROVE  SeekerIn(q, P)' \/ q \in ToSet(interrupts') \/ Kept!(q)!2!3
    BY <1>3 DEF Kept
  <2>1. CASE q = r
    <3>1. k = "intr" /\ r \in ToSet(interrupts')
      BY <1>3, <1>4, <2>1, AwaitSet DEF IInv, Types
    <3> QED
      BY <2>1, <3>1
  <2>2. CASE q # r
    <3>1. SeekerIn(q, P) => SeekerIn(q, P)'
      BY <1>1, <1>3, <1>7, <2>2 DEF SeekerIn
    <3> QED
      BY <1>5, <1>11, <2>2, <3>1 DEF IInv, Kept
  <2> QED
    BY <2>1, <2>2
<1> QED
  BY <1>7, <1>8, <1>12, <1>a, <1>13, <1>15, <1>16, <1>17, <1>18, <1>19, <1>20 DEF IInv
\* The users of a request can be counted.
LEMMA UsersFinite == \A r \in Reqs : IsFiniteSet(Users(r)) /\ Cardinality(Users(r)) \in Nat
  BY SessionAssumption, FS_Subset, FS_CardinalityType DEF Users

\* send_reply_iov keeps the invariant.
LEMMA StepSend == ASSUME IInv, NEW w \in Workers, send_reply_iov(w) PROVE IInv'
<1> USE DEF send_reply_iov, Go, lvars
<1>1. PICK r \in Reqs : job[w] = <<"req", r>>
  BY DEF IInv, Places, Busy, Messages
<1>2. job[w][2] = r
  BY <1>1
<1>3. /\ pc[w] \in {"send", "handler"} /\ pc' = [pc EXCEPT ![w] = "free"]
      /\ UNCHANGED <<op, req, interrupts, job, todo, exited, case, mt>>
      /\ IF req[r].ctr > 0
         THEN Answer(r) /\ UNCHANGED touched
         ELSE UNCHANGED <<kern, intr>> /\ touched' = touched \cup {<<"req", r>>}
  BY <1>2
<1> HIDE DEF send_reply_iov
<1>4. /\ kern' \in [Reqs -> {"idle", "queued", "read", "answered", "dropped", "lost"}]
      /\ intr' \in [Reqs -> {"no", "queued", "lib", "done", "dropped"}]
      /\ \A q \in Reqs : kern'[q] = kern[q] \/ (q = r /\ kern[r] = "read" /\ kern'[r] = "answered")
      /\ \A q \in Reqs : intr'[q] = intr[q] \/ (q = r /\ intr[r] = "queued" /\ intr'[r] = "done")
      /\ req[r].ctr > 0 => kern'[r] # "read"
  BY <1>3 DEF Answer, IInv, Types
<1>5. Works(w, "free")
  BY <1>1, <1>3, <1>4 DEF Works, Inside, Busy, Seeking
<1>6. /\ pc' \in [Workers -> PCs] /\ pc'[w] = "free" /\ \A v \in Workers \ {w} : pc'[v] = pc[v]
      /\ Places' /\ OneHandler' /\ Running' /\ SomeoneReads'
  BY <1>5, WorksFrame
<1>7. Types'
  BY <1>3, <1>4, <1>6 DEF IInv, Types, MtType
<1>8. \A q \in Reqs : Users(q)' = Users(q)
  BY <1>3, <1>6 DEF Users, Uses, Handling
<1>9. w \in Users(r)
  <2>1. job[w] # <<>>
    BY <1>1
  <2> QED
    BY <1>2, <1>3, <2>1 DEF Users, Uses, Handling
<1>10. Replies'
  BY <1>3, <1>6 DEF IInv, Replies, Busy
<1>11. NotTouched'
  <2>1. kern'[r] \notin {"idle", "queued"}
    BY <1>1, <1>4 DEF IInv, OneHandler
  <2>2. req[r].ctr > 0 \/ (case.loop = "ev" /\ op[r] = "OPEN")
    <3>1. Cardinality(Users(r)) > 0
      BY <1>9, UsersFinite, FS_EmptySet
    <3> QED
      BY <3>1 DEF IInv, RequestsLive, Users
  <2> QED
    BY <1>3, <1>4, <2>1, <2>2 DEF IInv, NotTouched
<1>12. Fresh'
  BY <1>3, <1>4, <1>6, <1>8, <1>9 DEF IInv, Fresh
<1>13. \A q \in Reqs : HandlerIn(q, Busy) => HandlerIn(q, Busy)'
  BY <1>3, <1>6 DEF HandlerIn, Busy
<1>14. \A q \in Reqs : \A P \in SUBSET {"interruptible", "finished", "got", "process"} :
         HandlerIn(q, P) => HandlerIn(q, P)'
  BY <1>3, <1>6 DEF HandlerIn
<1>15. Fields'
  BY <1>3, <1>13, <1>14 DEF IInv, Fields, FieldsOf
<1>16. Locked'
  BY <1>3, <1>6 DEF IInv, Locked
<1>17. FunctionInTime'
  BY <1>3, <1>6 DEF IInv, FunctionInTime
<1>18. RequestsLive'
  BY <1>3, <1>8 DEF IInv, RequestsLive, Users
<1>19. ReadHeld'
  <2> SUFFICES ASSUME NEW q \in Reqs, kern'[q] = "read", ~mt.exit
               PROVE  \/ HandlerIn(q, {"got", "process"})'
                      \/ HandlerIn(q, Busy \ {"free"})' /\ req[q].ctr > 0
    BY <1>3 DEF ReadHeld
  <2>1. kern[q] = "read"
    BY <1>4
  <2>2. HandlerIn(q, {"got", "process"}) => HandlerIn(q, {"got", "process"})'
    BY <1>14
  <2>3. CASE q # r
    <3>1. HandlerIn(q, Busy \ {"free"}) => HandlerIn(q, Busy \ {"free"})'
      BY <1>1, <1>3, <1>6, <2>3 DEF HandlerIn
    <3> QED
      BY <2>1, <2>2, <3>1 DEF IInv, ReadHeld
  <2>4. CASE q = r
    BY <1>4, <2>1, <2>2, <2>4 DEF IInv, ReadHeld
  <2> QED
    BY <2>3, <2>4
<1>20. Kept'
  <2>1. ASSUME NEW q \in Reqs, SeekerIn(q, {"got", "process", "found"})
        PROVE  SeekerIn(q, {"got", "process", "found"})'
    BY <1>3, <1>6, <2>1 DEF SeekerIn
  <2> QED
    BY <1>3, <1>4, <2>1 DEF IInv, Kept
<1> QED
  BY <1>6, <1>7, <1>10, <1>11, <1>12, <1>15, <1>16, <1>17, <1>18, <1>19, <1>20 DEF IInv
\* find_interrupted giving its reference back keeps the invariant.
LEMMA StepFoundDrop == ASSUME IInv, NEW w \in Workers, FoundDrop(w) PROVE IInv'
<1> USE DEF FoundDrop, Go, kvars
<1>1. PICK r \in Reqs : job[w] = <<"intr", r>>
  BY DEF IInv, Places, Seeking, Messages
<1>2. job[w][2] = r /\ job[w] # <<>>
  BY <1>1
<1>3. /\ pc[w] = "drop" /\ pc' = [pc EXCEPT ![w] = "back"] /\ case.loop = "mt"
      /\ UNCHANGED <<kern, op, intr, interrupts, job, todo, exited, case, mt, touched>>
      /\ Deref(r)
  BY <1>2 DEF IInv, Places, Seeking
<1> HIDE DEF FoundDrop
<1>4. w \in Users(r)
  BY <1>2, <1>3 DEF Users, Uses
<1>5. req[r] \in ReqType /\ req[r].ctr = Cardinality(Users(r)) /\ req[r].ctr \in Nat /\ req[r].ctr >= 1
  BY <1>3, <1>4, Held DEF IInv, Types
<1> DEFINE x == IF req[r].ctr = 1 THEN NoReq ELSE [req[r] EXCEPT !.ctr = req[r].ctr - 1]
<1>6. /\ req' = [req EXCEPT ![r] = x] /\ x \in ReqType /\ x.ctr = req[r].ctr - 1
      /\ req[r].ctr = 1 => x = NoReq
      /\ req[r].ctr # 1 => x = [req[r] EXCEPT !.ctr = req[r].ctr - 1]
  <2>1. req' = [req EXCEPT ![r] = x]
    <3>1. CASE req[r].ctr = 1
      BY <1>3, <3>1 DEF Deref, IInv, Types
    <3>2. CASE req[r].ctr # 1
      BY <1>3, <3>2 DEF Deref, IInv, Types
    <3> QED
      BY <3>1, <3>2
  <2>2. NoReq \in ReqType /\ NoReq.ctr = 0
    BY DEF NoReq, ReqType
  <2>3. req[r].ctr # 1 => [req[r] EXCEPT !.ctr = req[r].ctr - 1] \in ReqType /\ [req[r] EXCEPT !.ctr = req[r].ctr - 1].ctr = req[r].ctr - 1
    BY <1>5 DEF ReqType
  <2> QED
    BY <1>5, <2>1, <2>2, <2>3
<1> HIDE DEF x
<1>7. Works(w, "back")
  BY <1>3 DEF Works, Inside, Busy, Seeking
<1>8. /\ pc' \in [Workers -> PCs] /\ pc'[w] = "back" /\ \A v \in Workers \ {w} : pc'[v] = pc[v]
      /\ Places' /\ OneHandler' /\ Running' /\ SomeoneReads'
  BY <1>7, WorksFrame
<1>9. Types'
  BY <1>3, <1>6, <1>8 DEF IInv, Types, MtType
<1>10. req'[r] = x /\ \A q \in Reqs \ {r} : req'[q] = req[q]
  BY <1>6 DEF IInv, Types
<1>11. Users(r)' = Users(r) \ {w} /\ \A q \in Reqs \ {r} : Users(q)' = Users(q)
  BY <1>2, <1>3, <1>8 DEF Users, Uses, Handling
\* Somebody else uses the request: its fields are kept.
<1>12. ASSUME NEW v \in Users(r), v # w
       PROVE  req[r].ctr >= 2 /\ x = [req[r] EXCEPT !.ctr = req[r].ctr - 1]
  <2>1. Cardinality(Users(r) \ {w}) = req[r].ctr - 1 /\ IsFiniteSet(Users(r) \ {w})
    BY <1>4, <1>5, UsersFinite, FS_RemoveElement
  <2>2. Users(r) \ {w} # {}
    BY <1>12
  <2> QED
    BY <1>5, <1>6, <2>1, <2>2, FS_EmptySet, FS_CardinalityType
<1>13. Replies' /\ NotTouched'
  BY <1>3, <1>8 DEF IInv, Replies, NotTouched, Busy
<1>14. Fresh'
  BY <1>3, <1>4, <1>8, <1>10, <1>11 DEF IInv, Fresh
<1>15. \A q \in Reqs : \A P \in SUBSET (Busy \cup {"got", "process"}) : HandlerIn(q, P) => HandlerIn(q, P)'
  BY <1>3, <1>8 DEF HandlerIn, Busy
<1>16. \A v \in Workers : job[v] = <<"req", r>> /\ pc[v] \in Busy => v \in Users(r) /\ v # w
  BY <1>1 DEF Users, Uses, Handling, Busy
<1>17. Fields'
  <2>1. ASSUME NEW q \in Reqs \ {r} PROVE FieldsOf(q)'
    BY <1>10, <1>15 DEF IInv, Fields, FieldsOf, Busy
  <2>2. (req[r].listed => HandlerIn(r, Busy)') /\ (req[r].func => HandlerIn(r, {"interruptible", "finished"})')
    BY <1>15 DEF IInv, Fields, FieldsOf, Busy
  <2>3. ASSUME req[r].ctr = 1 PROVE FieldsOf(r)'
    <3>1. x = NoReq /\ ~NoReq.listed /\ ~NoReq.func
      BY <1>6, <2>3 DEF NoReq
    <3> QED
      BY <1>10, <3>1 DEF FieldsOf
  <2>4. ASSUME req[r].ctr # 1 PROVE FieldsOf(r)'
    <3>1. x.ctr >= 1 /\ (x.listed <=> req[r].listed) /\ (x.func <=> req[r].func)
      BY <1>5, <1>6, <2>4 DEF ReqType
    <3> QED
      BY <1>10, <2>2, <3>1 DEF FieldsOf
  <2> QED
    BY <2>1, <2>3, <2>4 DEF Fields
<1>18. Locked'
  <2>1. ASSUME NEW v \in Workers, pc'[v] = "calling" PROVE req'[job[v][2]].lock = v
    <3>1. v # w /\ pc[v] = "calling" /\ job[v] # <<>> /\ job[v][2] \in Reqs /\ req[job[v][2]].lock = v
      BY <1>8, <2>1 DEF IInv, Locked, Places, Seeking, Messages
    <3>2. CASE job[v][2] = r
      <4>1. v \in Users(r)
        BY <3>1, <3>2 DEF Users, Uses
      <4> QED
        BY <1>5, <1>10, <1>12, <3>1, <3>2, <4>1 DEF ReqType
    <3> QED
      BY <1>10, <3>1, <3>2
  <2> QED
    BY <1>3, <2>1 DEF Locked
<1>19. FunctionInTime'
  BY <1>3, <1>8 DEF IInv, FunctionInTime
<1>20. RequestsLive'
  <2>1. Cardinality(Users(r) \ {w}) = req[r].ctr - 1
    BY <1>4, <1>5, UsersFinite, FS_RemoveElement
  <2> QED
    BY <1>3, <1>6, <1>10, <1>11, <2>1 DEF IInv, RequestsLive, Users
<1>21. ReadHeld'
  <2> SUFFICES ASSUME NEW q \in Reqs, kern[q] = "read", ~mt.exit
               PROVE  \/ HandlerIn(q, {"got", "process"})'
                      \/ HandlerIn(q, Busy \ {"free"})' /\ req'[q].ctr > 0
    BY <1>3 DEF ReadHeld
  <2>1. CASE HandlerIn(q, {"got", "process"})
    BY <1>15, <2>1
  <2>2. CASE HandlerIn(q, Busy \ {"free"}) /\ req[q].ctr > 0
    <3>1. HandlerIn(q, Busy \ {"free"})'
      BY <1>15, <2>2
    <3>2. q = r => req[r].ctr >= 2
      BY <1>12, <1>16, <2>2 DEF HandlerIn
    <3> QED
      BY <1>5, <1>6, <1>10, <2>2, <3>1, <3>2
  <2> QED
    BY <2>1, <2>2 DEF IInv, ReadHeld
<1>22. Kept'
  <2> DEFINE P == {"got", "process", "found"}
  <2> SUFFICES ASSUME NEW q \in Reqs, kern[q] = "read", intr[q] = "lib", ~mt.exit
               PROVE  SeekerIn(q, P)' \/ q \in ToSet(interrupts) \/ Kept!(q)!2!3'
    BY <1>3 DEF Kept
  <2>1. SeekerIn(q, P) => SeekerIn(q, P)'
    BY <1>3, <1>8 DEF SeekerIn
  <2>2. CASE q # r
    BY <1>10, <2>1, <2>2 DEF IInv, Kept
  <2>3. CASE q = r
    <3>1. HandlerIn(r, Busy)
      BY <1>4, <2>3 DEF IInv, ReadHeld, HandlerIn, Fresh
    <3>2. req[r].ctr >= 2 /\ x = [req[r] EXCEPT !.ctr = req[r].ctr - 1]
      BY <1>12, <1>16, <3>1 DEF HandlerIn
    <3>3. (x.interrupted <=> req[r].interrupted) /\ (x.func <=> req[r].func) /\ (x.called <=> req[r].called)
      BY <1>5, <3>2 DEF ReqType
    <3> QED
      BY <1>10, <2>1, <2>3, <3>3 DEF IInv, Kept
  <2> QED
    BY <2>2, <2>3
<1> QED
  BY <1>8, <1>9, <1>13, <1>14, <1>17, <1>18, <1>19, <1>20, <1>21, <1>22 DEF IInv
\* find_interrupted taking a reference keeps the invariant.
LEMMA StepHold ==
    ASSUME IInv, NEW w \in Workers, do_interrupt(w), req[job[w][2]].listed
    PROVE  IInv'
<1> USE DEF do_interrupt, Go, kvars
<1>1. PICK r \in Reqs : job[w] = <<"intr", r>>
  BY DEF IInv, Places, Messages
<1>2. job[w][2] = r /\ job[w] # <<>> /\ job[w][1] = "intr"
  BY <1>1
<1>3. /\ pc[w] = "process" /\ pc' = [pc EXCEPT ![w] = "found"]
      /\ UNCHANGED <<kern, op, intr, interrupts, job, todo, exited, case, mt, touched>>
      /\ Hold(r) /\ req[r].listed
  BY <1>2
<1> HIDE DEF do_interrupt
<1>4. PICK v \in Workers : job[v] = <<"req", r>> /\ pc[v] \in Busy
  BY <1>3 DEF IInv, Fields, FieldsOf, HandlerIn
<1>5. v # w /\ v \in Users(r) /\ w \notin Users(r)
  BY <1>1, <1>2, <1>3, <1>4 DEF Users, Uses, Handling, Busy
<1>6. case.loop = "mt"
  BY <1>3, <1>4, <1>5 DEF IInv, Places, Busy
<1>7. req[r] \in ReqType /\ req[r].ctr = Cardinality(Users(r)) /\ req[r].ctr \in Nat /\ req[r].ctr >= 1
  BY <1>5, <1>6, Held DEF IInv, Types
<1> DEFINE x == [req[r] EXCEPT !.ctr = req[r].ctr + 1]
<1>8. req' = [req EXCEPT ![r] = x]
  BY <1>3 DEF Hold, IInv, Types
<1>9. /\ x \in ReqType /\ x.ctr = req[r].ctr + 1 /\ x.lock = req[r].lock /\ (x.listed <=> req[r].listed)
      /\ (x.interrupted <=> req[r].interrupted) /\ (x.func <=> req[r].func) /\ (x.called <=> req[r].called)
  BY <1>7 DEF ReqType
<1> HIDE DEF x
<1>10. Works(w, "found")
  BY <1>2, <1>3, <1>6 DEF Works, Inside, Busy, Seeking
<1>11. /\ pc' \in [Workers -> PCs] /\ pc'[w] = "found" /\ \A u \in Workers \ {w} : pc'[u] = pc[u]
       /\ Places' /\ OneHandler' /\ Running' /\ SomeoneReads'
  BY <1>10, WorksFrame
<1>12. Types'
  BY <1>3, <1>8, <1>9, <1>11 DEF IInv, Types, MtType
<1>13. req'[r] = x /\ \A q \in Reqs \ {r} : req'[q] = req[q]
  BY <1>8 DEF IInv, Types
<1>14. Users(r)' = Users(r) \cup {w} /\ \A q \in Reqs \ {r} : Users(q)' = Users(q)
  BY <1>2, <1>3, <1>11 DEF Users, Uses, Handling
<1>15. Replies' /\ NotTouched'
  BY <1>3, <1>11 DEF IInv, Replies, NotTouched, Busy
<1>16. Fresh'
  BY <1>3, <1>5, <1>11, <1>13, <1>14 DEF IInv, Fresh
<1>17. \A q \in Reqs : \A P \in SUBSET (Busy \cup {"got", "process"}) : HandlerIn(q, P) => HandlerIn(q, P)'
  BY <1>1, <1>3, <1>11 DEF HandlerIn, Busy
<1>18. Fields'
  <2>1. ASSUME NEW q \in Reqs \ {r} PROVE FieldsOf(q)'
    BY <1>13, <1>17 DEF IInv, Fields, FieldsOf, Busy
  <2>2. (req[r].listed => HandlerIn(r, Busy)') /\ (req[r].func => HandlerIn(r, {"interruptible", "finished"})')
    BY <1>17 DEF IInv, Fields, FieldsOf, Busy
  <2>3. FieldsOf(r)'
    BY <1>7, <1>9, <1>13, <2>2 DEF FieldsOf
  <2> QED
    BY <2>1, <2>3 DEF Fields
<1>19. Locked'
  <2>1. \A q \in Reqs : req'[q].lock = req[q].lock
    BY <1>9, <1>13
  <2> QED
    BY <1>3, <1>11, <2>1 DEF IInv, Locked, Places, Seeking, Messages
<1>20. FunctionInTime'
  BY <1>3, <1>11 DEF IInv, FunctionInTime
<1>21. RequestsLive'
  <2>1. Cardinality(Users(r) \cup {w}) = req[r].ctr + 1
    <3>1. IsFiniteSet(Users(r))
      BY UsersFinite
    <3>2. Cardinality(Users(r) \cup {w}) = Cardinality(Users(r)) + 1
      BY <1>5, <3>1, FS_AddElement
    <3> QED
      BY <1>7, <3>2
  <2> QED
    BY <1>3, <1>9, <1>13, <1>14, <2>1 DEF IInv, RequestsLive, Users
<1>22. ReadHeld'
  <2>1. \A q \in Reqs : req[q].ctr > 0 => req'[q].ctr > 0
    BY <1>7, <1>9, <1>13
  <2> QED
    BY <1>3, <1>17, <2>1 DEF IInv, ReadHeld
<1>23. Kept'
  <2>1. ASSUME NEW q \in Reqs, SeekerIn(q, {"got", "process", "found"})
        PROVE  SeekerIn(q, {"got", "process", "found"})'
    BY <1>3, <1>11, <2>1 DEF SeekerIn
  <2> QED
    BY <1>3, <1>9, <1>13, <2>1 DEF IInv, Kept
<1> QED
  BY <1>11, <1>12, <1>15, <1>16, <1>18, <1>19, <1>20, <1>21, <1>22, <1>23 DEF IInv

\* free_req after a reply keeps the invariant.
LEMMA StepReplyFree == ASSUME IInv, NEW w \in Workers, ReplyFree(w) PROVE IInv'
<1> USE DEF ReplyFree, Go, kvars
<1>1. PICK r \in Reqs : job[w] = <<"req", r>>
  BY DEF IInv, Places, Busy, Messages
<1>2. job[w][2] = r /\ job[w] # <<>> /\ job[w][1] = "req"
  BY <1>1
<1>3. /\ pc[w] = "free"
      /\ UNCHANGED <<kern, op, intr, interrupts, job, exited, case, mt, touched>>
      /\ IF req[r].ctr > 0 THEN free_req(r) ELSE UNCHANGED req
      /\ todo' = [todo EXCEPT ![w] = Tail(@)]
  BY <1>2
<1>4. PICK l : /\ l \in {"back", "crash", "send"} /\ pc' = [pc EXCEPT ![w] = l]
               /\ l = "crash" => <<"req", r>> \in touched
               /\ l = "send" => Len(todo[w]) > 1
  BY <1>2
<1> HIDE DEF ReplyFree
<1>5. (l = "crash" => case.loop = "ev") /\ (l = "send" => case.loop = "ev" /\ op[r] = "OPEN")
  BY <1>2, <1>3, <1>4 DEF IInv, NotTouched, Replies, Busy
<1>6. w \in Users(r)
  BY <1>2, <1>3 DEF Users, Uses, Handling
<1>7. req[r] \in ReqType /\ req[r].ctr \in Nat
  BY DEF IInv, Types, ReqType
<1> DEFINE x == IF req[r].ctr > 1
                THEN [req[r] EXCEPT !.ctr = req[r].ctr - 1, !.func = FALSE, !.listed = FALSE]
                ELSE NoReq
<1>8. req' = [req EXCEPT ![r] = x]
  <2>1. CASE req[r].ctr = 0
    BY <1>3, <2>1 DEF IInv, Types, Fields, FieldsOf
  <2>2. CASE req[r].ctr = 1
    BY <1>3, <2>2 DEF free_req, IInv, Types
  <2>3. CASE req[r].ctr > 1
    <3>1. req[r].ctr > 0 /\ req[r].ctr # 1
      BY <1>7, <2>3
    <3> QED
      BY <1>3, <2>3, <3>1 DEF free_req, IInv, Types
  <2> QED
    BY <1>7, <2>1, <2>2, <2>3
<1>9. /\ x \in ReqType /\ ~x.listed /\ ~x.func /\ (x.ctr = 0 => x = NoReq)
      /\ x.ctr = IF req[r].ctr > 1 THEN req[r].ctr - 1 ELSE 0
  <2>1. NoReq \in ReqType /\ NoReq.ctr = 0 /\ ~NoReq.listed /\ ~NoReq.func
    BY DEF NoReq, ReqType
  <2>2. CASE req[r].ctr > 1
    <3>1. req[r].ctr - 1 \in Nat /\ req[r].ctr - 1 # 0
      BY <1>7, <2>2
    <3>2. x = [req[r] EXCEPT !.ctr = req[r].ctr - 1, !.func = FALSE, !.listed = FALSE]
      BY <2>2
    <3> HIDE DEF x
    <3>3. x \in ReqType /\ ~x.listed /\ ~x.func /\ x.ctr = req[r].ctr - 1
      BY <1>7, <3>1, <3>2 DEF ReqType
    <3> QED
      BY <2>2, <3>1, <3>3
  <2> QED
    BY <2>1, <2>2
<1> HIDE DEF x
<1>10. Works(w, l)
  BY <1>2, <1>3, <1>4, <1>5 DEF Works, Inside, Busy, Seeking
<1>11. /\ pc' \in [Workers -> PCs] /\ pc'[w] = l /\ \A v \in Workers \ {w} : pc'[v] = pc[v]
       /\ Places' /\ OneHandler' /\ Running' /\ SomeoneReads'
  BY <1>10, WorksFrame
<1>12. Types'
  BY <1>3, <1>8, <1>9, <1>11 DEF IInv, Types, MtType
<1>13. req'[r] = x /\ \A q \in Reqs \ {r} : req'[q] = req[q]
  BY <1>8 DEF IInv, Types
<1>14. /\ Users(r)' = IF l = "send" THEN Users(r) ELSE Users(r) \ {w}
       /\ \A q \in Reqs \ {r} : Users(q)' = Users(q)
  BY <1>2, <1>3, <1>4, <1>6, <1>11 DEF Users, Uses, Handling
<1>15. NotTouched'
  BY <1>3 DEF IInv, NotTouched
<1>16. Replies'
  BY <1>2, <1>3, <1>4, <1>5, <1>11 DEF IInv, Replies, Busy
<1>17. Fresh'
  BY <1>3, <1>4, <1>6, <1>11, <1>13, <1>14 DEF IInv, Fresh
<1>18. \A q \in Reqs \ {r} : \A P : HandlerIn(q, P) => HandlerIn(q, P)'
  BY <1>1, <1>3, <1>11 DEF HandlerIn
<1>19. Fields'
  <2>1. ASSUME NEW q \in Reqs \ {r} PROVE FieldsOf(q)'
    BY <1>13, <1>18 DEF IInv, Fields, FieldsOf
  <2>2. FieldsOf(r)'
    BY <1>9, <1>13 DEF FieldsOf
  <2> QED
    BY <2>1, <2>2 DEF Fields
\* The handler is through, so no interrupt function runs and nobody waits for an answer.
<1>20. \A v \in Workers : pc[v] = "calling" => job[v][2] # r
  BY <1>1, <1>3 DEF IInv, FunctionInTime, OneHandler
<1>21. Locked'
  BY <1>3, <1>4, <1>11, <1>13, <1>20 DEF IInv, Locked, Places, Seeking, Messages
<1>22. FunctionInTime'
  BY <1>3, <1>4, <1>11 DEF IInv, FunctionInTime
<1>23. kern[r] = "read" => mt.exit
  BY <1>1, <1>3 DEF IInv, ReadHeld, HandlerIn, OneHandler
<1>24. ReadHeld'
  BY <1>3, <1>13, <1>18, <1>23 DEF IInv, ReadHeld
<1>25. Kept'
  <2>1. ASSUME NEW q \in Reqs, SeekerIn(q, {"got", "process", "found"})
        PROVE  SeekerIn(q, {"got", "process", "found"})'
    BY <1>3, <1>11, <2>1 DEF SeekerIn
  <2> QED
    BY <1>3, <1>13, <1>23, <2>1 DEF IInv, Kept
<1>26. RequestsLive'
  <2>0. Cardinality(Users(r) \ {w}) = Cardinality(Users(r)) - 1 /\ Cardinality(Users(r)) >= 1
    BY <1>6, UsersFinite, FS_RemoveElement, FS_EmptySet
  <2>1. CASE req[r].ctr = Cardinality(Users(r)) /\ l # "send"
    <3>1. x.ctr = Cardinality(Users(r) \ {w})
      BY <1>7, <1>9, <2>0, <2>1
    <3> QED
      BY <1>3, <1>13, <1>14, <2>1, <3>1 DEF IInv, RequestsLive, Users
  <2>2. CASE case.loop = "ev" /\ op[r] = "OPEN"
    <3>1. Users(r) \subseteq {MainThread}
      BY <2>2 DEF IInv, Places, Users, Uses, Handling
    <3>2. Cardinality(Users(r)) = 1
      <4>1. Users(r) = {w}
        BY <1>6, <3>1
      <4> QED
        BY <4>1, FS_Singleton
    <3>3. req[r].ctr \in {0, 1}
      BY <3>2 DEF IInv, RequestsLive, Users
    <3> QED
      <4>1. req'[r].ctr = 0
        BY <1>9, <1>13, <3>3
      <4> QED
        BY <1>3, <1>13, <1>14, <2>2, <4>1 DEF IInv, RequestsLive, Users
  <2> QED
    BY <1>5, <2>1, <2>2 DEF IInv, RequestsLive, Users
<1> QED
  BY <1>11, <1>12, <1>15, <1>16, <1>17, <1>19, <1>21, <1>22, <1>24, <1>25, <1>26 DEF IInv
-----------------------------------------------------------------------------
(* Of the handlers of fs-pkg only vfs_fuse_open replies twice.             *)
LEMMA OneReply ==
    ASSUME NEW o, o # "OPEN", NEW found, NEW s \in vfs_fuse_ops(o, found)
    PROVE  ~(Len(s) > 1)
<1>1. \E x : s = <<x>>
  BY DEF vfs_fuse_ops, vfs_fuse_getattr
<1> QED
  BY <1>1

\* fuse_ll_process keeps the invariant.
LEMMA StepProcess ==
    ASSUME IInv, NEW w \in Workers, NEW denied, NEW found, fuse_ll_process(w, denied, found)
    PROVE  IInv'
<1> DEFINE l == IF Refused(job[w][2], denied) # None THEN "send"
                ELSE IF case.loop = "ev" THEN "send" ELSE "handler"
<1> USE DEF fuse_ll_process, Go
<1>1. PICK r \in Reqs : job[w] = <<"req", r>>
  BY DEF IInv, Places, Messages
<1>2. job[w][2] = r /\ job[w] # <<>> /\ job[w][1] = "req"
  BY <1>1
<1>3. /\ pc[w] = "process" /\ UNCHANGED <<kern, op, conn, job, exited, case, mt, touched>>
      /\ pc' = [pc EXCEPT ![w] = l]
      /\ \E t : todo' = [todo EXCEPT ![w] = t] /\ (Len(t) > 1 => case.loop = "ev" /\ op[r] = "OPEN")
  <2>1. \A e : ~(Len(<<e>>) > 1)
    OBVIOUS
  <2> QED
    BY <1>2, <2>1, OneReply
<1>4. req[r] = NoReq /\ Users(r) = {} /\ kern[r] \notin {"idle", "queued"}
  BY <1>1, <1>3 DEF IInv, Fresh, OneHandler
<1>5. PICK x \in ReqType : /\ req' = [req EXCEPT ![r] = x]
                           /\ x.ctr = 1 /\ ~x.func /\ x.lock = None
                           /\ \/ UNCHANGED <<intr, interrupts>>
                              \/ LET c == check_interrupt(r)
                                 IN  /\ (x.interrupted <=> c.mark) /\ interrupts' = c.rest
                                     /\ intr' = IF c.back = 0 THEN intr
                                                ELSE [intr EXCEPT ![c.back] =
                                                        IF kern[c.back] = "read" THEN "queued" ELSE "done"]
  <2> DEFINE c == check_interrupt(r)
             y == [NoReq EXCEPT !.ctr = 1]
             z == [NoReq EXCEPT !.ctr = 1, !.listed = TRUE, !.interrupted = c.mark]
  <2>1. c.mark \in BOOLEAN
    BY CheckSet DEF IInv, Types
  <2>2. CASE Refused(r, denied) # None
    <3>1. y \in ReqType /\ y.ctr = 1 /\ ~y.func /\ y.lock = None
      BY DEF NoReq, ReqType
    <3>2. req' = [req EXCEPT ![r] = y] /\ UNCHANGED <<intr, interrupts>>
      BY <1>2, <2>2
    <3> QED
      BY <3>1, <3>2
  <2>3. CASE Refused(r, denied) = None
    <3>1. z \in ReqType /\ z.ctr = 1 /\ ~z.func /\ z.lock = None /\ (z.interrupted <=> c.mark)
      BY <2>1 DEF NoReq, ReqType
    <3>2. /\ req' = [req EXCEPT ![r] = z] /\ interrupts' = c.rest
          /\ intr' = IF c.back = 0 THEN intr
                     ELSE [intr EXCEPT ![c.back] = IF kern[c.back] = "read" THEN "queued" ELSE "done"]
      BY <1>2, <2>3
    <3> QED
      BY <3>1, <3>2
  <2> QED
    BY <2>2, <2>3
<1> HIDE DEF fuse_ll_process
<1>6. l \in {"send", "handler"} /\ (l = "handler" => case.loop # "ev")
  OBVIOUS
<1> HIDE DEF l
\* What becomes of the INTERRUPTs that wait.
<1>7. /\ interrupts' \in Seq(Reqs) /\ ToSet(interrupts') \subseteq ToSet(interrupts)
      /\ intr' \in [Reqs -> {"no", "queued", "lib", "done", "dropped"}]
      /\ \A q \in Reqs : intr'[q] = intr[q] \/ (q \in ToSet(interrupts) /\ intr'[q] # "lib")
      /\ \A q \in ToSet(interrupts) \cap Reqs :
            q \in ToSet(interrupts') \/ intr'[q] # "lib" \/ (q = r /\ x.interrupted)
  <2>1. interrupts \in Seq(Reqs) /\ intr \in [Reqs -> {"no", "queued", "lib", "done", "dropped"}]
    BY DEF IInv, Types
  <2>2. CASE UNCHANGED <<intr, interrupts>>
    BY <2>1, <2>2
  <2>3. ASSUME NEW c, c = check_interrupt(r), x.interrupted <=> c.mark, interrupts' = c.rest,
               intr' = IF c.back = 0 THEN intr
                       ELSE [intr EXCEPT ![c.back] = IF kern[c.back] = "read" THEN "queued" ELSE "done"]
        PROVE  <1>7!:
    <3>1. /\ c.rest \in Seq(Reqs) /\ ToSet(c.rest) \subseteq ToSet(interrupts)
          /\ c.mark \in BOOLEAN /\ (c.mark <=> r \in ToSet(interrupts))
          /\ c.back = 0 \/ c.back \in ToSet(interrupts) \cap Reqs
          /\ \A q \in ToSet(interrupts) : q \in ToSet(c.rest) \/ q = r \/ q = c.back
      BY <2>1, <2>3, CheckSet
    <3>2. 0 \notin Reqs
      BY DEF Reqs
    <3>3. intr' \in [Reqs -> {"no", "queued", "lib", "done", "dropped"}]
      BY <2>1, <2>3
    <3>4. \A q \in Reqs : intr'[q] = intr[q] \/ (q = c.back /\ q \in ToSet(interrupts) /\ intr'[q] # "lib")
      BY <2>1, <2>3, <3>1
    <3>5. c.back \in Reqs => intr'[c.back] # "lib"
      BY <2>1, <2>3, <3>2
    <3> QED
      BY <2>3, <3>1, <3>3, <3>4, <3>5
  <2> QED
    BY <1>5, <2>2, <2>3
<1>8. Works(w, l)
  BY <1>2, <1>3, <1>6 DEF Works, Inside, Busy, Seeking
<1>9. /\ pc' \in [Workers -> PCs] /\ pc'[w] = l /\ \A v \in Workers \ {w} : pc'[v] = pc[v]
      /\ Places' /\ OneHandler' /\ Running' /\ SomeoneReads'
  BY <1>8, WorksFrame
<1>10. Types'
  <2>1. todo' = [v \in Workers |-> todo'[v]]
    BY <1>3 DEF IInv, Types
  <2> QED
    BY <1>3, <1>5, <1>7, <1>9, <2>1 DEF IInv, Types, MtType
<1>11. req'[r] = x /\ \A q \in Reqs \ {r} : req'[q] = req[q]
  BY <1>5 DEF IInv, Types
<1>12. Users(r)' = {w} /\ \A q \in Reqs \ {r} : Users(q)' = Users(q)
  BY <1>2, <1>3, <1>4, <1>6, <1>9 DEF Users, Uses, Handling
<1>13. NotTouched'
  BY <1>3 DEF IInv, NotTouched
<1>14. Replies'
  <2>1. PICK t : todo' = [todo EXCEPT ![w] = t] /\ (Len(t) > 1 => case.loop = "ev" /\ op[r] = "OPEN")
    BY <1>3
  <2>2. todo'[w] = t /\ \A v \in Workers \ {w} : todo'[v] = todo[v]
    BY <2>1 DEF IInv, Types
  <2> QED
    BY <1>2, <1>3, <1>9, <2>1, <2>2 DEF IInv, Replies
<1>15. Fresh'
  <2>1. ASSUME NEW q \in Reqs, kern[q] \in {"idle", "queued"}
        PROVE  req'[q] = NoReq /\ Users(q)' = {} /\ intr'[q] = "no" /\ q \notin ToSet(interrupts')
    BY <1>4, <1>7, <1>11, <1>12, <2>1 DEF IInv, Fresh
  <2>2. ASSUME NEW q \in Reqs, NEW v \in Workers, job[v] = <<"req", q>>, pc'[v] \in {"got", "process"}
        PROVE  req'[q] = NoReq /\ Users(q)' = {}
    <3>1. v # w /\ q # r /\ pc[v] \in {"got", "process"}
      BY <1>1, <1>6, <1>9, <2>2 DEF IInv, OneHandler
    <3> QED
      BY <1>11, <1>12, <2>2, <3>1 DEF IInv, Fresh
  <2> QED
    BY <1>3, <2>1, <2>2 DEF Fresh
<1>16. HandlerIn(r, Busy)' /\ HandlerIn(r, Busy \ {"free"})'
  BY <1>1, <1>3, <1>6, <1>9 DEF HandlerIn, Busy
<1>17. \A q \in Reqs \ {r} : \A P : HandlerIn(q, P) => HandlerIn(q, P)'
  BY <1>1, <1>3, <1>9 DEF HandlerIn
<1>18. Fields'
  <2>1. ASSUME NEW q \in Reqs \ {r} PROVE FieldsOf(q)'
    BY <1>11, <1>17 DEF IInv, Fields, FieldsOf
  <2>2. FieldsOf(r)'
    BY <1>5, <1>11, <1>16 DEF FieldsOf
  <2> QED
    BY <2>1, <2>2 DEF Fields
<1>19. Locked'
  <2>1. ASSUME NEW v \in Workers, pc[v] = "calling" PROVE job[v][2] \in Reqs \ {r}
    <3>1. job[v][2] \in Reqs /\ job[v] # <<>>
      BY <2>1 DEF IInv, Places, Seeking, Messages
    <3> QED
      BY <1>4, <2>1, <3>1 DEF Users, Uses
  <2> QED
    BY <1>3, <1>6, <1>9, <1>11, <2>1 DEF IInv, Locked
<1>20. FunctionInTime'
  BY <1>3, <1>6, <1>9 DEF IInv, FunctionInTime
<1>21. RequestsLive'
  <2>1. Cardinality(Users(r)') = 1
    BY <1>12, FS_Singleton
  <2> QED
    <3>1. req'[r].ctr = Cardinality(Users(r)')
      BY <1>5, <1>11, <2>1
    <3> QED
      BY <1>3, <1>11, <1>12, <3>1 DEF IInv, RequestsLive, Users
<1>22. ReadHeld'
  <2>1. req'[r].ctr > 0
    BY <1>5, <1>11
  <2> QED
    BY <1>3, <1>11, <1>16, <1>17, <2>1 DEF IInv, ReadHeld
<1>23. Kept'
  <2> DEFINE P == {"got", "process", "found"}
  <2> SUFFICES ASSUME NEW q \in Reqs, kern[q] = "read", intr'[q] = "lib", ~mt.exit
               PROVE  SeekerIn(q, P)' \/ q \in ToSet(interrupts') \/ Kept!(q)!2!3'
    BY <1>3 DEF Kept
  <2>1. SeekerIn(q, P) => SeekerIn(q, P)'
    BY <1>2, <1>3, <1>9 DEF SeekerIn
  <2>2. intr[q] = "lib"
    BY <1>7
  <2>3. CASE q \in ToSet(interrupts)
    BY <1>5, <1>7, <1>11, <2>3
  <2>4. CASE q \notin ToSet(interrupts) /\ q = r
    <3>1. ~req[r].interrupted
      BY <1>4 DEF NoReq
    <3> QED
      BY <2>1, <2>2, <2>4, <3>1 DEF IInv, Kept
  <2>5. CASE q \notin ToSet(interrupts) /\ q # r
    BY <1>11, <2>1, <2>2, <2>5 DEF IInv, Kept
  <2> QED
    BY <2>3, <2>4, <2>5
<1> QED
  BY <1>9, <1>10, <1>13, <1>14, <1>15, <1>18, <1>19, <1>20, <1>21, <1>22, <1>23 DEF IInv

-----------------------------------------------------------------------------
\* Every step keeps the invariant.
LEMMA StepIInv == ASSUME IInv, [Next]_vars PROVE IInv'
<1>1. CASE UNCHANGED vars
  <2>1. OnlyMoves /\ MtType' /\ exited' \in BOOLEAN
    BY <1>1 DEF vars, kvars, lvars, tvars, OnlyMoves, Moves, IInv, Types, MtType
  <2>2. Running' /\ SomeoneReads'
    BY <1>1, SamePlaces, SameCount DEF vars, kvars, tvars, IInv, Running, GoingOn
  <2> QED
    BY <2>1, <2>2, MovesIInv DEF IInv
<1>2. CASE Environment
  <2>1. CASE \E arg \in case.init : DoInit(arg)
    BY <2>1, StepDoInit
  <2>2. CASE \E r \in Reqs, o \in case.ops : KernelSend(r, o)
    BY <2>2, StepKernelSend
  <2>3. CASE \E r \in Reqs : KernelInterrupt(r)
    BY <2>3, StepKernelInterrupt
  <2>4. CASE \E w \in Workers : fuse_do_prepare_interrupt(w) \/ ProcessNoMemory(w) \/ vfs_fuse_fini(w)
    BY <2>4, StepPrepare, StepDrops, StepLeaves DEF Drops, Leaves
  <2> QED
    BY <1>2, <2>1, <2>2, <2>3, <2>4, StepUnmount, StepMain DEF Environment
<1>3. CASE Main
  BY <1>3, StepMain
<1>4. ASSUME NEW w \in Workers, Worker(w) PROVE IInv'
  <2>1. CASE Leaves(w)
    BY <2>1, StepLeaves
  <2>2. CASE \E m \in NextMessages : fuse_kern_chan_receive(w, m)
    BY <2>2, StepReceive
  <2>3. CASE \E denied, found \in {FALSE, case.faults} : fuse_ll_process(w, denied, found)
    BY <2>3, StepProcess
  <2>4. CASE SetFinished(w) \/ fuse_do_finish_interrupt(w)
    BY <2>4, StepSetFinished, StepFinish
  <2>5. CASE send_reply_iov(w) \/ ReplyFree(w)
    BY <2>5, StepSend, StepReplyFree
  <2>6. CASE do_interrupt(w) \/ InterruptTooEarly(w)
    BY <2>6, StepHold, StepDrops DEF Drops
  <2>7. CASE FoundLock(w) \/ FoundCall(w) \/ FoundDrop(w)
    BY <2>7, StepFoundLock, StepFoundCall, StepFoundDrop
  <2>8. CASE fuse_do_work_got(w) \/ fuse_do_work_back(w)
    BY <2>8, StepGot, StepBack
  <2> QED
    BY <1>4, <2>1, <2>2, <2>3, <2>4, <2>5, <2>6, <2>7, <2>8, StepTest DEF Worker, Leaves
<1> QED
  BY <1>1, <1>2, <1>3, <1>4 DEF Next

\* The inductive invariant of the session holds always: places, requests,
\* counters, lists, interrupts and locks agree.
THEOREM SessionSound == Spec => []IInv
  BY InitIInv, StepIInv, PTL DEF Spec

(* A request is counted as often as it is used (fuse_lowlevel.c, free_req  *)
(* against find_interrupted): it is freed after its last user and not      *)
(* before.                                                                 *)
THEOREM RequestsCounted == Spec => []RequestsLive
<1>1. IInv => RequestsLive
  BY DEF IInv
<1> QED
  BY <1>1, SessionSound, PTL

(* The interrupt function never runs on the stack of a handler that has    *)
(* gone on (fuse_req_interrupt_func).                                      *)
THEOREM FunctionWaited == Spec => []FunctionInTime
<1>1. IInv => FunctionInTime
  BY DEF IInv
<1> QED
  BY <1>1, SessionSound, PTL

(* An INTERRUPT the library has read reaches its request, whichever of the *)
(* two is processed first (do_interrupt, check_interrupt).                 *)
THEOREM InterruptsKept == Spec => []InterruptKept
<1>1. IInv => InterruptKept
  <2>1. \A r \in Reqs : SeekerIn(r, {"got", "process", "found"}) =>
            \E w \in Workers : job[w] = <<"intr", r>> /\ pc[w] # "dead"
    BY DEF SeekerIn
  <2> QED
    BY <2>1 DEF IInv, Kept, InterruptKept
<1> QED
  BY <1>1, SessionSound, PTL

(* numavail of fuse_loop_mt.c counts exactly the workers that read, and one*)
(* of them reads unless all threads are in use.                            *)
THEOREM ReadersCounted == Spec => []SomeoneReads
<1>1. IInv => SomeoneReads
  BY DEF IInv
<1> QED
  BY <1>1, SessionSound, PTL

(* No handler replies to a request it has answered, but vfs_fuse_open      *)
(* in libev's loop: "The request handle is valid until one of the reply    *)
(* functions is called" (fuse_lowlevel.h).                                 *)
THEOREM OneReplyButOpen ==
    Spec => [](\A r \in Reqs : <<"req", r>> \in touched => case.loop = "ev" /\ op[r] = "OPEN")
<1>1. IInv => \A r \in Reqs : <<"req", r>> \in touched => case.loop = "ev" /\ op[r] = "OPEN"
  BY DEF IInv, NotTouched
<1> QED
  BY <1>1, SessionSound, PTL
====
