---------------------------- MODULE FuseSession ----------------------------
(***************************************************************************)
(* A FUSE session: the requests of the low level library with their        *)
(* reference counts, interrupts and replies (fuse/fuse_lowlevel.c), the    *)
(* session and its channel (fuse_session.c, fuse_kern_chan.c), and the     *)
(* three loops that feed it: the worker threads of fuse_loop_mt.c, the     *)
(* single thread of fuse_loop.c, and the libev callback of vfs_fuse.c.     *)
(*                                                                         *)
(* A step of a thread is what it does under one lock, or between two.  The *)
(* request r stands for its `unique'; the INTERRUPT message the kernel     *)
(* sends about r is named by r as well, for the kernel never has two of    *)
(* them under way.                                                         *)
(***************************************************************************)
EXTENDS FuseOps, FiniteSets, SequencesExt

CONSTANTS MaxReq,     \* bound: the requests of the kernel after INIT
          Workers,    \* the threads the process may have
          Cases,      \* what to look at: the loop, the INIT messages and opcodes
                      \* of the kernel, if it interrupts, if the session is
                      \* stopped, if there are strangers and lack of memory
          MaxIdle     \* a worker leaves when more are available (10 in the code)

ASSUME SessionAssumption ==
    /\ \A c \in Cases : /\ c.ops \subseteq DOMAIN fuse_ll_ops \cup {"UNKNOWN"}
                        /\ c.loop \in {"mt", "single", "ev"}
    /\ MaxReq \in Nat /\ MaxIdle \in Nat \ {0}
    /\ IsFiniteSet(Workers) /\ Workers # {} /\ "none" \notin Workers

(* Requests are numbered in the order they are sent.                       *)
Reqs == 1 .. MaxReq

None == "none"

VARIABLES
    kern,      \* the kernel: what became of a request
    op,        \* its opcode
    intr,      \* the kernel: its INTERRUPT message
    req,       \* struct fuse_req
    interrupts,\* f->interrupts, oldest first
    conn,      \* what INIT agreed on; conn.ok is f->got_init
    mounted,   \* the device answers
    exited,    \* se->exited
    case,      \* the case of this behaviour
    pc, job, todo,   \* per thread: where it is, its message, replies to send
    mt,        \* struct fuse_mt and the thread in fuse_session_loop_mt
    handles,   \* elements taken from vfs_handle_heap
    touched    \* what was used after it was freed: requests, the channel

kvars == <<kern, op, intr>>
lvars == <<req, interrupts, conn>>
tvars == <<pc, job, todo>>
vars == <<kvars, lvars, tvars, mounted, exited, case, mt, handles, touched>>

NoReq == [ctr |-> 0, listed |-> FALSE, interrupted |-> FALSE,
          func |-> FALSE, called |-> FALSE, lock |-> None]

NoConn == [ok |-> FALSE, minor |-> 0, capable |-> {}, flags |-> {}]

MainThread == CHOOSE w \in Workers : TRUE

Init ==
    /\ kern = [r \in Reqs |-> "idle"]
    /\ op = [r \in Reqs |-> None]
    /\ intr = [r \in Reqs |-> "no"]
    /\ req = [r \in Reqs |-> NoReq]
    /\ interrupts = <<>>
    /\ conn = NoConn
    /\ mounted = TRUE
    /\ exited = FALSE
    /\ case \in Cases
    /\ pc = [w \in Workers |-> IF w = MainThread THEN "loop" ELSE "off"]
    /\ job = [w \in Workers |-> <<>>]
    /\ todo = [w \in Workers |-> <<>>]
    /\ mt = [main |-> IF case.loop = "mt" THEN "check" ELSE None,
             list |-> IF case.loop = "mt" THEN <<MainThread>> ELSE <<>>,
             avail |-> 1, finish |-> 0, exit |-> FALSE, walk |-> None,
             cancelled |-> {}, raced |-> FALSE]
    /\ handles = 0
    /\ touched = {}

----------------------------------------------------------------------------
(* The kernel.  It sends INIT first and waits for the answer, so nothing   *)
(* happens beside it and it is one step; later requests come even if the   *)
(* session did not accept it.  An INTERRUPT is only sent about a request   *)
(* that has been read and is not answered, and that before other requests. *)
DoInit(arg) ==
    /\ arg \in case.init /\ mounted /\ conn = NoConn /\ \E w \in Workers : pc[w] = "read"
    /\ conn' = do_init(arg, {"ASYNC_READ", "POSIX_LOCKS"})
    /\ UNCHANGED <<kvars, req, interrupts, tvars, mounted, exited, case, mt, handles, touched>>

KernelSend(r, o) ==
    /\ mounted /\ conn # NoConn
    /\ kern[r] = "idle" /\ \A q \in 1 .. r - 1 : kern[q] # "idle"
    /\ o \in case.ops
    /\ kern' = [kern EXCEPT ![r] = "queued"]
    /\ op' = [op EXCEPT ![r] = o]
    /\ UNCHANGED <<intr, lvars, tvars, mounted, exited, case, mt, handles, touched>>

KernelInterrupt(r) ==
    /\ case.interrupts /\ mounted /\ kern[r] = "read" /\ intr[r] = "no" /\ op[r] # "FORGET"
    /\ intr' = [intr EXCEPT ![r] = "queued"]
    /\ UNCHANGED <<kern, op, lvars, tvars, mounted, exited, case, mt, handles, touched>>

Unmount ==
    /\ case.stops /\ mounted
    /\ mounted' = FALSE
    /\ kern' = [r \in Reqs |-> IF kern[r] = "queued" THEN "lost" ELSE kern[r]]
    /\ intr' = [r \in Reqs |-> IF intr[r] = "queued" THEN "done" ELSE intr[r]]
    /\ UNCHANGED <<op, lvars, tvars, exited, case, mt, handles, touched>>

(* What the kernel makes of a reply to request r: FORGET is not waited *)
(* for, an answered request takes its queued INTERRUPT with it, and a reply*)
(* to a request it does not know is refused (ENOENT).                      *)
Answer(r) ==
    /\ kern' = [kern EXCEPT ![r] = IF kern[r] = "read" THEN "answered" ELSE @]
    /\ intr' = [intr EXCEPT ![r] = IF @ = "queued" THEN "done" ELSE @]

(* A signal that exit_handler of fuse_signals.c turns into an exit.  The   *)
(* workers block it, so the thread of the loop gets it.  It interrupts     *)
(* sem_wait there, or the read of the single thread, but only if that has  *)
(* begun: before it the test of exited is over and the signal is lost.     *)
(* libev's loop of fs-pkg has no such handler.                             *)
exit_handler ==
    /\ case.stops /\ case.loop # "ev" /\ ~exited
    /\ case.loop = "mt" => mt.main \in {"check", "sem"}
    /\ exited' = TRUE
    /\ \/ UNCHANGED <<mt, pc>>
       \/ mt.main = "sem" /\ mt' = [mt EXCEPT !.main = "check"] /\ UNCHANGED pc
       \/ /\ case.loop = "single" /\ UNCHANGED mt
          /\ \E w \in Workers : pc[w] = "read" /\ pc' = [pc EXCEPT ![w] = "left"]
    /\ UNCHANGED <<kvars, lvars, job, todo, mounted, case, handles, touched>>

----------------------------------------------------------------------------
(* Requests.  destroy_req at 0; free_req forgets the interrupt function,   *)
(* takes the request off the list and drops the reference of its thread.   *)
Deref(r) ==
    req' = [req EXCEPT ![r] = IF @.ctr = 1 THEN NoReq ELSE [@ EXCEPT !.ctr = req[r].ctr - 1]]

free_req(r) ==
    req' = [req EXCEPT ![r] = IF @.ctr = 1 THEN NoReq
                              ELSE [@ EXCEPT !.ctr = req[r].ctr - 1,
                                             !.func = FALSE, !.listed = FALSE]]

(* curr->ctr++ of find_interrupted.                                        *)
\* Mutant: the request is not held.
HoldNothing(r) == UNCHANGED req

Hold(r) == req' = [req EXCEPT ![r].ctr = @ + 1]

(* pthread_mutex_lock on the lock of the request.                          *)
\* Mutant: the lock is not taken.
LockIgnored(r) == TRUE

LockFree(r) == req[r].lock = None

(* Its pthread_mutex_unlock after the call of the function.                *)
Unlock(r) == req' = [req EXCEPT ![r].lock = None]

Go(w, l) == pc' = [pc EXCEPT ![w] = l]

(* The reader of the channel: fuse_kern_chan_receive.  A session that has  *)
(* exited drops what it has read; an unmounted device exits the session.   *)
NextMessages ==
    LET is == {r \in Reqs : intr[r] = "queued"}
    IN  IF is # {} THEN {<<"intr", r>> : r \in is}
                   ELSE {<<"req", r>> : r \in {x \in Reqs : kern[x] = "queued"}}

fuse_kern_chan_receive(w, m) ==
    /\ pc[w] = "read" /\ m \in NextMessages
    /\ IF m[1] = "intr"
       THEN intr' = [intr EXCEPT ![m[2]] = IF exited THEN "done" ELSE "lib"] /\ UNCHANGED kern
       ELSE kern' = [kern EXCEPT ![m[2]] = IF exited THEN "lost" ELSE "read"] /\ UNCHANGED intr
    /\ IF exited THEN Go(w, "left") /\ UNCHANGED job
                 ELSE Go(w, "got") /\ job' = [job EXCEPT ![w] = m]
    /\ UNCHANGED <<op, lvars, todo, mounted, exited, case, mt, handles, touched>>

(* The read fails because the file system is gone.                         *)
ReceiveNoDevice(w) ==
    /\ pc[w] = "read" /\ ~mounted
    /\ exited' = TRUE
    /\ Go(w, "left")
    /\ UNCHANGED <<kvars, lvars, job, todo, mounted, case, mt, handles, touched>>

(* The loop's own test of se->exited.  From then on the thread reads, and  *)
(* an exit is noticed only when a message comes or the device is gone.     *)
LoopTest(w) ==
    /\ pc[w] = "loop"
    /\ Go(w, IF exited /\ case.loop # "ev" THEN "left" ELSE "read")
    /\ UNCHANGED <<kvars, lvars, job, todo, mounted, exited, case, mt, handles, touched>>

(* check_interrupt: an INTERRUPT that came before its request marks it;    *)
(* otherwise the oldest one that waits is given back to the kernel.        *)
check_interrupt(r) ==
    IF r \in ToSet(interrupts)
    THEN [mark |-> TRUE, back |-> 0,
          rest |-> RemoveAt(interrupts, CHOOSE i \in DOMAIN interrupts : interrupts[i] = r)]
    ELSE IF interrupts # <<>>
         THEN [mark |-> FALSE, rest |-> Tail(interrupts), back |-> Head(interrupts)]
         ELSE [mark |-> FALSE, rest |-> interrupts, back |-> 0]

(* fuse_ll_process and the call of do_*: no INIT yet; a stranger in an     *)
(* allow_root session; no such operation; or the request is listed and     *)
(* checked against the waiting INTERRUPTs, one of which may go back to the *)
(* kernel with EAGAIN, to be sent again if its request is not answered.    *)
(* The file system behind the table is fs-pkg in libev's loop, and any that*)
(* has every handler in the other two.                                     *)
Refused(r, denied) ==
    IF ~conn.ok THEN "EIO"
    ELSE IF denied /\ op[r] \notin AnyUser THEN "EACCES"
    ELSE IF op[r] \notin DOMAIN fuse_ll_ops THEN "ENOSYS"
    ELSE None

AnyReply(o) == IF o = "LOOKUP" THEN fuse_reply_entry(0, conn.minor) ELSE fuse_ll_ops[o]

fuse_ll_process(w, denied, found) ==
    LET r == job[w][2]
        c == check_interrupt(r)
        err == Refused(r, denied)
    IN  /\ pc[w] = "process" /\ job[w][1] = "req"
        /\ IF err # None
           THEN /\ req' = [req EXCEPT ![r] = [NoReq EXCEPT !.ctr = 1]]
                /\ todo' = [todo EXCEPT ![w] = <<err>>]
                /\ Go(w, "send")
                /\ UNCHANGED <<interrupts, intr, handles>>
           ELSE /\ req' = [req EXCEPT ![r] = [NoReq EXCEPT !.ctr = 1, !.listed = TRUE,
                                                           !.interrupted = c.mark]]
                /\ interrupts' = c.rest
                /\ intr' = IF c.back = 0 THEN intr
                           ELSE [intr EXCEPT ![c.back] =
                                   IF kern[c.back] = "read" THEN "queued" ELSE "done"]
                /\ \E replies \in IF case.loop = "ev" THEN vfs_fuse_ops(op[r], found)
                                               ELSE {<<AnyReply(op[r])>>} :
                       todo' = [todo EXCEPT ![w] = replies]
                /\ handles' = IF case.loop = "ev" /\ op[r] = "OPEN" THEN handles + 1 ELSE handles
                /\ Go(w, IF case.loop = "ev" THEN "send" ELSE "handler")
        /\ UNCHANGED <<kern, op, conn, job, mounted, exited, case, mt, touched>>

(* calloc fails: the message is dropped.                                   *)
ProcessNoMemory(w) ==
    /\ pc[w] = "process" /\ case.faults
    /\ IF job[w][1] = "req"
       THEN kern' = [kern EXCEPT ![job[w][2]] = "dropped"] /\ UNCHANGED intr
       ELSE intr' = [intr EXCEPT ![job[w][2]] = "dropped"] /\ UNCHANGED kern
    /\ Go(w, "back")
    /\ UNCHANGED <<op, lvars, job, todo, mounted, exited, case, mt, handles, touched>>

(* A handler of the file system above the library answers once.  With      *)
(* conf.intr it has itself told of interrupts while the file system works: *)
(* fuse_interrupt is called with the d of the handler's stack and sends a  *)
(* signal every second until d->finished.  A handler calls it itself if    *)
(* the request was interrupted before; then it returns at once.            *)
fuse_req_interrupt_func(r, f) ==
    /\ LockFree(r)
    /\ req' = [req EXCEPT ![r].func = f,
                          ![r].called = IF f THEN @ \/ req[r].interrupted ELSE @]

fuse_do_prepare_interrupt(w) ==
    /\ pc[w] = "handler"
    /\ fuse_req_interrupt_func(job[w][2], TRUE)
    /\ Go(w, "interruptible")
    /\ UNCHANGED <<kvars, interrupts, conn, job, todo, mounted, exited, case, mt, handles, touched>>

(* d->finished is set first; then the function is taken back, which waits  *)
(* for one that runs, and d goes away.                                     *)
\* Mutant: the function is taken back first.
NeverFinished(r) == FALSE
Finished(r) == \E v \in Workers : job[v] = <<"req", r>> /\ pc[v] = "finished"

SetFinished(w) ==
    /\ pc[w] = "interruptible"
    /\ Go(w, "finished")
    /\ UNCHANGED <<kvars, lvars, job, todo, mounted, exited, case, mt, handles, touched>>
fuse_do_finish_interrupt(w) ==
    /\ pc[w] = "finished"
    /\ fuse_req_interrupt_func(job[w][2], FALSE)
    /\ Go(w, "send")
    /\ UNCHANGED <<kvars, interrupts, conn, job, todo, mounted, exited, case, mt, handles, touched>>

(* send_reply_iov: the message goes out, then the request is freed.  A     *)
(* second reply works on a request that is gone: what it sends and whether *)
(* the process survives the second free is chance.                         *)
send_reply_iov(w) ==
    LET r == job[w][2]
    IN  /\ pc[w] \in {"send", "handler"}
        /\ IF req[r].ctr > 0
           THEN Answer(r) /\ UNCHANGED touched
           ELSE UNCHANGED <<kern, intr>> /\ touched' = touched \cup {<<"req", r>>}
        /\ Go(w, "free")
        /\ UNCHANGED <<op, lvars, job, todo, mounted, exited, case, mt, handles>>

ReplyFree(w) ==
    LET r == job[w][2]
    IN  /\ pc[w] = "free"
        /\ IF req[r].ctr > 0 THEN free_req(r) ELSE UNCHANGED req
        /\ todo' = [todo EXCEPT ![w] = Tail(@)]
        /\ IF <<"req", r>> \in touched THEN pc' \in {[pc EXCEPT ![w] = "back"], [pc EXCEPT ![w] = "crash"]}
                            ELSE Go(w, IF Len(todo[w]) > 1 THEN "send" ELSE "back")
        /\ UNCHANGED <<kvars, interrupts, conn, job, mounted, exited, case, mt, handles, touched>>

(* do_interrupt and find_interrupted: the request is found on the list and *)
(* held by its counter while its lock is taken; or the INTERRUPT waits.    *)
\* Mutant: an INTERRUPT whose request is not known is destroyed.
ForgetInterrupt(r) == UNCHANGED interrupts

AwaitRequest(r) ==
    interrupts' = IF r \in ToSet(interrupts) THEN interrupts ELSE Append(interrupts, r)

do_interrupt(w) ==
    LET r == job[w][2]
    IN  /\ pc[w] = "process" /\ job[w][1] = "intr" /\ conn.ok
        /\ IF req[r].listed
           THEN /\ Hold(r)
                /\ Go(w, "found")
                /\ UNCHANGED interrupts
           ELSE /\ AwaitRequest(r)
                /\ Go(w, "back")
                /\ UNCHANGED req
        /\ UNCHANGED <<kvars, conn, job, todo, mounted, exited, case, mt, handles, touched>>

(* An INTERRUPT before INIT is answered like any other request.            *)
InterruptTooEarly(w) ==
    /\ pc[w] = "process" /\ job[w][1] = "intr" /\ ~conn.ok
    /\ intr' = [intr EXCEPT ![job[w][2]] = "done"]
    /\ Go(w, "back")
    /\ UNCHANGED <<kern, op, lvars, job, todo, mounted, exited, case, mt, handles, touched>>

(* Under the lock of the request; the function is called under it too.     *)
FoundLock(w) ==
    LET r == job[w][2]
    IN  /\ pc[w] = "found" /\ LockFree(r)
        /\ req' = [req EXCEPT ![r].lock = IF req[r].func THEN w ELSE None,
                              ![r].interrupted = TRUE, ![r].called = @ \/ req[r].func]
        /\ Go(w, IF req[r].func THEN "calling" ELSE "drop")
        /\ UNCHANGED <<kvars, interrupts, conn, job, todo, mounted, exited, case, mt, handles,
                       touched>>

\* fuse_interrupt returns.
FoundCall(w) ==
    /\ pc[w] = "calling" /\ Finished(job[w][2])
    /\ Unlock(job[w][2])
    /\ Go(w, "drop")
    /\ UNCHANGED <<kvars, interrupts, conn, job, todo, mounted, exited, case, mt, handles,
                   touched>>

FoundDrop(w) ==
    /\ pc[w] = "drop"
    /\ Deref(job[w][2])
    /\ Go(w, "back")
    /\ UNCHANGED <<kvars, interrupts, conn, job, todo, mounted, exited, case, mt, handles,
                   touched>>

----------------------------------------------------------------------------
(* fuse_loop_mt.c.  Between reading and processing a worker takes mt->lock,*)
(* counts itself out (unless it holds a FORGET) and starts another thread  *)
(* when none is left.                                                      *)
IsForget(m) == m[1] = "req" /\ op[m[2]] = "FORGET"

(* fuse_start_thread on m: fails when the process can have no more threads.*)
(* The threads that were cancelled and not joined still count.             *)
fuse_start_thread(m) ==
    LET free == {x \in Workers : pc[x] = "off"}
    IN  IF free = {} THEN [mt |-> m, new |-> None]
        ELSE LET n == CHOOSE x \in free : TRUE
             IN  [mt |-> [m EXCEPT !.list = Append(@, n), !.avail = @ + 1,
                                   !.raced = @ \/ m.main \in {"walk", "walked", "join"}],
                  new |-> n]

CountOut(m) == IF IsForget(m) THEN mt.avail ELSE mt.avail - 1

\* Mutant: the thread is started one too late.
NoneLeftLate(a) == a < 0

NoneLeft(a) == a = 0

fuse_do_work_got(w) ==
    LET a == CountOut(job[w])
        s == IF NoneLeft(a) THEN fuse_start_thread([mt EXCEPT !.avail = a])
                      ELSE [mt |-> [mt EXCEPT !.avail = a], new |-> None]
    IN  /\ case.loop = "mt" /\ pc[w] = "got"
        /\ IF mt.exit
           THEN Go(w, "dead") /\ UNCHANGED <<mt, kvars>>
           ELSE /\ mt' = s.mt
                /\ pc' = [x \in Workers |-> IF x = w THEN "process"
                                            ELSE IF x = s.new THEN "loop" ELSE pc[x]]
                /\ UNCHANGED kvars
        /\ UNCHANGED <<lvars, job, todo, mounted, exited, case, handles, touched>>

(* After it: the worker counts itself back in, and leaves if too many idle.*)
fuse_do_work_back(w) ==
    LET a == IF IsForget(job[w]) THEN mt.avail ELSE mt.avail + 1
    IN  /\ case.loop = "mt" /\ pc[w] = "back"
        /\ job' = [job EXCEPT ![w] = <<>>]
        /\ IF a <= MaxIdle
           THEN mt' = [mt EXCEPT !.avail = a] /\ Go(w, "loop")
           ELSE IF mt.exit
           THEN mt' = [mt EXCEPT !.avail = a] /\ Go(w, "dead")
           ELSE /\ mt' = [mt EXCEPT !.avail = a - 1,
                                    !.list = SelectSeq(@, LAMBDA x : x # w),
                                    !.raced = @ \/ mt.main \in {"walk", "walked"}]
                /\ Go(w, "off")
        /\ UNCHANGED <<kvars, lvars, todo, mounted, exited, case, handles, touched>>

(* A worker that has left its loop posts the semaphore and waits for its   *)
(* cancellation, which also reaches a worker that waits in read.           *)
\* Mutant: sem_post is missing.
NoPost == UNCHANGED mt

Post == mt' = [mt EXCEPT !.finish = @ + 1]

fuse_do_work_left(w) ==
    /\ case.loop = "mt" /\ pc[w] = "left"
    /\ Post
    /\ Go(w, "pause")
    /\ UNCHANGED <<kvars, lvars, job, todo, mounted, exited, case, handles, touched>>

Cancelled(w) ==
    /\ case.loop = "mt" /\ w \in mt.cancelled /\ pc[w] \in {"read", "pause"}
    /\ Go(w, "dead")
    /\ UNCHANGED <<kvars, lvars, job, todo, mounted, exited, case, mt, handles, touched>>

(* fuse_session_loop_mt: wait for the exit, cancel the workers of the list *)
(* one by one without the lock, set mt->exit, join them.                   *)
NextOf(l, w) ==
    LET i == CHOOSE i \in DOMAIN l : l[i] = w
    IN  IF i = Len(l) THEN None ELSE l[i + 1]

MainCheck ==
    /\ mt.main = "check"
    /\ mt' = IF exited THEN [mt EXCEPT !.main = "walk",
                                       !.walk = IF mt.list = <<>> THEN None ELSE Head(mt.list)]
                       ELSE [mt EXCEPT !.main = "sem"]
    /\ UNCHANGED <<kvars, lvars, tvars, mounted, exited, case, handles, touched>>

MainSemWait ==
    /\ mt.main = "sem" /\ mt.finish > 0
    /\ mt' = [mt EXCEPT !.main = "check", !.finish = @ - 1]
    /\ UNCHANGED <<kvars, lvars, tvars, mounted, exited, case, handles, touched>>

(* A worker that freed itself under the walk leaves it on freed memory.    *)
MainCancel ==
    /\ mt.main = "walk" /\ mt.walk # None
    /\ mt' = IF mt.walk \in ToSet(mt.list)
             THEN [mt EXCEPT !.cancelled = @ \cup {mt.walk}, !.walk = NextOf(mt.list, mt.walk)]
             ELSE [mt EXCEPT !.main = "crash"]
    /\ UNCHANGED <<kvars, lvars, tvars, mounted, exited, case, handles, touched>>

MainWalked ==
    /\ mt.main = "walk" /\ mt.walk = None
    /\ mt' = [mt EXCEPT !.main = "walked"]
    /\ UNCHANGED <<kvars, lvars, tvars, mounted, exited, case, handles, touched>>

MainExit ==
    /\ mt.main = "walked"
    /\ mt' = [mt EXCEPT !.main = "join", !.exit = TRUE]
    /\ UNCHANGED <<kvars, lvars, tvars, mounted, exited, case, handles, touched>>

fuse_join_worker ==
    /\ mt.main = "join" /\ mt.list # <<>> /\ pc[Head(mt.list)] = "dead"
    /\ mt' = [mt EXCEPT !.list = Tail(@), !.cancelled = @ \ {Head(mt.list)}]
    /\ Go(Head(mt.list), "off")
    /\ UNCHANGED <<kvars, lvars, job, todo, mounted, exited, case, handles, touched>>

(* The loop returns and resets the session.                                *)
MainReturn ==
    /\ mt.main = "join" /\ mt.list = <<>>
    /\ mt' = [mt EXCEPT !.main = "returned"]
    /\ exited' = FALSE
    /\ UNCHANGED <<kvars, lvars, tvars, mounted, case, handles, touched>>

----------------------------------------------------------------------------
(* fuse_session_loop, and vfs_fuse_read_cb, which is called again whenever *)
(* the device is readable: one message after the other.  The callback      *)
(* resets the session every time, an exit included.                        *)
SingleGot(w) ==
    /\ case.loop # "mt" /\ pc[w] = "got"
    /\ Go(w, "process")
    /\ UNCHANGED <<kvars, lvars, job, todo, mounted, exited, case, mt, handles, touched>>

SingleBack(w) ==
    /\ case.loop # "mt" /\ pc[w] = "back"
    /\ Go(w, "loop")
    /\ job' = [job EXCEPT ![w] = <<>>]
    /\ exited' = IF case.loop = "ev" THEN FALSE ELSE exited
    /\ UNCHANGED <<kvars, lvars, todo, mounted, case, mt, handles, touched>>

SingleLeft(w) ==
    /\ case.loop # "mt" /\ pc[w] = "left"
    /\ Go(w, IF case.loop = "ev" THEN "loop" ELSE "off")
    /\ exited' = FALSE
    /\ UNCHANGED <<kvars, lvars, job, todo, mounted, case, mt, handles, touched>>

(* goodbye calls vfs_fuse_fini, between two events.  fuse_session_destroy  *)
(* frees the channel with the session; then the channel is taken off its   *)
(* session and unmounted once more.                                        *)
vfs_fuse_fini(w) ==
    /\ case.stops /\ case.loop = "ev" /\ pc[w] = "read"
    /\ mounted' = FALSE
    /\ touched' = touched \cup {<<"chan", 0>>}
    /\ Go(w, "off")
    /\ UNCHANGED <<kvars, lvars, job, todo, exited, case, mt, handles>>

Worker(w) ==
    \/ ReceiveNoDevice(w) \/ LoopTest(w)
    \/ \E m \in NextMessages : fuse_kern_chan_receive(w, m)
    \/ \E denied, found \in {FALSE, case.faults} : fuse_ll_process(w, denied, found)
    \/ SetFinished(w) \/ fuse_do_finish_interrupt(w)
    \/ send_reply_iov(w) \/ ReplyFree(w)
    \/ do_interrupt(w) \/ InterruptTooEarly(w) \/ FoundLock(w) \/ FoundCall(w) \/ FoundDrop(w)
    \/ fuse_do_work_got(w) \/ fuse_do_work_back(w) \/ fuse_do_work_left(w) \/ Cancelled(w)
    \/ SingleGot(w) \/ SingleBack(w) \/ SingleLeft(w)

Main == \/ MainCheck \/ MainSemWait \/ MainCancel \/ MainWalked \/ MainExit
        \/ fuse_join_worker \/ MainReturn

Environment ==
    \/ \E arg \in case.init : DoInit(arg)
    \/ \E r \in Reqs, o \in case.ops : KernelSend(r, o)
    \/ \E r \in Reqs : KernelInterrupt(r)
    \/ Unmount
    \/ exit_handler
    \/ \E w \in Workers : \/ fuse_do_prepare_interrupt(w) \/ ProcessNoMemory(w)
                         \/ vfs_fuse_fini(w)

Next == Environment \/ Main \/ \E w \in Workers : Worker(w)

(* The threads are scheduled and handlers end; nobody has to send requests,*)
(* unmount or raise a signal.                                              *)
Spec == Init /\ [][Next]_vars /\ WF_vars(Main) /\ \A w \in Workers : WF_vars(Worker(w))

----------------------------------------------------------------------------
Threads == {w \in Workers : pc[w] # "off"}
Handling(w) == job[w] # <<>> /\ pc[w] \in {"handler", "interruptible", "finished", "send", "free"}
Uses(w, r) == /\ job[w] # <<>> /\ job[w][2] = r
              /\ Handling(w) \/ pc[w] \in {"found", "calling", "drop"}

TypeOK ==
    /\ kern \in [Reqs -> {"idle", "queued", "read", "answered", "dropped", "lost"}]
    /\ op \in [Reqs -> case.ops \cup {None}]
    /\ intr \in [Reqs -> {"no", "queued", "lib", "done", "dropped"}]
    /\ req \in [Reqs -> [ctr : 0 .. 1 + Cardinality(Workers), listed : BOOLEAN,
                         interrupted : BOOLEAN, func : BOOLEAN, called : BOOLEAN,
                         lock : Workers \cup {None}]]
    /\ interrupts \in Seq(Reqs)
    /\ mounted \in BOOLEAN /\ exited \in BOOLEAN
    /\ mt.avail \in 0 .. Cardinality(Workers)
    /\ touched \subseteq {<<"chan", 0>>} \cup ({"req"} \X Reqs)

(* The counter of a request is the number of threads that use it, the one  *)
(* that handles it and those that interrupt it: it is not freed under them *)
(* (free_req against find_interrupted) and freed after the last.  The      *)
(* second reply of vfs_fuse_open is the exception.                         *)
RequestsLive ==
    \A r \in Reqs :
        \/ req[r].ctr = Cardinality({w \in Workers : Uses(w, r)})
        \/ case.loop = "ev" /\ op[r] = "OPEN" /\ req[r].ctr = 0

(* fuse_req_interrupt_func with NULL waits for the function that runs:     *)
(* fuse_interrupt never works on the d of a handler that has gone on.      *)
FunctionInTime ==
    \A w \in Workers : pc[w] = "calling" =>
        \E v \in Workers : job[v] = <<"req", job[w][2]>> /\ pc[v] \in {"interruptible", "finished"}

(* "The request handle is valid until one of the reply functions is called"*)
(* (fuse_lowlevel.h): no handler replies to a request it has answered.     *)
ValidUntilReply == \A r \in Reqs : <<"req", r>> \notin touched

(* An INTERRUPT the library has taken is not lost: until the request is    *)
(* answered a thread works on it, it waits in f->interrupts, or the request*)
(* is marked, and a handler that asked to be told has been told.           *)
InterruptKept ==
    \A r \in Reqs :
        kern[r] = "read" /\ intr[r] = "lib" =>
            \/ \E w \in Workers : job[w] = <<"intr", r>> /\ pc[w] # "dead"
            \/ r \in ToSet(interrupts)
            \/ req[r].interrupted /\ (req[r].func => req[r].called)
            \/ mt.exit

(* While the session goes on some worker reads, or will without waiting    *)
(* for a file system operation to end, unless the threads are used up:     *)
(* numavail counts exactly the workers that read or hold a FORGET.         *)
SomeoneReads ==
    case.loop = "mt" /\ ~exited /\ mt.main # "returned" =>
        /\ mt.avail = Cardinality({w \in Threads :
               pc[w] \in {"loop", "read", "got", "left", "pause"} \/ (job[w] # <<>> /\ IsForget(job[w]))})
        /\ mt.avail > 0 \/ Threads = Workers

(* Every request that was read is answered, unless there was no memory for *)
(* it or the session ended.                                                *)
Answered ==
    \A r \in Reqs : kern[r] = "read" ~>
        kern[r] \in {"answered", "dropped"} \/ mt.main = "returned" \/ mt.exit
        \/ \E w \in Workers : pc[w] = "crash"

(* Once the session has exited or the file system is unmounted, the loop   *)
(* of worker threads returns, unless the list of workers changed while the *)
(* loop went through it without its lock.  The one exception is an exit by *)
(* a signal that was lost between the test and sem_wait: the loop then     *)
(* sleeps for as long as no worker reads anything more.                    *)
LoopReturns ==
    case.loop = "mt" /\ (exited \/ ~mounted) ~>
        \/ mt.main = "returned"
        \/ mt.raced
        \/ [](mounted /\ exited /\ mt.main = "sem" /\ mt.finish = 0)
=============================================================================
