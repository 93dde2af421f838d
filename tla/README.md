# A TLA+ verification of fs-pkg

fs-pkg is a daemon that keeps a database of the xar packages lying in a
directory, so that their contents can be served as one file system. This
directory holds TLA+ models of its own code and of the three libraries in its
source tree that it runs on (libev, libfuse and libxar), TLC configurations that
check the models on small instances, and proofs checked by TLAPS. `PROJECT.json` lists
the runs, the source lines behind every definition, the hazards, the findings
and the theorems.

## The system

The daemon is one process with one thread: `main` initialises the parts in a
fixed order, scans the package directory, and then runs the libev event loop.
Everything after that happens in callbacks: the inotify descriptor is readable,
or a periodic timer fires.

| Part | Source | State | Operations | Talks to |
|---|---|---|---|---|
| Startup | `main.c`, `signal_handler.c`, `evt.c` | `conf.dying`, the event loop | `main`, `goodbye`, `evt_timer_add_periodic` | everything |
| Block allocator | `balloc.c` | heaps, blocks, free and used lists, two counters | create, alloc, free, garbage collect, destroy | list (blocks), OS (mmap) |
| List | `dlink.c`, `dlink.h` | `next`/`prev` of nodes, `head`, `tail`, `length` of lists | add, add_before, add_tail, delete, find_delete, move, the loops | allocator (nodes) |
| Package cache | `pkg.c`, `pkg.h` | `pkg_list` of handles: name, fd, refcnt, otime | open, close, release, gc, import, forget | database, TOC reader, list, allocator |
| TOC reader | `pkg_toc.c` | none of its own | `pkg_toc_process`, `pkg_toc_extract` | libxar, database |
| Database | `db_sqlite.c` | tables `packages`, `files`; `db_mutex`; the open transaction | begin, commit, rollback, `db_pkg_add`, `db_pkg_remove`, `db_query` | sqlite |
| Watcher | `vfs_inotify.c` | `vfs_watch_list`, the inotify descriptor | watch init/add/remove, `vfs_inotify_evt_get` | package cache |
| Scanner | `vfs.c` | recursion depth | `vfs_dir_walk`, `vfs_dir_walk_recurse` | package cache |
| FUSE front end | `vfs_fuse.c`, `vfs_pkg.h`, `vfs_spill.h` | file handles | the low-level FUSE operations | database, libfuse |
| Preload front end | `libfspkg.c` | resolved symbols | pass-through of libc calls | libc |
| Configuration | `conf.c`, `dictionary.c` | a dictionary of strings | parse, get, set, unset | every part |
| Utilities | `str.c`, `timestr.c`, `support.c`, `atomicio.c`, `logger.c`, `thread_pool.c`, `pkg_map.c`, `inode.c` | little | string, time, I/O helpers | every part |
| Event loop | `ev*.c` | watchers in lists, heaps and arrays, queues of due events, the backends' tables | start and stop of each kind of watcher, `ev_loop`, signals, asyncs, forks | every part, the kernel |
| FUSE session | `fuse/fuse_lowlevel.c`, `fuse_session.c`, `fuse_kern_chan.c`, `fuse_loop*.c`, `fuse_signals.c` | requests with reference counts, kept interrupts, worker threads | receive, process, reply, interrupt, the loops | front end, the kernel |
| FUSE path library | `fuse/fuse.c` | node table, tree locks, queue of waiting threads, open and hidden files | the `fuse_lib_*` handlers | session, a file system |
| Archive library | `xar/` | file tree, properties, heap, options, hash tables | add, close, open, walk, extract, verify, sign | TOC reader, OS |

What is hard in it, and what makes each part correct:

- **Directory and database.** Users change the directory at any moment between
  two steps of the daemon: between the watch and the scan, between opening an
  archive and the `stat` that gives its row a version, between two events of
  one buffer. Events arrive late, merged, or not at all when the queue
  overflows. sqlite may refuse a statement and nobody looks at the result. The
  process may die anywhere. *Correct* means: whenever directory and database
  differ, the daemon is still going to look; a package has one row; an upgrade
  is never half visible; the thread always comes back to its loop.
- **Handle cache.** Reference counts, a clock and a collector on a timer.
  *Correct*: nobody loses a handle in use, a package has one handle, an unused
  one is released in the end.
- **Allocator.** Counters kept apart from the lists they count, blocks that are
  unmapped by comparing two numbers, addresses that come back. *Correct*: an
  element has one holder, the counters are right, idle blocks are returned.
- **Lists.** Nodes keep stale pointers when they are taken off a list, and
  loops delete under their own feet. *Correct*: every list is a sequence.
- **Configuration.** A dictionary with holes, collisions and growth, filled
  line by line under a comment flag. *Correct*: it is a map, and it holds what
  the file says.

- **Event loop.** Callbacks stop, restart and free watchers whose events are
  already queued; signals and other threads write flags and a pipe while the
  loop clears them; descriptors are closed and reopened under the kernel; the
  clock jumps. *Correct*: what is kept twice agrees, a stopped watcher is never
  reached, what is due is delivered.
- **FUSE session.** Several threads read from one device; an interrupt may
  overtake its request or come after the answer; workers come and go. *Correct*:
  a request lives exactly as long as somebody uses it, no interrupt is lost,
  somebody reads, every request is answered, the loop returns.
- **FUSE path library.** Paths are valid only while nobody renames above them;
  files are unlinked while open; the kernel forgets nodes while threads work on
  them. *Correct*: the path given to the file system stays the path, the counts
  are what the kernel holds, hidden files go, nobody waits for ever.
- **Archive library.** Offsets, lengths, checksums and shared data are kept in
  different places and written by different modules. *Correct*: what was added
  comes out, or an error does.

The build modelled of the daemon's own code is the default one (`mk/`): libxar
for the TOC, no libxml2, the preload library. FUSE is off by default; its front
end is modelled as it is compiled when it is on.

## Modules

| Module | Models | Composed of |
|---|---|---|
| `ElementPool` | what the allocator promises (abstract) | |
| `BlockHeap` | one heap of `balloc.c` | implements `ElementPool` |
| `NodeLists` | lists as sequences (abstract) | |
| `Dlink` | `dlink.c` on pointers | implements `NodeLists` |
| `ActivePackages` | what the cache promises (abstract) | |
| `PkgCache` | `pkg_open`, `pkg_close`, `pkg_release`, `pkg_gc` | implements `ActivePackages` |
| `PkgDb` | the table, the transaction and the mutex of `db_sqlite.c` | |
| `FsPkg` | startup, scan, watcher, import and forget | `PkgDb`; the cache as `ActivePackages` sees it |
| `StringMap` | what a dictionary promises (abstract) | |
| `Dictionary` | `dictionary.c` | implements `StringMap` |
| `Conf` | `conf.c` | `Dictionary` |
| `FuseOps` | the operation table of the low level library and the handlers of `vfs_fuse.c`, `vfs_pkg.h`, `vfs_spill.h` | |
| `FuseSession` | requests, interrupts, replies, the three loops | `FuseOps` |
| `FuseLib` | the handlers of `fuse/fuse.c` as tables | |
| `FuseLocks` | the lists of POSIX locks of `fuse/fuse.c` | |
| `FuseTree` | node table, tree lock and handlers of `fuse/fuse.c` | `FuseLib`, `FuseLocks` |
| `EvHeap` | the heaps of timers and periodics | |
| `EvWatch` | start and stop of every kind of watcher | `EvHeap` |
| `EvBackend` | select, poll, epoll, kqueue, ports | `EvWatch` |
| `EvLoop` | `ev_loop`, signals, asyncs, children, forks, clocks | `EvBackend` |
| `XarTree` | attributes, properties, files, the XML of the table of contents | |
| `XarHeap` | copying into and out of the heap, checksums, compressors | `XarTree` |
| `XarArcmod` | what `lstat` says of a file, its data, owner and mode | `XarHeap` |
| `XarArchive` | `archive.c` and `signature.c` as a program calls them | `XarArcmod` |
| `MC*` | instances for TLC | |
| `*Proofs` | theorems about the module they are named after | |

### BlockHeap

A block is an address the OS may hand out and take back; an element is a block
and an index. `chain` is the heap's list of blocks, `freeElts` and `usedElts`
their lists, `blocksAllocated` and `freeElems` the counters. Actions: `Create`,
`CreateFails`, `Alloc`, `AllocGrow` (a new block is mapped), `AllocFails` (the
OS refuses; `conf.dying`), `Free`, `GarbageCollect`, `Destroy`. That the
fallback to garbage collection inside `blockheap_alloc` can never help is part
of `AllocFails`: it is reached only when no element is free.

### Dlink

The state is the pointers: `next` and `prev` of every node, `head`, `tail` and
`length` of every list. The operators `Pushed`, `PushedTail`, `Inserted`,
`Unlinked` are the pointer assignments of the functions in their order; an
unlinked node keeps its old pointers. `LoopStart`, `LoopKeep`, `LoopDestroy`,
`LoopEnd` are `DLINK_FOREACH_SAFE` with a body that deletes and clears the node
it stands at. Two histories: `on`, the list a node is on (what callers must
respect: they add only nodes that are on no list), and the loop's record of the
nodes it was due to visit and has seen.

### PkgCache

A handle is an element of `pkg_heap`, `otime` an age in ticks that saturates
just above `pkg_lifetime / 2`. `pkg_open` finds a handle (`OpenCached`) or goes
through the steps of the code: `OpenNew` takes a heap element, `OpenFile` opens
the file, `LockFile` locks it and puts the handle on the list. A file that
cannot be opened or locked (`LockFails`: another process has the lock) leads to
`OpenFails`, the `pkg_release` of the half-made handle, which closes the
descriptor it has; its heap element stays taken for ever, as in the code. `Gc`
is one pass of `pkg_gc`, `pkg_release` of every expired handle included. `fds`
and `lock` are what the process holds of the operating system, apart from the
list. Nothing in the repository calls `pkg_open` yet; the model's clients close
what they opened, once.

### PkgDb and FsPkg

One watched directory without subdirectories. A file is its modification time
and whether libxar can open it. The thread's place is `pc`: dead, at
`vfs_watch_init`, at `opendir`, in the scan, in the event loop, in a batch of
events, at one of the points of an import (before the archive is opened, before
the `stat`, with the old rows deleted or `kept` because the DELETE was refused,
before COMMIT), or spinning. Users act between any two steps. `Post` is the kernel's queue: it merges an event with an equal one at its
end, and drops events when full, leaving one overflow event.

A name that is no package is one of three: hidden, with a foreign extension, or
without a dot. The code treats each differently, in the scan and in the event
handler: a hidden name is passed over by the scan and loops for ever in the
handler; a foreign extension ends both; a name without a dot passes NULL to
`strncmp`.

The database keeps what other connections see (`saved`) apart from what the
daemon sees (`packages`) while a transaction is open, and likewise whether the
table exists (`table`, `savedTable`), which `db_sqlite_initialize` drops and
creates inside a transaction. sqlite is external and modelled by what `db_query`
makes of it: a refused statement did nothing, or sqlite took the whole
transaction back with it (full disk, I/O error), and nobody knows. COMMIT
refused because somebody reads the file leaves the transaction open over
whatever comes next.

With `Faults` every call the daemon makes may fail, and it does what the code
does then: `sqlite3_open` (the process ends), any statement of the
initialisation, BEGIN, DELETE, INSERT, COMMIT and ROLLBACK (ignored),
`inotify_init` and `inotify_add_watch` (`watch` stays FALSE: the daemon goes on
and hears of nothing), `opendir` (`OpenDirFails`: nothing is scanned), `readdir`
(`WalkStops`), `stat`.

Two history variables. `lost` has the packages of which a change was lost in one
of the ways the code admits, and that were not imported since: `Tracked` lists
the ways and says that there is no other. `refused` has the packages of whose
import sqlite refused a statement: `OneRow`, `TransactionHeld` and
`UpgradeAtomic` except them, because the code then really leaves two rows (the
INSERT follows the refused DELETE), works without a transaction (a refused
BEGIN) or shows the package missing (a refused INSERT, then COMMIT). One more
consequence is in the model: a COMMIT of the initialisation that is refused as
busy leaves everything in its transaction, and the ROLLBACK of the first package
that cannot be read takes the tables back too; from then on every statement is
refused.

### Dictionary and Conf

Three arrays with holes, searched from the front, doubled when full. The hash
is any function of the key. `Conf` reads a file whose lines are told apart by
what `dconf_init` does with them. A line without `=` kills the process
(`str_unquote(NULL)`), and so does a missing file.

### FuseOps and FuseSession

A step of a thread is what it does under one lock, or between two. A request is
its number; its INTERRUPT message is named by the request. Each thread has a
place (`pc`), the message it works on and the replies it still has to send; a
handler of the file system ends in any of the replies its table allows, those of
fs-pkg in the ones its code sends. `mt` is `struct fuse_mt` with the thread in
`fuse_session_loop_mt`. A message is received, processed, answered and freed in
separate steps, `find_interrupted` is split where it lets go of `f->lock`. A
handler of `fuse.c` mounted with `intr` registers `fuse_interrupt`, which signals
the thread until the handler has set `d->finished`, before it takes the function
back. The kernel may send, interrupt and unmount at any time. A signal sets
`exited` at any place of any thread; it ends `sem_wait` or `read` with EINTR if
the thread is inside, and is lost if it comes after the loop's test of `exited`
(`LoopTest`) and before the call. `LoopReturns` therefore promises the end only
if a message or an unmount still comes, and excepts the state in which the file
system stays mounted, the session has exited and main sleeps in `sem_wait`
without a post: the lost signal of `fuse_loop_mt.c:219`. `RequestsLive`
excepts the second reply of `vfs_fuse_open`, which is what `vfs_fuse_open` (the
run) shows.

### FuseLib, FuseLocks and FuseTree

`nodes` is the node table (the two hash tables are its `parent` and `name`
fields), `lockq` the queue of threads that wait for a path, `klook` and `kopen`
what the kernel holds. Everything under `f->lock` is one step; the calls of the
file system lie between steps, and only their results matter. `FuseLib` gives a
handler one of a dozen shapes, since most of the `fuse_lib_*` functions differ
only in the call between `get_path` and `free_path`. Node ids are taken modulo
`IdSpace`, so that they are used again. The kernel sends only requests that its
own locks allow, and may give up a request that is being worked on.

`FuseLocks` is the list of POSIX locks of a node: `locks_insert` goes through
the list once, `Visit` being one turn of its loop. `fslocks` is what the file system has locked, byte by byte;
`setlk` changes it first and the list in a later step, for which memory may be
lacking; `flush` takes the owner off the list also when the file system refuses
to unlock (`fuse.c:3071`). `unlisted` has the owners of whom list and file system
differ for one of these reasons. `LocksAgree` compares the two for every other
owner without a request under way. A case that has locks has a file open from the start and
none of the requests that make, move or remove nodes (`NameShapes`), so that the
node with the list stays; the assumption of the module says so.

### EvHeap, EvWatch, EvBackend and EvLoop

A loop is a record `L` and the functions of `ev.c` are operators from loop to
loop, so that a callback, which may call any of them, is one step. The loop's
own steps end wherever somebody else can be noticed: before a callback, around
the wait, and five times inside `pipecb`, between the tests and the clearing of
`gotsig`, `gotasync` and the flags. The thread in `ev_async_send`
goes through `evpipe_write` in three steps; the signal handler, which nothing
of the loop's own thread interrupts, is one. The kernel's tables
(epoll's registrations by descriptor and file) are in `L.reg`. Times are half
seconds; what happens outside is limited by a budget per case. `wait` is the
wait of this turn: how long it was asked to be (`waittime + sleeptime`, which
`time_update` takes as `max_block`) and when it ends by the clock. Without a
monotonic clock the timers go by the wall clock: a watcher is `Due` by the clock
that its kind uses, and a jump that is longer than `max_block` moves the relative
timers along once.

### XarTree, XarHeap, XarArcmod and XarArchive

The state is what a program holds: the open archive `x` with its tree, hash
tables and heap, the archive file `img`, and the file system extracted to. A
file's data is a sequence of units that go through the modules in blocks of
`rsize`; a digest is an injective function of units, a compressor changes each
unit and adds one at the end. Numbers are written as text and read back. The
archive file may be damaged in its table of contents, its heap or its header
between writer and reader. What the operating system may refuse:

- while adding: reading the source, writing the heap, reading the archive that
  is copied from, a short write of the copy;
- while closing (`xar_close`, `fault`): a temporary file, a write of the table of
  contents, a signer, a write of the heap (-1 is returned); the writes of header,
  digest and signatures (nobody looks); a short write of the heap;
- while extracting (`io`): reading the archive, making the file, writing it. The
  file is `torn` when something of it is missing.

A call that follows a bad pointer sets `x.segv` and ends the behaviour.
`RoundTrip` says that on an archive written without an error and not damaged this happens in two calls only,
`KnownCrash`: `xar_verify` of a file without data, and an
`xar_extract_tobuffersz` that fails.

## Runs

| Run | Instance | Shows |
|---|---|---|
| `block_heap` | 3 clients, 3 blocks, up to 2 elements each | counters, lists and holders agree; refusals do no harm; the heap implements `ElementPool`; idle blocks are returned |
| `dlink` | 4 nodes, 2 lists, 2 data | links, loops that destroy; the pointers implement sequences |
| `pkg_cache` | 2 clients, 2 packages, 4 handles, half life 1 | counts exact, no handle lost in use, one handle per package and nothing left of a failed open, unused ones released, `ActivePackages` implemented |
| `fspkg_names` | 1 package in 2 versions, all three other names, queue of 2, readers of the database, every call may fail | all safety properties and both liveness properties of `FsPkg`, through overflows, refused statements, failing system calls and restarts (1.5 million states, under 3 minutes) |
| `fspkg_hidden` | hidden names | violation: the handler never ends |
| `conf` | 3 keys (2 with one hash), 2 values, initial size 2, every file of up to 4 lines | the dictionary implements `StringMap` through collisions, holes and one growth; the file's last uncommented word counts |
| `fuse_session` | 2 requests, 3 workers, `MaxIdle` 1; worker threads with interrupts or with a session that is stopped, one thread and the libev callback with everything | counters, interrupts and workers are right, requests are answered, the loop returns |
| `vfs_fuse_open` | same | violation: a request is used after its reply |
| `fuse_tree` | 3 threads, 2 names, `IdSpace` 7, six trees with the requests that matter in them, every range of 4 offsets locked by one owner, some by two | no abort, stable paths, exact counts, hidden files removed, lists of locks right, ids not confused, requests answered |
| `fuse_forget` | an open that waits is given up and its file forgotten | violation: `get_node` aborts |
| `ev_loop` | 19 programs of 2 to 7 watchers: descriptors on each backend, timers in both heaps, jumping clocks, signals and asyncs, children, the loop's own hooks, `ev_once` | the structures agree, stopped watchers are silent, no event of another file, what is due is delivered |
| `xar` | 33 programs that build, copy, sign, close, damage, walk and read archives of up to 8 files, some of them with a call of the system that fails | what was added comes back, nothing but the known calls crashes, the walk is complete, damage and errors are found |

Why the bounds are enough to be interesting: two blocks are needed to grow and
three to collect one of several; four nodes give a list with inner nodes on
both sides of the one that moves; with four handles two can be lost to failed
opens while two packages are open; a queue of two overflows and gives batches of three (the
overflow event is queued on top), in which one event undoes the other; three
keys on two slots force a growth with holes in front. What the bounds leave
open the theorems close, for the properties they cover. Only `MaxQueue`,
`MaxNoise` (events about other names that wait at a time), `MaxElems`, `MaxLines`, `MinSize`, `HalfLife` and the sets themselves are
bounds of the daemon's own parts; no counter of the code is cut off (ages
saturate where the code stops telling them apart). A damaged package
(`Damaged`) is covered by the proofs only. Symmetry is used in `dlink`.

The libraries have larger states, so their modules take *cases*: small programs
or trees, each aimed at one way the parts interact, with every interleaving of
what happens in them. `FuseSession`: `MaxReq` requests, `Workers` threads (a
request that finds no thread left waits), `MaxIdle` 1 instead of 10, so that
workers leave. `FuseTree`: per case `max` requests, `kill` of them given up,
`two` of the kind that locks two paths; `IdSpace` 7 instead of 2^32, so that ids
wrap while nodes are alive. `EvLoop`: per case a budget of signals, child
exits, readiness, ticks, clock jumps and acts of callbacks; seven timers are
enough for three levels of a binary heap and two of a 4-ary one; `HashSize` 2
puts children on one chain. `XarArchive`: `uses` reads of an archive, `streams`
open at a time, digests of one and two units, blocks of one to three units,
numbers up to `MaxNumber` (40). Of bzip2 and lzma one is compiled in
(`Libraries`), so that both outcomes of `#ifdef` occur.

Deadlock is not checked where the system may stop: `block_heap` (a destroyed
heap), `conf` (a finished process), the FUSE runs (all requests sent), `ev_loop`
(the loop returned) and `xar` (the program ended).

### Fairness

- `FsPkg`: weak fairness of the daemon's own steps. The thread is runnable
  whenever it is not blocked in the loop's poll, and libev polls the inotify
  descriptor level-triggered, so a non-empty queue wakes it. Users, the killer
  and whoever restarts the daemon owe nothing. No single branch is fair: the
  disjunction of all of them is.
- `PkgCache`: weak fairness of the clock and of the steps of an open under way;
  strong fairness of `Gc`, which `pkg_init` puts on a periodic timer: the timer
  fires whenever the thread is back in the loop, and opens by clients may come in
  between any number of times.
- `BlockHeap`: weak fairness of `GarbageCollect`, on the timer of
  `blockheap_init`.

- `FuseSession`: weak fairness of every worker and of the main thread: threads
  are scheduled, and the handlers of the file system end. The kernel, the
  unmount and the signal are not fair.
- `FuseTree`: each thread that is able to move moves; a thread that waits for a
  path is able to when it was woken. Calls of the file system end.
- `EvLoop`: the loop runs when it is able to, a thread inside `evpipe_write`
  goes on, and time passes while the budget lasts. Nothing outside is fair.
- `XarArchive` states no liveness: a program may stop between any two calls.

### Findings

Three violation runs, quoted in `PROJECT.json`: a hidden name hangs the daemon
(`vfs_inotify.c:68`); `vfs_fuse_open` replies to a request it has answered
(`vfs_pkg.h:99`); a FORGET deletes the node of an open that waits for its path,
and `get_node` aborts (`fuse/fuse.c:789`).

In the models, and contrary to a comment in the code, with no run of their own:
garbage collection removes the root block when two blocks are idle
(`balloc.c:354`, against the comment at 341); `blockheap_create` returns the heap
it has freed when its first block is refused (`balloc.c:217`, comment at 175);
the grace period of a cached package is counted from the last open and not from
the close (`pkg.c:124`, comment at 182); a foreign name drops the events behind
it (`vfs_inotify.c:89`, "Skip over non-packages" at 85); the "mandatory" lock is
advisory and a package with a handle does change (`pkg.c:158`, comment at 199).

In the models of the libraries, outside of what the passing runs ask for:
`fuse/fuse.c` leaks a ticket when a path turns out to have no root, and deadlocks
two requests that lock two paths each (its own FIXME at 704), so the cases of
`fuse_tree` have one such request at a time; two lock requests of one owner may
enter the list in the other order than the file system (`fuse.c:3182`), so there
is one of them at a time too; undoing an interrupted create
removes whatever has the path by then; a flush that the file system refuses takes
the locks off the list all the same. `fuse_loop_mt.c:222` walks the workers
without their lock (`LoopReturns` excepts a list that changed under the walk).

The archive library, where the properties of the `xar` run name the exceptions:

- `xar_verify` of an empty file, a link, a fifo or a device crashes:
  `xar_data_verify` passes on a null property (`xar/data.c:273`, `io.c:406`). The
  comment at `archive.c:1305` says that verification passes when there is no
  checksum;
- a failing `xar_extract_tobuffersz` frees the caller's variable and not the
  buffer (`archive.c:1237`);
- a failing write of an extracted file is reported by `xar_data_write` and dropped
  at `io.c:477`: on a full disk `xar_extract` returns 0 and content is missing.
  `ExtractSound` excepts exactly these files; a hard link to one of them, or to
  one whose extraction failed, is made with success too;
- `xar_close` does not look at its writes of the header, the digest and the
  signatures and returns 0; after a short write of the heap it writes as many
  bytes again, past the end of its buffer (`archive.c:600`); it crashes when a
  temporary file cannot be made (`archive.c:407`: what `read` did not return is
  taken for a length). `RoundTrip` asks for nothing of an archive whose closing
  met an error; `ExtractSound` asks that reading it tells;
- an `xar_add_from_archive` that fails frees the new file and leaves it in the
  list (`archive.c:1163`): closing then walks freed memory, and no property looks
  past that. Copying between archives ignores short and failing writes
  (`io.c:556`).

A package whose data was cut off entirely is extracted and verified with success,
for no digest is computed (`xar/hash.c:223`; `ExtractSound` asks for something to
have been read). `xar_attr_pset` never compares the last attribute, so a third
equal file under LINKSAME makes the table of contents unreadable; a failed
addition leaves freed files in `ino_hash` and, from a buffer, in the list of
files; `xar_opt_unset` of the newest option follows a null pointer; a
TOCCKSUM set after the first file lets files overlap in the heap. The programs of
the `xar` run stay away from these.

Seen while reading, with no run of their own: setting a key to NULL is said to
be equivalent to deleting it (`dictionary.c:198`), but the key stays, counts,
and hides the caller's default; `blockheap_init` reads its timer before
`dconf_init`, so `tuning.timer.blockheap_gc` is never honoured;
`dconf_get_str` without a dictionary returns NULL and not the default; a `/*`
comment closed on its own line stays open. Every failed `pkg_open` keeps a heap
element (`pkg.c:151`) and every import a descriptor (`pkg_toc.c:199`); every
FUSE open keeps a handle (`vfs_pkg.h:69`), and `vfs_fuse_getattr` reads an
uninitialised inode number (`vfs_pkg.h:34`); `vfs_fuse_fini` uses the channel
that `fuse_session_destroy` has freed (`vfs_fuse.c:82`), and the libev callback
is called for ever after an unmount (`vfs_fuse.c:74`); the scan's depth counts
siblings (`vfs.c:45`); a failing `mem_double` leaves the dictionary with a NULL
array (`dictionary.c:254`).

## Proofs

All theorems hold for every value of the constants under the assumptions the
modules name (finite sets of clients, distinct null values, bounds that are
naturals). Invariance is proved in the usual three steps from an inductive
invariant; the temporal step is by PTL.

- `BlockHeapProofs`: types, `CountersAgree`, `ElementsAccounted`, `Exclusive`,
  `DyingOnlyIfRefused`, and that the heap implements `ElementPool`. The
  invariant adds what a heap that does not exist looks like and that the block
  list is finite; the key lemma is that a block whose free list is as long as
  it has elements has all of them on it, so that comparing two numbers is
  enough to unmap it.
- `DlinkProofs`: types, `WellLinked`, `LengthExact`, `LoopComplete`, and that
  the pointers implement the sequences of `NodeLists`. The invariant adds that
  the links have no cycle, stated as a numbering of the nodes along which `next`
  goes up, because the loop that destroys nodes needs its saved `n` to be a
  different node. `LoopComplete` adds that what the loop has not seen yet is
  what lies behind it (`LoopRest`). For `ListSpec` a sequence that follows the
  links from the head to the tail (`Spelled`, `InOrder`) is shown to exist and
  to be the only one, and every operation to change it as its name says.
- `PkgCacheProofs`: types, `RefcntExact`, `HeldIsLive`, `OneHandlePerPackage`,
  and that the cache implements `ActivePackages`. The invariant ties the list
  and the lock table to each other in both directions, says that the open
  descriptors are those of the list and of the open under way, which is on no
  list and nobody's; a handle with count zero has no holder, so the collector
  takes nothing from anybody.
- `FsPkgProofs`: types, `Tracked`, `OneRow`, `TransactionHeld`,
  `UpgradeAtomic`, with every failure of `Faults` allowed or not. `Tracked` is not inductive: that an event waits says nothing
  of what it will do. The invariant adds what the waiting events promise: for a
  package on disk no forget is the last word (`ForgetsFollowed`); a row of a
  package that is gone has a forget waiting (`GoneForgotten`); and when nothing
  waits and nothing was lost the row is right (`QuietAgrees`). An unwatched
  daemon, a failed `opendir` and a refused statement are no exceptions to it that
  the proof assumes away: each puts into `lost` what it may make wrong, and the
  proof shows that this is enough. It also says what the thread's place
  implies (`Control`) and that the saved rows are unique too, since a rollback
  brings them back.
- `ConfProofs`: types, `CountExact`, `KeyOnce`, `Loaded`, and that the
  dictionary implements `StringMap`. That `n` counts the occupied slots is what
  guarantees a free slot after growth; that a key is stored once and under its
  hash is what makes the search find it. For the file, `in_comment` has to mean
  that the line is inside a block comment.
- `FuseSessionProofs`: `RequestsLive`, `FunctionInTime`, `InterruptKept`,
  `SomeoneReads`, and that only `vfs_fuse_open` answers twice; for any number of
  requests and threads (a finite set of them, not empty), `MaxIdle` at least 1,
  and each of the three loops. None of the four is inductive alone. The
  invariant says where a thread can be with which message (`Places`), that a
  request has one handler (`OneHandler`), that nobody knows a request before
  `fuse_ll_process` (`Fresh`), what a request's fields say of the place of its
  handler (`Fields`), who holds its lock (`Locked`), that a request the kernel
  waits for has a handler that has not replied (`ReadHeld`), where an interrupt
  that was taken is (`Kept`), and that nobody leaves before the session exits
  (`Running`). The reference counter is then the number of threads in certain
  places, and each step moves one thread.
- `FuseLocksProofs`: `InsertExact`, that `locks_insert` gives the bytes of the
  new lock its type, or none, and leaves all other bytes what they had, for any
  ordered list, and that the list stays ordered. The loop invariant (`Walked`)
  says that what lies behind `lp` and the lock as far as it has grown cover what
  they should of the locks seen so far, and that everything behind `lp` of the
  same owner ends before the lock. The proof is by induction on the turns of the
  loop. It showed that two arms of the model's `OtherType` overlapped where the
  code tests them in order; the model now tests them in order too.
  The module also proves `LocksAgree`, for any number of threads, owners, offsets
  and requests. It is not inductive: between the call of the file system and the
  insertion, list and file system differ. The invariant (`LInv`) says by how
  much: the file system has what the list will have once the pending lock is
  inserted (`Agree`), which `InsertExact` then makes true; an owner whose
  insertion failed, or whose locks the file system would not give up, stays out
  until an unlock of the whole file, which needs no memory, and leaves the file
  system nothing of his. It needs that an owner has one request under way
  (the bound of `KernelSend`; with two the property is false), that a request
  about locks is given up by nobody, and which requests can be at which place
  (`Stage`). The list is that of the file open at the start; `TreeAssumption`
  keeps requests about names out of such cases.
- `FuseTreeProofs`: `EntryOnce`, that no id is given out twice with one
  generation, and `RefsCounted`, that `refctr` is the number of children and one
  more while there are lookups, and `nlookup` what the kernel holds and the
  requests carry. Both are proved for any number of threads, ids and requests,
  any tree to begin with, any order of forgets and requests given up, the
  executions that end in `abort()` included. The invariant (`RInv`) holds the
  counts (`RefOK`, `FlightsOK`), that a request carries lookups only at the places
  where the code has taken them (`RStage`), that no two nodes have one parent
  and name, that an id nobody refers to has neither, and that there is always a
  free id (`RoomFor`:
  live nodes and busy threads are fewer than ids), without which `next_id` would
  turn for ever. The ids given out in the current generation are at most the
  counter; that is what makes a second use of an id a use in another generation.
  The hard steps are `rename_node` and `forget_node`, where `unhash_name` may
  delete the parent and the parent may be the node of another request. The
  proof made the model state more aborts than before: `hash_name` and the
  assertions of `delete_node` under `remove_node` and `rename_node`.

  Then `NoAbort`, `PathStable` and `CountsExact`, for every case in which no
  request is given up while it waits for its path (`~case.queued`): the
  condition is what `fuse_forget` shows to be needed, and there is no other;
  requests that have their path may be given up, directories may go away with
  entries in them, any number of renames may run at once. None of the three is
  inductive. The invariant (`QInv`) is that of the tree lock and of what
  keeps the threads out of each other's way:

  - no directory lies below itself (`Acyclic`), so that the way up ends (`UpChain`);
  - the treelock of a node is -1 if one locked path has it for its wnode, and is
    on no path then, and otherwise the number of locked paths it is on; every
    locked path ends at the root (`LockOK`). This is what `unlock_path` asserts;
  - the path that a thread has is that of its node (`Paths`);
  - what each request may count on: the kernel knows its arguments while it is
    served; an entry is where it was found; what unlink, rmdir or rename takes
    away is still there, known, and locked by that request (`Solos`);
  - what a rename replaces is locked by it, or came after the request and is
    used by nobody (`Targets`): the code locks nothing in that case;
  - requests that are served change different directories (`Apart`, from the
    mutexes of the kernel);
  - the opens of a node are those of the kernel and of the threads (`Opens`).

  A step of one thread is split into its effect on the others (`QFrame`) and on
  itself (`OwnPart`). Steps that move no node are short. Those that do (`QNames`,
  `QForgetLast`, `QFindNew`) have to show that no moved node is on a locked path.
  For rename that is where the tree lock is needed: the source is locked for
  writing, so it is on no path, the path of the new directory included, and the
  move makes no circle. For the last forget it is the test of `treelock` in
  `forget_node`.

Induction is done by sets: the numbers for which a statement holds contain 0
and with each number the next (`SetInduction`, from the well-foundedness of
finite sets under inclusion), so that no theorem with an operator as parameter
is needed. What it takes to prove a recursive definition is that the definition
is a function (`WalkExists`), not a RECURSIVE operator.

Proved and no longer asked of TLC, since other properties of the same run imply
them or catch the same mistakes: the type invariants, `Exclusive`,
`DyingOnlyIfRefused`, `CountExact` and `KeyOnce`.

Only model-checked:

- liveness (`ReturnsToLoop`, `Settles`, `UnusedReleased`, `IdleBlocksReturned`,
  `Answered`, `LoopReturns`, `Delivered`), which is beyond the prover;
- `Verified`, `StoppedSilent` and `RightFile` of `EvLoop`, and `RoundTrip`,
  `WalkComplete` and `ExtractSound` of `XarArchive`: their modules use RECURSIVE
  operators, with which the prover loses its SMT backend;
- `NoAbort`, `PathStable` and `CountsExact` of `FuseTree` where a request is given
  up while it waits for its path: `NoAbort` does not hold there (`fuse_forget`);
- `HiddenRemoved` of `FuseTree`, which does not hold for every case: with create,
  rename and release, one request given up and two nodes, a create that is being
  undone can have its node hidden by a rename after its own release, and nobody
  unlinks the file. The run has the cases in which no rename meets such a create.

## Not modelled, and why

- Subdirectories, `MAX_RECURSE` and several watched directories; watch removal
  (`IN_DELETE_SELF` carries no name, so the handler returns at
  `vfs_inotify.c:79` before it).
- A rename inside the directory is a removal and a move-in in two steps.
- The ids of rows and the table `files`: no reachable code inserts into it
  except the root directory. The loop over an archive's members stores nothing.
- The libxml2 build (`pkg.c:217` returns with `db_mutex` locked there).
- Descriptors: every import leaves its archive open; the failure this leads to
  is `TocFails` on a readable file. That `open` gives descriptor 0, which
  `pkg_release` would not close: the daemon keeps its standard descriptors.
- Memory running out in `conf.c` and `dictionary.c`: `mem_alloc` and `str_dup`
  write through NULL before any error path is reached.
- Signals and `goodbye`: no handler is ever started, so a signal kills; death
  at any moment is modelled.
- `inode.c` (a heap and its setup), `libfspkg.c` (stateless wrappers),
  `pkg_map.c` and `thread_pool.c` (nothing uses them), `str.c`, `timestr.c`,
  `atomicio.c`, `support.c`, `logger.c`, `bombsquad.c` (text, time, I/O and log
  helpers without state).
- libfuse: mounting, option parsing, the stacked modules, the buffer of
  `readdir`, poll notifications, module loading, the growth of the node tables.
- libev: `ev_stat` with inotify, `ev_embed`, `loop_destroy`, the growth of arrays.
- libxar: subdocuments, extended attributes, flags and access lists of other
  systems, the Mach-O probe, certificates, the text of dates and errors.

## Plan

Done, in this order: the allocator, the cache, directory and database, lists,
dictionary and configuration, each with its proofs; then the FUSE session with
the front end, the FUSE node table, the event loop and the archive library; then
the proofs about loops and sequences of lists, the FUSE session, the locks of
files, the node table and its tree lock. Next:

1. Which creates that are undone `HiddenRemoved` has to leave out, and its proof
   for the others on top of `QInv`: hidden files keep their way to the root.
2. `EvHeap` with recursive functions, and that the two heaps stay heaps.
3. `DirWalk`: the recursive scan with subdirectories and the depth that counts
   siblings; then `FsPkg` over two directories with watch removal.
