------------------------------- MODULE FsPkg -------------------------------
(***************************************************************************)
(* How the daemon keeps its database in step with a package directory:     *)
(* main.c's startup, the scan of vfs.c, the event handler of               *)
(* vfs_inotify.c, pkg_import and pkg_forget of pkg.c, pkg_toc_process of   *)
(* pkg_toc.c, on the database of PkgDb.                                    *)
(*                                                                         *)
(* The daemon is one thread: pc is where it is.  Users write, delete and   *)
(* move package files at any moment between its steps; the kernel queues   *)
(* an inotify event for each change.  Both are external and modelled from  *)
(* the masks vfs_watch_add asks for.                                       *)
(*                                                                         *)
(* Abstractions.  One watched directory without subdirectories.  A file is *)
(* its modification time and whether libxar can open it.  An event is      *)
(* "import" (IN_CLOSE_WRITE, IN_MOVED_TO) or "forget" (IN_DELETE,          *)
(* IN_MOVED_FROM) and the name it is about.  Names that are no packages    *)
(* are told apart by what the code does on meeting one: "hidden" starts    *)
(* with a dot, "other" has a foreign extension, "noext" no dot at all.     *)
(* The handle cache of pkg.c is the set of paths that have a handle (see   *)
(* PkgCache).                                                              *)
(*                                                                         *)
(* Failures.  With Faults any statement, opendir, readdir, inotify_init,   *)
(* inotify_add_watch, stat and sqlite3_open may fail.  The daemon goes on  *)
(* from all but the last; what it then misses is recorded in lost.         *)
(***************************************************************************)
EXTENDS PkgDb, Integers, Sequences, FiniteSets

CONSTANTS
    Noise,      \* the kinds of other names that occur in the directory
    MaxQueue,   \* bound: fs.inotify.max_queued_events
    MaxNoise,   \* bound: the events about other names that wait at a time
    Damaged,    \* files occur that libxar cannot open
    Absent      \* no such file

ASSUME NoiseAssumption == Noise \subseteq {"hidden", "other", "noext"}
ASSUME NamesDistinct == {"hidden", "other", "noext", "none"} \intersect Paths = {}
ASSUME BoundsAreNat == MaxQueue \in Nat /\ MaxNoise \in Nat
ASSUME SwitchesAreBoolean ==
    Damaged \in BOOLEAN /\ Readers \in BOOLEAN /\ Faults \in BOOLEAN

Files == [version : Versions, valid : {TRUE, ~Damaged}]
ASSUME AbsentIsNoFile == Absent \notin Files

Overflow == [kind |-> "overflow", name |-> "none"]
Events == [kind : {"import", "forget"}, name : Paths \union Noise] \union {Overflow}

VARIABLES
    disk,       \* disk[p]: the file at path p, or Absent
    writing,    \* the paths some process has open for writing
    watch,      \* the daemon has an inotify watch on the directory
    queue,      \* the inotify queue of the daemon
    pc,         \* where the daemon's thread is
    ret,        \* where pkg_import returns to: the scan or the event handler
    cur,        \* the path pkg_import works on
    todo,       \* the directory entries the scan has not looked at yet
    batch,      \* the events read and not looked at yet
    active,     \* the paths with a handle in pkg_list
    lost,       \* history: the paths a change of which went unheard or was
                \* not carried out, and that have not been imported since
    refused     \* history: the paths about which a statement of their import
                \* was refused since the daemon started

userVars == <<disk, writing>>
daemonVars == <<watch, pc, ret, cur, todo, batch>>
vars == <<dbVars, userVars, queue, daemonVars, active, lost, refused>>

\* Mutant: the scan comes before vfs_watch_init.
WatchedAfterScan == watch /\ pc \notin {"opendir", "walk"}

\* The kernel tells the daemon of changes.
Watched == watch

\* The watch could not be set up, and the daemon went on without.
Deaf == ~watch /\ pc \notin {"dead", "watch"}

\* Where the thread is inside pkg_import.
Importing == pc \in {"toc", "stat", "kept", "commit"}

\* libxar can open the package.
Readable(p) == disk[p] # Absent /\ disk[p].valid

PathsIn(events) == {p \in Paths : \E i \in DOMAIN events : events[i].name = p}

\* An event about p waits to be looked at.
Announced(p) == p \in PathsIn(batch) \union PathsIn(queue)

TypeOK ==
    /\ DbTypeOK
    /\ disk \in [Paths -> Files \union {Absent}]
    /\ writing \in SUBSET Paths
    /\ watch \in BOOLEAN
    /\ queue \in Seq(Events)
    /\ pc \in {"dead", "watch", "opendir", "walk", "idle", "batch",
               "toc", "stat", "kept", "commit", "spin"}
    /\ ret \in {"walk", "batch"}
    /\ cur \in Paths \union {Absent}
    /\ todo \in SUBSET (Paths \union Noise)
    /\ batch \in Seq(Events)
    /\ active \in SUBSET Paths
    /\ lost \in SUBSET Paths
    /\ refused \in SUBSET Paths

Init ==
    /\ DbInit
    /\ disk \in [Paths -> Files \union {Absent}]
    /\ writing = {}
    /\ watch = FALSE
    /\ queue = <<>>
    /\ pc = "dead"
    /\ ret = "walk"
    /\ cur = Absent
    /\ todo = {}
    /\ batch = <<>>
    /\ active = {}
    /\ lost = {}
    /\ refused = {}

-----------------------------------------------------------------------------
(***************************************************************************)
(* The kernel.  A full queue drops the event and says so once; an event    *)
(* equal to the last one queued may be merged with it.                     *)
(***************************************************************************)
Post(kind, name) ==
    LET event == [kind |-> kind, name |-> name]
        full  == Len(queue) >= MaxQueue
        last  == IF queue = <<>> THEN Overflow ELSE queue[Len(queue)]
    IN  \/ /\ Watched /\ ~full
           /\ queue' = Append(queue, event)
           /\ UNCHANGED lost
        \/ /\ Watched /\ ~full /\ last = event
           /\ UNCHANGED <<queue, lost>>
        \/ /\ Watched /\ full
           /\ queue' = (IF Len(queue) = MaxQueue THEN Append(queue, Overflow) ELSE queue)
           /\ lost' = lost \union ({name} \intersect Paths)
        \/ /\ ~Watched
           /\ lost' = (IF Deaf THEN lost \union ({name} \intersect Paths) ELSE lost)
           /\ UNCHANGED queue

(***************************************************************************)
(* The users of the directory.  A file being written changes under the     *)
(* daemon's eyes; its event comes when it is closed.                       *)
(***************************************************************************)
Write(p) ==
    /\ \E f \in Files : disk' = [disk EXCEPT ![p] = f]
    /\ writing' = writing \union {p}
    /\ UNCHANGED <<dbVars, queue, daemonVars, active, lost, refused>>

CloseWrite(p) ==
    /\ p \in writing
    /\ writing' = writing \ {p}
    /\ Post("import", p)
    /\ UNCHANGED <<dbVars, disk, daemonVars, active, refused>>

\* unlink, or rename to a place outside the directory.
Remove(p) ==
    /\ disk[p] # Absent
    /\ disk' = [disk EXCEPT ![p] = Absent]
    /\ writing' = writing \ {p}
    /\ Post("forget", p)
    /\ UNCHANGED <<dbVars, daemonVars, active, refused>>

\* rename of a finished file to p, replacing what was there.
MoveIn(p) ==
    /\ \E f \in Files : disk' = [disk EXCEPT ![p] = f]
    /\ writing' = writing \ {p}
    /\ Post("import", p)
    /\ UNCHANGED <<dbVars, daemonVars, active, refused>>

\* A file that is no package is written.
TouchNoise(n) ==
    /\ Cardinality({i \in DOMAIN (queue \o batch) : (queue \o batch)[i].name \in Noise}) < MaxNoise
    /\ Post("import", n)
    /\ UNCHANGED <<dbVars, userVars, daemonVars, active, refused>>

User ==
    \/ \E p \in Paths : Write(p) \/ CloseWrite(p) \/ Remove(p) \/ MoveIn(p)
    \/ \E n \in Noise : TouchNoise(n)

-----------------------------------------------------------------------------
(***************************************************************************)
(* Startup, in the order of main: database, watch, scan, event loop.       *)
(***************************************************************************)
Start ==
    /\ pc = "dead"
    /\ pc' = "watch"
    /\ DbOpen
    /\ lost' = PathsOf(packages')
    /\ refused' = PathsOf(packages' \union saved')
    /\ UNCHANGED <<userVars, watch, queue, ret, cur, todo, batch, active>>

\* sqlite3_open fails: SIGTERM, for which no handler was started.  The old
\* file is gone by then.
StartFails ==
    /\ pc = "dead" /\ Faults
    /\ packages' = {} /\ table' = FALSE
    /\ UNCHANGED <<txnVars, mutex, userVars, queue, daemonVars, active, lost, refused>>

\* vfs_watch_init, vfs_watch_add.  main does not look at their result.
WatchInit ==
    /\ pc = "watch"
    /\ pc' = "opendir"
    /\ watch' \in {TRUE, ~Faults}
    /\ UNCHANGED <<dbVars, userVars, queue, ret, cur, todo, batch, active, lost, refused>>

\* The death of the process, by a signal or by its own fault.
Die ==
    /\ pc' = "dead"
    /\ DbAbandon
    /\ watch' = FALSE
    /\ queue' = <<>> /\ batch' = <<>> /\ todo' = {}
    /\ cur' = Absent /\ ret' = "walk"
    /\ active' = {} /\ lost' = {}
    /\ UNCHANGED <<userVars, refused>>

Kill == pc # "dead" /\ Die

(***************************************************************************)
(* pkg_import up to db_begin, for a caller that is at "from".  A package   *)
(* with a handle in the cache is left as it is in the database.            *)
(***************************************************************************)
ImportIgnored(p) ==
    /\ p \in active
    /\ lost' = lost \union {p}
    /\ UNCHANGED <<dbVars, pc, ret, cur, refused>>

ImportBegin(p, from) ==
    /\ p \notin active
    /\ \/ DbBegin(TRUE) /\ UNCHANGED refused
       \/ Faults /\ DbBegin(FALSE) /\ refused' = refused \union {p}
    /\ pc' = "toc"
    /\ ret' = from
    /\ cur' = p
    /\ UNCHANGED lost

\* The common end of pkg_import.
ImportEnds ==
    /\ pc' = ret
    /\ cur' = Absent
    /\ ret' = "walk"
    /\ UNCHANGED <<userVars, watch, queue, todo, batch, active, refused>>

\* Mutant: pkg_import returns without db_rollback.
TocFailsOpen ==
    /\ pc = "toc"
    /\ ~Readable(cur)
    /\ ImportEnds
    /\ UNCHANGED <<dbVars, lost>>

(***************************************************************************)
(* pkg_toc_process, when xar_open or xar_iter_new fails: on a file that is *)
(* gone or damaged, or for want of descriptors or memory.                  *)
(***************************************************************************)
TocFails ==
    /\ pc = "toc"
    /\ \E ok \in {TRUE, ~Faults} :
           /\ DbRollback(ok)
           /\ lost' = lost \union (IF ok THEN Discarded ELSE {})
                           \union (IF Readable(cur) THEN {cur} ELSE {})
    /\ ImportEnds

\* Mutant: pkg_toc_process does not remove the old rows.
TocOpenKeepsRows ==
    /\ pc = "toc"
    /\ Readable(cur)
    /\ pc' = "stat"
    /\ UNCHANGED <<dbVars, userVars, watch, queue, ret, cur, todo, batch, active, lost, refused>>

\* A statement on packages may be refused, and how: a missing table takes
\* nothing back.
MayRefuse(back) == IF back THEN Faults ELSE Faults \/ ~table

\* What is lost with the transaction when a refused statement takes it back.
LostWith(back) == IF back THEN Discarded ELSE {}

(***************************************************************************)
(* pkg_toc_process opens the archive and removes the old rows, or sqlite   *)
(* refuses and they are kept.                                              *)
(***************************************************************************)
TocOpen ==
    /\ pc = "toc"
    /\ Readable(cur)
    /\ \/ /\ DbRemove(cur, FALSE)
          /\ pc' = "stat"
          /\ UNCHANGED <<lost, refused>>
       \/ /\ Faults /\ DbRemove(cur, TRUE)
          /\ pc' = "stat"
          /\ lost' = lost \union Discarded
          /\ refused' = refused \union {cur}
       \/ \E back \in BOOLEAN :
             /\ MayRefuse(back) /\ DbRefused(back)
             /\ pc' = "kept"
             /\ lost' = lost \union LostWith(back) \union {cur}
             /\ refused' = refused \union {cur}
    /\ UNCHANGED <<userVars, watch, queue, ret, cur, todo, batch, active>>

(***************************************************************************)
(* db_pkg_add: nothing is inserted when the file has gone since.  Unless   *)
(* more events about the package wait, or its old rows were kept, this     *)
(* makes good whatever was lost of it.  The new row may be refused as      *)
(* well, or stat fail although the file is there.                          *)
(***************************************************************************)
StatAdd ==
    /\ pc \in {"stat", "kept"}
    /\ \/ /\ \/ disk[cur] # Absent /\ DbInsert(cur, disk[cur].version)
             \/ disk[cur] = Absent /\ UNCHANGED dbVars
          /\ lost' = (IF Announced(cur) \/ pc = "kept" THEN lost ELSE lost \ {cur})
          /\ UNCHANGED refused
       \/ \E back \in BOOLEAN :
             /\ disk[cur] # Absent
             /\ MayRefuse(back) /\ DbRefused(back)
             /\ lost' = lost \union LostWith(back) \union {cur}
             /\ refused' = refused \union {cur}
    /\ pc' = "commit"
    /\ UNCHANGED <<userVars, watch, queue, ret, cur, todo, batch, active>>

Commit ==
    /\ pc = "commit"
    /\ \/ DbCommit("done") /\ UNCHANGED lost
       \/ Readers /\ DbCommit("busy") /\ UNCHANGED lost
       \/ Faults /\ DbCommit("back") /\ lost' = lost \union Discarded
    /\ ImportEnds

(***************************************************************************)
(* vfs_dir_walk: the names the directory holds when it is opened, in any   *)
(* order.  Which other names there are is left open.                       *)
(***************************************************************************)
OpenDir ==
    /\ pc = "opendir"
    /\ pc' = "walk"
    /\ \E others \in SUBSET Noise :
           todo' = {p \in Paths : disk[p] # Absent} \union others
    /\ UNCHANGED <<dbVars, userVars, watch, queue, ret, cur, batch, active, lost, refused>>

\* opendir fails: the daemon goes on as if the directory were empty.
OpenDirFails ==
    /\ pc = "opendir" /\ Faults
    /\ pc' = "walk"
    /\ lost' = lost \union {p \in Paths : disk[p] # Absent}
    /\ UNCHANGED <<dbVars, userVars, watch, queue, ret, cur, todo, batch, active, refused>>

WalkImport(p) ==
    /\ pc = "walk"
    /\ p \in todo
    /\ todo' = todo \ {p}
    /\ ImportBegin(p, "walk")
    /\ UNCHANGED <<userVars, watch, queue, batch, active>>

WalkHidden ==
    /\ pc = "walk"
    /\ "hidden" \in todo
    /\ todo' = todo \ {"hidden"}
    /\ UNCHANGED <<dbVars, userVars, watch, queue, pc, ret, cur, batch, active, lost, refused>>

\* The first foreign extension ends the scan of the directory, and so does
\* an error of readdir.
WalkStops ==
    /\ pc = "walk"
    /\ "other" \in todo \/ Faults
    /\ lost' = lost \union (todo \intersect Paths)
    /\ todo' = {}
    /\ UNCHANGED <<dbVars, userVars, watch, queue, pc, ret, cur, batch, active, refused>>

\* strrchr finds no dot and strncmp is given NULL.
WalkNoExt == pc = "walk" /\ "noext" \in todo /\ Die

WalkEnds ==
    /\ pc = "walk"
    /\ todo = {}
    /\ pc' = "idle"
    /\ UNCHANGED <<dbVars, userVars, watch, queue, ret, cur, todo, batch, active, lost, refused>>

(***************************************************************************)
(* vfs_inotify_evt_get: the read, then one step for each event by what the *)
(* code does with it.                                                      *)
(***************************************************************************)
ReadEvents ==
    /\ pc = "idle"
    /\ queue # <<>>
    /\ \E n \in 1..Len(queue) :
           /\ batch' = SubSeq(queue, 1, n)
           /\ queue' = SubSeq(queue, n + 1, Len(queue))
    /\ pc' = "batch"
    /\ UNCHANGED <<dbVars, userVars, watch, ret, cur, todo, active, lost, refused>>

AtEvent(names) == pc = "batch" /\ batch # <<>> /\ batch[1].name \in names

\* continue without moving on to the next event: the loop never ends.
EvHidden ==
    /\ AtEvent({"hidden"})
    /\ pc' = "spin"
    /\ UNCHANGED <<dbVars, userVars, watch, queue, ret, cur, todo, batch, active, lost, refused>>

\* return on the overflow event (its wd is no watch) and on a foreign
\* extension: the events after it are never looked at.
EvReturn ==
    /\ AtEvent({"none", "other"})
    /\ lost' = lost \union PathsIn(Tail(batch))
    /\ batch' = <<>>
    /\ UNCHANGED <<dbVars, userVars, watch, queue, pc, ret, cur, todo, active, refused>>

EvNoExt == AtEvent({"noext"}) /\ Die

EvImport ==
    /\ AtEvent(Paths)
    /\ batch[1].kind = "import"
    /\ batch' = Tail(batch)
    /\ ImportIgnored(batch[1].name) \/ ImportBegin(batch[1].name, "batch")
    /\ UNCHANGED <<userVars, watch, queue, todo, active>>

\* pkg_forget runs outside of a transaction of its own: with a reader on the
\* file the DELETE is refused, unless a transaction was left open.
EvForget ==
    /\ AtEvent(Paths)
    /\ batch[1].kind = "forget"
    /\ batch' = Tail(batch)
    /\ \E back \in {FALSE, Faults} :
           \/ /\ DbRemove(batch[1].name, back)
              /\ lost' = lost \union LostWith(back)
           \/ /\ MayRefuse(back) \/ (Readers /\ ~txn)
              /\ DbRefused(back)
              /\ lost' = lost \union LostWith(back) \union {batch[1].name}
    /\ UNCHANGED <<userVars, watch, queue, pc, ret, cur, todo, active, refused>>

BatchEnds ==
    /\ pc = "batch"
    /\ batch = <<>>
    /\ pc' = "idle"
    /\ UNCHANGED <<dbVars, userVars, watch, queue, ret, cur, todo, batch, active, lost, refused>>

(***************************************************************************)
(* The other callbacks of the loop: pkg_open puts a handle in the cache,   *)
(* pkg_gc takes out unused ones.                                           *)
(***************************************************************************)
PkgOpen(p) ==
    /\ pc = "idle"
    /\ disk[p] # Absent
    /\ active' = active \union {p}
    /\ UNCHANGED <<dbVars, userVars, queue, daemonVars, lost, refused>>

PkgGc ==
    /\ pc = "idle"
    /\ \E unused \in SUBSET active : active' = active \ unused
    /\ UNCHANGED <<dbVars, userVars, queue, daemonVars, lost, refused>>

\* What the thread does once it is scheduled and has something to do.
Daemon ==
    \/ WatchInit \/ OpenDir \/ OpenDirFails
    \/ \E p \in Paths : WalkImport(p)
    \/ WalkHidden \/ WalkStops \/ WalkNoExt \/ WalkEnds
    \/ TocFails \/ TocOpen \/ StatAdd \/ Commit
    \/ ReadEvents \/ EvHidden \/ EvReturn \/ EvNoExt
    \/ EvImport \/ EvForget \/ BatchEnds

Next ==
    \/ User
    \/ Daemon
    \/ Start \/ StartFails \/ Kill
    \/ PkgGc \/ \E p \in Paths : PkgOpen(p)

\* The thread runs, and libev polls the inotify descriptor level-triggered:
\* what it can do it does.  Nothing is assumed of users or of the supervisor.
Spec == Init /\ [][Next]_vars /\ WF_vars(Daemon)

-----------------------------------------------------------------------------
\* The database says of p what the directory says.  A damaged package is
\* skipped, so any row may remain for it.
Agrees(p) ==
    \/ disk[p] = Absent /\ RowsOf(packages, p) = {}
    \/ disk[p] # Absent /\ ~Readable(p)
    \/ disk[p] # Absent /\ RowsOf(packages, p) = {<<p, disk[p].version>>}

\* The daemon has yet to look at p.
Pending(p) ==
    \/ pc \in {"watch", "opendir"}
    \/ p \in todo
    \/ pc \in {"toc", "stat"} /\ cur = p
    \/ Announced(p)

(***************************************************************************)
(* Whenever the database and the directory differ on a package, the daemon *)
(* is still going to look at it, or it is being written, or its change was *)
(* lost in one of the ways the code admits: dropped by a full queue or by  *)
(* an early return, unheard for want of a watch, unseen for want of an     *)
(* opendir or readdir, ignored for an active package, taken back or        *)
(* refused by sqlite.  No order of changes, scan, events, imports and      *)
(* failures creates any other difference.                                  *)
(***************************************************************************)
Tracked ==
    pc # "dead" =>
        \A p \in Paths \ (lost \union writing) : Agrees(p) \/ Pending(p)

(***************************************************************************)
(* No package has two rows, however often it is imported, unless sqlite    *)
(* refused to delete its old ones: the INSERT comes all the same, and      *)
(* nothing in the table forbids the second row.                            *)
(***************************************************************************)
OneRow == \A r1, r2 \in packages : r1[1] = r2[1] /\ r1[1] \notin refused => r1 = r2

(***************************************************************************)
(* db_mutex is held exactly while an import is under way, so that the next *)
(* db_begin never waits for ever, and an import has a transaction around   *)
(* it unless sqlite refused one of its statements.                         *)
(***************************************************************************)
TransactionHeld ==
    /\ mutex <=> Importing
    /\ mutex => txn \/ cur \in refused

(***************************************************************************)
(* For the readers of the database file an upgrade is one step: a package  *)
(* never vanishes because it is imported again, only because the daemon    *)
(* started anew or processed an event, because sqlite refused a statement  *)
(* of its import, or at a COMMIT when it had gone, is damaged, changing or *)
(* yet to be looked at again.                                              *)
(***************************************************************************)
UpgradeAtomic ==
    [][\A p \in Paths :
         RowsOf(Visible, p) # {} /\ RowsOf(Visible, p)' = {} =>
             \/ pc = "dead"
             \/ batch # batch'
             \/ p \in refused'
             \/ pc = "commit" /\ (p \in lost \union writing \/ ~Readable(p) \/ Pending(p))]_vars

(***************************************************************************)
(* The handler and the scan always come back to the event loop, unless the *)
(* handler met a hidden name: its endless loop is what EventsProcessed is  *)
(* about.                                                                  *)
(***************************************************************************)
ReturnsToLoop == []<>(pc \in {"idle", "dead", "spin"})

(***************************************************************************)
(* A package nobody touches any more is sooner or later in the database as *)
(* it is on disk, unless its change was lost or the daemon died or got     *)
(* stuck on a hidden name.                                                 *)
(***************************************************************************)
Settles ==
    \A p \in Paths :
        <>[][UNCHANGED <<disk, writing>>]_vars
            => []<>(pc \in {"dead", "spin"} \/ p \in lost \union writing \/ Agrees(p))

(***************************************************************************)
(* The description of vfs_inotify_evt_get (vfs_inotify.c:53): "process the *)
(* events inotify has given us".  Whatever has been read is dealt with.    *)
(***************************************************************************)
EventsProcessed == pc = "batch" ~> pc \in {"idle", "dead"}

=============================================================================
