---------------------------- MODULE FsPkgProofs ----------------------------
(***************************************************************************)
(* Proofs about FsPkg for any set of packages and versions, any queue      *)
(* length, with or without other names, damaged files and readers.         *)
(*                                                                         *)
(* Tracked is not inductive: that an event about a package waits says      *)
(* nothing of what processing it will do.  The invariant adds what the     *)
(* waiting events promise.  For a package that is on disk, no "forget" is  *)
(* the last word: an "import" follows it (ForgetsFollowed).  For one that  *)
(* is not, a row can only remain while a "forget" waits (GoneForgotten).   *)
(* When nothing waits, the row is right (QuietAgrees).                     *)
(***************************************************************************)
EXTENDS FsPkg, TLAPS

ImportOf(p) == [kind |-> "import", name |-> p]
ForgetOf(p) == [kind |-> "forget", name |-> p]
Has(events, e) == \E i \in DOMAIN events : events[i] = e

\* Every forget of p in the sequence has an import of p after it.
Followed(events, p) ==
    \A i \in DOMAIN events :
        events[i] = ForgetOf(p) => \E j \in DOMAIN events : j > i /\ events[j] = ImportOf(p)

ForgetsFollowed(p) ==
    disk[p] # Absent /\ p \notin writing =>
        /\ Followed(queue, p)
        /\ Followed(batch, p) \/ Has(queue, ImportOf(p))

GoneForgotten(p) ==
    disk[p] = Absent /\ pc # "dead" =>
        RowsOf(packages, p) = {} \/ Has(batch, ForgetOf(p)) \/ Has(queue, ForgetOf(p))

QuietAgrees(p) ==
    Readable(p) /\ p \notin writing /\ ~Announced(p) /\ pc \notin {"dead", "watch", "opendir"} =>
        \/ p \in todo
        \/ pc \in {"toc", "stat"} /\ cur = p
        \/ RowsOf(packages, p) = {<<p, disk[p].version>>}

Coherent == \A p \in Paths \ lost :
    ForgetsFollowed(p) /\ GoneForgotten(p) /\ QuietAgrees(p)

\* What the thread's place says about its variables.
Control ==
    /\ watch => pc \notin {"dead", "watch"}
    /\ ~watch => queue = <<>>
    /\ pc \in {"dead", "watch", "opendir", "walk", "idle"} => batch = <<>>
    /\ pc \in {"watch", "opendir"} => PathsOf(packages) \subseteq lost
    /\ Importing => cur \in Paths
    /\ Importing /\ ret = "walk" => batch = <<>>
    /\ pc = "stat" => RowsOf(packages, cur) = {}
    /\ pc = "kept" => cur \in lost \intersect refused

OneRowSaved == \A r1, r2 \in saved : r1[1] = r2[1] /\ r1[1] \notin refused => r1 = r2

IInv ==
    /\ TypeOK
    /\ TransactionHeld
    /\ OneRow
    /\ OneRowSaved
    /\ Control
    /\ Coherent

-----------------------------------------------------------------------------
(***************************************************************************)
(* A step that changes neither the directory, the events nor the rows      *)
(* keeps the promises of the events, if it does not move a package out of  *)
(* sight.                                                                  *)
(***************************************************************************)
LEMMA FrameCoherent ==
    ASSUME IInv, UNCHANGED <<packages, disk, writing, queue, batch>>,
           lost \subseteq lost', pc # "dead",
           \A p \in Paths \ lost' : QuietAgrees(p) => QuietAgrees(p)'
    PROVE  Coherent'
<1> SUFFICES ASSUME NEW p \in Paths \ lost'
             PROVE  ForgetsFollowed(p)' /\ GoneForgotten(p)' /\ QuietAgrees(p)'
  BY DEF Coherent
<1>1. p \in Paths \ lost
  OBVIOUS
<1>2. ForgetsFollowed(p) /\ GoneForgotten(p) /\ QuietAgrees(p)
  BY <1>1 DEF IInv, Coherent
<1>3. ForgetsFollowed(p)'
  BY <1>2 DEF ForgetsFollowed, Followed, Has, ImportOf, ForgetOf
<1>4. GoneForgotten(p)'
  BY <1>2 DEF GoneForgotten, Has, ForgetOf, RowsOf
<1> QED
  BY <1>2, <1>3, <1>4

\* The promises of the events concern only the directory and the events.
LEMMA ForgetsKept ==
    ASSUME NEW p, ForgetsFollowed(p), UNCHANGED <<disk, writing, queue, batch>>
    PROVE  ForgetsFollowed(p)'
BY DEF ForgetsFollowed, Followed, Has, ImportOf, ForgetOf

-----------------------------------------------------------------------------
\* What other connections see is well formed, and differs from what the
\* daemon sees only on the packages of the open transaction.
LEMMA VisibleFacts ==
    ASSUME IInv
    PROVE  /\ Visible \in SUBSET (Paths \X Versions) /\ VisibleTable \in BOOLEAN
           /\ Discarded \in SUBSET Paths
           /\ \A p \in Paths \ Discarded : RowsOf(Visible, p) = RowsOf(packages, p)
           /\ \A r1, r2 \in Visible : r1[1] = r2[1] /\ r1[1] \notin refused => r1 = r2
<1>1. Visible = saved \/ Visible = packages
  BY DEF Visible
<1>2. Visible \in SUBSET (Paths \X Versions)
  BY <1>1 DEF IInv, TypeOK, DbTypeOK
<1>3. VisibleTable \in BOOLEAN
  <2>1. table \in BOOLEAN /\ savedTable \in BOOLEAN
    BY DEF IInv, TypeOK, DbTypeOK
  <2> QED
    BY <2>1, Zenon DEF VisibleTable
<1>4. Discarded \in SUBSET Paths
  <2>1. \A r \in packages \union Visible : r[1] \in Paths
    BY <1>2 DEF IInv, TypeOK, DbTypeOK
  <2> QED
    BY <2>1 DEF Discarded, PathsOf
<1>5. ASSUME NEW p \in Paths \ Discarded PROVE RowsOf(Visible, p) = RowsOf(packages, p)
  BY DEF Discarded, PathsOf, RowsOf
<1>6. \A r1, r2 \in Visible : r1[1] = r2[1] /\ r1[1] \notin refused => r1 = r2
  BY <1>1 DEF IInv, OneRow, OneRowSaved
<1> QED
  BY <1>2, <1>3, <1>4, <1>5, <1>6

\* A transaction taken back.
LEMMA BackFacts ==
    ASSUME IInv, TakenBack, mutex' \in BOOLEAN
    PROVE  /\ DbTypeOK' /\ packages' = Visible /\ saved' = {} /\ Visible' = Visible
           /\ \A p \in Paths \ Discarded : RowsOf(packages, p)' = RowsOf(packages, p)
<1>1. /\ packages' = Visible /\ table' = VisibleTable
      /\ saved' = {} /\ savedTable' = FALSE /\ txn' = FALSE
  BY DEF TakenBack, TxnEnds
<1>2. table' \in BOOLEAN /\ savedTable' \in BOOLEAN /\ txn' \in BOOLEAN
  BY <1>1, VisibleFacts, Zenon
<1>3. packages' \in SUBSET (Paths \X Versions) /\ saved' \in SUBSET (Paths \X Versions)
  BY <1>1, VisibleFacts
<1>4. Visible' = packages'
  BY <1>1 DEF Visible
<1>5. ASSUME NEW p \in Paths \ Discarded PROVE RowsOf(packages, p)' = RowsOf(packages, p)
  <2>1. RowsOf(packages, p)' = RowsOf(Visible, p)
    BY <1>1 DEF RowsOf
  <2> QED
    BY <2>1, VisibleFacts
<1> QED
  BY <1>1, <1>2, <1>3, <1>4, <1>5 DEF DbTypeOK

\* A statement sqlite refuses.
LEMMA RefusedFacts ==
    ASSUME IInv, NEW back \in BOOLEAN, DbRefused(back)
    PROVE  /\ DbTypeOK' /\ mutex' = mutex /\ Visible' = Visible
           /\ packages' \in {packages, Visible} /\ saved' \in {saved, {}}
           /\ LostWith(back) \in SUBSET Paths
           /\ \A p \in Paths \ LostWith(back) : RowsOf(packages, p)' = RowsOf(packages, p)
<1>1. mutex' = mutex /\ mutex \in BOOLEAN
  BY DEF DbRefused, IInv, TypeOK, DbTypeOK
<1>2. CASE back
  <2>1. TakenBack /\ LostWith(back) = Discarded
    BY <1>2 DEF DbRefused, LostWith
  <2> QED
    BY <1>1, <2>1, BackFacts, VisibleFacts
<1>3. CASE ~back
  <2>1. UNCHANGED <<packages, table, saved, savedTable, txn>> /\ LostWith(back) = {}
    BY <1>3 DEF DbRefused, LostWith, txnVars
  <2> QED
    BY <1>1, <2>1 DEF IInv, TypeOK, DbTypeOK, RowsOf, Visible
<1> QED
  BY <1>2, <1>3

\* The rows of a package are deleted, with or without a transaction.
LEMMA RemoveFacts ==
    ASSUME IInv, NEW q \in Paths, NEW back \in BOOLEAN, DbRemove(q, back)
    PROVE  /\ DbTypeOK' /\ mutex' = mutex /\ (~back => txn' = txn)
           /\ packages' \subseteq packages \/ packages' \subseteq Visible
           /\ saved' \in {saved, {}}
           /\ LostWith(back) \in SUBSET Paths
           /\ RowsOf(packages, q)' = {}
           /\ \A p \in Paths \ LostWith(back) :
                  p # q => RowsOf(packages, p)' = RowsOf(packages, p)
<1>1. PICK rows : /\ rows = (IF back THEN Visible ELSE packages)
                  /\ packages' = rows \ RowsOf(rows, q)
                  /\ table' = TRUE /\ mutex' = mutex
                  /\ IF back THEN TxnEnds ELSE UNCHANGED txnVars
  BY DEF DbRemove
<1>2. rows \in SUBSET (Paths \X Versions)
  BY <1>1, VisibleFacts DEF IInv, TypeOK, DbTypeOK
<1>3. /\ packages' \in SUBSET (Paths \X Versions)
      /\ packages' \subseteq packages \/ packages' \subseteq Visible
      /\ RowsOf(packages, q)' = {}
  BY <1>1, <1>2 DEF RowsOf
<1>4. ASSUME NEW p \in Paths \ LostWith(back), p # q
      PROVE  RowsOf(packages, p)' = RowsOf(packages, p)
  <2>1. RowsOf(packages, p)' = RowsOf(rows, p)
    BY <1>1, <1>4 DEF RowsOf
  <2>2. RowsOf(rows, p) = RowsOf(packages, p)
    <3>1. CASE back
      BY <1>1, <3>1, VisibleFacts DEF LostWith
    <3>2. CASE ~back
      BY <1>1, <3>2
    <3> QED
      BY <3>1, <3>2
  <2> QED
    BY <2>1, <2>2
<1>5. LostWith(back) \in SUBSET Paths
  BY VisibleFacts DEF LostWith
<1>6. /\ saved' \in {saved, {}} /\ (~back => txn' = txn)
      /\ saved' \in SUBSET (Paths \X Versions)
  BY <1>1 DEF TxnEnds, txnVars, IInv, TypeOK, DbTypeOK
<1>7. table' \in BOOLEAN /\ mutex' \in BOOLEAN
  BY <1>1, Zenon DEF IInv, TypeOK, DbTypeOK
<1>8. savedTable' \in BOOLEAN /\ txn' \in BOOLEAN
  <2>1. CASE back
    <3>1. savedTable' = FALSE /\ txn' = FALSE
      BY <1>1, <2>1 DEF TxnEnds
    <3> QED
      BY <3>1, Zenon
  <2>2. CASE ~back
    <3>1. savedTable' = savedTable /\ txn' = txn
      BY <1>1, <2>2 DEF txnVars
    <3> QED
      BY <3>1 DEF IInv, TypeOK, DbTypeOK
  <2> QED
    BY <2>1, <2>2
<1> QED
  BY <1>1, <1>3, <1>4, <1>5, <1>6, <1>7, <1>8 DEF DbTypeOK

(***************************************************************************)
(* A step that keeps the rows of every package not counted as lost keeps   *)
(* the promises of the events.                                             *)
(***************************************************************************)
LEMMA RowsFrame ==
    ASSUME IInv, UNCHANGED <<disk, writing, queue, batch>>,
           lost \subseteq lost', pc # "dead",
           \A p \in Paths \ lost' : RowsOf(packages, p)' = RowsOf(packages, p),
           \A p \in Paths \ lost' : QuietAgrees(p) => QuietAgrees(p)'
    PROVE  Coherent'
<1> SUFFICES ASSUME NEW p \in Paths \ lost'
             PROVE  ForgetsFollowed(p)' /\ GoneForgotten(p)' /\ QuietAgrees(p)'
  BY DEF Coherent
<1>1. p \in Paths \ lost
  OBVIOUS
<1>2. ForgetsFollowed(p) /\ GoneForgotten(p) /\ QuietAgrees(p)
  BY <1>1 DEF IInv, Coherent
<1>3. ForgetsFollowed(p)'
  BY <1>2, ForgetsKept
<1>4. RowsOf(packages, p)' = RowsOf(packages, p)
  OBVIOUS
<1>5. GoneForgotten(p)'
  BY <1>2, <1>4 DEF GoneForgotten, Has, ForgetOf
<1> QED
  BY <1>2, <1>3, <1>5

-----------------------------------------------------------------------------
\* Startup: the database is made anew, or what could not be removed of the
\* old one counts as lost.
LEMMA StartIInv == ASSUME IInv, Start PROVE IInv'
<1>1. /\ pc = "dead" /\ pc' = "watch" /\ DbOpen
      /\ lost' = PathsOf(packages') /\ refused' = PathsOf(packages' \union saved')
      /\ UNCHANGED <<disk, writing, watch, queue, ret, cur, todo, batch, active>>
  BY DEF Start, userVars
<1>2. PICK kept \in BOOLEAN :
        /\ packages' \in {{}, packages} /\ saved' \in {{}, packages}
        /\ \/ table' = TRUE \/ table' = FALSE \/ table' = (kept /\ table)
        /\ \/ savedTable' = FALSE \/ savedTable' = (kept /\ table)
        /\ \/ txn' = FALSE \/ txn' = TRUE
        /\ mutex' = FALSE
  BY <1>1 DEF DbOpen, TxnEnds
<1>3. TypeOK'
  <2>1. /\ packages' \in SUBSET (Paths \X Versions) /\ saved' \in SUBSET (Paths \X Versions)
    BY <1>2 DEF IInv, TypeOK, DbTypeOK
  <2>2. table' \in BOOLEAN /\ savedTable' \in BOOLEAN /\ txn' \in BOOLEAN /\ mutex' \in BOOLEAN
    BY <1>2, Zenon
  <2>3. lost' \in SUBSET Paths /\ refused' \in SUBSET Paths
    BY <1>1, <2>1 DEF PathsOf
  <2> QED
    BY <1>1, <2>1, <2>2, <2>3 DEF IInv, TypeOK, DbTypeOK
<1>4. TransactionHeld'
  BY <1>1, <1>2 DEF TransactionHeld, Importing
<1>5. OneRow' /\ OneRowSaved'
  BY <1>1 DEF OneRow, OneRowSaved, PathsOf
<1>6. Control'
  BY <1>1 DEF IInv, Control, Importing, PathsOf
<1>7. Coherent'
  <2> SUFFICES ASSUME NEW p \in Paths \ lost'
               PROVE  ForgetsFollowed(p)' /\ GoneForgotten(p)' /\ QuietAgrees(p)'
    BY DEF Coherent
  <2>1. queue' = <<>> /\ batch' = <<>>
    BY <1>1 DEF IInv, Control
  <2>2. ForgetsFollowed(p)'
    BY <2>1 DEF ForgetsFollowed, Followed
  <2>3. GoneForgotten(p)'
    BY <1>1 DEF GoneForgotten, RowsOf, PathsOf
  <2>4. QuietAgrees(p)'
    BY <1>1 DEF QuietAgrees
  <2> QED
    BY <2>2, <2>3, <2>4
<1> QED
  BY <1>3, <1>4, <1>5, <1>6, <1>7 DEF IInv

\* sqlite3_open fails: the daemon does not come up.
LEMMA StartFailsIInv == ASSUME IInv, StartFails PROVE IInv'
<1>1. /\ pc = "dead" /\ packages' = {} /\ table' = FALSE
      /\ UNCHANGED <<saved, savedTable, txn, mutex, disk, writing, queue, watch, pc, ret, cur,
                     todo, batch, active, lost, refused>>
  BY DEF StartFails, txnVars, userVars, daemonVars
<1>2. TypeOK'
  <2>1. table' \in BOOLEAN
    BY <1>1, Zenon
  <2> QED
    BY <1>1, <2>1 DEF IInv, TypeOK, DbTypeOK
<1>3. TransactionHeld'
  BY <1>1 DEF IInv, TransactionHeld, Importing
<1>4. OneRow' /\ OneRowSaved'
  BY <1>1 DEF IInv, OneRow, OneRowSaved
<1>5. Control'
  BY <1>1 DEF IInv, Control, Importing
<1>6. Coherent'
  <2> SUFFICES ASSUME NEW p \in Paths \ lost
               PROVE  ForgetsFollowed(p)' /\ GoneForgotten(p)' /\ QuietAgrees(p)'
    BY <1>1 DEF Coherent
  <2>1. ForgetsFollowed(p)'
    BY <1>1, ForgetsKept DEF IInv, Coherent
  <2>2. GoneForgotten(p)' /\ QuietAgrees(p)'
    BY <1>1 DEF GoneForgotten, QuietAgrees
  <2> QED
    BY <2>1, <2>2
<1> QED
  BY <1>2, <1>3, <1>4, <1>5, <1>6 DEF IInv

\* The death of the daemon.
LEMMA DieIInv == ASSUME IInv, Die PROVE IInv'
<1>1. /\ pc' = "dead" /\ TakenBack /\ mutex' = FALSE /\ watch' = FALSE
      /\ queue' = <<>> /\ batch' = <<>> /\ todo' = {}
      /\ cur' = Absent /\ ret' = "walk" /\ active' = {} /\ lost' = {}
      /\ UNCHANGED <<disk, writing, refused>>
  BY DEF Die, DbAbandon, userVars
<1>2. mutex' \in BOOLEAN /\ watch' \in BOOLEAN
  BY <1>1, Zenon
<1>3. DbTypeOK' /\ packages' = Visible /\ saved' = {}
  BY <1>1, <1>2, BackFacts
<1>4. TypeOK'
  BY <1>1, <1>2, <1>3 DEF IInv, TypeOK
<1>5. TransactionHeld'
  BY <1>1 DEF TransactionHeld, Importing
<1>6. OneRow' /\ OneRowSaved'
  BY <1>1, <1>3, VisibleFacts DEF OneRow, OneRowSaved
<1>7. Control'
  BY <1>1 DEF Control, Importing
<1>8. Coherent'
  <2> SUFFICES ASSUME NEW p \in Paths
               PROVE  ForgetsFollowed(p)' /\ GoneForgotten(p)' /\ QuietAgrees(p)'
    BY DEF Coherent
  <2>1. ForgetsFollowed(p)'
    BY <1>1 DEF ForgetsFollowed, Followed
  <2>2. GoneForgotten(p)' /\ QuietAgrees(p)'
    BY <1>1 DEF GoneForgotten, QuietAgrees
  <2> QED
    BY <2>1, <2>2
<1> QED
  BY <1>4, <1>5, <1>6, <1>7, <1>8 DEF IInv

\* vfs_watch_init, whether it succeeds or not.
LEMMA WatchInitIInv == ASSUME IInv, WatchInit PROVE IInv'
<1>1. /\ pc = "watch" /\ pc' = "opendir" /\ watch' \in {TRUE, ~Faults}
      /\ UNCHANGED <<dbVars, userVars, queue, ret, cur, todo, batch, active, lost, refused>>
  BY DEF WatchInit
<1>2. TypeOK'
  <2>1. watch' \in BOOLEAN
    BY <1>1, Zenon
  <2> QED
    BY <1>1, <2>1 DEF IInv, TypeOK, DbTypeOK, dbVars, txnVars, userVars
<1>3. TransactionHeld'
  BY <1>1 DEF IInv, TransactionHeld, Importing, dbVars, txnVars
<1>4. OneRow' /\ OneRowSaved'
  BY <1>1 DEF IInv, OneRow, OneRowSaved, dbVars, txnVars
<1>5. Control'
  BY <1>1 DEF IInv, Control, Importing, dbVars, txnVars, PathsOf
<1>6. Coherent'
  BY <1>1, FrameCoherent DEF dbVars, txnVars, userVars, QuietAgrees
<1> QED
  BY <1>2, <1>3, <1>4, <1>5, <1>6 DEF IInv

\* The directory is opened: every package that is there will be looked at.
LEMMA OpenDirIInv == ASSUME IInv, OpenDir PROVE IInv'
<1>1. PICK others \in SUBSET Noise :
          todo' = {p \in Paths : disk[p] # Absent} \union others
  BY DEF OpenDir
<1>2. /\ pc = "opendir" /\ pc' = "walk"
      /\ UNCHANGED <<dbVars, userVars, watch, queue, ret, cur, batch, active, lost, refused>>
  BY DEF OpenDir
<1>3. TypeOK'
  BY <1>1, <1>2 DEF IInv, TypeOK, DbTypeOK, dbVars, txnVars, userVars
<1>4. TransactionHeld'
  BY <1>2 DEF IInv, TransactionHeld, Importing, dbVars, txnVars
<1>5. OneRow' /\ OneRowSaved'
  BY <1>2 DEF IInv, OneRow, OneRowSaved, dbVars, txnVars
<1>6. Control'
  BY <1>2 DEF IInv, Control, Importing, dbVars, txnVars, RowsOf
<1>7. Coherent'
  <2>1. ASSUME NEW p \in Paths PROVE QuietAgrees(p)'
    BY <1>1, <1>2 DEF QuietAgrees, Readable, userVars
  <2> QED
    BY <1>2, <2>1, FrameCoherent DEF dbVars, txnVars, userVars
<1> QED
  BY <1>3, <1>4, <1>5, <1>6, <1>7 DEF IInv

\* opendir fails: every package that is there is lost.
LEMMA OpenDirFailsIInv == ASSUME IInv, OpenDirFails PROVE IInv'
<1>1. /\ pc = "opendir" /\ pc' = "walk"
      /\ lost' = lost \union {p \in Paths : disk[p] # Absent}
      /\ UNCHANGED <<dbVars, userVars, watch, queue, ret, cur, todo, batch, active, refused>>
  BY DEF OpenDirFails
<1>2. TypeOK'
  BY <1>1 DEF IInv, TypeOK, DbTypeOK, dbVars, txnVars, userVars
<1>3. TransactionHeld'
  BY <1>1 DEF IInv, TransactionHeld, Importing, dbVars, txnVars
<1>4. OneRow' /\ OneRowSaved'
  BY <1>1 DEF IInv, OneRow, OneRowSaved, dbVars, txnVars
<1>5. Control'
  BY <1>1 DEF IInv, Control, Importing, dbVars, txnVars, RowsOf
<1>6. Coherent'
  <2>1. ASSUME NEW p \in Paths \ lost' PROVE QuietAgrees(p)'
    BY <1>1 DEF QuietAgrees, Readable, userVars
  <2> QED
    BY <1>1, <2>1, FrameCoherent DEF dbVars, txnVars, userVars
<1> QED
  BY <1>2, <1>3, <1>4, <1>5, <1>6 DEF IInv

\* db_begin keeps the rows and finds the mutex free.
LEMMA BeginFacts ==
    ASSUME IInv, NEW p \in Paths, NEW from \in {"walk", "batch"}, ImportBegin(p, from)
    PROVE  /\ packages' = packages /\ pc' = "toc" /\ ret' = from /\ cur' = p
           /\ lost' = lost /\ DbTypeOK' /\ TransactionHeld' /\ OneRow' /\ OneRowSaved'
           /\ refused' \in SUBSET Paths /\ Visible' = Visible
<1>1. PICK ok \in BOOLEAN :
        /\ DbBegin(ok)
        /\ refused \subseteq refused' /\ refused' \subseteq refused \union {p}
        /\ ok \/ p \in refused'
        /\ pc' = "toc" /\ ret' = from /\ cur' = p /\ lost' = lost
  BY DEF ImportBegin
<1>2. /\ mutex' = TRUE /\ packages' = packages /\ table' = table
      /\ saved' \in {saved, packages}
      /\ txn' \/ p \in refused'
      /\ Visible' = Visible
  BY <1>1 DEF DbBegin, txnVars, Visible
<1>3. DbTypeOK'
  <2>1. mutex' \in BOOLEAN
    BY <1>2, Zenon
  <2>2. savedTable' \in BOOLEAN /\ txn' \in BOOLEAN
    <3>1. CASE ok /\ ~txn
      <4>1. savedTable' = table /\ txn' = TRUE /\ table \in BOOLEAN
        BY <1>1, <3>1 DEF DbBegin, IInv, TypeOK, DbTypeOK
      <4> QED
        BY <4>1, Zenon
    <3>2. CASE ~(ok /\ ~txn)
      <4>1. savedTable' = savedTable /\ txn' = txn
        BY <1>1, <3>2 DEF DbBegin, txnVars
      <4> QED
        BY <4>1 DEF IInv, TypeOK, DbTypeOK
    <3> QED
      BY <3>1, <3>2
  <2>3. packages' \in SUBSET (Paths \X Versions) /\ saved' \in SUBSET (Paths \X Versions)
    BY <1>2 DEF IInv, TypeOK, DbTypeOK
  <2>4. table' \in BOOLEAN
    BY <1>2 DEF IInv, TypeOK, DbTypeOK
  <2> QED
    BY <2>1, <2>2, <2>3, <2>4 DEF DbTypeOK
<1>4. TransactionHeld'
  BY <1>1, <1>2 DEF TransactionHeld, Importing
<1>5. OneRow' /\ OneRowSaved'
  <2>1. CASE saved' = saved
    BY <1>1, <1>2, <2>1 DEF IInv, OneRow, OneRowSaved
  <2>2. CASE saved' = packages
    BY <1>1, <1>2, <2>2 DEF IInv, OneRow, OneRowSaved
  <2> QED
    BY <1>2, <2>1, <2>2
<1>6. refused' \in SUBSET Paths
  BY <1>1 DEF IInv, TypeOK
<1> QED
  BY <1>1, <1>2, <1>3, <1>4, <1>5, <1>6

\* The scan starts an import.
LEMMA WalkImportIInv ==
    ASSUME IInv, NEW p \in Paths, WalkImport(p)
    PROVE  IInv'
<1>1. /\ pc = "walk" /\ p \in todo /\ todo' = todo \ {p} /\ ImportBegin(p, "walk")
      /\ UNCHANGED <<userVars, watch, queue, batch, active>>
  BY DEF WalkImport
<1>2. /\ packages' = packages /\ pc' = "toc" /\ ret' = "walk" /\ cur' = p
      /\ lost' = lost /\ DbTypeOK' /\ TransactionHeld' /\ OneRow' /\ OneRowSaved'
      /\ refused' \in SUBSET Paths
  BY <1>1, BeginFacts
<1>3. TypeOK'
  BY <1>1, <1>2 DEF IInv, TypeOK, userVars
<1>4. Control'
  BY <1>1, <1>2 DEF IInv, Control, Importing
<1>5. Coherent'
  <2>1. ASSUME NEW q \in Paths, QuietAgrees(q) PROVE QuietAgrees(q)'
    BY <1>1, <1>2, <2>1 DEF QuietAgrees, Readable, Announced, PathsIn, RowsOf, userVars
  <2> QED
    BY <1>1, <1>2, <2>1, FrameCoherent DEF userVars
<1> QED
  BY <1>2, <1>3, <1>4, <1>5 DEF IInv

\* The scan passes over a hidden name.
LEMMA WalkHiddenIInv == ASSUME IInv, WalkHidden PROVE IInv'
<1>1. /\ pc = "walk" /\ todo' = todo \ {"hidden"}
      /\ UNCHANGED <<dbVars, userVars, watch, queue, pc, ret, cur, batch, active, lost, refused>>
  BY DEF WalkHidden
<1>2. TypeOK'
  BY <1>1 DEF IInv, TypeOK, DbTypeOK, dbVars, txnVars, userVars
<1>3. TransactionHeld'
  BY <1>1 DEF IInv, TransactionHeld, Importing, dbVars, txnVars
<1>4. OneRow' /\ OneRowSaved'
  BY <1>1 DEF IInv, OneRow, OneRowSaved, dbVars, txnVars
<1>5. Control'
  BY <1>1 DEF IInv, Control, Importing, dbVars, txnVars, RowsOf
<1>6. Coherent'
  <2>1. ASSUME NEW q \in Paths, QuietAgrees(q) PROVE QuietAgrees(q)'
    BY <1>1, <2>1, NamesDistinct
       DEF QuietAgrees, Readable, Announced, PathsIn, RowsOf, userVars, dbVars, txnVars
  <2> QED
    BY <1>1, <2>1, FrameCoherent DEF userVars, dbVars, txnVars
<1> QED
  BY <1>2, <1>3, <1>4, <1>5, <1>6 DEF IInv

\* The scan is ended by a foreign name or an error: what it has not seen is lost.
LEMMA WalkStopsIInv == ASSUME IInv, WalkStops PROVE IInv'
<1>1. /\ pc = "walk" /\ todo' = {} /\ lost' = lost \union (todo \intersect Paths)
      /\ UNCHANGED <<dbVars, userVars, watch, queue, pc, ret, cur, batch, active, refused>>
  BY DEF WalkStops
<1>2. TypeOK'
  BY <1>1 DEF IInv, TypeOK, DbTypeOK, dbVars, txnVars, userVars
<1>3. TransactionHeld'
  BY <1>1 DEF IInv, TransactionHeld, Importing, dbVars, txnVars
<1>4. OneRow' /\ OneRowSaved'
  BY <1>1 DEF IInv, OneRow, OneRowSaved, dbVars, txnVars
<1>5. Control'
  BY <1>1 DEF IInv, Control, Importing, dbVars, txnVars, RowsOf
<1>6. Coherent'
  <2>1. ASSUME NEW q \in Paths \ lost', QuietAgrees(q) PROVE QuietAgrees(q)'
    BY <1>1, <2>1
       DEF QuietAgrees, Readable, Announced, PathsIn, RowsOf, userVars, dbVars, txnVars
  <2> QED
    BY <1>1, <2>1, FrameCoherent DEF userVars, dbVars, txnVars
<1> QED
  BY <1>2, <1>3, <1>4, <1>5, <1>6 DEF IInv

\* The scan has seen every name.
LEMMA WalkEndsIInv == ASSUME IInv, WalkEnds PROVE IInv'
<1>1. /\ pc = "walk" /\ todo = {} /\ pc' = "idle"
      /\ UNCHANGED <<dbVars, userVars, watch, queue, ret, cur, todo, batch, active, lost, refused>>
  BY DEF WalkEnds
<1>2. TypeOK'
  BY <1>1 DEF IInv, TypeOK, DbTypeOK, dbVars, txnVars, userVars
<1>3. TransactionHeld'
  BY <1>1 DEF IInv, TransactionHeld, Importing, dbVars, txnVars
<1>4. OneRow' /\ OneRowSaved'
  BY <1>1 DEF IInv, OneRow, OneRowSaved, dbVars, txnVars
<1>5. Control'
  BY <1>1 DEF IInv, Control, Importing, dbVars, txnVars, RowsOf
<1>6. Coherent'
  <2>1. ASSUME NEW q \in Paths, QuietAgrees(q) PROVE QuietAgrees(q)'
    BY <1>1, <2>1
       DEF QuietAgrees, Readable, Announced, PathsIn, RowsOf, userVars, dbVars, txnVars
  <2> QED
    BY <1>1, <2>1, FrameCoherent DEF userVars, dbVars, txnVars
<1> QED
  BY <1>2, <1>3, <1>4, <1>5, <1>6 DEF IInv

-----------------------------------------------------------------------------
\* pkg_import fails: the rows of every package not counted as lost are as
\* they were.
LEMMA TocFailsIInv == ASSUME IInv, TocFails PROVE IInv'
<1>1. PICK ok \in BOOLEAN :
        /\ DbRollback(ok)
        /\ lost' = lost \union (IF ok THEN Discarded ELSE {})
                        \union (IF Readable(cur) THEN {cur} ELSE {})
  BY DEF TocFails
<1>2. /\ pc = "toc" /\ mutex' = FALSE
      /\ pc' = ret /\ cur' = Absent /\ ret' = "walk"
      /\ UNCHANGED <<userVars, watch, queue, todo, batch, active, refused>>
  BY <1>1 DEF TocFails, DbRollback, ImportEnds
<1>3. cur \in Paths /\ ret \in {"walk", "batch"}
  BY <1>2 DEF IInv, Control, Importing, TypeOK
<1>4. /\ DbTypeOK' /\ packages' \in {packages, Visible} /\ saved' \in {saved, {}}
      /\ \A p \in Paths \ lost' : RowsOf(packages, p)' = RowsOf(packages, p)
  <2>1. mutex' \in BOOLEAN
    BY <1>2, Zenon
  <2>2. CASE ok
    <3>1. TakenBack /\ Discarded \subseteq lost'
      BY <1>1, <2>2 DEF DbRollback
    <3> QED
      BY <2>1, <3>1, BackFacts
  <2>3. CASE ~ok
    <3>1. UNCHANGED <<packages, table, saved, savedTable, txn>>
      BY <1>1, <2>3 DEF DbRollback, txnVars
    <3> QED
      BY <2>1, <3>1 DEF IInv, TypeOK, DbTypeOK, RowsOf
  <2> QED
    BY <2>2, <2>3
<1>5. lost' \in SUBSET Paths
  BY <1>1, <1>3, VisibleFacts DEF IInv, TypeOK
<1>6. TypeOK'
  BY <1>2, <1>3, <1>4, <1>5 DEF IInv, TypeOK, userVars
<1>7. TransactionHeld'
  BY <1>2, <1>3 DEF TransactionHeld, Importing
<1>8. OneRow' /\ OneRowSaved'
  BY <1>2, <1>4, VisibleFacts DEF IInv, OneRow, OneRowSaved
<1>9. Control'
  BY <1>2, <1>3 DEF IInv, Control, Importing
<1>10. Coherent'
  <2>1. ASSUME NEW p \in Paths \ lost', QuietAgrees(p) PROVE QuietAgrees(p)'
    <3>1. Readable(p)' => p # cur
      BY <1>1, <1>2 DEF Readable, userVars
    <3>2. RowsOf(packages, p)' = RowsOf(packages, p)
      BY <1>4
    <3> QED
      BY <1>2, <2>1, <3>1, <3>2 DEF QuietAgrees, Readable, Announced, PathsIn, userVars
  <2>2. lost \subseteq lost' /\ UNCHANGED <<disk, writing, queue, batch>> /\ pc # "dead"
    BY <1>1, <1>2 DEF userVars
  <2> QED
    BY <1>4, <2>1, <2>2, RowsFrame
<1> QED
  BY <1>6, <1>7, <1>8, <1>9, <1>10 DEF IInv

(***************************************************************************)
(* A statement of an import is refused, after which the thread is at       *)
(* "next": the package is lost, and what went with the transaction.        *)
(***************************************************************************)
LEMMA StatementRefused ==
    ASSUME IInv, Importing, NEW back \in BOOLEAN, DbRefused(back),
           NEW next \in {"kept", "commit"}, pc' = next,
           lost' = lost \union LostWith(back) \union {cur},
           refused' = refused \union {cur},
           UNCHANGED <<userVars, watch, queue, ret, cur, todo, batch, active>>
    PROVE  IInv'
<1>1. /\ DbTypeOK' /\ mutex' = mutex
      /\ packages' \in {packages, Visible} /\ saved' \in {saved, {}}
      /\ LostWith(back) \in SUBSET Paths
      /\ \A p \in Paths \ LostWith(back) : RowsOf(packages, p)' = RowsOf(packages, p)
  BY RefusedFacts
<1>2. cur \in Paths
  BY DEF IInv, Control
<1>3. TypeOK'
  BY <1>1, <1>2 DEF IInv, TypeOK, userVars
<1>4. TransactionHeld'
  BY <1>1 DEF IInv, TransactionHeld, Importing
<1>5. OneRow' /\ OneRowSaved'
  BY <1>1, VisibleFacts DEF IInv, OneRow, OneRowSaved
<1>6. Control'
  BY <1>2 DEF IInv, Control, Importing
<1>7. Coherent'
  <2>1. ASSUME NEW p \in Paths \ lost', QuietAgrees(p) PROVE QuietAgrees(p)'
    <3>1. RowsOf(packages, p)' = RowsOf(packages, p) /\ p # cur
      BY <1>1
    <3> QED
      BY <2>1, <3>1 DEF QuietAgrees, Readable, Announced, PathsIn, userVars, Importing
  <2>2. UNCHANGED <<disk, writing, queue, batch>> /\ pc # "dead"
    BY DEF userVars, Importing
  <2> QED
    BY <1>1, <2>1, <2>2, RowsFrame
<1> QED
  BY <1>3, <1>4, <1>5, <1>6, <1>7 DEF IInv

\* The old rows of the package are removed, or sqlite refuses.
LEMMA TocOpenIInv == ASSUME IInv, TocOpen PROVE IInv'
<1>1. /\ pc = "toc" /\ Importing /\ cur \in Paths
      /\ UNCHANGED <<userVars, watch, queue, ret, cur, todo, batch, active>>
  BY DEF TocOpen, IInv, Control, Importing
<1>2. ASSUME NEW back \in BOOLEAN, DbRemove(cur, back), pc' = "stat",
             lost' = lost \union LostWith(back),
             refused \subseteq refused', refused' \subseteq refused \union {cur},
             back => cur \in refused'
      PROVE  IInv'
  <2>1. /\ DbTypeOK' /\ mutex' = mutex /\ (~back => txn' = txn)
        /\ packages' \subseteq packages \/ packages' \subseteq Visible
        /\ saved' \in {saved, {}} /\ LostWith(back) \in SUBSET Paths
        /\ RowsOf(packages, cur)' = {}
        /\ \A p \in Paths \ LostWith(back) :
               p # cur => RowsOf(packages, p)' = RowsOf(packages, p)
    <3>1. PICK q : q = cur
      OBVIOUS
    <3>2. RowsOf(packages, q)' = {}
      BY <1>1, <1>2, <3>1, RemoveFacts
    <3>3. RowsOf(packages, cur)' = RowsOf(packages', q)
      BY <1>1, <3>1 DEF RowsOf
    <3>4. RowsOf(packages, q)' = RowsOf(packages', q)
      BY DEF RowsOf
    <3> QED
      BY <1>1, <1>2, <3>2, <3>3, <3>4, RemoveFacts
  <2>2. TypeOK'
    BY <1>1, <1>2, <2>1 DEF IInv, TypeOK, userVars
  <2>3. TransactionHeld'
    BY <1>1, <1>2, <2>1 DEF IInv, TransactionHeld, Importing
  <2>4. OneRow' /\ OneRowSaved'
    BY <1>2, <2>1, VisibleFacts DEF IInv, OneRow, OneRowSaved
  <2>5. Control'
    BY <1>1, <1>2, <2>1 DEF IInv, Control, Importing
  <2>6. Coherent'
    <3> SUFFICES ASSUME NEW p \in Paths \ lost'
                 PROVE  ForgetsFollowed(p)' /\ GoneForgotten(p)' /\ QuietAgrees(p)'
      BY DEF Coherent
    <3>1. ForgetsFollowed(p) /\ GoneForgotten(p) /\ QuietAgrees(p)
      BY <1>2 DEF IInv, Coherent
    <3>2. ForgetsFollowed(p)'
      BY <1>1, <3>1, ForgetsKept DEF userVars
    <3>3. p # cur => RowsOf(packages, p)' = RowsOf(packages, p)
      BY <1>2, <2>1
    <3>4. GoneForgotten(p)'
      <4>1. p = cur => RowsOf(packages, p)' = {}
        BY <1>1, <2>1 DEF RowsOf
      <4> QED
        BY <1>1, <3>1, <3>3, <4>1 DEF GoneForgotten, Has, ForgetOf, userVars
    <3>5. QuietAgrees(p)'
      BY <1>1, <1>2, <3>1, <3>3 DEF QuietAgrees, Readable, Announced, PathsIn, userVars
    <3> QED
      BY <3>2, <3>4, <3>5
  <2> QED
    BY <2>2, <2>3, <2>4, <2>5, <2>6 DEF IInv
<1>3. ASSUME NEW back \in BOOLEAN, DbRefused(back), pc' = "kept",
             lost' = lost \union LostWith(back) \union {cur},
             refused' = refused \union {cur}
      PROVE  IInv'
  BY <1>1, <1>3, StatementRefused
<1>4. LostWith(FALSE) = {} /\ LostWith(TRUE) = Discarded
  BY DEF LostWith
<1> QED
  BY <1>2, <1>3, <1>4 DEF TocOpen

\* The new row is what the file is at this moment.
LEMMA StatAdded ==
    ASSUME IInv, pc = "stat", pc' = "commit",
           \/ disk[cur] # Absent /\ DbInsert(cur, disk[cur].version)
           \/ disk[cur] = Absent /\ UNCHANGED dbVars,
           lost' = (IF Announced(cur) \/ pc = "kept" THEN lost ELSE lost \ {cur}),
           UNCHANGED <<userVars, watch, queue, ret, cur, todo, batch, active, refused>>
    PROVE  IInv'
<1>1. /\ pc = "stat" /\ pc' = "commit"
      /\ lost' = (IF Announced(cur) THEN lost ELSE lost \ {cur})
      /\ UNCHANGED <<table, saved, savedTable, txn, mutex, userVars, watch, queue, ret, cur,
                     todo, batch, active, refused>>
  BY DEF DbInsert, dbVars, txnVars
<1>2. cur \in Paths /\ RowsOf(packages, cur) = {}
  BY <1>1 DEF IInv, Control, Importing
<1>3. \/ disk[cur] # Absent /\ packages' = packages \union {<<cur, disk[cur].version>>}
      \/ disk[cur] = Absent /\ packages' = packages
  BY DEF DbInsert, dbVars, txnVars
<1>4. disk[cur] # Absent => disk[cur] \in Files /\ disk[cur].version \in Versions
  BY <1>2 DEF IInv, TypeOK, Files
<1>5. \A p \in Paths : p # cur => RowsOf(packages, p)' = RowsOf(packages, p)
  BY <1>3 DEF RowsOf
<1>6. /\ disk[cur] # Absent => RowsOf(packages, cur)' = {<<cur, disk[cur].version>>}
      /\ disk[cur] = Absent => RowsOf(packages, cur)' = {}
  BY <1>1, <1>2, <1>3 DEF RowsOf
<1>7. TypeOK'
  <2>1. packages' \in SUBSET (Paths \X Versions)
    BY <1>2, <1>3, <1>4 DEF IInv, TypeOK, DbTypeOK
  <2>2. lost' \in SUBSET Paths
    BY <1>1 DEF IInv, TypeOK
  <2> QED
    BY <1>1, <2>1, <2>2 DEF IInv, TypeOK, DbTypeOK, userVars
<1>8. TransactionHeld'
  BY <1>1 DEF IInv, TransactionHeld, Importing
<1>9. OneRow' /\ OneRowSaved'
  <2>1. \A r \in packages : r[1] # cur
    BY <1>2 DEF RowsOf
  <2> QED
    BY <1>1, <1>3, <2>1 DEF IInv, OneRow, OneRowSaved
<1>10. Control'
  BY <1>1, <1>2 DEF IInv, Control, Importing
<1>11. ASSUME NEW p \in Paths \ lost', p # cur
       PROVE  ForgetsFollowed(p)' /\ GoneForgotten(p)' /\ QuietAgrees(p)'
  <2>1. ForgetsFollowed(p) /\ GoneForgotten(p) /\ QuietAgrees(p)
    BY <1>1, <1>11 DEF IInv, Coherent
  <2>2. RowsOf(packages, p)' = RowsOf(packages, p)
    BY <1>5, <1>11
  <2>3. ForgetsFollowed(p)'
    BY <1>1, <2>1, ForgetsKept DEF userVars
  <2>4. GoneForgotten(p)'
    BY <1>1, <2>1, <2>2 DEF GoneForgotten, Has, ForgetOf, userVars
  <2>5. QuietAgrees(p)'
    BY <1>1, <1>11, <2>1, <2>2 DEF QuietAgrees, Readable, Announced, PathsIn, userVars
  <2> QED
    BY <2>3, <2>4, <2>5
<1>12. ASSUME cur \notin lost'
       PROVE  ForgetsFollowed(cur)' /\ GoneForgotten(cur)' /\ QuietAgrees(cur)'
  <2>1. GoneForgotten(cur)' /\ QuietAgrees(cur)'
    BY <1>1, <1>6 DEF GoneForgotten, QuietAgrees, Readable, userVars
  <2>2. CASE cur \notin lost
    BY <1>1, <1>2, <2>1, <2>2, ForgetsKept DEF IInv, Coherent, userVars
  <2>3. CASE ~Announced(cur)
    <3>1. /\ \A i \in DOMAIN queue : queue[i].name # cur
          /\ \A i \in DOMAIN batch : batch[i].name # cur
      BY <1>2, <2>3 DEF Announced, PathsIn
    <3>2. ForgetsFollowed(cur)
      BY <3>1 DEF ForgetsFollowed, Followed, ForgetOf
    <3> QED
      BY <1>1, <2>1, <3>2, ForgetsKept DEF userVars
  <2> QED
    BY <1>1, <1>12, <2>2, <2>3
<1>13. Coherent'
  <2> SUFFICES ASSUME NEW p \in Paths \ lost'
               PROVE  ForgetsFollowed(p)' /\ GoneForgotten(p)' /\ QuietAgrees(p)'
    BY DEF Coherent
  <2>1. CASE p = cur
    <3>1. ForgetsFollowed(cur)' /\ GoneForgotten(cur)' /\ QuietAgrees(cur)'
      BY <1>12, <2>1
    <3> QED
      BY <1>1, <2>1, <3>1 DEF ForgetsFollowed, GoneForgotten, QuietAgrees, Followed, Has,
         Readable, Announced, PathsIn, RowsOf, ForgetOf, ImportOf
  <2> QED
    BY <1>11, <2>1
<1> QED
  BY <1>7, <1>8, <1>9, <1>10, <1>13 DEF IInv

\* The old rows were kept: whatever is inserted, the package stays lost.
LEMMA KeptAdded ==
    ASSUME IInv, pc = "kept", pc' = "commit",
           \/ disk[cur] # Absent /\ DbInsert(cur, disk[cur].version)
           \/ disk[cur] = Absent /\ UNCHANGED dbVars,
           lost' = lost,
           UNCHANGED <<userVars, watch, queue, ret, cur, todo, batch, active, refused>>
    PROVE  IInv'
<1>1. UNCHANGED <<table, saved, savedTable, txn, mutex>>
  BY DEF DbInsert, dbVars, txnVars
<1>2. cur \in Paths /\ cur \in lost /\ cur \in refused
  BY DEF IInv, Control, Importing
<1>3. \/ disk[cur] # Absent /\ packages' = packages \union {<<cur, disk[cur].version>>}
      \/ disk[cur] = Absent /\ packages' = packages
  BY DEF DbInsert, dbVars, txnVars
<1>4. disk[cur] # Absent => disk[cur] \in Files /\ disk[cur].version \in Versions
  BY <1>2 DEF IInv, TypeOK, Files
<1>5. \A p \in Paths : p # cur => RowsOf(packages, p)' = RowsOf(packages, p)
  BY <1>3 DEF RowsOf
<1>6. TypeOK'
  <2>1. packages' \in SUBSET (Paths \X Versions)
    BY <1>2, <1>3, <1>4 DEF IInv, TypeOK, DbTypeOK
  <2> QED
    BY <1>1, <2>1 DEF IInv, TypeOK, DbTypeOK, userVars
<1>7. TransactionHeld'
  BY <1>1 DEF IInv, TransactionHeld, Importing
<1>8. OneRow' /\ OneRowSaved'
  BY <1>1, <1>2, <1>3 DEF IInv, OneRow, OneRowSaved
<1>9. Control'
  BY <1>2 DEF IInv, Control, Importing
<1>10. Coherent'
  <2>1. ASSUME NEW p \in Paths \ lost', QuietAgrees(p) PROVE QuietAgrees(p)'
    <3>1. RowsOf(packages, p)' = RowsOf(packages, p) /\ p # cur
      BY <1>2, <1>5
    <3> QED
      BY <2>1, <3>1 DEF QuietAgrees, Readable, Announced, PathsIn, userVars
  <2>2. UNCHANGED <<disk, writing, queue, batch>> /\ pc # "dead"
    BY DEF userVars
  <2> QED
    BY <1>2, <1>5, <2>1, <2>2, RowsFrame
<1> QED
  BY <1>6, <1>7, <1>8, <1>9, <1>10 DEF IInv

\* db_pkg_add.
LEMMA StatAddIInv == ASSUME IInv, StatAdd PROVE IInv'
<1>1. /\ pc \in {"stat", "kept"} /\ Importing /\ pc' = "commit"
      /\ UNCHANGED <<userVars, watch, queue, ret, cur, todo, batch, active>>
  BY DEF StatAdd, Importing
<1>2. ASSUME \/ disk[cur] # Absent /\ DbInsert(cur, disk[cur].version)
             \/ disk[cur] = Absent /\ UNCHANGED dbVars,
             lost' = (IF Announced(cur) \/ pc = "kept" THEN lost ELSE lost \ {cur}),
             refused' = refused
      PROVE  IInv'
  <2>1. CASE pc = "stat"
    BY <1>1, <1>2, <2>1, StatAdded
  <2>2. CASE pc = "kept"
    BY <1>1, <1>2, <2>2, KeptAdded
  <2> QED
    BY <1>1, <2>1, <2>2
<1>3. ASSUME NEW back \in BOOLEAN, DbRefused(back),
             lost' = lost \union LostWith(back) \union {cur},
             refused' = refused \union {cur}
      PROVE  IInv'
  BY <1>1, <1>3, StatementRefused
<1> QED
  BY <1>2, <1>3 DEF StatAdd

\* The transaction ends, is left open by a COMMIT that failed, or is taken
\* back by it.
LEMMA CommitIInv == ASSUME IInv, Commit PROVE IInv'
<1>1. /\ pc = "commit" /\ mutex' = FALSE
      /\ pc' = ret /\ cur' = Absent /\ ret' = "walk"
      /\ UNCHANGED <<userVars, watch, queue, todo, batch, active, refused>>
  BY DEF Commit, DbCommit, ImportEnds
<1>2. mutex' \in BOOLEAN
  BY <1>1, Zenon
<1>3. ret \in {"walk", "batch"}
  BY DEF IInv, TypeOK
<1>4. /\ DbTypeOK' /\ packages' \in {packages, Visible} /\ saved' \in {saved, {}}
      /\ lost \subseteq lost' /\ lost' \in SUBSET Paths
      /\ \A p \in Paths \ lost' : RowsOf(packages, p)' = RowsOf(packages, p)
  <2>1. CASE DbCommit("done") /\ lost' = lost
    <3>1. UNCHANGED <<packages, table>> /\ saved' = {} /\ savedTable' = FALSE /\ txn' = FALSE
      BY <2>1 DEF DbCommit, TxnEnds
    <3>2. savedTable' \in BOOLEAN /\ txn' \in BOOLEAN
      BY <3>1, Zenon
    <3> QED
      BY <1>2, <2>1, <3>1, <3>2 DEF IInv, TypeOK, DbTypeOK, RowsOf
  <2>2. CASE DbCommit("busy") /\ lost' = lost
    <3>1. UNCHANGED <<packages, table, saved, savedTable, txn>>
      BY <2>2 DEF DbCommit, txnVars
    <3> QED
      BY <1>2, <2>2, <3>1 DEF IInv, TypeOK, DbTypeOK, RowsOf
  <2>3. CASE DbCommit("back") /\ lost' = lost \union Discarded
    <3>1. TakenBack
      BY <2>3 DEF DbCommit
    <3> QED
      BY <1>2, <2>3, <3>1, BackFacts, VisibleFacts DEF IInv, TypeOK
  <2> QED
    BY <2>1, <2>2, <2>3 DEF Commit
<1>5. TypeOK'
  BY <1>1, <1>3, <1>4 DEF IInv, TypeOK, userVars
<1>6. TransactionHeld'
  BY <1>1, <1>3 DEF TransactionHeld, Importing
<1>7. OneRow' /\ OneRowSaved'
  BY <1>1, <1>4, VisibleFacts DEF IInv, OneRow, OneRowSaved
<1>8. Control'
  BY <1>1, <1>3 DEF IInv, Control, Importing
<1>9. Coherent'
  <2>1. ASSUME NEW p \in Paths \ lost', QuietAgrees(p) PROVE QuietAgrees(p)'
    <3>1. RowsOf(packages, p)' = RowsOf(packages, p)
      BY <1>4
    <3> QED
      BY <1>1, <2>1, <3>1 DEF QuietAgrees, Readable, Announced, PathsIn, userVars
  <2>2. UNCHANGED <<disk, writing, queue, batch>> /\ pc # "dead"
    BY <1>1 DEF userVars
  <2> QED
    BY <1>4, <2>1, <2>2, RowsFrame
<1> QED
  BY <1>5, <1>6, <1>7, <1>8, <1>9 DEF IInv

-----------------------------------------------------------------------------
(***************************************************************************)
(* Sequences of events: what is left of the promises when the first event  *)
(* is taken, when one is added, and when a prefix is read.                 *)
(***************************************************************************)
LEMMA TailFacts ==
    ASSUME NEW s \in Seq(Events), s # <<>>
    PROVE  /\ Tail(s) \in Seq(Events) /\ s[1] \in Events /\ Tail(s) # s
           /\ \A e : Has(s, e) => s[1] = e \/ Has(Tail(s), e)
           /\ \A p : Followed(s, p) => Followed(Tail(s), p)
           /\ \A p : Followed(s, p) /\ s[1] = ForgetOf(p) => Has(Tail(s), ImportOf(p))
           /\ \A p \in PathsIn(s) : s[1].name = p \/ p \in PathsIn(Tail(s))
<1> DEFINE t == Tail(s)
<1>1. /\ t \in Seq(Events) /\ s[1] \in Events /\ t # s
      /\ DOMAIN s = 1..Len(s) /\ DOMAIN t = 1..(Len(s) - 1) /\ Len(s) \in Nat \ {0}
      /\ \A i \in 1..(Len(s) - 1) : t[i] = s[i + 1]
  OBVIOUS
<1> HIDE DEF t
<1>2. \A i \in DOMAIN s : i = 1 \/ (i - 1 \in DOMAIN t /\ t[i - 1] = s[i])
  <2> SUFFICES ASSUME NEW i \in 1..Len(s), i # 1
               PROVE  i - 1 \in 1..(Len(s) - 1) /\ t[i - 1] = s[i]
    BY <1>1
  <2>1. i - 1 \in 1..(Len(s) - 1) /\ (i - 1) + 1 = i
    BY <1>1
  <2> QED
    BY <1>1, <2>1
<1>3. \A e : Has(s, e) => s[1] = e \/ Has(t, e)
  BY <1>2 DEF Has
<1>4. ASSUME NEW p, Followed(s, p)
      PROVE  /\ Followed(t, p)
             /\ s[1] = ForgetOf(p) => Has(t, ImportOf(p))
  <2>1. \A i \in DOMAIN s :
          s[i] = ForgetOf(p) => \E j \in DOMAIN s : j > i /\ s[j] = ImportOf(p)
    BY <1>4 DEF Followed
  <2>2. ASSUME NEW i \in DOMAIN t, t[i] = ForgetOf(p)
        PROVE  \E j \in DOMAIN t : j > i /\ t[j] = ImportOf(p)
    <3>1. i + 1 \in DOMAIN s /\ s[i + 1] = ForgetOf(p)
      BY <1>1, <2>2
    <3>2. PICK j \in DOMAIN s : j > i + 1 /\ s[j] = ImportOf(p)
      BY <2>1, <3>1
    <3>3. j - 1 \in DOMAIN t /\ j - 1 > i /\ t[j - 1] = ImportOf(p)
      BY <1>1, <1>2, <3>2
    <3> QED
      BY <3>3
  <2>3. ASSUME s[1] = ForgetOf(p) PROVE Has(t, ImportOf(p))
    <3>1. PICK j \in DOMAIN s : j > 1 /\ s[j] = ImportOf(p)
      BY <1>1, <2>1, <2>3
    <3>2. j - 1 \in DOMAIN t /\ t[j - 1] = ImportOf(p)
      BY <1>1, <1>2, <3>1
    <3> QED
      BY <3>2 DEF Has
  <2> QED
    BY <2>2, <2>3 DEF Followed
<1>5. \A p \in PathsIn(s) : s[1].name = p \/ p \in PathsIn(t)
  BY <1>2 DEF PathsIn
<1> QED
  BY <1>1, <1>3, <1>4, <1>5 DEF t

\* An event added at the end.
LEMMA AppendFacts ==
    ASSUME NEW s \in Seq(Events), NEW e \in Events
    PROVE  /\ Append(s, e) \in Seq(Events) /\ Has(Append(s, e), e)
           /\ \A x : Has(s, x) => Has(Append(s, e), x)
           /\ \A p : Followed(s, p) /\ e # ForgetOf(p) => Followed(Append(s, e), p)
           /\ \A p : e = ImportOf(p) => Followed(Append(s, e), p)
           /\ PathsIn(s) \subseteq PathsIn(Append(s, e))
<1> DEFINE t == Append(s, e)
<1>1. /\ t \in Seq(Events) /\ DOMAIN s = 1..Len(s) /\ DOMAIN t = 1..(Len(s) + 1)
      /\ Len(s) \in Nat /\ t[Len(s) + 1] = e /\ \A i \in 1..Len(s) : t[i] = s[i]
  OBVIOUS
<1>2. /\ Len(s) + 1 \in DOMAIN t
      /\ \A i \in DOMAIN s : i \in DOMAIN t /\ t[i] = s[i]
      /\ \A i \in DOMAIN t : i = Len(s) + 1 \/ (i \in DOMAIN s /\ i < Len(s) + 1)
  BY <1>1
<1> HIDE DEF t
<1>3. Has(t, e) /\ (\A x : Has(s, x) => Has(t, x)) /\ PathsIn(s) \subseteq PathsIn(t)
  BY <1>1, <1>2 DEF Has, PathsIn
<1>4. ASSUME NEW p, Followed(s, p), e # ForgetOf(p) PROVE Followed(t, p)
  BY <1>1, <1>2, <1>4 DEF Followed
<1>5. ASSUME NEW p, e = ImportOf(p) PROVE Followed(t, p)
  <2>1. ImportOf(p) # ForgetOf(p)
    BY DEF ImportOf, ForgetOf
  <2> QED
    BY <1>1, <1>2, <1>5, <2>1 DEF Followed
<1> QED
  BY <1>1, <1>3, <1>4, <1>5 DEF t

\* A prefix of the queue is read, the rest remains.
LEMMA SplitFacts ==
    ASSUME NEW s \in Seq(Events), NEW n \in 1..Len(s)
    PROVE  LET a == SubSeq(s, 1, n)
               b == SubSeq(s, n + 1, Len(s))
           IN  /\ a \in Seq(Events) /\ b \in Seq(Events)
               /\ \A x : Has(s, x) => Has(a, x) \/ Has(b, x)
               /\ \A p : Followed(s, p) =>
                       Followed(b, p) /\ (Followed(a, p) \/ Has(b, ImportOf(p)))
               /\ PathsIn(s) \subseteq PathsIn(a) \union PathsIn(b)
<1> DEFINE a == SubSeq(s, 1, n)
           b == SubSeq(s, n + 1, Len(s))
<1>1. /\ a \in Seq(Events) /\ DOMAIN a = 1..n /\ \A i \in 1..n : a[i] = s[i]
  OBVIOUS
<1>2. /\ b \in Seq(Events) /\ DOMAIN b = 1..(Len(s) - n)
      /\ \A i \in 1..(Len(s) - n) : b[i] = s[n + i]
  OBVIOUS
<1>3. DOMAIN s = 1..Len(s) /\ Len(s) \in Nat
  OBVIOUS
<1> HIDE DEF a, b
<1>4. \A i \in DOMAIN s :
          \/ i \in DOMAIN a /\ a[i] = s[i]
          \/ i - n \in DOMAIN b /\ b[i - n] = s[i]
  <2> SUFFICES ASSUME NEW i \in 1..Len(s), i \notin 1..n
               PROVE  i - n \in 1..(Len(s) - n) /\ b[i - n] = s[i]
    BY <1>1, <1>2, <1>3
  <2>1. i - n \in 1..(Len(s) - n) /\ n + (i - n) = i
    BY <1>3
  <2> QED
    BY <1>2, <2>1
<1>5. \A x : Has(s, x) => Has(a, x) \/ Has(b, x)
  BY <1>4 DEF Has
<1>6. PathsIn(s) \subseteq PathsIn(a) \union PathsIn(b)
  BY <1>4 DEF PathsIn
<1>7. ASSUME NEW p, Followed(s, p) PROVE Followed(b, p)
  <2> SUFFICES ASSUME NEW i \in DOMAIN b, b[i] = ForgetOf(p)
               PROVE  \E j \in DOMAIN b : j > i /\ b[j] = ImportOf(p)
    BY DEF Followed
  <2>1. n + i \in DOMAIN s /\ s[n + i] = ForgetOf(p)
    BY <1>2, <1>3
  <2>2. PICK j \in DOMAIN s : j > n + i /\ s[j] = ImportOf(p)
    BY <1>7, <2>1 DEF Followed
  <2>3. j - n \in DOMAIN b /\ j - n > i /\ b[j - n] = ImportOf(p)
    BY <1>2, <1>3, <2>2
  <2> QED
    BY <2>3
<1>8. ASSUME NEW p, Followed(s, p), ~Has(b, ImportOf(p)) PROVE Followed(a, p)
  <2> SUFFICES ASSUME NEW i \in DOMAIN a, a[i] = ForgetOf(p)
               PROVE  \E j \in DOMAIN a : j > i /\ a[j] = ImportOf(p)
    BY DEF Followed
  <2>1. i \in DOMAIN s /\ s[i] = ForgetOf(p)
    BY <1>1, <1>3
  <2>2. PICK j \in DOMAIN s : j > i /\ s[j] = ImportOf(p)
    BY <1>8, <2>1 DEF Followed
  <2>3. j \in DOMAIN a /\ a[j] = s[j]
    BY <1>4, <1>8, <2>2 DEF Has
  <2> QED
    BY <2>2, <2>3
<1> QED
  BY <1>1, <1>2, <1>5, <1>6, <1>7, <1>8 DEF a, b

-----------------------------------------------------------------------------
\* A prefix of the queue becomes the batch.
LEMMA ReadEventsIInv == ASSUME IInv, ReadEvents PROVE IInv'
<1>1. PICK n \in 1..Len(queue) :
          /\ batch' = SubSeq(queue, 1, n)
          /\ queue' = SubSeq(queue, n + 1, Len(queue))
  BY DEF ReadEvents
<1>2. /\ pc = "idle" /\ pc' = "batch"
      /\ UNCHANGED <<dbVars, userVars, watch, ret, cur, todo, active, lost, refused>>
  BY DEF ReadEvents
<1>3. queue \in Seq(Events) /\ batch = <<>>
  BY <1>2 DEF IInv, TypeOK, Control
<1>4. /\ batch' \in Seq(Events) /\ queue' \in Seq(Events)
      /\ \A x : Has(queue, x) => Has(batch', x) \/ Has(queue', x)
      /\ \A p : Followed(queue, p) =>
             Followed(queue', p) /\ (Followed(batch', p) \/ Has(queue', ImportOf(p)))
      /\ PathsIn(queue) \subseteq PathsIn(batch') \union PathsIn(queue')
  BY <1>1, <1>3, SplitFacts
<1>5. TypeOK'
  BY <1>2, <1>4 DEF IInv, TypeOK, DbTypeOK, dbVars, txnVars, userVars
<1>6. TransactionHeld'
  BY <1>2 DEF IInv, TransactionHeld, Importing, dbVars, txnVars
<1>7. OneRow' /\ OneRowSaved'
  BY <1>2 DEF IInv, OneRow, OneRowSaved, dbVars, txnVars
<1>8. Control'
  BY <1>2 DEF IInv, Control, Importing, dbVars, txnVars
<1>9. Coherent'
  <2> SUFFICES ASSUME NEW p \in Paths \ lost
               PROVE  ForgetsFollowed(p)' /\ GoneForgotten(p)' /\ QuietAgrees(p)'
    BY <1>2 DEF Coherent
  <2>1. ForgetsFollowed(p) /\ GoneForgotten(p) /\ QuietAgrees(p)
    BY DEF IInv, Coherent
  <2>2. ~Has(batch, ForgetOf(p)) /\ p \notin PathsIn(batch)
    BY <1>3 DEF Has, PathsIn
  <2>3. ForgetsFollowed(p)'
    <3>1. disk' = disk /\ writing' = writing
      BY <1>2 DEF userVars
    <3>2. Followed(queue, p) => Followed(queue', p) /\ (Followed(batch', p) \/ Has(queue', ImportOf(p)))
      BY <1>4
    <3> HIDE <1>1
    <3> QED
      BY <3>1, <3>2, <2>1 DEF ForgetsFollowed, Followed, Has, ImportOf, ForgetOf
  <2>4. GoneForgotten(p)'
    <3>1. Has(queue, ForgetOf(p)) => Has(batch', ForgetOf(p)) \/ Has(queue', ForgetOf(p))
      BY <1>4
    <3> QED
      BY <1>2, <2>1, <2>2, <3>1 DEF GoneForgotten, RowsOf, Has, ForgetOf, dbVars, txnVars, userVars
  <2>5. QuietAgrees(p)'
    <3>1. ~Announced(p)' => ~Announced(p)
      BY <1>4, <2>2 DEF Announced, PathsIn
    <3> QED
      BY <1>2, <2>1, <3>1 DEF QuietAgrees, Readable, RowsOf, dbVars, txnVars, userVars
  <2> QED
    BY <2>3, <2>4, <2>5
<1> QED
  BY <1>5, <1>6, <1>7, <1>8, <1>9 DEF IInv

\* The handler goes round and round on a hidden name.
LEMMA EvHiddenIInv == ASSUME IInv, EvHidden PROVE IInv'
<1>1. /\ pc = "batch" /\ pc' = "spin"
      /\ UNCHANGED <<dbVars, userVars, watch, queue, ret, cur, todo, batch, active, lost, refused>>
  BY DEF EvHidden, AtEvent
<1>2. TypeOK'
  BY <1>1 DEF IInv, TypeOK, DbTypeOK, dbVars, txnVars, userVars
<1>3. TransactionHeld'
  BY <1>1 DEF IInv, TransactionHeld, Importing, dbVars, txnVars
<1>4. OneRow' /\ OneRowSaved'
  BY <1>1 DEF IInv, OneRow, OneRowSaved, dbVars, txnVars
<1>5. Control'
  BY <1>1 DEF IInv, Control, Importing, dbVars, txnVars, RowsOf
<1>6. Coherent'
  <2>1. ASSUME NEW q \in Paths, QuietAgrees(q) PROVE QuietAgrees(q)'
    BY <1>1, <2>1
       DEF QuietAgrees, Readable, Announced, PathsIn, RowsOf, userVars, dbVars, txnVars
  <2> QED
    BY <1>1, <2>1, FrameCoherent DEF userVars, dbVars, txnVars
<1> QED
  BY <1>2, <1>3, <1>4, <1>5, <1>6 DEF IInv

\* The rest of the batch is dropped: every package it names is lost.
LEMMA EvReturnIInv == ASSUME IInv, EvReturn PROVE IInv'
<1>1. /\ pc = "batch" /\ batch # <<>> /\ batch[1].name \in {"none", "other"}
      /\ lost' = lost \union PathsIn(Tail(batch)) /\ batch' = <<>>
      /\ UNCHANGED <<dbVars, userVars, watch, queue, pc, ret, cur, todo, active, refused>>
  BY DEF EvReturn, AtEvent
<1>2. batch \in Seq(Events)
  BY DEF IInv, TypeOK
<1>3. \A p \in Paths \ lost' : p \notin PathsIn(batch)
  BY <1>1, <1>2, TailFacts, NamesDistinct
<1>4. TypeOK'
  <2>1. lost' \in SUBSET Paths
    BY <1>1 DEF IInv, TypeOK, PathsIn
  <2>2. batch' \in Seq(Events)
    BY <1>1
  <2> QED
    BY <1>1, <2>1, <2>2 DEF IInv, TypeOK, DbTypeOK, dbVars, txnVars, userVars
<1>5. TransactionHeld'
  BY <1>1 DEF IInv, TransactionHeld, Importing, dbVars, txnVars
<1>6. OneRow' /\ OneRowSaved'
  BY <1>1 DEF IInv, OneRow, OneRowSaved, dbVars, txnVars
<1>7. Control'
  BY <1>1 DEF IInv, Control, Importing, dbVars, txnVars
<1>8. Coherent'
  <2> SUFFICES ASSUME NEW p \in Paths \ lost'
               PROVE  ForgetsFollowed(p)' /\ GoneForgotten(p)' /\ QuietAgrees(p)'
    BY DEF Coherent
  <2>1. ForgetsFollowed(p) /\ GoneForgotten(p) /\ QuietAgrees(p)
    BY <1>1 DEF IInv, Coherent
  <2>2. ForgetsFollowed(p)'
    BY <1>1, <2>1 DEF ForgetsFollowed, Followed, Has, ImportOf, ForgetOf, userVars
  <2>3. GoneForgotten(p)'
    <3>1. ~Has(batch, ForgetOf(p))
      BY <1>3 DEF Has, PathsIn, ForgetOf
    <3> QED
      BY <1>1, <2>1, <3>1 DEF GoneForgotten, RowsOf, Has, ForgetOf, dbVars, txnVars, userVars
  <2>4. QuietAgrees(p)'
    <3>1. ~Announced(p)' => ~Announced(p)
      BY <1>1, <1>3 DEF Announced, PathsIn
    <3> QED
      BY <1>1, <2>1, <3>1 DEF QuietAgrees, Readable, RowsOf, dbVars, txnVars, userVars
  <2> QED
    BY <2>2, <2>3, <2>4
<1> QED
  BY <1>4, <1>5, <1>6, <1>7, <1>8 DEF IInv

(***************************************************************************)
(* What taking the first event leaves of the promises, for a package the   *)
(* event is not about or that is not forgotten by it.                      *)
(***************************************************************************)
LEMMA NextEvent ==
    ASSUME IInv, batch # <<>>, batch' = Tail(batch), UNCHANGED <<disk, writing, queue>>
    PROVE  /\ batch[1] \in Events /\ batch' \in Seq(Events) /\ batch' # batch
           /\ \A p : ForgetsFollowed(p) => ForgetsFollowed(p)'
           /\ \A p : Has(batch, ForgetOf(p)) /\ batch[1] # ForgetOf(p) =>
                         Has(batch', ForgetOf(p))
           /\ \A p : Announced(p) /\ batch[1].name # p => Announced(p)'
<1>1. batch \in Seq(Events)
  BY DEF IInv, TypeOK
<1>2. /\ batch' \in Seq(Events) /\ batch[1] \in Events /\ batch' # batch
      /\ \A e : Has(batch, e) => batch[1] = e \/ Has(batch', e)
      /\ \A p : Followed(batch, p) => Followed(batch', p)
      /\ \A p \in PathsIn(batch) : batch[1].name = p \/ p \in PathsIn(batch')
  BY <1>1, TailFacts
<1>3. ASSUME NEW p, ForgetsFollowed(p) PROVE ForgetsFollowed(p)'
  <2>1. Followed(batch, p) => Followed(batch', p)
    BY <1>2
  <2> QED
    BY <1>3, <2>1 DEF ForgetsFollowed, Followed, Has, ImportOf, ForgetOf
<1>4. ASSUME NEW p, Announced(p), batch[1].name # p PROVE Announced(p)'
  BY <1>2, <1>4 DEF Announced, PathsIn
<1> QED
  BY <1>2, <1>3, <1>4

\* An import: ignored for an active package, begun for any other.
LEMMA EvImportIInv == ASSUME IInv, EvImport PROVE IInv'
<1> DEFINE q == batch[1].name
<1>1. /\ pc = "batch" /\ batch # <<>> /\ q \in Paths /\ batch[1].kind = "import"
      /\ batch' = Tail(batch) /\ UNCHANGED <<userVars, watch, queue, todo, active>>
      /\ ImportIgnored(q) \/ ImportBegin(q, "batch")
  BY DEF EvImport, AtEvent
<1>2. UNCHANGED <<disk, writing, queue>>
  BY <1>1 DEF userVars
<1>3. /\ batch' \in Seq(Events)
      /\ \A p : ForgetsFollowed(p) => ForgetsFollowed(p)'
      /\ \A p : Has(batch, ForgetOf(p)) /\ batch[1] # ForgetOf(p) => Has(batch', ForgetOf(p))
      /\ \A p : Announced(p) /\ q # p => Announced(p)'
  BY <1>1, <1>2, NextEvent
<1>4. \A p : batch[1] # ForgetOf(p)
  BY <1>1 DEF ForgetOf
<1> HIDE DEF q
<1>5. CASE ImportIgnored(q)
  <2>1. lost' = lost \union {q} /\ UNCHANGED <<dbVars, pc, ret, cur, refused>>
    BY <1>5 DEF ImportIgnored
  <2>2. TypeOK'
    BY <1>1, <1>3, <2>1 DEF IInv, TypeOK, DbTypeOK, dbVars, txnVars, userVars
  <2>3. TransactionHeld'
    BY <1>1, <2>1 DEF IInv, TransactionHeld, Importing, dbVars, txnVars
  <2>4. OneRow' /\ OneRowSaved'
    BY <2>1 DEF IInv, OneRow, OneRowSaved, dbVars, txnVars
  <2>5. Control'
    BY <1>1, <2>1 DEF IInv, Control, Importing, dbVars, txnVars
  <2>6. Coherent'
    <3> SUFFICES ASSUME NEW p \in Paths \ lost'
                 PROVE  ForgetsFollowed(p)' /\ GoneForgotten(p)' /\ QuietAgrees(p)'
      BY DEF Coherent
    <3>1. ForgetsFollowed(p) /\ GoneForgotten(p) /\ QuietAgrees(p) /\ p # q
      BY <2>1 DEF IInv, Coherent
    <3>2. GoneForgotten(p)'
      BY <1>2, <1>3, <1>4, <2>1, <3>1 DEF GoneForgotten, RowsOf, Has, ForgetOf, dbVars, txnVars
    <3>3. QuietAgrees(p)'
      BY <1>1, <1>2, <1>3, <2>1, <3>1 DEF QuietAgrees, Readable, RowsOf, dbVars, txnVars
    <3> QED
      BY <1>3, <3>1, <3>2, <3>3
  <2> QED
    BY <2>2, <2>3, <2>4, <2>5, <2>6 DEF IInv
<1>6. CASE ImportBegin(q, "batch")
  <2>1. /\ packages' = packages /\ pc' = "toc" /\ ret' = "batch" /\ cur' = q
        /\ lost' = lost /\ DbTypeOK' /\ TransactionHeld' /\ OneRow' /\ OneRowSaved'
        /\ refused' \in SUBSET Paths
    BY <1>1, <1>6, BeginFacts
  <2>2. TypeOK'
    BY <1>1, <1>3, <2>1 DEF IInv, TypeOK, userVars
  <2>3. Control'
    BY <1>1, <2>1 DEF IInv, Control, Importing
  <2>4. Coherent'
    <3> SUFFICES ASSUME NEW p \in Paths \ lost
                 PROVE  ForgetsFollowed(p)' /\ GoneForgotten(p)' /\ QuietAgrees(p)'
      BY <2>1 DEF Coherent
    <3>1. ForgetsFollowed(p) /\ GoneForgotten(p) /\ QuietAgrees(p)
      BY DEF IInv, Coherent
    <3>2. GoneForgotten(p)'
      BY <1>1, <1>2, <1>3, <1>4, <2>1, <3>1 DEF GoneForgotten, RowsOf, Has, ForgetOf
    <3>3. QuietAgrees(p)'
      BY <1>1, <1>2, <1>3, <2>1, <3>1 DEF QuietAgrees, Readable, RowsOf
    <3> QED
      BY <1>3, <3>1, <3>2, <3>3
  <2> QED
    BY <2>1, <2>2, <2>3, <2>4 DEF IInv
<1> QED
  BY <1>1, <1>5, <1>6

\* A forget: the row goes, or sqlite refuses.  If the file is there all the
\* same, an import is still to come.
LEMMA EvForgetIInv == ASSUME IInv, EvForget PROVE IInv'
<1>1. PICK q : q = batch[1].name
  OBVIOUS
<1>2. /\ pc = "batch" /\ batch # <<>> /\ q \in Paths /\ batch[1].kind = "forget"
      /\ batch' = Tail(batch)
      /\ UNCHANGED <<userVars, watch, queue, pc, ret, cur, todo, active, refused>>
  BY <1>1 DEF EvForget, AtEvent
<1>3. PICK back \in BOOLEAN :
        \/ DbRemove(q, back) /\ lost' = lost \union LostWith(back)
        \/ DbRefused(back) /\ lost' = lost \union LostWith(back) \union {q}
  BY <1>1, SwitchesAreBoolean DEF EvForget
<1>4. /\ DbTypeOK' /\ mutex' = mutex
      /\ packages' \subseteq packages \/ packages' \subseteq Visible
      /\ saved' \in {saved, {}}
      /\ lost \subseteq lost' /\ lost' \in SUBSET Paths
      /\ \A p \in Paths \ lost' : p # q => RowsOf(packages, p)' = RowsOf(packages, p)
      /\ q \in lost' \/ RowsOf(packages', q) = {}
  <2>1. CASE DbRemove(q, back) /\ lost' = lost \union LostWith(back)
    <3>1. PICK r : r = q
      OBVIOUS
    <3>2. /\ DbTypeOK' /\ mutex' = mutex
          /\ packages' \subseteq packages \/ packages' \subseteq Visible
          /\ saved' \in {saved, {}} /\ LostWith(back) \in SUBSET Paths
          /\ RowsOf(packages, r)' = {}
          /\ \A p \in Paths \ LostWith(back) :
                 p # r => RowsOf(packages, p)' = RowsOf(packages, p)
      BY <1>2, <2>1, <3>1, RemoveFacts
    <3>3. RowsOf(packages, r)' = RowsOf(packages', q)
      BY <3>1 DEF RowsOf
    <3> QED
      BY <2>1, <3>1, <3>2, <3>3 DEF IInv, TypeOK
  <2>2. CASE DbRefused(back) /\ lost' = lost \union LostWith(back) \union {q}
    BY <1>2, <2>2, RefusedFacts DEF IInv, TypeOK
  <2> QED
    BY <1>3, <2>1, <2>2
<1>5. UNCHANGED <<disk, writing, queue>>
  BY <1>2 DEF userVars
<1>6. /\ batch[1] \in Events /\ batch' \in Seq(Events)
      /\ \A p : ForgetsFollowed(p) => ForgetsFollowed(p)'
      /\ \A p : Has(batch, ForgetOf(p)) /\ batch[1] # ForgetOf(p) => Has(batch', ForgetOf(p))
      /\ \A p : Announced(p) /\ q # p => Announced(p)'
  BY <1>1, <1>2, <1>5, NextEvent
<1>7. batch[1] = ForgetOf(q)
  BY <1>1, <1>2, <1>6 DEF Events, Overflow, ForgetOf
<1>8. Followed(batch, q) => Has(batch', ImportOf(q))
  <2>1. batch \in Seq(Events)
    BY DEF IInv, TypeOK
  <2> QED
    BY <1>2, <1>7, <2>1, TailFacts
<1>9. \A p : q # p => batch[1] # ForgetOf(p)
  BY <1>1 DEF ForgetOf
<1>10. TypeOK'
  BY <1>2, <1>6, <1>4 DEF IInv, TypeOK, userVars
<1>11. TransactionHeld'
  BY <1>2, <1>4 DEF IInv, TransactionHeld, Importing
<1>12. OneRow' /\ OneRowSaved'
  BY <1>2, <1>4, VisibleFacts DEF IInv, OneRow, OneRowSaved
<1>13. Control'
  BY <1>2 DEF IInv, Control, Importing
<1>14. Coherent'
  <2> SUFFICES ASSUME NEW p \in Paths \ lost'
               PROVE  ForgetsFollowed(p)' /\ GoneForgotten(p)' /\ QuietAgrees(p)'
    BY DEF Coherent
  <2>1. ForgetsFollowed(p) /\ GoneForgotten(p) /\ QuietAgrees(p)
    BY <1>4 DEF IInv, Coherent
  <2>2. CASE p # q
    <3>1. RowsOf(packages, p)' = RowsOf(packages, p)
      BY <1>4, <2>2
    <3>2. GoneForgotten(p)'
      BY <1>2, <1>5, <1>6, <1>9, <2>1, <2>2, <3>1 DEF GoneForgotten, Has, ForgetOf
    <3>3. QuietAgrees(p)'
      BY <1>2, <1>5, <1>6, <2>1, <2>2, <3>1 DEF QuietAgrees, Readable
    <3> QED
      BY <1>6, <2>1, <3>2, <3>3
  <2>3. CASE p = q
    <3>1. RowsOf(packages, p)' = {}
      BY <1>4, <2>3 DEF RowsOf
    <3>2. ASSUME Readable(p), p \notin writing PROVE Announced(p)'
      <4>1. Has(batch', ImportOf(p)) \/ Has(queue', ImportOf(p))
        BY <1>5, <1>8, <2>1, <2>3, <3>2 DEF ForgetsFollowed, Readable, Has
      <4> QED
        BY <4>1 DEF Announced, PathsIn, Has, ImportOf
    <3>3. QuietAgrees(p)'
      BY <1>5, <3>2 DEF QuietAgrees, Readable
    <3>4. GoneForgotten(p)'
      BY <3>1 DEF GoneForgotten
    <3> QED
      BY <1>6, <2>1, <3>3, <3>4
  <2> QED
    BY <2>2, <2>3
<1> QED
  BY <1>10, <1>11, <1>12, <1>13, <1>14 DEF IInv

\* The handler returns to the loop.
LEMMA BatchEndsIInv == ASSUME IInv, BatchEnds PROVE IInv'
<1>2. /\ pc = "batch" /\ batch = <<>> /\ pc' = "idle"
      /\ UNCHANGED <<dbVars, userVars, watch, queue, ret, cur, todo, batch, active, lost, refused>>
  BY DEF BatchEnds
<1>5. TypeOK'
  BY <1>2 DEF IInv, TypeOK, DbTypeOK, dbVars, txnVars, userVars
<1>6. TransactionHeld'
  BY <1>2 DEF IInv, TransactionHeld, Importing, dbVars, txnVars
<1>7. OneRow' /\ OneRowSaved'
  BY <1>2 DEF IInv, OneRow, OneRowSaved, dbVars, txnVars
<1>8. Control'
  BY <1>2 DEF IInv, Control, Importing, dbVars, txnVars
<1>9. Coherent'
  <2>1. ASSUME NEW q \in Paths, QuietAgrees(q) PROVE QuietAgrees(q)'
    BY <1>2, <2>1
       DEF QuietAgrees, Readable, Announced, PathsIn, RowsOf, userVars, dbVars, txnVars
  <2> QED
    BY <1>2, <2>1, FrameCoherent DEF userVars, dbVars, txnVars
<1> QED
  BY <1>5, <1>6, <1>7, <1>8, <1>9 DEF IInv

\* The other callbacks touch only the handle cache.
LEMMA CacheIInv ==
    ASSUME IInv, active' \in SUBSET Paths,
           UNCHANGED <<dbVars, userVars, queue, daemonVars, lost, refused>>
    PROVE  IInv'
<1>2. UNCHANGED <<packages, table, saved, savedTable, txn, mutex, disk, writing, queue,
                  watch, pc, ret, cur, todo, batch, lost, refused>>
  BY DEF dbVars, txnVars, userVars, daemonVars
<1>5. TypeOK'
  BY <1>2 DEF IInv, TypeOK, DbTypeOK
<1>6. TransactionHeld'
  BY <1>2 DEF IInv, TransactionHeld, Importing
<1>7. OneRow' /\ OneRowSaved'
  BY <1>2 DEF IInv, OneRow, OneRowSaved
<1>8. Control'
  BY <1>2 DEF IInv, Control, Importing, RowsOf
<1>9. Coherent'
  BY <1>2 DEF IInv, Coherent, ForgetsFollowed, GoneForgotten, QuietAgrees, Followed, Has,
     Readable, Announced, PathsIn, RowsOf, ForgetOf, ImportOf
<1> QED
  BY <1>5, <1>6, <1>7, <1>8, <1>9 DEF IInv

-----------------------------------------------------------------------------
(***************************************************************************)
(* What the kernel does with an event: it reaches the end of the queue, or *)
(* its package is lost, or nobody watches and nothing waits.               *)
(***************************************************************************)
LEMMA PostFacts ==
    ASSUME IInv, NEW kind \in {"import", "forget"}, NEW name \in Paths \union Noise,
           Post(kind, name)
    PROVE  /\ queue' \in Seq(Events)
           /\ lost \subseteq lost' /\ lost' \in SUBSET Paths
           /\ ~watch => queue' = queue
           /\ Deaf /\ name \in Paths => name \in lost'
           /\ \A x : Has(queue, x) => Has(queue', x)
           /\ PathsIn(queue) \subseteq PathsIn(queue')
           /\ \A p \in Paths : Followed(queue, p) /\ p # name => Followed(queue', p)
           /\ watch /\ name \in Paths \ lost' =>
                  /\ Has(queue', [kind |-> kind, name |-> name])
                  /\ kind = "import" => Followed(queue', name)
<1> DEFINE event == [kind |-> kind, name |-> name]
<1>1. /\ queue \in Seq(Events) /\ event \in Events /\ Overflow \in Events
      /\ lost \in SUBSET Paths
  BY DEF IInv, TypeOK, Events
<1>2. /\ \A p : event = ForgetOf(p) => p = name
      /\ \A p : Overflow # ForgetOf(p)
      /\ kind = "import" => event = ImportOf(name)
      /\ event # Overflow
  BY DEF ForgetOf, ImportOf, Overflow
<1> HIDE DEF event
<1>7. watch => ~Deaf
  BY DEF Deaf
<1>3. CASE watch /\ queue' = Append(queue, event) /\ lost' = lost
  BY <1>1, <1>2, <1>3, <1>7, AppendFacts DEF event
<1>4. CASE /\ watch /\ queue' = queue /\ lost' = lost
           /\ (IF queue = <<>> THEN Overflow ELSE queue[Len(queue)]) = event
  <2>1. Len(queue) \in DOMAIN queue /\ queue[Len(queue)] = event
        /\ DOMAIN queue = 1..Len(queue) /\ Len(queue) \in Nat
    <3>1. queue # <<>> /\ queue[Len(queue)] = event
      BY <1>2, <1>4
    <3> QED
      BY <1>1, <3>1
  <2>2. Has(queue, event)
    BY <2>1 DEF Has
  <2>3. ASSUME event = ImportOf(name) PROVE Followed(queue, name)
    <3> SUFFICES ASSUME NEW i \in DOMAIN queue, queue[i] = ForgetOf(name)
                 PROVE  i < Len(queue)
      BY <2>1, <2>3 DEF Followed
    <3>1. ForgetOf(name) # ImportOf(name)
      BY DEF ForgetOf, ImportOf
    <3>2. i # Len(queue)
      BY <2>1, <2>3, <3>1
    <3> QED
      BY <2>1, <3>2
  <2> QED
    BY <1>1, <1>2, <1>4, <1>7, <2>2, <2>3 DEF event
<1>5. CASE /\ watch /\ queue' \in {queue, Append(queue, Overflow)}
           /\ lost' = lost \union ({name} \intersect Paths)
  <2>1. CASE queue' = queue
    BY <1>1, <1>5, <2>1
  <2>2. CASE queue' = Append(queue, Overflow)
    BY <1>1, <1>2, <1>5, <2>2, AppendFacts
  <2> QED
    BY <1>5, <2>1, <2>2
<1>6. CASE /\ ~watch /\ queue' = queue
           /\ lost' = (IF Deaf THEN lost \union ({name} \intersect Paths) ELSE lost)
  BY <1>1, <1>6
<1> QED
  BY <1>3, <1>4, <1>5, <1>6, <1>7 DEF Post, event, Watched

(***************************************************************************)
(* A change of the directory that is announced.  After a forget the file   *)
(* is gone; an import never stands for one that went.                      *)
(***************************************************************************)
LEMMA AnnouncedChange ==
    ASSUME IInv, NEW kind \in {"import", "forget"}, NEW name \in Paths \union Noise,
           Post(kind, name), UNCHANGED <<dbVars, daemonVars, active, refused>>,
           disk' \in [Paths -> Files \union {Absent}], writing' \in SUBSET Paths,
           \A q \in Paths : q # name => disk'[q] = disk[q] /\ (q \in writing <=> q \in writing'),
           name \in Paths /\ kind = "forget" => disk'[name] = Absent,
           name \in Paths /\ kind = "import" /\ disk'[name] = Absent => disk[name] = Absent
    PROVE  IInv'
<1>1. UNCHANGED <<packages, table, saved, savedTable, txn, mutex, watch, pc, ret, cur, todo,
                  batch, active, refused>>
  BY DEF dbVars, txnVars, daemonVars
<1>2. /\ queue' \in Seq(Events)
      /\ lost \subseteq lost' /\ lost' \in SUBSET Paths
      /\ ~watch => queue' = queue
      /\ Deaf /\ name \in Paths => name \in lost'
      /\ \A x : Has(queue, x) => Has(queue', x)
      /\ PathsIn(queue) \subseteq PathsIn(queue')
      /\ \A p \in Paths : Followed(queue, p) /\ p # name => Followed(queue', p)
      /\ watch /\ name \in Paths \ lost' =>
             /\ Has(queue', [kind |-> kind, name |-> name])
             /\ kind = "import" => Followed(queue', name)
  BY PostFacts
<1>3. TypeOK'
  BY <1>1, <1>2 DEF IInv, TypeOK, DbTypeOK
<1>4. TransactionHeld'
  BY <1>1 DEF IInv, TransactionHeld, Importing
<1>5. OneRow' /\ OneRowSaved'
  BY <1>1 DEF IInv, OneRow, OneRowSaved
<1>6. Control'
  BY <1>1, <1>2 DEF IInv, Control, Importing, RowsOf
<1>7. ASSUME NEW p \in Paths \ lost', p # name
      PROVE  ForgetsFollowed(p)' /\ GoneForgotten(p)' /\ QuietAgrees(p)'
  <2>1. ForgetsFollowed(p) /\ GoneForgotten(p) /\ QuietAgrees(p)
    BY <1>2 DEF IInv, Coherent
  <2>2. disk'[p] = disk[p] /\ (p \in writing <=> p \in writing')
    BY <1>7
  <2>3. ForgetsFollowed(p)'
    <3>1. /\ Followed(queue, p) => Followed(queue', p)
          /\ Has(queue, ImportOf(p)) => Has(queue', ImportOf(p))
      BY <1>2, <1>7
    <3> QED
      BY <1>1, <2>1, <2>2, <3>1 DEF ForgetsFollowed, Followed, Has, ImportOf, ForgetOf
  <2>4. GoneForgotten(p)'
    <3>1. Has(queue, ForgetOf(p)) => Has(queue', ForgetOf(p))
      BY <1>2
    <3> QED
      BY <1>1, <2>1, <2>2, <3>1 DEF GoneForgotten, RowsOf, Has, ForgetOf
  <2>5. QuietAgrees(p)'
    <3>1. Announced(p) => Announced(p)'
      BY <1>1, <1>2 DEF Announced, PathsIn
    <3> QED
      BY <1>1, <2>1, <2>2, <3>1 DEF QuietAgrees, Readable, RowsOf
  <2> QED
    BY <2>3, <2>4, <2>5
<1>8. ASSUME name \in Paths \ lost'
      PROVE  ForgetsFollowed(name)' /\ GoneForgotten(name)' /\ QuietAgrees(name)'
  <2>1. ForgetsFollowed(name) /\ GoneForgotten(name) /\ QuietAgrees(name)
    BY <1>2, <1>8 DEF IInv, Coherent
  <2>2. CASE ~watch
    <3>1. queue' = <<>> /\ batch' = <<>> /\ pc' \in {"dead", "watch"}
          /\ (pc' = "watch" => RowsOf(packages', name) = {})
      BY <1>1, <1>2, <1>8, <2>2 DEF IInv, Control, Deaf, PathsOf, RowsOf
    <3>2. ForgetsFollowed(name)'
      BY <3>1 DEF ForgetsFollowed, Followed
    <3>3. GoneForgotten(name)' /\ QuietAgrees(name)'
      BY <3>1 DEF GoneForgotten, QuietAgrees, RowsOf
    <3> QED
      BY <3>2, <3>3
  <2>3. CASE watch /\ kind = "forget"
    <3>1. disk'[name] = Absent /\ Has(queue', ForgetOf(name))
      BY <1>2, <1>8, <2>3 DEF ForgetOf
    <3> QED
      BY <3>1 DEF ForgetsFollowed, GoneForgotten, QuietAgrees, Readable, Has, ForgetOf
  <2>4. CASE watch /\ kind = "import"
    <3>1. Has(queue', ImportOf(name)) /\ Followed(queue', name)
      BY <1>2, <1>8, <2>4 DEF ImportOf
    <3>2. Announced(name)'
      BY <1>8, <3>1 DEF Has, Announced, PathsIn, ImportOf
    <3>3. Has(queue, ForgetOf(name)) => Has(queue', ForgetOf(name))
      BY <1>2
    <3>4. ForgetsFollowed(name)'
      BY <3>1 DEF ForgetsFollowed, Followed, Has, ImportOf, ForgetOf
    <3>5. GoneForgotten(name)'
      BY <1>1, <1>8, <2>1, <2>4, <3>3 DEF GoneForgotten, RowsOf, Has, ForgetOf
    <3> QED
      BY <3>2, <3>4, <3>5 DEF QuietAgrees
  <2> QED
    BY <2>2, <2>3, <2>4
<1>9. Coherent'
  <2> SUFFICES ASSUME NEW p \in Paths \ lost'
               PROVE  ForgetsFollowed(p)' /\ GoneForgotten(p)' /\ QuietAgrees(p)'
    BY DEF Coherent
  <2> QED
    BY <1>7, <1>8
<1> QED
  BY <1>3, <1>4, <1>5, <1>6, <1>9 DEF IInv

\* The users of the directory.
LEMMA UserIInv == ASSUME IInv, User PROVE IInv'
<1>1. disk \in [Paths -> Files \union {Absent}] /\ writing \in SUBSET Paths
  BY DEF IInv, TypeOK
<1>2. ASSUME NEW p \in Paths, Write(p) PROVE IInv'
  <2>1. PICK f \in Files : disk' = [disk EXCEPT ![p] = f]
    BY <1>2 DEF Write
  <2>2. /\ writing' = writing \union {p}
        /\ UNCHANGED <<packages, table, saved, savedTable, txn, mutex, queue, watch, pc, ret, cur,
                       todo, batch, active, lost, refused>>
    BY <1>2 DEF Write, dbVars, txnVars, daemonVars
  <2>3. /\ disk' \in [Paths -> Files \union {Absent}]
        /\ disk'[p] # Absent /\ \A q \in Paths : q # p => disk'[q] = disk[q]
    BY <1>1, <2>1, AbsentIsNoFile
  <2>4. TypeOK'
    BY <2>2, <2>3 DEF IInv, TypeOK, DbTypeOK
  <2>5. TransactionHeld'
    BY <2>2 DEF IInv, TransactionHeld, Importing
  <2>6. OneRow' /\ OneRowSaved'
    BY <2>2 DEF IInv, OneRow, OneRowSaved
  <2>7. Control'
    BY <2>2 DEF IInv, Control, Importing, RowsOf
  <2>8. Coherent'
    <3> SUFFICES ASSUME NEW q \in Paths \ lost
                 PROVE  ForgetsFollowed(q)' /\ GoneForgotten(q)' /\ QuietAgrees(q)'
      BY <2>2 DEF Coherent
    <3>1. CASE q = p
      BY <2>2, <2>3, <3>1 DEF ForgetsFollowed, GoneForgotten, QuietAgrees
    <3>2. CASE q # p
      <4>1. ForgetsFollowed(q) /\ GoneForgotten(q) /\ QuietAgrees(q)
        BY DEF IInv, Coherent
      <4>2. disk'[q] = disk[q] /\ (q \in writing <=> q \in writing')
        BY <2>2, <2>3, <3>2
      <4> QED
        BY <2>2, <4>1, <4>2 DEF ForgetsFollowed, GoneForgotten, QuietAgrees, Followed, Has,
           Readable, Announced, PathsIn, RowsOf, ForgetOf, ImportOf
    <3> QED
      BY <3>1, <3>2
  <2> QED
    BY <2>4, <2>5, <2>6, <2>7, <2>8 DEF IInv
<1>3. ASSUME NEW p \in Paths, CloseWrite(p) PROVE IInv'
  <2>1. /\ writing' = writing \ {p} /\ Post("import", p) /\ disk' = disk
        /\ UNCHANGED <<dbVars, daemonVars, active, refused>>
    BY <1>3 DEF CloseWrite
  <2> QED
    BY <1>1, <2>1, AnnouncedChange
<1>4. ASSUME NEW p \in Paths, Remove(p) PROVE IInv'
  <2>1. /\ disk' = [disk EXCEPT ![p] = Absent] /\ writing' = writing \ {p}
        /\ Post("forget", p) /\ UNCHANGED <<dbVars, daemonVars, active, refused>>
    BY <1>4 DEF Remove
  <2> QED
    BY <1>1, <2>1, AnnouncedChange
<1>5. ASSUME NEW p \in Paths, MoveIn(p) PROVE IInv'
  <2>1. PICK f \in Files : disk' = [disk EXCEPT ![p] = f]
    BY <1>5 DEF MoveIn
  <2>2. /\ writing' = writing \ {p} /\ Post("import", p)
        /\ UNCHANGED <<dbVars, daemonVars, active, refused>>
    BY <1>5 DEF MoveIn
  <2>3. f # Absent
    BY AbsentIsNoFile
  <2> QED
    BY <1>1, <2>1, <2>2, <2>3, AnnouncedChange
<1>6. ASSUME NEW n \in Noise, TouchNoise(n) PROVE IInv'
  <2>1. /\ Post("import", n) /\ disk' = disk /\ writing' = writing
        /\ UNCHANGED <<dbVars, daemonVars, active, refused>>
    BY <1>6 DEF TouchNoise, userVars
  <2>2. n \notin Paths
    BY NoiseAssumption, NamesDistinct
  <2> QED
    BY <1>1, <2>1, <2>2, AnnouncedChange
<1> QED
  BY <1>2, <1>3, <1>4, <1>5, <1>6 DEF User

-----------------------------------------------------------------------------
\* Before the first start nothing is promised.
LEMMA InitIInv == Init => IInv
<1> SUFFICES ASSUME Init PROVE IInv
  OBVIOUS
<1>1. TypeOK
  <2>1. /\ table \in BOOLEAN /\ savedTable \in BOOLEAN /\ txn \in BOOLEAN
        /\ mutex \in BOOLEAN /\ watch \in BOOLEAN
    BY Zenon DEF Init, DbInit
  <2> QED
    BY <2>1 DEF Init, DbInit, TypeOK, DbTypeOK
<1>2. TransactionHeld /\ OneRow /\ OneRowSaved /\ Control
  BY DEF Init, DbInit, TransactionHeld, OneRow, OneRowSaved, Control, Importing
<1>3. Coherent
  BY DEF Init, Coherent, ForgetsFollowed, GoneForgotten, QuietAgrees, Followed
<1> QED
  BY <1>1, <1>2, <1>3 DEF IInv

\* Every step keeps the invariant.
LEMMA NextIInv == IInv /\ [Next]_vars => IInv'
<1> SUFFICES ASSUME IInv, [Next]_vars PROVE IInv'
  OBVIOUS
<1>1. CASE User
  BY <1>1, UserIInv
<1>2. CASE Start \/ StartFails
  BY <1>2, StartIInv, StartFailsIInv
<1>3. CASE Kill \/ WalkNoExt \/ EvNoExt
  BY <1>3, DieIInv DEF Kill, WalkNoExt, EvNoExt
<1>4. CASE WatchInit \/ OpenDir \/ OpenDirFails
  BY <1>4, WatchInitIInv, OpenDirIInv, OpenDirFailsIInv
<1>5. CASE \E p \in Paths : WalkImport(p)
  BY <1>5, WalkImportIInv
<1>6. CASE WalkHidden \/ WalkStops \/ WalkEnds
  BY <1>6, WalkHiddenIInv, WalkStopsIInv, WalkEndsIInv
<1>7. CASE TocFails \/ TocOpen \/ StatAdd \/ Commit
  BY <1>7, TocFailsIInv, TocOpenIInv, StatAddIInv, CommitIInv
<1>8. CASE ReadEvents \/ EvHidden \/ EvReturn
  BY <1>8, ReadEventsIInv, EvHiddenIInv, EvReturnIInv
<1>9. CASE EvImport \/ EvForget \/ BatchEnds
  BY <1>9, EvImportIInv, EvForgetIInv, BatchEndsIInv
<1>10. active \in SUBSET Paths
  BY DEF IInv, TypeOK
<1>11. CASE PkgGc
  BY <1>10, <1>11, CacheIInv DEF PkgGc
<1>12. CASE \E p \in Paths : PkgOpen(p)
  BY <1>10, <1>12, CacheIInv DEF PkgOpen
<1>13. CASE UNCHANGED vars
  BY <1>10, <1>13, CacheIInv DEF vars
<1> QED
  BY <1>1, <1>2, <1>3, <1>4, <1>5, <1>6, <1>7, <1>8, <1>9, <1>11, <1>12, <1>13
     DEF Next, Daemon

(***************************************************************************)
(* The invariant holds in every state the daemon, its users and the kernel *)
(* can reach.                                                              *)
(***************************************************************************)
THEOREM Invariant == Spec => []IInv
BY InitIInv, NextIInv, PTL DEF Spec

\* Every variable keeps to its type.
THEOREM Types == Spec => []TypeOK
<1>1. IInv => TypeOK
  BY DEF IInv
<1> QED
  BY <1>1, Invariant, PTL

(***************************************************************************)
(* Whenever directory and database differ on a package, the daemon is      *)
(* still going to look at it, or it is being written, or its change was    *)
(* lost in one of the ways the code admits.                                *)
(***************************************************************************)
THEOREM NothingElseIsLost == Spec => []Tracked
<1>1. IInv => Tracked
  <2> SUFFICES ASSUME IInv, pc # "dead", NEW p \in Paths \ (lost \union writing)
               PROVE  Agrees(p) \/ Pending(p)
    BY DEF Tracked
  <2>1. GoneForgotten(p) /\ QuietAgrees(p)
    BY DEF IInv, Coherent
  <2>2. CASE disk[p] = Absent
    <3>1. Has(batch, ForgetOf(p)) \/ Has(queue, ForgetOf(p)) => Announced(p)
      BY DEF Has, Announced, PathsIn, ForgetOf
    <3> QED
      BY <2>1, <2>2, <3>1 DEF GoneForgotten, Agrees, Pending
  <2>3. CASE disk[p] # Absent /\ ~Readable(p)
    BY <2>3 DEF Agrees
  <2>4. CASE Readable(p)
    BY <2>1, <2>4 DEF QuietAgrees, Agrees, Pending, Readable
  <2> QED
    BY <2>2, <2>3, <2>4
<1> QED
  BY <1>1, Invariant, PTL

\* No package has two rows, however often it is imported.
THEOREM OneRowEach == Spec => []OneRow
<1>1. IInv => OneRow
  BY DEF IInv
<1> QED
  BY <1>1, Invariant, PTL

\* db_mutex is held exactly while an import runs, inside a transaction.
THEOREM TransactionAroundImport == Spec => []TransactionHeld
<1>1. IInv => TransactionHeld
  BY DEF IInv
<1> QED
  BY <1>1, Invariant, PTL

(***************************************************************************)
(* What other connections see changes only when the daemon starts, forgets *)
(* a package, or commits: BEGIN, the statements of an import, ROLLBACK and *)
(* the death of the daemon show them nothing, unless the package that is   *)
(* imported is one sqlite refused a statement about.                       *)
(***************************************************************************)
LEMMA VisibleStep ==
    ASSUME IInv, [Next]_vars, pc # "dead", batch' = batch
    PROVE  \/ Visible' = Visible
           \/ pc = "commit" /\ Visible' = packages
           \/ /\ cur \in refused'
              /\ \A p \in Paths : p # cur => RowsOf(Visible', p) = RowsOf(Visible, p)
<1>1. CASE UNCHANGED dbVars
  BY <1>1 DEF dbVars, txnVars, Visible
<1>2. Importing => txn \/ cur \in refused
  BY DEF IInv, TransactionHeld
<1>3. CASE User
  BY <1>1, <1>3 DEF User, Write, CloseWrite, Remove, MoveIn, TouchNoise
<1>4. CASE Start \/ StartFails \/ UNCHANGED vars
  BY <1>1, <1>4 DEF Start, StartFails, vars
<1>5. CASE TakenBack
  BY <1>5 DEF TakenBack, TxnEnds, Visible
<1>6. CASE Kill \/ WalkNoExt \/ EvNoExt
  BY <1>5, <1>6 DEF Kill, WalkNoExt, EvNoExt, Die, DbAbandon
<1>7. CASE UNCHANGED <<packages, table, txnVars>>
  BY <1>7 DEF txnVars, Visible
<1>8. CASE \E p \in Paths : WalkImport(p)
  BY <1>8, BeginFacts DEF WalkImport
<1>9. CASE TocFails
  BY <1>5, <1>7, <1>9 DEF TocFails, DbRollback
<1>10. CASE \E back \in BOOLEAN : DbRefused(back)
  BY <1>5, <1>7, <1>10 DEF DbRefused
<1>11. ASSUME pc = "toc", cur \in Paths, NEW back \in BOOLEAN, DbRemove(cur, back),
              refused \subseteq refused', back => cur \in refused'
       PROVE  \/ Visible' = Visible
              \/ /\ cur \in refused'
                 /\ \A p \in Paths : p # cur => RowsOf(Visible', p) = RowsOf(Visible, p)
  <2>1. CASE txn /\ ~back
    BY <1>11, <2>1 DEF DbRemove, txnVars, Visible
  <2>2. CASE ~txn \/ back
    <3>1. cur \in refused'
      BY <1>2, <1>11, <2>2 DEF Importing
    <3>2. Visible' = Visible \ RowsOf(Visible, cur)
      BY <1>11, <2>2 DEF DbRemove, TxnEnds, txnVars, Visible
    <3> QED
      BY <3>1, <3>2 DEF RowsOf
  <2> QED
    BY <2>1, <2>2
<1>12. CASE TocOpen
  <2>1. pc = "toc" /\ cur \in Paths
    BY <1>12 DEF TocOpen, IInv, Control, Importing
  <2> QED
    BY <1>10, <1>11, <1>12, <2>1 DEF TocOpen
<1>13. ASSUME pc \in {"stat", "kept"}, NEW v, DbInsert(cur, v), refused \subseteq refused'
       PROVE  \/ Visible' = Visible
              \/ /\ cur \in refused'
                 /\ \A p \in Paths : p # cur => RowsOf(Visible', p) = RowsOf(Visible, p)
  <2>1. CASE txn
    BY <1>13, <2>1 DEF DbInsert, txnVars, Visible
  <2>2. CASE ~txn
    <3>1. cur \in refused' /\ Visible' = Visible \union {<<cur, v>>}
      BY <1>2, <1>13, <2>2 DEF DbInsert, txnVars, Visible, Importing
    <3> QED
      BY <3>1 DEF RowsOf
  <2> QED
    BY <2>1, <2>2
<1>14. CASE StatAdd
  BY <1>1, <1>10, <1>13, <1>14 DEF StatAdd
<1>15. CASE Commit
  <2>1. pc = "commit"
    BY <1>15 DEF Commit
  <2>2. CASE DbCommit("done")
    BY <2>1, <2>2 DEF DbCommit, TxnEnds, Visible
  <2>3. CASE DbCommit("busy") \/ DbCommit("back")
    BY <1>5, <1>7, <2>3 DEF DbCommit
  <2> QED
    BY <1>15, <2>2, <2>3 DEF Commit
<1>16. CASE EvImport \/ EvForget
  BY <1>16, NextEvent DEF EvImport, EvForget, AtEvent, userVars
<1>17. CASE WatchInit \/ OpenDir \/ OpenDirFails \/ WalkHidden \/ WalkStops \/ WalkEnds
  BY <1>1, <1>17 DEF WatchInit, OpenDir, OpenDirFails, WalkHidden, WalkStops, WalkEnds
<1>18. CASE ReadEvents \/ EvHidden \/ EvReturn \/ BatchEnds
  BY <1>1, <1>18 DEF ReadEvents, EvHidden, EvReturn, BatchEnds
<1>19. CASE PkgGc \/ \E p \in Paths : PkgOpen(p)
  BY <1>1, <1>19 DEF PkgGc, PkgOpen
<1> QED
  BY <1>3, <1>4, <1>6, <1>8, <1>9, <1>12, <1>14, <1>15, <1>16, <1>17, <1>18, <1>19
     DEF Next, Daemon

(***************************************************************************)
(* For the readers of the database file an upgrade is one step: a package  *)
(* that is in place and settled never vanishes because it is imported      *)
(* again, unless sqlite refused a statement of an import of it.            *)
(***************************************************************************)
THEOREM UpgradeIsAtomic == Spec => UpgradeAtomic
<1> DEFINE Kept ==
        \A p \in Paths :
            RowsOf(Visible, p) # {} /\ RowsOf(Visible, p)' = {} =>
                \/ pc = "dead"
                \/ batch # batch'
                \/ p \in refused'
                \/ pc = "commit" /\ (p \in lost \union writing \/ ~Readable(p) \/ Pending(p))
<1>1. IInv /\ [Next]_vars => Kept
  <2> SUFFICES ASSUME IInv, [Next]_vars, NEW p \in Paths, pc # "dead", batch' = batch,
                      p \notin refused', RowsOf(Visible, p) # {}, RowsOf(Visible, p)' = {}
               PROVE  /\ pc = "commit"
                      /\ p \in lost \union writing \/ ~Readable(p) \/ Pending(p)
    OBVIOUS
  <2>1. RowsOf(Visible, p)' = RowsOf(Visible', p)
    BY DEF RowsOf
  <2>2. pc = "commit" /\ Visible' = packages
    BY <2>1, VisibleStep
  <2>3. RowsOf(packages, p) = {}
    BY <2>1, <2>2
  <2>4. p \notin lost => QuietAgrees(p)
    BY DEF IInv, Coherent
  <2> QED
    BY <2>2, <2>3, <2>4 DEF QuietAgrees, Pending
<1> QED
  BY <1>1, Invariant, PTL DEF Spec, UpgradeAtomic
=============================================================================
