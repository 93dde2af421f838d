------------------------------- MODULE PkgDb -------------------------------
(***************************************************************************)
(* The package table of db_sqlite.c as the daemon's connection sees it,    *)
(* its one transaction, and the mutex taken for as long as an import runs. *)
(*                                                                         *)
(* Abstractions.  A row is the pair of a package's path and its version    *)
(* (st_mtime); the id sqlite gives it is used by nobody but the table      *)
(* files, into which no reachable code inserts, so both are left out.      *)
(* sqlite itself is external: db_query discards the result of every step,  *)
(* so a statement sqlite refuses goes unnoticed.  It did nothing (a quote  *)
(* in the path, no such table), or it took the open transaction back with  *)
(* it, as sqlite does on a full disk, an I/O error or for want of memory.  *)
(***************************************************************************)
CONSTANTS
    Paths,      \* the package files that may lie in the watched directory
    Versions,   \* the modification times they may have
    Readers,    \* other processes read the database file while we write it
    Faults      \* system calls and statements are refused now and then

VARIABLES
    packages,   \* the rows, as the daemon's connection sees them
    table,      \* the table packages exists, as the connection sees it
    saved,      \* the rows as they were at BEGIN, while a transaction is open
    savedTable, \* table as it was at BEGIN
    txn,        \* a transaction is open on the connection
    mutex       \* db_mutex is locked

txnVars == <<saved, savedTable, txn>>
dbVars == <<packages, table, txnVars, mutex>>

DbTypeOK ==
    /\ packages \in SUBSET (Paths \X Versions)
    /\ table \in BOOLEAN
    /\ saved \in SUBSET (Paths \X Versions)
    /\ savedTable \in BOOLEAN
    /\ txn \in BOOLEAN
    /\ mutex \in BOOLEAN

\* What any other connection (the readers of the database file) sees.
Visible == IF txn THEN saved ELSE packages
VisibleTable == IF txn THEN savedTable ELSE table

RowsOf(rows, p) == {r \in rows : r[1] = p}
PathsOf(rows) == {r[1] : r \in rows}

\* The packages on which a transaction taken back changes anything: those it
\* imported or forgot, and those of an earlier import whose COMMIT failed.
Discarded == PathsOf((packages \ Visible) \union (Visible \ packages))

-----------------------------------------------------------------------------
\* The transaction is over; its outcome is given by packages and table.
TxnEnds == saved' = {} /\ savedTable' = FALSE /\ txn' = FALSE

TakenBack == packages' = Visible /\ table' = VisibleTable /\ TxnEnds

\* A statement that is refused, or the state it may leave behind.
DbRefused(back) ==
    /\ IF back THEN TakenBack ELSE UNCHANGED <<packages, table, txnVars>>
    /\ UNCHANGED mutex

\* Before the first start.
DbInit ==
    /\ packages = {} /\ table = FALSE
    /\ saved = {} /\ savedTable = FALSE /\ txn = FALSE
    /\ mutex = FALSE

(***************************************************************************)
(* db_sqlite_open and db_sqlite_initialize.  The old file is removed, or   *)
(* kept: its name may begin with a colon, and nobody looks at the result   *)
(* of unlink.  Both tables are made anew, unless DROP or CREATE is         *)
(* refused; COMMIT may fail with SQLITE_BUSY and leave it all uncommitted. *)
(***************************************************************************)
DbOpen ==
    \E kept \in BOOLEAN :
        LET old      == IF kept THEN packages ELSE {}
            oldTable == kept /\ table
        IN  /\ \/ packages' = {} /\ table' = TRUE
               \/ Faults /\ packages' = {} /\ table' = FALSE
               \/ Faults /\ packages' = old /\ table' = oldTable
            /\ \/ TxnEnds
               \/ Readers /\ saved' = old /\ savedTable' = oldTable /\ txn' = TRUE
            /\ mutex' = FALSE

\* Mutant: the mutex is taken and BEGIN left out.
DbBeginBare(ok) ==
    /\ ~mutex
    /\ mutex' = TRUE
    /\ UNCHANGED <<packages, table, txnVars>>

\* db_begin.  BEGIN inside a transaction is an error that goes unnoticed.
DbBegin(ok) ==
    /\ ~mutex
    /\ mutex' = TRUE
    /\ IF ok /\ ~txn
       THEN saved' = packages /\ savedTable' = table /\ txn' = TRUE
       ELSE UNCHANGED txnVars
    /\ UNCHANGED <<packages, table>>

\* db_commit.  COMMIT while another process reads the file fails with
\* SQLITE_BUSY and leaves the transaction open; any other error takes it
\* back.  The mutex is unlocked anyway.
DbCommit(result) ==
    /\ mutex' = FALSE
    /\ \/ result = "done" /\ TxnEnds /\ UNCHANGED <<packages, table>>
       \/ result = "busy" /\ UNCHANGED <<packages, table, txnVars>>
       \/ result = "back" /\ TakenBack

\* db_rollback.
DbRollback(ok) ==
    /\ mutex' = FALSE
    /\ IF ok THEN TakenBack ELSE UNCHANGED <<packages, table, txnVars>>

\* db_pkg_remove, when the rows of the package go.  The statement before it,
\* on the table files, may have taken the transaction back.
DbRemove(p, back) ==
    LET rows == IF back THEN Visible ELSE packages
    IN  /\ IF back THEN VisibleTable ELSE table
        /\ packages' = rows \ RowsOf(rows, p)
        /\ table' = TRUE
        /\ IF back THEN TxnEnds ELSE UNCHANGED txnVars
        /\ UNCHANGED mutex

\* db_pkg_add, when the row is inserted.
DbInsert(p, version) ==
    /\ table
    /\ packages' = packages \union {<<p, version>>}
    /\ UNCHANGED <<table, txnVars, mutex>>

\* The death of the daemon: the journal takes the file back to its last
\* commit.
DbAbandon == TakenBack /\ mutex' = FALSE
=============================================================================
