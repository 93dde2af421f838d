---------------------------- MODULE MCFuseTree -----------------------------
(* TLC's instance of FuseTree.                                             *)
EXTENDS FuseTree

NameA == <<"a", 0>>
NameB == <<"b", 0>>
TwoNames == {NameA, NameB}

(* Directories and files; an entry is <<parent, name, is it a directory>>. *)
TwoDirs == 2 :> <<1, NameA, TRUE>> @@ 3 :> <<1, NameB, TRUE>> @@ 4 :> <<2, NameA, FALSE>>
OneDir == 2 :> <<1, NameA, TRUE>> @@ 3 :> <<2, NameA, FALSE>>
OneFile == 2 :> <<1, NameA, FALSE>>
TwoFiles == OneFile @@ 3 :> <<1, NameB, FALSE>>

Case(tree, last, ops, max, kill) ==
    [tree |-> tree, ctr |-> last, sent |-> ops, max |-> max, kill |-> kill, two |-> 1,
     queued |-> FALSE, vanish |-> FALSE, hard |-> FALSE, opened |-> 0, locks |-> {}]

(* One owner locks and unlocks every range of four offsets, the last of    *)
(* them OFFSET_MAX; two owners get into each other's way.                  *)
Flock(o, ty, st, len) == [owner |-> o, type |-> ty, start |-> st, len |-> len]
Ranges == {<<0, 1>>, <<0, 2>>, <<0, 3>>, <<0, 0>>, <<1, 1>>, <<1, 2>>, <<1, 0>>, <<2, 1>>, <<2, 0>>, <<3, 0>>}
OneOwner == {Flock(1, ty, r[1], r[2]) : ty \in {"F_RDLCK", "F_WRLCK", "F_UNLCK"}, r \in Ranges}
TwoOwners == {Flock(1, "F_WRLCK", 1, 1), Flock(1, "F_RDLCK", 0, 0), Flock(1, "F_UNLCK", 1, 2),
              Flock(2, "F_RDLCK", 1, 0), Flock(2, "F_UNLCK", 2, 1)}
LockCase(ops, max, locks) == [Case(OneFile, 2, ops, max, 0) EXCEPT !.opened = 2, !.locks = locks]

(* Requests that want a path while directories move; files that are        *)
(* removed and replaced while they are open; requests that are given up,   *)
(* with FORGET behind them; ids that are used again; hard_remove and the   *)
(* operations that may do without a path.                                  *)
SmallCases == {Case(TwoDirs, 4, {"getattr", "rename", "rmdir"}, 3, 0),
               Case(OneFile, 2, {"open", "release", "unlink"}, 4, 0),
               Case(TwoFiles, 3, {"open", "release", "rename"}, 3, 0),
               Case(OneFile, 2, {"open", "create", "lookup", "forget"}, 3, 1),
               Case(OneFile, 5, {"lookup", "link", "forget"}, 3, 1),
               [Case(OneFile, 2, {"open", "unlink", "read", "release"}, 4, 0) EXCEPT !.hard = TRUE],
               LockCase({"setlk", "flush"}, 3, OneOwner),
               LockCase({"setlk", "getlk", "flush", "release"}, 3, TwoOwners)}

(* An open of a file in a directory that is being renamed is given up, and *)
(* the file is forgotten.                                                  *)
QueuedCase == {[Case(OneDir, 3, {"open", "rename", "forget"}, 3, 1) EXCEPT !.queued = TRUE]}
=============================================================================
