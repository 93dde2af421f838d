------------------------------ MODULE FuseLib ------------------------------
(***************************************************************************)
(* The path based FUSE library (fuse/fuse.c) as tables: what a handler     *)
(* does with the paths of its request, and what a call of the file system  *)
(* gives when the file system does not implement the operation.            *)
(***************************************************************************)
EXTENDS TLC

(* The shapes of the fuse_lib_* handlers.  "path": the path of a node is   *)
(* locked while the file system works; "nullok": the file system may be    *)
(* called without a path; "always": it is called without one if need be;   *)
(* "entry": the path of a directory is locked and the node of a name in it *)
(* is found or made.  A handler of its own has its name for shape.         *)
fuse_lib_attr == [getattr |-> "path", fgetattr |-> "nullok", setattr |-> "path",
                  access |-> "path", readlink |-> "path"]
fuse_lib_make == [mknod |-> "entry", mkdir |-> "entry"]
fuse_lib_file == [read |-> "nullok", write |-> "nullok", fsync |-> "nullok"]
fuse_lib_dir == [readdir |-> "path", releasedir |-> "always",
                 fsyncdir |-> "path", statfs |-> "path"]
fuse_lib_xattr == [setxattr |-> "path", getxattr |-> "path",
                   listxattr |-> "path", removexattr |-> "path"]
fuse_lib_lock == [flush |-> "flush", getlk |-> "lock", setlk |-> "lock"]
fuse_lib_misc == [bmap |-> "path", ioctl |-> "path", poll |-> "path"]

fuse_lib_name == [lookup |-> "entry", forget |-> "forget", unlink |-> "unlink",
                  rmdir |-> "rmdir", symlink |-> "entry", rename |-> "rename",
                  link |-> "link", create |-> "create", open |-> "open",
                  release |-> "release", opendir |-> "path"]

fuse_path_ops ==
    LET tables == {fuse_lib_name, fuse_lib_attr, fuse_lib_make, fuse_lib_file, fuse_lib_dir,
                   fuse_lib_xattr, fuse_lib_lock, fuse_lib_misc}
    IN  [op \in UNION {DOMAIN f : f \in tables} |-> (CHOOSE f \in tables : op \in DOMAIN f)[op]]

(* The calls of the file system that the handlers of nodes and names make  *)
(* before they touch the node table, one set of results for each: those of *)
(* the operation, or ENOSYS, or success for what need not be implemented.  *)
Done == {"ok"}
Tried == {"ok", "err"}
Missing == {"enosys"}

fuse_fs_getattr(ops) == IF "getattr" \in ops THEN Tried ELSE Missing
fuse_fs_fgetattr(ops) == IF "fgetattr" \in ops THEN Tried ELSE fuse_fs_getattr(ops)
fuse_fs_name(op, ops) == IF op \in ops THEN Tried ELSE Missing
fuse_fs_open(ops) == IF "open" \in ops THEN Tried ELSE Done
fuse_fs_lock(ops) == IF "lock" \in ops THEN Tried ELSE Missing
fuse_fs_create(ops) == IF "create" \in ops THEN Tried ELSE Missing
fuse_fs_mknod(op, ops) == IF op \in ops THEN Tried ELSE Missing

(* lookup_path succeeds if the file system knows the attributes.           *)
Both(a, b) == {r \in a \cup b : r = "ok" => "ok" \in a /\ "ok" \in b}

(* mknod of a regular file is a create and a release if the file system    *)
(* can create; otherwise, and for everything else, it is a mknod.          *)
fuse_lib_mknod(ops) ==
    LET created == Both(fuse_fs_create(ops), fuse_fs_fgetattr(ops))
        made    == Both(fuse_fs_mknod("mknod", ops), fuse_fs_getattr(ops))
    IN  (created \ Missing) \cup made

fuse_lib_entry(op, ops) ==
    CASE op = "lookup" -> fuse_fs_getattr(ops)
      [] op = "mknod"  -> fuse_lib_mknod(ops)
      [] op = "create" -> Both(fuse_fs_create(ops), fuse_fs_fgetattr(ops))
      [] OTHER         -> Both(fuse_fs_mknod(op, ops), fuse_fs_getattr(ops))
=============================================================================
