------------------------------ MODULE FuseOps ------------------------------
(***************************************************************************)
(* The operation table of the low level FUSE library (fuse/fuse_lowlevel.c)*)
(* and the handlers fs-pkg installs in it (vfs_fuse.c, vfs_pkg.h,          *)
(* vfs_spill.h).  Nothing here has state: an opcode is a string, a reply is*)
(* the kind of message fuse_reply_* sends or the error it carries, "none"  *)
(* standing for fuse_reply_none.                                           *)
(***************************************************************************)
EXTENDS Integers, Sequences, TLC

(* What each do_* function answers itself when the file system has no      *)
(* handler for the operation.                                              *)
do_node == [o \in {"LOOKUP", "FORGET", "GETATTR", "SETATTR", "ACCESS",
                   "READLINK", "MKNOD", "MKDIR"}
              |-> IF o = "FORGET" THEN "none" ELSE "ENOSYS"]

do_name == [o \in {"UNLINK", "RMDIR", "SYMLINK", "RENAME", "LINK", "CREATE"}
              |-> "ENOSYS"]

do_file == [o \in {"OPEN", "READ", "WRITE", "FLUSH", "RELEASE", "FSYNC"}
              |-> CASE o = "OPEN" -> "open"
                    [] o = "RELEASE" -> "ok"
                    [] OTHER -> "ENOSYS"]

do_dir == [o \in {"OPENDIR", "READDIR", "RELEASEDIR", "FSYNCDIR", "STATFS"}
             |-> CASE o = "OPENDIR" -> "open"
                   [] o = "RELEASEDIR" -> "ok"
                   [] o = "STATFS" -> "statfs"
                   [] OTHER -> "ENOSYS"]

do_xattr == [o \in {"SETXATTR", "GETXATTR", "LISTXATTR", "REMOVEXATTR"}
               |-> "ENOSYS"]

do_lock == [o \in {"GETLK", "SETLK", "SETLKW"} |-> "ENOSYS"]

do_misc == [o \in {"BMAP", "IOCTL", "POLL"} |-> "ENOSYS"]

(* do_destroy calls op.destroy, if there is one, and always answers.       *)
do_destroy == [o \in {"DESTROY"} |-> "ok"]

(* fuse_ll_ops without INIT and INTERRUPT, which the session handles itself*)
fuse_ll_ops ==
    do_node @@ do_name @@ do_file @@ do_dir @@ do_xattr @@ do_lock @@ do_misc
    @@ do_destroy

(* What an allow_root session still does for a user that is neither root   *)
(* nor the owner.                                                          *)
AnyUser == {"INIT", "READ", "WRITE", "FSYNC", "RELEASE", "READDIR",
            "FSYNCDIR", "RELEASEDIR"}

(* fuse_reply_*: an entry without an inode is an error for kernels that do *)
(* not know negative entries; the others send what they are called with.   *)
fuse_reply_entry(ino, minor) ==
    IF ino = 0 /\ minor < 4 THEN "ENOENT" ELSE "entry"

(* The messages a handler can answer with, beside an error number.         *)
fuse_reply_node == {"none", "ok", "entry", "create", "attr", "readlink", "open",
                    "write", "buf", "statfs"}

fuse_reply_data == {"xattr", "lock", "bmap", "ioctl_retry", "ioctl", "poll"}

Caps == {"ASYNC_READ", "POSIX_LOCKS", "ATOMIC_O_TRUNC", "BIG_WRITES"}

(* do_init: what the session agrees on with the kernel.  arg is the INIT   *)
(* message [major, minor, flags], opts the capabilities the options and the*)
(* handlers of the file system ask for (async_read among them).            *)
do_init(arg, opts) ==
    LET modern == arg.major > 7 \/ (arg.major = 7 /\ arg.minor >= 6)
        async  == modern /\ "ASYNC_READ" \in (opts \cap arg.flags)
    IN  IF arg.major < 7
        THEN [ok |-> FALSE, minor |-> arg.minor, capable |-> {}, flags |-> {}]
        ELSE [ok |-> TRUE, minor |-> arg.minor,
              capable |-> IF modern THEN arg.flags \cap Caps ELSE {},
              flags |-> (IF async THEN {"ASYNC_READ"} ELSE {})
                        \cup (opts \ {"ASYNC_READ"})]

----------------------------------------------------------------------------
(* The handlers of fs-pkg: the replies a handler sends, one after the      *)
(* other, when the database knows the inode (found) or does not.           *)

(* vfs_fuse_getattr decides by sb.st_ino, which it only sets when it found *)
(* a row: without one the variable holds whatever the stack held.          *)
vfs_fuse_getattr(found) == IF found THEN {<<"attr">>} ELSE {<<"attr">>, <<"ENOENT">>}

(* vfs_fuse_open: `!fi->flags & O_CREAT' is (!flags) & O_CREAT, which is 0,*)
(* so the error is EROFS; the function goes on to fuse_reply_open.         *)
vfs_fuse_open(found) == IF found THEN {<<"open">>} ELSE {<<"EROFS", "open">>}

(* The handlers of vfs_pkg.h that only answer.                             *)
vfs_pkg == [o \in {"ACCESS", "READLINK", "OPENDIR", "READDIR", "RELEASEDIR"}
              |-> CASE o = "ACCESS" -> "ok"
                    [] o = "READLINK" -> "ENOSYS"
                    [] OTHER -> "ENOENT"]

vfs_pkg_file == [o \in {"RELEASE", "READ", "STATFS", "GETXATTR", "LISTXATTR",
                        "LOOKUP"}
                   |-> CASE o = "RELEASE" -> "ok"
                         [] o = "READ" -> "EBADF"
                         [] o = "STATFS" -> "ENOSYS"
                         [] o = "LOOKUP" -> "ENOENT"
                         [] OTHER -> "ENOTSUP"]

(* vfs_spill.h: writing is refused.  vfs_fuse_setattr is not in the table. *)
vfs_spill == [o \in {"MKNOD", "MKDIR", "SYMLINK", "UNLINK", "RMDIR", "RENAME",
                     "LINK", "WRITE", "SETXATTR", "REMOVEXATTR", "CREATE"}
                |-> IF o \in {"SETXATTR", "REMOVEXATTR"} THEN "ENOTSUP"
                                                         ELSE "EROFS"]

(* vfs_fuse_ops: what an operation of fs-pkg replies; do_* answers what it *)
(* has no handler for.                                                     *)
vfs_fuse_ops(o, found) ==
    CASE o = "GETATTR" -> vfs_fuse_getattr(found)
      [] o = "OPEN" -> vfs_fuse_open(found)
      [] o \in DOMAIN (vfs_pkg @@ vfs_pkg_file @@ vfs_spill) ->
             {<<(vfs_pkg @@ vfs_pkg_file @@ vfs_spill)[o]>>}
      [] OTHER -> {<<fuse_ll_ops[o]>>}
=============================================================================
