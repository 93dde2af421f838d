----------------------------- MODULE XarArcmod -----------------------------
(***************************************************************************)
(* The modules a file passes when it is archived and extracted              *)
(* (src/xar/arcmod.c): what lstat says of it (stat.c), its data (data.c),   *)
(* and at last owner, mode and times (xar_set_perm).  Flags, access lists   *)
(* and extended attributes are those of other systems.                      *)
(*                                                                          *)
(* Files outside the archive: Source is the file system the files are       *)
(* taken from, `d' the one they are extracted to, where paths name inodes.  *)
(***************************************************************************)
EXTENDS XarHeap

CONSTANTS Source,     \* path -> what lstat, readlink and read find there
          Euid,       \* who extracts
          Passwd      \* the users of this system: name -> uid

RootUid == "0"

(* No entry of the hash tables is taken out when its file is freed.        *)
Lookup(h, k) == IF k \in DOMAIN h THEN h[k] ELSE 0
xar_link_lookup(x, f) == Lookup(x.ino_hash, x.sbcache.ino)

-----------------------------------------------------------------------------
(* Archiving.  The status comes from sbcache, the last lstat of the        *)
(* archive.  Device, inode and gid numbers and the other two times are     *)
(* archived the same way.                                                  *)
StatKeys == <<"mode", "uid", "user", "group", "mtime">>
SetStat(x, ps, i) ==
    LET v == x.sbcache.meta[StatKeys[i]]
    IN  IF xar_check_prop(x, StatKeys[i]) /\ v # Null THEN xar_prop_set(ps, <<StatKeys[i]>>, v) ELSE ps
RECURSIVE SetStats(_, _, _)
SetStats(x, ps, i) == IF i > Len(StatKeys) THEN ps ELSE SetStats(x, SetStat(x, ps, i), i + 1)

IsLinked(st) == st.type = "file" /\ st.nlink > 1
IsDevice(type) == type \in {"character special", "block special"}

TypeProps(x, ps, g) ==
    IF ~xar_check_prop(x, "type") THEN ps
    ELSE IF ~IsLinked(x.sbcache) THEN xar_prop_set(ps, <<"type">>, x.sbcache.type)
    ELSE xar_attr_set(xar_prop_set(ps, <<"type">>, "hardlink"), <<"type">>, "link",
                      IF g = 0 THEN "original" ELSE xar_attr_pget(x.nodes[g].attrs, "id"))
DeviceProps(x, ps) ==
    IF ~IsDevice(x.sbcache.type) \/ ~xar_check_prop(x, "device") THEN ps
    ELSE xar_prop_set(xar_prop_set(ps, <<"device", "major">>, "1"), <<"device", "minor">>, "3")
LinkProps(x, ps) ==
    LET to == x.sbcache.target
    IN  IF x.sbcache.type # "symlink" THEN ps
        ELSE xar_attr_set(xar_prop_set(ps, <<"link">>, to[Len(to)]), <<"link">>, "type",
                          IF to \in DOMAIN Source THEN Source[to].type ELSE "broken")

xar_stat_archive(x, f, buffer) ==
    LET g == IF IsLinked(x.sbcache) THEN xar_link_lookup(x, f) ELSE 0
        y == IF IsLinked(x.sbcache) /\ g = 0
             THEN [x EXCEPT !.ino_hash = @ @@ (x.sbcache.ino :> f)] ELSE x
        ps == LinkProps(x, DeviceProps(x, TypeProps(x, x.nodes[f].props, g)))
    IN  IF buffer
        THEN IF xar_check_prop(x, "type")
             THEN SetProps(x, f, xar_prop_set(x.nodes[f].props, <<"type">>, "file")) ELSE x
        ELSE IF g # 0 /\ Freed(x, g) THEN [x EXCEPT !.segv = TRUE]
        ELSE SetProps(y, f, SetStats(x, ps, 1))

HasData(ps) ==
    \/ xar_prop_get(ps, <<"type">>) = "file"
    \/ /\ xar_prop_get(ps, <<"type">>) = "hardlink"
       /\ xar_attr_get(ps, <<"type">>, "link") = "original"

(* The data of the file at `path', or of the buffer; without any the       *)
(* property is taken away again.                                           *)
DataKept(done, f) ==
    [ret |-> done.ret,
     x |-> IF done.total # 0 THEN done.x
           ELSE SetProps(done.x, f, xar_prop_unset(done.x.nodes[f].props, <<"data">>))]
xar_data_archive(x, f, path, buffer, us, fault) ==
    LET ps == x.nodes[f].props
        content == IF buffer THEN us ELSE Source[path].content
    IN  IF ~xar_check_prop(x, "data") \/ ~HasData(ps) THEN [x |-> x, ret |-> 0]
        ELSE IF ~buffer /\ (fault.kind = "open" \/ path \notin DOMAIN Source) THEN [x |-> x, ret |-> -1]
        ELSE DataKept(xar_attrcopy_to_heap(SetProps(x, f, xar_prop_set(ps, <<"data">>, Null)), f, "data",
                                           Plain(content), fault), f)

(* The modules one after another, until one fails.                         *)
ThenData(y, f, path, buffer, us, fault) ==
    IF y.segv THEN [x |-> y, ret |-> 0] ELSE xar_data_archive(y, f, path, buffer, us, fault)
xar_arcmod_archive(x, f, path, buffer, us, fault) ==
    ThenData(xar_stat_archive(x, f, buffer), f, path, buffer, us, fault)

-----------------------------------------------------------------------------
(* The file system of the extraction.                                      *)
EmptyFs == [paths |-> <<>>, inodes |-> <<>>]
Exists(d, p) == p = <<>> \/ p \in DOMAIN d.paths
File(d, p) == d.inodes[d.paths[p]]
IsDir(d, p) == p = <<>> \/ (p \in DOMAIN d.paths /\ File(d, p).type = "directory")
unlink(d, p) ==
    IF p \notin DOMAIN d.paths \/ IsDir(d, p) THEN d
    ELSE [d EXCEPT !.paths = [q \in DOMAIN d.paths \ {p} |-> d.paths[q]]]
Permitted(type) == IsDevice(type) => Euid = RootUid
mknod(d, p, type, target) ==
    LET i == Len(d.inodes) + 1
    IN  IF Exists(d, p) \/ ~IsDir(d, Front(p)) \/ ~Permitted(type) THEN d
        ELSE [paths |-> d.paths @@ (p :> i),
              inodes |-> Append(d.inodes, [type |-> type, content |-> <<>>, target |-> target,
                                           mode |-> "0600", uid |-> Euid, mtime |-> "now",
                                           torn |-> FALSE])]
Made(d, e, p) == [d |-> e, ret |-> IF Exists(e, p) THEN 0 ELSE -1]

-----------------------------------------------------------------------------
(* Extraction: the file is made, filled, and given its owner and mode.     *)

\* A hard link whose original has not been extracted becomes an original.
Adopt(x, f, g) ==
    LET data == xar_prop_find(x.nodes[g].props, <<"data">>)
        ps == xar_prop_unset(x.nodes[f].props, <<"data">>)
    IN  SetProps(x, f, xar_attr_set(IF data = NoProp THEN ps ELSE <<data>> \o ps,
                                    <<"type">>, "link", "original"))
extract_hardlink(x, f, d, p) ==
    LET id == xar_attr_get(x.nodes[f].props, <<"type">>, "link")
        g == Lookup(x.link_hash, id)
        e == unlink(d, p)
        from == x.nodes[g].fspath
    IN  IF id = Null \/ g = 0 THEN [x |-> x, d |-> d, ret |-> IF id = Null THEN 0 ELSE -1]
        ELSE IF ~Exists(e, from) \/ ~IsDir(e, Front(p)) THEN [x |-> Adopt(x, f, g), d |-> e, ret |-> 0]
        ELSE [x |-> x, d |-> [e EXCEPT !.paths = @ @@ (p :> e.paths[from])], ret |-> 0]

MadeAs(type, ps, d, p) ==
    CASE type = "directory" -> Made(d, mknod(d, p, type, Null), p)
      [] type = "symlink" -> Made(d, mknod(unlink(d, p), p, type, xar_prop_get(ps, <<"link">>)), p)
      [] type = "fifo" \/ IsDevice(type) -> Made(d, mknod(unlink(d, p), p, type, Null), p)
      [] type = "socket" -> [d |-> d, ret |-> 0]
      [] OTHER -> [d |-> mknod(unlink(d, p), p, "file", Null), ret |-> 0]
xar_stat_extract(x, f, d, p) ==
    LET ps == x.nodes[f].props
        type == xar_prop_get(ps, <<"type">>)
    IN  IF type = "hardlink" /\ ~HasData(ps) THEN extract_hardlink(x, f, d, p)
        ELSE MadeAs(type, ps, d, p) @@ [x |-> x]

\* `torn', for the properties: not all the data of the file is in it.
xar_data_extract(x, f, d, p, io) ==
    LET ps == x.nodes[f].props
        fill(done) == [x |-> done.x, ret |-> done.ret,
                       d |-> [d EXCEPT !.inodes[d.paths[p]].content = Units(done.data),
                                       !.inodes[d.paths[p]].torn = done.torn \/ done.ret < 0]]
    IN  IF ~HasData(ps) THEN [x |-> x, d |-> d, ret |-> 0]
        ELSE IF p \notin DOMAIN d.paths THEN [x |-> x, d |-> d, ret |-> -1]
        ELSE IF io.fault.kind = "open" THEN [x |-> x, d |-> [d EXCEPT !.inodes[d.paths[p]].torn = TRUE], ret |-> -1]
        ELSE IF ~HasProp(ps, <<"data">>) THEN [x |-> x, d |-> d, ret |-> 0]
        ELSE fill(xar_attrcopy_from_heap(x, ps, "data", io))

(* Owner, mode and time.  Without the right to give the file away it is    *)
(* left alone, and so is the set-user-id bit, which needs savesuid or an   *)
(* owner from the archive.                                                 *)
WithoutSuid(mode) == IF mode = "4755" THEN "0755" ELSE mode
DefaultMode(type) == IF type = "directory" THEN "0755" ELSE "0644"
Owner(get, own, own2) ==
    IF own2 = "numeric" /\ get.uid # Null THEN get.uid
    ELSE IF own = "symbolic" /\ get.user \in DOMAIN Passwd THEN Passwd[get.user] ELSE Euid
Owned(d, i, get, u, keep) ==
    LET may == Euid = RootUid \/ u = Euid
        mode == IF get.mode = Null THEN DefaultMode(get.type) ELSE get.mode
        same == d.inodes[i].type = "symlink" \/ (get.type = Null /\ get.mode = Null)
    IN  [d EXCEPT !.inodes[i].uid = IF may THEN u ELSE @,
                  !.inodes[i].mode = IF same THEN @ ELSE IF keep /\ may THEN mode ELSE WithoutSuid(mode)]
Timed(d, to, mtime) ==
    IF to \notin DOMAIN d.paths THEN d
    ELSE [d EXCEPT !.inodes[d.paths[to]].mtime = IF mtime = Null THEN "now" ELSE mtime]
SetPerm(get, own, savesuid, d, p) ==
    LET own2 == IF own = "symbolic" THEN get.group ELSE own
        i == d.paths[p]
        to == IF d.inodes[i].type = "symlink" THEN Append(Front(p), d.inodes[i].target) ELSE p
    IN  Timed(Owned(d, i, get, Owner(get, own, own2),
                    own = "symbolic" \/ own2 = "numeric" \/ savesuid = "true"), to, get.mtime)
xar_set_perm(x, f, d, p) ==
    IF p \notin DOMAIN d.paths THEN d
    ELSE SetPerm([key \in ToSet(StatKeys) \cup {"type"} |-> xar_prop_get(x.nodes[f].props, <<key>>)],
                 xar_opt_get(x, "ownership"), xar_opt_get(x, "savesuid"), d, p)

ThenFill(a, f, p, io) == IF a.ret < 0 THEN a ELSE xar_data_extract(a.x, f, a.d, p, io)
ThenPerm(a, f, p) == IF a.ret < 0 THEN a ELSE [a EXCEPT !.d = xar_set_perm(a.x, f, @, p)]
xar_arcmod_extract(x, f, d, p, io) ==
    ThenPerm(ThenFill(xar_stat_extract(x, f, d, p), f, p, io), f, p)

\* Without the property it goes on with a null pointer.
xar_data_verify(x, f, io) ==
    LET ps == x.nodes[f].props
    IN  IF xar_prop_get(ps, <<"type">>) \in {Null, "directory"} THEN [x |-> x, data |-> <<>>, ret |-> 0]
        ELSE IF ~HasProp(ps, <<"data">>) THEN [x |-> [x EXCEPT !.segv = TRUE], data |-> <<>>, ret |-> 0]
        ELSE xar_attrcopy_from_heap(x, ps, "data", io)
=============================================================================
