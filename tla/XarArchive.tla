---------------------------- MODULE XarArchive -----------------------------
(***************************************************************************)
(* The archive library of src/xar as a program uses it (archive.c,          *)
(* signature.c): a program creates an archive, sets options, adds files     *)
(* from paths, buffers and other archives, and closes it; the file may be   *)
(* damaged; a program opens it, walks over the files and extracts them to   *)
(* files, buffers and streams or verifies them.                             *)
(*                                                                          *)
(* x is the archive that is open, `src' the one that is copied from, `img'  *)
(* the archive file: the algorithm in its header, its table of contents     *)
(* and its heap.  A call that would use freed memory or a null pointer      *)
(* sets x.segv, and nothing happens afterwards.                             *)
(***************************************************************************)
EXTENDS XarArcmod

CONSTANTS Programs    \* what the program does: the calls that build the archive,
                      \*     `copy' the files it copies into a second one,
                      \*     `faults' what may fail while it adds, `closing' when it
                      \*     closes, `io' when it reads, `damage' what may happen to
                      \*     the archive file, `pipe' whether it is read from a pipe,
                      \*     `reading' the options it is read with, `uses' how often
                      \*     it is read from, `streams' how many are open at a time

VARIABLES prog, k, phase, x, src, img, fs, want, dirty, damaged, walk, seen, streams, res, uses

vars == <<prog, k, phase, x, src, img, fs, want, dirty, damaged, walk, seen, streams, res, uses>>
built == <<prog, img, want, dirty, damaged, src, k>>

-----------------------------------------------------------------------------
(* Options.                                                                *)
xar_opt_set(y, key, v) ==
    [y EXCEPT !.opts = <<<<key, v>>>> \o @,
              !.heap_offset = IF key = "toc-cksum" /\ v \in DOMAIN DigestLen THEN DigestLen[v] ELSE @]

\* After the first of the list has been removed the loop goes on from a null pointer.
xar_opt_unset(y, key) ==
    IF y.opts # <<>> /\ y.opts[1][1] = key THEN [y EXCEPT !.segv = TRUE]
    ELSE [y EXCEPT !.opts = SelectSeq(@, LAMBDA o : o[1] # key)]

NoStat == [type |-> "unknown", ino |-> 0, nlink |-> 0, content |-> <<>>, target |-> <<>>,
           meta |-> [i \in ToSet(StatKeys) |-> "0"]]
xar_new ==
    [files |-> <<>>, nodes |-> <<>>, link_hash |-> <<>>, ino_hash |-> <<>>, csum_hash |-> <<>>,
     props |-> <<>>, opts |-> <<>>, sigs |-> <<>>, last_fileid |-> 0, sbcache |-> NoStat,
     heap_offset |-> 0, heap_len |-> 0, hfile |-> <<>>, hpos |-> 0, heap |-> <<>>, pos |-> 0,
     pipe |-> FALSE, segv |-> FALSE]
xar_open_write ==
    xar_opt_set(xar_opt_set([xar_new EXCEPT !.heap_offset = DigestLen.sha1, !.heap_len = DigestLen.sha1],
                            "compression", "gzip"), "file-cksum", "sha1")

(* Signatures come before the files; of more than two the second is lost.  *)
xar_signature_new(y, len) ==
    IF y.files # <<>> THEN y
    ELSE [y EXCEPT !.sigs = (IF @ = <<>> THEN <<>> ELSE <<@[1]>>) \o <<[offset |-> y.heap_offset, len |-> len]>>,
                   !.heap_offset = @ + len, !.heap_len = @ + len]

-----------------------------------------------------------------------------
(* Adding.  Every call returns the archive and the new file, or 0.         *)
Node(y, parent, name, path) ==
    LET n == y.last_fileid + 1
        node == [xar_file_new(parent, path) EXCEPT
                   !.attrs = <<<<"id", Dec(n)>>>>, !.props = xar_prop_set(<<>>, <<"name">>, name)]
    IN  Link([y EXCEPT !.last_fileid = n, !.nodes = @ @@ (n :> node)], n, parent)

Unlinked(y, n, parent) ==
    IF parent = 0 THEN [y EXCEPT !.files = SelectSeq(@, LAMBDA m : m # n)]
    ELSE [y EXCEPT !.nodes[parent].children = SelectSeq(@, LAMBDA m : m # n)]
\* xar_add_frombuffer and xar_add_folder do not look at the head of the list.
UnlinkedIfNotFirst(y, n, parent) ==
    IF FileList(y, parent)[1] = n THEN y ELSE Unlinked(y, n, parent)

Stat(y, path) == [y EXCEPT !.sbcache = Source[path]]

xar_add_node(y, parent, name, path, fault) ==
    LET n == y.last_fileid + 1
        end(done) ==
          IF done.ret < 0 THEN [x |-> xar_file_free(Unlinked(done.x, n, parent), n), f |-> 0]
          ELSE [x |-> done.x, f |-> n]
    IN  IF path \notin DOMAIN Source THEN [x |-> y, f |-> 0]
        ELSE end(xar_arcmod_archive(Node(Stat(y, path), parent, name, path), n, path, FALSE, <<>>, fault))

xar_add_pseudodir(y, parent, name, path) ==
    LET n == y.last_fileid + 1
        dir(z) == SetProps(z, n, xar_prop_set(z.nodes[n].props, <<"type">>, "directory"))
    IN  IF path \notin DOMAIN Source THEN [x |-> y, f |-> 0]
        ELSE [x |-> dir(Node(Stat(y, path), parent, name, path)), f |-> n]

\* Paths have no ".."; a "." is skipped.
RECURSIVE xar_add_r(_, _, _, _)
xar_add_r(y, parent, path, fault) ==
    LET list == FileList(y, parent)
        i == SelectInSeq(list, LAMBDA m : NameOf(y, m) = path[1])
        dir == IF parent = 0 THEN <<>> ELSE y.nodes[parent].fspath
        full == Append(dir, path[1])
        down(sub) == IF sub.f = 0 THEN sub ELSE xar_add_r(sub.x, sub.f, Tail(path), fault)
    IN  IF path[1] = "." THEN IF Len(path) = 1 THEN [x |-> y, f |-> 0]
                              ELSE xar_add_r(y, parent, Tail(path), fault)
        ELSE IF i # 0 THEN IF Len(path) = 1 THEN [x |-> y, f |-> list[i]]
                           ELSE xar_add_r(y, list[i], Tail(path), fault)
        ELSE IF Len(path) = 1 THEN xar_add_node(y, parent, path[1], full, fault)
        ELSE down(xar_add_pseudodir(y, parent, path[1], full))

AddedOrFreed(done, n, parent) ==
    IF done.ret < 0 THEN [x |-> xar_file_free(UnlinkedIfNotFirst(done.x, n, parent), n), f |-> 0]
    ELSE [x |-> done.x, f |-> n]
xar_add_frombuffer(y, parent, name, us, fault) ==
    AddedOrFreed(xar_arcmod_archive(Node(y, parent, name, <<>>), y.last_fileid + 1, <<>>,
                                    us # <<>>, us, fault), y.last_fileid + 1, parent)

xar_add_folder(y, parent, name, info) ==
    AddedOrFreed(xar_arcmod_archive(Node(IF info = <<>> THEN y ELSE Stat(y, info), parent, name, <<>>),
                                    y.last_fileid + 1, <<>>, FALSE, <<>>, NoFault),
                 y.last_fileid + 1, parent)

\* A copy that fails is freed and stays in the list.
xar_add_from_archive(y, parent, name, from, g, fault) ==
    LET n == y.last_fileid + 1
        node == [xar_file_replicate(from.nodes[g], parent) EXCEPT
                   !.attrs = xar_attr_pset(@, "id", Dec(n)), !.props = xar_prop_set(@, <<"name">>, name)]
        z == Link([y EXCEPT !.last_fileid = n, !.nodes = @ @@ (n :> node)], n, parent)
        end(done) == IF done.ret < 0 THEN [done EXCEPT !.x = xar_file_free(@, n)] ELSE done
    IN  IF HasProp(node.props, <<"data", "offset">>)
        THEN end(xar_attrcopy_from_heap_to_heap(from, node.props, "data", z, n, fault))
        ELSE [src |-> from, x |-> z, ret |-> 0]

-----------------------------------------------------------------------------
(* Closing: the table of contents, its digest, the signatures over it, and *)
(* as much of the heap as heap_len says.                                   *)
TocStyle(y) == IF xar_opt_get(y, "toc-cksum") = Null THEN "sha1" ELSE xar_opt_get(y, "toc-cksum")
TocProps(y) ==
    LET style == TocStyle(y)
        p1 == xar_attr_set(xar_prop_set(y.props, <<"checksum">>, Null), <<"checksum">>, "style", style)
        p2 == xar_prop_set(xar_prop_set(p1, <<"checksum", "size">>, Dec(DigestLen[style])),
                           <<"checksum", "offset">>, "0")
    IN  xar_prop_set(IF style = "none" THEN y.props ELSE p2, <<"creation-time">>, "now")
xar_signature_serialize(sigs) ==
    [i \in 1 .. Len(sigs) |->
       Element("signature", <<<<"style", "RSA">>>>, Null,
               <<Element("offset", <<>>, Dec(sigs[i].offset), <<>>),
                 Element("size", <<>>, Dec(sigs[i].len), <<>>)>>)]
xar_serialize(y) ==
    Element("toc", <<>>, Null, xar_prop_serialize(TocProps(y)) \o xar_signature_serialize(y.sigs)
                               \o xar_file_serialize(y, y.files))

\* The digest takes the first units of the heap, `digested' says of what; a signature signs it.
TocDigest(alg) == [i \in 1 .. DigestLen[alg] |-> <<"ck", alg>>]
Signed(alg, sigs) ==
    FlattenSeq([s \in 1 .. Len(sigs) |-> [i \in 1 .. sigs[s].len |-> <<"sig", alg>>]])

HeapCopy(y) == SubSeq(y.hfile, 1, Smaller(Len(y.hfile), y.heap_len))

(* What may fail: a temporary file (the loop then compresses what read did *)
(* not read), a write of the table of contents ("toc") or a signer, which  *)
(* end it; the writes of the header, the digest and the signatures, whose  *)
(* result is not looked at; a write of the heap, or a short one, after     *)
(* which as much again is written from where it stopped.                   *)
NoToc == Element("none", <<>>, Null, <<>>)
NoImg == [alg |-> "unknown", toc |-> NoToc, digested |-> NoToc, heap |-> <<>>]
HeapWritten(us, fault, r) ==
    CASE fault = "heap" -> SubSeq(us, 1, 1)
      [] fault = "short" -> SubSeq(us, 1, r) \o <<<<"bad", "memory">>>> \o SubSeq(us, r + 1, Len(us))
      [] OTHER -> us
xar_close(y, fault) ==
    LET sigs(alg) == IF alg = "none" \/ y.sigs = <<>> THEN <<>>
                     ELSE Signed(alg, IF fault = "signature" THEN Tail(y.sigs) ELSE y.sigs)
        digest(alg) == IF fault = "digest" THEN <<>> ELSE TocDigest(alg)
        file(alg, toc) ==
          [alg |-> alg, toc |-> toc, digested |-> toc,
           heap |-> digest(alg) \o (IF fault = "signer" THEN <<>>
                                    ELSE sigs(alg) \o HeapWritten(HeapCopy(y), fault, get_rsize(y)))]
    IN  [img |-> IF fault \in {"tmp", "toc", "header"} THEN NoImg ELSE file(TocStyle(y), xar_serialize(y)),
         ret |-> IF fault \in {"toc", "signer", "heap"} THEN -1 ELSE 0, segv |-> fault = "tmp"]

\* Some list has a file that was freed.
Dangling(y) == \/ \E n \in ToSet(y.files) : Freed(y, n)
               \/ \E m \in DOMAIN y.nodes : \E n \in ToSet(y.nodes[m].children) : Freed(y, n)

-----------------------------------------------------------------------------
(* Opening.                                                                *)
xar_signature_unserialize(es) ==
    LET num(e, tag) == strtoll(SelectSeq(e.kids, LAMBDA c : c.tag = tag)[1].text)
        all == [i \in 1 .. Len(es) |-> [offset |-> num(es[i], "offset"), len |-> num(es[i], "size")]]
    IN  IF Len(all) < 3 THEN all ELSE <<all[1], all[Len(all)]>>

xar_unserialize(y, toc) ==
    LET kids(tag) == SelectSeq(toc.kids, LAMBDA e : e.tag = tag)
        others == SelectSeq(toc.kids, LAMBDA e : e.tag \notin {"file", "signature"})
    IN  [xar_file_unserialize(y, 0, kids("file")) EXCEPT
            !.props = xar_prop_unserialize(others), !.sigs = xar_signature_unserialize(kids("signature"))]

Style(toc) ==
    xar_attr_get(xar_prop_unserialize(SelectSeq(toc.kids, LAMBDA e : e.tag = "checksum")),
                 <<"checksum">>, "style")
cksum_match(i) == CASE i.alg = "none" -> Style(i.toc) \in {Null, "none"}
                    [] i.alg \in {"sha1", "md5"} -> Style(i.toc) = i.alg
                    [] OTHER -> FALSE

(* xar_open for reading succeeds.                                          *)
Opens(i) ==
    /\ WellFormed(i.toc)
    /\ cksum_match(i)
    /\ i.alg = "none" => ~\E e \in ToSet(i.toc.kids) : e.tag = "signature"
    /\ i.alg # "none" => /\ i.digested = i.toc
                         /\ SubSeq(i.heap, 1, Smaller(DigestLen[i.alg], Len(i.heap))) = TocDigest(i.alg)

xar_open_read(i, pipe) ==
    xar_unserialize([xar_new EXCEPT !.heap = i.heap, !.pos = DigestLen[i.alg],
                                    !.heap_offset = DigestLen[i.alg], !.pipe = pipe], i.toc)

-----------------------------------------------------------------------------
(* The program: first the calls that build the archive, one after another. *)
NoRes == [call |-> "none", f |-> 0, path |-> <<>>, ret |-> 0, due |-> FALSE, read |-> FALSE, torn |-> FALSE,
          data |-> [type |-> "none", content |-> <<>>, mode |-> "any"]]

Init == /\ prog \in Programs /\ k = 1 /\ phase = "build"
        /\ x = xar_open_write /\ src = xar_new /\ img = NoImg /\ fs = EmptyFs /\ want = <<>>
        /\ dirty = FALSE /\ damaged = FALSE /\ walk = NoFile /\ seen = <<>>
        /\ streams = [s \in 1 .. prog.streams |-> NoStream] /\ res = NoRes /\ uses = 0

(* What extraction must give back: of a file its content, of a symbolic    *)
(* link where it leads, and the mode but for the set-user-id bit.          *)
View(type, content, target, mode) ==
    [type |-> type, content |-> IF type = "symlink" THEN <<target>> ELSE content,
     mode |-> IF type = "symlink" THEN "any" ELSE WithoutSuid(mode)]
Expect(path) ==
    LET s == Source[path]
    IN  View(s.type, s.content, IF s.type = "symlink" THEN Last(s.target) ELSE Null, s.meta.mode)
BufferFile(us) == View("file", us, Null, "0644")
PseudoDir == View("directory", <<>>, Null, "0755")
Parents(path) == {SubSeq(path, 1, i) : i \in 1 .. Len(path) - 1}

Building(c) ==
    /\ phase = "build" /\ k <= Len(prog.calls) /\ prog.calls[k].call = c /\ ~x.segv
    /\ k' = k + 1
    /\ UNCHANGED <<prog, phase, src, img, fs, damaged, walk, seen, streams, res, uses>>

(* A call that fails after a part of the file is in the heap leaves it     *)
(* there (`dirty').  One that leaves a freed file in a list is the end of  *)
(* the program: each later call, and xar_close at the latest, meets it.    *)
Added(r, path, w) ==
    /\ x' = [r.x EXCEPT !.segv = @ \/ Dangling(r.x)]
    /\ dirty' = (dirty \/ (r.f = 0 /\ r.x.hpos # x.hpos))
    /\ want' = want @@ (IF r.f = 0 THEN <<>> ELSE path :> w) @@ [p \in Parents(path) |-> PseudoDir]

Faults == {NoFault} \cup prog.faults
Parent(c) == IF c.dir = <<>> THEN 0 ELSE xar_file_find(x, x.files, c.dir)

OptSet == Building("opt") /\ x' = xar_opt_set(x, prog.calls[k].key, prog.calls[k].value)
          /\ UNCHANGED <<want, dirty>>
OptUnset == Building("unopt") /\ x' = xar_opt_unset(x, prog.calls[k].key) /\ UNCHANGED <<want, dirty>>
Sign == Building("sign") /\ x' = xar_signature_new(x, 1) /\ UNCHANGED <<want, dirty>>

xar_add ==
    /\ Building("add")
    /\ \E fault \in Faults : \E r \in {xar_add_r(x, 0, prog.calls[k].real, fault)} :
         LET path == SelectSeq(prog.calls[k].real, LAMBDA n : n # ".")
         IN  Added(r, path, Expect(path))

xar_add_frompath ==
    /\ Building("frompath")
    /\ LET c == prog.calls[k]
       IN  \E fault \in Faults : \E r \in {xar_add_node(x, Parent(c), c.name, c.real, fault)} :
             Added(r, Append(c.dir, c.name), Expect(c.real))

AddBuffer ==
    /\ Building("buffer")
    /\ LET c == prog.calls[k]
       IN  \E fault \in Faults : \E r \in {xar_add_frombuffer(x, Parent(c), c.name, c.content, fault)} :
             Added(r, Append(c.dir, c.name), BufferFile(c.content))

AddFolder ==
    /\ Building("folder")
    /\ LET c == prog.calls[k]
       IN  \E r \in {xar_add_folder(x, Parent(c), c.name, c.real)} :
             Added(r, Append(c.dir, c.name),
                   IF c.real = <<>> THEN PseudoDir ELSE Expect(c.real))

(* Closing writes the file, or what is written before something fails;     *)
(* then the program copies, or opens it.                                   *)
Close ==
    /\ phase \in {"build", "copy"} /\ k > Len(IF phase = "build" THEN prog.calls ELSE prog.copy)
    /\ ~x.segv
    /\ \E fault \in {"none"} \cup prog.closing : \E r \in {xar_close(x, fault)} :
         /\ img' = r.img
         /\ x' = [xar_new EXCEPT !.segv = r.segv]
         /\ dirty' = (dirty \/ fault # "none")
         /\ res' = [NoRes EXCEPT !.call = "close", !.ret = r.ret, !.due = fault = "none"]
    /\ phase' = IF phase = "build" /\ prog.copy # <<>> THEN "again" ELSE "closed"
    /\ src' = xar_new
    /\ UNCHANGED <<prog, k, fs, want, damaged, walk, seen, streams, uses>>

(* The first archive is opened, and files of it added to a second one.     *)
OpenSource ==
    /\ phase = "again" /\ ~x.segv
    /\ IF Opens(img) THEN /\ \E s \in {xar_open_read(img, FALSE)} : src' = s
                          /\ x' = xar_open_write /\ phase' = "copy" /\ k' = 1
       ELSE /\ phase' = "refused" /\ UNCHANGED <<x, src, k>>
    /\ UNCHANGED <<prog, img, fs, want, dirty, damaged, walk, seen, streams, res, uses>>

AddFromArchive ==
    /\ phase = "copy" /\ k <= Len(prog.copy) /\ ~x.segv
    /\ \E g \in {xar_file_find(src, src.files, prog.copy[k])} :
       \E fault \in Faults :
         IF g = 0 THEN UNCHANGED <<x, src, dirty>>
         ELSE \E r \in {xar_add_from_archive(x, 0, Last(prog.copy[k]), src, g, fault)} :
                /\ x' = [r.x EXCEPT !.segv = Dangling(r.x)] /\ src' = r.src
                /\ dirty' = (dirty \/ (fault # NoFault /\ HasProp(src.nodes[g].props, <<"data">>)))
    /\ k' = k + 1
    /\ want' = IF k = Len(prog.copy)
               THEN [p \in {<<Last(prog.copy[i])>> : i \in {j \in 1 .. k : prog.copy[j] \in DOMAIN want}} |->
                       want[CHOOSE q \in DOMAIN want : q \in ToSet(prog.copy) /\ <<Last(q)>> = p]]
               ELSE want
    /\ UNCHANGED <<prog, phase, img, fs, damaged, walk, seen, streams, res, uses>>

-----------------------------------------------------------------------------
(* Damage to the archive file, once: to the header, to a number in the     *)
(* table of contents, to a unit of the heap, or its end is missing.        *)
RECURSIVE ChangeText(_, _, _)
ChangeText(e, tag, v) ==
    [e EXCEPT !.text = IF e.tag = tag THEN v ELSE @,
              !.kids = [i \in 1 .. Len(@) |-> ChangeText(@[i], tag, v)]]
Changes(i) ==
    (IF "alg" \in prog.damage THEN {[i EXCEPT !.alg = a] : a \in {"none", "md5", "unknown"} \ {i.alg}} ELSE {})
    \cup (IF "toc" \in prog.damage
          THEN {[i EXCEPT !.toc = ChangeText(@, "offset", Dec(n))] : n \in {0, 3}} \ {i} ELSE {})
    \cup (IF "heap" \in prog.damage
          THEN {[i EXCEPT !.heap[j] = <<"bad", "sector">>] : j \in 1 .. Len(i.heap)}
               \cup {[i EXCEPT !.heap = SubSeq(@, 1, j)] : j \in {1, Len(i.heap) - 1} \ {0}} ELSE {})
Damage ==
    /\ phase = "closed" /\ ~damaged /\ ~x.segv
    /\ \E i \in Changes(img) : img' = i
    /\ damaged' = TRUE
    /\ UNCHANGED <<prog, k, phase, x, src, fs, want, dirty, walk, seen, streams, res, uses>>

Open ==
    /\ phase = "closed" /\ ~x.segv
    /\ IF Opens(img) THEN /\ \E y \in {xar_open_read(img, prog.pipe)} :
                               x' = [y EXCEPT !.opts = prog.reading] /\ walk' = xar_file_first(y)
                          /\ phase' = "walk"
       ELSE phase' = "refused" /\ UNCHANGED <<x, walk>>
    /\ UNCHANGED <<fs, seen, streams, res, uses>> /\ UNCHANGED built

(* A walk over the files of the archive, with the names of the properties  *)
(* of each.                                                                *)
xar_file_step ==
    /\ phase = "walk" /\ walk # NoFile
    /\ seen' = Append(seen, [path |-> Append(walk.path, NameOf(x, walk.at)), f |-> walk.at,
                             names |-> PropNames(x.nodes[walk.at].props)])
    /\ Len(seen) <= Cardinality(DOMAIN x.nodes)   \* the bound of a walk that does not end
    /\ walk' = xar_file_next(x, walk)
    /\ UNCHANGED <<phase, x, fs, streams, res, uses>> /\ UNCHANGED built
WalkEnds ==
    /\ phase = "walk" /\ walk = NoFile /\ phase' = "use"
    /\ UNCHANGED <<x, fs, walk, seen, streams, res, uses>> /\ UNCHANGED built

-----------------------------------------------------------------------------
(* Reading.  A call is due to succeed when its data can be reached, a hard *)
(* link's original has been extracted before, and a device may be made.    *)
Reachable(y, f) ==
    \/ ~y.pipe \/ ~HasProp(y.nodes[f].props, <<"data", "offset">>)
    \/ y.heap_offset <= get_offset(y.nodes[f].props, "data")
LinkAlone(y, f, d) ==
    LET ps == y.nodes[f].props
        g == Lookup(y.link_hash, xar_attr_get(ps, <<"type">>, "link"))
    IN  xar_prop_get(ps, <<"type">>) = "hardlink" /\ ~HasData(ps) /\ (g = 0 \/ ~Exists(d, y.nodes[g].fspath))

\* Something of the file's data is read, so that its digest is taken at all.
Present(y, f) ==
    LET ps == y.nodes[f].props
    IN  /\ HasProp(ps, <<"data", "offset">>)
        /\ xar_io_seek(y, get_offset(ps, "data")).pos < Len(y.heap)

Using == /\ phase = "use" /\ uses < prog.uses /\ ~x.segv /\ uses' = uses + 1
         /\ UNCHANGED <<phase, walk, seen>> /\ UNCHANGED built
Result(call, f, ret, data, due, read) ==
    res' = [call |-> call, f |-> f, path |-> xar_get_path(x, f), ret |-> ret, data |-> data,
            due |-> due, read |-> read, torn |-> FALSE]
Ios == [luck : BOOLEAN, fault : {NoFault} \cup prog.io]
Reads == {io \in Ios : io.fault.kind \in {"none", "read"}}

(* Every other reader moves the file position under the streams.           *)
Mixed(but) ==
    [s \in DOMAIN streams |-> [streams[s] EXCEPT !.mixed = @ \/ (s # but /\ streams[s].ret # "none")]]
Disturbed == streams' = Mixed(0)

(* xar_extract: the directory the file is in is extracted before, if it is *)
(* not there and has not been tried.                                       *)
ThenFile(up, f, p, io) == xar_arcmod_extract(up.x, f, up.d, p, io)
RECURSIVE xar_extract(_, _, _, _)
xar_extract(y, f, d, io) ==
    LET p == y.nodes[f].fspath
        dir == xar_file_find(y, y.files, Front(p))
        there == Len(p) = 1 \/ Exists(d, p) \/ y.nodes[f].parent_extracted # 0
    IN  IF ~there /\ dir = 0 THEN [x |-> y, d |-> d, ret |-> -1]
        ELSE ThenFile(IF there THEN [x |-> y, d |-> d]
                      ELSE xar_extract([y EXCEPT !.nodes[f].parent_extracted = @ + 1], dir, d, io),
                      f, p, io)

Extracted(d, p) ==
    IF p \notin DOMAIN d.paths THEN NoRes.data
    ELSE LET i == File(d, p) IN View(i.type, i.content, i.target, i.mode)

Extract(f) ==
    /\ Using
    /\ \E io \in Ios : \E r \in {xar_extract(x, f, fs, io)} :
         LET p == x.nodes[f].fspath
             torn == p \in DOMAIN r.d.paths /\ File(r.d, p).torn
         IN  /\ x' = r.x /\ fs' = r.d
             /\ res' = [call |-> "extract", f |-> f, path |-> xar_get_path(x, f), ret |-> r.ret,
                        data |-> Extracted(r.d, p), torn |-> torn, read |-> Present(x, f),
                        due |-> /\ io.fault = NoFault /\ ~torn
                                /\ Reachable(x, f) /\ ~LinkAlone(x, f, fs)
                                /\ Permitted(xar_prop_get(x.nodes[f].props, <<"type">>))]
    /\ Disturbed

(* On failure the variable of the caller is freed instead of the buffer.   *)
xar_extract_tobuffersz(f) ==
    /\ Using
    /\ LET ps == x.nodes[f].props
           size == xar_prop_get(ps, <<"data", "size">>)
           n == strtoll(size)
       IN  IF size = Null
           THEN /\ Result("buffer", f, IF xar_prop_get(ps, <<"type">>) = "file" THEN 0 ELSE -1,
                          BufferFile(<<>>), xar_prop_get(ps, <<"type">>) = "file", FALSE)
                /\ UNCHANGED x
           ELSE \E io \in Reads : \E r \in {xar_attrcopy_from_heap(x, ps, "data", io)} :
                  /\ x' = [r.x EXCEPT !.segv = r.ret < 0]
                  /\ Result("buffer", f, r.ret,
                            BufferFile(Units(SubSeq(r.data, 1, Smaller(n, Len(r.data))))),
                            io.fault = NoFault /\ Reachable(x, f), Present(x, f))
    /\ Disturbed /\ UNCHANGED fs

xar_verify(f) ==
    /\ Using
    /\ \E io \in Reads : \E r \in {xar_data_verify(x, f, io)} :
         /\ x' = r.x
         /\ Result("verify", f, r.ret, BufferFile(Units(r.data)), io.fault = NoFault /\ Reachable(x, f),
                   Present(x, f))
    /\ Disturbed /\ UNCHANGED fs

(* The data that a signature signs and the signature.                      *)
xar_signature_copy_signed_data(i) ==
    /\ Using /\ i <= Len(x.sigs) /\ ~x.pipe
    /\ LET at(o, n) == SubSeq(x.heap, o + 1, Smaller(o + n, Len(x.heap)))
           size == xar_prop_get(x.props, <<"checksum", "size">>)
           data == at(strtoll(xar_prop_get(x.props, <<"checksum", "offset">>)), strtoll(size))
           sig == at(x.sigs[i].offset, x.sigs[i].len)
       IN  /\ x' = [x EXCEPT !.pos = Smaller(x.sigs[i].offset + x.sigs[i].len, Len(x.heap))]
           /\ res' = [NoRes EXCEPT !.call = "signature", !.data = [signed |-> data, by |-> sig], !.due = TRUE]
    /\ Disturbed /\ UNCHANGED fs

(* Streams: the caller gives room for one or two units, until it is told   *)
(* that there is no more or that there was an error, and ends the stream.  *)
xar_extract_tostream_init(s, f) ==
    /\ Using /\ streams[s].ret = "none" /\ HasProp(x.nodes[f].props, <<"data", "offset">>)
    /\ \E r \in {xar_attrcopy_from_heap_to_stream_init(x, f, "data")} :
         /\ x' = r.x
         /\ streams' = [Mixed(s) EXCEPT ![s] = [r.s EXCEPT !.mixed = ~Reachable(x, f)]]
    /\ res' = NoRes /\ UNCHANGED fs

xar_extract_tostream(s, avail) ==
    /\ phase = "use" /\ ~x.segv /\ streams[s].ret = "OK"
    /\ \E io \in Reads :
       \E r \in {xar_attrcopy_from_heap_to_stream(x, streams[s], "data", avail, io)} :
         /\ x' = r.x
         /\ streams' = [IF r.x = x THEN streams ELSE Mixed(s) EXCEPT
                          ![s] = [r.s EXCEPT !.mixed = @ \/ io.fault # NoFault]]
    /\ res' = NoRes /\ UNCHANGED <<phase, fs, walk, seen, uses>> /\ UNCHANGED built

xar_extract_tostream_end(s) ==
    /\ phase = "use" /\ ~x.segv /\ streams[s].ret \in {"END", "ERR"}
    /\ LET st == streams[s]
           ret == xar_attrcopy_from_heap_to_stream_end(x, st, "data")
       IN  Result("stream", st.f, IF st.ret = "ERR" THEN -1 ELSE ret, BufferFile(Units(st.out)),
                  ~st.mixed, st.total_in > 0)
    /\ streams' = [streams EXCEPT ![s] = NoStream]
    /\ UNCHANGED <<phase, x, fs, walk, seen, uses>> /\ UNCHANGED built

-----------------------------------------------------------------------------
Use == \/ \E f \in DOMAIN x.nodes :
            \/ Extract(f)
            \/ xar_extract_tobuffersz(f)
            \/ xar_verify(f)
            \/ \E s \in DOMAIN streams : xar_extract_tostream_init(s, f)
       \/ \E i \in 1 .. 2 : xar_signature_copy_signed_data(i)
       \/ \E s \in DOMAIN streams :
            \/ \E avail \in 1 .. 2 : xar_extract_tostream(s, avail)
            \/ xar_extract_tostream_end(s)

Next == \/ OptSet \/ OptUnset \/ Sign \/ xar_add \/ xar_add_frompath \/ AddBuffer \/ AddFolder
        \/ Close \/ OpenSource \/ AddFromArchive \/ Damage \/ Open \/ xar_file_step \/ WalkEnds \/ Use

Spec == Init /\ [][Next]_vars

-----------------------------------------------------------------------------
Whole == ~damaged /\ ~dirty
Right == /\ res.path \in DOMAIN want
         /\ res.data.content = want[res.path].content
         /\ res.call = "extract" => res.data = want[res.path]

(* The round trip (xar_close, xar_open, xar_extract and the other readers): *)
(* an archive that was closed and not damaged can be opened, whatever the   *)
(* options, and each call that is due to succeed does, and gives back the   *)
(* type, the content and the mode the file had when it was added, also when *)
(* its data is compressed, shared with another file's, copied from another  *)
(* archive or read in pieces.  A signature is over the digest of the table  *)
(* of contents that is in the archive.  No call crashes, but for the two    *)
(* that are known to: xar_verify of what has no data (xar_data_verify), and *)
(* an xar_extract_tobuffersz that fails, as it may where it is not due to   *)
(* succeed.                                                                 *)
KnownCrash ==
    \/ res.call = "verify" /\ ~HasProp(x.nodes[res.f].props, <<"data">>)
    \/ res.call = "buffer" /\ ~res.due
RoundTrip ==
    Whole => /\ phase # "refused"
             /\ x.segv => KnownCrash
             /\ res.due /\ ~x.segv =>
                  /\ res.ret = 0
                  /\ res.call = "signature" => /\ res.data.signed = TocDigest(img.alg)
                                               /\ ToSet(res.data.by) = {<<"sig", img.alg>>}
                  /\ res.call \in {"extract", "buffer", "stream", "verify"} => Right

(* The walk (xar_file_first, xar_file_next, xar_prop_next): it returns      *)
(* every file of the archive once, with its path, and for each of them      *)
(* every property once.                                                     *)
RECURSIVE PropCount(_)
PropCount(ps) == IF ps = <<>> THEN 0 ELSE 1 + PropCount(Head(ps).children) + PropCount(Tail(ps))
WalkComplete ==
    /\ IsInjective([i \in 1 .. Len(seen) |-> seen[i].f])
    /\ phase = "walk" => \A i \in 1 .. Len(seen) :
         /\ seen[i].path = xar_get_path(x, seen[i].f)
         /\ IsInjective(seen[i].names) /\ Len(seen[i].names) = PropCount(x.nodes[seen[i].f].props)
    /\ phase = "use" => {seen[i].path : i \in 1 .. Len(seen)} = DOMAIN want

(* Damage is found (xar_hash_out_done): of an archive that was damaged, or  *)
(* written past an error while adding, copying or closing, or read by       *)
(* several readers at a time or with errors, no call that read some of the  *)
(* data of a file with a checksum succeeds with other data than was added.  *)
(* A write of the extracted file that fails (torn) is the one error nobody  *)
(* notices: xar_attrcopy_from_heap ignores what xar_data_write returns.     *)
HasChecksum(f) == HasProp(x.nodes[f].props, <<"data", "archived-checksum">>)
ExtractSound ==
    res.call \in {"extract", "buffer", "stream", "verify"} /\ res.ret = 0 /\ res.read /\ ~x.segv
      /\ ~res.torn /\ HasChecksum(res.f)
      => Right
=============================================================================
