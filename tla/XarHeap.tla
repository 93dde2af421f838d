------------------------------ MODULE XarHeap ------------------------------
(***************************************************************************)
(* The heap of an archive (src/xar/io.c) and the modules the data passes    *)
(* on its way in and out: checksums (hash.c), the look for a script         *)
(* (script.c) and the compressors (zxar.c, bzxar.c, lzmaxar.c).             *)
(*                                                                          *)
(* A file is a sequence of units, read and written in blocks of `rsize'     *)
(* units.  A compressor turns each unit into another and ends the stream    *)
(* with a unit of its own; a digest is an injective function of the units.  *)
(*                                                                          *)
(* An archive x being written has the temporary file `hfile' with its       *)
(* position hpos; one being read has the heap of the archive file and the   *)
(* position pos in it, counted from where the heap begins, so that the      *)
(* lengths of header and table of contents cancel out.                      *)
(***************************************************************************)
EXTENDS XarTree

CONSTANTS DefaultRsize,  \* the block that is read when rsize is not set
          Libraries      \* of bzip2 and lzma, those that are compiled in

\* Digest lengths, in units: what they take at the beginning of the heap.
DigestLen == [none |-> 0, md5 |-> 1, sha1 |-> 2]

\* What a digest, a bad sector or a unit of a file looks like in the heap.
Plain(us) == [i \in 1 .. Len(us) |-> <<"d", us[i]>>]
Units(us) == [i \in 1 .. Len(us) |-> us[i][2]]
Digest(style, us) == ToString(<<style, us>>)

xar_opt_get(x, k) == xar_attr_pget(x.opts, k)
get_rsize(x) ==
    IF xar_opt_get(x, "rsize") = Null THEN DefaultRsize ELSE strtoll(xar_opt_get(x, "rsize"))
get_offset(ps, key) == strtoll(xar_prop_get(ps, <<key, "offset">>))
get_length(ps, key) ==
    LET v == xar_prop_get(ps, <<key, "length">>) IN IF v = Null THEN 0 ELSE strtoll(v)

Smaller(a, b) == IF a < b THEN a ELSE b

-----------------------------------------------------------------------------
(* xar_check_prop: what is included by name, or not excluded.              *)
xar_check_prop(x, name) ==
    LET vals(k) == {x.opts[i][2] : i \in {j \in 1 .. Len(x.opts) : x.opts[j][1] = k}}
    IN  \/ name \in vals("prop-include")
        \/ vals("prop-include") = {} /\ name \notin vals("prop-exclude")

-----------------------------------------------------------------------------
(* The modules, with their contexts in c: the units hashed before and      *)
(* after the compressor, whether script.c has looked and what it found,    *)
(* and the state of the compressor.                                        *)

NoContext == [hash |-> Null, plain |-> <<>>, archived |-> <<>>, looked |-> FALSE, exe |-> Null,
              z |-> [m \in {"gzip", "bzip2", "lzma"} |-> "unset"], count |-> 0, fin |-> FALSE]

xar_hash_unarchived(x, c, us) ==
    LET style == xar_opt_get(x, "file-cksum")
    IN  IF style \in {Null, "none"} THEN c ELSE [c EXCEPT !.hash = style, !.plain = @ \o us]
xar_hash_archived_in(x, c, us) ==
    LET style == xar_opt_get(x, "file-cksum")
    IN  IF style \in {Null, "none"} THEN c ELSE [c EXCEPT !.hash = style, !.archived = @ \o us]

xar_script_in(x, c, us) ==
    IF c.looked \/ ~xar_check_prop(x, "contents") THEN c
    ELSE [c EXCEPT !.looked = TRUE,
                   !.exe = IF Len(us) > 1 /\ us[1] = <<"d", "#!">> THEN us[2][2] ELSE Null]

(* Compressors.  At its first block each one looks whether it is asked     *)
(* for; one that is not compiled in reports it and lets the data through.  *)
(* The stream is ended when nothing more is read; gzip and lzma do nothing *)
(* with a file that is empty from the beginning, bzip2 writes the end of a *)
(* stream.                                                                 *)
Styles == [gzip |-> "application/x-gzip", bzip2 |-> "application/x-bzip2",
           lzma |-> "application/x-lzma", xz |-> "application/x-xz"]
Compiled(m) == m \in Libraries \cup {"gzip"}

Codec(m, names, x, c) ==
    LET opt == xar_opt_get(x, "compression")
    IN  IF c.z[m] # "unset" THEN c.z[m] ELSE IF opt \in names /\ Compiled(m) THEN opt ELSE "off"
Deflate(codec, c, us, nothing) ==
    IF codec = "off" THEN [c |-> c, out |-> us]
    ELSE IF us # <<>> THEN [c |-> [c EXCEPT !.count = @ + Len(us)],
                            out |-> [i \in 1 .. Len(us) |-> <<codec, us[i][2]>>]]
    ELSE IF c.fin \/ nothing THEN [c |-> c, out |-> <<>>]
    ELSE [c |-> [c EXCEPT !.fin = TRUE], out |-> <<<<codec, "end">>>>]
Compress(m, names, x, c, us) ==
    LET with(codec) == Deflate(codec, [c EXCEPT !.z[m] = codec], us,
                               c.z[m] = "unset" /\ m # "bzip2")
    IN  with(Codec(m, names, x, c))
xar_gzip_toheap_in(x, c, us) == Compress("gzip", {"gzip"}, x, c, us)
xar_bzip_toheap_in(x, c, us) == Compress("bzip2", {"bzip2"}, x, c, us)
xar_lzma_toheap_in(x, c, us) == Compress("lzma", {"lzma", "xz"}, x, c, us)

(* All the `in' modules, then all the `out' modules (xar_datamods).        *)
ToHeap(x, c, us) ==
    LET bzip(a) == xar_bzip_toheap_in(x, a.c, a.out)
        lzma(a) == xar_lzma_toheap_in(x, a.c, a.out)
        hash(a) == [a EXCEPT !.c = xar_hash_archived_in(x, @, a.out)]
    IN  hash(lzma(bzip(xar_gzip_toheap_in(x, xar_script_in(x, xar_hash_unarchived(x, c, us), us), us))))

xar_hash_done(ps, key, c) ==
    LET put(qs, k, us) == xar_attr_set(xar_prop_set(qs, <<key, k>>, Digest(c.hash, us)),
                                       <<key, k>>, "style", c.hash)
    IN  IF c.hash = Null \/ c.plain = <<>> THEN ps
        ELSE put(put(ps, "extracted-checksum", c.plain), "archived-checksum", c.archived)
ScriptProps(ps, key, c) ==
    IF c.exe = Null THEN ps
    ELSE xar_prop_set(xar_prop_set(ps, <<key, "contents", "type">>, "script"),
                      <<key, "contents", "interpreter">>, c.exe)
Encoded(ps, key, style) ==
    xar_attr_set(xar_prop_set(ps, <<key, "encoding">>, Null), <<key, "encoding">>, "style", style)
xar_gzip_toheap_done(ps, key, c) ==
    IF c.z.gzip = "off" \/ c.count = 0 THEN ps ELSE Encoded(ps, key, Styles.gzip)
xar_bzip_toheap_done(ps, key, c) == IF c.z.bzip2 = "off" THEN ps ELSE Encoded(ps, key, Styles.bzip2)
xar_lzma_toheap_done(ps, key, c) == IF c.z.lzma = "off" THEN ps ELSE Encoded(ps, key, Styles[c.z.lzma])
ToHeapDone(ps, key, c) ==
    xar_lzma_toheap_done(
      xar_bzip_toheap_done(
        xar_gzip_toheap_done(xar_hash_done(ScriptProps(ps, key, c), key, c), key, c), key, c), key, c)

-----------------------------------------------------------------------------
(* Writing.  write(2) at the position of the heap file.                    *)
Write(x, us) ==
    [x EXCEPT !.hfile = [i \in 1 .. (IF Len(@) > x.hpos + Len(us) THEN Len(@) ELSE x.hpos + Len(us)) |->
                           IF i \in x.hpos + 1 .. x.hpos + Len(us) THEN us[i - x.hpos] ELSE @[i]],
              !.hpos = @ + Len(us)]

(* The loop of xar_attrcopy_to_heap.  `fault' says which block cannot be   *)
(* read, or written (and how much of it is before the error); what has     *)
(* been written stays, and heap_offset counts the blocks before.           *)
NoFault == [kind |-> "none", block |-> 0, part |-> 0]
RECURSIVE CopyIn(_, _, _)
CopyIn(s, us, fault) ==
    LET hit(kind) == s.block = fault.block /\ fault.kind = kind
        more(r, next) == IF r = 0 THEN next ELSE CopyIn(next, SubSeq(us, r + 1, Len(us)), fault)
        put(r, z) ==
          IF hit("write") /\ z.out # <<>>
          THEN [s EXCEPT !.ret = -1, !.total = @ + r, !.x = Write(@, SubSeq(z.out, 1, fault.part))]
          ELSE more(r, [s EXCEPT !.x = [Write(@, z.out) EXCEPT !.heap_offset = @ + Len(z.out)],
                                 !.c = z.c, !.block = @ + 1, !.total = @ + r,
                                 !.written = @ + Len(z.out)])
        block(r) == put(r, ToHeap(s.x, s.c, SubSeq(us, 1, r)))
    IN  IF hit("read") THEN [s EXCEPT !.ret = -1] ELSE block(Smaller(get_rsize(s.x), Len(us)))

(* The data of a file that is in the heap already.                         *)
(* Mutant: the copy is given up without moving back. *)
NoSeek(x, offset, n) == [x EXCEPT !.heap_offset = offset]
GiveBack(x, offset, n) == [x EXCEPT !.heap_offset = offset, !.hpos = @ - n]

SetProps(x, f, ps) == [x EXCEPT !.nodes[f].props = ps]
linksame(x, f, g) ==
    LET id == xar_attr_pget(x.nodes[g].attrs, "id")
        links(ps, v) == xar_attr_set(xar_prop_set(ps, <<"type">>, "hardlink"), <<"type">>, "link", v)
        y == SetProps(x, g, links(x.nodes[g].props, "original"))
    IN  SetProps(y, f, xar_prop_unset(links(x.nodes[f].props, id), <<"data">>))

\* The properties that say where the data is.
Extent(x, f, key, size, offset, length) ==
    LET ps1 == xar_prop_set(xar_prop_set(x.nodes[f].props, <<key, "size">>, Dec(size)),
                            <<key, "offset">>, Dec(offset))
        ps2 == IF xar_opt_get(x, "compression") = "none"
               THEN Encoded(ps1, key, "application/octet-stream") ELSE ps1
    IN  SetProps(x, f, xar_prop_set(ps2, <<key, "length">>, Dec(length)))

(* After the loop: an empty file leaves nothing; a file whose digest is    *)
(* known becomes a hard link (linksame) or shares the extent (coalesce).   *)
Known(x, csum) == IF csum \in DOMAIN x.csum_hash THEN x.csum_hash[csum] ELSE 0
Keep(x, f, csum, n) ==
    [x EXCEPT !.heap_len = @ + n,
              !.csum_hash = IF csum \in DOMAIN @ \cup {Null} THEN @ ELSE @ @@ (csum :> f)]
Placed(x, s, f, key, start, csum) ==
    LET g == Known(x, csum)
        offset == xar_prop_get(x.nodes[g].props, <<key, "offset">>)
    IN  CASE s.total = 0 -> GiveBack(x, start, s.written)
          [] s.total # 0 /\ g # 0 /\ xar_opt_get(x, "linksame") # Null /\ key = "data" ->
               GiveBack(linksame(x, f, g), start, s.written)
          [] s.total # 0 /\ g # 0 /\ xar_opt_get(x, "linksame") = Null
             /\ xar_opt_get(x, "coalesce") # Null /\ offset # Null ->
               Extent(GiveBack(x, start, s.written), f, key, s.total, strtoll(offset), s.written)
          [] OTHER -> Extent(Keep(x, f, csum, s.written), f, key, s.total, start, s.written)
Filed(x, s, f, key, start) ==
    Placed(x, s, f, key, start, xar_prop_get(x.nodes[f].props, <<key, "archived-checksum">>))
Store(s, f, key, start) ==
    Filed(SetProps(s.x, f, ToHeapDone(s.x.nodes[f].props, key, s.c)), s, f, key, start)

Stored(s, f, key, start) ==
    [x |-> IF s.ret < 0 THEN s.x ELSE Store(s, f, key, start), ret |-> s.ret, total |-> s.total]
xar_attrcopy_to_heap(x, f, key, us, fault) ==
    Stored(CopyIn([x |-> x, c |-> NoContext, block |-> 1, total |-> 0, written |-> 0, ret |-> 0],
                  us, fault), f, key, x.heap_offset)

-----------------------------------------------------------------------------
(* Reading.  A pipe cannot be moved in: what lies before is read, and what *)
(* is behind is out of reach, which is reported and otherwise ignored.     *)
xar_io_seek(x, to) ==
    CASE ~x.pipe -> [x EXCEPT !.pos = to]
      [] x.pipe /\ x.heap_offset > to -> x
      [] x.pipe /\ x.heap_offset <= to ->
           LET n == to - x.heap_offset
               ok == x.pos + n <= Len(x.heap)
           IN  [x EXCEPT !.pos = Smaller(@ + n, Len(x.heap)),
                         !.heap_offset = IF ok THEN to ELSE @ - 1]

(* read(2) of at most n units.                                             *)
Block(x, n) == SubSeq(x.heap, x.pos + 1, Smaller(x.pos + n, Len(x.heap)))
Advance(x, n) == [x EXCEPT !.pos = @ + n, !.heap_offset = @ + n]

(* The modules on the way out.  A unit that is not what the compressor     *)
(* wrote makes it fail or (luck) come out as something else.               *)
(* A digest by the option file-cksum is not taken: there is nothing in the *)
(* archive it would be compared with.                                      *)
xar_hash_archived(ps, key, c, us) ==
    LET style == xar_attr_get(ps, <<key, "archived-checksum">>, "style")
    IN  IF style = Null THEN c ELSE [c EXCEPT !.hash = style, !.archived = @ \o us]
EncodedAs(m, names, ps, key, c) ==
    LET style == xar_attr_get(ps, <<key, "encoding">>, "style")
        asked == {n \in names : Compiled(m) /\ Styles[n] = style}
    IN  IF c.z[m] # "unset" THEN c.z[m]
        ELSE CHOOSE n \in names \cup {"off"} : IF asked = {} THEN n = "off" ELSE n \in asked
Inflate(codec, c, us, luck) ==
    LET bad == \E i \in 1 .. Len(us) : us[i][1] # codec \/ (us[i][2] = "end" /\ i # Len(us))
        data(units) == [i \in 1 .. Len(units) |->
                          <<"d", IF units[i][1] = codec THEN units[i][2] ELSE "garbage">>]
    IN  IF codec = "off" THEN [c |-> c, out |-> us, ret |-> 0]
        ELSE IF bad /\ ~luck THEN [c |-> c, out |-> <<>>, ret |-> -1]
        ELSE [c |-> c, out |-> data(SelectSeq(us, LAMBDA u : u # <<codec, "end">>)), ret |-> 0]
Expand(m, names, ps, key, c, us, luck) ==
    LET with(codec) == Inflate(codec, [c EXCEPT !.z[m] = codec], us, luck)
    IN  with(EncodedAs(m, names, ps, key, c))
xar_gzip_fromheap_in(ps, key, c, us, luck) == Expand("gzip", {"gzip"}, ps, key, c, us, luck)
xar_bzip_fromheap_in(ps, key, c, us, luck) == Expand("bzip2", {"bzip2"}, ps, key, c, us, luck)
xar_lzma_fromheap_in(ps, key, c, us, luck) == Expand("lzma", {"lzma", "xz"}, ps, key, c, us, luck)

\* The first module that fails ends it.
FromHeap(ps, key, c, us, luck) ==
    LET bzip(a) == IF a.ret < 0 THEN a ELSE xar_bzip_fromheap_in(ps, key, a.c, a.out, luck)
        lzma(a) == IF a.ret < 0 THEN a ELSE xar_lzma_fromheap_in(ps, key, a.c, a.out, luck)
    IN  lzma(bzip(xar_gzip_fromheap_in(ps, key, xar_hash_archived(ps, key, c, us), us, luck)))

(* Mutant: a checksum that does not match is only reported. *)
OnlyReported(ps, key, c) == 0
xar_hash_out_done(ps, key, c) ==
    IF c.hash = Null \/ xar_prop_get(ps, <<key, "archived-checksum">>) = Digest(c.hash, c.archived)
    THEN 0 ELSE -1

(* io says whether there is luck and which block cannot be read, or not    *)
(* be written to where it goes; that is not looked at, and the file is     *)
(* torn: it has only a part of the block, and the next follows it.         *)
RECURSIVE CopyOut(_, _, _, _, _)
CopyOut(s, ps, key, left, io) ==
    LET hit(kind) == s.block = io.fault.block /\ io.fault.kind = kind
        put(us) == [s EXCEPT !.block = @ + 1, !.torn = @ \/ (hit("write") /\ us # <<>>),
                             !.data = @ \o (IF hit("write") THEN SubSeq(us, 1, io.fault.part) ELSE us)]
        got(n, z) ==
          IF z.ret < 0 THEN [s EXCEPT !.ret = -1, !.x = Advance(@, n)]
          ELSE CopyOut([put(z.out) EXCEPT !.x = Advance(@, n), !.c = z.c], ps, key, left - n, io)
        read(us) ==
          IF left = 0 \/ (us = <<>> /\ ~hit("read")) THEN [s EXCEPT !.ret = xar_hash_out_done(ps, key, s.c)]
          ELSE IF hit("read") THEN [s EXCEPT !.ret = -1]
          ELSE got(Len(us), FromHeap(ps, key, s.c, us, io.luck))
    IN  read(Block(s.x, Smaller(left, get_rsize(s.x))))

xar_attrcopy_from_heap(x, ps, key, io) ==
    LET nothing == [x |-> x, c |-> NoContext, data |-> <<>>, ret |-> 0, block |-> 1, torn |-> FALSE]
    IN  IF xar_prop_get(ps, <<key, "offset">>) = Null THEN nothing
        ELSE IF get_length(ps, key) = 0
        THEN [nothing EXCEPT !.x = xar_io_seek(@, get_offset(ps, key))]
        ELSE CopyOut([nothing EXCEPT !.x = xar_io_seek(@, get_offset(ps, key))],
                     ps, key, get_length(ps, key), io)

(* From the heap of one archive to that of another, as it is.  An error in *)
(* writing is not noticed: -1 is added to the offset, and of a block that  *)
(* is written in part the rest is not tried again.                         *)
RECURSIVE CopyOver(_, _, _)
CopyOver(s, left, fault) ==
    LET hit(kind) == s.block = fault.block /\ fault.kind = kind
        to(us, n) == [s EXCEPT !.x = [Write(@, SubSeq(us, 1, n)) EXCEPT !.heap_offset = @ + n, !.heap_len = @ + n],
                               !.src = Advance(@, Len(us)), !.block = @ + 1]
        n(us) == IF ~hit("write") THEN Len(us) ELSE IF fault.part = 0 THEN -1 ELSE Smaller(fault.part, Len(us))
        read(us) == IF left = 0 \/ (us = <<>> /\ ~hit("read")) THEN s
                    ELSE IF hit("read") THEN [s EXCEPT !.ret = -1]
                    ELSE CopyOver(to(us, n(us)), left - Len(us), fault)
    IN  read(Block(s.src, Smaller(left, get_rsize(s.src))))
xar_attrcopy_from_heap_to_heap(src, ps, key, x, f, fault) ==
    LET s == [src |-> xar_io_seek(src, get_offset(ps, key)), x |-> x, block |-> 1, ret |-> 0]
        placed(done) ==
          IF done.ret < 0 THEN done
          ELSE [done EXCEPT !.x.nodes[f].props = xar_prop_set(@, <<key, "offset">>, Dec(x.heap_offset))]
    IN  IF get_length(ps, key) = 0 THEN s ELSE placed(CopyOver(s, get_length(ps, key), fault))

-----------------------------------------------------------------------------
(* A stream: the caller gives room for `avail' units at a time.            *)
\* `mixed' is for the properties: some other reader has moved the position, or
\* a read has failed.
NoStream == [f |-> 0, c |-> NoContext, fsize |-> 0, total_in |-> 0, pending |-> <<>>,
             out |-> <<>>, ret |-> "none", mixed |-> FALSE]

xar_attrcopy_from_heap_to_stream_init(x, f, key) ==
    LET ps == x.nodes[f].props
    IN  [x |-> xar_io_seek(x, get_offset(ps, key)),
         s |-> [NoStream EXCEPT !.f = f, !.fsize = get_length(ps, key), !.ret = "OK"]]

flush_stream(s, avail) ==
    LET n == Smaller(avail, Len(s.pending))
    IN  [s EXCEPT !.out = @ \o SubSeq(s.pending, 1, n), !.pending = SubSeq(@, n + 1, Len(@))]
write_to_stream(s, us, avail) ==
    LET n == Smaller(avail, Len(us))
    IN  [s EXCEPT !.out = @ \o SubSeq(us, 1, n), !.pending = SubSeq(us, n + 1, Len(us))]

xar_attrcopy_from_heap_to_stream(x, s, key, avail, io) ==
    LET put(t, z) == IF z.ret < 0 THEN [t EXCEPT !.ret = "ERR"]
                     ELSE [write_to_stream(t, z.out, avail) EXCEPT !.ret = "OK"]
        got(n, z) == [x |-> Advance(x, n), s |-> put([s EXCEPT !.total_in = @ + n, !.c = z.c], z)]
        read(us) == IF s.fsize = s.total_in \/ (us = <<>> /\ io.fault.kind # "read")
                    THEN [x |-> x, s |-> [s EXCEPT !.ret = "END"]]
                    ELSE IF io.fault.kind = "read" THEN [x |-> x, s |-> [s EXCEPT !.ret = "ERR"]]
                    ELSE got(Len(us), FromHeap(x.nodes[s.f].props, key, s.c, us, io.luck))
    IN  IF s.pending # <<>> THEN [x |-> x, s |-> [flush_stream(s, avail) EXCEPT !.ret = "OK"]]
        ELSE read(Block(x, Smaller(s.fsize - s.total_in, get_rsize(x))))

xar_attrcopy_from_heap_to_stream_end(x, s, key) == xar_hash_out_done(x.nodes[s.f].props, key, s.c)
=============================================================================
