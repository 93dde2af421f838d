------------------------------- MODULE MCXar -------------------------------
(***************************************************************************)
(* The archive library with the programs below: the options, ways to add    *)
(* and ways to read that interact, with faults while the archive is written *)
(* and damage to it afterwards.                                             *)
(***************************************************************************)
EXTENDS XarArchive

MCWideNames == {"wide"}
MCPasswd == [pkg |-> "7"]

Meta(mode, uid, user) ==
    [mode |-> mode, uid |-> uid, user |-> user, group |-> "wheel", mtime |-> "t1"]
Entry(type, ino, nlink, content) ==
    [type |-> type, ino |-> ino, nlink |-> nlink, content |-> content, target |-> <<>>,
     meta |-> Meta("0640", "0", "root")]
Abc == <<"a", "b", "c">>
MCSource ==
    (<<"d">> :> [Entry("directory", 1, 2, <<>>) EXCEPT !.meta.mode = "0700"]) @@
    (<<"d", "one">> :> Entry("file", 2, 2, Abc)) @@
    (<<"d", "two">> :> Entry("file", 2, 2, Abc)) @@
    (<<"same">> :> Entry("file", 3, 1, <<"k", "l">>)) @@
    (<<"copy">> :> Entry("file", 4, 1, <<"k", "l">>)) @@
    (<<"wide">> :> [Entry("file", 5, 1, <<"#!", "sh", "x">>) EXCEPT !.meta = Meta("4755", "7", "pkg")]) @@
    (<<"none">> :> Entry("file", 6, 1, <<>>)) @@
    (<<"to">> :> [Entry("symlink", 7, 1, <<>>) EXCEPT !.target = <<"same">>]) @@
    (<<"fifo">> :> Entry("fifo", 8, 1, <<>>)) @@
    (<<"null">> :> Entry("character special", 9, 1, <<>>))

Call(c) == [call |-> c, dir |-> <<>>, name |-> Null, real |-> <<>>, content |-> <<>>, key |-> Null, value |-> Null]
Opt(key, v) == [Call("opt") EXCEPT !.key = key, !.value = v]
Add(path) == [Call("add") EXCEPT !.real = path]
Buffer(dir, name, us) == [Call("buffer") EXCEPT !.dir = dir, !.name = name, !.content = us]
From(dir, name, path) == [Call("frompath") EXCEPT !.dir = dir, !.name = name, !.real = path]
Folder(dir, name, path) == [Call("folder") EXCEPT !.dir = dir, !.name = name, !.real = path]
Fault(kind, block, part) == [kind |-> kind, block |-> block, part |-> part]

Base(calls) == [calls |-> calls, copy |-> <<>>, faults |-> {}, closing |-> {}, io |-> {}, damage |-> {}, pipe |-> FALSE,
                reading |-> <<>>, uses |-> 2, streams |-> 0]

\* A tree with hard links, added with its directories or before them.
Tree == {[Base(<<Add(<<".", "d", "one">>), Add(<<"d">>), Add(<<"d", "two">>), Add(<<"to">>), Add(<<"none">>), Add(<<"missing">>)>>)
            EXCEPT !.uses = 3],
         Base(<<Opt("compression", "bzip2"), [Call("unopt") EXCEPT !.key = "file-cksum"], Add(<<"d">>), Add(<<"d", "one">>),
                Folder(<<"d">>, "sub", <<"d">>), Buffer(<<"d", "sub">>, "deep", Abc), From(<<"d">>, "last", <<"wide">>), Add(<<"none">>)>>),
         Base(<<Opt("prop-exclude", "contents"), Add(<<"fifo">>), Add(<<"null">>), Add(<<"wide">>), Add(<<"none">>)>>)}
\* Files with the same content.
Shared == {Base(<<Opt(o, "true"), Opt("compression", c), Opt("rsize", r), Add(<<"same">>), Add(<<"copy">>), Add(<<"wide">>)>>) :
             o \in {"linksame", "coalesce"}, c \in {"none", "gzip"}, r \in {"1", "2"}}
\* Who extracts, and how the owner is taken.
Owners == {[Base(<<Add(<<"wide">>), Add(<<"same">>)>>) EXCEPT !.reading = r] :
             r \in {<<<<"ownership", "symbolic">>>>, <<<<"ownership", "numeric">>, <<"rsize", "1">>>>, <<<<"savesuid", "true">>>>}}
\* Signatures, copies, pipes and streams.
Signed2 == {Base(<<Call("sign"), Call("sign"), Add(<<"same">>), Call("sign")>>),
            Base(<<Opt("toc-cksum", "md5"), Opt("compression", "lzma"), Add(<<"same">>), Add(<<"wide">>)>>)}
Copied == {[Base(<<Add(<<"same">>), Add(<<"d">>), From(<<"d">>, "x", <<"wide">>), Add(<<"none">>)>>)
              EXCEPT !.copy = <<<<"d", "x">>, <<"none">>, <<"same">>>>, !.faults = f]
             : f \in {{}, {Fault("write", 1, 0), Fault("write", 1, 1), Fault("read", 1, 0), Fault("read", 2, 0)}}}
Piped == {[Base(<<Add(<<"same">>), Add(<<"wide">>), Add(<<"none">>)>>)
             EXCEPT !.pipe = TRUE, !.streams = 1, !.uses = 3]}
Streamed == {[Base(<<Add(<<"same">>), Add(<<"wide">>)>>) EXCEPT !.streams = 2, !.reading = <<<<"rsize", r>>>>] : r \in {"1", "3"}}
\* Errors while writing, and damage afterwards.
Faulty == {[Base(<<Opt("rsize", "1"), Opt("compression", c), Add(<<"same">>), Add(<<"d", "one">>), Add(<<"copy">>)>>)
              EXCEPT !.faults = {Fault("read", 2, 0), Fault("write", 1, 1), Fault("write", 2, 0), Fault("open", 0, 0)}] :
             c \in {"none", "gzip"}}
Broken == {[Base(<<Opt("toc-cksum", s), Opt("compression", c), Add(<<"same">>), Add(<<"wide">>)>>)
              EXCEPT !.damage = {"alg", "toc", "heap"}, !.streams = 1] : s \in {"none", "md5"}, c \in {"none", "gzip"}}

\* Errors while closing, and while reading.
Closing == {[Base(<<Call("sign"), Call("sign"), Add(<<"same">>), Add(<<"wide">>)>>)
               EXCEPT !.closing = {"tmp", "toc", "header", "digest", "signer", "signature", "heap", "short"}],
            [Base(<<Opt("toc-cksum", "none"), Add(<<"same">>), Add(<<"wide">>)>>)
               EXCEPT !.closing = {"heap", "short"}]}
Reading == {[Base(<<Add(<<"d", "one">>), Add(<<"d", "two">>), Add(<<"none">>)>>)
               EXCEPT !.io = {Fault("open", 0, 0), Fault("read", 1, 0), Fault("read", 2, 0), Fault("write", 1, 0), Fault("write", 2, 1)},
                      !.reading = <<<<"rsize", r>>>>, !.streams = s] : r \in {"1", "2"}, s \in {0, 1}}

MCPrograms == Tree \cup Shared \cup Owners \cup Signed2 \cup Copied \cup Piped \cup Streamed \cup Faulty \cup Broken \cup Closing \cup Reading
=============================================================================
