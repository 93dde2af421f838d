------------------------------ MODULE XarTree ------------------------------
(***************************************************************************)
(* The trees of an archive of src/xar (filetree.c, archive.c): every file   *)
(* has properties, a property has properties below it, and both have        *)
(* attributes.  New properties and attributes come first in their lists,    *)
(* new files of a directory last.  A file is a node of a table, so that a   *)
(* hash table or a list can be left with a file that has been freed; a      *)
(* property is a record inside its file.  The XML of the table of contents  *)
(* is a tree of elements.                                                   *)
(***************************************************************************)
EXTENDS Integers, Sequences, SequencesExt, FiniteSets, TLC

CONSTANTS WideNames   \* the file names that are not Latin-1

Null == "NULL"

(* Numbers are written into the table of contents and read back: asprintf  *)
(* and strtoll.                                                            *)
MaxNumber == 40
Dec(n) == ToString(n)
strtoll(s) == CHOOSE n \in 0 .. MaxNumber : ToString(n) = s

-----------------------------------------------------------------------------
(* Attributes: pairs of a key and a value.                                 *)

xar_attr_pget(as, k) ==
    LET i == SelectInSeq(as, LAMBDA a : a[1] = k) IN IF i = 0 THEN Null ELSE as[i][2]

(* The loop stops before the last attribute.                               *)
xar_attr_pset(as, k, v) ==
    LET i == SelectInSeq(IF as = <<>> THEN as ELSE Front(as), LAMBDA a : a[1] = k)
    IN  IF i = 0 THEN <<<<k, v>>>> \o as ELSE [as EXCEPT ![i] = <<k, v>>]

-----------------------------------------------------------------------------
(* Properties.                                                             *)

xar_prop_new(k, v) == [key |-> k, value |-> v, attrs |-> <<>>, children |-> <<>>]
NoProp == xar_prop_new(Null, Null)
KeyIndex(ps, k) == SelectInSeq(ps, LAMBDA p : p.key = k)

RECURSIVE xar_prop_find(_, _)
xar_prop_find(ps, path) ==
    LET i == KeyIndex(ps, path[1])
    IN  IF i = 0 THEN NoProp
        ELSE IF Len(path) = 1 THEN ps[i]
        ELSE xar_prop_find(ps[i].children, Tail(path))

xar_prop_get(ps, path) == xar_prop_find(ps, path).value
HasProp(ps, path) == xar_prop_find(ps, path) # NoProp

(* xar_prop_set_r with `overwrite': the first property with the key gets   *)
(* the value, what is missing of the path is created.                      *)
RECURSIVE xar_prop_set(_, _, _)
xar_prop_set(ps, path, v) ==
    LET i == KeyIndex(ps, path[1])
        rest == Tail(path)
    IN  IF rest = <<>>
        THEN IF i = 0 THEN <<xar_prop_new(path[1], v)>> \o ps
             ELSE [ps EXCEPT ![i].value = v]
        ELSE IF i = 0
        THEN <<[xar_prop_new(path[1], Null) EXCEPT !.children = xar_prop_set(@, rest, v)]>> \o ps
        ELSE [ps EXCEPT ![i].children = xar_prop_set(@, rest, v)]

RECURSIVE xar_prop_unset(_, _)
xar_prop_unset(ps, path) ==
    LET i == KeyIndex(ps, path[1])
    IN  IF i = 0 THEN ps
        ELSE IF Len(path) = 1 THEN RemoveAt(ps, i)
        ELSE [ps EXCEPT ![i].children = xar_prop_unset(@, Tail(path))]

RECURSIVE xar_attr_set(_, _, _, _)
xar_attr_set(ps, path, k, v) ==
    LET i == KeyIndex(ps, path[1])
    IN  IF i = 0 THEN ps
        ELSE IF Len(path) = 1 THEN [ps EXCEPT ![i].attrs = xar_attr_pset(@, k, v)]
        ELSE [ps EXCEPT ![i].children = xar_attr_set(@, Tail(path), k, v)]
xar_attr_get(ps, path, k) == xar_attr_pget(xar_prop_find(ps, path).attrs, k)

(* A copy has its lists the other way round.                               *)
RECURSIVE xar_prop_replicate_r(_)
xar_prop_replicate_r(ps) ==
    Reverse([i \in 1 .. Len(ps) |-> [ps[i] EXCEPT !.children = xar_prop_replicate_r(@)]])

-----------------------------------------------------------------------------
(* Iterators over properties: where it is (indexes from the top), the path *)
(* of the parents, and whether the children have been visited.             *)

RECURSIVE PropAt(_, _)
PropAt(ps, at) ==
    IF Len(at) = 1 THEN ps[at[1]] ELSE PropAt(ps[at[1]].children, Tail(at))
SiblingsAt(ps, at) ==
    IF Len(at) = 1 THEN ps ELSE PropAt(ps, Front(at)).children

EndOfList == [at |-> <<>>, path |-> <<>>, nochild |-> FALSE]
xar_prop_first(ps) == IF ps = <<>> THEN EndOfList ELSE [EndOfList EXCEPT !.at = <<1>>]

RECURSIVE xar_prop_next(_, _)
xar_prop_next(ps, it) ==
    LET p == PropAt(ps, it.at)
        i == Last(it.at)
    IN  IF ~it.nochild /\ p.children # <<>>
        THEN [it EXCEPT !.at = Append(@, 1), !.path = Append(@, p.key)]
        ELSE IF i < Len(SiblingsAt(ps, it.at))
        THEN [it EXCEPT !.at = Append(Front(@), i + 1), !.nochild = FALSE]
        ELSE IF Len(it.at) > 1
        THEN xar_prop_next(ps, [at |-> Front(it.at), path |-> Front(it.path), nochild |-> TRUE])
        ELSE EndOfList

(* The names an iteration returns.                                         *)
RECURSIVE NamesFrom(_, _)
NamesFrom(ps, it) ==
    IF it = EndOfList THEN <<>>
    ELSE <<Append(it.path, PropAt(ps, it.at).key)>> \o NamesFrom(ps, xar_prop_next(ps, it))
PropNames(ps) == NamesFrom(ps, xar_prop_first(ps))

-----------------------------------------------------------------------------
(* Files.  t.nodes is the table of the files that exist, t.files the list  *)
(* of those at the top.                                                    *)

xar_file_new(parent, fspath) ==
    [parent |-> parent, children |-> <<>>, props |-> <<>>, attrs |-> <<>>, fspath |-> fspath,
     parent_extracted |-> 0]

NameOf(t, n) == xar_prop_get(t.nodes[n].props, <<"name">>)
FileList(t, parent) == IF parent = 0 THEN t.files ELSE t.nodes[parent].children
Freed(t, n) == n \notin DOMAIN t.nodes

(* At the top a file is put in front, below a directory at the end.        *)
Link(t, n, parent) ==
    IF parent = 0 THEN [t EXCEPT !.files = <<n>> \o @]
    ELSE [t EXCEPT !.nodes[parent].children = Append(@, n)]

(* xar_file_free with what is below; the lists are the caller's business.  *)
RECURSIVE Below(_, _)
Below(t, n) == {n} \cup UNION {Below(t, c) : c \in ToSet(t.nodes[n].children)}
xar_file_free(t, n) ==
    [t EXCEPT !.nodes = [m \in DOMAIN t.nodes \ Below(t, n) |-> t.nodes[m]]]

(* Iterators over files.                                                   *)
NoFile == [at |-> 0, path |-> <<>>, nochild |-> FALSE]
xar_file_first(t) == IF t.files = <<>> THEN NoFile ELSE [NoFile EXCEPT !.at = t.files[1]]

(* Mutant: the children are visited again on the way up. *)
KeepDescending(it, parent) == [it EXCEPT !.at = parent, !.path = Front(@)]
GoUp(it, parent) == [it EXCEPT !.at = parent, !.path = Front(@), !.nochild = TRUE]

RECURSIVE xar_file_next(_, _)
xar_file_next(t, it) ==
    LET n == t.nodes[it.at]
        list == FileList(t, n.parent)
        i == SelectInSeq(list, LAMBDA m : m = it.at)
    IN  IF ~it.nochild /\ n.children # <<>>
        THEN [it EXCEPT !.at = n.children[1], !.path = Append(@, NameOf(t, it.at))]
        ELSE IF i < Len(list) THEN [it EXCEPT !.at = list[i + 1], !.nochild = FALSE]
        ELSE IF n.parent # 0 THEN xar_file_next(t, GoUp(it, n.parent))
        ELSE NoFile

RECURSIVE xar_file_find(_, _, _)
xar_file_find(t, list, path) ==
    LET i == SelectInSeq(list, LAMBDA n : NameOf(t, n) = path[1])
    IN  IF i = 0 THEN 0
        ELSE IF Len(path) = 1 THEN list[i]
        ELSE xar_file_find(t, t.nodes[list[i]].children, Tail(path))

RECURSIVE xar_get_path(_, _)
xar_get_path(t, n) ==
    IF n = 0 THEN <<>> ELSE Append(xar_get_path(t, t.nodes[n].parent), NameOf(t, n))

(* A file of another archive: its attributes except the id, and its        *)
(* properties.                                                             *)
xar_file_replicate(node, parent) ==
    [xar_file_new(parent, <<>>) EXCEPT
        !.attrs = Reverse(SelectSeq(node.attrs, LAMBDA a : a[1] # "id")),
        !.props = xar_prop_replicate_r(node.props)]

-----------------------------------------------------------------------------
(* XML elements.  A parser refuses an element that has an attribute twice. *)

Element(tag, as, text, kids) == [tag |-> tag, attrs |-> as, text |-> text, kids |-> kids]
RECURSIVE WellFormed(_)
WellFormed(e) ==
    /\ IsInjective([i \in 1 .. Len(e.attrs) |-> e.attrs[i][1]])
    /\ \A i \in 1 .. Len(e.kids) : WellFormed(e.kids[i])

(* A name that is not Latin-1 is written in base 64.                       *)
Base64(v) == ToString(<<"base64", v>>)
xar_from_base64(v) == CHOOSE w \in WideNames : Base64(w) = v
NameElement(p, kids) ==
    IF p.key = "name" /\ p.value \in WideNames
    THEN Element(p.key, Append(p.attrs, <<"enctype", "base64">>), Base64(p.value), kids)
    ELSE Element(p.key, p.attrs, p.value, kids)

RECURSIVE xar_prop_serialize(_)
xar_prop_serialize(ps) ==
    [i \in 1 .. Len(ps) |-> NameElement(ps[i], xar_prop_serialize(ps[i].children))]

RECURSIVE xar_file_serialize(_, _)
xar_file_serialize(t, list) ==
    [i \in 1 .. Len(list) |->
       LET n == t.nodes[list[i]]
       IN  Element("file", n.attrs, Null,
                   xar_prop_serialize(n.props) \o xar_file_serialize(t, n.children))]

IsEncoded(e) == e.tag = "name" /\ xar_attr_pget(e.attrs, "enctype") = "base64"
RECURSIVE xar_prop_unserialize(_)
xar_prop_unserialize(es) ==
    LET read(e) ==
          [key |-> e.tag,
           value |-> IF IsEncoded(e) THEN xar_from_base64(e.text) ELSE e.text,
           attrs |-> Reverse(IF IsEncoded(e)
                             THEN SelectSeq(e.attrs, LAMBDA a : a[1] # "enctype") ELSE e.attrs),
           children |-> xar_prop_unserialize(e.kids)]
    IN  Reverse([i \in 1 .. Len(es) |-> read(es[i])])

(* A file element becomes the next node of the table, linked below its     *)
(* parent; an original that others are hard links to is entered in         *)
(* link_hash once its end is read.                                         *)
Original(node) == /\ xar_prop_get(node.props, <<"type">>) = "hardlink"
                  /\ xar_attr_get(node.props, <<"type">>, "link") = "original"
LinkHash(t, n) ==
    LET id == xar_attr_pget(t.nodes[n].attrs, "id")
    IN  IF Original(t.nodes[n]) THEN [t EXCEPT !.link_hash = @ @@ (id :> n)] ELSE t

RECURSIVE xar_file_unserialize(_, _, _)
xar_file_unserialize(t, parent, es) ==
    IF es = <<>> THEN t
    ELSE LET e == es[1]
             n == Cardinality(DOMAIN t.nodes) + 1
             ps == xar_prop_unserialize(SelectSeq(e.kids, LAMBDA k : k.tag # "file"))
             dir == IF parent = 0 THEN <<>> ELSE t.nodes[parent].fspath
             node == [xar_file_new(parent, Append(dir, xar_prop_get(ps, <<"name">>)))
                        EXCEPT !.attrs = Reverse(e.attrs), !.props = ps]
             t1 == Link([t EXCEPT !.nodes = @ @@ (n :> node)], n, parent)
             t2 == xar_file_unserialize(t1, n, SelectSeq(e.kids, LAMBDA k : k.tag = "file"))
         IN  xar_file_unserialize(LinkHash(t2, n), parent, Tail(es))
=============================================================================
