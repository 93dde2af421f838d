-------------------------------- MODULE Conf --------------------------------
(***************************************************************************)
(* The configuration of conf.c: dconf_init reads a file line by line into  *)
(* a dictionary; dconf_set and dconf_unset change it afterwards and        *)
(* dconf_fini drops it.                                                    *)
(*                                                                         *)
(* Abstractions.  A line is what the code makes of it after stripping:     *)
(* "skip" is empty or a line comment, "open" starts with /*, "close" with  *)
(* an asterisk and a slash, "bare" has no equals sign, "set" has one.      *)
(***************************************************************************)
EXTENDS Dictionary, Sequences

CONSTANT MaxLines   \* bound: the lines of the file

ASSUME MaxLinesIsNat == MaxLines \in Nat

Lines ==
    [kind : {"skip", "open", "close", "bare"}, key : {Null}, val : {Null}]
        \union [kind : {"set"}, key : Keys, val : Values]

VARIABLES
    file,       \* the lines of the configuration file
    line,       \* the line dconf_init looks at
    in_comment, \* within a block comment
    phase       \* "reading", "running", "done" or "dead"

vars == <<dictVars, file, line, in_comment, phase>>

TypeOK ==
    /\ DictTypeOK
    /\ file \in Seq(Lines)
    /\ line \in 1..(Len(file) + 1)
    /\ in_comment \in BOOLEAN
    /\ phase \in {"reading", "running", "done", "dead"}

Init ==
    /\ DictInit
    /\ \E m \in 0..MaxLines : file \in [1..m -> Lines]
    /\ line = 1
    /\ in_comment = FALSE
    /\ phase = "reading"

\* The line being looked at is of one of these kinds.
At(kinds) ==
    phase = "reading" /\ line <= Len(file) /\ file[line].kind \in kinds

\* dconf_init cannot open the file and raises SIGTERM.
NoFile ==
    /\ phase = "reading" /\ line = 1
    /\ phase' = "dead"
    /\ UNCHANGED <<dictVars, file, line, in_comment>>

\* A line that sets nothing: empty, a comment, the start or the end of a
\* block comment, or inside one.
ReadNothing ==
    /\ At({"skip", "open", "close"}) \/ (At({"bare", "set"}) /\ in_comment)
    /\ in_comment' = (CASE file[line].kind = "open"  -> TRUE
                        [] file[line].kind = "close" -> FALSE
                        [] OTHER                     -> in_comment)
    /\ line' = line + 1
    /\ UNCHANGED <<dictVars, file, phase>>

\* Mutant: settings inside a block comment count.
ReadSettingAlways ==
    /\ At({"set"})
    /\ DictSet(file[line].key, file[line].val)
    /\ line' = line + 1
    /\ UNCHANGED <<file, in_comment, phase>>

ReadSetting ==
    /\ At({"set"}) /\ ~in_comment
    /\ DictSet(file[line].key, file[line].val)
    /\ line' = line + 1
    /\ UNCHANGED <<file, in_comment, phase>>

\* A line without an equals sign: str_unquote searches a NULL string.
ReadBare ==
    /\ At({"bare"}) /\ ~in_comment
    /\ phase' = "dead"
    /\ UNCHANGED <<dictVars, file, line, in_comment>>

\* The end of the file.  Its contents play no further part.
ReadEnds ==
    /\ phase = "reading" /\ line > Len(file)
    /\ phase' = "running"
    /\ file' = <<>> /\ line' = 1 /\ in_comment' = FALSE
    /\ UNCHANGED dictVars

\* dconf_set and dconf_unset.
Change(k) ==
    /\ phase = "running"
    /\ DictUnset(k) \/ \E v \in Values \union {Null} : DictSet(k, v)
    /\ UNCHANGED <<file, line, in_comment, phase>>

\* dconf_fini.
Fini ==
    /\ phase = "running"
    /\ phase' = "done"
    /\ UNCHANGED <<dictVars, file, line, in_comment>>

Next ==
    \/ NoFile \/ ReadNothing \/ ReadSetting \/ ReadBare \/ ReadEnds
    \/ \E k \in Keys : Change(k)
    \/ Fini

Spec == Init /\ [][Next]_vars

-----------------------------------------------------------------------------
\* Line i comes after the start of a block comment that has not ended.
Commented(i) ==
    \E j \in 1..(i - 1) : /\ file[j].kind = "open"
                          /\ \A m \in (j + 1)..(i - 1) : file[m].kind # "close"

\* The lines before line i that are to set key k.
Settings(k, i) ==
    {j \in 1..(i - 1) : file[j].kind = "set" /\ file[j].key = k /\ ~Commented(j)}

(***************************************************************************)
(* While and when the file has been read, every key has the value of the   *)
(* last line that sets it outside of block comments, and no other key is   *)
(* there.  The code reaches this with one flag and a dictionary that is    *)
(* searched, replaced in and grown line by line.                           *)
(***************************************************************************)
Loaded ==
    phase = "reading" =>
        \A k \in Keys :
            \/ Settings(k, line) = {} /\ Get(k, Undefined) = Undefined
            \/ \E i \in Settings(k, line) :
                  /\ \A j \in Settings(k, line) : j <= i
                  /\ Get(k, Undefined) = file[i].val
=============================================================================
