------------------------------ MODULE Apprentice ------------------------------
(***************************************************************************)
(* The magic compiler (src/apprentice.c): apprentice_load() parses a file   *)
(* or a directory of magic files line by line, sorts the entries by         *)
(* strength and joins them in two sets; apprentice_compile() writes the     *)
(* sets to a .mgc file; apprentice_map() maps such a file back, checks it   *)
(* and, when the source was compiled on a machine of the other byte order, *)
(* swaps it.  apprentice_1() chooses between the two ways.                  *)
(*                                                                         *)
(* A line of text is a record of what the parser finds in it; where the     *)
(* text is unusable, defect names the first part that is.  A program that   *)
(* uses the library does one thing with it, compile or load, and the next   *)
(* process starts from the .mgc file that is left on disk.                 *)
(***************************************************************************)
EXTENDS Integers, Sequences, FiniteSets, SequencesExt

CONSTANTS
    Lines,       \* the lines a magic file may hold
    Files,       \* number of magic files of the directory
    MaxLines,    \* bound: lines in all of them together
    MaxLevel,    \* deepest continuation
    WarnMax,     \* MAGIC_PARAM_MAGWARN_MAX
    OldFiles     \* the .mgc files that may be there at the start

Levels == 0..MaxLevel
Conds == {"none", "if", "elif", "else"}
Types == {"default", "byte", "long", "string", "search", "regex", "name", "use", "der"}
Relns == {"x", "!", "=", ">", "<", "&", "^"}
Defects == {"none", "relative", "offset", "type", "value"}
Extras == {"mime", "apple", "ext"}

EntryLine == [kind : {"entry"}, level : Levels, cond : Conds, type : Types, reln : Relns,
              vallen : Nat, desc : BOOLEAN, text : BOOLEAN, defect : Defects]
BangLine == [kind : {"bang"}, what : Extras \cup {"unknown"}, text : {"good", "odd", "empty"}]
             \cup [kind : {"strength"}, op : {"+", "-", "*", "/"}, factor : Nat]
SkipLine == [kind : {"skip"}]

ASSUME LinesAssumption == Lines \subseteq EntryLine \cup BangLine \cup SkipLine
ASSUME BoundsAssumption == /\ Files \in Nat \ {0} /\ MaxLines \in Nat
                           /\ MaxLevel \in Nat /\ WarnMax \in Nat \ {0}

\* struct magic.  lineno is the position in all the files together; other is
\* the set of the words of more than a byte that are in the other byte order.
Entry == [lineno : 1..MaxLines, level : Levels, cond : Conds, type : Types, reln : Relns,
          vallen : Nat, desc : BOOLEAN, text : BOOLEAN, op : {"none", "+", "-", "*", "/"},
          factor : 0..255, extra : SUBSET Extras, flag : {"none", "bin", "text"},
          other : SUBSET {"flag", "offset", "in_offset", "lineno", "range", "flags",
                          "value", "mask"}]

VARIABLES
    pc,          \* what the process is doing
    action,      \* FILE_COMPILE or FILE_LOAD
    file,        \* the file load_1() is reading
    line,        \* lines read so far, of all the files
    me,          \* load_1(): the entry being built, with its continuations
    mset,        \* apprentice_load(): the finished entries of each set
    lastLevel,   \* parse(): static last_cont_level
    lastCond,    \* ms->c.li[].last_cond
    errs,        \* apprentice_load(): has a line or a file failed?
    magwarn,     \* ms->magwarn
    hadErr,      \* an error is recorded
    map,         \* the struct magic_map: the entries of both sets
    from,        \* where it comes from: "none", "source", "map"
    mgc,         \* the .mgc file on disk
    image,       \* history: the database the .mgc file was written from
    source,      \* history: every entry that was accepted, as it was parsed
    jumped,      \* history: some continuation skipped a level
    cut,         \* history: why load_1() left the rest of a file unread
    unmapped     \* history: a usable .mgc file could not be mapped

vars == <<pc, action, file, line, me, mset, lastLevel, lastCond, errs, magwarn, hadErr,
          map, from, mgc, image, source, jumped, cut, unmapped>>
disk == <<mgc, image>>
parser == <<me, mset, lastLevel, lastCond, errs, magwarn, source, jumped, cut>>

Sets == {0, 1}
EmptyMap == [j \in Sets |-> << >>]

-----------------------------------------------------------------------------
(* Strength and order.                                                     *)

MULT == 10
typesize == [byte |-> 1, long |-> 4]
Larger(a, b) == IF a > b THEN a ELSE b

\* What the type of a test is worth, before its relation.
TypeStrength(m) ==
    CASE m.type \in {"byte", "long"} -> 2 * MULT + typesize[m.type] * MULT
      [] m.type = "string" -> 2 * MULT + m.vallen * MULT
      [] m.type = "search" ->
            2 * MULT + IF m.vallen = 0 THEN 0 ELSE m.vallen * Larger(MULT \div m.vallen, 1)
      [] m.type = "regex" -> LET v == Larger(m.vallen, 1) IN 2 * MULT + v * Larger(MULT \div v, 1)
      [] m.type \in {"name", "use"} -> 2 * MULT
      [] m.type = "der" -> 3 * MULT

\* apprentice_magic_strength_1()
Strength1(m) ==
    CASE m.type = "default" -> 0
      [] m.type # "default" /\ m.reln \in {"x", "!"} -> 0
      [] m.type # "default" /\ m.reln = "=" -> TypeStrength(m) + MULT
      [] m.type # "default" /\ m.reln \in {">", "<"} -> TypeStrength(m) - 2 * MULT
      [] m.type # "default" /\ m.reln \in {"&", "^"} -> TypeStrength(m) - MULT

\* file_magic_strength(): the factor of !:strength, at least 1, and a bonus for
\* an entry that leaves the description to its continuations.
file_magic_strength(m) ==
    LET val == Strength1(m)
        weighed == CASE m.op = "none" -> val
                     [] m.op = "+" -> val + m.factor
                     [] m.op = "-" -> val - m.factor
                     [] m.op = "*" -> val * m.factor
                     [] m.op = "/" -> val \div m.factor
    IN  Larger(weighed, 1) + IF m.desc THEN 0 ELSE 1

\* The bytes of an entry in the order memcmp() meets them, without lineno.
Code(S, x) == CHOOSE i \in 1..Len(S) : S[i] = x
Bytes(m) == << Code(<<"none", "bin", "text">>, m.flag), m.factor,
               Code(<<"!", "&", "<", "=", ">", "^", "x">>, m.reln), m.vallen,
               Code(<<"byte", "long", "default", "string", "regex", "search", "name", "use", "der">>,
                    m.type),
               Code(<<"none", "if", "elif", "else">>, m.cond),
               Code(<<"none", "*", "+", "-", "/">>, m.op),
               IF m.text THEN 1 ELSE 0, IF m.desc THEN 1 ELSE 0,
               Cardinality(m.extra), IF "mime" \in m.extra THEN 1 ELSE 0,
               IF "apple" \in m.extra THEN 1 ELSE 0 >>
memcmpGreater(a, b) == \E i \in 1..Len(a) : a[i] > b[i] /\ \A k \in 1..(i - 1) : a[k] = b[k]

\* mutant: strength alone
SortByStrength(a, b) == file_magic_strength(a[1]) > file_magic_strength(b[1])

\* apprentice_sort(): does a come before b?  Neither does when they differ in
\* lineno only, whatever their continuations.
apprentice_sort(a, b) ==
    LET sa == file_magic_strength(a[1])
        sb == file_magic_strength(b[1])
    IN  IF sa # sb THEN sa > sb ELSE memcmpGreater(Bytes(a[1]), Bytes(b[1]))

\* The orders qsort() may leave an array in: it is not stable.
Sorted(s) == {p \in [1..Len(s) -> 1..Len(s)] :
                /\ \A i, k \in 1..Len(s) : i # k => p[i] # p[k]
                /\ \A i, k \in 1..Len(s) : i < k => ~apprentice_sort(s[p[k]], s[p[i]])}

-----------------------------------------------------------------------------
(* Parsing a line.                                                         *)

\* check_cond(): the last_cond of the level after the keyword, or "error".
check_cond(last, cond) ==
    CASE cond = "if" -> IF last \in {"none", "elif"} THEN "if" ELSE "error"
      [] cond = "elif" -> IF last \in {"if", "elif"} THEN "elif" ELSE "error"
      [] cond = "else" -> IF last \in {"if", "elif"} THEN "none" ELSE "error"
      [] cond = "none" -> "none"

NewEntry(l, n) == [lineno |-> n, level |-> l.level, cond |-> l.cond, type |-> l.type,
                   reln |-> l.reln, vallen |-> l.vallen, desc |-> l.desc, text |-> l.text,
                   op |-> "none", factor |-> 0, extra |-> {}, flag |-> "none", other |-> {}]

\* mutant: only a line of level 0 starts a new chain
CondsKept(l) == IF l.level = 0 THEN [lastCond EXCEPT ![0] = "none"] ELSE lastCond

\* file_check_mem(), as parse() calls it before anything else: a line that is
\* deeper than the line before it starts a new chain of conditions.
CondsBefore(l) == IF l.level = 0 \/ l.level > lastLevel
                  THEN [lastCond EXCEPT ![l.level] = "none"] ELSE lastCond

\* The part of parse() before check_cond(): the level and the offset.
OffsetRead(l) == l.defect # "offset" /\ ~(l.defect = "relative" /\ l.level = 0)
\* The part after it: the type, the mask, the relation, the value and the text.
TypeRead(l) == l.defect # "type" /\ ~(l.type = "name" /\ l.level # 0)
getvalue(l) == l.defect # "value"
RestRead(l) == TypeRead(l) /\ getvalue(l)

\* mutant: the count is not raised, so the next entry takes the same place
AddInPlace(ms, e) == [ms EXCEPT ![IF e[1].type = "name" THEN 1 ELSE 0] = << e >>]

\* addentry(): entries that begin with name form the second set.
addentry(ms, e) == LET i == IF e[1].type = "name" THEN 1 ELSE 0
                   IN  [ms EXCEPT ![i] = Append(@, e)]

Warn(n) == magwarn' = magwarn + n
Fail == errs' = TRUE

\* parse() of a line of level 0, or of a continuation of an entry, with the
\* call of addentry() that a line of level 0 makes when an entry is complete.
ParseEntry(l) ==
    LET conds == CondsBefore(l)
        cond == check_cond(conds[l.level], l.cond)
        jump == l.level > 0 /\ l.level - Last(me).level > 1
        ok == OffsetRead(l) /\ cond # "error" /\ RestRead(l)
        m == NewEntry(l, line + 1)
    IN  /\ l.kind = "entry"
        /\ l.level > 0 => me # << >>
        /\ lastLevel' = l.level
        /\ lastCond' = IF OffsetRead(l) /\ cond # "error"
                       THEN [conds EXCEPT ![l.level] = cond] ELSE conds
        /\ mset' = IF l.level = 0 /\ me # << >> THEN addentry(mset, me) ELSE mset
        /\ me' = IF l.level = 0 THEN << m >> ELSE Append(me, m)
        /\ errs' = (errs \/ ~ok)
        /\ jumped' = (jumped \/ jump)
        /\ Warn((IF jump THEN 1 ELSE 0) + (IF ok THEN 0 ELSE 1))
        /\ source' = IF ok THEN Append(source, m) ELSE source
        /\ UNCHANGED hadErr

\* parse() of a continuation with no entry to continue.
ParseOrphan(l) ==
    /\ l.kind = "entry" /\ l.level > 0 /\ me = << >>
    /\ lastLevel' = l.level /\ lastCond' = CondsBefore(l)
    /\ hadErr' = TRUE /\ Fail
    /\ UNCHANGED <<me, mset, magwarn, source, jumped>>

\* There is no memory for the line; the entry it would have ended was added before.
ParseNoMemory(l) ==
    /\ l.kind = "entry" /\ (l.level > 0 => me # << >>)
    /\ lastLevel' = l.level /\ lastCond' = CondsBefore(l)
    /\ mset' = IF l.level = 0 /\ me # << >> THEN addentry(mset, me) ELSE mset
    /\ me' = IF l.level = 0 THEN << >> ELSE me
    /\ Warn(IF l.level > 0 /\ l.level - Last(me).level > 1 THEN 1 ELSE 0)
    /\ hadErr' = TRUE /\ Fail
    /\ UNCHANGED <<source, jumped>>

\* A "!:" line that belongs to no entry, or that nobody knows.
BangError(l) ==
    /\ l.kind \in {"bang", "strength"}
    /\ me = << >> \/ (l.kind = "bang" /\ l.what = "unknown")
    /\ hadErr' = TRUE /\ Fail
    /\ UNCHANGED <<me, mset, lastLevel, lastCond, magwarn, source, jumped>>

\* parse_strength(): for the first line of the entry, once, and not for a name.
parse_strength(l) ==
    LET ok == me[1].op = "none" /\ me[1].type # "name" /\ l.factor <= 255
              /\ ~(l.op = "/" /\ l.factor = 0)
        set == [me[1] EXCEPT !.op = l.op, !.factor = l.factor]
    IN  /\ l.kind = "strength" /\ me # << >>
        /\ me' = IF ok THEN [me EXCEPT ![1] = set] ELSE me
        /\ source' = IF ok THEN [i \in DOMAIN source |-> IF source[i] = me[1] THEN set ELSE source[i]]
                     ELSE source
        /\ Warn(IF ok THEN 0 ELSE 1) /\ errs' = (errs \/ ~ok)
        /\ UNCHANGED <<mset, lastLevel, lastCond, hadErr, jumped>>

\* parse_extra(), for parse_mime(), parse_apple() and parse_ext(): for the last
\* line read, once, and only when that line has a description.  A character that
\* does not belong there, or one too many, ends the text with a warning; a text
\* that ends before it begins is an error.
parse_extra(l) ==
    LET m == Last(me)
        free == l.what \notin m.extra /\ m.desc
        ok == free /\ l.text # "empty"
        set == [m EXCEPT !.extra = @ \cup {l.what}]
    IN  /\ l.kind = "bang" /\ l.what \in Extras /\ me # << >>
        /\ me' = IF ok THEN Front(me) \o << set >> ELSE me
        /\ source' = IF ok THEN [i \in DOMAIN source |-> IF source[i] = m THEN set ELSE source[i]]
                     ELSE source
        /\ Warn(IF free /\ l.text = "good" THEN 0 ELSE 1) /\ errs' = (errs \/ ~ok)
        /\ hadErr' = (hadErr \/ (free /\ ~ok))
        /\ UNCHANGED <<mset, lastLevel, lastCond, jumped>>

Skip(l) == /\ l.kind = "skip"
           /\ UNCHANGED <<me, mset, lastLevel, lastCond, errs, magwarn, hadErr, source, jumped>>

\* One turn of the loop of load_1().
ReadLine ==
    /\ pc = "file" /\ line < MaxLines /\ magwarn < WarnMax
    /\ line' = line + 1
    /\ \E l \in Lines : \/ ParseEntry(l) \/ ParseOrphan(l) \/ ParseNoMemory(l) \/ BangError(l)
                        \/ parse_strength(l) \/ parse_extra(l) \/ Skip(l)
    /\ UNCHANGED <<pc, action, file, map, from, disk, cut, unmapped>>

-----------------------------------------------------------------------------
(* Loading a directory.                                                    *)

\* load_1() opens the next file, or cannot.
OpenFile ==
    /\ pc = "load" /\ file < Files
    /\ file' = file + 1
    /\ \/ pc' = "file" /\ UNCHANGED <<errs, hadErr>>
       \/ Fail /\ hadErr' \in {hadErr, TRUE} /\ UNCHANGED pc   \* silent for ENOENT
    /\ me' = << >>
    /\ UNCHANGED <<action, line, mset, lastLevel, lastCond, magwarn, map, from, disk, source, jumped,
                   cut, unmapped>>

\* What load_1() does behind its loop.  When addentry() cannot allocate its array
\* the last entry is dropped: its result is not looked at.
FinishFile ==
    /\ \/ mset' = (IF me = << >> THEN mset ELSE addentry(mset, me)) /\ UNCHANGED hadErr
       \/ me # << >> /\ hadErr' = TRUE /\ UNCHANGED mset
    /\ pc' = "load" /\ me' = << >>
    /\ UNCHANGED <<action, file, line, lastLevel, lastCond, errs, magwarn, map, from, disk, source, jumped,
                   unmapped>>

\* The end of the file.
CloseFile == pc = "file" /\ FinishFile /\ UNCHANGED cut

\* load_1() leaves the rest of the file unread, without a word to its caller, once
\* too many warnings were given, here or in the files before; or getline() fails,
\* which looks like the end of the file.
StopReading ==
    /\ pc = "file"
    /\ \/ magwarn >= WarnMax /\ cut' = cut \cup {"magwarn"}
       \/ cut' = cut \cup {"getline"}
    /\ FinishFile

\* set_test_type(), for the first line of an entry: binary or text patterns.  text is
\* what the flags b and t say or, without them, what the pattern of a search or a
\* regular expression looks like; a string without them is binary.
set_test_type(m) ==
    [m EXCEPT !.flag = CASE m.type \in {"byte", "long", "der"} -> "bin"
                         [] m.type \in {"string", "search", "regex"} -> IF m.text THEN "text" ELSE "bin"
                         [] OTHER -> "none"]
set_text_binary(e) == [e EXCEPT ![1] = set_test_type(@)]

\* set_last_default() only warns.
DefaultNotLast(s) == \E i \in 1..(Len(s) - 1) : s[i][1].type = "default"

\* coalesce_entries()
coalesce_entries(s) == FlattenSeq(s)

\* The rest of apprentice_load(): any error drops everything; otherwise each
\* set is sorted and joined.
SortAndJoin ==
    /\ pc = "load" /\ file = Files /\ ~errs
    /\ LET typed == [j \in Sets |-> [i \in DOMAIN mset[j] |-> set_text_binary(mset[j][i])]]
       IN  \E p \in Sorted(typed[0]), q \in Sorted(typed[1]) :
             LET s0 == [i \in DOMAIN p |-> typed[0][p[i]]]
                 s1 == [i \in DOMAIN q |-> typed[1][q[i]]]
             IN  /\ map' = [j \in Sets |-> coalesce_entries(IF j = 0 THEN s0 ELSE s1)]
                 /\ Warn(Cardinality({s \in {s0, s1} : DefaultNotLast(s)}))
    /\ from' = "source" /\ mset' = EmptyMap
    /\ pc' = IF action = "compile" THEN "open" ELSE "loaded"
    /\ UNCHANGED <<action, file, line, me, lastLevel, lastCond, errs, hadErr, disk, source, jumped,
                   cut, unmapped>>

\* A line or a file failed, or there is no memory to join the entries.
LoadFails ==
    /\ pc = "load" /\ file = Files
    /\ \/ errs /\ UNCHANGED hadErr
       \/ ~errs /\ mset # EmptyMap /\ hadErr' = TRUE
    /\ pc' = "failed" /\ mset' = EmptyMap
    /\ UNCHANGED <<action, file, line, me, lastLevel, lastCond, errs, magwarn, map, from, disk, source, jumped,
                   cut, unmapped>>

-----------------------------------------------------------------------------
(* The .mgc file.                                                          *)

\* A file with the header at its start when head, the entries behind it and,
\* when torn, a piece of an entry at its end.  order is "host", "other" or "bad"
\* for what MAGICNO says.
MgcFile == [there : BOOLEAN, head : BOOLEAN, order : {"host", "other", "bad"}, version : BOOLEAN,
            n : Nat \X Nat, body : Seq(Entry), torn : BOOLEAN]
NoFile == [there |-> FALSE, head |-> FALSE, order |-> "bad", version |-> FALSE, n |-> << 0, 0 >>,
           body |-> << >>, torn |-> FALSE]

\* mutant: opened without O_TRUNC
OpenKept ==
    /\ pc = "open" /\ pc' = "header" /\ mgc' = [mgc EXCEPT !.there = TRUE] /\ image' = map
    /\ UNCHANGED <<map, from, hadErr, action, file, line, parser, unmapped>>

\* apprentice_compile() opens the file itself, not a temporary one, and so
\* destroys the database that was there.
OpenTruncated ==
    /\ pc = "open"
    /\ \/ pc' = "header" /\ mgc' = [NoFile EXCEPT !.there = TRUE] /\ image' = map
          /\ UNCHANGED <<map, from, hadErr>>
       \/ pc' = "failed" /\ hadErr' = TRUE /\ map' = EmptyMap /\ from' = "none" /\ UNCHANGED disk
    /\ UNCHANGED <<action, file, line, parser, unmapped>>

\* A write() that is short or fails ends the compilation; what was written stays.
CompileFails(f) == /\ pc' = "failed" /\ hadErr' = TRUE /\ mgc' = f
                   /\ map' = EmptyMap /\ from' = "none"

WriteHeader ==
    /\ pc = "header"
    /\ \/ /\ mgc' = [mgc EXCEPT !.head = TRUE, !.order = "host", !.version = TRUE,
                                 !.n = << Len(map[0]), Len(map[1]) >>]
          /\ pc' = "set0" /\ UNCHANGED <<map, from, hadErr>>
       \/ \E t \in BOOLEAN : CompileFails([mgc EXCEPT !.torn = t])
    /\ UNCHANGED <<action, file, line, parser, image, unmapped>>

WriteSet(j) ==
    /\ pc = IF j = 0 THEN "set0" ELSE "set1"
    /\ \/ /\ mgc' = [mgc EXCEPT !.body = @ \o map[j]]
          /\ IF j = 0 THEN pc' = "set1" /\ UNCHANGED <<map, from>>
             ELSE pc' = "compiled" /\ map' = EmptyMap /\ from' = "none"
          /\ UNCHANGED hadErr
       \/ \E k \in 0..(Len(map[j]) - 1), t \in BOOLEAN :
             CompileFails([mgc EXCEPT !.body = @ \o SubSeq(map[j], 1, k), !.torn = t])
    /\ UNCHANGED <<action, file, line, parser, image, unmapped>>

\* check_buffer(), without the swapping.
check_buffer(f) ==
    LET entries == (IF f.head THEN 1 ELSE 0) + Len(f.body)
    IN  /\ entries >= 2 /\ ~f.torn
        /\ f.order # "bad" /\ f.version
        /\ f.n[1] <= entries /\ f.n[2] <= entries
        /\ entries = f.n[1] + f.n[2] + 1

\* IS_STRING(), bs1() and byteswap()
IS_STRING(t) == t \in {"string", "search", "regex", "name", "use"}
bs1(m) == [m EXCEPT !.other = SymDiff(@, {"flag", "offset", "in_offset", "lineno"} \cup
                              IF IS_STRING(m.type) THEN {"range", "flags"} ELSE {"value", "mask"})]
byteswap(s) == [i \in DOMAIN s |-> bs1(s[i])]

\* The sets of a file that check_buffer() accepts.
Unpacked(f) ==
    LET part == [j \in Sets |-> IF j = 0 THEN SubSeq(f.body, 1, f.n[1])
                               ELSE SubSeq(f.body, f.n[1] + 1, Len(f.body))]
    IN  [j \in Sets |-> IF f.order = "other" THEN byteswap(part[j]) ELSE part[j]]

\* A .mgc file that is there at the start was compiled from its image, here or on
\* another machine, or is not accepted.
ASSUME OldFilesAssumption ==
    \A o \in OldFiles : /\ o.file \in MgcFile /\ o.image \in [Sets -> Seq(Entry)]
                        /\ o.file.there /\ check_buffer(o.file) => Unpacked(o.file) = o.image

\* apprentice_map(): the file is there, whole and of the right version.
MapFile ==
    /\ pc = "map" /\ mgc.there /\ check_buffer(mgc)
    /\ map' = Unpacked(mgc)
    /\ from' = "map" /\ pc' = "loaded"
    /\ UNCHANGED <<action, file, line, hadErr, parser, disk, unmapped>>

\* apprentice_1(): without a usable .mgc file the source is loaded; the error
\* stays recorded.
MapRefused ==
    /\ pc = "map" /\ ~(mgc.there /\ check_buffer(mgc))
    /\ pc' = "load" /\ hadErr' = (hadErr \/ mgc.there)
    /\ UNCHANGED <<action, file, line, map, from, parser, disk, unmapped>>

\* The same when apprentice_map() cannot get at the file, usable or not: no memory, an
\* open() that fails, silently, or an fstat(), mmap() or mprotect() that does.
MapFails ==
    /\ pc = "map"
    /\ pc' = "load" /\ hadErr' \in {hadErr, TRUE}
    /\ unmapped' = (mgc.there /\ check_buffer(mgc))
    /\ UNCHANGED <<action, file, line, map, from, parser, disk>>

-----------------------------------------------------------------------------
(* Processes.                                                              *)

\* A new process: nothing but the disk is left of the one before it.
Fresh(a) ==
    /\ action' = a /\ pc' = (IF a = "compile" THEN "load" ELSE "map")
    /\ file' = 0 /\ me' = << >> /\ mset' = EmptyMap /\ lastLevel' = 0
    /\ lastCond' \in {[l \in Levels |-> c] : c \in {"none", "if"}}   \* malloc()ed
    /\ errs' = FALSE /\ magwarn' = 0 /\ hadErr' = FALSE /\ map' = EmptyMap /\ from' = "none"
    /\ source' = << >> /\ jumped' = FALSE /\ cut' = {} /\ unmapped' = FALSE

\* The compiler is killed, or ends; the next process loads the database.
NextProcess ==
    /\ action = "compile"
    /\ pc \in {"header", "set0", "set1", "failed", "compiled"}
    /\ Fresh("load")
    /\ UNCHANGED <<line, disk>>

Init ==
    /\ \/ pc = "load" /\ action = "compile"
       \/ pc = "map" /\ action = "load"
    /\ \E o \in OldFiles : mgc = o.file /\ image = o.image
    /\ file = 0 /\ line = 0 /\ me = << >> /\ mset = EmptyMap /\ lastLevel = 0
    /\ lastCond \in {[l \in Levels |-> c] : c \in {"none", "if"}}
    /\ errs = FALSE /\ magwarn = 0 /\ hadErr = FALSE /\ map = EmptyMap /\ from = "none"
    /\ source = << >> /\ jumped = FALSE /\ cut = {} /\ unmapped = FALSE

Done == pc \in {"loaded", "failed"} /\ action = "load" /\ UNCHANGED vars

Next == \/ OpenFile \/ ReadLine \/ CloseFile \/ StopReading \/ SortAndJoin \/ LoadFails
        \/ OpenTruncated \/ WriteHeader \/ (\E j \in Sets : WriteSet(j))
        \/ MapFile \/ MapRefused \/ MapFails \/ NextProcess \/ Done

Spec == Init /\ [][Next]_vars

-----------------------------------------------------------------------------
(* Correctness.                                                            *)

TypeOK ==
    /\ pc \in {"load", "file", "open", "header", "set0", "set1", "compiled", "map", "loaded", "failed"}
    /\ action \in {"compile", "load"} /\ file \in 0..Files /\ line \in 0..MaxLines
    /\ me \in Seq(Entry) /\ source \in Seq(Entry)
    /\ mset \in [Sets -> Seq(Seq(Entry))] /\ map \in [Sets -> Seq(Entry)]
    /\ lastLevel \in Levels /\ lastCond \in [Levels -> Conds \ {"else"}]
    /\ errs \in BOOLEAN /\ hadErr \in BOOLEAN /\ jumped \in BOOLEAN /\ magwarn \in Nat
    /\ cut \subseteq {"magwarn", "getline"} /\ unmapped \in BOOLEAN
    /\ from \in {"none", "source", "map"} /\ mgc \in MgcFile /\ image \in [Sets -> Seq(Entry)]

\* The entry that begins at place i of a list, with its continuations.
GroupAt(s, i) == LET ends == {k \in i..Len(s) : \A x \in (i + 1)..k : s[x].level # 0}
                 IN  SubSeq(s, i, CHOOSE k \in ends : \A x \in ends : x <= k)
Tops(s) == {i \in DOMAIN s : s[i].level = 0}
Groups(s) == {GroupAt(s, i) : i \in Tops(s)}
\* The places where the entries of a list begin, in their order.
Starts(s) == {f \in [1..Cardinality(Tops(s)) -> Tops(s)] : \A i, k \in DOMAIN f : i < k => f[i] < f[k]}
\* as it was parsed: before set_test_type()
Untyped(g) == [i \in DOMAIN g |-> [g[i] EXCEPT !.flag = "none"]]

\* A database made from source holds every entry that was read once, each with
\* exactly the continuations and the annotations that followed it, in their order,
\* and the named ones apart: sorting moves whole entries, and an entry that was read
\* is missing only when an error was recorded.  What was read is the whole of the files,
\* with two exceptions that nothing records: a file is given up for too many warnings
\* only when MAGIC_PARAM_MAGWARN_MAX of them were given, and getline() may fail.
\* (load_1, addentry, coalesce_entries)
DatabaseComplete ==
    from = "source" =>
        LET got == {Untyped(g) : g \in Groups(map[0]) \cup Groups(map[1])}
        IN  /\ got \subseteq Groups(source)
            /\ hadErr \/ (got = Groups(source) /\ Len(map[0]) + Len(map[1]) = Len(source))
            /\ \A j \in Sets : \A i \in Tops(map[j]) : (map[j][i].type = "name") = (j = 1)
            /\ "magwarn" \in cut => magwarn >= WarnMax

\* What apprentice_sort() warns about as a duplicate (but for DER): the first lines
\* say the same in every field, whatever their continuations.
Duplicates(a, b) == [a[1] EXCEPT !.lineno = 0] = [b[1] EXCEPT !.lineno = 0]

\* The order of a database is the order of its strengths and does not depend on
\* the order in which the lines were read, nor on how qsort() treats equals: whatever
\* order it might have left, every place would hold the same entry, with the same
\* continuations, or a duplicate of it.  Duplicates with different continuations are
\* the exception: which comes first is open.  (apprentice_sort)
OrderDetermined ==
    from = "source" => \A j \in Sets : \E starts \in Starts(map[j]) :
        LET s == [i \in DOMAIN starts |-> GroupAt(map[j], starts[i])]
        IN  /\ \A i, k \in DOMAIN s : i < k => file_magic_strength(s[i][1]) >= file_magic_strength(s[k][1])
            /\ \A p \in Sorted(s) : \A i \in DOMAIN s : s[p[i]] = s[i] \/ Duplicates(s[p[i]], s[i])

\* In a file that is accepted every elif and every else follows, on its own level
\* and under the same parent, an if or an elif; lines that skip a level are only
\* warned about and leave the chain of the skipped level as it was.
\* (parse with its static last_cont_level, file_check_mem, check_cond)
ConditionsPaired ==
    ~errs /\ ~jumped => \A i \in DOMAIN source :
        source[i].cond \in {"elif", "else"} =>
            \E k \in 1..(i - 1) : /\ source[k].level = source[i].level
                                  /\ source[k].cond \in {"if", "elif"}
                                  /\ \A x \in (k + 1)..(i - 1) : source[x].level > source[i].level

\* Seen from outside, the file that is written in pieces and may be cut anywhere is
\* a store that holds a whole database or none: the pieces count as nothing until
\* check_buffer() accepts them, and what it accepts is what was compiled, in the byte
\* order of this machine, wherever the compiler was killed or its writes cut short.  A
\* program that cannot map a usable file works, unasked, with the source instead.
\* (apprentice_1, apprentice_compile, apprentice_map)
Store == INSTANCE MagicStore WITH
            None <- EmptyMap,
            store <- IF mgc.there /\ check_buffer(mgc) THEN Unpacked(mgc) ELSE EmptyMap,
            building <- image,
            db <- IF pc = "loaded" THEN map ELSE EmptyMap,
            reach <- ~unmapped
StoreSpec == Store!Spec
=============================================================================
