------------------------------ MODULE SoftMagic ------------------------------
(***************************************************************************)
(* The magic interpreter of src/softmagic.c: file_softmagic(), match(), the *)
(* control of mget() and magiccheck(), and the continuation state ms->c.li *)
(* that all of them share.  Calls of match() (from file_softmagic, from a   *)
(* "use" test and from an "indirect" test) are frames of an explicit stack. *)
(*                                                                         *)
(* The data of a test is abstracted to its outcome, chosen freely each time *)
(* a test is run; an offset is abstracted to the entry that stored it.     *)
(***************************************************************************)
EXTENDS Naturals, Sequences, FiniteSets

CONSTANTS
    DBs,         \* the databases to choose from: [root, named]
    MaxLevel,    \* largest cont_level of an entry
    IndirMax,    \* ms->indir_max
    NameMax      \* ms->name_max

\* One compiled entry: continuation level, kind of test, relation '!', has a
\* description, has a MIME type, "&" offset (OFFADD), where its offset counts
\* from (the file's end is OFFNEGATIVE, "start" OFFPOSITIVE), no space before
\* the description, condition, and the named list a "use" calls.
EntryType == [lev : 0..MaxLevel,
              type : {"test", "use", "indirect", "default", "clear", "name"},
              not : BOOLEAN, desc : BOOLEAN, mime : BOOLEAN, add : BOOLEAN,
              from : {"rel", "start", "end"}, nospace : BOOLEAN, cond : {"none", "if", "else"},
              name : STRING]

ASSUME MaxLevelAssumption == MaxLevel \in Nat
ASSUME LimitsAssumption == IndirMax \in Nat \ {0} /\ NameMax \in Nat \ {0}

\* Any sequence of entries is a list: the parser only warns of a level that is
\* skipped, and nobody checks the levels of a mapped database.
ASSUME DBsAssumption ==
    \A d \in DBs : /\ d.root \in Seq(EntryType)
                  /\ \A n \in DOMAIN d.named : n # "root" /\ d.named[n] \in Seq(EntryType)

VARIABLES
    db,          \* the loaded database (mlist[0] and mlist[1])
    flags,       \* MAGIC_CONTINUE, MAGIC_MIME, and b->elen == FILE_BADSIZE
    stack,       \* active calls of match()
    li,          \* ms->c.li
    eoff,        \* ms->eoffset
    indir, names,                \* *indir_count, *name_count
    printed, needsep, first,     \* the three int * of match()
    out,         \* ms->o.buf as tokens
    result       \* what file_softmagic() returned

vars == <<db, flags, stack, li, eoff, indir, names, printed, needsep, first,
          out, result>>

-----------------------------------------------------------------------------
(* Entries and frames.                                                     *)

ListOf(f) == IF f.list = "root" THEN db.root ELSE db.named[f.list]
Entry(f) == ListOf(f)[f.idx]
Size(f) == Len(ListOf(f))

Depth == Len(stack)
Top == stack[Depth]
Replace(f) == [stack EXCEPT ![Depth] = f]

\* Identity of the entry a frame is working on, to stand for an offset.
Here(f, d) == <<d, f.idx>>

FlushEndStays(f, i) == i - 1

\* Last of the continuations that follow entry i.
FlushEnd(f, i) ==
    CHOOSE j \in i..Size(f) :
        /\ \A k \in (i+1)..j : ListOf(f)[k].lev # 0
        /\ j < Size(f) => ListOf(f)[j+1].lev = 0

\* goto flush: skip sub-tests, back to the top of the for loop.
Flush(f, i) == [f EXCEPT !.idx = FlushEnd(f, i), !.lev = 0, !.pc = "for"]

\* file_check_mem(): make level l usable, and fresh.
CheckMem(c, l) == [c EXCEPT ![l].got = FALSE, ![l].last = FALSE]

\* A call of match(), with what its caller saved.  hit, deep, eo and mixed are
\* history: the entries that matched in this call, those among them whose end
\* lies inside the buffer, the eoffset this call set last, and whether an
\* indirect test of its own has been run.
NewFrame(list, call, ret) ==
    [list |-> list, call |-> call, idx |-> 0, lev |-> 0, pc |-> "for",
     ret |-> ret, found |-> FALSE, val |-> 0, hit |-> {}, deep |-> {},
     mixed |-> FALSE, eo |-> <<0, 0>>,
     li |-> li, eoff |-> eoff, sep |-> needsep, out |-> out]

Fresh == [l \in 0..(MaxLevel + 1) |-> [off |-> <<0, 0>>, got |-> FALSE, last |-> FALSE]]

Init ==
    /\ db \in DBs
    /\ flags \in [cont : BOOLEAN, mime : BOOLEAN, badsize : BOOLEAN]
    /\ li = Fresh
    /\ eoff = <<0, 0>>
    /\ indir = 0 /\ names = 0
    /\ printed = FALSE /\ needsep = FALSE /\ first = TRUE
    /\ out = << >>
    /\ result = "none"
    /\ stack = << NewFrame("root", "root", FALSE) >>

Return(f, v) == [f EXCEPT !.pc = "ret", !.val = v]

-----------------------------------------------------------------------------
(* The for loop of match(): top-level entries.                             *)

AtFor == Depth > 0 /\ Top.pc = "for" /\ Top.idx < Size(Top)
globals == <<db, flags, indir, names, printed, needsep, first, out, result>>

\* msetoffset(): an offset from the end of the file fails when the file is too
\* short or its size is unknown; "&" takes precedence in a continuation.
FromEnd(m, lev) == m.from = "end" /\ ~(m.add /\ lev > 0)

\* buffer_fill() has failed: b->elen == FILE_BADSIZE.
SizeUnknown(m, lev) == FromEnd(m, lev) /\ flags.badsize

\* Otherwise it sets ms->eoffset, unless the entry is relative to it.
EOffset(f, m, lev, old) ==
    IF FromEnd(m, lev) THEN Here(f, Depth)
    ELSE IF lev = 0 \/ m.from # "rel" THEN <<0, 0>>
    ELSE old

SetOffset(f, m, lev) == eoff' = EOffset(f, m, lev, eoff)

ForEntry ==
    /\ AtFor
    /\ LET f == [Top EXCEPT !.idx = @ + 1]
           m == Entry(f)
       IN  \/ /\ ~SizeUnknown(m, 0)
              /\ stack' = Replace([f EXCEPT !.pc = "top", !.eo = EOffset(f, m, 0, @)])
              /\ SetOffset(f, m, 0)
           \/ \* text/binary or soft-magic mode filter
              /\ m.type # "name"
              /\ stack' = Replace(Flush(f, f.idx))
              /\ UNCHANGED eoff
           \/ \* msetoffset() fails
              /\ FromEnd(m, 0)
              /\ stack' = Replace(IF flags.badsize THEN f ELSE Flush(f, f.idx))
              /\ UNCHANGED eoff
    /\ UNCHANGED <<globals, li>>

ForEnd ==
    /\ Depth > 0 /\ Top.pc = "for" /\ Top.idx = Size(Top)
    /\ stack' = Replace(Return(Top, IF Top.ret THEN 1 ELSE 0))
    /\ UNCHANGED <<globals, li, eoff>>

-----------------------------------------------------------------------------
(* The while loop of match(): continuations of a matched entry.            *)

MoreContinuations(f) == f.idx < Size(f) /\ ListOf(f)[f.idx + 1].lev # 0

AboveLevelIgnored(f, m) == FALSE

\* Continuations above the current level are skipped.
AboveLevel(f, m) == f.lev < m.lev

WhileEntry ==
    /\ Depth > 0 /\ Top.pc = "while" /\ MoreContinuations(Top)
    /\ LET f == [Top EXCEPT !.idx = @ + 1]
           m == Entry(f)
           g == [f EXCEPT !.lev = m.lev]
           h == [g EXCEPT !.eo = EOffset(f, m, m.lev, @)]
           else == m.cond = "else" /\ li[m.lev].last
       IN  IF AboveLevel(f, m)
           THEN stack' = Replace(f) /\ UNCHANGED eoff
           ELSE \/ /\ FromEnd(m, m.lev)
                   /\ stack' = Replace(IF flags.badsize THEN g ELSE Flush(f, f.idx))
                   /\ UNCHANGED eoff
                \/ /\ ~SizeUnknown(m, m.lev)
                   /\ stack' = Replace(IF else THEN h ELSE [h EXCEPT !.pc = "cont"])
                   /\ SetOffset(f, m, m.lev)
    /\ UNCHANGED <<globals, li>>

\* All continuations seen: stop at the first match, or go on (MAGIC_CONTINUE).
WhileEnd ==
    /\ Depth > 0 /\ Top.pc = "while" /\ ~MoreContinuations(Top)
    /\ LET f == [Top EXCEPT !.lev = 0, !.pc = "for"]
       IN  IF Top.found /\ ~flags.cont
           THEN /\ stack' = Replace(Return(Top, IF Top.ret THEN 1 ELSE 0))
                /\ first' = (first /\ ~printed)
                /\ UNCHANGED printed
           ELSE /\ stack' = Replace(f)
                /\ first' = (first /\ ~printed /\ ~Top.found)
                /\ printed' = (printed /\ ~Top.found)
    /\ UNCHANGED <<db, flags, li, eoff, indir, names, needsep, out, result>>

-----------------------------------------------------------------------------
(* What a test's outcome does.  f is the frame that ran the test, base the  *)
(* frames below it; c, s and o are ms->c.li, need_separator and the output  *)
(* as the test left them.                                                  *)

\* The test did not match; mget() says whether it was already mget().
Miss(base, f, c, mget) ==
    /\ stack' = Append(base, IF f.pc = "top" THEN Flush(f, f.idx)
                             ELSE [f EXCEPT !.pc = "while"])
    /\ li' = IF f.pc = "top" \/ mget THEN c ELSE [c EXCEPT ![f.lev].last = FALSE]

GotMatchForgotten(c, f, m) == [c EXCEPT ![f.lev].last = TRUE]

\* FILE_CLEAR and the first match at a level decide what "default" sees.
GotMatch(c, f, m) ==
    IF f.pc = "top" THEN c
    ELSE [c EXCEPT ![f.lev].last = TRUE, ![f.lev].got = (m.type # "clear")]

SepAlways(fst) == << "sep" >>

\* print_sep(): another match goes on a line of its own.
Sep(fst) == IF fst THEN << >> ELSE << "sep" >>

\* mprint() prints nothing for these.
DescToken(m) ==
    IF m.type \in {"use", "indirect", "name"} THEN << >>
    ELSE IF m.nospace THEN << "nospace" >> ELSE << "desc" >>

\* What a matching entry with a description prints.
PrintDesc(f, m, s) ==
    IF f.pc = "top" THEN Sep(first) \o DescToken(m)
    ELSE (IF printed THEN << >> ELSE Sep(first))
         \o (IF s /\ ~m.nospace THEN << "space" >> ELSE << >>) \o DescToken(m)

\* moffset(): the end of the field becomes the base of "&" offsets one level
\* up.  When it is outside the buffer, the continuations are not entered.
EnterLevel(c, f, d) == CheckMem([c EXCEPT ![f.lev].off = Here(f, d)], f.lev + 1)

Descend(base, f, c, inside) ==
    LET h == [f EXCEPT !.hit = @ \cup {f.idx}]
    IN  IF inside
        THEN /\ stack' = Append(base, [h EXCEPT !.deep = @ \cup {f.idx},
                                               !.lev = @ + 1, !.pc = "while"])
             /\ li' = EnterLevel(c, f, Len(base) + 1)
        ELSE IF f.pc = "top"
        THEN stack' = Append(base, Flush(h, f.idx)) /\ li' = c
        ELSE stack' = Append(base, [h EXCEPT !.pc = "while"]) /\ li' = CheckMem(c, f.lev)

\* "default" after another match at its level: not a match.
LateDefault(c, f) == f.pc = "cont" /\ Entry(f).type = "default" /\ c[f.lev].got

\* handle_annotation(): print the MIME type and leave match().
Annotate(base, f, c, o) ==
    /\ stack' = Append(base, Return([f EXCEPT !.found = TRUE, !.ret = TRUE,
                                             !.hit = @ \cup {f.idx}], 1))
    /\ li' = c
    /\ out' = o \o (IF ~first /\ ~flags.cont THEN << >>
                    ELSE Sep(first) \o << "mime" >>)
    /\ needsep' = TRUE /\ printed' = TRUE /\ first' = FALSE

DescribeNoReturnval(base, f, c, s, o, inside) ==
    LET m == Entry(f)
        print == m.desc /\ ~flags.mime
    IN  /\ Descend(base, [f EXCEPT !.found = @ \/ m.desc], c, inside)
        /\ out' = IF print THEN o \o PrintDesc(f, m, s) ELSE o
        /\ needsep' = (s \/ print)
        /\ printed' = (printed \/ print)
        /\ UNCHANGED first

\* Print the description, if there is one and descriptions are wanted.
Describe(base, f, c, s, o, inside) ==
    LET m == Entry(f)
        print == m.desc /\ ~flags.mime
    IN  /\ Descend(base, [f EXCEPT !.found = @ \/ m.desc, !.ret = @ \/ print],
                   c, inside)
        /\ out' = IF print THEN o \o PrintDesc(f, m, s) ELSE o
        /\ needsep' = (s \/ print)
        /\ printed' = (printed \/ print)
        /\ UNCHANGED first

\* The test matched.
Hit(base, f, c, s, o, inside) ==
    \/ /\ LateDefault(c, f)
       /\ stack' = Append(base, [f EXCEPT !.pc = "while"])
       /\ li' = [c EXCEPT ![f.lev].last = TRUE]
       /\ needsep' = s /\ out' = o
       /\ UNCHANGED <<printed, first>>
    \/ /\ ~LateDefault(c, f)
       /\ flags.mime /\ Entry(f).mime
       /\ Annotate(base, f, GotMatch(c, f, Entry(f)), o)
    \/ /\ ~LateDefault(c, f)
       /\ ~(flags.mime /\ Entry(f).mime)
       /\ Describe(base, f, GotMatch(c, f, Entry(f)), s, o, inside)

-----------------------------------------------------------------------------
(* mget() and magiccheck().                                                *)

AtTest == Depth > 0 /\ Top.pc \in {"top", "cont"}
Below == SubSeq(stack, 1, Depth - 1)
fixed == <<db, flags, eoff, indir, names, result>>

OverLimitLate == indir > IndirMax \/ names > NameMax

\* Either limit is checked before anything else, for every kind of test.
OverLimit == indir >= IndirMax \/ names >= NameMax

\* A limit, no memory, a bad format, an unknown name: match() returns -1.
TestError ==
    /\ AtTest
    /\ stack' = Replace(Return(Top, 2))
    /\ UNCHANGED <<fixed, li, printed, needsep, first, out>>

\* The test has nothing to look at, or does not compare.
TestMiss ==
    /\ AtTest /\ ~OverLimit
    /\ Entry(Top).type \in {"test", "use", "indirect"}
    /\ \E mget \in BOOLEAN :
          /\ ~mget => Entry(Top).type = "test"
          /\ mget => ~Entry(Top).not
          /\ Miss(Below, Top, li, mget)
    /\ UNCHANGED <<fixed, printed, needsep, first, out>>

\* mget() prints the description of a "name" entry itself.
NameText(m) == IF m.type = "name" /\ m.desc /\ ~flags.mime THEN << "nospace" >> ELSE << >>

TestHit ==
    /\ AtTest /\ ~OverLimit
    /\ Entry(Top).type \in {"use", "indirect"} => Entry(Top).not
    /\ \E inside \in BOOLEAN :
          /\ Entry(Top).type = "name" => inside
          /\ Hit(Below, Top, li, needsep, out \o NameText(Entry(Top)), inside)
    /\ UNCHANGED fixed

\* save_cont() and the recursive call of a named list.
Use ==
    /\ AtTest /\ ~OverLimit
    /\ Entry(Top).type = "use" /\ Entry(Top).name \in DOMAIN db.named
    /\ stack' = Append(stack, NewFrame(Entry(Top).name, "use", Top.ret))
    /\ needsep' = (needsep /\ ~Entry(Top).nospace)
    /\ names' = names + 1
    /\ li' = CheckMem(li, 0)
    /\ UNCHANGED <<db, flags, eoff, indir, printed, first, out, result>>

\* file_push_buffer() and the recursive call of the whole database; nothing
\* of the continuation state is saved.
Indirect ==
    /\ AtTest /\ ~OverLimit
    /\ Entry(Top).type = "indirect"
    /\ stack' = Append(Replace([Top EXCEPT !.mixed = TRUE]),
                       NewFrame("root", "indirect", FALSE))
    /\ indir' = indir + 1
    /\ li' = CheckMem(li, 0)
    /\ out' = << >>
    /\ UNCHANGED <<db, flags, eoff, names, printed, needsep, first, result>>

-----------------------------------------------------------------------------
(* match() returns (0, 1, or 2 for -1) to whoever called it.               *)

Returned(call) == Depth > 0 /\ Top.pc = "ret" /\ Top.call = call
Caller == stack[Depth - 1]
BelowCaller == SubSeq(stack, 1, Depth - 2)

RestoredForgotten(f) == li

\* restore_cont().
Restored(f) == f.li

UseReturn ==
    /\ Returned("use")
    /\ names' = names - 1
    /\ eoff' = Top.eoff
    /\ LET s == IF Top.val = 1 THEN needsep ELSE Top.sep
           f == [Caller EXCEPT !.ret = Top.ret, !.found = @ \/ Top.found]
           c == Restored(Top)
           got == Top.val = 1 \/ f.found    \* rv ? rv : *found_match
       IN  IF Top.val = 2
           THEN /\ stack' = Append(BelowCaller, Return(f, 2))
                /\ li' = c
                /\ needsep' = s
                /\ UNCHANGED <<printed, first, out>>
           ELSE IF (got /\ Top.found) \/ (~got /\ Entry(f).not)
           THEN \E inside \in BOOLEAN : Hit(BelowCaller, f, c, s, out, inside)
           ELSE /\ Miss(BelowCaller, f, c, ~got)
                /\ needsep' = s
                /\ UNCHANGED <<printed, first, out>>
    /\ UNCHANGED <<db, flags, indir, result>>

\* file_pop_buffer(): the text of the inner call follows that of the outer.
IndirectReturn ==
    /\ Returned("indirect")
    /\ LET m == Entry(Caller)
           text == IF m.desc /\ ~flags.mime THEN << "nospace" >> ELSE << >>
           f == [Caller EXCEPT !.found = TRUE, !.ret = TRUE]
       IN  \/ /\ Top.val = 2
              /\ stack' = Append(BelowCaller, Return(Caller, 2))
              /\ UNCHANGED <<li, printed, needsep, first, out>>
           \/ /\ Top.val = 1
              /\ \E inside \in BOOLEAN :
                    Hit(BelowCaller, f, li, needsep, Top.out \o text \o out, inside)
           \/ /\ Top.val = 0 /\ m.not
              /\ \E inside \in BOOLEAN :
                    Hit(BelowCaller, Caller, li, needsep, Top.out, inside)
           \/ /\ Top.val = 0 /\ ~m.not
              /\ Miss(BelowCaller, Caller, li, TRUE)
              /\ out' = Top.out
              /\ UNCHANGED <<printed, needsep, first>>
    /\ UNCHANGED <<db, flags, eoff, indir, names, result>>

\* file_softmagic() returns.
RootReturn ==
    /\ Returned("root")
    /\ stack' = << >>
    /\ result' = <<"nomatch", "match", "error">>[Top.val + 1]
    /\ UNCHANGED <<db, flags, li, eoff, indir, names, printed, needsep, first, out>>

Finished == stack = << >> /\ UNCHANGED vars

Step == \/ ForEntry \/ ForEnd \/ WhileEntry \/ WhileEnd
        \/ TestError \/ TestMiss \/ TestHit \/ Use \/ Indirect
        \/ UseReturn \/ IndirectReturn \/ RootReturn
Next == Step \/ Finished

Spec == Init /\ [][Next]_vars /\ WF_vars(Step)

-----------------------------------------------------------------------------
(* Properties.                                                             *)

Ids == Nat \X Nat
Tokens == {"desc", "nospace", "space", "sep", "mime"}
LevelType == [0..(MaxLevel + 1) -> [off : Ids, got : BOOLEAN, last : BOOLEAN]]
ListNames == {"root"} \cup UNION {DOMAIN d.named : d \in DBs}
FrameType == [list : ListNames, call : {"root", "use", "indirect"}, idx : Nat, lev : 0..(MaxLevel + 1),
              pc : {"for", "top", "while", "cont", "ret"}, ret : BOOLEAN, found : BOOLEAN, val : 0..2,
              hit : SUBSET Nat, deep : SUBSET Nat, mixed : BOOLEAN, eo : Ids,
              li : LevelType, eoff : Ids, sep : BOOLEAN, out : Seq(Tokens)]
FrameOK(f) ==
    /\ f.list \in DOMAIN db.named \cup {"root"}
    /\ f.idx <= Size(f)
    /\ f.pc = "for" => f.lev = 0
    /\ f.pc \in {"top", "cont"} => f.idx > 0 /\ f.lev = IF f.pc = "top" THEN 0 ELSE Entry(f).lev
    /\ f.deep \subseteq f.hit /\ f.hit \subseteq 1..f.idx

\* The type of the interpreter's state; in particular cont_level never indexes
\* past the levels that file_check_mem() has made.
TypeOK ==
    /\ db \in DBs /\ flags \in [cont : BOOLEAN, mime : BOOLEAN, badsize : BOOLEAN]
    /\ stack \in Seq(FrameType) /\ \A d \in 1..Depth : FrameOK(stack[d])
    /\ li \in LevelType /\ eoff \in Ids
    /\ {printed, needsep, first} \subseteq BOOLEAN
    /\ out \in Seq(Tokens)
    /\ result \in {"none", "nomatch", "match", "error"}

\* The last entry before entry i that is below its level: the one that controls it.
Parent(q, i) ==
    CHOOSE j \in 1..(i-1) : /\ q[j].lev < q[i].lev
                            /\ \A k \in (j+1)..(i-1) : q[k].lev >= q[i].lev

\* Entry i belongs to a top-level entry, and that one is not left alone because
\* it counts from the end of a file of unknown size.  (It is: when msetoffset()
\* fails on a pipe or on a buffer of magic_buffer(), the for loop goes on with
\* the next entry, a continuation, as if that were a top-level one.)
Headed(q, i, unknown) ==
    \E h \in 1..i : /\ q[h].lev = 0 /\ \A k \in (h+1)..i : q[k].lev # 0
                    /\ ~(unknown /\ q[h].from = "end")

\* match() runs a continuation only when the entry that controls it matched in
\* the same call, whatever calls of use and indirect tests came in between; a
\* continuation that skips a level is never run.  Exception: the continuations
\* of a top-level entry that counts from the end of a file of unknown size, and
\* those without a top-level entry, are run as top-level entries (Headed).
Controlled ==
    AtTest /\ Headed(ListOf(Top), Top.idx, flags.badsize) =>
        IF Entry(Top).lev = 0 THEN Top.pc = "top"
        ELSE /\ Top.pc = "cont" /\ Parent(ListOf(Top), Top.idx) \in Top.deep
             /\ ListOf(Top)[Parent(ListOf(Top), Top.idx)].lev = Entry(Top).lev - 1

\* A "&" offset is relative to the end of the field that controls the entry,
\* and an offset relative to eoffset to what this call of match() put there:
\* save_cont()/restore_cont() and the saved eoffset shield a list from the
\* named lists it uses.  Exceptions: the call has run an indirect test, which
\* is not shielded (mixed; see RelativeBaseStrict), and, for "&", the entry has
\* no top-level entry that was run (Headed).
RelativeBase ==
    AtTest /\ ~Top.mixed /\ Top.pc = "cont" =>
        /\ Entry(Top).add /\ Headed(ListOf(Top), Top.idx, flags.badsize) =>
              li[Top.lev - 1].off = <<Depth, Parent(ListOf(Top), Top.idx)>>
        /\ Entry(Top).from = "rel" => eoff = Top.eo

\* As the manual has it, for every entry.
RelativeBaseStrict ==
    AtTest /\ Top.pc = "cont" /\ Entry(Top).add =>
        li[Top.lev - 1].off = <<Depth, Parent(ListOf(Top), Top.idx)>>

\* Two entries of one level, j before i, under the same entry.
Sibling(q, i, j) == q[j].lev = q[i].lev /\ \A k \in j..i : q[k].lev >= q[i].lev

\* A default entry matches only if no entry at its level under the same one has
\* matched before, but for what came before the last clear entry.  Exceptions,
\* in which the code departs from the manual: an entry that matched with its end
\* outside the buffer (hit, not deep) is as good as a clear, for
\* file_check_mem() forgets the matches of its level; the call has run an
\* indirect test (mixed); the entries have no top-level entry that was run
\* (Headed).
DefaultLast ==
    Depth > 0 /\ ~Top.mixed =>
        LET q == ListOf(Top)
        IN  \A i \in Top.hit :
                q[i].type = "default" /\ q[i].lev > 0 /\ Headed(q, i, flags.badsize) =>
                    \A j \in Top.deep : j < i /\ Sibling(q, i, j) =>
                        \E c \in Top.hit : /\ c \in j..(i-1) /\ Sibling(q, i, c)
                                           /\ q[c].type = "clear" \/ c \notin Top.deep

CallsOf(k) == {d \in 1..Depth : stack[d].call = k}

\* name_count is the nesting depth of use tests, indir_count bounds that of
\* indirect tests, and neither exceeds its limit: recursion through a
\* database, even one that uses itself, is bounded by the two limits.
LimitsHold ==
    /\ names = Cardinality(CallsOf("use")) /\ names <= NameMax
    /\ Cardinality(CallsOf("indirect")) <= indir /\ indir <= IndirMax
    /\ Depth <= NameMax + IndirMax + 1

\* A negated use or indirect test with a description: the description counts
\* as printed although mprint() prints nothing for such an entry.
Mute(m) == m.type \in {"use", "indirect"} /\ m.not /\ m.desc
Speaking == \A n \in DOMAIN db.named \cup {"root"} :
                LET q == IF n = "root" THEN db.root ELSE db.named[n]
                IN  \A i \in 1..Len(q) : ~Mute(q[i])

\* file_softmagic() reports a match exactly when it has printed something, so
\* that the caller neither shows an empty description nor drops one.
ResultSaysPrinted ==
    /\ result = "match" /\ Speaking => out # << >>
    /\ result = "nomatch" => out = << >>

\* What match() printed never begins with the separator or the blank that
\* belongs between two descriptions.  (With MAGIC_MIME and MAGIC_CONTINUE it
\* may: an entry with a description and no MIME type clears firstline.)
NoLeadingSeparator ==
    result = "match" /\ Speaking /\ ~(flags.mime /\ flags.cont) => out[1] \notin {"sep", "space"}

\* Every call of file_softmagic() returns.
Termination == <>(result # "none")
=============================================================================
