-------------------------------- MODULE ReadElf --------------------------------
(***************************************************************************)
(* ELF files: file_tryelf() (src/readelf.c, src/elfclass.h).  The program    *)
(* headers of an executable or of a core file and the section headers are    *)
(* read one after the other, and the notes of both with donote(), under a    *)
(* budget of notes for the whole file.                                      *)
(*                                                                         *)
(* The file is chosen as it is read.  A word is WordBits wide (32 in the     *)
(* code), a size_t as wide as the build makes it.                           *)
(***************************************************************************)
EXTENDS Integers, FiniteSets

CONSTANTS
    WordBits,      \* the width of a word of a note header
    Builds,        \* widths of size_t
    NoteWords,     \* the sizes a note header may give
    Aligns,        \* the alignments a program header may give
    NoteKinds,     \* the notes a file may have
    NhSize,        \* xnh_sizeof
    MinAlign,      \* the alignment of notes: 4
    BufMax,        \* bytes of notes that are read at once
    NotesMax,      \* elf_notes_max
    PhMax,         \* elf_phnum_max
    ShMax,         \* elf_shnum_max
    CapSkip,       \* unknown capabilities after which a section is left: 2
    CapStop        \* and after which no other one is read: 5

ASSUME ElfAssumption ==
    /\ WordBits \in Nat \ {0} /\ Builds \subseteq Nat /\ \A b \in Builds : b >= WordBits
    /\ NoteWords \subseteq 0..(2^WordBits - 1) /\ Aligns \subseteq Nat
    /\ {NhSize, MinAlign, BufMax, NotesMax, PhMax, ShMax, CapSkip, CapStop} \subseteq Nat
    /\ MinAlign > 0 /\ MinAlign < 2^(WordBits - 1) /\ 2 * (BufMax + NhSize) < 2^(WordBits - 1)

\* What a note is, by its name and its type: the notes about the program of a core file, and
\* the ones that are told once each.
Styles == {"SVR4", "FreeBSD", "NetBSD"}
CoreKinds == {"procinfo", "prpsinfo", "auxv", "other"}
Marks == {"pax", "memtag", "march", "cmodel", "emulation", "unknown"}
ASSUME KindsAssumption == NoteKinds \subseteq CoreKinds \cup Marks \cup {"os", "android", "build", "go"}

VARIABLES
    epc,        \* where file_tryelf() is
    build,      \* the width of size_t, 0 before anything is read
    ask,        \* what is asked for: a description, a MIME type, or what Apple's programs call it
    etype,      \* e_type
    shnum,      \* e_shnum
    left,       \* headers that are still to be read
    notecount,  \* notes that may still be read
    did,        \* flags: the FLAGS_DID ones
    style,      \* flags: FLAGS_CORE_STYLE, or "none"
    nb,         \* the notes in the buffer, and who reads them
    link,       \* dynamic, pie, need and interp of dophn_exec()
    mode,       \* the execute bits of ms->mode: as they were, set or cleared
    sec,        \* stripped, has_debug_info and the capabilities of doshn()
    err,        \* an error is recorded
    said,       \* what was printed
    twice,      \* history: something was printed again
    via,        \* history: the headers notes were reached by
    bounds,     \* history: every note that was handled lies inside the buffer
    onwards,    \* history: every offset donote() returned was 0 or further on
    eret        \* the result

elfVars == <<epc, build, ask, etype, shnum, left, notecount, did, style, nb, link, mode, sec, err, said,
             twice, via, bounds, onwards, eret>>
fileVars == <<build, ask, etype, shnum>>
noteVars == <<notecount, did, style, nb, via, bounds, onwards>>

\* What may be said of several notes or sections.
Repeatable == {"go", "bad note", "note alignment", "unknown capability"}

\* elf_printf(): nothing for a MIME type, nor after an error.
mime == ask = "mime"
Quiet == mime \/ err
Say(S) == /\ said' = IF Quiet THEN said ELSE said \cup S
          /\ twice' = (twice \/ (~Quiet /\ S \cap (said \ Repeatable) # {}))
          /\ UNCHANGED err
Fail == ~Quiet /\ err' = TRUE /\ UNCHANGED <<said, twice>>
Silent == UNCHANGED <<err, said, twice>>
Return(r) == epc' = "done" /\ eret' = r

\* A complaint after which the reader goes on somewhere, unless it cannot be printed.
Complain(what, next) ==
    \/ Say({what}) /\ epc' = next /\ UNCHANGED eret
    \/ Fail /\ Return(-1)

\* toomany()
toomany(what) == (Say({what}) /\ Return(1)) \/ (Fail /\ Return(-1))

NoNotes == [off |-> 0, size |-> 0, align |-> MinAlign, ret |-> 0, back |-> "none"]
NoSec == [stripped |-> TRUE, debug |-> FALSE, pending |-> FALSE, hw |-> FALSE, sf |-> FALSE, bad |-> 0]

-----------------------------------------------------------------------------
(* file_tryelf()                                                           *)

\* What is no ELF file, or is cut short; a pipe that cannot be copied; a class nobody
\* knows.
NoElf ==
    /\ epc = "start"
    /\ \/ Return(0) /\ Silent
       \/ ask # "apple" /\ Return(-1) /\ err' = TRUE /\ UNCHANGED <<said, twice>>
       \/ ask # "apple" /\ ((Say({"unknown class"}) /\ Return(0)) \/ (Fail /\ Return(-1)))
    /\ UNCHANGED <<fileVars, noteVars, left, link, mode, sec>>

\* The headers of elfclass.h: the limits come before anything is read.
ElfHeader ==
    /\ epc = "start" /\ ask # "apple" /\ build' \in Builds
    /\ \E t \in {"core", "exec", "rel", "other"}, ph \in 0..(PhMax + 1), sh \in 0..(ShMax + 1) :
        /\ t \in {"rel", "other"} => ph = 0
        /\ t \in {"core", "other"} => sh = 0
        /\ etype' = t /\ shnum' = sh /\ left' = ph
        /\ \/ t \in {"core", "exec"} /\ ph > PhMax /\ toomany("too many program headers")
           \/ t \in {"exec", "rel"} /\ ph <= PhMax /\ sh > ShMax /\ toomany("too many section headers")
           \/ ph <= PhMax /\ sh <= ShMax /\ Silent /\ UNCHANGED eret
              /\ epc' = [core |-> "phs", exec |-> "phs", rel |-> "sh", other |-> "end"][t]
    /\ UNCHANGED <<ask, noteVars, link, mode, sec>>

End ==
    /\ epc = "end"
    /\ IF notecount = 0 THEN toomany("too many notes") ELSE Return(1) /\ Silent
    /\ UNCHANGED <<fileVars, noteVars, left, link, mode, sec>>

-----------------------------------------------------------------------------
(* Notes.                                                                  *)

Wide(x) == x % 2^build
Negative(x) == (x \div 2^(WordBits - 1)) % 2 = 1           \* & 0x80000000
Align(a, align) == Wide((Wide(a + align - 1) \div align) * align)
AtLeast(a, b) == IF a >= b THEN a ELSE b

Skip(r) == [ret |-> r, bad |-> FALSE, read |-> FALSE, doff |-> 0]
Bad == [ret |-> 0, bad |-> TRUE, read |-> FALSE, doff |-> 0]

\* mutant: a description may have any size
NoteAtAnySize(off, size, align, namesz, descsz) ==
    LET offset == off + NhSize
        doff == Align(offset + namesz, align)
        next == Align(doff + descsz, align)
    IN  IF offset > size THEN Skip(offset)
        ELSE IF namesz = 0 /\ descsz = 0 THEN Skip(size)
        ELSE IF Negative(namesz) THEN Bad
        ELSE IF Wide(offset + namesz) > size THEN Skip(doff)
        ELSE IF Wide(doff + descsz) > size THEN Skip(AtLeast(next, size))
        ELSE [ret |-> next, bad |-> FALSE, read |-> TRUE, doff |-> doff]

\* The arithmetic of donote(): what it returns, and whether the note is handled.
NoteAt(off, size, align, namesz, descsz) ==
    LET offset == off + NhSize
        doff == Align(offset + namesz, align)
        next == Align(doff + descsz, align)
    IN  IF offset > size THEN Skip(offset)
        ELSE IF namesz = 0 /\ descsz = 0 THEN Skip(size)
        ELSE IF Negative(namesz) \/ Negative(descsz) THEN Bad
        ELSE IF Wide(offset + namesz) > size THEN Skip(doff)
        ELSE IF Wide(doff + descsz) > size THEN Skip(AtLeast(next, size))
        ELSE [ret |-> next, bad |-> FALSE, read |-> TRUE, doff |-> doff]

\* Where the loop over the notes goes on with an offset.
Resume(off) == IF off = 0 THEN epc' = nb.back /\ nb' = NoNotes
               ELSE epc' = "note" /\ nb' = [nb EXCEPT !.off = off, !.ret = 0]

\* donote() up to the handlers: the budget, and the sizes.
NoteHeader ==
    /\ epc = "note" /\ nb.off < nb.size /\ notecount > 0
    /\ notecount' = notecount - 1
    /\ \E namesz, descsz \in NoteWords :
        LET r == NoteAt(nb.off, nb.size, nb.align, namesz, descsz)
        IN  /\ onwards' = (onwards /\ (r.ret = 0 \/ r.ret > nb.off))
            /\ bounds' = (bounds /\ (r.read => /\ nb.off + NhSize + namesz <= r.doff
                                               /\ r.doff + descsz <= nb.size))
            /\ IF r.read THEN epc' = "handle" /\ nb' = [nb EXCEPT !.ret = r.ret] ELSE Resume(r.ret)
            /\ IF r.bad THEN Say({"bad note"}) \/ Fail ELSE Silent
    /\ UNCHANGED <<fileVars, left, did, style, link, mode, sec, via, eret>>

\* The loops over the notes end: nothing is left, of the buffer or of the budget.
NotesEnd ==
    /\ epc = "note" /\ (nb.off >= nb.size \/ notecount = 0)
    /\ epc' = nb.back /\ nb' = NoNotes /\ Silent
    /\ UNCHANGED <<fileVars, left, notecount, did, style, link, mode, sec, via, bounds, onwards, eret>>

\* A handler that prints: it marks the note as done whether or not it can be printed.
Told(mark, S) == did' = did \cup mark /\ (Say(S) \/ Fail)
Again == UNCHANGED did /\ Silent
Once(kind) == IF kind \in did THEN Again ELSE Told({kind}, {kind})

do_os_note(kind) == kind \in {"os", "android"} /\ IF "os" \in did THEN Again ELSE Told({"os"}, {"os"})

\* mutant: a build identifier is not marked
BuildUnmarked(kind) ==
    \/ kind = "build" /\ IF "build" \in did THEN Again ELSE Told({}, {"build"})
    \/ kind = "go" /\ IF "build" \in did THEN Again ELSE Told({}, {"go"})

\* The identifier of a build is told once, the one of Go is not marked.
do_bid_note(kind) ==
    \/ kind = "build" /\ IF "build" \in did THEN Again ELSE Told({"build"}, {"build"})
    \/ kind = "go" /\ IF "build" \in did THEN Again ELSE Told({}, {"go"})

\* Of no flags nothing is told.
do_pax_note(kind) == kind = "pax" /\ (Once(kind) \/ (did' = did \cup {kind} /\ Silent))
do_memtag_note(kind) == kind = "memtag" /\ (Once(kind) \/ (did' = did \cup {kind} /\ Silent))

\* The notes of NetBSD at the end of donote().
NetbsdNote(kind) == kind \in {"march", "cmodel", "emulation", "unknown"} /\ Once(kind)

\* Some of it was printed and then printing, or the note itself, failed.
SayAndFail(S) == /\ said' = IF Quiet THEN said ELSE said \cup S
                 /\ err' = TRUE /\ UNCHANGED twice

\* do_core_note(): the style after a note that carries the name of one, or none; the first
\* such note says it.
CoreStyle(s) == IF "core" \notin did /\ s # "none" /\ style = "none" THEN s ELSE style

\* Is the note about the program?
IsProgram(kind, s) == /\ "core" \notin did
                      /\ \/ s = "NetBSD" /\ kind = "procinfo"
                         \/ s # "NetBSD" /\ kind = "prpsinfo" /\ etype = "core"

\* The program: of FreeBSD the buffer may be too short, of the others there may be no
\* place with a name that can be printed.
do_core_note(s, before) ==
    \/ did' = did \cup {"core"} /\ Say(before \cup {"from"})
    \/ s = "FreeBSD" /\ did' = did \cup {"core"} /\ Say(before)
    \/ s \in {"SVR4", "none"} /\ UNCHANGED did /\ Say(before)
    \/ ~Quiet /\ UNCHANGED did /\ SayAndFail(before)

\* do_auxv_note(): the values of the vector, of which none may be known and which may be
\* too many.
IsVector(kind, s) == kind = "auxv" /\ etype = "core" /\ CoreStyle(s) = "SVR4" /\ "auxv" \notin did
do_auxv_note(before) ==
    /\ did' = did \cup {"auxv"}
    /\ \/ Say(before \cup {"auxv"})
       \/ Say(before)
       \/ SayAndFail(before)
       \/ SayAndFail(before \cup {"auxv"})

\* The two of them, as donote() calls them one after the other.
CoreNote(kind, s) ==
    LET before == IF CoreStyle(s) # style THEN {"style"} ELSE {}
    IN  \/ /\ style' = CoreStyle(s)
           /\ \/ IsProgram(kind, s) /\ do_core_note(s, before)
              \/ IsVector(kind, s) /\ do_auxv_note(before)
              \/ ~IsProgram(kind, s) /\ ~IsVector(kind, s) /\ UNCHANGED did /\ Say(before)
        \/ before # {} /\ Fail /\ UNCHANGED <<did, style>>

\* The handlers, for the note that is at hand.
NoteHandle ==
    /\ epc = "handle"
    /\ \/ /\ \E kind \in NoteKinds \ CoreKinds : \/ do_os_note(kind) \/ do_bid_note(kind) \/ do_pax_note(kind)
                                               \/ do_memtag_note(kind) \/ NetbsdNote(kind)
          /\ UNCHANGED style
       \/ \E kind \in NoteKinds \cap CoreKinds, s \in Styles \cup {"none"} : CoreNote(kind, s)
    /\ Resume(nb.ret)
    /\ UNCHANGED <<fileVars, left, notecount, link, mode, sec, via, bounds, onwards, eret>>

-----------------------------------------------------------------------------
(* Program headers: dophn_core() and dophn_exec().                         *)

ToSections == IF etype = "exec" THEN "sh" ELSE "end"
BeginNotes(align, back) == \E size \in 0..BufMax : nb' = [NoNotes EXCEPT !.size = size, !.align = align, !.back = back]
SkipHeader == epc' = "ph" /\ Silent /\ UNCHANGED <<nb, via, link, mode, eret>>

\* Nothing is read of a core file when a MIME type is asked for.  Without a header, with
\* headers of the wrong size, or when one cannot be read, the headers are left.
PhRefused ==
    /\ \/ epc = "phs" /\ mime /\ etype = "core" /\ epc' = "end" /\ Silent /\ UNCHANGED eret
       \/ epc = "phs" /\ ~(mime /\ etype = "core") /\ Complain("bad program headers", ToSections)
       \/ epc = "ph" /\ left > 0 /\ Complain("bad program headers", ToSections)
    /\ UNCHANGED <<fileVars, noteVars, left, link, mode, sec>>

PhBegin ==
    /\ epc = "phs" /\ ~(mime /\ etype = "core") /\ left > 0
    /\ epc' = "ph" /\ Silent
    /\ UNCHANGED <<fileVars, noteVars, left, link, mode, sec, eret>>

\* The alignments after the macro xph_align: none means that of notes.
xph_align == {IF a = 0 THEN MinAlign ELSE a : a \in Aligns}

\* A segment of notes, unless the section headers lead to the notes.
PhNote ==
    /\ IF etype = "exec" /\ shnum # 0 THEN SkipHeader
       ELSE /\ \E a \in xph_align :
                LET wrong == etype = "exec" /\ (Negative(Wide(a)) \/ Wide(a) < MinAlign)
                IN  /\ \/ wrong /\ Fail /\ Return(-1) /\ UNCHANGED <<nb, via>>
                       \/ /\ IF wrong THEN Say({"note alignment"}) ELSE Silent
                          /\ UNCHANGED eret
                          /\ IF mime THEN epc' = "sh" /\ UNCHANGED <<nb, via>>
                             ELSE /\ epc' = "note" /\ via' = via \cup {"program"}
                                  /\ BeginNotes(IF wrong \/ etype = "core" THEN MinAlign ELSE Wide(a), "ph")
            /\ UNCHANGED <<link, mode>>

\* dodynamic(), for the entries of a segment: the last set of flags says whether the file
\* may be executed, any of them that it is position independent.
PhDynamic ==
    /\ epc' = "ph" /\ Silent /\ UNCHANGED <<nb, via, eret>>
    /\ \E needed \in BOOLEAN, flags \in {{}, {"pie"}, {"no"}, {"pie", "no"}} :
        /\ link' = [link EXCEPT !.dynamic = TRUE, !.pie = @ \/ "pie" \in flags, !.need = @ \/ needed]
        /\ \E last \in flags \cup {"no"} : (flags # {} => last \in flags) /\ mode' = IF last = "pie" THEN "set" ELSE "cleared"

PhInterp == /\ epc' = "ph" /\ Silent /\ UNCHANGED <<nb, via, mode, eret>>
            /\ link' = [link EXCEPT !.need = TRUE, !.interp = ~mime]

\* One program header.  Of a core file only the notes are looked at.
PhTurn ==
    /\ epc = "ph" /\ left > 0
    /\ left' = left - 1
    /\ \/ PhNote
       \/ etype = "exec" /\ (PhDynamic \/ PhInterp)
       \/ SkipHeader
    /\ UNCHANGED <<fileVars, notecount, did, style, sec, bounds, onwards>>

\* How an executable is linked.
Linked == IF ~link.dynamic THEN "statically" ELSE IF link.pie /\ ~link.need THEN "static-pie" ELSE "dynamically"

PhEnd ==
    /\ epc = "ph" /\ left = 0
    /\ \/ etype = "core" /\ epc' = "end" /\ Silent /\ UNCHANGED eret
       \/ etype = "exec" /\ Say({Linked} \cup (IF link.interp THEN {"interpreter"} ELSE {}))
          /\ epc' = "sh" /\ UNCHANGED eret
       \/ etype = "exec" /\ Fail /\ Return(-1)
    /\ UNCHANGED <<fileVars, noteVars, left, link, mode, sec>>

-----------------------------------------------------------------------------
(* Section headers: doshn().                                               *)

ShRefused ==
    /\ epc = "sh"
    /\ \/ mime /\ epc' = "end" /\ Silent /\ UNCHANGED eret
       \/ ~mime /\ Complain("bad section headers", "end")
    /\ UNCHANGED <<fileVars, noteVars, left, link, mode, sec>>

\* The header of the string table is read first; its own name is the first one looked at.
ShBegin ==
    /\ epc = "sh" /\ ~mime /\ shnum > 0
    /\ epc' = "shn" /\ left' = shnum /\ Silent
    /\ \E debug \in BOOLEAN : sec' = [NoSec EXCEPT !.pending = debug]
    /\ UNCHANGED <<fileVars, noteVars, link, mode, eret>>

\* The name that is looked at in a turn is the one of the header read in the turn before.
Named == [sec EXCEPT !.debug = @ \/ sec.pending, !.stripped = @ /\ ~sec.pending]

\* A section header, or the name or the notes it leads to, that cannot be read, and notes
\* that are too large.
ShFails ==
    /\ epc = "shn" /\ left > 0
    /\ \/ Complain("bad section headers", "end")
       \/ err' = TRUE /\ UNCHANGED <<said, twice>> /\ Return(-1)
    /\ UNCHANGED <<fileVars, noteVars, left, link, mode, sec>>

\* The capabilities of a section: known ones are collected, unknown ones are told until
\* there are too many.
ShCapabilities ==
    \E debug, hw, sf \in BOOLEAN, n \in 0..(CapSkip + 2) :
        /\ n > 0 => sec.bad <= CapStop /\ (sec.bad + n - 2 < CapSkip + 1 \/ n = 1)
        /\ hw \/ sf => sec.bad <= CapStop
        /\ sec' = [Named EXCEPT !.hw = @ \/ hw, !.sf = @ \/ sf, !.bad = @ + n, !.pending = debug]
        /\ IF n > 0 THEN (Say({"unknown capability"}) /\ UNCHANGED <<epc, eret>>) \/ (Fail /\ Return(-1))
           ELSE Silent /\ UNCHANGED <<epc, eret>>
        /\ UNCHANGED <<nb, via>>

\* One section header.
ShTurn ==
    /\ epc = "shn" /\ left > 0
    /\ left' = left - 1
    /\ \/ \E debug \in BOOLEAN, symtab \in BOOLEAN :
            /\ sec' = [Named EXCEPT !.stripped = @ /\ ~symtab, !.pending = debug]
            /\ Silent /\ UNCHANGED <<epc, nb, via, eret>>
       \/ ShCapabilities
       \/ /\ \E debug \in BOOLEAN : sec' = [Named EXCEPT !.pending = debug]
          /\ via' = via \cup {"section"}
          /\ epc' = "note" /\ BeginNotes(MinAlign, "shn") /\ Silent /\ UNCHANGED eret
    /\ UNCHANGED <<fileVars, notecount, did, style, link, mode, bounds, onwards>>

ShEnd ==
    /\ epc = "shn" /\ left = 0
    /\ \/ /\ Say((IF sec.debug THEN {"debug_info"} ELSE {})
               \cup {IF sec.stripped THEN "stripped" ELSE "not stripped"}
               \cup (IF sec.hw THEN {"hardware"} ELSE {}) \cup (IF sec.sf THEN {"software"} ELSE {}))
          /\ epc' = "end" /\ UNCHANGED eret
       \/ Fail /\ Return(-1)
    /\ UNCHANGED <<fileVars, noteVars, left, link, mode, sec>>

-----------------------------------------------------------------------------

ElfInit ==
    /\ epc = "start" /\ build = 0 /\ ask \in {"plain", "mime", "apple"} /\ etype = "none" /\ shnum = 0 /\ left = 0
    /\ notecount = NotesMax /\ did = {} /\ style = "none" /\ nb = NoNotes
    /\ link = [dynamic |-> FALSE, pie |-> FALSE, need |-> FALSE, interp |-> FALSE] /\ mode = "kept"
    /\ sec = NoSec /\ err = FALSE /\ said = {} /\ twice = FALSE /\ via = {} /\ bounds = TRUE /\ onwards = TRUE
    /\ eret = 2

ElfNext == \/ NoElf \/ ElfHeader \/ End \/ NoteHeader \/ NotesEnd \/ NoteHandle
           \/ PhRefused \/ PhBegin \/ PhTurn \/ PhEnd \/ ShRefused \/ ShBegin \/ ShFails \/ ShTurn \/ ShEnd
-----------------------------------------------------------------------------
(* What the reader promises.                                               *)

\* Whatever sizes and alignment a file gives, and whatever the width of size_t, a note is
\* handled only when its name and its description lie inside the buffer, and donote()
\* returns an offset that ends the loop or that lies further on.  The notes of an
\* executable are reached by its program headers or by its section headers, never by both.
ElfNotes == bounds /\ onwards /\ via # {"program", "section"}

LinkWords == {"statically", "dynamically", "static-pie", "bad program headers"}
StripWords == {"stripped", "not stripped", "bad section headers"}
LimitWords == {"too many program headers", "too many section headers"}

\* However the notes are spread over segments and sections, nothing is said twice of a
\* file but the words that stand for a note or a section each (Repeatable: Go build
\* identifiers, bad sizes and alignments, unknown capabilities).  An executable is told how it is linked and whether it is stripped, or why that is
\* not known; other files never are.  An exhausted budget of notes is always reported, unless
\* the file was refused before its notes, the vector only of a core file of a known style,
\* and nothing of a MIME type.
ElfSays ==
    /\ ~twice
    /\ mime => said = {}
    /\ said \cap LinkWords # {} => etype \in {"exec", "core"}
    /\ said \cap {"statically", "dynamically", "static-pie"} # {} => etype = "exec"
    /\ "auxv" \in said => etype = "core" /\ style = "SVR4"
    /\ "from" \in said => etype = "core" \/ "style" \in said
    /\ epc = "done" =>
        /\ eret = -1 => err
        /\ eret = 1 /\ ~Quiet =>
            /\ "too many notes" \in said => notecount = 0
            /\ notecount = 0 => said \cap (LimitWords \cup {"too many notes"}) # {}
            /\ etype = "exec" => \/ Cardinality(said \cap LimitWords) = 1 /\ Cardinality(said) = 1
                                 \/ /\ Cardinality(said \cap LinkWords) = 1
                                    /\ Cardinality(said \cap StripWords) = 1
=============================================================================
