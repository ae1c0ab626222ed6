------------------------------ MODULE MagicSet ------------------------------
(***************************************************************************)
(* The life of a libmagic cookie (struct magic_set): magic_open(),         *)
(* magic_load()/compile()/check()/list() through file_apprentice(),        *)
(* magic_load_buffers() through buffer_apprentice(), the queries           *)
(* magic_file(), magic_descriptor() and magic_buffer() through             *)
(* file_or_fd(), and magic_close().                                        *)
(*                                                                         *)
(* A database file becomes a map, and the map one entry in each of the two *)
(* lists mlist[0] and mlist[1]; only the entry in mlist[0] owns the map.   *)
(* The named file is the environment's: it may change between any two      *)
(* system calls of a query.  The order of the entries in a list and what a *)
(* map holds are left out.                                                 *)
(***************************************************************************)
EXTENDS Integers, FiniteSets

CONSTANTS
    Maps,       \* identities for maps; a freed one may be used again
    PathMax,    \* elements in a load path, or buffers in one call
    ChangesMax, \* how often the file may change during a query
    FlagSets,   \* the flag sets magic_setflags() may install
    Oom         \* may an allocation fail, or file_buffer() end in silence?

Flags == {"DEVICES", "ERROR", "SILENT"}  \* SILENT: MAGIC_APPLE or _EXTENSION
\* (the MAGIC_MIME flags are left out)
Actions == {"LOAD", "COMPILE", "CHECK", "LIST", "BUFFERS"}
Queries == {"file", "fd", "pipefd", "buffer"}
\* What a file name refers to, as far as fsmagic and open() tell it apart.
\* "device" stands for an empty regular file too, "link" is one to a regular
\* file; sockets and doors are left out.
Kinds == {"gone", "badlink", "link", "dir", "fifo", "device", "unreadable", "regular"}
\* Allocations whose failure the properties tell apart: a copy of the path, an
\* entry in mlist[0] for a buffer, an entry in mlist[1].
Sites == {"dup", "buf", "add1"}

ASSUME BoundsAssumption == PathMax \in Nat /\ ChangesMax \in Nat
ASSUME FlagSetsAssumption == FlagSets \subseteq SUBSET Flags
ASSUME OomAssumption == Oom \in BOOLEAN

VARIABLES
    pc,      \* where the call in progress is
    ms,      \* the cookie: "NULL" or "open"
    heads,   \* the i with mlist[i] # NULL
    mlist,   \* the maps that have an entry in mlist[i]
    live,    \* maps not yet unmapped
    act,     \* the load action, or the query
    left,    \* path elements or buffers still to do
    errs,    \* 0 once some path element has been loaded, else -1
    flags,   \* ms->flags
    event,   \* event_flags: EVENT_HAD_ERR or nothing
    text,    \* o.buf: what has been printed
    file,    \* what the queried name refers to now
    opened,  \* what the query reads from, or "none"
    off,     \* the offset of the caller's descriptor: "kept" or "moved"
    was,     \* all it has referred to during this query
    fds,     \* descriptors in use: STDIN, and those of magic_file()
    fd,      \* the descriptor that open() gave
    oom,     \* sites that failed in this load ("buf": in any load)
    ret      \* what the last call returned

lists == <<ms, heads, mlist, live>>
load == <<left, errs>>
files == <<fds, fd>>
query == <<opened, off, was, files>>
vars == <<pc, lists, act, load, flags, event, text, file, query, oom, ret>>

Sets == {0, 1}

\* open() gives the lowest descriptor that is free: STDIN if the caller has
\* closed it, else one that stands for all the others.
STDIN == 0
OTHER_FD == 3
Lowest == IF STDIN \in fds THEN OTHER_FD ELSE STDIN

Init ==
    /\ pc = "idle" /\ ms = "NULL"
    /\ heads = {} /\ mlist = [i \in Sets |-> {}]
    /\ live = {}
    /\ act = "LOAD" /\ left = 0 /\ errs = -1
    /\ flags = {} /\ event = "none" /\ text = {}
    /\ file = "gone"
    /\ opened = "none" /\ off = "kept" /\ was = {}
    /\ fds \in {{}, {STDIN}} /\ fd = STDIN
    /\ oom = {} /\ ret = "none"

-----------------------------------------------------------------------------
(* Helpers.                                                                *)

Goto(l) == pc' = l

\* Leave the call with this result.
Return(v) == pc' = "idle" /\ ret' = v

\* An allocation fails here.
NoMemory(s) == Oom /\ oom' = oom \cup s

\* file_error(): only the first one is kept.
Error == event' = "HAD_ERR"

\* mlist_free_all(): mlist_free() both lists, unmapping what set 0 owns.
MlistFreeAll ==
    /\ heads' = {}
    /\ mlist' = [i \in Sets |-> {}]
    /\ live' = live \ mlist[0]
    /\ UNCHANGED ms

\* A map that nothing refers to yet.
Fresh(m) == m \in Maps \ (live \cup mlist[0] \cup mlist[1])

-----------------------------------------------------------------------------
(* The cookie.                                                             *)

\* magic_open(): file_ms_alloc().
Open ==
    /\ pc = "idle" /\ ms = "NULL"
    /\ ms' = "open"
    /\ flags' \in FlagSets
    /\ heads' = {} /\ mlist' = [i \in Sets |-> {}]
    /\ event' = "none" /\ text' = {} /\ ret' = "none"
    /\ UNCHANGED <<pc, live, act, load, file, query, oom>>

CloseKeepsLists ==
    /\ pc = "idle" /\ ms = "open"
    /\ ms' = "NULL" /\ flags' = {} /\ event' = "none" /\ text' = {} /\ ret' = "none"
    /\ heads' = {} /\ mlist' = [i \in Sets |-> {}]
    /\ UNCHANGED <<pc, live, act, load, file, query, oom>>

\* magic_close(): file_ms_free() frees both lists, then the cookie with all
\* it holds.
Close ==
    /\ pc = "idle" /\ ms = "open"
    /\ ms' = "NULL" /\ flags' = {} /\ event' = "none" /\ text' = {} /\ ret' = "none"
    /\ live' = live \ mlist[0]
    /\ heads' = {} /\ mlist' = [i \in Sets |-> {}]
    /\ UNCHANGED <<pc, act, load, file, query, oom>>

\* magic_setflags().
SetFlags ==
    /\ pc = "idle" /\ ms = "open"
    /\ flags' \in FlagSets
    /\ UNCHANGED <<pc, lists, act, load, event, text, file, query, oom, ret>>

-----------------------------------------------------------------------------
(* Loading.                                                                *)

\* The entry of file_apprentice() or buffer_apprentice(): file_reset(ms, 0).
LoadEnter(a, n) ==
    /\ pc = "idle" /\ ms = "open"
    /\ act' = a /\ left' = n /\ errs' = -1
    /\ event' = "none" /\ text' = {}
    /\ ret' = "none"
    /\ oom' = oom \cap {"buf"}
    /\ opened' = "none" /\ off' = "kept" /\ was' = {}
    /\ Goto("fresh")
    /\ UNCHANGED <<lists, flags, file, files>>

\* magic_load_buffers() of no buffers: -1 before anything is touched.
NoBuffers ==
    /\ pc = "idle" /\ ms = "open"
    /\ act' = "BUFFERS"
    /\ Return("refused")
    /\ UNCHANGED <<lists, load, flags, event, text, file, query, oom>>

\* strdup() of the path fails, before or after the lists are replaced.
DupFail ==
    /\ pc \in {"fresh", "copy"} /\ act # "BUFFERS"
    /\ NoMemory({"dup"})
    /\ Error
    /\ Return("failed")
    /\ UNCHANGED <<lists, act, load, flags, text, file, query>>

\* For each set: mlist_free() the old list, mlist_alloc() a new one.
FreshLists ==
    /\ pc = "fresh"
    /\ heads' = Sets
    /\ mlist' = [i \in Sets |-> {}]
    /\ live' = live \ mlist[0]
    /\ Goto(IF act = "BUFFERS" THEN "elems" ELSE "copy")
    /\ UNCHANGED <<ms, act, load, flags, event, text, file, query, oom, ret>>

\* The first mlist_alloc() fails: buffer_apprentice() frees the other list
\* too, file_apprentice() leaves mlist[1] as it was.
FreshListFail0 ==
    /\ pc = "fresh"
    /\ NoMemory({})
    /\ \/ act = "BUFFERS" /\ MlistFreeAll
       \/ /\ act # "BUFFERS"
          /\ heads' = heads \ {0}
          /\ mlist' = [mlist EXCEPT ![0] = {}]
          /\ live' = live \ mlist[0]
          /\ UNCHANGED ms
    /\ Error
    /\ Return("failed")
    /\ UNCHANGED <<act, load, flags, text, file, query>>

FreshListFail1KeepsFirst ==
    /\ pc = "fresh"
    /\ NoMemory({})
    /\ heads' = {0}
    /\ mlist' = [i \in Sets |-> {}]
    /\ live' = live \ mlist[0]
    /\ Error
    /\ Return("failed")
    /\ UNCHANGED <<ms, act, load, flags, text, file, query>>

\* The second mlist_alloc() fails: the new mlist[0] is freed again.
FreshListFail1 ==
    /\ pc = "fresh"
    /\ NoMemory({})
    /\ MlistFreeAll
    /\ Error
    /\ Return("failed")
    /\ UNCHANGED <<act, load, flags, text, file, query>>

CopyPath ==
    /\ pc = "copy"
    /\ Goto("elems")
    /\ UNCHANGED <<lists, act, load, flags, event, text, file, query, oom, ret>>

\* An empty path element ends the list: "a::b" never looks at b.
EmptyElement ==
    /\ pc = "elems" /\ left > 0 /\ act # "BUFFERS"
    /\ left' = 0
    /\ UNCHANGED <<pc, lists, act, errs, flags, event, text, file, query, oom, ret>>

\* After an element that could not be loaded: the next one, or, for buffers,
\* goto fail.
ElementFailed ==
    \/ /\ act # "BUFFERS"
       /\ left' = left - 1
       /\ UNCHANGED <<pc, ret, errs>>
    \/ /\ act = "BUFFERS"
       /\ Return("failed")
       /\ UNCHANGED load

NoMapFreesAll ==
    /\ pc = "elems" /\ left > 0
    /\ event' \in {IF act = "BUFFERS" THEN "HAD_ERR" ELSE event, "HAD_ERR"}
    /\ ElementFailed
    /\ MlistFreeAll
    /\ UNCHANGED <<act, flags, text, file, query, oom>>

\* No map: nothing there (a missing file leaves no message), bad contents,
\* or a failure on the way.
NoMap ==
    /\ pc = "elems" /\ left > 0
    /\ event' \in {IF act = "BUFFERS" THEN "HAD_ERR" ELSE event, "HAD_ERR"}
    /\ ElementFailed
    /\ IF act = "BUFFERS" THEN MlistFreeAll ELSE UNCHANGED lists
    /\ UNCHANGED <<act, flags, text, file, query, oom>>

\* FILE_COMPILE: the map is written out and unmapped; it joins no list.
Compile ==
    /\ pc = "elems" /\ left > 0 /\ act = "COMPILE"
    /\ left' = left - 1
    /\ \/ errs' = 0 /\ UNCHANGED event
       \/ Error /\ UNCHANGED errs
    /\ UNCHANGED <<pc, lists, act, flags, text, file, query, oom, ret>>

AddBothOnceMore(m) ==
    /\ pc = "elems" /\ act # "COMPILE"
    /\ 0 \in heads
    /\ Fresh(m)
    /\ live' = live \cup {m}
    /\ mlist' = [i \in Sets |-> mlist[i] \cup {m}]
    /\ left' = left - 1 /\ errs' = 0
    /\ UNCHANGED <<pc, ms, heads, act, flags, event, text, file, query, oom, ret>>

\* add_mlist() to both lists.
AddBoth(m) ==
    /\ pc = "elems" /\ left > 0 /\ act # "COMPILE"
    /\ 0 \in heads
    /\ Fresh(m)
    /\ live' = live \cup {m}
    /\ mlist' = [i \in Sets |-> mlist[i] \cup {m}]
    /\ left' = left - 1 /\ errs' = 0
    /\ UNCHANGED <<pc, ms, heads, act, flags, event, text, file, query, oom, ret>>

\* add_mlist() to mlist[0] fails.  apprentice_1() unmaps the map;
\* buffer_apprentice() frees the lists but not the map, which is in neither.
AddFail0(m) ==
    /\ pc = "elems" /\ left > 0 /\ act # "COMPILE"
    /\ 0 \in heads
    /\ Fresh(m)
    /\ NoMemory(IF act = "BUFFERS" THEN {"buf"} ELSE {})
    /\ IF act = "BUFFERS"
       THEN /\ heads' = {}
            /\ mlist' = [i \in Sets |-> {}]
            /\ live' = (live \cup {m}) \ mlist[0]
            /\ UNCHANGED ms
       ELSE UNCHANGED lists
    /\ Error
    /\ ElementFailed
    /\ UNCHANGED <<act, flags, text, file, query>>

\* add_mlist() to mlist[1] fails: mlist_free_all(), which unmaps this map
\* along with those of the elements already loaded.
AddFail1(m) ==
    /\ pc = "elems" /\ left > 0 /\ act # "COMPILE"
    /\ 0 \in heads
    /\ Fresh(m)
    /\ NoMemory({"add1"})
    /\ MlistFreeAll
    /\ Error
    /\ ElementFailed
    /\ UNCHANGED <<act, flags, text, file, query>>

\* The next element's add_mlist() follows the list head that is gone.
NullDereference ==
    /\ pc = "elems" /\ left > 0 /\ act # "COMPILE"
    /\ 0 \notin heads
    /\ Goto("crashed")
    /\ UNCHANGED <<lists, act, load, flags, event, text, file, query, oom, ret>>

LoadDoneKeepsLists ==
    /\ pc = "elems" /\ left = 0
    /\ Return(IF errs = 0 THEN "loaded" ELSE "failed")
    /\ UNCHANGED <<lists, act, load, flags, event, text, file, query, oom>>

LoadDoneNeedsOne ==
    /\ pc = "elems" /\ left = 0 /\ errs = 0
    /\ Return("loaded")
    /\ UNCHANGED <<lists, act, load, flags, event, text, file, query, oom>>

\* errs == -1: no element could be loaded, so the lists go too.
LoadDone ==
    /\ pc = "elems" /\ left = 0
    /\ IF errs = 0 \/ act = "BUFFERS"
       THEN Return("loaded") /\ UNCHANGED <<lists, event>>
       ELSE Return("failed") /\ MlistFreeAll /\ Error
    /\ UNCHANGED <<act, load, flags, text, file, query, oom>>

LoadStep ==
    \/ DupFail \/ FreshLists \/ FreshListFail0 \/ FreshListFail1 \/ CopyPath
    \/ EmptyElement \/ NoMap \/ Compile \/ NullDereference \/ LoadDone
    \/ \E m \in Maps : AddBoth(m) \/ AddFail0(m) \/ AddFail1(m)

-----------------------------------------------------------------------------
(* Queries.                                                                *)

\* file_reset(ms, 1) finds no database: the old error, if any, stays.
NotLoaded(q) ==
    /\ pc = "idle" /\ ms = "open" /\ 0 \notin heads
    /\ act' = q
    /\ Error
    /\ opened' = "none" /\ off' = "kept" /\ was' = {}
    /\ Return("NULL")
    /\ UNCHANGED <<lists, load, flags, text, file, files, oom>>

QueryEnter(q) ==
    /\ pc = "idle" /\ ms = "open" /\ 0 \in heads
    /\ act' = q
    /\ event' = "none" /\ text' = {} /\ ret' = "none"
    /\ file' \in Kinds /\ was' = {file'}
    /\ opened' = "none" /\ off' = "kept" /\ fd' = STDIN
    /\ Goto(IF q = "buffer" THEN "classify" ELSE "malloc")
    /\ UNCHANGED <<lists, load, flags, fds, oom>>

\* The buffer of bytes_max cannot be had: NULL, and no error recorded.
NoBuffer ==
    /\ pc = "malloc"
    /\ NoMemory({})
    /\ Return("NULL")
    /\ UNCHANGED <<lists, act, load, flags, event, text, file, query>>

Malloc ==
    /\ pc = "malloc"
    /\ Goto(IF act = "file" THEN "fsmagic" ELSE "read")
    /\ opened' = CASE act = "fd" -> "regular" [] act = "pipefd" -> "fifo"
                   [] OTHER -> "none"
    /\ UNCHANGED <<lists, act, load, flags, event, text, file, off, was, files, oom, ret>>

\* file_fsmagic(): lstat() fails.  The message is printed, and still the
\* file is opened, unless MAGIC_ERROR makes it an error.
FsGone ==
    /\ pc = "fsmagic" /\ file = "gone"
    /\ \/ "ERROR" \in flags /\ Error /\ Goto("done") /\ UNCHANGED text
       \/ /\ "ERROR" \notin flags
          /\ text' = text \cup {"cannot open"}
          /\ Goto("open")
          /\ UNCHANGED event
    /\ UNCHANGED <<lists, act, load, flags, file, query, oom, ret>>

Links == {"link", "badlink"}

\* lstat() finds a symbolic link; readlink() and stat() follow.
FsLink ==
    /\ pc = "fsmagic" /\ file \in Links
    /\ Goto("readlink")
    /\ UNCHANGED <<lists, act, load, flags, event, text, file, query, oom, ret>>

\* What is said of a link, and the end of file_fsmagic(): a match, except with
\* MAGIC_APPLE or MAGIC_EXTENSION, which say nothing and go on.
FsSays(x) ==
    \/ "SILENT" \notin flags /\ text' = text \cup {x} /\ Goto("done")
    \/ "SILENT" \in flags /\ UNCHANGED text /\ Goto("open")

FsReadlink ==
    /\ pc = "readlink" /\ file \in Links
    /\ Goto("stat")
    /\ UNCHANGED <<lists, act, load, flags, event, text, file, query, oom, ret>>

\* readlink() fails: the name is no link any more.
FsReadlinkFail ==
    /\ pc = "readlink" /\ file \notin Links
    /\ \/ "ERROR" \in flags /\ Error /\ Goto("done") /\ UNCHANGED text
       \/ "ERROR" \notin flags /\ FsSays("unreadable link") /\ UNCHANGED event
    /\ UNCHANGED <<lists, act, load, flags, file, query, oom, ret>>

\* stat() fails, bad_link(): a symbolic link to nothing counts as a match,
\* silent or not, or is an error with MAGIC_ERROR.
FsBadLink ==
    /\ pc = "stat" /\ file \in {"gone", "badlink"}
    /\ \/ "ERROR" \in flags /\ Error /\ UNCHANGED text
       \/ /\ "ERROR" \notin flags
          /\ text' = text \cup {"broken link"}
          /\ UNCHANGED event
    /\ Goto("done")
    /\ UNCHANGED <<lists, act, load, flags, file, query, oom, ret>>

\* stat() finds something behind the link.
FsGoodLink ==
    /\ pc = "stat" /\ file \notin {"gone", "badlink"}
    /\ FsSays("link")
    /\ UNCHANGED <<lists, act, load, flags, event, file, query, oom, ret>>

\* Does the mode alone answer?  A fifo under MAGIC_DEVICES counts as a match
\* although nothing is printed for it.
FsMatch == /\ "SILENT" \notin flags
           /\ \/ file \in {"dir", "fifo"}
              \/ file = "device" /\ "DEVICES" \notin flags

FsPrints == IF file = "fifo" /\ "DEVICES" \in flags THEN {} ELSE {"special"}

FsSpecialGoesOn ==
    /\ pc = "fsmagic" /\ FsMatch
    /\ text' = text \cup FsPrints
    /\ Goto("open")
    /\ UNCHANGED <<lists, act, load, flags, event, file, query, oom, ret>>

FsSpecial ==
    /\ pc = "fsmagic" /\ FsMatch
    /\ text' = text \cup FsPrints
    /\ Goto("done")
    /\ UNCHANGED <<lists, act, load, flags, event, file, query, oom, ret>>

FsPass ==
    /\ pc = "fsmagic" /\ file \notin {"gone"} \cup Links /\ ~FsMatch
    /\ Goto("open")
    /\ UNCHANGED <<lists, act, load, flags, event, text, file, query, oom, ret>>

\* open() succeeds.
OpenFile ==
    /\ pc = "open" /\ file \notin {"gone", "badlink", "unreadable"}
    /\ opened' = file
    /\ fd' = Lowest /\ fds' = fds \cup {Lowest}
    /\ Goto("read")
    /\ UNCHANGED <<lists, act, load, flags, event, text, file, off, was, oom, ret>>

\* open() fails; stat() follows.
OpenFileFail ==
    /\ pc = "open" /\ file \in {"gone", "badlink", "unreadable"}
    /\ Goto("restat")
    /\ UNCHANGED <<lists, act, load, flags, event, text, file, query, oom, ret>>

\* unreadable_info(), if stat() finds the file at all.  (The "writable" and the
\* "executable" that two calls of access() add are left out.)
Unreadable ==
    /\ pc = "restat"
    /\ text' = IF file \in {"gone", "badlink"} THEN text ELSE text \cup {"unreadable"}
    /\ Goto("done")
    /\ UNCHANGED <<lists, act, load, flags, event, file, query, oom, ret>>

\* read(): a directory gives an error, a named fifo may be empty.
ReadFail ==
    /\ pc = "read"
    /\ \/ opened # "fifo" /\ Error /\ UNCHANGED text
       \/ /\ opened = "fifo" /\ act = "file"
          /\ text' = text \cup {"unreadable"}
          /\ UNCHANGED event
    /\ Goto("done")
    /\ UNCHANGED <<lists, act, load, flags, file, query, oom, ret>>

Read ==
    /\ pc = "read" /\ opened # "dir"
    /\ off' = IF act \in {"fd", "pipefd"} THEN "moved" ELSE off
    /\ Goto("classify")
    /\ UNCHANGED <<lists, act, load, flags, event, text, file, opened, was, files, oom, ret>>

\* file_buffer(): prints a description, or fails with an error; or does neither
\* (a failure in silence, a match without a text: module FileBuffer).
Classify ==
    /\ pc = "classify"
    /\ \/ text' = text \cup {"content"} /\ UNCHANGED event
       \/ Error /\ UNCHANGED text
       \/ Oom /\ UNCHANGED <<text, event>>
    /\ Goto("done")
    /\ UNCHANGED <<lists, act, load, flags, file, query, oom, ret>>

\* file_getbuffer().
GetBuffer == IF event = "HAD_ERR" \/ text = {} THEN "NULL" ELSE "answer"

QueryDoneNoSeek ==
    /\ pc = "done"
    /\ opened' = "none"
    /\ fds' = IF act = "file" /\ fd # STDIN THEN fds \ {fd} ELSE fds
    /\ Return(GetBuffer)
    /\ UNCHANGED <<lists, act, load, flags, event, text, file, off, was, fd, oom>>

\* done: restore the offset if it could be told, close what the call opened.
\* close_and_restore() takes descriptor 0 for one that was not opened here.
QueryDone ==
    /\ pc = "done"
    /\ off' = IF act = "pipefd" THEN off ELSE "kept"
    /\ opened' = "none"
    /\ fds' = IF act = "file" /\ fd # STDIN THEN fds \ {fd} ELSE fds
    /\ Return(GetBuffer)
    /\ UNCHANGED <<lists, act, load, flags, event, text, file, was, fd, oom>>

QueryStep ==
    \/ NoBuffer \/ Malloc \/ FsGone \/ FsLink \/ FsReadlink \/ FsReadlinkFail
    \/ FsBadLink \/ FsGoodLink \/ FsSpecial \/ FsPass \/ OpenFile
    \/ OpenFileFail \/ Unreadable \/ ReadFail \/ Read \/ Classify \/ QueryDone

\* Somebody else removes, creates or replaces the named file.
FileChanges ==
    /\ pc \in {"malloc", "fsmagic", "readlink", "stat", "open", "restat"} /\ act = "file"
    /\ Cardinality(was) <= ChangesMax
    /\ file' \in Kinds \ {file}
    /\ was' = was \cup {file'}
    /\ UNCHANGED <<pc, lists, act, load, flags, event, text, opened, off, files, oom, ret>>

-----------------------------------------------------------------------------

Calls ==
    \/ Open \/ Close \/ SetFlags \/ NoBuffers
    \/ \E a \in Actions : \E n \in 0..PathMax :
          (a = "BUFFERS" => n > 0) /\ LoadEnter(a, n)
    \/ \E q \in Queries : NotLoaded(q) \/ QueryEnter(q)

\* The process is gone.
Crashed == pc = "crashed" /\ UNCHANGED vars

Next == Calls \/ LoadStep \/ QueryStep \/ FileChanges \/ Crashed

\* A call in progress goes on; nobody has to call, and no file to change.
Spec == Init /\ [][Next]_vars /\ WF_vars(LoadStep) /\ WF_vars(QueryStep)

-----------------------------------------------------------------------------
(* Properties.                                                             *)

Pcs == {"idle", "fresh", "copy", "elems", "malloc", "fsmagic", "readlink", "stat",
        "open", "restat", "read", "classify", "done", "crashed"}

Words == {"cannot open", "special", "link", "broken link", "unreadable link",
          "unreadable", "content"}

\* The type of the cookie and of the call in progress.
TypeOK ==
    /\ pc \in Pcs
    /\ ms \in {"NULL", "open"}
    /\ heads \subseteq Sets
    /\ mlist \in [Sets -> SUBSET Maps]
    /\ live \subseteq Maps
    /\ act \in Actions \cup Queries
    /\ left \in 0..PathMax
    /\ errs \in {-1, 0}
    /\ flags \in SUBSET Flags
    /\ event \in {"none", "HAD_ERR"}
    /\ text \subseteq Words
    /\ file \in Kinds
    /\ opened \in Kinds \cup {"none"}
    /\ off \in {"kept", "moved"}
    /\ was \subseteq Kinds
    /\ fds \subseteq {STDIN, OTHER_FD} /\ fd \in {STDIN, OTHER_FD}
    /\ oom \subseteq Sites
    /\ ret \in {"none", "refused", "loaded", "failed", "NULL", "answer"}

\* Whatever loads, failed loads and closes came before, a query that gets
\* past file_reset() finds both lists, with the same maps in both, and none
\* of them unmapped.
DatabaseUsable ==
    0 \in heads => 1 \in heads /\ mlist[0] = mlist[1] /\ mlist[0] \subseteq live

\* Between calls every map is owned by an entry of mlist[0], so that
\* mlist_free() will unmap it, except the one that buffer_apprentice() loses
\* when its first add_mlist() fails.
NoMapLeaked ==
    pc = "idle" /\ "buf" \notin oom => live = mlist[0]

\* add_mlist() is never given a list that is gone, as long as no add_mlist()
\* to mlist[1] has failed.
NoNullDereference == pc = "crashed" => "add1" \in oom

\* A load that returns -1 leaves no database behind, unless it could not
\* even copy the path; one that returns 0 leaves one, unless an add_mlist()
\* to mlist[1] failed in it.
LoadSaysSo ==
    /\ ret = "failed" => 0 \notin heads \/ "dup" \in oom
    /\ ret = "loaded" => 0 \in heads \/ "add1" \in oom

\* Between calls no file that magic_file() opened is open, except one that
\* open() put in the place of a standard input the caller had closed: that one
\* is never closed, and as it takes the place, there is only one of them.
\* magic_descriptor() leaves a seekable descriptor where it was.  (On every
\* path through file_or_fd().)
CallerFilesKept ==
    pc = "idle" => /\ fds \subseteq {STDIN}
                   /\ act = "fd" => off = "kept"

\* What may be said of a file of each kind.
Fits == [gone |-> {"cannot open"}, badlink |-> {"broken link", "link"},
         link |-> {"link", "content"}, dir |-> {"special"},
         device |-> {"special", "content"},
         fifo |-> {"special", "unreadable", "content"}, unreadable |-> {"unreadable"},
         regular |-> {"content"}]

\* It was true of what the name referred to at some moment of the query.
WasTrue(x) == \E k \in was : x \in Fits[k]

\* It is put together from two system calls that saw the name refer to
\* different things, and may never have been true: open() found nothing and
\* stat() something; the link was gone when it was followed; it was no link any
\* more when it was read.
TwoLooks(x) ==
    \/ x = "unreadable" /\ was \cap {"gone", "badlink"} # {} /\ was \ {"gone", "badlink"} # {}
    \/ x = "broken link" /\ "link" \in was /\ "gone" \in was
    \/ x = "unreadable link" /\ was \cap Links # {} /\ was \ Links # {}

\* All that magic_file() says of a file was true of it at some moment of the
\* call, but for three sayings that join what two system calls saw; of a file
\* that does not change under it, it says one thing only, which is true.
AnswerFits ==
    pc = "idle" /\ ret = "answer" /\ act = "file"
      => /\ \A x \in text : WasTrue(x) \/ TwoLooks(x)
         /\ was = {file} => \E x \in text : text = {x} /\ WasTrue(x)

\* Every call returns.
Returns == [](pc # "idle" => <>(pc \in {"idle", "crashed"}))

\* "magic_file() returns a textual description ... or NULL if an error
\* occurred", and magic_error() "NULL if there was no error".
NullHasReason == ret = "NULL" => event = "HAD_ERR"
=============================================================================
