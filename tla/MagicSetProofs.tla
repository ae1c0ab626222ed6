---------------------------- MODULE MagicSetProofs ----------------------------
(***************************************************************************)
(* Safety of the life of a cookie, for any maps, paths and flag sets, with *)
(* and without failing allocations.                                        *)
(***************************************************************************)
EXTENDS MagicSet, TLAPS

USE BoundsAssumption, FlagSetsAssumption, OomAssumption
DEF BoundsAssumption, FlagSetsAssumption, OomAssumption

\* A path element less is still within the bound.
LEMMA OneLess == ASSUME NEW n \in 0..PathMax, n > 0 PROVE n - 1 \in 0..PathMax
OBVIOUS

\* The empty path is within the bound.
LEMMA ZeroFits == 0 \in 0..PathMax
BY BoundsAssumption DEF BoundsAssumption

\* A step that changes nothing keeps the types.
LEMMA Stutter == ASSUME TypeOK, UNCHANGED vars PROVE TypeOK'
BY DEF TypeOK, vars, lists, load, query, files

\* The cookie and the call in progress are well typed.
THEOREM TypeInvariant == Spec => []TypeOK
<1>1. Init => TypeOK
  BY DEF Init, TypeOK, Pcs, Sets, Actions, Kinds, Words, STDIN, OTHER_FD
<1>2. TypeOK /\ [Next]_vars => TypeOK'
  <2> SUFFICES ASSUME TypeOK, [Next]_vars PROVE TypeOK'
    OBVIOUS
  <2> USE DEF TypeOK, Pcs, Sets, lists, load, query, files, Goto, Return, NoMemory, Error,
              Sites, MlistFreeAll, ElementFailed, STDIN, OTHER_FD
  <2>1. CASE Calls
    <3>1. CASE Open \/ Close \/ SetFlags \/ NoBuffers
      BY <3>1 DEF Open, Close, SetFlags, NoBuffers, Actions
    <3>2. ASSUME NEW a \in Actions, NEW n \in 0..PathMax, LoadEnter(a, n)
          PROVE  TypeOK'
      BY <3>2 DEF LoadEnter
    <3>3. ASSUME NEW q \in Queries, NotLoaded(q) \/ QueryEnter(q) PROVE TypeOK'
      BY <3>3 DEF NotLoaded, QueryEnter
    <3> QED
      BY <2>1, <3>1, <3>2, <3>3 DEF Calls
  <2>2. CASE LoadStep
    <3>1. CASE DupFail \/ FreshLists \/ CopyPath
      BY <3>1 DEF DupFail, FreshLists, CopyPath
    <3>11. CASE FreshListFail0 \/ FreshListFail1
      BY <3>11 DEF FreshListFail0, FreshListFail1
    <3>2. left > 0 => left - 1 \in 0..PathMax
      BY OneLess
    <3>3. CASE EmptyElement
      BY <3>3, ZeroFits DEF EmptyElement
    <3>9. CASE NullDereference
      BY <3>9 DEF NullDereference
    <3>10. CASE LoadDone
      BY <3>10 DEF LoadDone
    <3>4. CASE NoMap
      <4>1. event' \in {"none", "HAD_ERR"}
        BY <3>4 DEF NoMap
      <4> QED
        BY <3>2, <3>4, <4>1 DEF NoMap
    <3>5. CASE Compile
      BY <3>2, <3>5 DEF Compile
    <3>6. ASSUME NEW m \in Maps, AddBoth(m) PROVE TypeOK'
      BY <3>2, <3>6 DEF AddBoth
    <3>7. ASSUME NEW m \in Maps, AddFail0(m) PROVE TypeOK'
      BY <3>2, <3>7 DEF AddFail0
    <3>8. ASSUME NEW m \in Maps, AddFail1(m) PROVE TypeOK'
      BY <3>2, <3>8 DEF AddFail1
    <3> QED
      BY <2>2, <3>1, <3>3, <3>4, <3>5, <3>6, <3>7, <3>8, <3>9, <3>10, <3>11
      DEF LoadStep
  <2>3. CASE QueryStep
    <3>1. CASE NoBuffer
      BY <3>1 DEF NoBuffer
    <3>4. CASE Malloc
      <4>1. opened' \in {"regular", "fifo", "none"}
        BY <3>4 DEF Malloc
      <4>2. opened' \in Kinds \cup {"none"}
        BY <4>1 DEF Kinds
      <4> QED
        BY ZenonT(30), <3>4, <4>2 DEF Malloc
    <3>2. CASE FsGone
      BY ZenonT(30), <3>2 DEF FsGone, Words
    <3>8. CASE FsSpecial \/ FsPass
      BY ZenonT(30), <3>8 DEF FsSpecial, FsPass, FsPrints, Words
    <3>5. CASE FsLink \/ FsReadlink
      BY ZenonT(30), <3>5 DEF FsLink, FsReadlink
    <3>11. CASE FsReadlinkFail
      BY ZenonT(30), <3>11 DEF FsReadlinkFail, FsSays, Words
    <3>12. CASE FsBadLink \/ FsGoodLink
      BY ZenonT(30), <3>12 DEF FsBadLink, FsGoodLink, FsSays, Words
    <3>6. CASE OpenFile
      <4>1. Lowest \in {STDIN, OTHER_FD}
        BY DEF Lowest
      <4> QED
        BY ZenonT(30), <3>6, <4>1 DEF OpenFile
    <3>7. CASE QueryDone
      <4>1. fds' \subseteq fds /\ fd' = fd
        BY <3>7 DEF QueryDone
      <4> QED
        BY ZenonT(30), <3>7, <4>1 DEF QueryDone, GetBuffer
    <3>3. CASE OpenFileFail \/ Unreadable
      BY ZenonT(30), <3>3 DEF OpenFileFail, Unreadable, Words
    <3>9. CASE ReadFail \/ Read
      BY ZenonT(30), <3>9 DEF ReadFail, Read, Words
    <3>10. CASE Classify
      BY ZenonT(30), <3>10 DEF Classify, Words
    <3> QED
      BY <2>3, <3>1, <3>2, <3>3, <3>4, <3>5, <3>6, <3>7, <3>8, <3>9, <3>10,
         <3>11, <3>12 DEF QueryStep
  <2>4. CASE FileChanges
    BY <2>4 DEF FileChanges
  <2>5. CASE UNCHANGED vars
    BY <2>5, Stutter
  <2> QED
    BY <2>1, <2>2, <2>3, <2>4, <2>5 DEF Next, Crashed
<1> QED
  BY <1>1, <1>2, PTL DEF Spec

-----------------------------------------------------------------------------
(* The lists and the maps.                                                 *)

\* What holds of the lists at every point of every call: a query's guard
\* (mlist[0] # NULL) speaks for both lists, and mlist[0] owns the live maps.
Lists ==
    /\ DatabaseUsable
    /\ 0 \notin heads => mlist[0] = {}
    /\ ms = "NULL" => 0 \notin heads
    /\ "buf" \notin oom => live = mlist[0]

\* What a load in progress knows: it has a cookie, it has returned nothing,
\* and once the lists are replaced only a failed add_mlist() removes them.
Loading ==
    /\ pc # "idle" => ms = "open" /\ ret = "none"
    /\ pc = "copy" => 0 \in heads
    /\ pc = "elems" => 0 \in heads \/ "add1" \in oom
    /\ NoNullDereference

\* The inductive invariant.
Database == TypeOK /\ Lists /\ Loading /\ LoadSaysSo

\* No action breaks the invariant.
LEMMA DatabaseStep == ASSUME Database, [Next]_vars, TypeOK' PROVE Database'
<1> USE DEF Database, TypeOK, Lists, DatabaseUsable, Loading, NoNullDereference,
            LoadSaysSo, Sets, lists, load, query, files, Goto, Return, NoMemory, Error, MlistFreeAll, ElementFailed
<1>1. CASE Open
  BY <1>1 DEF Open
<1>2. CASE Close
  BY <1>2 DEF Close
<1>3. CASE SetFlags \/ NoBuffers
  BY <1>3 DEF SetFlags, NoBuffers
<1>4. ASSUME NEW a \in Actions, NEW n \in 0..PathMax, LoadEnter(a, n)
      PROVE  Database'
  BY <1>4 DEF LoadEnter
<1>5. ASSUME NEW q \in Queries, NotLoaded(q) \/ QueryEnter(q) PROVE Database'
  BY <1>5 DEF NotLoaded, QueryEnter
<1>6. CASE DupFail
  BY <1>6 DEF DupFail
<1>7. CASE FreshLists
  BY <1>7 DEF FreshLists
<1>8. CASE FreshListFail0
  BY ZenonT(30), <1>8 DEF FreshListFail0
<1>9. CASE FreshListFail1
  BY <1>9 DEF FreshListFail1
<1>10. CASE CopyPath \/ EmptyElement \/ Compile \/ NullDereference
  BY <1>10 DEF CopyPath, EmptyElement, Compile, NullDereference
<1>11. CASE NoMap
  BY <1>11 DEF NoMap
<1>12. CASE LoadDone
  BY <1>12 DEF LoadDone
<1>13. ASSUME NEW m \in Maps, AddBoth(m) PROVE Database'
  BY <1>13 DEF AddBoth
<1>14. ASSUME NEW m \in Maps, AddFail0(m) PROVE Database'
  BY <1>14 DEF AddFail0, Fresh
<1>15. ASSUME NEW m \in Maps, AddFail1(m) PROVE Database'
  BY <1>15 DEF AddFail1
<1>16. CASE QueryStep \/ FileChanges
  <2>1. CASE NoBuffer \/ Malloc \/ FsGone \/ FsSpecial \/ FsPass
    BY <2>1 DEF NoBuffer, Malloc, FsGone, FsSpecial, FsPass
  <2>5. CASE FsLink \/ FsReadlink \/ FsReadlinkFail \/ FsBadLink \/ FsGoodLink
    BY <2>5 DEF FsLink, FsReadlink, FsReadlinkFail, FsBadLink, FsGoodLink, FsSays
  <2>2. CASE OpenFile \/ OpenFileFail \/ Unreadable \/ ReadFail \/ Read \/ Classify
    BY <2>2 DEF OpenFile, OpenFileFail, Unreadable, ReadFail, Read, Classify
  <2>3. CASE QueryDone
    BY <2>3 DEF QueryDone, GetBuffer
  <2>4. CASE FileChanges
    BY <2>4 DEF FileChanges
  <2> QED
    BY <1>16, <2>1, <2>2, <2>3, <2>4, <2>5 DEF QueryStep
<1>17. CASE UNCHANGED vars
  BY <1>17 DEF vars
<1> QED
  BY <1>1, <1>2, <1>3, <1>4, <1>5, <1>6, <1>7, <1>8, <1>9, <1>10, <1>11, <1>12,
     <1>13, <1>14, <1>15, <1>16, <1>17
  DEF Next, Calls, LoadStep, Crashed

\* The inductive invariant holds throughout.
LEMMA DatabaseInvariant == Spec => []Database
<1>1. Init => Database
  BY DEF Init, Database, TypeOK, Pcs, Sets, Actions, Kinds, Words, STDIN, OTHER_FD, Lists, DatabaseUsable,
         Loading, NoNullDereference, LoadSaysSo
<1> QED
  BY <1>1, DatabaseStep, TypeInvariant, PTL DEF Spec

\* After any sequence of loads, failed loads, compiles and closes, a query
\* that gets past file_reset() has two equal lists of live maps.
THEOREM DatabaseIsUsable == Spec => []DatabaseUsable
BY DatabaseInvariant, PTL DEF Database, Lists

\* Between calls no map is lost, as long as buffer_apprentice() has not
\* failed to enter one in mlist[0].
THEOREM MapsOwned == Spec => []NoMapLeaked
<1>1. Database => NoMapLeaked
  BY DEF Database, Lists, NoMapLeaked
<1> QED
  BY <1>1, DatabaseInvariant, PTL

\* Only a failed add_mlist() to mlist[1] lets a load follow a NULL list.
THEOREM ListsThere == Spec => []NoNullDereference
BY DatabaseInvariant, PTL DEF Database, Loading

\* What a load returns tells whether the cookie has a database.
THEOREM LoadTellsTruth == Spec => []LoadSaysSo
BY DatabaseInvariant, PTL DEF Database

-----------------------------------------------------------------------------
(* The caller's files.                                                     *)

\* What is open at each point of a call: nothing but STDIN, until open(), and then the one
\* descriptor it gave; a query that has not reached its read() has moved nothing.
Query ==
    /\ CallerFilesKept
    /\ pc \notin {"read", "classify", "done"} => fds \subseteq {STDIN}
    /\ pc \in {"read", "classify", "done"} => fds \subseteq {STDIN} \/ (act = "file" /\ fd = OTHER_FD)
    /\ fds \subseteq {STDIN, OTHER_FD}
    /\ pc = "malloc" => opened = "none" /\ off = "kept"
    /\ pc \in {"fresh", "copy", "elems"} => act \in Actions
    /\ pc \in {"fsmagic", "readlink", "stat", "open", "restat"} => act = "file"

\* Calls and loads open no file, nor does a query before its open().
LEMMA QuerySame ==
    ASSUME Query, fds' = fds, fd' = fd, act' = act, pc' # "malloc",
           pc \notin {"idle", "read", "classify", "done", "fresh", "copy", "elems"},
           pc' = "idle" => act = "file" \/ off' = "kept",
           pc' \in {"fsmagic", "readlink", "stat", "open", "restat"} => act = "file",
           pc' \notin {"fresh", "copy", "elems"}
    PROVE  Query'
BY DEF Query, CallerFilesKept

\* No step breaks that.
LEMMA QueryInvariant == Spec => []Query
<1> USE DEF Query, CallerFilesKept
<1>1. Init => Query
  BY DEF Init, Actions
<1>2. Query /\ [Next]_vars => Query'
  <2> SUFFICES ASSUME Query, [Next]_vars PROVE Query'
    OBVIOUS
  <2> USE DEF lists, load, query, files, Goto, Return, ElementFailed, Actions
  <2>1. CASE Calls
    BY <2>1 DEF Calls, Open, Close, SetFlags, NoBuffers, LoadEnter, NotLoaded, QueryEnter,
                Queries
  <2>2. CASE LoadStep
    <3>1. CASE DupFail \/ FreshLists \/ FreshListFail0 \/ FreshListFail1 \/ CopyPath
      BY <3>1 DEF DupFail, FreshLists, FreshListFail0, FreshListFail1, CopyPath
    <3>2. CASE EmptyElement \/ NoMap \/ Compile \/ NullDereference \/ LoadDone
      BY <3>2 DEF EmptyElement, NoMap, Compile, NullDereference, LoadDone
    <3>3. ASSUME NEW m \in Maps, AddBoth(m) \/ AddFail0(m) \/ AddFail1(m) PROVE Query'
      BY <3>3 DEF AddBoth, AddFail0, AddFail1
    <3> QED
      BY <2>2, <3>1, <3>2, <3>3 DEF LoadStep
  <2>3. CASE QueryStep
    <3>1. CASE NoBuffer \/ Malloc
      BY <3>1 DEF NoBuffer, Malloc
    <3>2. CASE FsGone \/ FsSpecial \/ FsPass
      BY <3>2, QuerySame DEF FsGone, FsSpecial, FsPass
    <3>3. CASE FsLink \/ FsReadlink \/ FsReadlinkFail \/ FsBadLink \/ FsGoodLink
      BY <3>3, QuerySame DEF FsLink, FsReadlink, FsReadlinkFail, FsBadLink, FsGoodLink, FsSays
    <3>4. CASE OpenFileFail \/ Unreadable
      BY <3>4, QuerySame DEF OpenFileFail, Unreadable
    <3>5. CASE OpenFile
      <4>1. pc = "open" /\ act = "file" /\ fds \subseteq {STDIN}
        BY <3>5 DEF OpenFile
      <4>2. CASE STDIN \in fds
        BY <3>5, <4>1, <4>2 DEF OpenFile, Lowest
      <4>3. CASE STDIN \notin fds
        BY <3>5, <4>1, <4>3 DEF OpenFile, Lowest
      <4> QED
        BY <4>2, <4>3
    <3>6. CASE ReadFail \/ Read \/ Classify
      BY <3>6 DEF ReadFail, Read, Classify
    <3>7. CASE QueryDone
      <4>1. CASE act = "file" /\ fd # STDIN
        BY <3>7, <4>1 DEF QueryDone
      <4>2. CASE act # "file" \/ fd = STDIN
        BY <3>7, <4>2 DEF QueryDone, STDIN, OTHER_FD
      <4> QED
        BY <4>1, <4>2
    <3> QED
      BY <2>3, <3>1, <3>2, <3>3, <3>4, <3>5, <3>6, <3>7 DEF QueryStep
  <2>4. CASE FileChanges \/ UNCHANGED vars
    BY <2>4 DEF FileChanges, vars
  <2> QED
    BY <2>1, <2>2, <2>3, <2>4 DEF Next, Crashed
<1> QED
  BY <1>1, <1>2, PTL DEF Spec

\* Every path through file_or_fd() closes what it opened, unless it was opened as
\* descriptor 0, and leaves the offset of a seekable descriptor as it was.
THEOREM FilesKept == Spec => []CallerFilesKept
BY QueryInvariant, PTL DEF Query

-----------------------------------------------------------------------------
(* What is said of a named file.                                           *)

\* While the query runs, what the name refers to is among all it has referred to.
Referred ==
    pc \in {"malloc", "fsmagic", "readlink", "stat", "open", "restat", "read", "classify", "done"}
        => file \in was /\ was \subseteq Kinds
\* Before the last word nothing was said but that the file is gone.
Begun ==
    /\ pc \in {"malloc", "fsmagic", "readlink", "stat"} => text = {}
    /\ pc \in {"open", "restat", "read", "classify"} => text = {} \/ (text = {"cannot open"} /\ "gone" \in was)
\* What lstat() and open() have seen.
Seen ==
    /\ pc \in {"readlink", "stat"} => was \cap Links # {}
    /\ pc = "restat" => was \cap {"gone", "badlink", "unreadable"} # {}
\* What is open is something that the name referred to and that open() lets through.
Opened ==
    /\ pc \in {"read", "classify"} => opened \in was /\ opened \in {"link", "dir", "fifo", "device", "regular"}
    /\ pc = "classify" => opened # "dir"
\* With the last word, all is true, and a file that never changed is called one thing.
Ended ==
    /\ pc = "done" \/ (pc = "idle" /\ ret = "answer") =>
          /\ \A x \in text : WasTrue(x) \/ TwoLooks(x)
          /\ was = {file} => text = {} \/ \E x \in text : text = {x} /\ WasTrue(x)
    /\ pc = "idle" /\ ret = "answer" => text # {}
Saying == act = "file" => Referred /\ Begun /\ Seen /\ Opened /\ Ended

\* A call keeps that: it begins with nothing said, or leaves what was said alone.
LEMMA SayingCalls == ASSUME TypeOK, Saying, Calls PROVE Saying'
<1> USE DEF Saying, Referred, Begun, Seen, Opened, Ended, lists, load, query, files, Goto, Return
<1>1. CASE Open \/ Close
  BY <1>1 DEF Open, Close
<1>2. CASE SetFlags \/ NoBuffers
  BY <1>2 DEF SetFlags, NoBuffers, WasTrue, TwoLooks
<1>3. ASSUME NEW a \in Actions, NEW n \in 0..PathMax, LoadEnter(a, n) PROVE Saying'
  BY <1>3 DEF LoadEnter, Actions
<1>4. ASSUME NEW q \in Queries, NotLoaded(q) PROVE Saying'
  BY <1>4 DEF NotLoaded
<1>5. ASSUME NEW q \in Queries, QueryEnter(q) PROVE Saying'
  BY <1>5 DEF QueryEnter
<1> QED
  BY <1>1, <1>2, <1>3, <1>4, <1>5 DEF Calls

\* So does a load, which says nothing of files.
LEMMA SayingLoads == ASSUME TypeOK, Query, Saying, LoadStep PROVE Saying'
<1> SUFFICES act' # "file"
  BY DEF Saying
<1>1. pc \in {"fresh", "copy", "elems"} /\ act' = act
  BY DEF LoadStep, DupFail, FreshLists, FreshListFail0, FreshListFail1, CopyPath, EmptyElement, NoMap,
         Compile, NullDereference, LoadDone, AddBoth, AddFail0, AddFail1
<1> QED
  BY <1>1 DEF Query, Actions

\* What is true of each kind of file: the sayings that the steps of a query need.
LEMMA FitsOf ==
    /\ "cannot open" \in Fits["gone"]
    /\ "broken link" \in Fits["badlink"] /\ "link" \in Fits["badlink"] /\ "link" \in Fits["link"]
    /\ "special" \in Fits["dir"] /\ "special" \in Fits["fifo"] /\ "special" \in Fits["device"]
    /\ "unreadable" \in Fits["unreadable"] /\ "unreadable" \in Fits["fifo"]
    /\ "content" \in Fits["fifo"] /\ "content" \in Fits["device"] /\ "content" \in Fits["regular"]
    /\ "content" \in Fits["link"]
BY DEF Fits

\* What two looks have joined is said of a name that has changed.
LEMMA TwoLooksChanged == ASSUME NEW x, TwoLooks(x) PROVE was # {file}
<1> SUFFICES ASSUME was = {file} PROVE FALSE
  OBVIOUS
<1> QED
  BY DEF TwoLooks

\* The steps that end a query.
Ending == /\ act = "file" /\ pc' = "done" /\ was' = was /\ file' = file
          /\ pc \in {"fsmagic", "readlink", "stat", "open", "restat", "read", "classify"}

\* A query that is at its end keeps what is known of it, if all that was said is true.
LEMMA SayingEnd ==
    ASSUME Saying, Ending,
           \A x \in text' : WasTrue(x) \/ TwoLooks(x),
           was = {file} => text' = {} \/ \E x \in text' : text' = {x} /\ WasTrue(x)
    PROVE  Saying'
<1> USE DEF Ending
<1>1. file \in was /\ was \subseteq Kinds
  BY DEF Saying, Referred
<1>2. \A x : (WasTrue(x)' <=> WasTrue(x)) /\ (TwoLooks(x)' <=> TwoLooks(x))
  BY DEF WasTrue, TwoLooks
<1>3. \A x \in text' : WasTrue(x)' \/ TwoLooks(x)'
  BY <1>2, Zenon
<1>7. was' = {file'} => text' = {} \/ \E x \in text' : text' = {x} /\ WasTrue(x)'
  BY <1>2, Zenon
<1>4. Referred' /\ Begun' /\ Seen' /\ Opened'
  BY <1>1 DEF Referred, Begun, Seen, Opened
<1>5. pc' # "idle"
  OBVIOUS
<1>6. Ended'
  BY <1>3, <1>5, <1>7, Zenon DEF Ended
<1> QED
  BY <1>4, <1>6 DEF Saying

\* A query that ends without another word has said nothing, or that something was gone.
LEMMA SayingNoMore ==
    ASSUME Saying, Ending, text' = text
    PROVE  Saying'
<1>1. text = {} \/ (text = {"cannot open"} /\ "gone" \in was)
  BY DEF Saying, Begun, Ending
<1>2. \A x \in text' : WasTrue(x)
  <2>1. CASE text = {}
    BY <2>1
  <2>2. CASE text = {"cannot open"} /\ "gone" \in was
    <3> SUFFICES ASSUME NEW x \in text' PROVE WasTrue(x)
      OBVIOUS
    <3>1. x = "cannot open"
      BY <2>2
    <3> QED
      BY <2>2, <3>1, FitsOf DEF WasTrue
  <2> QED
    BY <1>1, <2>1, <2>2
<1>3. text' = {} \/ \E x \in text' : text' = {x}
  BY <1>1
<1>4. text' = {} \/ \E x \in text' : text' = {x} /\ WasTrue(x)
  BY <1>2, <1>3
<1> QED
  BY <1>2, <1>4, SayingEnd, Zenon

\* The last word is true of something that the name referred to and that is not gone: then
\* the message for a missing file is there only if the file changed.
LEMMA SayingLast ==
    ASSUME Saying, Ending, NEW w, text' = text \cup {w},
           (\E k \in was : k # "gone" /\ w \in Fits[k]) \/ TwoLooks(w)
    PROVE  Saying'
<1>1. text = {} \/ (text = {"cannot open"} /\ "gone" \in was)
  BY DEF Saying, Begun, Ending
<1>2. \A x \in text' : WasTrue(x) \/ TwoLooks(x)
  <2> SUFFICES ASSUME NEW x \in text' PROVE WasTrue(x) \/ TwoLooks(x)
    OBVIOUS
  <2>1. CASE x = w
    BY <2>1 DEF WasTrue
  <2>2. CASE x # w
    <3>1. x = "cannot open" /\ "gone" \in was
      BY <1>1, <2>2
    <3> QED
      BY <3>1, FitsOf DEF WasTrue
  <2> QED
    BY <2>1, <2>2
<1>3. ASSUME was = {file} PROVE \E x \in text' : text' = {x} /\ WasTrue(x)
  <2>0. PICK k \in was : k # "gone" /\ w \in Fits[k]
    BY <1>3, TwoLooksChanged
  <2>1. "gone" \notin was
    BY <1>3, <2>0
  <2>2. text' = {w} /\ WasTrue(w)
    BY <1>1, <2>0, <2>1 DEF WasTrue
  <2> QED
    BY <2>2
<1> QED
  BY <1>2, <1>3, SayingEnd

\* A step of a query that is not its last, says nothing, and keeps what the calls have seen.
LEMMA SayingOn ==
    ASSUME Saying, act = "file", UNCHANGED <<was, file, text>>,
           pc \in {"malloc", "fsmagic", "readlink", "stat", "open"},
           pc' \in {"fsmagic", "readlink", "stat", "open", "restat"},
           pc' \in {"fsmagic", "readlink", "stat"} => pc \in {"malloc", "fsmagic", "readlink", "stat"},
           Seen'
    PROVE  Saying'
<1>1. Referred' /\ Begun'
  BY DEF Saying, Referred, Begun
<1>2. Opened' /\ Ended'
  BY DEF Opened, Ended
<1> QED
  BY <1>1, <1>2 DEF Saying

\* Each look at the name says what is true of it, or joins it to what was seen before:
LEMMA SayingLooks ==
    ASSUME TypeOK, Saying, act = "file",
           FsGone \/ FsLink \/ FsReadlink \/ FsReadlinkFail \/ FsBadLink \/ FsGoodLink \/ FsSpecial \/ FsPass
    PROVE  Saying'
<1> USE DEF query, Goto
<1>0. pc \in {"fsmagic", "readlink", "stat"} /\ UNCHANGED <<was, file, act>>
  BY DEF FsGone, FsLink, FsReadlink, FsReadlinkFail, FsBadLink, FsGoodLink, FsSpecial, FsPass
<1>13. Referred /\ Begun /\ Seen /\ Opened /\ Ended
  BY DEF Saying
<1>14. file \in was /\ was \subseteq Kinds /\ text = {}
  BY <1>0, <1>13 DEF Referred, Begun
<1>1. CASE FsGone
  <2>1. /\ pc = "fsmagic" /\ file = "gone"
        /\ (pc' = "done" /\ text' = text) \/ (pc' = "open" /\ text' = text \cup {"cannot open"})
    BY <1>1 DEF FsGone
  <2>2. CASE pc' = "done" /\ text' = text
    BY <1>0, <2>1, <2>2, SayingNoMore DEF Ending
  <2>3. CASE pc' = "open" /\ text' = text \cup {"cannot open"}
    <3>2. text' = {"cannot open"}
      BY <1>14, <2>3
    <3> QED
      BY <1>0, <1>14, <2>1, <2>3, <3>2 DEF Saying, Referred, Begun, Seen, Opened, Ended
  <2> QED
    BY <2>1, <2>2, <2>3
<1>2. CASE FsLink \/ FsReadlink
  <2>1. /\ pc \in {"fsmagic", "readlink"} /\ pc' \in {"readlink", "stat"} /\ text' = text
        /\ file \in Links
    BY <1>2 DEF FsLink, FsReadlink
  <2>2. Seen'
    BY <1>0, <1>14, <2>1 DEF Seen
  <2> QED
    BY <1>0, <2>1, <2>2, SayingOn
<1>3. ASSUME NEW w, FsSays(w), pc \in {"readlink", "stat"},
             (\E k \in was : k # "gone" /\ w \in Fits[k]) \/ TwoLooks(w)
      PROVE  Saying'
  <2>1. (text' = text \cup {w} /\ pc' = "done") \/ (text' = text /\ pc' = "open")
    BY <1>3 DEF FsSays
  <2>2. CASE text' = text \cup {w} /\ pc' = "done"
    BY <1>0, <1>3, <2>2, SayingLast DEF Ending
  <2>3. CASE text' = text /\ pc' = "open"
    <3>1. Seen'
      BY <2>3 DEF Seen
    <3> QED
      BY <1>0, <2>3, <3>1, SayingOn
  <2> QED
    BY <2>1, <2>2, <2>3
<1>4. CASE FsReadlinkFail
  <2>1. /\ pc = "readlink" /\ file \notin Links
        /\ (pc' = "done" /\ text' = text) \/ FsSays("unreadable link")
    BY <1>4 DEF FsReadlinkFail
  <2>2. was \cap Links # {} /\ was \ Links # {}
    BY <1>13, <1>14, <2>1 DEF Seen
  <2>3. TwoLooks("unreadable link")
    BY <2>2 DEF TwoLooks
  <2>4. CASE pc' = "done" /\ text' = text
    BY <1>0, <2>1, <2>4, SayingNoMore DEF Ending
  <2> QED
    BY <1>3, <2>1, <2>3, <2>4
<1>5. CASE FsBadLink
  <2>1. /\ pc = "stat" /\ pc' = "done" /\ file \in {"gone", "badlink"}
        /\ text' = text \/ text' = text \cup {"broken link"}
    BY <1>5 DEF FsBadLink
  <2>2. was \cap Links # {}
    BY <1>13, <2>1 DEF Seen
  <2>3. (\E k \in was : k # "gone" /\ "broken link" \in Fits[k]) \/ TwoLooks("broken link")
    <3>1. CASE "badlink" \in was
      BY <3>1, FitsOf
    <3>2. CASE "badlink" \notin was
      BY <1>14, <2>1, <2>2, <3>2 DEF TwoLooks, Links
    <3> QED
      BY <3>1, <3>2
  <2>4. CASE text' = text
    BY <1>0, <2>1, <2>4, SayingNoMore DEF Ending
  <2>5. CASE text' = text \cup {"broken link"}
    BY <1>0, <2>1, <2>3, <2>5, SayingLast DEF Ending
  <2> QED
    BY <2>1, <2>4, <2>5
<1>6. CASE FsGoodLink
  <2>1. pc = "stat" /\ FsSays("link")
    BY <1>6 DEF FsGoodLink
  <2>2. was \cap Links # {}
    BY <1>13, <2>1 DEF Seen
  <2>3. \E k \in was : k # "gone" /\ "link" \in Fits[k]
    BY <2>2, FitsOf DEF Links
  <2> QED
    BY <1>3, <2>1, <2>3
<1>7. CASE FsSpecial
  <2>1. pc = "fsmagic" /\ pc' = "done" /\ FsMatch /\ text' = text \cup FsPrints
    BY <1>7 DEF FsSpecial
  <2>2. text' = text \/ text' = text \cup {"special"}
    BY <2>1 DEF FsPrints
  <2>4. file = "dir" \/ file = "fifo" \/ file = "device"
    BY <2>1 DEF FsMatch
  <2>5. "special" \in Fits[file] /\ file # "gone"
    BY <2>4, FitsOf
  <2>6. CASE text' = text
    BY <1>0, <2>1, <2>6, SayingNoMore DEF Ending
  <2>7. CASE text' = text \cup {"special"}
    BY <1>0, <1>14, <2>1, <2>5, <2>7, SayingLast DEF Ending
  <2> QED
    BY <2>2, <2>6, <2>7
<1>8. CASE FsPass
  <2>1. pc = "fsmagic" /\ pc' = "open" /\ text' = text
    BY <1>8 DEF FsPass
  <2>2. Seen'
    BY <2>1 DEF Seen
  <2> QED
    BY <1>0, <2>1, <2>2, SayingOn
<1> QED
  BY <1>1, <1>2, <1>4, <1>5, <1>6, <1>7, <1>8

\* so do open(), read() and the description of what was read.
LEMMA SayingReads ==
    ASSUME TypeOK, Saying, act = "file",
           OpenFile \/ OpenFileFail \/ Unreadable \/ ReadFail \/ Read \/ Classify
    PROVE  Saying'
<1> USE DEF query, Goto
<1>0. pc \in {"open", "restat", "read", "classify"} /\ UNCHANGED <<was, file, act>>
  BY DEF OpenFile, OpenFileFail, Unreadable, ReadFail, Read, Classify
<1>13. Referred /\ Begun /\ Seen /\ Opened /\ Ended
  BY DEF Saying
<1>14. file \in was /\ was \subseteq Kinds
  BY <1>0, <1>13 DEF Referred
<1>7. CASE OpenFile
  <2>1. /\ pc = "open" /\ pc' = "read" /\ text' = text /\ opened' = file
        /\ file \notin {"gone", "badlink", "unreadable"}
    BY <1>7 DEF OpenFile
  <2>2. Referred' /\ Begun' /\ Seen' /\ Ended'
    BY <1>0, <1>13, <2>1 DEF Referred, Begun, Seen, Ended
  <2>3. Opened'
    BY <1>0, <1>14, <2>1 DEF Opened, Kinds
  <2> QED
    BY <2>2, <2>3 DEF Saying
<1>8. CASE OpenFileFail
  <2>1. pc = "open" /\ pc' = "restat" /\ text' = text /\ file \in {"gone", "badlink", "unreadable"}
    BY <1>8 DEF OpenFileFail
  <2>2. Seen'
    BY <1>0, <1>14, <2>1 DEF Seen
  <2> QED
    BY <1>0, <2>1, <2>2, SayingOn
<1>9. CASE Unreadable
  <2>1. /\ pc = "restat" /\ pc' = "done"
        /\ text' = IF file \in {"gone", "badlink"} THEN text ELSE text \cup {"unreadable"}
    BY <1>9 DEF Unreadable
  <2>2. was \cap {"gone", "badlink", "unreadable"} # {}
    BY <1>13, <2>1 DEF Seen
  <2>3. CASE file \in {"gone", "badlink"}
    BY <1>0, <2>1, <2>3, SayingNoMore DEF Ending
  <2>4. CASE file \notin {"gone", "badlink"}
    <3>1. (\E k \in was : k # "gone" /\ "unreadable" \in Fits[k]) \/ TwoLooks("unreadable")
      <4>1. CASE "unreadable" \in was
        BY <4>1, FitsOf
      <4>2. CASE "unreadable" \notin was
        BY <1>14, <2>2, <2>4, <4>2 DEF TwoLooks
      <4> QED
        BY <4>1, <4>2
    <3> QED
      BY <1>0, <2>1, <2>4, <3>1, SayingLast DEF Ending
  <2> QED
    BY <2>3, <2>4
<1>10. CASE ReadFail
  <2>1. /\ pc = "read" /\ pc' = "done"
        /\ text' = text \/ (text' = text \cup {"unreadable"} /\ opened = "fifo")
    BY <1>10 DEF ReadFail
  <2>2. opened \in was
    BY <1>13, <2>1 DEF Opened
  <2>3. CASE text' = text
    BY <1>0, <2>1, <2>3, SayingNoMore DEF Ending
  <2>4. CASE text' = text \cup {"unreadable"} /\ opened = "fifo"
    <3>1. \E k \in was : k # "gone" /\ "unreadable" \in Fits[k]
      BY <2>2, <2>4, FitsOf
    <3> QED
      BY <1>0, <2>1, <2>4, <3>1, SayingLast DEF Ending
  <2> QED
    BY <2>1, <2>3, <2>4
<1>11. CASE Read
  <2>1. pc = "read" /\ pc' = "classify" /\ UNCHANGED <<text, opened>> /\ opened # "dir"
    BY <1>11 DEF Read
  <2> QED
    BY <1>0, <1>13, <2>1 DEF Saying, Referred, Begun, Seen, Opened, Ended
<1>12. CASE Classify
  <2>1. /\ pc = "classify" /\ pc' = "done"
        /\ text' = text \/ text' = text \cup {"content"}
    BY <1>12 DEF Classify
  <2>2. opened \in was /\ (opened = "link" \/ opened = "fifo" \/ opened = "device" \/ opened = "regular")
    BY <1>13, <2>1 DEF Opened
  <2>3. "content" \in Fits[opened] /\ opened # "gone"
    BY <2>2, FitsOf
  <2>4. CASE text' = text
    BY <1>0, <2>1, <2>4, SayingNoMore DEF Ending
  <2>5. CASE text' = text \cup {"content"}
    BY <1>0, <2>1, <2>2, <2>3, <2>5, SayingLast DEF Ending
  <2> QED
    BY <2>1, <2>4, <2>5
<1> QED
  BY <1>7, <1>8, <1>9, <1>10, <1>11, <1>12

\* Each step of a query keeps what is known of its words.
LEMMA SayingQueries == ASSUME TypeOK, Saying, QueryStep PROVE Saying'
<1>0. act' = act
  BY DEF QueryStep, NoBuffer, Malloc, FsGone, FsLink, FsReadlink, FsReadlinkFail, FsBadLink, FsGoodLink,
         FsSpecial, FsPass, OpenFile, OpenFileFail, Unreadable, ReadFail, Read, Classify, QueryDone
<1> SUFFICES ASSUME act = "file", act' = "file" PROVE Saying'
  BY <1>0 DEF Saying
<1> USE DEF query, Goto, Return
<1>13. Referred /\ Begun /\ Seen /\ Opened /\ Ended
  BY DEF Saying
<1>1. CASE NoBuffer
  <2>1. pc' = "idle" /\ ret' = "NULL"
    BY <1>1 DEF NoBuffer
  <2> QED
    BY <2>1 DEF Saying, Referred, Begun, Seen, Opened, Ended
<1>2. CASE Malloc
  <2>1. pc = "malloc" /\ pc' = "fsmagic" /\ UNCHANGED <<was, file, text>>
    BY <1>2 DEF Malloc
  <2>2. Seen'
    BY <2>1 DEF Seen
  <2> QED
    BY <2>1, <2>2, SayingOn
<1>12. CASE QueryDone
  <2>1. /\ pc = "done" /\ pc' = "idle" /\ UNCHANGED <<was, file, text>> /\ ret' = GetBuffer
    BY <1>12 DEF QueryDone
  <2>2. ret' = "answer" => text # {}
    BY <2>1 DEF GetBuffer
  <2>3. \A x \in text : (WasTrue(x) <=> WasTrue(x)') /\ (TwoLooks(x) <=> TwoLooks(x)')
    BY <2>1 DEF WasTrue, TwoLooks
  <2>4. Ended'
    BY <1>13, <2>1, <2>2, <2>3 DEF Ended
  <2> QED
    BY <2>1, <2>4 DEF Saying, Referred, Begun, Seen, Opened
<1> QED
  BY <1>1, <1>2, <1>12, SayingLooks, SayingReads DEF QueryStep

\* Whatever happens to the name between any two system calls of magic_file(), all that is
\* said was true at some moment of the call or joins what two of them saw, and a file left
\* alone is called one thing, which is true of it.
THEOREM AnswersFit == Spec => []AnswerFits
<1>1. Init => Saying
  BY DEF Init, Saying, Referred, Begun, Seen, Opened, Ended
<1>2. TypeOK /\ Query /\ Saying /\ [Next]_vars => Saying'
  <2> SUFFICES ASSUME TypeOK, Query, Saying, [Next]_vars PROVE Saying'
    OBVIOUS
  <2>1. CASE FileChanges
    <3>1. /\ pc \in {"malloc", "fsmagic", "readlink", "stat", "open", "restat"} /\ pc' = pc
          /\ was' = was \cup {file'} /\ text' = text /\ file' \in Kinds /\ act' = act
      BY <2>1 DEF FileChanges
    <3>2. was \subseteq was' /\ file' \in was'
      BY <3>1
    <3> QED
      BY <3>1, <3>2 DEF Saying, Referred, Begun, Seen, Opened, Ended
  <2>2. CASE UNCHANGED vars
    BY <2>2 DEF vars, lists, load, query, Saying, Referred, Begun, Seen, Opened, Ended, WasTrue, TwoLooks
  <2> QED
    BY <2>1, <2>2, SayingCalls, SayingLoads, SayingQueries DEF Next, Crashed
<1>3. Saying => AnswerFits
  BY DEF Saying, Ended, AnswerFits
<1> QED
  BY <1>1, <1>2, <1>3, TypeInvariant, QueryInvariant, PTL DEF Spec
===============================================================================
