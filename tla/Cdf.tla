---------------------------------- MODULE Cdf ----------------------------------
(***************************************************************************)
(* Compound documents: file_trycdf() (src/readcdf.c) and the reader below   *)
(* it (src/cdf.c).  The file is cut in sectors; a table, itself in sectors, *)
(* chains the sectors of a stream; the reader takes the table, the table of *)
(* short sectors, the directory, the stream of the short sectors and then   *)
(* the streams it looks for by name.                                       *)
(*                                                                         *)
(* Nothing is known of the file: a word of it is any sector number, and it  *)
(* is chosen when it is read first.  Sizes are counted in half words.       *)
(***************************************************************************)
EXTENDS Integers, Sequences, FiniteSets

CONSTANTS
    Sectors,         \* sectors the file has
    MsatLen,         \* entries of h_master_sat: 109
    MasterMax,       \* bound: sectors of the master table a header claims
    LoopLimit,       \* CDF_LOOP_LIMIT
    MemLimit,        \* CDF_MEMORY_LIMIT, in sectors
    SatLimit,        \* CDF_SAT_LIMIT, in sectors
    SectorSizes,     \* sector sizes, in half words
    DirEntries,      \* the directory entries a file may hold
    Options          \* what the caller asks for

ASSUME CdfAssumption == /\ Sectors \in Nat /\ MsatLen \in Nat \ {0} /\ MasterMax \in Nat /\ LoopLimit \in Nat \ {0}
                        /\ MemLimit \in Nat \ {0} /\ SatLimit \in Nat /\ SectorSizes \subseteq Nat \ {0}
                        /\ Options \subseteq {"plain", "mime", "encoding", "apple"}

FREE == -1
END == -2
Ids == {END, FREE} \cup (0..Sectors)     \* the last one is behind the end of the file
Names == {"root", "FileHeader", "Summary", "DocSummary", "section", "other"}
ASSUME DirAssumption == DirEntries \subseteq [name : Names, size : {"zero", "short", "long"}]

VARIABLES
    cpc,         \* where file_trycdf() is
    opt,         \* the options
    hd,          \* the header: its sector size, and until the table is built what names its sectors
    tab,         \* sat_tab and ssat_tab, as far as they were read
    tabLen,      \* their sat_len
    chain,       \* the chain that is being counted or read
    dir,         \* the directory
    sst,         \* the stream of the short sectors: its length in sectors, or -1
    scn,         \* the stream that was read last
    live,        \* blocks that are allocated
    stray,       \* history: a table or a block was used outside its bounds
    freedTwice,  \* history
    counted,     \* history: what cdf_count_chain() answered of the chain
    summary,     \* history: a well-formed summary was found
    hadError,    \* an error is recorded: nothing is printed any more
    says,        \* what was printed
    cret         \* the result

cdfVars == <<cpc, opt, hd, tab, tabLen, chain, dir, sst, scn, live, stray, freedTwice, counted,
             summary, hadError, says, cret>>

Words == hd.ss \div 2                                \* words of a sector
Entries(t) == (tabLen[t] * hd.ss) \div 2             \* maxsector
Readable(s) == s \in 0..(Sectors - 1)                \* cdf_read() of a whole sector
With(f, x, v) == [y \in DOMAIN f \cup {x} |-> IF y = x THEN v ELSE f[y]]
NoChain == [use |-> "none", t |-> "sat", start |-> END, sid |-> END, i |-> 0, n |-> 0, size |-> "zero"]
NoStream == [len |-> 0, short |-> FALSE, dirShort |-> FALSE]

\* free() of blocks, and of what is NULL.
Freed(S) == live' = live \ S /\ UNCHANGED freedTwice
FreeAgain(b) == /\ live' = live \ {b} /\ freedTwice' = (freedTwice \/ b \notin live)

\* The entry of a table, chosen when it is looked up first.
Look(t, s, v) ==
    /\ stray' = (stray \/ s \notin 0..(Entries(t) - 1))
    /\ \/ s \in DOMAIN tab[t] /\ v = tab[t][s] /\ UNCHANGED tab
       \/ s \notin DOMAIN tab[t] /\ tab' = [tab EXCEPT ![t] = With(@, s, v)]

-----------------------------------------------------------------------------
(* The sector allocation table.                                            *)

\* cdf_read_header()
ReadHeader ==
    /\ cpc = "start"
    /\ \/ cpc' = "done" /\ cret' = 0                   \* no such file, or nothing to say of it
          /\ UNCHANGED hd
       \/ /\ cpc' = "sat" /\ opt # "apple" /\ UNCHANGED cret
          /\ hd' \in [ss : SectorSizes, msat : [1..MsatLen -> Ids], nm : 0..MasterMax, mid : Ids]
    /\ UNCHANGED <<opt, tab, tabLen, chain, dir, sst, scn, live, stray, freedTwice, counted, summary, hadError, says>>

\* Entries of the header up to the first free one, and up to the first that is
\* no sector.
Counted == CHOOSE i \in 0..MsatLen : /\ \A k \in 1..i : hd.msat[k] # FREE
                                     /\ i < MsatLen => hd.msat[i + 1] = FREE
Leading == CHOOSE i \in 0..MsatLen : /\ \A k \in 1..i : hd.msat[k] >= 0
                                     /\ i < MsatLen => hd.msat[i + 1] < 0
PerSector == Words - 1      \* nsatpersec; of a sector without a word it wraps round

SatLen == IF Words = 0 THEN Counted ELSE hd.nm * PerSector + Counted

SatFails == cpc' = "default" /\ UNCHANGED <<tab, tabLen, chain, stray>>

\* cdf_read_sat(): the limits, the table and the sectors the header names.
SatHeader ==
    /\ cpc = "sat"
    /\ \/ /\ (Words = 0 /\ hd.nm > 0) \/ SatLen > SatLimit
          /\ SatFails /\ UNCHANGED live
       \/ /\ ~(Words = 0 /\ hd.nm > 0) /\ SatLen <= SatLimit
          /\ \/ SatFails /\ UNCHANGED live                            \* no memory
             \/ /\ \E k \in 1..Leading : ~Readable(hd.msat[k])
                /\ SatFails /\ UNCHANGED live                         \* out1: freed at once
             \/ /\ \A k \in 1..Leading : Readable(hd.msat[k])
                /\ stray' = (stray \/ Leading > SatLen)
                /\ cpc' = "master" /\ live' = live \cup {"sat", "msa"}
                /\ chain' = [NoChain EXCEPT !.sid = hd.mid, !.i = Leading]
                /\ UNCHANGED <<tab, tabLen>>
    /\ UNCHANGED <<opt, hd, dir, sst, scn, freedTwice, counted, summary, hadError, says, cret>>

\* One turn of the loop over the sectors of the master table; chain.n is j.  The table
\* ends at the first number that is no sector.
SatMaster ==
    LET out(k) == /\ cpc' = "ssat" /\ hd' = [hd EXCEPT !.msat = << >>, !.nm = 0, !.mid = END]
                  /\ tabLen' = [tabLen EXCEPT !["sat"] = chain.i + k]
                  /\ chain' = NoChain /\ Freed({"msa"}) /\ UNCHANGED <<tab, stray>>
        out2 == SatFails /\ Freed({"msa", "sat"}) /\ UNCHANGED hd
    IN  /\ cpc = "master"
        /\ \/ (chain.n = hd.nm \/ chain.sid < 0) /\ out(0)
           \/ /\ chain.n < hd.nm /\ chain.sid >= 0
              /\ \/ (chain.n >= LoopLimit \/ ~Readable(chain.sid)) /\ out2
                 \/ /\ chain.n < LoopLimit /\ Readable(chain.sid)
                    /\ \/ (PerSector > 0 \/ chain.i + PerSector > SatLen) /\ out2    \* unreadable, or too many
                       \/ \E k \in 0..(PerSector - 1) : chain.i + k <= SatLen /\ out(k)
                       \/ /\ chain.i + PerSector <= SatLen
                          /\ \E m \in Ids : chain' = [chain EXCEPT !.n = @ + 1, !.i = @ + PerSector, !.sid = m]
                          /\ UNCHANGED <<cpc, hd, tab, tabLen, stray, live, freedTwice>>
        /\ UNCHANGED <<opt, dir, sst, scn, counted, summary, hadError, says, cret>>

-----------------------------------------------------------------------------
(* Chains.                                                                 *)

\* The chain of a stream of some size, in the long or in the short sectors.
BeginChain(use, t, first, size) ==
    /\ chain' = [use |-> use, t |-> t, start |-> first, sid |-> first, i |-> 0, n |-> 0, size |-> size]
    /\ cpc' = "count" /\ counted' = 0

\* How the caller goes on when a chain cannot be used, and when it was read.
AfterFailure == [ssat |-> "out1", dir |-> "out2", sst |-> "out3", FileHeader |-> "summary",
                 Summary |-> "docsummary", DocSummary |-> "sections"]
AfterChain == [ssat |-> "dir", dir |-> "short", sst |-> "fileheader", FileHeader |-> "hwp",
               Summary |-> "expand", DocSummary |-> "expand"]
Block(use) == IF use \in {"ssat", "dir", "sst"} THEN use ELSE "scn"

Refuse == /\ cpc' = AfterFailure[chain.use] /\ live' = live \ {Block(chain.use), "buf"}
          /\ chain' = [NoChain EXCEPT !.use = chain.use, !.t = chain.t, !.start = chain.start]
          /\ UNCHANGED <<freedTwice, tabLen, dir, sst, scn>>

\* mutant: the sector is compared with the table only after it was looked up
CountTurnLate(v) ==
    /\ chain.sid >= 0 /\ chain.i < LoopLimit /\ chain.i < MemLimit
    /\ Look(chain.t, chain.sid, v)
    /\ chain' = [chain EXCEPT !.sid = v, !.i = @ + 1]
    /\ UNCHANGED <<cpc, counted, live, freedTwice, tabLen, dir, sst, scn>>

\* One turn of the loop of cdf_count_chain().
CountTurn(v) ==
    /\ chain.sid >= 0 /\ chain.i < LoopLimit /\ chain.i < MemLimit /\ chain.sid < Entries(chain.t)
    /\ Look(chain.t, chain.sid, v)
    /\ chain' = [chain EXCEPT !.sid = v, !.i = @ + 1]
    /\ UNCHANGED <<cpc, counted, live, freedTwice, tabLen, dir, sst, scn>>

\* Its failures: a limit, a number behind the table, or no sector at all.
CountFails ==
    /\ \/ chain.sid >= 0 /\ (chain.i >= LoopLimit \/ chain.i >= MemLimit \/ chain.sid >= Entries(chain.t))
       \/ chain.sid < 0 /\ chain.i = 0 /\ chain.start # END
    /\ counted' = -1 /\ Refuse /\ UNCHANGED <<tab, stray>>

\* The chain ends: the block is allocated, of the length that was counted.  A long
\* stream without a sector or without a byte is refused.
CountDone ==
    LET empty == chain.use \notin {"ssat", "dir"} /\ chain.t = "sat" /\ (chain.start = END \/ chain.size = "zero")
    IN  /\ chain.sid < 0 /\ (chain.i > 0 \/ chain.start = END)
        /\ counted' = chain.i
        /\ \/ Refuse                                                      \* also: no memory
           \/ /\ ~empty
              /\ cpc' = "read" /\ chain' = [chain EXCEPT !.sid = chain.start, !.n = chain.i, !.i = 0]
              /\ live' = live \cup {Block(chain.use)} \cup (IF chain.use = "dir" THEN {"buf"} ELSE {})
              /\ UNCHANGED <<freedTwice, tabLen, dir, sst, scn>>
        /\ UNCHANGED <<tab, stray>>

CountChain == /\ cpc = "count"
              /\ (\E v \in Ids : CountTurn(v)) \/ CountFails \/ CountDone
              /\ UNCHANGED <<opt, hd, summary, hadError, says, cret>>

\* The loops of cdf_read_long_sector_chain(), cdf_read_short_sector_chain(),
\* cdf_read_ssat() and cdf_read_dir(), whose loop goes by the number alone.
More == IF chain.use = "dir" THEN chain.i < chain.n ELSE chain.sid >= 0
\* cdf_read_sector(), or cdf_read_short_sector() with short sectors as long as the others.
SectorRead == IF chain.t = "sat" THEN Readable(chain.sid) ELSE chain.sid < sst

ReadTurn ==
    LET known == chain.sid \in DOMAIN tab[chain.t]
    IN  /\ More /\ (chain.use # "dir" => chain.i < LoopLimit /\ chain.i < chain.n) /\ SectorRead
        /\ stray' = (stray \/ ~known)
        /\ chain' = [chain EXCEPT !.sid = IF known THEN tab[chain.t][chain.sid] ELSE FREE, !.i = @ + 1]
        /\ UNCHANGED <<cpc, tab, counted, live, freedTwice, tabLen, dir, sst, scn>>

ReadFails ==
    /\ More /\ ((chain.use # "dir" /\ (chain.i >= LoopLimit \/ chain.i >= chain.n)) \/ ~SectorRead)
    /\ Refuse /\ UNCHANGED <<tab, stray, counted>>

ReadDone ==
    /\ ~More
    /\ cpc' = AfterChain[chain.use]
    /\ tabLen' = IF chain.use = "ssat" THEN [tabLen EXCEPT !["ssat"] = chain.n] ELSE tabLen
    /\ \/ chain.use # "dir" /\ UNCHANGED dir
       \/ chain.use = "dir" /\ dir' \in {d \in [1..(chain.n * (Words \div 2)) -> DirEntries] :
                                             ~({"zero", "short"} \subseteq {d[i].size : i \in DOMAIN d})}
    /\ sst' = IF chain.use = "sst" THEN chain.n ELSE sst
    /\ scn' = IF chain.use \in DOMAIN AfterChain \ {"ssat", "dir", "sst"}
              THEN [len |-> chain.n, short |-> chain.t = "ssat",
                    dirShort |-> chain.t = "ssat" /\ chain.size # "long"] ELSE scn
    /\ Freed({"buf"})
    /\ chain' = [NoChain EXCEPT !.use = chain.use] /\ counted' = 0
    /\ UNCHANGED <<tab, stray>>

ReadChain == /\ cpc = "read"
             /\ ReadTurn \/ ReadFails \/ ReadDone
             /\ UNCHANGED <<opt, hd, summary, hadError, says, cret>>

-----------------------------------------------------------------------------
(* The stages of file_trycdf().                                            *)

\* cdf_read_ssat() and cdf_read_dir() begin.
BeginTable ==
    /\ \/ cpc = "ssat" /\ \E s \in Ids : BeginChain("ssat", "sat", s, "long")
       \/ cpc = "dir" /\ \E s \in Ids : BeginChain("dir", "sat", s, "long")
    /\ UNCHANGED <<opt, hd, tab, tabLen, dir, sst, scn, live, stray, freedTwice, summary, hadError, says, cret>>

Find(name) == {i \in DOMAIN dir : dir[i].name = name}
FirstOf(name) == dir[CHOOSE i \in Find(name) : \A k \in Find(name) : i <= k]

\* cdf_read_short_stream(): without a root, or without its first sector, it is done
\* without.
ShortStream ==
    /\ cpc = "short"
    /\ \/ cpc' = "fileheader" /\ UNCHANGED <<chain, counted>>
       \/ Find("root") # {} /\ \E s \in 0..Sectors : BeginChain("sst", "sat", s, FirstOf("root").size)
    /\ UNCHANGED <<opt, hd, tab, tabLen, dir, sst, scn, live, stray, freedTwice, summary, hadError, says, cret>>

\* cdf_read_user_stream(), cdf_find_stream() and cdf_read_sector_chain().
UserStream(pc, name) ==
    LET short == FirstOf(name).size = "short" /\ sst >= 0
    IN  /\ cpc = pc
        /\ \/ Find(name) = {} /\ cpc' = AfterFailure[name] /\ UNCHANGED <<chain, counted>>
           \/ Find(name) # {} /\ \E s \in Ids :
                BeginChain(name, IF short THEN "ssat" ELSE "sat", s, FirstOf(name).size)
        /\ UNCHANGED <<opt, hd, tab, tabLen, dir, sst, scn, live, stray, freedTwice, summary, hadError, says, cret>>

\* file_printf(): it says nothing after an error.
Prints(what) == IF hadError THEN UNCHANGED <<hadError, says>>
                ELSE says' = says \cup {what} /\ UNCHANGED hadError
PrintFails == ~hadError /\ hadError' = TRUE /\ UNCHANGED says

\* The stream FileHeader of a Hangul document; when it cannot be printed nothing is
\* freed.
Hwp ==
    /\ cpc = "hwp"
    /\ \/ cpc' = "summary" /\ Freed({"scn"}) /\ UNCHANGED <<cret, hadError, says>>
       \/ scn.len > 0 /\ opt # "encoding" /\ Prints("hwp") /\ cret' = 1 /\ cpc' = "out5"
          /\ UNCHANGED <<live, freedTwice>>
       \/ scn.len > 0 /\ opt = "encoding" /\ cret' = 1 /\ cpc' = "out5"
          /\ UNCHANGED <<live, freedTwice, hadError, says>>
       \/ scn.len > 0 /\ opt # "encoding" /\ PrintFails /\ cret' = -1 /\ cpc' = "done"
          /\ UNCHANGED <<live, freedTwice>>
    /\ UNCHANGED <<opt, hd, tab, tabLen, chain, dir, sst, scn, stray, counted, summary>>

\* cdf_check_stream_offset(): is the end of something inside the stream?  An address
\* is where it is and how far; what lies elsewhere never is.
InStream(where, to, size) == where = "stream" /\ to <= size

\* cdf_read_property_info(): the header of the section is copied to the stack and its
\* length, from len words of the stream on, is then measured from the copy.
cdf_read_property_info(len, size) == InStream("stream", 1, size) /\ InStream("stack", len, size)

\* cdf_check_summary_info(), of a stream of which the section has some length; what
\* is printed of the properties is one thing.
Expand ==
    /\ cpc = "expand"
    /\ \E len \in 1..(scn.len + 1) :
        LET read == cdf_read_property_info(len, scn.len)
        IN  /\ summary' = (summary \/ len <= scn.len)
            /\ cpc' = IF read THEN "out5" ELSE AfterFailure[chain.use]
            /\ cret' = IF read THEN 1 ELSE cret
            /\ says' = IF read /\ opt # "encoding" THEN says \cup {"summary"} ELSE says
    /\ IF chain.use = "Summary" THEN Freed({"scn"}) ELSE UNCHANGED <<live, freedTwice>>
    /\ UNCHANGED <<opt, hd, tab, tabLen, chain, dir, sst, scn, stray, counted, hadError>>

\* cdf_file_dir_info()
Sections ==
    /\ cpc = "sections"
    /\ \/ Find("section") # {} /\ cret' = 1
          /\ IF opt = "encoding" THEN UNCHANGED <<hadError, says>> ELSE Prints("section")
       \/ Find("section") # {} /\ opt # "encoding" /\ PrintFails /\ cret' = -1
       \/ Find("section") = {} /\ cret' = -1 /\ UNCHANGED <<hadError, says>>
    /\ cpc' = "out5"
    /\ UNCHANGED <<opt, hd, tab, tabLen, chain, dir, sst, scn, live, stray, freedTwice, counted, summary>>

\* mutant: the directory is freed although reading it failed
UnwindTwice ==
    LET next == [out5 |-> "out3", out3 |-> "out2", out2 |-> "out1", out1 |-> "default"]
    IN  /\ cpc \in DOMAIN next
        /\ cpc' = next[cpc]
        /\ CASE cpc = "out5" -> Freed({"scn", "sst"})
             [] cpc = "out3" -> FreeAgain("dir")
             [] cpc = "out2" -> FreeAgain("dir")
             [] cpc = "out1" -> FreeAgain("sat")
        /\ UNCHANGED <<opt, hd, tab, tabLen, chain, dir, sst, scn, stray, counted, summary, hadError, says, cret>>

\* The labels at the end, each with what it frees before the next.
Unwind ==
    LET next == [out5 |-> "out3", out3 |-> "out2", out2 |-> "out1", out1 |-> "default"]
    IN  /\ cpc \in DOMAIN next
        /\ cpc' = next[cpc]
        /\ CASE cpc = "out5" -> Freed({"scn", "sst"})
             [] cpc = "out3" -> FreeAgain("dir")
             [] cpc = "out2" -> FreeAgain("ssat")
             [] cpc = "out1" -> FreeAgain("sat")
        /\ UNCHANGED <<opt, hd, tab, tabLen, chain, dir, sst, scn, stray, counted, summary, hadError, says, cret>>

\* The default handler, unless something was said.
Default ==
    /\ cpc = "default" /\ cpc' = "done"
    /\ \/ cret = 1 /\ UNCHANGED <<cret, hadError, says>>
       \/ /\ cret = -1
          /\ \/ cret' = 1 /\ IF opt = "encoding" THEN UNCHANGED <<hadError, says>> ELSE Prints("default")
             \/ opt # "encoding" /\ PrintFails /\ UNCHANGED cret
    /\ UNCHANGED <<opt, hd, tab, tabLen, chain, dir, sst, scn, live, stray, freedTwice, counted, summary>>

CdfInit ==
    /\ cpc = "start" /\ opt \in Options
    /\ hd = [ss |-> 1, msat |-> << >>, nm |-> 0, mid |-> END]
    /\ tab = [t \in {"sat", "ssat"} |-> << >>] /\ tabLen = [t \in {"sat", "ssat"} |-> 0]
    /\ chain = NoChain /\ dir = << >> /\ sst = -1 /\ scn = NoStream /\ live = {}
    /\ stray = FALSE /\ freedTwice = FALSE /\ counted = 0
    /\ summary = FALSE /\ hadError = FALSE /\ says = {} /\ cret = -1

CdfNext == \/ ReadHeader \/ SatHeader \/ SatMaster \/ BeginTable \/ CountChain \/ ReadChain
           \/ ShortStream \/ UserStream("fileheader", "FileHeader") \/ UserStream("summary", "Summary")
           \/ UserStream("docsummary", "DocSummary") \/ Hwp \/ Expand \/ Sections \/ Unwind \/ Default
-----------------------------------------------------------------------------
(* What the reader promises.                                               *)

\* The k-th sector of the chain that begins at some sector, in what was read of a
\* table; a negative number once it has ended.
Walk(t, start) ==
    LET f[k \in 0..(LoopLimit + 1)] ==
            IF k = 0 THEN start
            ELSE IF f[k - 1] \in DOMAIN tab[t] THEN tab[t][f[k - 1]] ELSE FREE
    IN  f

\* A chain may be read when it has n sectors, no two the same, every one inside
\* the table, and then ends.
IsChain(t, start, n) ==
    LET w == Walk(t, start)
    IN  \/ start = END /\ n = 0
        \/ /\ n \in 1..LoopLimit /\ n <= MemLimit /\ w[n] < 0
           /\ \A k \in 0..(n - 1) : w[k] \in 0..(Entries(t) - 1)
           /\ \A j, k \in 0..(n - 1) : w[j] = w[k] => j = k

\* What cdf_count_chain() answers decides how much memory a stream is given and how
\* far the loops that fill it go.  Whatever the file says it is the length of a chain
\* that ends, without a sector twice, and a chain is refused only when there is no
\* such length.  The loops end exactly where the counting ended, and no table is ever
\* used outside the sectors that were read into it.
CdfChains ==
    /\ ~stray
    /\ counted > 0 => IsChain(chain.t, chain.start, counted)
    /\ counted = -1 => \A n \in 0..LoopLimit : ~IsChain(chain.t, chain.start, n)
    /\ cpc = "read" => (chain.sid < 0 <=> chain.i = chain.n)

\* Whichever step fails, file_trycdf() frees every block once and none twice, except
\* that a Hangul document that cannot be printed leaves them all.  The streams it has
\* read pass the assertion of cdf_check_stream().  The document is always claimed: the
\* answer is 0 only when it is not one, and -1 only with an error recorded.
CdfClean ==
    /\ ~freedTwice
    /\ scn.short = scn.dirShort
    /\ cpc = "done" => /\ live = {} \/ (cret = -1 /\ hadError /\ "scn" \in live)
                       /\ cret = -1 => hadError
                       /\ cret = 0 => says = {} /\ tabLen["sat"] = 0
                       /\ cret = 1 /\ opt # "encoding" /\ ~hadError => says # {}

\* A document whose summary is well formed is described from its summary.
SummarySaid == cpc = "done" /\ summary /\ opt # "encoding" /\ ~hadError => "summary" \in says
=============================================================================
