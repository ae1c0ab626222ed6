------------------------------ MODULE CdfProofs -------------------------------
(***************************************************************************)
(* Compound documents, for files of any size, with any limits, options,    *)
(* sector sizes and directories.                                           *)
(***************************************************************************)
EXTENDS MCReaders, SetInduction

Tables == {"sat", "ssat"}
Sizes == {"zero", "short", "long"}
Streams == {"FileHeader", "Summary", "DocSummary"}
Uses == {"ssat", "dir", "sst"} \cup Streams
Places == {"start", "sat", "master", "ssat", "dir", "short", "fileheader", "hwp", "summary", "docsummary",
           "expand", "sections", "count", "read", "out5", "out3", "out2", "out1", "default", "done"}

\* A table as far as it was read.
Partial == UNION {[D -> Ids] : D \in SUBSET Nat}

ChainType == [use : Uses \cup {"none"}, t : Tables, start : Ids, sid : Ids, i : Nat, n : Nat, size : Sizes]

\* The types of what the reader holds.  Before the master table is built the header is
\* one whose sectors have a word, or that has no master table.
Typed ==
    /\ cpc \in Places /\ opt \in Options
    /\ hd \in [ss : Nat \ {0}, msat : {<< >>} \cup [1..MsatLen -> Ids], nm : Nat, mid : Ids]
    /\ cpc = "sat" => hd.msat \in [1..MsatLen -> Ids]
    /\ cpc = "master" => hd.msat \in [1..MsatLen -> Ids] /\ (Words = 0 => hd.nm = 0)
    /\ tab \in [Tables -> Partial]
    /\ tabLen \in [Tables -> Nat]
    /\ chain \in ChainType
    /\ cpc \in {"count", "read"} => chain.use \in Uses
    /\ cpc = "expand" => chain.use \in {"Summary", "DocSummary"}
    /\ DOMAIN dir \subseteq Nat /\ \A i \in DOMAIN dir : dir[i] \in DirEntries
    /\ sst \in Int /\ counted \in Int

Base == {"sat", "ssat", "dir"}

\* The blocks that are allocated at each place.
Held ==
    /\ cpc \in {"start", "sat", "default"} => live = {}
    /\ cpc = "master" => live = {"sat", "msa"}
    /\ cpc \in {"ssat", "out1"} => live = {"sat"}
    /\ cpc \in {"dir", "out2"} => live = {"sat", "ssat"}
    /\ cpc \in {"short", "out3"} => live = Base
    /\ cpc \in {"fileheader", "summary", "docsummary"} => live \in {Base, Base \cup {"sst"}}
    /\ cpc \in {"hwp", "expand"} => live \in {Base \cup {"scn"}, Base \cup {"sst", "scn"}}
    /\ cpc \in {"sections", "out5"} => Base \subseteq live /\ live \subseteq Base \cup {"sst", "scn"}
    /\ cpc = "count" => /\ chain.use = "ssat" => live = {"sat"}
                        /\ chain.use = "dir" => live = {"sat", "ssat"}
                        /\ chain.use = "sst" => live = Base
                        /\ chain.use \in Streams => live \in {Base, Base \cup {"sst"}}
    /\ cpc = "read" => /\ chain.use = "ssat" => live = {"sat", "ssat"}
                       /\ chain.use = "dir" => live = Base \cup {"buf"}
                       /\ chain.use = "sst" => live = Base \cup {"sst"}
                       /\ chain.use \in Streams => live \in {Base \cup {"scn"}, Base \cup {"sst", "scn"}}

\* What was answered and printed, and that a short stream is never one the directory
\* calls long.
Answered ==
    /\ ~freedTwice
    /\ scn.short = scn.dirShort /\ (chain.t = "ssat" => chain.size # "long")
    /\ cpc # "done" => cret \in {-1, 1}
    /\ cpc = "start" => says = {} /\ tabLen["sat"] = 0 /\ cret = -1
    /\ cret = 1 /\ opt # "encoding" /\ ~hadError => says # {}
    /\ CdfClean

-----------------------------------------------------------------------------
(* Types.                                                                  *)

USE CdfAssumption, DirAssumption DEF CdfAssumption, DirAssumption

\* A step of the readers is one of the compound document reader, or none of it.
LEMMA CdfSteps == ASSUME [ReadersNext]_readersVars PROVE [CdfNext]_cdfVars
BY DEF ReadersNext, readersVars, cdfVars

\* Of a sequence of tests that hold up to some place there is such a place.
LEMMA Prefix == ASSUME NEW N \in Nat, NEW S
                PROVE  \E i \in 0..N : (\A k \in 1..i : k \in S) /\ (i < N => i + 1 \notin S)
<1> DEFINE T == {k \in 1..N : k \notin S}
<1>1. CASE T = {}
  BY <1>1
<1>2. CASE T # {}
  <2>1. T \in SUBSET Nat
    OBVIOUS
  <2>2. PICK x \in T : \A y \in T : x <= y
    BY <1>2, <2>1, Least
  <2>3. x - 1 \in 0..N /\ (x - 1) + 1 \notin S
    OBVIOUS
  <2>4. ASSUME NEW k \in 1..(x - 1) PROVE k \in S
    BY <2>2
  <2> QED BY <2>3, <2>4
<1> QED BY <1>1, <1>2

\* The entries of the header that name sectors are as many as that, and among those
\* before the first free one.
LEMMA LeadingCounted ==
    ASSUME hd.msat \in [1..MsatLen -> Ids]
    PROVE  Leading \in 0..MsatLen /\ Counted \in 0..MsatLen /\ Leading <= Counted
<1> DEFINE P(i) == /\ \A k \in 1..i : hd.msat[k] >= 0
                   /\ i < MsatLen => hd.msat[i + 1] < 0
           Q(i) == /\ \A k \in 1..i : hd.msat[k] # FREE
                   /\ i < MsatLen => hd.msat[i + 1] = FREE
<1>0. MsatLen \in Nat /\ \A k \in 1..MsatLen : hd.msat[k] \in Int
  BY DEF Ids, FREE, END
<1>1. \E i \in 0..MsatLen : P(i)
  <2> DEFINE S == {k \in 1..MsatLen : hd.msat[k] >= 0}
  <2>1. PICK i \in 0..MsatLen : (\A k \in 1..i : k \in S) /\ (i < MsatLen => i + 1 \notin S)
    <3> HIDE DEF S
    <3> QED BY <1>0, Prefix
  <2>2. P(i)
    BY <1>0, <2>1
  <2> QED BY <2>2
<1>2. \E i \in 0..MsatLen : Q(i)
  <2> DEFINE S == {k \in 1..MsatLen : hd.msat[k] # FREE}
  <2>1. PICK i \in 0..MsatLen : (\A k \in 1..i : k \in S) /\ (i < MsatLen => i + 1 \notin S)
    <3> HIDE DEF S
    <3> QED BY <1>0, Prefix
  <2>2. Q(i)
    BY <1>0, <2>1
  <2> QED BY <2>2
<1>3. Leading \in 0..MsatLen /\ P(Leading)
  BY <1>1 DEF Leading
<1>4. Counted \in 0..MsatLen /\ Q(Counted)
  BY <1>2 DEF Counted
<1>5. ASSUME Counted < Leading PROVE FALSE
  <2>1. Counted + 1 \in 1..Leading /\ Counted < MsatLen
    BY <1>3, <1>4, <1>5
  <2> QED BY <1>3, <1>4, <2>1 DEF FREE
<1> QED BY <1>3, <1>4, <1>5

\* Every entry of the directory that is found is one.
LEMMA FirstOfType ==
    ASSUME Typed, NEW name, Find(name) # {} PROVE FirstOf(name) \in DirEntries /\ FirstOf(name).size \in Sizes
<1>1. Find(name) \in SUBSET Nat /\ Find(name) \subseteq DOMAIN dir
  BY DEF Find, Typed
<1>2. \E i \in Find(name) : \A k \in Find(name) : i <= k
  BY <1>1, Least
<1>3. FirstOf(name) \in DirEntries
  BY <1>1, <1>2 DEF FirstOf, Typed
<1> QED BY <1>3 DEF Sizes

\* A table with an entry more.
LEMMA WithType == ASSUME NEW f \in Partial, NEW x \in Nat, NEW v \in Ids PROVE With(f, x, v) \in Partial
<1>1. PICK D \in SUBSET Nat : f \in [D -> Ids]
  BY DEF Partial
<1>2. D \cup {x} \in SUBSET Nat /\ With(f, x, v) \in [D \cup {x} -> Ids]
  BY <1>1 DEF With
<1> QED BY <1>2 DEF Partial

\* What a table holds is a sector number.
LEMMA PartialType == ASSUME NEW f \in Partial PROVE DOMAIN f \subseteq Nat /\ \A s \in DOMAIN f : f[s] \in Ids
<1>1. PICK D \in SUBSET Nat : f \in [D -> Ids]
  BY DEF Partial
<1> QED BY <1>1

\* A chain that is none, or that a refusal leaves.
LEMMA NoChainType ==
    /\ NoChain \in ChainType
    /\ \A u \in Uses \cup {"none"} : [NoChain EXCEPT !.use = u] \in ChainType
    /\ \A u \in Uses \cup {"none"}, t \in Tables, s \in Ids :
          [NoChain EXCEPT !.use = u, !.t = t, !.start = s] \in ChainType
    /\ \A s \in Ids, i \in Nat : [NoChain EXCEPT !.sid = s, !.i = i] \in ChainType
BY DEF NoChain, ChainType, Uses, Tables, Ids, Sizes

\* Refusing a chain keeps the types.
LEMMA RefuseType ==
    ASSUME Typed, chain.use \in Uses, Refuse PROVE chain' \in ChainType /\ cpc' \in Places \ {"sat", "master", "count", "read", "expand"}
<1>1. chain.t \in Tables /\ chain.start \in Ids
  BY DEF Typed, ChainType
<1>2. chain' = [NoChain EXCEPT !.use = chain.use, !.t = chain.t, !.start = chain.start]
  BY DEF Refuse
<1>3. cpc' \in {"out1", "out2", "out3", "summary", "docsummary", "sections"}
  BY DEF Refuse, AfterFailure, Uses, Streams
<1> QED BY <1>1, <1>2, <1>3, NoChainType DEF Places

\* A chain that begins is one.
LEMMA BeginType ==
    ASSUME NEW use \in Uses, NEW t \in Tables, NEW s \in Ids, NEW size \in Sizes, BeginChain(use, t, s, size)
    PROVE  chain' \in ChainType /\ chain'.use = use /\ chain'.t = t /\ chain'.size = size /\ chain'.start = s
           /\ chain'.sid = s /\ chain'.i = 0 /\ chain'.n = 0 /\ cpc' = "count" /\ counted' = 0
BY DEF BeginChain, ChainType

\* The loop over the master table keeps the types.
LEMMA MasterType == ASSUME Typed, SatMaster PROVE Typed'
<1> DEFINE c == chain
<1>0. /\ opt' = opt /\ dir' = dir /\ sst' = sst /\ counted' = counted
  BY DEF SatMaster
<1>1. c \in ChainType /\ c.i \in Nat /\ c.n \in Nat /\ hd.ss \in Nat \ {0} /\ hd.nm \in Nat /\ cpc = "master"
      /\ (Words = 0 => hd.nm = 0) /\ Words \in Nat
  <2>1. c \in ChainType /\ hd.ss \in Nat \ {0} /\ hd.nm \in Nat /\ cpc = "master" /\ (Words = 0 => hd.nm = 0)
    BY DEF Typed, SatMaster
  <2>2. c.i \in Nat /\ c.n \in Nat
    BY <2>1 DEF ChainType
  <2>3. Words \in Nat
    BY <2>1 DEF Words
  <2> QED BY <2>1, <2>2, <2>3
<1> DEFINE out(k) == /\ cpc' = "ssat" /\ hd' = [hd EXCEPT !.msat = << >>, !.nm = 0, !.mid = END]
                     /\ tabLen' = [tabLen EXCEPT !["sat"] = chain.i + k]
                     /\ chain' = NoChain /\ Freed({"msa"}) /\ UNCHANGED <<tab, stray>>
           out2 == SatFails /\ Freed({"msa", "sat"}) /\ UNCHANGED hd
<1>2. ASSUME NEW k \in Nat, out(k) PROVE Typed'
  <2>1. hd' \in [ss : Nat \ {0}, msat : {<< >>} \cup [1..MsatLen -> Ids], nm : Nat, mid : Ids]
    BY <1>2 DEF Typed, Ids
  <2>2. tabLen' \in [Tables -> Nat]
    <3>1. c.i + k \in Nat
      BY <1>1
    <3> QED BY <1>2, <3>1 DEF Typed
  <2> QED BY <1>0, <1>2, <2>1, <2>2, NoChainType DEF Typed, Places
<1>3. ASSUME out2 PROVE Typed'
  BY <1>0, <1>3 DEF SatFails, Typed, Places
<1>4. ASSUME NEW m \in Ids, chain.n < hd.nm, chain' = [chain EXCEPT !.n = @ + 1, !.i = @ + PerSector, !.sid = m],
             UNCHANGED <<cpc, hd, tab, tabLen, stray, live, freedTwice>>
      PROVE  Typed'
  <2>1. PerSector \in Nat
    BY <1>1, <1>4 DEF PerSector
  <2>2. c.i + PerSector \in Nat /\ c.n + 1 \in Nat
    BY <1>1, <2>1
  <2>3. \A x, y \in Nat : [c EXCEPT !.n = x, !.i = y, !.sid = m] \in ChainType
    BY <1>1 DEF ChainType
  <2>4. chain' \in ChainType
    <3> DEFINE x == c.n + 1
               y == c.i + PerSector
    <3>1. chain' = [c EXCEPT !.n = x, !.i = y, !.sid = m] /\ x \in Nat /\ y \in Nat
      BY <1>4, <2>2
    <3> HIDE DEF x, y
    <3> QED BY <2>3, <3>1
  <2>5. cpc' = "master" /\ cpc = "master" /\ Words' = Words
    BY <1>1, <1>4 DEF Words
  <2> QED BY <1>0, <1>1, <1>4, <2>4, <2>5 DEF Typed
<1>5. \/ out(0) \/ out2 \/ (\E k \in 0..(PerSector - 1) : out(k))
      \/ \E m \in Ids : /\ chain.n < hd.nm /\ chain' = [chain EXCEPT !.n = @ + 1, !.i = @ + PerSector, !.sid = m]
                        /\ UNCHANGED <<cpc, hd, tab, tabLen, stray, live, freedTwice>>
  <2>1. SatMaster
    OBVIOUS
  <2> QED BY <2>1, Zenon DEF SatMaster
<1> HIDE DEF out, out2
<1>6. \A k \in 0..(PerSector - 1) : k \in Nat
  <2>1. PerSector \in Int
    BY <1>1 DEF PerSector
  <2> QED BY <2>1
<1> QED BY <1>2, <1>3, <1>4, <1>5, <1>6

\* Counting and reading a chain keeps the types.
LEMMA CountReadType == ASSUME Typed, CountChain \/ ReadChain PROVE Typed'
<1>0. UNCHANGED <<opt, hd>> /\ cpc \in {"count", "read"}
  BY DEF CountChain, ReadChain
<1>1. chain \in ChainType /\ chain.t \in Tables /\ chain.sid \in Ids /\ chain.i \in Nat /\ chain.n \in Nat /\ chain.use \in Uses
      /\ chain.start \in Ids /\ \A t \in Tables : tab[t] \in Partial
  BY <1>0 DEF Typed, ChainType
<1>2. \A s \in Ids, i \in Nat : [chain EXCEPT !.sid = s, !.i = i] \in ChainType /\ [chain EXCEPT !.sid = s, !.i = i].use = chain.use
  BY <1>1 DEF ChainType
<1>3. ASSUME CountChain, NEW v \in Ids, CountTurn(v) PROVE Typed'
  <2>1. chain.sid \in Nat
    BY <1>1, <1>3 DEF CountTurn, Ids, END, FREE
  <2>2. tab' \in [Tables -> Partial]
    <3>1. With(tab[chain.t], chain.sid, v) \in Partial
      BY <1>1, <2>1, WithType
    <3> QED BY <1>1, <1>3, <3>1 DEF CountTurn, Look, Typed
  <2>3. chain' \in ChainType /\ chain'.use = chain.use
    <3> DEFINE x == chain.i + 1
    <3>1. x \in Nat /\ chain' = [chain EXCEPT !.sid = v, !.i = x]
      BY <1>1, <1>3 DEF CountTurn
    <3> HIDE DEF x
    <3> QED BY <1>2, <3>1
  <2> QED BY <1>0, <1>1, <1>3, <2>2, <2>3 DEF CountTurn, CountChain, Typed
<1>4. ASSUME CountFails PROVE Typed'
  BY SMTT(30), <1>0, <1>1, <1>4, RefuseType DEF CountFails, Refuse, Typed
<1>5. ASSUME CountDone PROVE Typed'
  <2>1. CASE Refuse
    BY SMTT(30), <1>0, <1>1, <1>5, <2>1, RefuseType DEF CountDone, Refuse, Typed
  <2>2. CASE ~Refuse
    <3>1. /\ cpc' = "read" /\ chain' = [chain EXCEPT !.sid = chain.start, !.n = chain.i, !.i = 0]
          /\ counted' = chain.i /\ UNCHANGED <<freedTwice, tabLen, dir, sst, scn, tab, stray>>
      BY <1>5, <2>2 DEF CountDone
    <3>2. chain' \in ChainType /\ chain'.use = chain.use
      BY <1>1, <3>1 DEF ChainType
    <3> QED BY <1>0, <1>1, <3>1, <3>2 DEF Typed, Places
  <2> QED BY <2>1, <2>2
<1>6. ASSUME ReadChain, ReadTurn PROVE Typed'
  <2> DEFINE y == IF chain.sid \in DOMAIN tab[chain.t] THEN tab[chain.t][chain.sid] ELSE FREE
             x == chain.i + 1
  <2>1. y \in Ids /\ x \in Nat /\ chain' = [chain EXCEPT !.sid = y, !.i = x]
    <3>1. chain.sid \in DOMAIN tab[chain.t] => tab[chain.t][chain.sid] \in Ids
      BY <1>1, PartialType
    <3> QED BY <1>1, <1>6, <3>1 DEF ReadTurn, Ids
  <2> HIDE DEF x, y
  <2>2. chain' \in ChainType /\ chain'.use = chain.use
    BY <1>2, <2>1
  <2> QED BY <1>0, <1>1, <1>6, <2>2 DEF ReadTurn, ReadChain, Typed
<1>7. ASSUME ReadFails PROVE Typed'
  BY <1>0, <1>1, <1>7, RefuseType DEF ReadFails, Refuse, Typed
<1>8. ASSUME ReadDone PROVE Typed'
  <2>1. cpc' \in {"dir", "short", "fileheader", "hwp", "expand"} /\ (cpc' = "expand" => chain.use \in {"Summary", "DocSummary"})
    BY <1>1, <1>8 DEF ReadDone, AfterChain, Uses, Streams
  <2>2. chain' \in ChainType /\ chain'.use = chain.use
    <3>1. chain' = [NoChain EXCEPT !.use = chain.use]
      BY <1>8 DEF ReadDone
    <3>2. chain'.use = chain.use
      BY <3>1 DEF NoChain
    <3> QED BY <1>1, <3>1, <3>2, NoChainType
  <2>3. tabLen' \in [Tables -> Nat]
    BY <1>1, <1>8 DEF ReadDone, Typed
  <2>4. DOMAIN dir' \subseteq Nat /\ \A i \in DOMAIN dir' : dir'[i] \in DirEntries
    <3>1. CASE chain.use = "dir"
      <4>1. dir' \in [1..(chain.n * (Words \div 2)) -> DirEntries]
        BY <1>8, <3>1 DEF ReadDone
      <4> DEFINE N == chain.n * (Words \div 2)
      <4> HIDE DEF N
      <4>2. dir' \in [1..N -> DirEntries]
        BY <4>1 DEF N
      <4> QED BY <4>2
    <3>2. CASE chain.use # "dir"
      BY <1>8, <3>2 DEF ReadDone, Typed
    <3> QED BY <3>1, <3>2
  <2>5. sst' \in Int /\ counted' \in Int /\ tab' = tab
    BY <1>1, <1>8 DEF ReadDone, Typed
  <2> QED BY <1>0, <2>1, <2>2, <2>3, <2>4, <2>5 DEF Typed, Places
<1> QED BY <1>3, <1>4, <1>5, <1>6, <1>7, <1>8 DEF CountChain, ReadChain

\* The types, over every step.
LEMMA TypedInductive == ASSUME Typed, [CdfNext]_cdfVars PROVE Typed'
<1>1. CASE UNCHANGED cdfVars
  BY <1>1 DEF cdfVars, Typed, Words
<1>2. CASE ReadHeader
  <2>1. CASE cpc' = "done"
    BY <1>2, <2>1 DEF ReadHeader, Typed, Places
  <2>2. CASE cpc' = "sat"
    <3>1. hd' \in [ss : SectorSizes, msat : [1..MsatLen -> Ids], nm : 0..MasterMax, mid : Ids]
      BY <1>2, <2>2 DEF ReadHeader
    <3>2. hd' \in [ss : Nat \ {0}, msat : {<< >>} \cup [1..MsatLen -> Ids], nm : Nat, mid : Ids]
          /\ hd'.msat \in [1..MsatLen -> Ids]
      <4> DEFINE M == [1..MsatLen -> Ids]
      <4>1. hd' \in [ss : SectorSizes, msat : M, nm : 0..MasterMax, mid : Ids]
        BY <3>1
      <4> HIDE DEF M
      <4>2. SectorSizes \subseteq Nat \ {0} /\ 0..MasterMax \subseteq Nat
        OBVIOUS
      <4>3. hd' \in [ss : Nat \ {0}, msat : {<< >>} \cup M, nm : Nat, mid : Ids] /\ hd'.msat \in M
        BY <4>1, <4>2
      <4> QED BY <4>3 DEF M
    <3> QED BY <1>2, <2>2, <3>2 DEF ReadHeader, Typed, Places
  <2> QED BY <1>2, <2>1, <2>2 DEF ReadHeader
<1>3. CASE SatHeader
  <2>1. CASE cpc' = "default"
    BY <1>3, <2>1 DEF SatHeader, SatFails, Typed, Places
  <2>2. CASE cpc' # "default"
    <3>1. /\ cpc = "sat" /\ cpc' = "master" /\ ~(Words = 0 /\ hd.nm > 0) /\ hd' = hd
          /\ chain' = [NoChain EXCEPT !.sid = hd.mid, !.i = Leading]
      BY <1>3, <2>2 DEF SatHeader, SatFails
    <3>2. Leading \in Nat /\ hd.mid \in Ids /\ hd.nm \in Nat
      BY <3>1, LeadingCounted DEF Typed
    <3>3. chain' \in ChainType
      BY <3>1, <3>2, NoChainType
    <3>4. Words = 0 => hd.nm = 0
      BY <3>1, <3>2
    <3>5. /\ opt' = opt /\ dir' = dir /\ sst' = sst /\ counted' = counted /\ tab' = tab /\ tabLen' = tabLen
          /\ Words' = Words
      BY <1>3, <2>2, <3>1 DEF SatHeader, SatFails, Words
    <3> QED BY <3>1, <3>3, <3>4, <3>5 DEF Typed, Places
  <2> QED BY <2>1, <2>2
<1>4. CASE SatMaster
  BY <1>4, MasterType
<1>5. CASE CountChain \/ ReadChain
  BY <1>5, CountReadType
<1>6. CASE BeginTable \/ ShortStream \/ UserStream("fileheader", "FileHeader") \/ UserStream("summary", "Summary")
           \/ UserStream("docsummary", "DocSummary")
  <2>1. UNCHANGED <<opt, hd, tab, tabLen, dir, sst>>
    BY <1>6 DEF BeginTable, ShortStream, UserStream
  <2>2. \/ /\ cpc' \in {"fileheader", "summary", "docsummary", "sections"} /\ UNCHANGED <<chain, counted>>
        \/ \E u \in Uses, t \in Tables, s \in Ids, z \in Sizes : BeginChain(u, t, s, z)
    <3>1. CASE BeginTable
      BY <3>1 DEF BeginTable, Uses, Tables, Sizes
    <3>2. CASE ShortStream
      <4>1. Find("root") # {} => FirstOf("root").size \in Sizes
        BY FirstOfType
      <4> QED BY <3>2, <4>1 DEF ShortStream, Uses, Tables, Ids
    <3>3. ASSUME NEW p, NEW name \in Streams, UserStream(p, name)
          PROVE  \/ /\ cpc' \in {"fileheader", "summary", "docsummary", "sections"} /\ UNCHANGED <<chain, counted>>
                 \/ \E u \in Uses, t \in Tables, s \in Ids, z \in Sizes : BeginChain(u, t, s, z)
      <4>1. Find(name) # {} => FirstOf(name).size \in Sizes
        BY FirstOfType
      <4>2. AfterFailure[name] \in {"summary", "docsummary", "sections"} /\ name \in Uses
        BY DEF AfterFailure, Streams, Uses
      <4> QED BY <3>3, <4>1, <4>2 DEF UserStream, Tables
    <3> QED BY <1>6, <3>1, <3>2, <3>3 DEF Streams
  <2>3. CASE /\ cpc' \in {"fileheader", "summary", "docsummary", "sections"} /\ UNCHANGED <<chain, counted>>
    BY <2>1, <2>3 DEF Typed, Places
  <2>4. ASSUME NEW u \in Uses, NEW t \in Tables, NEW s \in Ids, NEW z \in Sizes, BeginChain(u, t, s, z)
        PROVE  Typed'
    BY <2>1, <2>4, BeginType DEF Typed, Places
  <2> QED BY <2>2, <2>3, <2>4
<1>7. CASE Hwp \/ Expand \/ Sections \/ Unwind \/ Default
  <2>1. UNCHANGED <<opt, hd, tab, tabLen, chain, dir, sst, counted>>
    BY <1>7 DEF Hwp, Expand, Sections, Unwind, Default
  <2>2. cpc' \in {"summary", "docsummary", "sections", "out5", "out3", "out2", "out1", "default", "done"}
    <3>1. CASE Expand
      BY <3>1 DEF Expand, AfterFailure, Typed
    <3>2. CASE Unwind
      BY <3>2 DEF Unwind
    <3>3. CASE Hwp \/ Sections \/ Default
      BY <3>3 DEF Hwp, Sections, Default
    <3> QED BY <1>7, <3>1, <3>2, <3>3
  <2> QED BY <2>1, <2>2 DEF Typed, Places
<1> QED BY <1>1, <1>2, <1>3, <1>4, <1>5, <1>6, <1>7 DEF CdfNext

\* The types hold.
LEMMA TypedInvariant == ReadersSpec => []Typed
<1>1. ReadersInit => Typed
  <2> SUFFICES ASSUME ReadersInit PROVE Typed
    OBVIOUS
  <2>1. CdfInit
    BY DEF ReadersInit
  <2>2. << >> \in Partial
    <3>1. << >> \in [{} -> Ids]
      OBVIOUS
    <3> QED BY <3>1 DEF Partial
  <2>3. tab \in [Tables -> Partial] /\ tabLen \in [Tables -> Nat]
    BY <2>1, <2>2 DEF CdfInit, Tables
  <2>4. hd \in [ss : Nat \ {0}, msat : {<< >>} \cup [1..MsatLen -> Ids], nm : Nat, mid : Ids]
    BY <2>1 DEF CdfInit, Ids
  <2>5. DOMAIN dir = {}
    BY <2>1 DEF CdfInit
  <2>6. chain \in ChainType /\ cpc = "start" /\ opt \in Options /\ sst \in Int /\ counted \in Int
    <3>1. NoChain \in ChainType
      BY NoChainType
    <3> QED BY <2>1, <3>1 DEF CdfInit
  <2> QED BY <2>3, <2>4, <2>5, <2>6 DEF Typed, Places
<1>2. Typed /\ [ReadersNext]_readersVars => Typed'
  BY CdfSteps, TypedInductive
<1> QED BY <1>1, <1>2, PTL DEF ReadersSpec

-----------------------------------------------------------------------------
(* Blocks and answers.                                                     *)

\* Where a chain leads when it is refused or was read.
LEMMA AfterPlaces ==
    /\ AfterFailure["ssat"] = "out1" /\ AfterFailure["dir"] = "out2" /\ AfterFailure["sst"] = "out3"
    /\ AfterFailure["FileHeader"] = "summary" /\ AfterFailure["Summary"] = "docsummary"
    /\ AfterFailure["DocSummary"] = "sections"
    /\ AfterChain["ssat"] = "dir" /\ AfterChain["dir"] = "short" /\ AfterChain["sst"] = "fileheader"
    /\ AfterChain["FileHeader"] = "hwp" /\ AfterChain["Summary"] = "expand" /\ AfterChain["DocSummary"] = "expand"
BY DEF AfterFailure, AfterChain

\* Refusing a chain frees its block, if it was allocated already.
LEMMA RefuseHeld == ASSUME Typed, Held, cpc \in {"count", "read"}, Refuse PROVE Held'
<1>1. chain.use \in Uses /\ live' = live \ {Block(chain.use), "buf"} /\ cpc' = AfterFailure[chain.use]
  BY DEF Typed, Refuse
<1>2. CASE chain.use = "ssat"
  <2>1. live' = {"sat"} /\ cpc' = "out1"
    BY <1>1, <1>2, AfterPlaces DEF Held, Block
  <2> QED BY <2>1 DEF Held
<1>3. CASE chain.use = "dir"
  <2>1. live' = {"sat", "ssat"} /\ cpc' = "out2"
    BY <1>1, <1>3, AfterPlaces DEF Held, Block, Base
  <2> QED BY <2>1 DEF Held
<1>4. CASE chain.use = "sst"
  <2>1. live' = Base /\ cpc' = "out3"
    BY <1>1, <1>4, AfterPlaces DEF Held, Block, Base
  <2> QED BY <2>1 DEF Held
<1>5. CASE chain.use \in Streams
  <2>1. Block(chain.use) = "scn" /\ cpc' \in {"summary", "docsummary", "sections"}
    BY <1>1, <1>5, AfterPlaces DEF Block, Streams
  <2>2. live' \in {Base, Base \cup {"sst"}}
    BY <1>1, <1>5, <2>1 DEF Held, Base
  <2> QED BY <2>1, <2>2 DEF Held, Base
<1> QED BY <1>1, <1>2, <1>3, <1>4, <1>5 DEF Uses

\* A chain that begins holds what its place held.
LEMMA BeginHeld ==
    ASSUME NEW u \in Uses, NEW t, NEW s, NEW z, BeginChain(u, t, s, z), live' = live,
           u = "ssat" => live = {"sat"}, u = "dir" => live = {"sat", "ssat"}, u = "sst" => live = Base,
           u \in Streams => live \in {Base, Base \cup {"sst"}}
    PROVE  Held'
<1>1. cpc' = "count" /\ chain'.use = u
  BY DEF BeginChain
<1> QED BY <1>1 DEF Held

\* The blocks, over every step.
LEMMA HeldInductive == ASSUME Typed, Held, [CdfNext]_cdfVars PROVE Held'
<1>1. CASE UNCHANGED cdfVars
  BY <1>1 DEF cdfVars, Held
<1>2. CASE ReadHeader
  <2>1. live' = {} /\ cpc' \in {"done", "sat"}
    BY <1>2 DEF ReadHeader, Held
  <2> QED BY <2>1 DEF Held
<1>3. CASE SatHeader
  <2>1. live = {} /\ ((cpc' = "default" /\ live' = live) \/ (cpc' = "master" /\ live' = live \cup {"sat", "msa"}))
    BY <1>3 DEF SatHeader, SatFails, Held
  <2>2. CASE cpc' = "default"
    BY <2>1, <2>2 DEF Held
  <2>3. CASE cpc' = "master"
    BY <2>1, <2>3 DEF Held
  <2> QED BY <2>1, <2>2, <2>3
<1>4. CASE SatMaster
  <2>1. live = {"sat", "msa"} /\ \/ cpc' = "ssat" /\ live' = live \ {"msa"}
                                 \/ cpc' = "default" /\ live' = live \ {"msa", "sat"}
                                 \/ cpc' = "master" /\ live' = live
    BY <1>4 DEF SatMaster, SatFails, Held, Freed
  <2>2. CASE cpc' = "ssat" /\ live' = live \ {"msa"}
    BY <2>1, <2>2 DEF Held
  <2>3. CASE cpc' = "default" /\ live' = live \ {"msa", "sat"}
    BY <2>1, <2>3 DEF Held
  <2>4. CASE cpc' = "master" /\ live' = live
    BY <2>1, <2>4 DEF Held
  <2> QED BY <2>1, <2>2, <2>3, <2>4
<1>5. CASE BeginTable
  <2>1. live' = live
    BY <1>5 DEF BeginTable
  <2>2. CASE cpc = "ssat" /\ \E s \in Ids : BeginChain("ssat", "sat", s, "long")
    BY <2>1, <2>2, BeginHeld DEF Held, Uses, Streams
  <2>3. CASE cpc = "dir" /\ \E s \in Ids : BeginChain("dir", "sat", s, "long")
    BY <2>1, <2>3, BeginHeld DEF Held, Uses, Streams
  <2> QED BY <1>5, <2>2, <2>3 DEF BeginTable
<1>6. CASE ShortStream
  <2>1. live' = live /\ live = Base
    BY <1>6 DEF ShortStream, Held
  <2>2. CASE cpc' = "fileheader" /\ UNCHANGED chain
    BY <2>1, <2>2 DEF Held
  <2>3. ASSUME NEW s, BeginChain("sst", "sat", s, FirstOf("root").size) PROVE Held'
    BY <2>1, <2>3, BeginHeld DEF Uses, Streams
  <2> QED BY <1>6, <2>2, <2>3 DEF ShortStream
<1>7. ASSUME NEW p \in {"fileheader", "summary", "docsummary"}, NEW name \in Streams, UserStream(p, name) PROVE Held'
  <2>1. live' = live /\ live \in {Base, Base \cup {"sst"}}
    BY <1>7 DEF UserStream, Held
  <2>2. CASE cpc' = AfterFailure[name]
    <3>1. cpc' \in {"summary", "docsummary", "sections"}
      BY <2>2, AfterPlaces DEF Streams
    <3> QED BY <2>1, <3>1 DEF Held, Base
  <2>3. ASSUME NEW t, NEW s, NEW z, BeginChain(name, t, s, z) PROVE Held'
    <3>1. name \in Uses /\ name \notin {"ssat", "dir", "sst"}
      BY DEF Uses, Streams
    <3> QED BY <2>1, <2>3, <3>1, BeginHeld
  <2> QED BY <1>7, <2>2, <2>3 DEF UserStream
<1>8. CASE CountChain
  <2>1. ASSUME NEW v, CountTurn(v) PROVE Held'
    <3>1. cpc' = "count" /\ cpc = "count" /\ live' = live /\ chain'.use = chain.use
      BY <1>8, <2>1 DEF CountTurn, CountChain, Typed, ChainType
    <3> QED BY <3>1 DEF Held
  <2>2. CASE CountFails
    BY <1>8, <2>2, RefuseHeld DEF CountFails, CountChain
  <2>3. CASE CountDone
    <3>1. CASE Refuse
      BY <1>8, <3>1, RefuseHeld DEF CountChain
    <3>2. CASE ~Refuse
      <4>1. /\ cpc = "count" /\ cpc' = "read" /\ chain'.use = chain.use /\ chain.use \in Uses
            /\ live' = live \cup {Block(chain.use)} \cup (IF chain.use = "dir" THEN {"buf"} ELSE {})
        BY <1>8, <2>3, <3>2 DEF CountDone, CountChain, Typed, ChainType
      <4>2. CASE chain.use \in {"ssat", "dir", "sst"}
        <5>1. Block(chain.use) = chain.use /\ chain.use \notin Streams
          BY <4>2 DEF Block, Streams
        <5> QED BY <4>1, <4>2, <5>1 DEF Held, Base
      <4>3. CASE chain.use \in Streams
        <5>1. Block(chain.use) = "scn" /\ chain.use \notin {"ssat", "dir", "sst"} /\ live \in {Base, Base \cup {"sst"}}
          BY <4>1, <4>3 DEF Block, Streams, Held
        <5>2. live' = live \cup {"scn"}
          BY <4>1, <5>1
        <5>3. live' \in {Base \cup {"scn"}, Base \cup {"sst", "scn"}}
          BY <5>1, <5>2
        <5> QED BY <4>1, <5>1, <5>3 DEF Held
      <4> QED BY <4>1, <4>2, <4>3 DEF Uses
    <3> QED BY <3>1, <3>2
  <2> QED BY <1>8, <2>1, <2>2, <2>3 DEF CountChain
<1>9. CASE ReadChain
  <2>1. CASE ReadTurn
    <3>1. cpc' = "read" /\ cpc = "read" /\ live' = live /\ chain'.use = chain.use
      BY <1>9, <2>1 DEF ReadTurn, ReadChain, Typed, ChainType
    <3> QED BY <3>1 DEF Held
  <2>2. CASE ReadFails
    BY <1>9, <2>2, RefuseHeld DEF ReadFails, ReadChain
  <2>3. CASE ReadDone
    <3>1. cpc = "read" /\ cpc' = AfterChain[chain.use] /\ live' = live \ {"buf"} /\ chain.use \in Uses
      BY <1>9, <2>3 DEF ReadDone, ReadChain, Freed, Typed
    <3>2. CASE chain.use = "ssat"
      <4>1. cpc' = "dir" /\ live' = {"sat", "ssat"}
        BY <3>1, <3>2, AfterPlaces DEF Held
      <4> QED BY <4>1 DEF Held
    <3>3. CASE chain.use = "dir"
      <4>1. cpc' = "short" /\ live' = Base
        BY <3>1, <3>3, AfterPlaces DEF Held, Base
      <4> QED BY <4>1 DEF Held
    <3>4. CASE chain.use = "sst"
      <4>1. cpc' = "fileheader" /\ live' = Base \cup {"sst"}
        BY <3>1, <3>4, AfterPlaces DEF Held, Base
      <4> QED BY <4>1 DEF Held
    <3>5. CASE chain.use \in Streams
      <4>1. cpc' \in {"hwp", "expand"} /\ live' = live /\ live \in {Base \cup {"scn"}, Base \cup {"sst", "scn"}}
        BY <3>1, <3>5, AfterPlaces DEF Held, Base, Streams
      <4> QED BY <4>1 DEF Held
    <3> QED BY <3>1, <3>2, <3>3, <3>4, <3>5 DEF Uses
  <2> QED BY <1>9, <2>1, <2>2, <2>3 DEF ReadChain
<1>10. CASE Hwp
  <2>1. live \in {Base \cup {"scn"}, Base \cup {"sst", "scn"}}
    BY <1>10 DEF Hwp, Held
  <2>2. CASE cpc' = "summary" /\ live' = live \ {"scn"}
    BY <2>1, <2>2 DEF Held, Base
  <2>3. CASE cpc' = "out5" /\ live' = live
    BY <2>1, <2>3 DEF Held, Base
  <2>4. CASE cpc' = "done"
    BY <2>4 DEF Held
  <2> QED BY <1>10, <2>2, <2>3, <2>4 DEF Hwp, Freed
<1>11. CASE Expand
  <2>1. live \in {Base \cup {"scn"}, Base \cup {"sst", "scn"}} /\ chain.use \in {"Summary", "DocSummary"}
    BY <1>11 DEF Expand, Held, Typed
  <2>2. cpc' \in {"out5", "docsummary", "sections"} /\ (cpc' = "docsummary" => chain.use = "Summary")
    BY <1>11, <2>1, AfterPlaces DEF Expand
  <2>3. CASE chain.use = "Summary"
    <3>1. live' = live \ {"scn"}
      BY <1>11, <2>3 DEF Expand, Freed
    <3>2. live' \in {Base, Base \cup {"sst"}}
      BY <2>1, <3>1 DEF Base
    <3> QED BY <2>2, <3>2 DEF Held, Base
  <2>4. CASE chain.use # "Summary"
    <3>1. live' = live /\ cpc' \in {"out5", "sections"}
      BY <1>11, <2>2, <2>4 DEF Expand
    <3> QED BY <2>1, <3>1 DEF Held, Base
  <2> QED BY <2>3, <2>4
<1>12. CASE Sections
  <2>1. cpc = "sections" /\ cpc' = "out5" /\ live' = live
    BY <1>12 DEF Sections
  <2> QED BY <2>1 DEF Held
<1>13. CASE Unwind
  <2>1. CASE cpc = "out5"
    <3>1. cpc' = "out3" /\ live' = live \ {"scn", "sst"} /\ Base \subseteq live /\ live \subseteq Base \cup {"sst", "scn"}
      BY <1>13, <2>1 DEF Unwind, Freed, Held
    <3>2. live' = Base
      BY <3>1 DEF Base
    <3> QED BY <3>1, <3>2 DEF Held
  <2>2. CASE cpc = "out3"
    <3>1. cpc' = "out2" /\ live' = live \ {"dir"} /\ live = Base
      BY <1>13, <2>2 DEF Unwind, FreeAgain, Held
    <3>2. live' = {"sat", "ssat"}
      BY <3>1 DEF Base
    <3> QED BY <3>1, <3>2 DEF Held
  <2>3. CASE cpc = "out2"
    <3>1. cpc' = "out1" /\ live' = live \ {"ssat"} /\ live = {"sat", "ssat"}
      BY <1>13, <2>3 DEF Unwind, FreeAgain, Held
    <3>2. live' = {"sat"}
      BY <3>1
    <3> QED BY <3>1, <3>2 DEF Held
  <2>4. CASE cpc = "out1"
    <3>1. cpc' = "default" /\ live' = live \ {"sat"} /\ live = {"sat"}
      BY <1>13, <2>4 DEF Unwind, FreeAgain, Held
    <3>2. live' = {}
      BY <3>1
    <3> QED BY <3>1, <3>2 DEF Held
  <2> QED BY <1>13, <2>1, <2>2, <2>3, <2>4 DEF Unwind
<1>14. CASE Default
  BY <1>14 DEF Default, Held
<1> QED BY <1>1, <1>2, <1>3, <1>4, <1>5, <1>6, <1>7, <1>8, <1>9, <1>10, <1>11, <1>12, <1>13, <1>14 DEF CdfNext, Streams

\* A step that changes nothing of the answer, ends nowhere and frees nothing twice.
LEMMA AnswerKept ==
    ASSUME Answered, cpc # "done", UNCHANGED <<cret, hadError, says, freedTwice, opt>>,
           cpc' \notin {"done", "start"}, scn'.short = scn'.dirShort, chain'.t = "ssat" => chain'.size # "long"
    PROVE  Answered'
BY DEF Answered, CdfClean

\* Refusing a chain keeps the answer.
LEMMA RefuseAnswer ==
    ASSUME Typed, Answered, cpc \in {"count", "read"}, Refuse, UNCHANGED <<opt, hd, summary, hadError, says, cret>>
    PROVE  Answered'
<1>1. cpc' \notin {"done", "start"}
  BY RefuseType DEF Refuse, AfterFailure, Typed, Uses, Streams
<1>2. chain'.size = "zero" /\ scn' = scn /\ freedTwice' = freedTwice
  BY DEF Refuse, NoChain
<1> QED BY <1>1, <1>2, AnswerKept DEF Answered

\* A chain that begins keeps the answer.
LEMMA BeginAnswer ==
    ASSUME Answered, cpc # "done", UNCHANGED <<opt, scn, freedTwice, hadError, says, cret>>,
           NEW u, NEW t, NEW s, NEW z, BeginChain(u, t, s, z), t = "ssat" => z # "long"
    PROVE  Answered'
<1>1. cpc' = "count" /\ (chain'.t = "ssat" => chain'.size # "long")
  BY DEF BeginChain
<1> QED BY <1>1, AnswerKept DEF Answered

\* Something is printed, or an error was recorded.
LEMMA PrintsSays == ASSUME NEW what, Prints(what) PROVE hadError' = hadError /\ (~hadError' => says' # {})
BY DEF Prints

\* Reading and printing keep the answer, over every step.
LEMMA AnsweredInductive == ASSUME Typed, Held, Answered, [CdfNext]_cdfVars PROVE Answered'
<1>1. CASE UNCHANGED cdfVars
  BY <1>1 DEF cdfVars, Answered, CdfClean
<1>2. CASE ReadHeader
  <2>1. CASE cpc' = "done"
    <3>1. cret' = 0 /\ live' = {} /\ says' = {} /\ tabLen' = tabLen /\ tabLen["sat"] = 0
          /\ UNCHANGED <<freedTwice, scn, chain>>
      BY <1>2, <2>1 DEF ReadHeader, Held, Answered
    <3> QED BY <2>1, <3>1 DEF Answered, CdfClean
  <2>2. CASE cpc' = "sat"
    BY <1>2, <2>2, AnswerKept DEF ReadHeader, Answered
  <2> QED BY <1>2, <2>1, <2>2 DEF ReadHeader
<1>3. CASE SatHeader
  <2>1. cpc' \in {"default", "master"} /\ UNCHANGED <<opt, scn, freedTwice, hadError, says, cret>> /\ cpc = "sat"
    BY <1>3 DEF SatHeader, SatFails
  <2>2. chain'.t = "ssat" => chain'.size # "long"
    BY <1>3 DEF SatHeader, SatFails, NoChain, Answered
  <2> QED BY <2>1, <2>2, AnswerKept DEF Answered
<1>4. CASE SatMaster
  <2>1. cpc' \in {"default", "master", "ssat"} /\ UNCHANGED <<opt, scn, freedTwice, hadError, says, cret>> /\ cpc = "master"
    BY <1>4 DEF SatMaster, SatFails, Freed
  <2>2. \/ chain' = NoChain \/ chain' = chain
        \/ \E m : chain' = [chain EXCEPT !.n = @ + 1, !.i = @ + PerSector, !.sid = m]
    BY <1>4 DEF SatMaster, SatFails
  <2>3. chain'.t = "ssat" => chain'.size # "long"
    <3>1. CASE chain' = NoChain
      BY <3>1 DEF NoChain
    <3>2. CASE chain' = chain
      BY <3>2 DEF Answered
    <3>3. ASSUME NEW m, chain' = [chain EXCEPT !.n = @ + 1, !.i = @ + PerSector, !.sid = m]
          PROVE  chain'.t = "ssat" => chain'.size # "long"
      <4> DEFINE x == chain.n + 1
                 y == chain.i + PerSector
      <4>1. chain' = [chain EXCEPT !.n = x, !.i = y, !.sid = m]
        BY <3>3
      <4> HIDE DEF x, y
      <4>2. chain'.t = chain.t /\ chain'.size = chain.size
        BY <4>1 DEF Typed, ChainType
      <4> QED BY <4>2 DEF Answered
    <3> QED BY <2>2, <3>1, <3>2, <3>3
  <2> QED BY <2>1, <2>3, AnswerKept DEF Answered
<1>5. CASE BeginTable
  BY <1>5, BeginAnswer DEF BeginTable
<1>6. CASE ShortStream
  <2>1. CASE cpc' = "fileheader" /\ UNCHANGED <<chain, counted>>
    BY <1>6, <2>1, AnswerKept DEF ShortStream, Answered
  <2>2. ASSUME NEW s, BeginChain("sst", "sat", s, FirstOf("root").size) PROVE Answered'
    BY <1>6, <2>2, BeginAnswer DEF ShortStream
  <2> QED BY <1>6, <2>1, <2>2 DEF ShortStream
<1>7. ASSUME NEW p \in {"fileheader", "summary", "docsummary"}, NEW name \in Streams, UserStream(p, name)
      PROVE  Answered'
  <2>0. cpc # "done" /\ UNCHANGED <<opt, scn, freedTwice, hadError, says, cret>>
    BY <1>7 DEF UserStream
  <2>1. CASE cpc' = AfterFailure[name] /\ UNCHANGED <<chain, counted>>
    <3>1. cpc' \in {"summary", "docsummary", "sections"}
      BY <2>1, AfterPlaces DEF Streams
    <3> QED BY <2>0, <2>1, <3>1, AnswerKept DEF Answered
  <2>2. ASSUME NEW s, BeginChain(name, IF FirstOf(name).size = "short" /\ sst >= 0 THEN "ssat" ELSE "sat", s, FirstOf(name).size)
        PROVE  Answered'
    BY <2>0, <2>2, BeginAnswer
  <2> QED BY <1>7, <2>1, <2>2 DEF UserStream
<1>8. CASE CountChain
  <2>0. cpc = "count" /\ UNCHANGED <<opt, hd, summary, hadError, says, cret>>
    BY <1>8 DEF CountChain
  <2>1. ASSUME NEW v, CountTurn(v) PROVE Answered'
    <3>1. cpc' = "count" /\ UNCHANGED <<scn, freedTwice>> /\ chain'.t = chain.t /\ chain'.size = chain.size
      BY <2>0, <2>1 DEF CountTurn, Typed, ChainType
    <3> QED BY <2>0, <3>1, AnswerKept DEF Answered
  <2>2. CASE CountFails
    BY <2>0, <2>2, RefuseAnswer DEF CountFails
  <2>3. CASE CountDone
    <3>1. CASE Refuse
      BY <2>0, <3>1, RefuseAnswer
    <3>2. CASE ~Refuse
      <4>1. cpc' = "read" /\ UNCHANGED <<scn, freedTwice>> /\ chain'.t = chain.t /\ chain'.size = chain.size
        BY <2>3, <3>2 DEF CountDone, Typed, ChainType
      <4> QED BY <2>0, <4>1, AnswerKept DEF Answered
    <3> QED BY <3>1, <3>2
  <2> QED BY <1>8, <2>1, <2>2, <2>3 DEF CountChain
<1>9. CASE ReadChain
  <2>0. cpc = "read" /\ UNCHANGED <<opt, hd, summary, hadError, says, cret>>
    BY <1>9 DEF ReadChain
  <2>1. CASE ReadTurn
    <3>1. cpc' = "read" /\ UNCHANGED <<scn, freedTwice>> /\ chain'.t = chain.t /\ chain'.size = chain.size
      BY <2>0, <2>1 DEF ReadTurn, Typed, ChainType
    <3> QED BY <2>0, <3>1, AnswerKept DEF Answered
  <2>2. CASE ReadFails
    BY <2>0, <2>2, RefuseAnswer DEF ReadFails
  <2>3. CASE ReadDone
    <3>1. cpc' \notin {"done", "start"} /\ freedTwice' = freedTwice
      BY <2>0, <2>3, AfterPlaces DEF ReadDone, Freed, Typed, Uses, Streams
    <3>2. chain'.size = "zero"
      BY <2>3 DEF ReadDone, NoChain
    <3>3. scn'.short = scn'.dirShort
      <4>1. \/ scn' = scn
            \/ scn' = [len |-> chain.n, short |-> chain.t = "ssat",
                       dirShort |-> chain.t = "ssat" /\ chain.size # "long"]
        BY <2>3 DEF ReadDone
      <4>2. (chain.t = "ssat") <=> (chain.t = "ssat" /\ chain.size # "long")
        BY DEF Answered
      <4> QED BY <4>1, <4>2 DEF Answered
    <3> QED BY <2>0, <3>1, <3>2, <3>3, AnswerKept
  <2> QED BY <1>9, <2>1, <2>2, <2>3 DEF ReadChain
<1>10. CASE Hwp
  <2>0. cpc = "hwp" /\ UNCHANGED <<opt, chain, scn, freedTwice>>
    BY <1>10 DEF Hwp, Freed
  <2>1. CASE cpc' = "summary" /\ UNCHANGED <<cret, hadError, says>>
    BY <2>0, <2>1, AnswerKept DEF Answered
  <2>2. CASE cpc' = "out5" /\ cret' = 1 /\ opt # "encoding" /\ Prints("hwp")
    BY <2>0, <2>2, PrintsSays DEF Answered, CdfClean
  <2>3. CASE cpc' = "out5" /\ cret' = 1 /\ opt = "encoding"
    BY <2>0, <2>3 DEF Answered, CdfClean
  <2>4. CASE cpc' = "done" /\ cret' = -1 /\ PrintFails /\ live' = live
    <3>1. "scn" \in live' /\ hadError'
      BY <2>0, <2>4 DEF Held, PrintFails
    <3> QED BY <2>0, <2>4, <3>1 DEF Answered, CdfClean
  <2> QED BY <1>10, <2>1, <2>2, <2>3, <2>4 DEF Hwp
<1>11. CASE Expand
  <2>0. cpc = "expand" /\ UNCHANGED <<opt, chain, scn, freedTwice, hadError>> /\ cpc' \in {"out5", "docsummary", "sections"}
    BY <1>11, AfterPlaces DEF Expand, Freed, Typed
  <2>1. \/ cret' = 1 /\ (opt = "encoding" \/ says' = says \cup {"summary"})
        \/ cret' = cret /\ says' = says
    BY <1>11 DEF Expand
  <2> QED BY <2>0, <2>1 DEF Answered, CdfClean
<1>12. CASE Sections
  <2>0. cpc = "sections" /\ cpc' = "out5" /\ UNCHANGED <<opt, chain, scn, freedTwice>>
    BY <1>12 DEF Sections
  <2>1. CASE cret' = 1 /\ (opt = "encoding" \/ Prints("section"))
    BY <2>0, <2>1, PrintsSays DEF Answered, CdfClean
  <2>2. CASE cret' = -1
    BY <2>0, <2>2 DEF Answered, CdfClean
  <2> QED BY <1>12, <2>1, <2>2 DEF Sections
<1>13. CASE Unwind
  <2>0. cpc \in {"out5", "out3", "out2", "out1"} /\ cpc' \in {"out3", "out2", "out1", "default"}
        /\ UNCHANGED <<opt, chain, scn, hadError, says, cret>>
    BY <1>13 DEF Unwind
  <2>1. ~freedTwice'
    <3>1. CASE cpc = "out5"
      BY <1>13, <3>1 DEF Unwind, Freed, Answered
    <3>2. CASE cpc = "out3"
      BY <1>13, <3>2 DEF Unwind, FreeAgain, Answered, Held, Base
    <3>3. CASE cpc = "out2"
      BY <1>13, <3>3 DEF Unwind, FreeAgain, Answered, Held
    <3>4. CASE cpc = "out1"
      BY <1>13, <3>4 DEF Unwind, FreeAgain, Answered, Held
    <3> QED BY <2>0, <3>1, <3>2, <3>3, <3>4
  <2> QED BY <2>0, <2>1 DEF Answered, CdfClean
<1>14. CASE Default
  <2>0. cpc = "default" /\ cpc' = "done" /\ live' = {} /\ UNCHANGED <<opt, chain, scn, freedTwice>>
    BY <1>14 DEF Default, Held
  <2>1. CASE cret = 1 /\ UNCHANGED <<cret, hadError, says>>
    BY <2>0, <2>1 DEF Answered, CdfClean
  <2>2. CASE cret' = 1 /\ (opt = "encoding" \/ Prints("default"))
    BY <2>0, <2>2, PrintsSays DEF Answered, CdfClean
  <2>3. CASE cret = -1 /\ PrintFails /\ cret' = cret
    BY <2>0, <2>3 DEF Answered, CdfClean, PrintFails
  <2> QED BY <1>14, <2>1, <2>2, <2>3 DEF Default
<1> QED BY <1>1, <1>2, <1>3, <1>4, <1>5, <1>6, <1>7, <1>8, <1>9, <1>10, <1>11, <1>12, <1>13, <1>14 DEF CdfNext, Streams

\* Whichever step fails, every block is freed once, and the document is claimed with
\* something said or an error recorded: for any file, limits and options.  (file_trycdf)
THEOREM CdfIsClean == ReadersSpec => []CdfClean
<1>1. ReadersInit => Held /\ Answered
  BY DEF ReadersInit, CdfInit, Held, Answered, CdfClean, NoStream, NoChain
<1>2. Typed /\ Held /\ Answered /\ [ReadersNext]_readersVars => Held' /\ Answered'
  BY CdfSteps, HeldInductive, AnsweredInductive
<1>3. Answered => CdfClean
  BY DEF Answered
<1> QED BY <1>1, <1>2, <1>3, TypedInvariant, PTL DEF ReadersSpec

-----------------------------------------------------------------------------
(* Chains.                                                                 *)

\* Where a chain goes on after a sector, in what was read of a table.
After(f, s) == IF s \in DOMAIN f THEN f[s] ELSE FREE

\* The sectors of a chain up to some number of them were read into its table, inside it.
Known(t, start, n) == \A k \in 0..(n - 1) : Walk(t, start)[k] \in DOMAIN tab[t] /\ Walk(t, start)[k] \in 0..(Entries(t) - 1)

\* What is known of the chain that is counted, that was counted and that is read: the
\* sector the reader is at is the one it reaches after as many steps, and the sectors
\* it has passed were read into the table.
Chained ==
    /\ ~stray
    /\ cpc \in {"start", "sat", "master", "ssat"} => counted = 0
    /\ cpc = "count" => /\ counted = 0 /\ chain.i <= LoopLimit /\ chain.i <= MemLimit
                        /\ chain.sid = Walk(chain.t, chain.start)[chain.i]
                        /\ Known(chain.t, chain.start, chain.i)
    /\ counted > 0 => IsChain(chain.t, chain.start, counted) /\ Known(chain.t, chain.start, counted)
    /\ counted = -1 => \A n \in 0..LoopLimit : ~IsChain(chain.t, chain.start, n)
    /\ cpc = "read" => /\ counted = chain.n /\ chain.i <= chain.n
                       /\ chain.n = 0 => chain.start = END
                       /\ chain.sid = Walk(chain.t, chain.start)[chain.i]

\* The definition of Walk() has a solution.
LEMMA WalkExists ==
    ASSUME NEW f \in Partial, NEW start \in Ids
    PROVE  \E w : w = [k \in 0..(LoopLimit + 1) |-> IF k = 0 THEN start
                         ELSE IF w[k - 1] \in DOMAIN f THEN f[w[k - 1]] ELSE FREE]
<1> DEFINE N == LoopLimit + 1
<1>0. N \in Nat
  OBVIOUS
<1> DEFINE Ok(n, w) == /\ w \in [0..n -> Ids]
                       /\ \A k \in 0..n : w[k] = IF k = 0 THEN start ELSE After(f, w[k - 1])
           S == {n \in Nat : \E w \in [0..n -> Ids] : Ok(n, w)}
<1>1. 0 \in S
  <2> DEFINE z == [k \in 0..0 |-> start]
  <2>1. z \in [0..0 -> Ids] /\ Ok(0, z)
    OBVIOUS
  <2> HIDE DEF z, Ok
  <2> QED BY <2>1
<1>2. ASSUME NEW n \in Nat, n \in S PROVE n + 1 \in S
  <2>1. PICK w \in [0..n -> Ids] : Ok(n, w)
    BY <1>2
  <2> DEFINE last == After(f, w[n])
  <2>2. last \in Ids
    BY PartialType DEF After, Ids
  <2> DEFINE g == [k \in 0..(n + 1) |-> IF k = n + 1 THEN last ELSE w[k]]
  <2> HIDE DEF last
  <2>3. g \in [0..(n + 1) -> Ids]
    BY <2>2
  <2>4. ASSUME NEW k \in 0..(n + 1) PROVE g[k] = IF k = 0 THEN start ELSE After(f, g[k - 1])
    <3>1. CASE k = n + 1
      <4>1. k # 0 /\ k - 1 = n /\ g[k] = last /\ g[n] = w[n]
        BY <3>1
      <4> QED BY <4>1 DEF last
    <3>2. CASE k # n + 1
      <4>1. k \in 0..n /\ g[k] = w[k] /\ (k # 0 => k - 1 \in 0..n /\ g[k - 1] = w[k - 1])
        BY <3>2
      <4> QED BY <4>1, <2>1
    <3> QED BY <3>1, <3>2
  <2>5. Ok(n + 1, g)
    BY <2>3, <2>4
  <2>6. n + 1 \in Nat
    OBVIOUS
  <2> HIDE DEF Ok, g
  <2> QED BY <2>3, <2>5, <2>6
<1>3. N \in S
  <2> HIDE DEF S
  <2> QED BY <1>0, <1>1, <1>2, Induction
<1>4. PICK w \in [0..N -> Ids] : Ok(N, w)
  BY <1>3
<1>5. w = [k \in 0..N |-> IF k = 0 THEN start ELSE After(f, w[k - 1])]
  BY <1>4
<1> QED BY <1>5 DEF After

\* Where a chain begins, and where it goes on.
LEMMA WalkIs ==
    ASSUME NEW t \in Tables, NEW start \in Ids, tab[t] \in Partial
    PROVE  /\ Walk(t, start)[0] = start
           /\ \A k \in 0..LoopLimit : Walk(t, start)[k + 1] = After(tab[t], Walk(t, start)[k])
<1> DEFINE F(w) == [k \in 0..(LoopLimit + 1) |-> IF k = 0 THEN start
                      ELSE IF w[k - 1] \in DOMAIN tab[t] THEN tab[t][w[k - 1]] ELSE FREE]
           w == CHOOSE w : w = F(w)
<1>1. Walk(t, start) = w
  BY DEF Walk
<1>2. w = F(w)
  BY WalkExists
<1> HIDE DEF w
<1>3. w[0] = start
  BY <1>2
<1>4. ASSUME NEW k \in 0..LoopLimit PROVE w[k + 1] = After(tab[t], w[k])
  <2>1. k + 1 \in 0..(LoopLimit + 1) /\ k + 1 # 0 /\ (k + 1) - 1 = k
    OBVIOUS
  <2>2. F(w)[k + 1] = After(tab[t], w[k])
    BY <2>1 DEF After
  <2> QED BY <1>2, <2>2
<1> QED BY <1>1, <1>3, <1>4

\* The same after a step.
LEMMA WalkIsPrime ==
    ASSUME NEW t \in Tables, NEW start \in Ids, tab'[t] \in Partial
    PROVE  /\ Walk(t, start)'[0] = start
           /\ \A k \in 0..LoopLimit : Walk(t, start)'[k + 1] = After(tab'[t], Walk(t, start)'[k])
<1>1. PICK x : x = [k \in 0..(LoopLimit + 1) |-> IF k = 0 THEN start
                     ELSE IF x[k - 1] \in DOMAIN tab'[t] THEN tab'[t][x[k - 1]] ELSE FREE]
  BY WalkExists
<1> DEFINE F(y) == [k \in 0..(LoopLimit + 1) |-> IF k = 0 THEN start
                      ELSE IF y[k - 1] \in DOMAIN tab'[t] THEN tab'[t][y[k - 1]] ELSE FREE]
           y == CHOOSE y : y = F(y)
<1>2. Walk(t, start)' = y
  BY DEF Walk
<1>3. y = F(y)
  <2>1. x = F(x)
    BY <1>1
  <2> HIDE DEF F
  <2> QED BY <2>1
<1> HIDE DEF y
<1>4. y[0] = start
  BY <1>3
<1>5. ASSUME NEW k \in 0..LoopLimit PROVE y[k + 1] = After(tab'[t], y[k])
  <2>1. k + 1 \in 0..(LoopLimit + 1) /\ k + 1 # 0 /\ (k + 1) - 1 = k
    OBVIOUS
  <2>2. F(y)[k + 1] = After(tab'[t], y[k])
    BY <2>1 DEF After
  <2> QED BY <1>3, <2>2
<1> QED BY <1>2, <1>4, <1>5

\* Every sector of a chain has a number.
LEMMA WalkType ==
    ASSUME NEW t \in Tables, NEW start \in Ids, tab[t] \in Partial, NEW k \in 0..(LoopLimit + 1)
    PROVE  Walk(t, start)[k] \in Ids
<1>1. CASE k = 0
  BY <1>1, WalkIs
<1>2. CASE k # 0
  <2> DEFINE j == k - 1
  <2>1. j \in 0..LoopLimit /\ j + 1 = k
    BY <1>2
  <2> HIDE DEF j
  <2>2. Walk(t, start)[k] = After(tab[t], Walk(t, start)[j])
    BY <2>1, WalkIs
  <2> QED BY <2>2, PartialType DEF After, Ids
<1> QED BY <1>1, <1>2

\* As long as a chain stays in what was read of a table, it goes the same way when more
\* of the table is read.
LEMMA WalkKept ==
    ASSUME NEW t \in Tables, NEW start \in Ids, tab[t] \in Partial, tab'[t] \in Partial,
           NEW n \in 0..LoopLimit, Known(t, start, n),
           \A s \in DOMAIN tab[t] : s \in DOMAIN tab'[t] /\ tab'[t][s] = tab[t][s]
    PROVE  \A k \in 0..n : Walk(t, start)'[k] = Walk(t, start)[k]
<1> DEFINE w == Walk(t, start)
           v == Walk(t, start)'
           S == {k \in Nat : k <= n => v[k] = w[k]}
<1>0. /\ w[0] = start /\ v[0] = start
      /\ \A k \in 0..LoopLimit : w[k + 1] = After(tab[t], w[k])
      /\ \A k \in 0..LoopLimit : v[k + 1] = After(tab'[t], v[k])
  <2>1. /\ Walk(t, start)[0] = start
        /\ \A k \in 0..LoopLimit : Walk(t, start)[k + 1] = After(tab[t], Walk(t, start)[k])
    BY WalkIs
  <2>2. /\ Walk(t, start)'[0] = start
        /\ \A k \in 0..LoopLimit : Walk(t, start)'[k + 1] = After(tab'[t], Walk(t, start)'[k])
    BY WalkIsPrime
  <2> QED BY <2>1, <2>2
<1>k. \A k \in 0..(n - 1) : w[k] \in DOMAIN tab[t]
  BY DEF Known
<1> HIDE DEF w, v
<1>1. 0 \in S
  BY <1>0
<1>2. ASSUME NEW k \in Nat, k \in S PROVE k + 1 \in S
  <2>1. ASSUME k + 1 <= n PROVE v[k + 1] = w[k + 1]
    <3>1. k \in 0..LoopLimit /\ k \in 0..(n - 1) /\ v[k] = w[k]
      BY <1>2, <2>1
    <3>2. w[k] \in DOMAIN tab[t]
      BY <1>k, <3>1
    <3>3. w[k + 1] = tab[t][w[k]] /\ v[k + 1] = tab'[t][w[k]]
      BY <1>0, <3>1, <3>2 DEF After
    <3> QED BY <3>2, <3>3
  <2> QED BY <2>1
<1>3. Nat \subseteq S
  <2> HIDE DEF S
  <2> QED BY <1>1, <1>2, Induction
<1>4. ASSUME NEW k \in 0..n PROVE v[k] = w[k]
  BY <1>3
<1> QED BY <1>4 DEF v, w

\* A chain whose sectors are all known and that then ends has no sector twice: after two
\* that are the same it would go on the same way, and never end.
LEMMA Distinct ==
    ASSUME NEW t \in Tables, NEW start \in Ids, tab[t] \in Partial, NEW n \in 1..LoopLimit,
           \A k \in 0..(n - 1) : Walk(t, start)[k] >= 0, Walk(t, start)[n] < 0
    PROVE  \A j, k \in 0..(n - 1) : Walk(t, start)[j] = Walk(t, start)[k] => j = k
<1> DEFINE w == Walk(t, start)
<1>0. \A k \in 0..LoopLimit : w[k + 1] = After(tab[t], w[k])
  BY WalkIs
<1>w. (\A k \in 0..(n - 1) : w[k] >= 0) /\ w[n] < 0
  OBVIOUS
<1>t. w[n] \in Int
  BY WalkType DEF Ids, FREE, END
<1> HIDE DEF w
<1>1. ASSUME NEW j \in 0..(n - 1), NEW k \in 0..(n - 1), j < k, w[j] = w[k] PROVE FALSE
  <2> DEFINE S == {d \in Nat : k + d <= n => w[j + d] = w[k + d]}
  <2>1. 0 \in S
    BY <1>1
  <2>2. ASSUME NEW d \in Nat, d \in S PROVE d + 1 \in S
    <3>1. ASSUME k + (d + 1) <= n PROVE w[j + (d + 1)] = w[k + (d + 1)]
      <4>1. w[j + d] = w[k + d] /\ j + d \in 0..LoopLimit /\ k + d \in 0..LoopLimit
        BY <1>1, <2>2, <3>1
      <4>2. w[(j + d) + 1] = w[(k + d) + 1]
        BY <1>0, <4>1
      <4>3. (j + d) + 1 = j + (d + 1) /\ (k + d) + 1 = k + (d + 1)
        OBVIOUS
      <4> QED BY <4>2, <4>3
    <3> QED BY <3>1
  <2>3. Nat \subseteq S
    <3> HIDE DEF S
    <3> QED BY <2>1, <2>2, Induction
  <2>4. n - k \in Nat /\ k + (n - k) = n /\ j + (n - k) \in 0..(n - 1)
    BY <1>1
  <2>5. w[j + (n - k)] = w[n]
    <3> DEFINE d == n - k
    <3>1. d \in S
      BY <2>3, <2>4
    <3> QED BY <2>4, <3>1
  <2> DEFINE m == j + (n - k)
  <2>6. m \in 0..(n - 1) /\ w[m] = w[n]
    BY <2>4, <2>5
  <2> HIDE DEF m
  <2> QED BY <1>w, <1>t, <2>6
<1>2. ASSUME NEW j \in 0..(n - 1), NEW k \in 0..(n - 1), w[j] = w[k] PROVE j = k
  <2>1. ~(j < k)
    BY <1>1, <1>2
  <2>2. ~(k < j)
    BY <1>1, <1>2
  <2> QED BY <2>1, <2>2
<1> QED BY <1>2 DEF w

\* The number of entries of a table.
LEMMA EntriesType == ASSUME Typed, NEW t \in Tables PROVE Entries(t) \in Int
<1>1. tabLen[t] \in Nat /\ hd.ss \in Nat
  BY DEF Typed
<1> DEFINE p == tabLen[t] * hd.ss
<1>2. p \in Nat
  BY <1>1
<1> HIDE DEF p
<1>3. p \div 2 \in Int
  BY <1>2
<1> QED BY <1>3 DEF Entries, p

\* A step that leaves the chain, its tables and what was counted of it, and begins no
\* other, keeps what is known of it.
LEMMA ChainedKept ==
    ASSUME Chained, UNCHANGED <<tab, tabLen, hd, stray, counted>>, chain'.t = chain.t, chain'.start = chain.start,
           cpc' \in Places \ {"start", "sat", "master", "ssat", "count", "read"}
    PROVE  Chained'
<1>1. \A t, s : Walk(t, s)' = Walk(t, s)
  BY DEF Walk
<1>2. \A t : Entries(t)' = Entries(t)
  BY DEF Entries
<1>3. /\ Walk(chain.t, chain.start)' = Walk(chain.t, chain.start) /\ Entries(chain.t)' = Entries(chain.t)
  BY DEF Walk, Entries
<1>4. \A n : IsChain(chain.t, chain.start, n)' = IsChain(chain.t, chain.start, n)
  BY <1>3 DEF IsChain
<1>5. \A n : Known(chain.t, chain.start, n)' = Known(chain.t, chain.start, n)
  BY <1>3 DEF Known
<1> QED BY <1>4, <1>5 DEF Chained

\* Where nothing was counted and nothing is counted or read, there is nothing to know.
LEMMA ChainedNone ==
    ASSUME ~stray', counted' = 0, cpc' \notin {"count", "read"}
    PROVE  Chained'
BY DEF Chained

\* A chain that begins is at its first sector.
LEMMA ChainedBegun ==
    ASSUME Typed, Chained, NEW use \in Uses, NEW t \in Tables, NEW s \in Ids, NEW size \in Sizes, BeginChain(use, t, s, size),
           UNCHANGED <<tab, tabLen, hd, stray>>
    PROVE  Chained'
<1>1. chain'.t = t /\ chain'.start = s /\ chain'.sid = s /\ chain'.i = 0 /\ chain'.n = 0 /\ cpc' = "count" /\ counted' = 0
  BY BeginType
<1>2. Walk(chain'.t, chain'.start)[0] = s
  BY <1>1, WalkIs DEF Typed
<1>3. Walk(chain.t, chain.start)' = Walk(chain'.t, chain'.start)
  BY DEF Walk
<1>4. Known(chain.t, chain.start, chain.i)'
  <2>1. 0..(0 - 1) = {}
    OBVIOUS
  <2> QED BY <1>1, <2>1 DEF Known
<1> QED BY <1>1, <1>2, <1>3, <1>4 DEF Chained

\* A chain that is refused after it was counted, or before.
LEMMA ChainedRefused ==
    ASSUME Typed, Chained, chain.use \in Uses, Refuse, UNCHANGED <<tab, hd, stray>>
    PROVE  /\ chain'.t = chain.t /\ chain'.start = chain.start /\ tabLen' = tabLen
           /\ cpc' \in Places \ {"start", "sat", "master", "ssat", "count", "read"}
<1>1. chain'.t = chain.t /\ chain'.start = chain.start /\ tabLen' = tabLen
  BY DEF Refuse, NoChain
<1>2. cpc' \in {"out1", "out2", "out3", "summary", "docsummary", "sections"}
  BY DEF Refuse, AfterFailure, Uses, Streams
<1> QED BY <1>1, <1>2 DEF Places

\* Counting one sector more.
LEMMA ChainedTurn ==
    ASSUME Typed, Typed', Chained, cpc = "count", UNCHANGED hd, NEW v \in Ids, CountTurn(v)
    PROVE  Chained'
<1>p. PICK t \in Tables, s \in Ids, i \in Nat : t = chain.t /\ s = chain.start /\ i = chain.i
  BY DEF Typed, ChainType
<1> DEFINE w == Walk(t, s)
<1>0. /\ chain.sid \in Ids /\ chain \in ChainType
      /\ tab[t] \in Partial /\ tab'[t] \in Partial /\ tab \in [Tables -> Partial] /\ DOMAIN tab' = Tables
  BY DEF Typed, ChainType
<1>1. /\ chain.sid >= 0 /\ i < LoopLimit /\ i < MemLimit /\ chain.sid < Entries(t) /\ Look(t, chain.sid, v)
      /\ cpc' = "count" /\ counted' = 0 /\ tabLen' = tabLen
      /\ chain.sid = w[i] /\ Known(t, s, i) /\ ~stray
  BY <1>p DEF CountTurn, Chained
<1>2. chain'.t = t /\ chain'.start = s /\ chain'.i = i + 1 /\ chain'.sid = v
  <2>1. chain' = [chain EXCEPT !.sid = v, !.i = @ + 1]
    BY DEF CountTurn
  <2> QED BY <1>0, <1>p, <2>1 DEF ChainType
<1>e. Entries(t) \in Int
  BY EntriesType
<1>3. chain.sid \in 0..(Entries(t) - 1) /\ ~stray'
  <2>1. chain.sid \in Int
    BY <1>0 DEF Ids, FREE, END
  <2>2. chain.sid \in 0..(Entries(t) - 1)
    BY <1>1, <1>e, <2>1
  <2> QED BY <1>1, <2>2 DEF Look
<1>4. /\ chain.sid \in DOMAIN tab'[t] /\ tab'[t][chain.sid] = v
      /\ \A x \in DOMAIN tab[t] : x \in DOMAIN tab'[t] /\ tab'[t][x] = tab[t][x]
  <2>1. CASE chain.sid \in DOMAIN tab[t]
    BY <1>1, <2>1 DEF Look
  <2>2. CASE chain.sid \notin DOMAIN tab[t]
    <3>1. tab'[t] = With(tab[t], chain.sid, v)
      BY <1>0, <1>1, <2>2 DEF Look
    <3> DEFINE f == tab[t]
               x == chain.sid
               g == tab'[t]
    <3>2. g = With(f, x, v) /\ x \notin DOMAIN f
      BY <2>2, <3>1
    <3> HIDE DEF f, x, g
    <3>3. x \in DOMAIN g /\ g[x] = v /\ \A y \in DOMAIN f : y \in DOMAIN g /\ g[y] = f[y]
      BY <3>2 DEF With
    <3> QED BY <3>3 DEF f, x, g
  <2> QED BY <2>1, <2>2
<1>5. \A k \in 0..i : Walk(t, s)'[k] = w[k]
  <2>1. i \in 0..LoopLimit
    BY <1>1
  <2> QED BY <1>0, <1>1, <1>4, <2>1, WalkKept
<1>6. Walk(t, s)'[i + 1] = v
  <2>1. \A k \in 0..LoopLimit : Walk(t, s)'[k + 1] = After(tab'[t], Walk(t, s)'[k])
    BY <1>0, WalkIsPrime
  <2>2. i \in 0..LoopLimit /\ i \in 0..i
    BY <1>1
  <2>3. Walk(t, s)'[i + 1] = After(tab'[t], chain.sid)
    BY <1>1, <1>5, <2>1, <2>2
  <2> QED BY <1>4, <2>3 DEF After
<1>7. Known(t, s, i + 1)'
  <2>1. Entries(t)' = Entries(t)
    BY <1>1 DEF Entries
  <2>2. ASSUME NEW k \in 0..i
        PROVE Walk(t, s)'[k] \in DOMAIN tab'[t] /\ Walk(t, s)'[k] \in 0..(Entries(t) - 1)
    <3>1. CASE k = i
      <4>1. Walk(t, s)'[k] = chain.sid
        BY <1>1, <1>5, <3>1
      <4> QED BY <1>3, <1>4, <4>1
    <3>2. CASE k # i
      <4>1. k \in 0..(i - 1) /\ Walk(t, s)'[k] = w[k]
        BY <1>5, <3>2
      <4>2. w[k] \in DOMAIN tab[t] /\ w[k] \in 0..(Entries(t) - 1)
        BY <1>1, <4>1 DEF Known
      <4> QED BY <1>4, <4>1, <4>2
    <3> QED BY <3>1, <3>2
  <2>3. (i + 1) - 1 = i
    OBVIOUS
  <2> QED BY <2>1, <2>2, <2>3 DEF Known
<1>8. /\ Walk(chain.t, chain.start)' = Walk(t, s)'
      /\ Known(chain.t, chain.start, chain.i)'
  <2>1. Walk(chain.t, chain.start)' = Walk(t, s)'
    BY <1>2 DEF Walk
  <2>2. Known(chain.t, chain.start, chain.i)' = Known(t, s, i + 1)'
    BY <1>2, <2>1 DEF Known, Entries
  <2> QED BY <1>7, <2>1, <2>2
<1>9. i + 1 <= LoopLimit /\ i + 1 <= MemLimit
  BY <1>1
<1> QED BY <1>1, <1>2, <1>3, <1>6, <1>8, <1>9 DEF Chained

\* A chain is refused before it ends only when it is none.
LEMMA ChainedFails ==
    ASSUME Typed, Chained, cpc = "count", UNCHANGED hd, CountFails
    PROVE  Chained'
<1>p. PICK t \in Tables, s \in Ids, i \in Nat : t = chain.t /\ s = chain.start /\ i = chain.i
  BY DEF Typed, ChainType
<1> DEFINE w == Walk(t, s)
<1>0. chain.use \in Uses /\ tab[t] \in Partial /\ Refuse /\ UNCHANGED <<tab, stray>> /\ counted' = -1 /\ ~stray
  BY DEF Typed, CountFails, Chained
<1>1. /\ chain'.t = t /\ chain'.start = s /\ tabLen' = tabLen
      /\ cpc' \in Places \ {"start", "sat", "master", "ssat", "count", "read"}
  BY <1>0, <1>p, ChainedRefused
<1>2. /\ i <= LoopLimit /\ i <= MemLimit /\ chain.sid = w[i] /\ Known(t, s, i)
      /\ \/ w[i] >= 0 /\ (i >= LoopLimit \/ i >= MemLimit \/ w[i] >= Entries(t))
         \/ w[i] < 0 /\ i = 0 /\ s # END
  BY <1>p DEF Chained, CountFails
<1>3. w[0] = s /\ (\A k \in 0..(LoopLimit + 1) : w[k] \in Int) /\ Entries(t) \in Int
  BY <1>0, WalkIs, WalkType, EntriesType DEF Ids, FREE, END
<1>4. \A k \in 0..(i - 1) : w[k] \in 0..(Entries(t) - 1)
  BY <1>2 DEF Known
<1> HIDE DEF w
<1>5. s # END
  <2>1. CASE i = 0
    BY <1>2, <1>3, <2>1 DEF END
  <2>2. CASE i # 0
    <3>1. 0 \in 0..(i - 1)
      BY <2>2
    <3>2. w[0] >= 0
      BY <1>3, <1>4, <3>1
    <3> QED BY <1>3, <3>2 DEF END
  <2> QED BY <2>1, <2>2
<1>6. ASSUME NEW n \in 1..LoopLimit, n <= MemLimit, w[n] < 0, \A k \in 0..(n - 1) : w[k] \in 0..(Entries(t) - 1)
      PROVE  FALSE
  <2>1. CASE n < i
    <3>1. n \in 0..(i - 1)
      BY <2>1
    <3> QED BY <1>3, <1>4, <1>6, <3>1
  <2>2. CASE n = i
    BY <1>2, <1>3, <1>6, <2>2
  <2>3. CASE i < n
    <3>1. i \in 0..(n - 1)
      BY <2>3
    <3>2. w[i] >= 0 /\ w[i] < Entries(t) /\ w[i] \in Int
      BY <1>3, <1>6, <3>1
    <3> QED BY <1>2, <1>3, <1>6, <2>3, <3>2
  <2> QED BY <2>1, <2>2, <2>3
<1>7. \A n \in 0..LoopLimit : ~IsChain(t, s, n)
  BY <1>5, <1>6 DEF IsChain, w
<1>8. \A n \in 0..LoopLimit : ~IsChain(chain.t, chain.start, n)'
  <2>1. \A n \in 0..LoopLimit : ~IsChain(t, s, n)'
    BY <1>0, <1>1, <1>7 DEF IsChain, Walk, Entries
  <2> QED BY <1>1, <2>1 DEF IsChain, Walk, Entries
<1> QED BY <1>0, <1>1, <1>8 DEF Chained

\* What is counted of a chain that ends is its length.
LEMMA ChainedDone ==
    ASSUME Typed, Chained, cpc = "count", UNCHANGED hd, CountDone
    PROVE  Chained'
<1>p. PICK t \in Tables, s \in Ids, i \in Nat : t = chain.t /\ s = chain.start /\ i = chain.i
  BY DEF Typed, ChainType
<1> DEFINE w == Walk(t, s)
<1>0. /\ chain.use \in Uses /\ tab[t] \in Partial /\ UNCHANGED <<tab, stray>> /\ counted' = i /\ ~stray
      /\ chain \in ChainType
  BY <1>p DEF Typed, CountDone, Chained
<1>1. /\ i <= LoopLimit /\ i <= MemLimit /\ chain.sid = w[i] /\ Known(t, s, i)
      /\ w[i] < 0 /\ (i > 0 \/ s = END)
  BY <1>p DEF Chained, CountDone
<1>2. w[0] = s /\ (\A k \in 0..(LoopLimit + 1) : w[k] \in Int) /\ Entries(t) \in Int
  BY <1>0, WalkIs, WalkType, EntriesType DEF Ids, FREE, END
<1>3. i > 0 => IsChain(t, s, i)
  <2> SUFFICES ASSUME i > 0 PROVE IsChain(t, s, i)
    OBVIOUS
  <2>1. i \in 1..LoopLimit
    BY <1>1
  <2>2. \A k \in 0..(i - 1) : w[k] \in 0..(Entries(t) - 1)
    BY <1>1 DEF Known
  <2>3. \A k \in 0..(i - 1) : w[k] >= 0
    BY <1>2, <2>2
  <2>4. \A j, k \in 0..(i - 1) : w[j] = w[k] => j = k
    BY <1>0, <1>1, <2>1, <2>3, Distinct
  <2> QED BY <1>1, <2>1, <2>2, <2>4 DEF IsChain
<1>4. \/ /\ chain'.t = t /\ chain'.start = s /\ tabLen' = tabLen
         /\ cpc' \in Places \ {"start", "sat", "master", "ssat", "count", "read"}
      \/ /\ chain'.t = t /\ chain'.start = s /\ chain'.sid = s /\ chain'.i = 0 /\ chain'.n = i /\ tabLen' = tabLen
         /\ cpc' = "read"
  <2>1. CASE Refuse
    BY <1>0, <1>p, <2>1, ChainedRefused
  <2>2. CASE ~Refuse
    <3>1. cpc' = "read" /\ tabLen' = tabLen /\ chain' = [chain EXCEPT !.sid = chain.start, !.n = chain.i, !.i = 0]
      BY <2>2 DEF CountDone
    <3> QED BY <1>0, <1>p, <3>1 DEF ChainType
  <2> QED BY <2>1, <2>2
<1>5. Walk(chain.t, chain.start)' = w /\ tabLen' = tabLen
  BY <1>0, <1>4 DEF Walk
<1>6. i > 0 => IsChain(chain.t, chain.start, i)' /\ Known(chain.t, chain.start, i)'
  <2>1. Entries(chain.t)' = Entries(t)
    BY <1>4 DEF Entries
  <2>2. chain'.t = t /\ chain'.start = s
    BY <1>4
  <2>3. i > 0 => IsChain(chain.t, chain.start, i)'
    BY <1>3, <1>5, <2>1, <2>2 DEF IsChain
  <2>4. Known(chain.t, chain.start, i)'
    BY <1>0, <1>1, <1>5, <2>1, <2>2 DEF Known
  <2> QED BY <2>3, <2>4
<1>7. i >= 0 /\ i # -1 /\ (i = 0 => s = END)
  BY <1>1
<1> HIDE DEF w
<1> QED BY <1>0, <1>2, <1>4, <1>5, <1>6, <1>7 DEF Chained

\* Reading one sector more.
LEMMA ChainedRead ==
    ASSUME Typed, Chained, cpc = "read", UNCHANGED hd, ReadTurn
    PROVE  Chained'
<1>p. PICK t \in Tables, s \in Ids, i \in Nat, n \in Nat : t = chain.t /\ s = chain.start /\ i = chain.i /\ n = chain.n
  BY DEF Typed, ChainType
<1> DEFINE w == Walk(t, s)
<1>0. /\ chain.use \in Uses /\ tab[t] \in Partial /\ UNCHANGED <<tab, counted, tabLen, cpc>> /\ ~stray
      /\ chain \in ChainType
  BY <1>p DEF Typed, ReadTurn, Chained
<1>1. /\ counted = n /\ i <= n /\ (n = 0 => s = END) /\ chain.sid = w[i]
      /\ (n > 0 => IsChain(t, s, n) /\ Known(t, s, n))
  BY <1>p DEF Chained
<1>2. w[0] = s
  BY <1>0, WalkIs
<1>3. i < n
  <2>1. CASE chain.use = "dir"
    BY <1>p, <2>1 DEF ReadTurn, More
  <2>2. CASE chain.use # "dir"
    BY <1>p, <2>2 DEF ReadTurn
  <2> QED BY <2>1, <2>2
<1>4. n \in 1..LoopLimit
  BY <1>1, <1>3 DEF IsChain, END
<1>5. chain.sid \in DOMAIN tab[t]
  <2>1. i \in 0..(n - 1)
    BY <1>3
  <2> QED BY <1>1, <1>3, <2>1 DEF Known
<1>6. ~stray' /\ chain'.sid = tab[t][chain.sid] /\ chain'.i = i + 1 /\ chain'.n = n /\ chain'.t = t /\ chain'.start = s
  <2> DEFINE y == IF chain.sid \in DOMAIN tab[chain.t] THEN tab[chain.t][chain.sid] ELSE FREE
             x == chain.i + 1
  <2>1. chain' = [chain EXCEPT !.sid = y, !.i = x] /\ y = tab[t][chain.sid] /\ x = i + 1 /\ ~stray'
    BY <1>0, <1>5, <1>p DEF ReadTurn
  <2> HIDE DEF x, y
  <2> QED BY <1>0, <1>p, <2>1 DEF ChainType
<1>7. w[i + 1] = tab[t][chain.sid]
  <2>1. i \in 0..LoopLimit
    BY <1>3, <1>4
  <2>2. w[i + 1] = After(tab[t], w[i])
    BY <1>0, <2>1, WalkIs
  <2> QED BY <1>1, <1>5, <2>2 DEF After
<1>8. /\ Walk(chain.t, chain.start)' = w /\ Entries(chain.t)' = Entries(t)
  BY <1>0, <1>6 DEF Walk, Entries
<1>9. IsChain(chain.t, chain.start, n)' /\ Known(chain.t, chain.start, n)'
  <2>1. IsChain(chain.t, chain.start, n)'
    BY <1>1, <1>3, <1>6, <1>8 DEF IsChain
  <2>2. Known(chain.t, chain.start, n)'
    BY <1>0, <1>1, <1>3, <1>6, <1>8 DEF Known
  <2> QED BY <2>1, <2>2
<1>10. i + 1 <= n /\ n # 0 /\ n # -1
  BY <1>3
<1> HIDE DEF w
<1> QED BY <1>0, <1>1, <1>6, <1>7, <1>8, <1>9, <1>10 DEF Chained

\* The entries of the header fit the table that is allocated for them.
LEMMA HeaderFits ==
    ASSUME Typed, cpc = "sat", ~(Words = 0 /\ hd.nm > 0)
    PROVE  ~(Leading > SatLen)
<1>1. Leading \in Nat /\ Counted \in Nat /\ Leading <= Counted
  BY LeadingCounted DEF Typed
<1>2. hd.ss \in Nat \ {0} /\ hd.nm \in Nat /\ Words \in Nat
  <2>1. hd.ss \in Nat \ {0} /\ hd.nm \in Nat
    BY DEF Typed
  <2> QED BY <2>1 DEF Words
<1>3. CASE Words = 0
  BY <1>1, <1>3 DEF SatLen
<1>4. CASE Words # 0
  <2> DEFINE p == hd.nm * PerSector
  <2>1. PerSector \in Nat
    BY <1>2, <1>4 DEF PerSector
  <2>2. p \in Nat
    BY <1>2, <2>1
  <2>3. SatLen = p + Counted
    BY <1>4 DEF SatLen
  <2> HIDE DEF p
  <2> QED BY <1>1, <2>2, <2>3
<1> QED BY <1>3, <1>4

\* What is known of the chains, over every step.
LEMMA ChainedInductive == ASSUME Typed, Typed', Chained, [CdfNext]_cdfVars PROVE Chained'
<1>1. CASE UNCHANGED cdfVars
  <2>0. UNCHANGED <<cpc, hd, tab, tabLen, chain, stray, counted>>
    BY <1>1 DEF cdfVars
  <2>1. \A t, s : Walk(t, s)' = Walk(t, s)
    BY <2>0 DEF Walk
  <2>2. \A t, s, n : Known(t, s, n)' <=> Known(t, s, n)
    BY <2>0, <2>1 DEF Known, Entries
  <2>3. \A t, s, n : IsChain(t, s, n)' <=> IsChain(t, s, n)
    BY <2>0, <2>1 DEF IsChain, Entries
  <2> QED BY <2>0, <2>1, <2>2, <2>3 DEF Chained
<1>2. CASE ReadHeader
  BY <1>2, ChainedNone DEF ReadHeader, Chained
<1>3. CASE SatHeader
  <2>1. cpc = "sat" /\ counted = 0 /\ counted' = 0 /\ cpc' \in {"default", "master"} /\ ~stray
    BY <1>3 DEF SatHeader, SatFails, Chained
  <2>2. ~stray'
    <3>1. \/ stray' = stray
          \/ ~(Words = 0 /\ hd.nm > 0) /\ stray' = (stray \/ Leading > SatLen)
      BY <1>3 DEF SatHeader, SatFails
    <3> QED BY <2>1, <3>1, HeaderFits
  <2> QED BY <2>1, <2>2, ChainedNone
<1>4. CASE SatMaster
  <2>1. cpc = "master" /\ counted = 0 /\ counted' = 0 /\ cpc' \in {"default", "master", "ssat"} /\ ~stray /\ stray' = stray
    BY <1>4 DEF SatMaster, SatFails, Chained
  <2> QED BY <2>1, ChainedNone
<1>5. CASE BeginTable
  <2>1. ASSUME NEW u \in {"ssat", "dir"}, NEW s \in Ids, BeginChain(u, "sat", s, "long") PROVE Chained'
    <3>1. UNCHANGED <<tab, tabLen, hd, stray>> /\ u \in Uses /\ "sat" \in Tables /\ "long" \in Sizes
      BY <1>5 DEF BeginTable, Uses, Tables, Sizes
    <3> QED BY <2>1, <3>1, ChainedBegun
  <2> QED BY <1>5, <2>1 DEF BeginTable
<1>6. CASE ShortStream
  <2>0. UNCHANGED <<hd, tab, tabLen, stray>> /\ cpc = "short"
    BY <1>6 DEF ShortStream
  <2>1. CASE cpc' = "fileheader" /\ UNCHANGED <<chain, counted>>
    BY <2>0, <2>1, ChainedKept DEF Places
  <2>2. ASSUME Find("root") # {}, NEW s \in 0..Sectors, BeginChain("sst", "sat", s, FirstOf("root").size) PROVE Chained'
    <3> DEFINE z == FirstOf("root").size
    <3>1. z \in Sizes /\ s \in Ids /\ "sst" \in Uses /\ "sat" \in Tables /\ BeginChain("sst", "sat", s, z)
      BY <2>2, FirstOfType DEF Ids, Uses, Tables
    <3> HIDE DEF z
    <3> QED BY <2>0, <3>1, ChainedBegun
  <2> QED BY <1>6, <2>1, <2>2 DEF ShortStream
<1>7. ASSUME NEW p \in {"fileheader", "summary", "docsummary"}, NEW name \in Streams, UserStream(p, name)
      PROVE  Chained'
  <2>0. UNCHANGED <<hd, tab, tabLen, stray>>
    BY <1>7 DEF UserStream
  <2>1. CASE cpc' = AfterFailure[name] /\ UNCHANGED <<chain, counted>>
    <3>1. cpc' \in {"summary", "docsummary", "sections"}
      BY <2>1, AfterPlaces DEF Streams
    <3> QED BY <2>0, <2>1, <3>1, ChainedKept DEF Places
  <2>2. ASSUME Find(name) # {}, NEW s \in Ids,
               BeginChain(name, IF FirstOf(name).size = "short" /\ sst >= 0 THEN "ssat" ELSE "sat", s, FirstOf(name).size)
        PROVE  Chained'
    <3> DEFINE z == FirstOf(name).size
               t == IF FirstOf(name).size = "short" /\ sst >= 0 THEN "ssat" ELSE "sat"
    <3>1. z \in Sizes /\ name \in Uses /\ t \in Tables /\ BeginChain(name, t, s, z)
      BY <2>2, FirstOfType DEF Uses, Tables
    <3> HIDE DEF z, t
    <3> QED BY <2>0, <3>1, ChainedBegun
  <2> QED BY <1>7, <2>1, <2>2 DEF UserStream
<1>8. CASE CountChain
  BY <1>8, ChainedTurn, ChainedFails, ChainedDone DEF CountChain
<1>9. CASE ReadChain
  <2>0. cpc = "read" /\ UNCHANGED hd /\ chain.use \in Uses
    BY <1>9 DEF ReadChain, Typed
  <2>1. CASE ReadTurn
    BY <2>0, <2>1, ChainedRead
  <2>2. CASE ReadFails
    BY <2>0, <2>2, ChainedRefused, ChainedKept DEF ReadFails
  <2>3. CASE ReadDone
    <3>1. cpc' \notin {"count", "read"} /\ counted' = 0 /\ ~stray'
      BY <2>0, <2>3 DEF ReadDone, AfterChain, Uses, Streams, Chained
    <3> QED BY <3>1, ChainedNone
  <2> QED BY <1>9, <2>1, <2>2, <2>3 DEF ReadChain
<1>10. CASE Hwp
  <2>1. cpc' \in {"summary", "out5", "done"} /\ UNCHANGED <<tab, tabLen, hd, stray, counted, chain>>
    BY <1>10 DEF Hwp
  <2> QED BY <2>1, ChainedKept DEF Places
<1>11. CASE Expand
  <2>1. cpc' \in {"out5", "docsummary", "sections"} /\ UNCHANGED <<tab, tabLen, hd, stray, counted, chain>>
    BY <1>11, AfterPlaces DEF Expand, Typed
  <2> QED BY <2>1, ChainedKept DEF Places
<1>12. CASE Sections
  <2>1. cpc' = "out5" /\ UNCHANGED <<tab, tabLen, hd, stray, counted, chain>>
    BY <1>12 DEF Sections
  <2> QED BY <2>1, ChainedKept DEF Places
<1>13. CASE Unwind
  <2>1. cpc' \in {"out3", "out2", "out1", "default"} /\ UNCHANGED <<tab, tabLen, hd, stray, counted, chain>>
    BY <1>13 DEF Unwind
  <2> QED BY <2>1, ChainedKept DEF Places
<1>14. CASE Default
  <2>1. cpc' = "done" /\ UNCHANGED <<tab, tabLen, hd, stray, counted, chain>>
    BY <1>14 DEF Default
  <2> QED BY <2>1, ChainedKept DEF Places
<1> QED BY <1>1, <1>2, <1>3, <1>4, <1>5, <1>6, <1>7, <1>8, <1>9, <1>10, <1>11, <1>12, <1>13, <1>14 DEF CdfNext, Streams

\* What is known of the chains is enough.
LEMMA ChainedSuffices == ASSUME Typed, Chained PROVE CdfChains
<1>p. PICK t \in Tables, s \in Ids, i \in Nat, n \in Nat : t = chain.t /\ s = chain.start /\ i = chain.i /\ n = chain.n
  BY DEF Typed, ChainType
<1> DEFINE w == Walk(t, s)
<1>1. ASSUME cpc = "read" PROVE chain.sid < 0 <=> chain.i = chain.n
  <2>1. /\ counted = n /\ i <= n /\ (n = 0 => s = END) /\ chain.sid = w[i] /\ (n > 0 => IsChain(t, s, n))
    BY <1>1, <1>p DEF Chained
  <2>2. w[0] = s
    BY <1>p, WalkIs DEF Typed
  <2>3. CASE n = 0
    BY <1>p, <2>1, <2>2, <2>3 DEF END
  <2>4. CASE n > 0
    <3>1. w[n] < 0 /\ \A k \in 0..(n - 1) : w[k] \in 0..(Entries(t) - 1)
      BY <2>1, <2>4 DEF IsChain, END
    <3>2. CASE i = n
      BY <1>p, <2>1, <3>1, <3>2
    <3>3. CASE i # n
      <4>1. i \in 0..(n - 1)
        BY <2>1, <3>3
      <4>2. w[i] \in 0..(Entries(t) - 1)
        BY <3>1, <4>1
      <4>3. ~(w[i] < 0)
        <5>1. Entries(t) \in Int
          BY <1>p, EntriesType
        <5> DEFINE y == w[i]
                   e == Entries(t)
        <5>2. y \in 0..(e - 1) /\ e \in Int
          BY <4>2, <5>1
        <5> HIDE DEF y, e
        <5>3. ~(y < 0)
          BY <5>2
        <5> QED BY <5>3 DEF y
      <4> QED BY <1>p, <2>1, <3>3, <4>3
    <3> QED BY <3>2, <3>3
  <2> QED BY <2>3, <2>4
<1> QED BY <1>1 DEF CdfChains, Chained

\* Whatever a file says, however many sectors it has and whatever the limits are: what is
\* counted of a chain is the length of a chain that ends, without a sector twice; a chain
\* is refused only when it has no such length; reading it ends where counting it ended; and
\* no table is used outside the sectors read into it.  (cdf_count_chain and its callers)
THEOREM ChainsAreCounted == ReadersSpec => []CdfChains
<1>1. ReadersInit => Chained
  BY DEF ReadersInit, CdfInit, Chained
<1>2. Typed /\ Typed' /\ Chained /\ [ReadersNext]_readersVars => Chained'
  BY CdfSteps, ChainedInductive
<1>3. Typed /\ Chained => CdfChains
  BY ChainedSuffices
<1> QED BY <1>1, <1>2, <1>3, TypedInvariant, PTL DEF ReadersSpec
=============================================================================
