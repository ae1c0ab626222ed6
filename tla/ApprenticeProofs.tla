--------------------------- MODULE ApprenticeProofs ---------------------------
(***************************************************************************)
(* The compiler and its .mgc file, for any lines, number of files, bounds  *)
(* and files that were there before.                                       *)
(***************************************************************************)
EXTENDS Apprentice, SetInduction, SequenceTheorems, FiniteSetTheorems, TLAPS

USE BoundsAssumption DEF BoundsAssumption

-----------------------------------------------------------------------------
(* Joining sequences.                                                      *)

\* What FlattenSeq() computes, one turn after the other.
Joins(s, f) == \A i \in 1..Len(s) : f[i] = IF i = 1 THEN s[i] ELSE f[i - 1] \o s[i]

\* The turns exist.
LEMMA JoinExists ==
    ASSUME NEW X, NEW s \in Seq(Seq(X))
    PROVE  \E f : f = [i \in 1..Len(s) |-> IF i = 1 THEN s[i] ELSE f[i - 1] \o s[i]]
<1> DEFINE N == Len(s)
<1>0. N \in Nat
  OBVIOUS
<1> DEFINE Ok(n, f) == /\ f \in [1..n -> Seq(X)]
                       /\ \A i \in 1..n : f[i] = IF i = 1 THEN s[i] ELSE f[i - 1] \o s[i]
           S == {n \in Nat : n <= N => \E f \in [1..n -> Seq(X)] : Ok(n, f)}
<1>1. 0 \in S
  <2> DEFINE z == [i \in 1..0 |-> s]
  <2>1. 1..0 = {}
    OBVIOUS
  <2>2. z \in [1..0 -> Seq(X)]
    BY <2>1
  <2>3. Ok(0, z)
    BY <2>1, <2>2
  <2> HIDE DEF z, Ok
  <2> QED BY <2>2, <2>3
<1>2. ASSUME NEW n \in Nat, n \in S PROVE n + 1 \in S
  <2>0. n + 1 \in Nat /\ ((n + 1 <= N => \E f \in [1..(n + 1) -> Seq(X)] : Ok(n + 1, f)) => n + 1 \in S)
    <3> HIDE DEF Ok, N
    <3> QED OBVIOUS
  <2> SUFFICES ASSUME n + 1 <= N PROVE \E f \in [1..(n + 1) -> Seq(X)] : Ok(n + 1, f)
    <3> HIDE DEF Ok, N, S
    <3> QED BY <2>0
  <2>1. PICK f \in [1..n -> Seq(X)] : Ok(n, f)
    BY <1>0, <1>2
  <2> DEFINE last == IF n = 0 THEN s[1] ELSE f[n] \o s[n + 1]
  <2>2. last \in Seq(X)
    <3>1. n + 1 \in 1..Len(s) /\ s[n + 1] \in Seq(X)
      BY <1>0
    <3>2. n # 0 => f[n] \in Seq(X)
      OBVIOUS
    <3> QED BY <3>1, <3>2
  <2> DEFINE g == [i \in 1..(n + 1) |-> IF i = n + 1 THEN last ELSE f[i]]
  <2> HIDE DEF last
  <2>3. g \in [1..(n + 1) -> Seq(X)]
    BY <2>2
  <2>4. ASSUME NEW i \in 1..(n + 1) PROVE g[i] = IF i = 1 THEN s[i] ELSE g[i - 1] \o s[i]
    <3>1. CASE i = n + 1
      BY <3>1 DEF last
    <3>2. CASE i # n + 1
      <4>1. i \in 1..n /\ g[i] = f[i] /\ (i # 1 => i - 1 \in 1..n /\ g[i - 1] = f[i - 1])
        BY <3>2
      <4> QED BY <4>1, <2>1
    <3> QED BY <3>1, <3>2
  <2>5. Ok(n + 1, g)
    BY <2>3, <2>4
  <2> QED BY <2>3, <2>5
<1>3. N \in S
  <2> HIDE DEF S
  <2> QED BY <1>0, <1>1, <1>2, Induction
<1>4. PICK f \in [1..N -> Seq(X)] : Ok(N, f)
  BY <1>0, <1>3
<1>5. f = [i \in 1..N |-> IF i = 1 THEN s[i] ELSE f[i - 1] \o s[i]]
  BY <1>4
<1> QED BY <1>5

\* FlattenSeq() joins the sequences of a sequence.
LEMMA FlattenJoins ==
    ASSUME NEW X, NEW s \in Seq(Seq(X))
    PROVE  /\ s = << >> => FlattenSeq(s) = << >>
           /\ s # << >> => \E f : Joins(s, f) /\ FlattenSeq(s) = f[Len(s)]
<1>1. s = << >> => FlattenSeq(s) = << >>
  BY DEF FlattenSeq
<1>2. ASSUME s # << >> PROVE \E f : Joins(s, f) /\ FlattenSeq(s) = f[Len(s)]
  <2> DEFINE f == CHOOSE f : f = [i \in 1..Len(s) |-> IF i = 1 THEN s[i] ELSE f[i - 1] \o s[i]]
  <2>1. f = [i \in 1..Len(s) |-> IF i = 1 THEN s[i] ELSE f[i - 1] \o s[i]]
    BY JoinExists
  <2>2. FlattenSeq(s) = f[Len(s)]
    BY <1>2, EmptySeq DEF FlattenSeq
  <2>3. Joins(s, f)
    <3> HIDE DEF f
    <3> QED BY <2>1 DEF Joins
  <2> QED BY <2>2, <2>3
<1> QED BY <1>1, <1>2

\* What is joined is a sequence of the same elements.
LEMMA JoinedType ==
    ASSUME NEW X, NEW s \in Seq(Seq(X)), NEW f, Joins(s, f)
    PROVE  \A i \in 1..Len(s) : f[i] \in Seq(X)
<1> DEFINE N == Len(s)
           S == {n \in Nat : n + 1 <= N => f[n + 1] \in Seq(X)}
<1>0. N \in Nat /\ (\A i \in 1..N : s[i] \in Seq(X))
  OBVIOUS
<1>1. 0 \in S
  BY <1>0 DEF Joins
<1>2. ASSUME NEW n \in Nat, n \in S PROVE n + 1 \in S
  <2>1. ASSUME n + 2 <= N PROVE f[n + 2] \in Seq(X)
    <3>1. n + 1 \in 1..N /\ n + 2 \in 1..N /\ n + 2 # 1 /\ (n + 2) - 1 = n + 1 /\ f[n + 1] \in Seq(X)
      BY <1>0, <1>2, <2>1
    <3>2. f[n + 2] = f[n + 1] \o s[n + 2]
      BY <3>1 DEF Joins
    <3> QED BY <1>0, <3>1, <3>2
  <2>2. n + 1 \in Nat /\ (n + 1) + 1 = n + 2
    OBVIOUS
  <2> HIDE DEF N
  <2> QED BY <2>1, <2>2
<1>3. Nat \subseteq S
  <2> HIDE DEF S
  <2> QED BY <1>1, <1>2, Induction
<1>4. ASSUME NEW i \in 1..N PROVE f[i] \in Seq(X)
  <2> HIDE DEF N
  <2>1. i - 1 \in Nat /\ (i - 1) + 1 = i /\ i <= N
    BY <1>0
  <2>2. i - 1 \in S
    <3> HIDE DEF S
    <3> QED BY <1>3, <2>1
  <2> QED BY <2>1, <2>2
<1> QED BY <1>4

\* A function on an interval from 1 on is a sequence.
LEMMA SeqOver == ASSUME NEW X, NEW n \in Nat, NEW f \in [1..n -> X] PROVE f \in Seq(X)
BY SeqDef

\* coalesce_entries() leaves a sequence of entries.
LEMMA CoalesceType == ASSUME NEW s \in Seq(Seq(Entry)) PROVE coalesce_entries(s) \in Seq(Entry)
<1>1. CASE s = << >>
  <2>1. FlattenSeq(s) = << >>
    BY <1>1, FlattenJoins
  <2> QED BY <2>1, EmptySeq DEF coalesce_entries
<1>2. CASE s # << >>
  <2>1. PICK f : Joins(s, f) /\ FlattenSeq(s) = f[Len(s)]
    BY <1>2, FlattenJoins
  <2>2. Len(s) \in 1..Len(s)
    BY <1>2
  <2> QED BY <2>1, <2>2, JoinedType DEF coalesce_entries
<1> QED BY <1>1, <1>2

-----------------------------------------------------------------------------
(* Types.                                                                  *)

\* A line that is parsed as an entry has the parts of one.
LEMMA LineParts == ASSUME NEW l \in Lines
                   PROVE  /\ l.kind = "entry" => l \in EntryLine
                          /\ l.kind = "strength" => l.op \in {"+", "-", "*", "/"} /\ l.factor \in Nat
BY LinesAssumption DEF LinesAssumption, EntryLine, BangLine, SkipLine

\* parse() makes an entry.
LEMMA NewEntryType == ASSUME NEW l \in EntryLine, NEW n \in 1..MaxLines PROVE NewEntry(l, n) \in Entry
BY DEF NewEntry, EntryLine, Entry

\* A change of one part leaves an entry.
LEMMA EntryChanged ==
    ASSUME NEW m \in Entry
    PROVE  /\ \A o \in {"+", "-", "*", "/"}, f \in 0..255 : [m EXCEPT !.op = o, !.factor = f] \in Entry
           /\ \A x \in Extras : [m EXCEPT !.extra = @ \cup {x}] \in Entry
           /\ set_test_type(m) \in Entry
           /\ bs1(m) \in Entry
<1>1. \A o \in {"+", "-", "*", "/"}, f \in 0..255 : [m EXCEPT !.op = o, !.factor = f] \in Entry
  BY DEF Entry
<1>2. \A x \in Extras : [m EXCEPT !.extra = @ \cup {x}] \in Entry
  BY DEF Entry
<1>3. \A x \in {"none", "bin", "text"} : [m EXCEPT !.flag = x] \in Entry
  BY DEF Entry
<1>4. set_test_type(m) \in Entry
  BY <1>3 DEF set_test_type
<1>5. ASSUME NEW o \in SUBSET {"flag", "offset", "in_offset", "lineno", "range", "flags", "value", "mask"}
      PROVE  [m EXCEPT !.other = o] \in Entry
  BY DEF Entry
<1>6. m.other \in SUBSET {"flag", "offset", "in_offset", "lineno", "range", "flags", "value", "mask"}
  BY DEF Entry
<1>7. bs1(m) \in Entry
  BY <1>5, <1>6 DEF bs1, SymDiff
<1> QED BY <1>1, <1>2, <1>4, <1>7

\* addentry() adds an entry to one of the two sets.
LEMMA AddEntryType ==
    ASSUME NEW ms \in [Sets -> Seq(Seq(Entry))], NEW e \in Seq(Entry)
    PROVE  addentry(ms, e) \in [Sets -> Seq(Seq(Entry))]
<1>1. ASSUME NEW i \in Sets PROVE [ms EXCEPT ![i] = Append(@, e)] \in [Sets -> Seq(Seq(Entry))]
  BY AppendProperties
<1> QED BY <1>1 DEF addentry, Sets

\* What check_cond() leaves for the next line of the level.
LEMMA CheckCondType ==
    ASSUME NEW last \in Conds \ {"else"}, NEW cond \in Conds
    PROVE  check_cond(last, cond) \in (Conds \ {"else"}) \cup {"error"}
BY DEF check_cond, Conds

\* file_check_mem() forgets conditions only.
LEMMA CondsBeforeType == ASSUME TypeOK, NEW l \in EntryLine PROVE CondsBefore(l) \in [Levels -> Conds \ {"else"}]
BY DEF TypeOK, CondsBefore, EntryLine, Conds

\* set_text_binary() keeps the entries.
LEMMA TextBinaryType == ASSUME NEW e \in Seq(Entry) PROVE set_text_binary(e) \in Seq(Entry)
<1>1. CASE e = << >>
  <2>1. [e EXCEPT ![1] = set_test_type(@)] = e
    BY <1>1
  <2> QED BY <2>1 DEF set_text_binary
<1>2. CASE e # << >>
  <2>1. 1 \in 1..Len(e) /\ e[1] \in Entry
    BY <1>2
  <2>2. set_test_type(e[1]) \in Entry
    BY <2>1, EntryChanged
  <2>3. \A m \in Entry : [e EXCEPT ![1] = m] \in Seq(Entry)
    BY <2>1, ExceptSeq
  <2> QED BY <2>2, <2>3 DEF set_text_binary
<1> QED BY <1>1, <1>2

\* A sorted set holds its entries.
LEMMA SortedType ==
    ASSUME NEW t \in Seq(Seq(Entry)), NEW p \in Sorted(t)
    PROVE  /\ p \in [1..Len(t) -> 1..Len(t)]
           /\ [i \in DOMAIN p |-> t[p[i]]] \in Seq(Seq(Entry))
<1>1. p \in [1..Len(t) -> 1..Len(t)]
  BY DEF Sorted
<1>2. Len(t) \in Nat /\ DOMAIN p = 1..Len(t)
  BY <1>1
<1>3. \A i \in 1..Len(t) : t[p[i]] \in Seq(Entry)
  BY <1>1
<1> QED BY <1>1, <1>2, <1>3

\* The sets of a file that is accepted are two sequences of entries.
LEMMA UnpackedType == ASSUME NEW f \in MgcFile, check_buffer(f) PROVE Unpacked(f) \in [Sets -> Seq(Entry)]
<1>1. f.n[1] \in Nat /\ f.n[2] \in Nat /\ f.body \in Seq(Entry) /\ f.head \in BOOLEAN
  BY DEF MgcFile
<1> DEFINE b == f.body
           N == Len(b)
           n1 == f.n[1]
           n2 == f.n[2]
<1>2. n1 \in 0..N
  <2>1. N \in Nat
    BY <1>1
  <2>2. N = n1 + n2 \/ N = n1 + n2 + 1
    <3> DEFINE c == IF f.head THEN 1 ELSE 0
    <3>1. c \in {0, 1}
      OBVIOUS
    <3>2. c + N = n1 + n2 + 1
      BY DEF check_buffer
    <3>3. n1 \in Nat /\ n2 \in Nat
      BY <1>1
    <3> HIDE DEF c, N, n1, n2
    <3> QED BY <2>1, <3>1, <3>2, <3>3
  <2> HIDE DEF N, n1, n2
  <2>3. n1 \in Nat /\ n2 \in Nat
    BY <1>1 DEF n1, n2
  <2> QED BY <2>1, <2>2, <2>3
<1>3. SubSeq(b, 1, n1) \in Seq(Entry) /\ SubSeq(b, n1 + 1, N) \in Seq(Entry)
  <2> HIDE DEF b, n1
  <2>1. b \in Seq(Entry)
    BY <1>1 DEF b
  <2>2. \A i \in 1..N : b[i] \in Entry
    BY <2>1
  <2>3. N \in Nat
    BY <2>1
  <2> HIDE DEF N
  <2>4. \A i \in 1..n1 : b[i] \in Entry
    BY <1>2, <2>2, <2>3
  <2>5. \A i \in (n1 + 1)..N : b[i] \in Entry
    BY <1>2, <2>2, <2>3
  <2> QED BY <1>2, <2>3, <2>4, <2>5, SubSeqProperties
<1>4. ASSUME NEW s \in Seq(Entry) PROVE byteswap(s) \in Seq(Entry)
  <2> HIDE DEF b
  <2>1. ASSUME NEW i \in DOMAIN s PROVE bs1(s[i]) \in Entry
    <3>1. s[i] \in Entry
      OBVIOUS
    <3> QED BY <3>1, EntryChanged
  <2> QED BY <2>1 DEF byteswap
<1>5. \A j \in Sets : Unpacked(f)[j] \in Seq(Entry)
  BY <1>3, <1>4 DEF Unpacked, Sets
<1> QED BY <1>5 DEF Unpacked

\* Reading a line keeps the types.
LEMMA ReadLineType == ASSUME TypeOK, ReadLine PROVE TypeOK'
<1>0. line + 1 \in 1..MaxLines /\ line' = line + 1 /\ line' \in 0..MaxLines /\ line \in Nat
  BY DEF TypeOK, ReadLine
<1>1. /\ pc' = pc /\ action' = action /\ file' = file /\ map' = map /\ from' = from /\ mgc' = mgc /\ image' = image
      /\ cut' = cut /\ unmapped' = unmapped
  BY DEF ReadLine, disk
<1>2. PICK l \in Lines : \/ ParseEntry(l) \/ ParseOrphan(l) \/ ParseNoMemory(l) \/ BangError(l)
                         \/ parse_strength(l) \/ parse_extra(l) \/ Skip(l)
  BY DEF ReadLine
<1> DEFINE Typed == /\ me' \in Seq(Entry) /\ source' \in Seq(Entry) /\ mset' \in [Sets -> Seq(Seq(Entry))]
                    /\ lastLevel' \in Levels /\ lastCond' \in [Levels -> Conds \ {"else"}]
                    /\ errs' \in BOOLEAN /\ hadErr' \in BOOLEAN /\ jumped' \in BOOLEAN /\ magwarn' \in Nat
<1>3. SUFFICES Typed
  BY <1>0, <1>1 DEF TypeOK
<1>4. me \in Seq(Entry) /\ (me # << >> => /\ Len(me) \in 1..Len(me) /\ 1 \in 1..Len(me)
                                          /\ me[Len(me)] \in Entry /\ me[1] \in Entry)
  BY DEF TypeOK
<1>5. addentry(mset, me) \in [Sets -> Seq(Seq(Entry))]
  BY AddEntryType DEF TypeOK
<1>6. \A l2, l3 \in Int : l2 - l3 \in Int
  OBVIOUS
<1>7. ASSUME NEW m \in Entry, NEW x \in Entry
      PROVE  [i \in DOMAIN source |-> IF source[i] = m THEN x ELSE source[i]] \in Seq(Entry)
  <2> DEFINE n == Len(source)
             g == [i \in DOMAIN source |-> IF source[i] = m THEN x ELSE source[i]]
  <2>1. n \in Nat /\ DOMAIN source = 1..n /\ \A i \in 1..n : source[i] \in Entry
    BY DEF TypeOK
  <2>2. g \in [1..n -> Entry]
    BY <2>1
  <2> HIDE DEF g, n
  <2>3. g \in Seq(Entry)
    BY <2>1, <2>2, SeqOver
  <2> QED BY <2>3 DEF g
<1>8. CASE ParseEntry(l)
  <2>1. l \in EntryLine /\ l.level \in Levels /\ l.cond \in Conds
    BY <1>8, LineParts DEF ParseEntry, EntryLine
  <2> DEFINE m == NewEntry(l, line + 1)
             conds == CondsBefore(l)
             cond == check_cond(conds[l.level], l.cond)
  <2>2. m \in Entry
    BY <1>0, <2>1, NewEntryType
  <2>3. conds \in [Levels -> Conds \ {"else"}]
    BY <2>1, CondsBeforeType
  <2>4. cond \in (Conds \ {"else"}) \cup {"error"}
    BY <2>1, <2>3, CheckCondType
  <2> HIDE DEF m, conds, cond
  <2>5. lastCond' = (IF OffsetRead(l) /\ cond # "error" THEN [conds EXCEPT ![l.level] = cond] ELSE conds)
        /\ lastLevel' = l.level
    BY <1>8 DEF ParseEntry, m, conds, cond
  <2>6. lastCond' \in [Levels -> Conds \ {"else"}] /\ lastLevel' \in Levels
    BY <2>1, <2>3, <2>4, <2>5
  <2>7. me' \in Seq(Entry)
    <3>1. me' = IF l.level = 0 THEN << m >> ELSE Append(me, m)
      BY <1>8 DEF ParseEntry, m
    <3> QED BY <1>4, <2>2, <3>1
  <2>8. source' \in Seq(Entry)
    <3>1. source' = Append(source, m) \/ source' = source
      BY <1>8 DEF ParseEntry, m
    <3>2. source \in Seq(Entry)
      BY DEF TypeOK
    <3> QED BY <2>2, <3>1, <3>2, AppendProperties
  <2>9. mset' \in [Sets -> Seq(Seq(Entry))]
    BY <1>5, <1>8 DEF ParseEntry, TypeOK
  <2>10. errs' \in BOOLEAN /\ hadErr' \in BOOLEAN /\ jumped' \in BOOLEAN
    BY <1>8, Zenon DEF ParseEntry, TypeOK
  <2>11. magwarn' \in Nat
    <3>1. \E a, b \in {0, 1} : magwarn' = magwarn + (a + b)
      BY <1>8 DEF ParseEntry, Warn
    <3> QED BY <3>1 DEF TypeOK
  <2> QED BY <2>6, <2>7, <2>8, <2>9, <2>10, <2>11
<1>9. CASE ParseOrphan(l)
  <2>1. l \in EntryLine /\ l.level \in Levels
    BY <1>9, LineParts DEF ParseOrphan, EntryLine
  <2> QED BY <1>9, <2>1, CondsBeforeType DEF ParseOrphan, TypeOK, Fail
<1>10. CASE ParseNoMemory(l)
  <2>1. l \in EntryLine /\ l.level \in Levels
    BY <1>10, LineParts DEF ParseNoMemory, EntryLine
  <2>2. lastCond' \in [Levels -> Conds \ {"else"}] /\ lastLevel' \in Levels
    BY <1>10, <2>1, CondsBeforeType DEF ParseNoMemory
  <2>3. me' \in Seq(Entry) /\ mset' \in [Sets -> Seq(Seq(Entry))]
    BY <1>4, <1>5, <1>10, EmptySeq DEF ParseNoMemory, TypeOK
  <2>4. magwarn' \in Nat
    <3>1. \E a \in {0, 1} : magwarn' = magwarn + a
      BY <1>10 DEF ParseNoMemory, Warn
    <3> QED BY <3>1 DEF TypeOK
  <2> QED BY <1>10, <2>2, <2>3, <2>4 DEF ParseNoMemory, TypeOK, Fail
<1>11. CASE BangError(l)
  BY <1>11 DEF BangError, TypeOK, Fail
<1>12. CASE parse_strength(l)
  <2>1. l.kind = "strength" /\ l.op \in {"+", "-", "*", "/"} /\ l.factor \in Nat
    BY <1>12, LineParts DEF parse_strength
  <2> DEFINE set == [me[1] EXCEPT !.op = l.op, !.factor = l.factor]
  <2>2. me[1] \in Entry /\ (l.factor <= 255 => set \in Entry)
    <3>1. me[1] \in Entry
      BY <1>4, <1>12 DEF parse_strength
    <3>2. ASSUME l.factor <= 255 PROVE set \in Entry
      <4>1. l.factor \in 0..255
        BY <2>1, <3>2
      <4>2. \A o \in {"+", "-", "*", "/"}, f \in 0..255 : [me[1] EXCEPT !.op = o, !.factor = f] \in Entry
        BY <3>1, EntryChanged
      <4> QED BY <2>1, <4>1, <4>2
    <3> QED BY <3>1, <3>2
  <2>3. set \in Entry => [me EXCEPT ![1] = set] \in Seq(Entry)
    <3> HIDE DEF set
    <3> QED BY <1>4, <1>12, ExceptSeq DEF parse_strength
  <2>4. \/ me' = me /\ source' = source
        \/ /\ l.factor <= 255 /\ me' = [me EXCEPT ![1] = set]
           /\ source' = [i \in DOMAIN source |-> IF source[i] = me[1] THEN set ELSE source[i]]
    BY <1>12 DEF parse_strength
  <2> HIDE DEF set
  <2>5. me' \in Seq(Entry) /\ source' \in Seq(Entry)
    <3>1. CASE me' = me /\ source' = source
      BY <1>4, <3>1 DEF TypeOK
    <3>2. CASE /\ l.factor <= 255 /\ me' = [me EXCEPT ![1] = set]
               /\ source' = [i \in DOMAIN source |-> IF source[i] = me[1] THEN set ELSE source[i]]
      <4>1. set \in Entry
        BY <2>2, <3>2
      <4>2. me' \in Seq(Entry)
        BY <2>3, <3>2, <4>1
      <4>3. source' \in Seq(Entry)
        <5> DEFINE n == Len(source)
                   f == [i \in 1..n |-> IF source[i] = me[1] THEN set ELSE source[i]]
        <5>1. n \in Nat /\ DOMAIN source = 1..n /\ \A i \in 1..n : source[i] \in Entry
          BY DEF TypeOK
        <5>2. source' = f
          BY <3>2, <5>1
        <5> HIDE DEF n
        <5>3. f \in [1..n -> Entry]
          BY <4>1, <5>1
        <5> HIDE DEF f
        <5> QED BY <5>1, <5>2, <5>3, SeqOver
      <4> QED BY <4>2, <4>3
    <3> QED BY <2>4, <3>1, <3>2
  <2>6. errs' \in BOOLEAN
    BY <1>12, Zenon DEF parse_strength
  <2>7. magwarn' \in Nat
    <3>1. \E a \in {0, 1} : magwarn' = magwarn + a
      BY <1>12 DEF parse_strength, Warn
    <3> QED BY <3>1 DEF TypeOK
  <2> QED BY <1>12, <2>5, <2>6, <2>7 DEF parse_strength, TypeOK
<1>13. CASE parse_extra(l)
  <2> DEFINE m == Last(me)
             set == [m EXCEPT !.extra = @ \cup {l.what}]
  <2>1. m \in Entry /\ set \in Entry
    BY <1>4, <1>13, EntryChanged DEF parse_extra, Last
  <2>2. \/ me' = me /\ source' = source
        \/ /\ me' = Front(me) \o << set >>
           /\ source' = [i \in DOMAIN source |-> IF source[i] = m THEN set ELSE source[i]]
    BY <1>13 DEF parse_extra
  <2>3. Front(me) \in Seq(Entry)
    BY <1>4, <1>13 DEF parse_extra, Front
  <2> HIDE DEF m, set
  <2>4. me' \in Seq(Entry) /\ source' \in Seq(Entry)
    <3>1. << set >> \in Seq(Entry)
      BY <2>1
    <3>2. Front(me) \o << set >> \in Seq(Entry)
      BY <2>3, <3>1, ConcatProperties
    <3>3. source \in Seq(Entry)
      BY DEF TypeOK
    <3> QED BY <1>4, <1>7, <2>1, <2>2, <3>2, <3>3
  <2>5. errs' \in BOOLEAN /\ hadErr' \in BOOLEAN
    BY <1>13, Zenon DEF parse_extra
  <2>6. magwarn' \in Nat
    <3>1. \E a \in {0, 1} : magwarn' = magwarn + a
      BY <1>13 DEF parse_extra, Warn
    <3> QED BY <3>1 DEF TypeOK
  <2> QED BY <1>13, <2>4, <2>5, <2>6 DEF parse_extra, TypeOK
<1>14. CASE Skip(l)
  BY <1>14 DEF Skip, TypeOK
<1> QED BY <1>2, <1>8, <1>9, <1>10, <1>11, <1>12, <1>13, <1>14

\* set_last_default() gives a number of warnings.
LEMMA FewSets ==
    ASSUME NEW s0, NEW s1 PROVE Cardinality({s \in {s0, s1} : DefaultNotLast(s)}) \in Nat
<1>1. IsFiniteSet({s0, s1})
  <2>1. {s0, s1} = {s0} \cup {s1}
    OBVIOUS
  <2>2. IsFiniteSet({s0}) /\ IsFiniteSet({s1})
    BY FS_Singleton
  <2>3. IsFiniteSet({s0} \cup {s1})
    BY <2>2, FS_Union
  <2> QED BY <2>1, <2>3
<1>2. IsFiniteSet({s \in {s0, s1} : DefaultNotLast(s)})
  BY <1>1, FS_Subset
<1> QED BY <1>2, FS_CardinalityType

\* Sorting and joining keeps the types.
LEMMA SortAndJoinType == ASSUME TypeOK, SortAndJoin PROVE TypeOK'
<1> DEFINE typed == [j \in Sets |-> [i \in DOMAIN mset[j] |-> set_text_binary(mset[j][i])]]
<1>1. ASSUME NEW j \in Sets PROVE typed[j] \in Seq(Seq(Entry))
  <2>1. mset[j] \in Seq(Seq(Entry))
    BY DEF TypeOK
  <2> DEFINE s == mset[j]
  <2> HIDE DEF s
  <2>2. ASSUME NEW i \in DOMAIN s PROVE set_text_binary(s[i]) \in Seq(Entry)
    <3>1. s[i] \in Seq(Entry)
      BY <2>1 DEF s
    <3> QED BY <3>1, TextBinaryType
  <2>3. [i \in DOMAIN s |-> set_text_binary(s[i])] \in Seq(Seq(Entry))
    <3> DEFINE n == Len(s)
               g == [i \in DOMAIN s |-> set_text_binary(s[i])]
    <3>1. s \in Seq(Seq(Entry))
      BY <2>1 DEF s
    <3>2. n \in Nat /\ DOMAIN s = 1..n
      BY <3>1
    <3>3. g \in [1..n -> Seq(Entry)]
      BY <2>2, <3>2
    <3> HIDE DEF g, n
    <3>4. g \in Seq(Seq(Entry))
      BY <3>2, <3>3, SeqOver
    <3> QED BY <3>4 DEF g
  <2> QED BY <2>3 DEF s
<1>2. \E p \in Sorted(typed[0]), q \in Sorted(typed[1]) :
        LET s0 == [i \in DOMAIN p |-> typed[0][p[i]]]
            s1 == [i \in DOMAIN q |-> typed[1][q[i]]]
        IN  /\ map' = [j \in Sets |-> coalesce_entries(IF j = 0 THEN s0 ELSE s1)]
            /\ Warn(Cardinality({s \in {s0, s1} : DefaultNotLast(s)}))
  BY DEF SortAndJoin
<1> HIDE DEF typed
<1>3. PICK p \in Sorted(typed[0]), q \in Sorted(typed[1]) :
        LET s0 == [i \in DOMAIN p |-> typed[0][p[i]]]
            s1 == [i \in DOMAIN q |-> typed[1][q[i]]]
        IN  /\ map' = [j \in Sets |-> coalesce_entries(IF j = 0 THEN s0 ELSE s1)]
            /\ Warn(Cardinality({s \in {s0, s1} : DefaultNotLast(s)}))
  BY <1>2
<1> DEFINE s0 == [i \in DOMAIN p |-> typed[0][p[i]]]
           s1 == [i \in DOMAIN q |-> typed[1][q[i]]]
<1>4. s0 \in Seq(Seq(Entry)) /\ s1 \in Seq(Seq(Entry))
  <2>1. typed[0] \in Seq(Seq(Entry)) /\ typed[1] \in Seq(Seq(Entry))
    BY <1>1 DEF Sets
  <2> QED BY <2>1, SortedType
<1>5. map' = [j \in Sets |-> coalesce_entries(IF j = 0 THEN s0 ELSE s1)]
      /\ magwarn' = magwarn + Cardinality({s \in {s0, s1} : DefaultNotLast(s)})
  BY <1>3 DEF Warn
<1> HIDE DEF s0, s1
<1>6. map' \in [Sets -> Seq(Entry)]
  BY <1>4, <1>5, CoalesceType
<1>7. magwarn' \in Nat
  <2>1. Cardinality({s \in {s0, s1} : DefaultNotLast(s)}) \in Nat
    BY FewSets
  <2> QED BY <1>5, <2>1 DEF TypeOK
<1>8. mset' \in [Sets -> Seq(Seq(Entry))]
  BY EmptySeq DEF SortAndJoin, EmptyMap
<1> QED BY <1>6, <1>7, <1>8 DEF SortAndJoin, TypeOK, disk

\* Every variable of the compiler has its type.
THEOREM TypeCorrect == Spec => []TypeOK
<1>1. Init => TypeOK
  <2> SUFFICES ASSUME Init PROVE TypeOK
    OBVIOUS
  <2>1. lastCond \in [Levels -> Conds \ {"else"}] /\ 0 \in Levels
    BY DEF Init, Conds, Levels
  <2>2. PICK o \in OldFiles : mgc = o.file /\ image = o.image
    BY DEF Init
  <2>3. mgc \in MgcFile /\ image \in [Sets -> Seq(Entry)]
    BY <2>2, OldFilesAssumption DEF OldFilesAssumption
  <2>4. me \in Seq(Entry) /\ source \in Seq(Entry) /\ mset \in [Sets -> Seq(Seq(Entry))]
        /\ map \in [Sets -> Seq(Entry)]
    BY EmptySeq DEF Init, EmptyMap
  <2>5. 0 \in 0..Files /\ 0 \in 0..MaxLines
    OBVIOUS
  <2> QED BY <2>1, <2>3, <2>4, <2>5 DEF Init, TypeOK
<1>2. TypeOK /\ [Next]_vars => TypeOK'
  <2> SUFFICES ASSUME TypeOK, [Next]_vars PROVE TypeOK'
    OBVIOUS
  <2>0. EmptyMap \in [Sets -> Seq(Entry)] /\ EmptyMap \in [Sets -> Seq(Seq(Entry))]
    BY EmptySeq DEF EmptyMap
  <2>1. CASE UNCHANGED vars
    BY <2>1 DEF TypeOK, vars
  <2>2. CASE OpenFile
    <3>1. file' \in 0..Files
      BY <2>2 DEF OpenFile, TypeOK
    <3>2. errs' \in BOOLEAN /\ hadErr' \in BOOLEAN /\ me' \in Seq(Entry)
      BY <2>2, EmptySeq DEF OpenFile, TypeOK, Fail
    <3> QED BY <2>2, <3>1, <3>2 DEF OpenFile, TypeOK, disk
  <2>3. CASE ReadLine
    BY <2>3, ReadLineType
  <2>4. ASSUME FinishFile, cut' \subseteq {"magwarn", "getline"} PROVE TypeOK'
    <3>1. me # << >> => addentry(mset, me) \in [Sets -> Seq(Seq(Entry))]
      BY AddEntryType DEF TypeOK
    <3>2. mset' \in [Sets -> Seq(Seq(Entry))] /\ me' \in Seq(Entry)
      BY <2>4, <3>1, EmptySeq DEF FinishFile, TypeOK
    <3>3. hadErr' \in BOOLEAN
      BY <2>4 DEF FinishFile, TypeOK
    <3> QED BY <2>4, <3>2, <3>3 DEF FinishFile, TypeOK, disk
  <2>14. CASE CloseFile \/ StopReading
    <3>1. FinishFile /\ cut' \subseteq {"magwarn", "getline"}
      BY <2>14 DEF CloseFile, StopReading, TypeOK
    <3> QED BY <2>4, <3>1
  <2>5. CASE SortAndJoin
    BY <2>5, SortAndJoinType
  <2>6. CASE LoadFails
    BY <2>6, <2>0 DEF LoadFails, TypeOK, disk
  <2>7. CASE OpenTruncated
    <3>1. [NoFile EXCEPT !.there = TRUE] \in MgcFile
      BY EmptySeq DEF NoFile, MgcFile
    <3> QED BY <2>7, <2>0, <3>1 DEF OpenTruncated, TypeOK, disk, parser
  <2>8. CASE WriteHeader
    <3>1. \A t \in BOOLEAN : [mgc EXCEPT !.torn = t] \in MgcFile
      BY DEF TypeOK, MgcFile
    <3>2. << Len(map[0]), Len(map[1]) >> \in Nat \X Nat
      BY DEF TypeOK, Sets
    <3>3. \A n \in Nat \X Nat : [mgc EXCEPT !.head = TRUE, !.order = "host", !.version = TRUE, !.n = n] \in MgcFile
      BY DEF TypeOK, MgcFile
    <3>4. mgc' \in MgcFile
      BY <2>8, <3>1, <3>2, <3>3 DEF WriteHeader, CompileFails
    <3> QED BY <2>8, <2>0, <3>4 DEF WriteHeader, CompileFails, TypeOK, parser
  <2>9. ASSUME NEW j \in Sets, WriteSet(j) PROVE TypeOK'
    <3>1. map[j] \in Seq(Entry) /\ mgc.body \in Seq(Entry)
      BY DEF TypeOK, MgcFile
    <3>2. \A b \in Seq(Entry), t \in BOOLEAN : [mgc EXCEPT !.body = b] \in MgcFile
                                               /\ [mgc EXCEPT !.body = b, !.torn = t] \in MgcFile
      BY DEF TypeOK, MgcFile
    <3>3. mgc.body \o map[j] \in Seq(Entry)
      BY <3>1
    <3>4. ASSUME NEW k \in 0..(Len(map[j]) - 1) PROVE mgc.body \o SubSeq(map[j], 1, k) \in Seq(Entry)
      <4> DEFINE s == map[j]
      <4> HIDE DEF s
      <4>1. s \in Seq(Entry) /\ k \in 0..(Len(s) - 1)
        BY <3>1 DEF s
      <4>2. SubSeq(s, 1, k) \in Seq(Entry)
        BY <4>1
      <4> QED BY <3>1, <4>2 DEF s
    <3>5. mgc' \in MgcFile
      <4>1. CASE mgc' = [mgc EXCEPT !.body = @ \o map[j]]
        <5> DEFINE b == mgc.body \o map[j]
        <5>1. b \in Seq(Entry) /\ mgc' = [mgc EXCEPT !.body = b]
          BY <3>3, <4>1
        <5> HIDE DEF b
        <5> QED BY <3>2, <5>1
      <4>2. ASSUME NEW k \in 0..(Len(map[j]) - 1), NEW t \in BOOLEAN,
                   CompileFails([mgc EXCEPT !.body = @ \o SubSeq(map[j], 1, k), !.torn = t])
            PROVE  mgc' \in MgcFile
        <5> DEFINE b == mgc.body \o SubSeq(map[j], 1, k)
        <5>1. b \in Seq(Entry)
          BY <3>4
        <5>2. mgc' = [mgc EXCEPT !.body = b, !.torn = t]
          BY <4>2 DEF CompileFails
        <5> HIDE DEF b
        <5> QED BY <3>2, <5>1, <5>2
      <4> QED BY <2>9, <4>1, <4>2 DEF WriteSet
    <3> QED BY <2>9, <2>0, <3>5 DEF WriteSet, CompileFails, TypeOK, parser, Sets
  <2>10. CASE MapFile
    <3>1. Unpacked(mgc) \in [Sets -> Seq(Entry)]
      BY <2>10, UnpackedType DEF MapFile, TypeOK
    <3> QED BY <2>10, <3>1 DEF MapFile, TypeOK, parser, disk
  <2>11. CASE MapRefused
    <3>1. hadErr' \in BOOLEAN
      BY <2>11 DEF MapRefused
    <3> QED BY <2>11, <3>1 DEF MapRefused, TypeOK, parser, disk
  <2>15. CASE MapFails
    <3>1. hadErr' \in BOOLEAN /\ unmapped' \in BOOLEAN
      BY <2>15 DEF MapFails, TypeOK, check_buffer
    <3> QED BY <2>15, <3>1 DEF MapFails, TypeOK, parser, disk
  <2>12. CASE NextProcess
    <3>1. lastCond' \in [Levels -> Conds \ {"else"}] /\ 0 \in Levels
      BY <2>12 DEF NextProcess, Fresh, Conds, Levels
    <3>2. 0 \in 0..Files
      OBVIOUS
    <3> QED BY <2>12, <2>0, <3>1, <3>2, EmptySeq DEF NextProcess, Fresh, TypeOK, disk
  <2>13. CASE Done
    BY <2>13 DEF Done, TypeOK, vars
  <2> QED BY <2>1, <2>2, <2>3, <2>4, <2>5, <2>6, <2>7, <2>8, <2>9, <2>10, <2>11, <2>12, <2>13, <2>14,
                <2>15 DEF Next
<1> QED BY <1>1, <1>2, PTL DEF Spec

-----------------------------------------------------------------------------
(* The .mgc file as a store.                                               *)

\* What a process that maps the file gets.
Stored(f) == IF f.there /\ check_buffer(f) THEN Unpacked(f) ELSE EmptyMap

\* A file that is being written from the database m, of which b was written.
Begun(f, m, b) == /\ f.there /\ f.head /\ f.order = "host" /\ f.version
                  /\ f.n[1] = Len(m[0]) /\ f.n[2] = Len(m[1]) /\ f.body = b

\* What is written at each step of the compiler; a process that loads the source
\* has refused the file, or could not map it, which a compiler does not try.
Written ==
    /\ action = "load" /\ pc \in {"load", "file"} => ~(mgc.there /\ check_buffer(mgc)) \/ unmapped
    /\ action = "compile" \/ pc = "map" => ~unmapped
    /\ pc = "map" => action = "load"
    /\ pc \in {"header", "set0", "set1"} => image = map /\ ~mgc.torn
    /\ pc = "header" => mgc.there /\ mgc.order = "bad" /\ mgc.body = << >>
    /\ pc = "set0" => Begun(mgc, map, << >>)
    /\ pc = "set1" => Begun(mgc, map, map[0])

\* Without its header a file is refused.
LEMMA NoHeaderRefused == ASSUME NEW f, f.order = "bad" PROVE Stored(f) = EmptyMap
BY DEF check_buffer, Stored

\* A file that lacks an entry is refused.
LEMMA PartRefused ==
    ASSUME NEW m \in [Sets -> Seq(Entry)], NEW b \in Seq(Entry), NEW f, Begun(f, m, b),
           Len(b) # Len(m[0]) + Len(m[1])
    PROVE  Stored(f) = EmptyMap
<1> DEFINE N == Len(b)
           n1 == Len(m[0])
           n2 == Len(m[1])
<1>1. f.head /\ f.body = b /\ f.n[1] = n1 /\ f.n[2] = n2
  BY DEF Begun
<1>2. N \in Nat /\ n1 \in Nat /\ n2 \in Nat
  BY DEF Sets
<1>3. check_buffer(f) => 1 + N = n1 + n2 + 1
  <2> HIDE DEF n1, n2
  <2> QED BY <1>1 DEF check_buffer
<1>4. ~check_buffer(f)
  <2>1. N # n1 + n2
    OBVIOUS
  <2> HIDE DEF N, n1, n2
  <2> QED BY <1>2, <1>3, <2>1
<1> QED BY <1>4 DEF Stored

\* A whole file is accepted and gives back the database it was written from, unless
\* that has no entries.
LEMMA WholeStored ==
    ASSUME NEW m \in [Sets -> Seq(Entry)], NEW f, Begun(f, m, m[0] \o m[1]), ~f.torn
    PROVE  Stored(f) = m
<1> DEFINE b == m[0] \o m[1]
           N == Len(b)
           n1 == Len(m[0])
           n2 == Len(m[1])
<1>0. m[0] \in Seq(Entry) /\ m[1] \in Seq(Entry) /\ b \in Seq(Entry) /\ Sets = {0, 1}
  BY DEF Sets
<1>1. f.there /\ f.head /\ f.version /\ f.order = "host" /\ f.body = b /\ f.n[1] = n1 /\ f.n[2] = n2
  BY DEF Begun
<1>2. n1 \in Nat /\ n2 \in Nat /\ N = n1 + n2
  BY <1>0
<1>3. CASE N = 0
  <2>1. n1 = 0 /\ n2 = 0
    <3> HIDE DEF N, n1, n2
    <3> QED BY <1>2, <1>3
  <2>2. m[0] = << >> /\ m[1] = << >>
    BY <1>0, <2>1, EmptySeq
  <2>3. m = EmptyMap
    BY <1>0, <2>2 DEF EmptyMap
  <2>4. ~check_buffer(f)
    <3> HIDE DEF b
    <3> QED BY <1>1, <1>3 DEF check_buffer
  <2> QED BY <2>3, <2>4 DEF Stored
<1>4. CASE N # 0
  <2>1. check_buffer(f)
    <3> HIDE DEF b, n1, n2
    <3>1. N \in Nat /\ n1 <= 1 + N /\ n2 <= 1 + N /\ 1 + N = n1 + n2 + 1 /\ 1 + N >= 2
      <4> HIDE DEF N
      <4> QED BY <1>2, <1>4
    <3> QED BY <1>1, <3>1 DEF check_buffer
  <2>2. SubSeq(b, 1, n1) = m[0] /\ SubSeq(b, n1 + 1, N) = m[1]
    <3> DEFINE x == m[0]
               y == m[1]
    <3> HIDE DEF x, y
    <3>1. x \in Seq(Entry) /\ y \in Seq(Entry) /\ b = x \o y /\ n1 = Len(x) /\ n2 = Len(y)
      BY <1>0 DEF x, y
    <3> HIDE DEF b
    <3>2. SubSeq(b, 1, Len(x)) = x
      BY <3>1, SubSeqFull
    <3>3. SubSeq(b, Len(x) + 1, Len(b)) = y
      BY <3>1, SubSeqFull
    <3> QED BY <3>1, <3>2, <3>3 DEF x, y
  <2>3. Unpacked(f) = [j \in Sets |-> IF j = 0 THEN SubSeq(b, 1, n1) ELSE SubSeq(b, n1 + 1, N)]
    <3> HIDE DEF n1, b
    <3> QED BY <1>1 DEF Unpacked
  <2>4. Unpacked(f) = m
    <3> HIDE DEF b, n1, N
    <3> QED BY <1>0, <2>2, <2>3
  <2> QED BY <1>1, <2>1, <2>4 DEF Stored
<1> QED BY <1>3, <1>4

\* With nothing of the entries written nothing is stored.
LEMMA EmptyStored ==
    ASSUME NEW m \in [Sets -> Seq(Entry)], NEW f, Begun(f, m, << >>), ~f.torn
    PROVE  Stored(f) = EmptyMap
<1>1. CASE Len(m[0]) + Len(m[1]) = 0
  <2>1. Len(m[0]) = 0 /\ Len(m[1]) = 0
    BY <1>1 DEF Sets
  <2>2. m[0] = << >> /\ m[1] = << >>
    BY <2>1, EmptySeq DEF Sets
  <2>3. m = EmptyMap /\ << >> = m[0] \o m[1]
    BY <2>2, ConcatEmptySeq DEF EmptyMap, Sets
  <2> QED BY <2>3, WholeStored
<1>2. CASE Len(m[0]) + Len(m[1]) # 0
  <2>1. << >> \in Seq(Entry) /\ Len(<< >>) = 0
    BY EmptySeq
  <2> QED BY <1>2, <2>1, PartRefused
<1> QED BY <1>1, <1>2

\* With the first set written nothing is stored, or everything when the second is empty.
LEMMA FirstStored ==
    ASSUME NEW m \in [Sets -> Seq(Entry)], NEW f, Begun(f, m, m[0]), ~f.torn
    PROVE  Stored(f) \in {EmptyMap, m}
<1>0. m[0] \in Seq(Entry) /\ m[1] \in Seq(Entry)
  BY DEF Sets
<1>1. CASE m[1] = << >>
  <2>1. m[0] = m[0] \o m[1]
    BY <1>0, <1>1, ConcatEmptySeq
  <2> QED BY <2>1, WholeStored
<1>2. CASE m[1] # << >>
  <2>1. Len(m[0]) # Len(m[0]) + Len(m[1])
    <3> DEFINE n1 == Len(m[0])
               n2 == Len(m[1])
    <3>1. n1 \in Nat /\ n2 \in Nat /\ n2 # 0
      BY <1>0, <1>2, EmptySeq
    <3> HIDE DEF n1, n2
    <3>2. n1 # n1 + n2
      BY <3>1
    <3> QED BY <3>2 DEF n1, n2
  <2> QED BY <1>0, <2>1, PartRefused
<1> QED BY <1>1, <1>2

\* A write of a set that was cut short leaves fewer entries than the header says.
LEMMA CutShort ==
    ASSUME NEW m \in [Sets -> Seq(Entry)], NEW j \in Sets, NEW k \in 0..(Len(m[j]) - 1),
           NEW b, b = IF j = 0 THEN << >> ELSE m[0]
    PROVE  /\ b \o SubSeq(m[j], 1, k) \in Seq(Entry)
           /\ Len(b \o SubSeq(m[j], 1, k)) # Len(m[0]) + Len(m[1])
           /\ Len(b) # Len(m[0]) + Len(m[1])
<1>0. m[0] \in Seq(Entry) /\ m[1] \in Seq(Entry) /\ m[j] \in Seq(Entry) /\ j \in {0, 1}
  BY DEF Sets
<1> DEFINE x == m[j]
           y == SubSeq(x, 1, k)
<1>1. y \in Seq(Entry) /\ Len(y) = k /\ k < Len(x) /\ k \in Nat
  <2> HIDE DEF x
  <2>1. x \in Seq(Entry) /\ k \in 0..(Len(x) - 1)
    BY <1>0 DEF x
  <2> QED BY <2>1
<1> HIDE DEF y
<1>2. CASE j = 0
  <2>1. b = << >> /\ b \o y = y /\ Len(b) = 0
    BY <1>1, <1>2, ConcatEmptySeq, EmptySeq
  <2> DEFINE n1 == Len(m[0])
             n2 == Len(m[1])
  <2>2. n1 \in Nat /\ n2 \in Nat /\ k < n1
    BY <1>0, <1>1, <1>2
  <2>3. k # n1 + n2 /\ 0 # n1 + n2
    <3> HIDE DEF n1, n2
    <3> QED BY <1>1, <2>2
  <2> QED BY <1>1, <2>1, <2>3 DEF y
<1>3. CASE j = 1
  <2>0. b = m[0] /\ b \in Seq(Entry)
    BY <1>0, <1>3
  <2>1. b \o y \in Seq(Entry) /\ Len(b \o y) = Len(b) + Len(y)
    BY <1>1, <2>0, ConcatProperties
  <2> DEFINE n1 == Len(m[0])
             n2 == Len(m[1])
  <2>2. n1 \in Nat /\ n2 \in Nat /\ k < n2
    BY <1>0, <1>1, <1>3
  <2>3. n1 + k # n1 + n2 /\ n1 # n1 + n2
    <3> HIDE DEF n1, n2
    <3> QED BY <1>1, <2>2
  <2> QED BY <1>1, <2>0, <2>1, <2>3 DEF y
<1> QED BY <1>0, <1>2, <1>3

\* The file is where the compiler is.
LEMMA WrittenInductive ==
    ASSUME TypeOK, Written, [Next]_vars PROVE Written'
<1>1. CASE UNCHANGED vars
  BY <1>1 DEF Written, vars, Begun, check_buffer
<1>2. CASE OpenFile \/ ReadLine \/ CloseFile \/ StopReading
  <2>1. /\ pc' \in {"load", "file"} /\ pc \in {"load", "file"} /\ action' = action /\ mgc' = mgc
        /\ unmapped' = unmapped
    BY <1>2 DEF OpenFile, ReadLine, CloseFile, StopReading, FinishFile, disk
  <2> QED BY <2>1 DEF Written, check_buffer
<1>3. CASE SortAndJoin \/ LoadFails
  <2>1. pc' \in {"open", "loaded", "failed"} /\ action' = action /\ unmapped' = unmapped
    BY <1>3 DEF SortAndJoin, LoadFails
  <2> QED BY <2>1 DEF Written
<1>4. CASE OpenTruncated
  <2>0. action' = action /\ unmapped' = unmapped
    BY <1>4 DEF OpenTruncated
  <2>1. CASE pc' = "header"
    <3>1. mgc' = [NoFile EXCEPT !.there = TRUE] /\ image' = map /\ map' = map
      BY <1>4, <2>1 DEF OpenTruncated
    <3> QED BY <2>0, <2>1, <3>1 DEF Written, NoFile
  <2>2. CASE pc' = "failed"
    BY <2>0, <2>2 DEF Written
  <2> QED BY <1>4, <2>1, <2>2 DEF OpenTruncated
<1>5. CASE WriteHeader
  <2>0. action' = action /\ unmapped' = unmapped
    BY <1>5 DEF WriteHeader
  <2>1. CASE pc' = "failed"
    BY <2>0, <2>1 DEF Written
  <2>2. CASE pc' # "failed"
    <3>1. /\ pc = "header" /\ pc' = "set0" /\ map' = map /\ image' = image
          /\ mgc' = [mgc EXCEPT !.head = TRUE, !.order = "host", !.version = TRUE,
                                !.n = << Len(map[0]), Len(map[1]) >>]
      BY <1>5, <2>2 DEF WriteHeader, CompileFails
    <3>2. mgc.there /\ ~mgc.torn /\ mgc.body = << >>
      BY <3>1 DEF Written
    <3>3. Begun(mgc', map, << >>) /\ ~mgc'.torn
      BY <3>1, <3>2 DEF TypeOK, MgcFile, Begun
    <3> QED BY <2>0, <3>1, <3>3 DEF Written, Begun
  <2> QED BY <2>1, <2>2
<1>6. ASSUME NEW j \in Sets, WriteSet(j) PROVE Written'
  <2>0. action' = action /\ unmapped' = unmapped
    BY <1>6 DEF WriteSet
  <2>1. CASE pc' \in {"failed", "compiled"}
    BY <2>0, <2>1 DEF Written
  <2>2. CASE pc' \notin {"failed", "compiled"}
    <3>1. /\ j = 0 /\ pc = "set0" /\ pc' = "set1" /\ map' = map /\ image' = image
          /\ mgc' = [mgc EXCEPT !.body = @ \o map[0]]
      BY <1>6, <2>2 DEF WriteSet, CompileFails, Sets
    <3>2. << >> \o map[0] = map[0]
      BY ConcatEmptySeq DEF TypeOK, Sets
    <3>3. mgc.body = << >> /\ Begun(mgc, map, << >>) /\ ~mgc.torn
      BY <3>1 DEF Written, Begun
    <3>4. mgc' = [mgc EXCEPT !.body = map[0]]
      BY <3>1, <3>2, <3>3
    <3>5. Begun(mgc', map, map[0]) /\ ~mgc'.torn
      BY <3>3, <3>4 DEF TypeOK, MgcFile, Begun
    <3> QED BY <2>0, <3>1, <3>3, <3>5 DEF Written, Begun
  <2> QED BY <2>1, <2>2
<1>7. CASE MapFile \/ NextProcess
  <2>1. CASE MapFile
    <3>1. pc = "map" /\ pc' = "loaded" /\ unmapped' = unmapped
      BY <2>1 DEF MapFile
    <3> QED BY <3>1 DEF Written
  <2>2. CASE NextProcess
    <3>1. pc' = "map" /\ action' = "load" /\ ~unmapped'
      BY <2>2 DEF NextProcess, Fresh
    <3> QED BY <3>1 DEF Written
  <2> QED BY <1>7, <2>1, <2>2
<1>8. CASE MapRefused
  BY <1>8 DEF MapRefused, Written, disk
<1>10. CASE MapFails
  <2>1. /\ pc = "map" /\ pc' = "load" /\ mgc' = mgc /\ action' = action
        /\ unmapped' = (mgc.there /\ check_buffer(mgc))
    BY <1>10 DEF MapFails, disk
  <2>2. (mgc.there /\ check_buffer(mgc))' = (mgc.there /\ check_buffer(mgc))
    BY <2>1 DEF check_buffer
  <2>3. action # "compile"
    BY <2>1 DEF Written
  <2> QED BY <2>1, <2>2, <2>3 DEF Written
<1>9. CASE Done
  BY <1>1, <1>9 DEF Done
<1> QED BY <1>1, <1>2, <1>3, <1>4, <1>5, <1>6, <1>7, <1>8, <1>9, <1>10 DEF Next

\* The compiled file is what it promises to be.
LEMMA WrittenInvariant == Spec => []Written
<1>1. Init => Written
  BY DEF Init, Written
<1>2. TypeOK /\ Written /\ [Next]_vars => Written'
  BY WrittenInductive
<1> QED BY <1>1, <1>2, TypeCorrect, PTL DEF Spec

\* The database of the running program.
Loaded == IF pc = "loaded" THEN map ELSE EmptyMap

\* A step that changes nothing a user of the store sees, ends a program that has
\* nothing loaded, or publishes.
LEMMA StoreKept ==
    ASSUME image' = image, Loaded' = Loaded, unmapped' = unmapped,
           Stored(mgc)' = Stored(mgc) \/ (Stored(mgc) = EmptyMap /\ Stored(mgc)' = image)
    PROVE  [Store!Next]_(Store!vars)
BY DEF Store!Next, Store!Publish, Store!vars, Stored, Loaded

\* Every step of the compiler is a step of the store, or none.
LEMMA StoreStep ==
    ASSUME TypeOK, Written, [Next]_vars PROVE [Store!Next]_(Store!vars)
<1>0. map \in [Sets -> Seq(Entry)] /\ map[0] \in Seq(Entry) /\ map[1] \in Seq(Entry)
  BY DEF TypeOK, Sets
<1>1. CASE UNCHANGED vars
  BY <1>1, StoreKept DEF vars, Stored, Loaded
<1>2. CASE OpenFile \/ ReadLine \/ CloseFile \/ StopReading \/ LoadFails
  <2>1. pc # "loaded" /\ pc' # "loaded" /\ mgc' = mgc /\ image' = image /\ unmapped' = unmapped
    BY <1>2 DEF OpenFile, ReadLine, CloseFile, StopReading, FinishFile, LoadFails, disk
  <2> QED BY <2>1, StoreKept DEF Stored, Loaded
<1>3. CASE SortAndJoin
  <2>1. pc = "load" /\ mgc' = mgc /\ image' = image /\ unmapped' = unmapped /\ pc' = IF action = "compile" THEN "open" ELSE "loaded"
    BY <1>3 DEF SortAndJoin, disk
  <2>2. CASE action = "compile"
    BY <2>1, <2>2, StoreKept DEF Stored, Loaded
  <2>3. CASE action # "compile"
    <3>1. action = "load"
      BY <2>3 DEF TypeOK
    <3>2. ~(mgc.there /\ check_buffer(mgc)) \/ unmapped
      BY <2>1, <3>1 DEF Written
    <3> QED BY <2>1, <2>3, <3>2 DEF Store!Next, Store!LoadSource
  <2> QED BY <2>2, <2>3
<1>4. CASE OpenTruncated
  <2>0. unmapped' = unmapped
    BY <1>4 DEF OpenTruncated
  <2>1. CASE pc' = "header"
    <3>1. pc = "open" /\ mgc' = [NoFile EXCEPT !.there = TRUE]
      BY <1>4, <2>1 DEF OpenTruncated
    <3>2. Stored(mgc') = EmptyMap
      BY <3>1, NoHeaderRefused DEF NoFile
    <3>3. Stored(mgc)' = EmptyMap
      BY <3>2 DEF Stored, check_buffer, Unpacked
    <3> QED BY <2>0, <2>1, <3>1, <3>3 DEF Store!Next, Store!Withdraw, Stored
  <2>2. CASE pc' = "failed"
    <3>1. pc = "open" /\ mgc' = mgc /\ image' = image
      BY <1>4, <2>2 DEF OpenTruncated, disk
    <3> QED BY <2>0, <2>2, <3>1, StoreKept DEF Stored, Loaded
  <2> QED BY <1>4, <2>1, <2>2 DEF OpenTruncated
<1>5. ASSUME NEW f, mgc' = f PROVE Stored(mgc)' = Stored(f)
  BY <1>5 DEF Stored, check_buffer, Unpacked
<1>6. CASE WriteHeader
  <2>1. pc = "header" /\ pc' \in {"set0", "failed"} /\ image' = image /\ image = map /\ mgc.order = "bad"
        /\ unmapped' = unmapped
    BY <1>6 DEF WriteHeader, CompileFails, Written
  <2>2. Stored(mgc) = EmptyMap
    BY <2>1, NoHeaderRefused
  <2>3. CASE pc' = "failed"
    <3>1. PICK t \in BOOLEAN : mgc' = [mgc EXCEPT !.torn = t]
      BY <1>6, <2>3 DEF WriteHeader, CompileFails
    <3>2. mgc'.order = "bad"
      BY <2>1, <3>1 DEF TypeOK, MgcFile
    <3>3. Stored(mgc)' = EmptyMap
      BY <1>5, <3>2, NoHeaderRefused
    <3> QED BY <2>1, <2>2, <2>3, <3>3, StoreKept DEF Loaded
  <2>4. CASE pc' = "set0"
    <3>1. Written'
      BY <1>6, WrittenInductive DEF Next
    <3>2. Begun(mgc', map', << >>) /\ ~mgc'.torn /\ map' = map
      BY <1>6, <2>4, <3>1 DEF Written, WriteHeader, CompileFails, Begun
    <3>3. Stored(mgc)' = EmptyMap
      BY <1>0, <1>5, <3>2, EmptyStored
    <3> QED BY <2>1, <2>2, <2>4, <3>3, StoreKept DEF Loaded
  <2> QED BY <2>1, <2>3, <2>4
<1>7. ASSUME NEW j \in Sets, WriteSet(j) PROVE [Store!Next]_(Store!vars)
  <2>1. /\ pc \in {"set0", "set1"} /\ pc' \in {"set1", "compiled", "failed"} /\ image' = image /\ image = map
        /\ (j = 0 /\ pc = "set0") \/ (j = 1 /\ pc = "set1")
        /\ ~mgc.torn /\ unmapped' = unmapped
    BY <1>7 DEF WriteSet, CompileFails, Written, Sets
  <2> DEFINE b == IF j = 0 THEN << >> ELSE map[0]
  <2>2. Begun(mgc, map, b) /\ b \in Seq(Entry) /\ mgc.body = b
    BY <1>0, <2>1, EmptySeq DEF Written, Begun
  <2>3. ASSUME NEW c PROVE Begun([mgc EXCEPT !.body = c], map, c) /\ ~[mgc EXCEPT !.body = c].torn
    BY <2>1, <2>2 DEF Begun, TypeOK, MgcFile
  <2>4. ASSUME NEW c, NEW t PROVE Begun([mgc EXCEPT !.body = c, !.torn = t], map, c)
    BY <2>2 DEF Begun, TypeOK, MgcFile
  <2>6. CASE pc' = "failed"
    <3>1. PICK k \in 0..(Len(map[j]) - 1), t \in BOOLEAN :
             mgc' = [mgc EXCEPT !.body = @ \o SubSeq(map[j], 1, k), !.torn = t]
      BY <1>7, <2>1, <2>6 DEF WriteSet, CompileFails
    <3> DEFINE c == b \o SubSeq(map[j], 1, k)
    <3>2. mgc' = [mgc EXCEPT !.body = c, !.torn = t]
      BY <2>2, <3>1
    <3>3. c \in Seq(Entry) /\ Len(c) # Len(map[0]) + Len(map[1]) /\ Len(b) # Len(map[0]) + Len(map[1])
      BY <1>0, CutShort
    <3> HIDE DEF c, b
    <3>4. Begun(mgc', map, c)
      BY <2>4, <3>2
    <3>5. Stored(mgc) = EmptyMap /\ Stored(mgc)' = EmptyMap
      BY <1>0, <1>5, <2>2, <3>3, <3>4, PartRefused
    <3> QED BY <2>1, <2>6, <3>5, StoreKept DEF Loaded
  <2>7. CASE pc' # "failed"
    <3> DEFINE c == b \o map[j]
    <3>1. mgc' = [mgc EXCEPT !.body = c]
      BY <1>7, <2>2, <2>7 DEF WriteSet, CompileFails
    <3>2. Begun(mgc', map, c) /\ ~mgc'.torn
      <4> HIDE DEF c
      <4> QED BY <2>3, <3>1
    <3>3. CASE j = 0
      <4>1. Begun(mgc', map, map[0]) /\ Begun(mgc, map, << >>)
        BY <1>0, <2>2, <3>2, <3>3, ConcatEmptySeq
      <4>2. Stored(mgc) = EmptyMap
        BY <1>0, <2>1, <4>1, EmptyStored
      <4>3. Stored(mgc)' \in {EmptyMap, image}
        BY <1>0, <1>5, <2>1, <3>2, <4>1, FirstStored
      <4> QED BY <2>1, <2>7, <4>2, <4>3, StoreKept DEF Loaded
    <3>4. CASE j = 1
      <4>1. Begun(mgc', map, map[0] \o map[1]) /\ Begun(mgc, map, map[0])
        BY <2>2, <3>2, <3>4
      <4>2. Stored(mgc) \in {EmptyMap, image}
        BY <1>0, <2>1, <4>1, FirstStored
      <4>3. Stored(mgc)' = image
        BY <1>0, <1>5, <2>1, <3>2, <4>1, WholeStored
      <4> QED BY <2>1, <2>7, <4>2, <4>3, StoreKept DEF Loaded
    <3> QED BY <2>1, <3>3, <3>4
  <2> QED BY <2>6, <2>7
<1>8. CASE MapFile
  <2>1. ~unmapped
    BY <1>8 DEF MapFile, Written
  <2> QED BY <1>8, <2>1 DEF MapFile, disk, Store!Next, Store!LoadStored, Store!LoadSource
<1>9. CASE MapRefused
  BY <1>9, StoreKept DEF MapRefused, disk, Stored, Loaded
<1>12. CASE MapFails
  <2>1. /\ pc = "map" /\ pc' = "load" /\ mgc' = mgc /\ image' = image /\ ~unmapped
    BY <1>12 DEF MapFails, disk, Written
  <2>2. CASE unmapped'
    BY <2>1, <2>2 DEF Store!Next, Store!Miss
  <2>3. CASE ~unmapped'
    <3>1. unmapped' = unmapped
      BY <1>12, <2>1, <2>3 DEF MapFails, TypeOK
    <3> QED BY <2>1, <3>1, StoreKept DEF Stored, Loaded
  <2> QED BY <2>2, <2>3
<1>10. CASE NextProcess
  <2>1. pc # "loaded" /\ pc' # "loaded" /\ mgc' = mgc /\ image' = image /\ unmapped' = unmapped
    BY <1>10 DEF NextProcess, Fresh, disk, Written, TypeOK
  <2> QED BY <2>1, StoreKept DEF Stored, Loaded
<1>11. CASE Done
  BY <1>1, <1>11 DEF Done
<1> QED BY <1>1, <1>2, <1>3, <1>4, <1>6, <1>7, <1>8, <1>9, <1>10, <1>11, <1>12 DEF Next

\* The file that is written in pieces, and may be cut anywhere, is a store that holds
\* one whole database or none: for any source, and any file that was there before, what
\* a process maps is what was compiled.  (apprentice_compile, apprentice_map)
THEOREM StoreImplemented == Spec => StoreSpec
<1>1. Init => Store!Init
  <2> SUFFICES ASSUME Init PROVE Store!Init
    OBVIOUS
  <2>1. PICK o \in OldFiles : mgc = o.file /\ image = o.image
    BY DEF Init
  <2>2. mgc.there /\ check_buffer(mgc) => Unpacked(mgc) = image
    BY <2>1, OldFilesAssumption DEF OldFilesAssumption
  <2>3. pc # "loaded" /\ unmapped = FALSE
    BY DEF Init
  <2> QED BY <2>2, <2>3 DEF Store!Init
<1>2. TypeOK /\ Written /\ [Next]_vars => [Store!Next]_(Store!vars)
  BY StoreStep
<1> QED BY <1>1, <1>2, TypeCorrect, WrittenInvariant, PTL DEF Spec, StoreSpec, Store!Spec

-----------------------------------------------------------------------------
(* Conditions.                                                             *)

\* Line i of what was accepted continues a chain of its level.
Follows(s, i) == \E k \in 1..(i - 1) : /\ s[k].level = s[i].level
                                       /\ s[k].cond \in {"if", "elif"}
                                       /\ \A x \in (k + 1)..(i - 1) : s[x].level > s[i].level
PairedIn(s) == \A i \in DOMAIN s : s[i].cond \in {"elif", "else"} => Follows(s, i)

\* The next line may continue a chain of level v.
ChainOpen(s, v) == \E k \in 1..Len(s) : /\ s[k].level = v /\ s[k].cond \in {"if", "elif"}
                                        /\ \A x \in (k + 1)..Len(s) : s[x].level > v

\* While nothing has failed the static last_cont_level is the level of the last line of the
\* entry, and what ms->c.li[] holds of a level down to it is about a chain that is open.
Chained ==
    ~errs => /\ me # << >> => Last(me).level = lastLevel
             /\ ~jumped => /\ PairedIn(source)
                           /\ \A v \in 1..lastLevel : lastCond[v] \in {"if", "elif"} => ChainOpen(source, v)

\* A line that is accepted keeps the pairs before it; it is paired itself when its chain is
\* open.  The chains of the levels above its own stay open, and a condition opens one.
LEMMA LineAdded ==
    ASSUME NEW s \in Seq(Entry), NEW m \in Entry, PairedIn(s),
           m.cond \in {"elif", "else"} => ChainOpen(s, m.level)
    PROVE  /\ PairedIn(Append(s, m))
           /\ \A v \in Levels : v < m.level /\ ChainOpen(s, v) => ChainOpen(Append(s, m), v)
           /\ m.cond \in {"if", "elif"} => ChainOpen(Append(s, m), m.level)
<1> DEFINE t == Append(s, m)
           n == Len(s)
<1>1. n \in Nat /\ t \in Seq(Entry) /\ Len(t) = n + 1 /\ t[n + 1] = m /\ DOMAIN s = 1..n /\ DOMAIN t = 1..(n + 1)
      /\ \A i \in 1..n : t[i] = s[i] /\ s[i].level \in Int
  <2>1. ASSUME NEW i \in 1..n PROVE s[i].level \in Int
    <3>1. s[i] \in Entry
      OBVIOUS
    <3>2. \A e \in Entry : e.level \in Int
      BY DEF Entry, Levels
    <3> QED BY <3>1, <3>2
  <2> QED BY <2>1
<1>2. m.level \in Int
  BY DEF Entry, Levels
<1> HIDE DEF t, n
<1>3. ASSUME NEW i \in DOMAIN t, t[i].cond \in {"elif", "else"} PROVE Follows(t, i)
  <2>1. CASE i = n + 1
    <3>1. PICK k \in 1..n : /\ s[k].level = m.level /\ s[k].cond \in {"if", "elif"}
                            /\ \A x \in (k + 1)..n : s[x].level > m.level
      BY <1>1, <1>3, <2>1 DEF ChainOpen, n
    <3>2. k \in 1..(i - 1) /\ t[k] = s[k] /\ t[i] = m
      BY <1>1, <2>1
    <3>3. \A x \in (k + 1)..(i - 1) : t[x].level > m.level
      BY <1>1, <2>1, <3>1
    <3> QED BY <3>1, <3>2, <3>3 DEF Follows
  <2>2. CASE i # n + 1
    <3>1. i \in 1..n /\ t[i] = s[i] /\ i - 1 \in 0..(n - 1)
      BY <1>1, <2>2
    <3>2. Follows(s, i)
      BY <1>1, <1>3, <3>1 DEF PairedIn
    <3>3. PICK k \in 1..(i - 1) : /\ s[k].level = s[i].level
                                  /\ s[k].cond \in {"if", "elif"}
                                  /\ \A x \in (k + 1)..(i - 1) : s[x].level > s[i].level
      BY <3>2 DEF Follows
    <3>4. t[k] = s[k] /\ \A x \in (k + 1)..(i - 1) : t[x] = s[x]
      BY <1>1, <3>1
    <3> QED BY <3>1, <3>3, <3>4 DEF Follows
  <2> QED BY <2>1, <2>2
<1>4. ASSUME NEW v \in Levels, v < m.level, ChainOpen(s, v) PROVE ChainOpen(t, v)
  <2>1. PICK k \in 1..n : /\ s[k].level = v /\ s[k].cond \in {"if", "elif"}
                          /\ \A x \in (k + 1)..n : s[x].level > v
    BY <1>4 DEF ChainOpen, n
  <2>2. k \in 1..Len(t) /\ t[k] = s[k]
    BY <1>1
  <2>3. ASSUME NEW x \in (k + 1)..Len(t) PROVE t[x].level > v
    <3>1. CASE x = n + 1
      BY <1>1, <1>2, <1>4, <3>1 DEF Levels
    <3>2. CASE x # n + 1
      BY <1>1, <2>1, <3>2
    <3> QED BY <3>1, <3>2
  <2> QED BY <2>1, <2>2, <2>3 DEF ChainOpen
<1>5. ASSUME m.cond \in {"if", "elif"} PROVE ChainOpen(t, m.level)
  <2>1. n + 1 \in 1..Len(t) /\ \A x \in ((n + 1) + 1)..Len(t) : FALSE
    BY <1>1
  <2>2. t[n + 1].level = m.level /\ t[n + 1].cond \in {"if", "elif"}
    BY <1>1, <1>5
  <2> QED BY <2>1, <2>2 DEF ChainOpen
<1>6. PairedIn(t)
  BY <1>3 DEF PairedIn
<1> QED BY <1>4, <1>5, <1>6 DEF t

\* An annotation changes neither the levels nor the conditions.
LEMMA LineAnnotated ==
    ASSUME NEW s \in Seq(Entry), NEW m, NEW x, x.level = m.level, x.cond = m.cond,
           NEW t, t = [i \in DOMAIN s |-> IF s[i] = m THEN x ELSE s[i]]
    PROVE  /\ PairedIn(s) => PairedIn(t)
           /\ \A v : ChainOpen(s, v) => ChainOpen(t, v)
<1> DEFINE n == Len(s)
<1>1. n \in Nat /\ DOMAIN s = 1..n /\ Len(t) = n /\ DOMAIN t = 1..n
  OBVIOUS
<1>2. \A i \in 1..n : t[i].level = s[i].level /\ t[i].cond = s[i].cond
  OBVIOUS
<1> HIDE DEF n
<1>3. ASSUME NEW i \in 1..n, Follows(s, i) PROVE Follows(t, i)
  <2>1. PICK k \in 1..(i - 1) : /\ s[k].level = s[i].level
                                /\ s[k].cond \in {"if", "elif"}
                                /\ \A y \in (k + 1)..(i - 1) : s[y].level > s[i].level
    BY <1>3 DEF Follows
  <2>2. k \in 1..n /\ (k + 1)..(i - 1) \subseteq 1..n
    BY <1>1
  <2> QED BY <1>2, <2>1, <2>2 DEF Follows
<1>4. ASSUME NEW v, ChainOpen(s, v) PROVE ChainOpen(t, v)
  <2>1. PICK k \in 1..n : /\ s[k].level = v /\ s[k].cond \in {"if", "elif"}
                          /\ \A y \in (k + 1)..n : s[y].level > v
    BY <1>4 DEF ChainOpen, n
  <2>2. (k + 1)..n \subseteq 1..n
    BY <1>1
  <2> QED BY <1>1, <1>2, <2>1, <2>2 DEF ChainOpen
<1> QED BY <1>1, <1>2, <1>3, <1>4 DEF PairedIn

\* Nothing was read: no chain.
LEMMA NoChain == me = << >> /\ source = << >> /\ lastLevel = 0 => Chained
BY DEF Chained, PairedIn

\* The same for the next state.
LEMMA NothingChained == me' = << >> /\ source' = << >> /\ lastLevel' = 0 => Chained'
BY DEF Chained, PairedIn

\* A step that keeps levels, conditions and chains.
LEMMA ChainedStep ==
    ASSUME Chained, errs' \/ ~errs, jumped' = jumped, lastLevel' = lastLevel, lastCond' = lastCond,
           me # << >>, Last(me').level = Last(me).level,
           PairedIn(source) => PairedIn(source'),
           \A v : ChainOpen(source, v) => ChainOpen(source', v)
    PROVE  Chained'
<1>1. SUFFICES ASSUME ~errs'
               PROVE  /\ me' # << >> => Last(me').level = lastLevel'
                      /\ ~jumped' => /\ PairedIn(source')
                                     /\ \A v \in 1..lastLevel' : lastCond'[v] \in {"if", "elif"} => ChainOpen(source', v)
  BY DEF Chained, PairedIn, Follows, ChainOpen, Last
<1> QED BY <1>1 DEF Chained

\* Parsing a line that is accepted keeps the chains.
LEMMA ParseChained ==
    ASSUME TypeOK, Chained, NEW l \in Lines, ParseEntry(l), line + 1 \in 1..MaxLines PROVE Chained'
<1> DEFINE conds == CondsBefore(l)
           cond == check_cond(conds[l.level], l.cond)
           jump == l.level > 0 /\ l.level - Last(me).level > 1
           ok == OffsetRead(l) /\ cond # "error" /\ RestRead(l)
           m == NewEntry(l, line + 1)
<1>0. l \in EntryLine /\ l.level \in Levels /\ l.cond \in Conds /\ (l.level > 0 => me # << >>)
  BY LineParts DEF ParseEntry, EntryLine
<1>1. /\ lastLevel' = l.level
      /\ lastCond' = IF OffsetRead(l) /\ cond # "error" THEN [conds EXCEPT ![l.level] = cond] ELSE conds
      /\ me' = IF l.level = 0 THEN << m >> ELSE Append(me, m)
      /\ source' = IF ok THEN Append(source, m) ELSE source
  BY DEF ParseEntry
<1>2. (~errs' => ~errs /\ ok) /\ (~jumped' => ~jumped /\ ~jump)
  BY Zenon DEF ParseEntry
<1>3. m \in Entry /\ m.level = l.level /\ m.cond = l.cond
  BY <1>0, NewEntryType DEF NewEntry
<1>4. conds \in [Levels -> Conds \ {"else"}]
  BY <1>0, CondsBeforeType
<1>5. \A v \in Levels : v # l.level => conds[v] = lastCond[v]
  BY <1>0 DEF CondsBefore, TypeOK
<1>6. l.level = 0 \/ l.level > lastLevel => conds[l.level] = "none"
  BY <1>0 DEF CondsBefore, TypeOK
<1>7. l.level # 0 /\ ~(l.level > lastLevel) => conds[l.level] = lastCond[l.level]
  BY <1>0 DEF CondsBefore, TypeOK
<1>8. SUFFICES ASSUME ~errs, ok, ~errs'
               PROVE  /\ me' # << >> => Last(me').level = lastLevel'
                      /\ ~jumped' => /\ PairedIn(source')
                                     /\ \A v \in 1..lastLevel' : lastCond'[v] \in {"if", "elif"} => ChainOpen(source', v)
  BY <1>2 DEF Chained, PairedIn, Follows, ChainOpen, Last
<1> HIDE DEF conds, jump, m
<1>9. Last(me').level = lastLevel'
  <2>1. me \in Seq(Entry)
    BY DEF TypeOK
  <2> QED BY <1>1, <1>3, <2>1 DEF Last
<1>10. ASSUME ~jumped'
       PROVE  /\ PairedIn(source')
              /\ \A v \in 1..lastLevel' : lastCond'[v] \in {"if", "elif"} => ChainOpen(source', v)
  <2>0. cond # "error" /\ lastCond' = [conds EXCEPT ![l.level] = cond]
    BY <1>1, <1>8
  <2> HIDE DEF ok
  <2>1. PairedIn(source) /\ (\A v \in 1..lastLevel : lastCond[v] \in {"if", "elif"} => ChainOpen(source, v))
        /\ (me # << >> => Last(me).level = lastLevel)
    BY <1>2, <1>8, <1>10 DEF Chained
  <2>2. l.level \in Int /\ lastLevel \in Int /\ l.level >= 0 /\ l.level <= lastLevel + 1
    <3>1. l.level \in Nat /\ lastLevel \in Nat
      BY <1>0 DEF TypeOK, Levels
    <3>2. l.level > 0 => l.level - lastLevel <= 1
      BY <1>0, <1>2, <1>10, <2>1, <3>1 DEF jump
    <3> QED BY <3>1, <3>2
  <2>3. ASSUME l.cond \in {"elif", "else"} PROVE ChainOpen(source, l.level)
    <3>1. conds[l.level] \in {"if", "elif"}
      BY <1>0, <1>4, <2>0, <2>3 DEF check_cond
    <3>2. l.level # 0 /\ ~(l.level > lastLevel) /\ lastCond[l.level] \in {"if", "elif"}
      BY <1>6, <1>7, <3>1
    <3>3. l.level \in 1..lastLevel
      BY <2>2, <3>2
    <3> QED BY <2>1, <3>2, <3>3
  <2>4. source \in Seq(Entry) /\ source' = Append(source, m)
    BY <1>1, <1>8 DEF TypeOK
  <2>5. /\ PairedIn(source')
        /\ \A v \in Levels : v < l.level /\ ChainOpen(source, v) => ChainOpen(source', v)
        /\ l.cond \in {"if", "elif"} => ChainOpen(source', l.level)
    BY <1>3, <2>1, <2>3, <2>4, LineAdded
  <2>6. ASSUME NEW v \in 1..lastLevel', lastCond'[v] \in {"if", "elif"} PROVE ChainOpen(source', v)
    <3>1. v \in Levels /\ v \in 1..l.level
      BY <1>0, <1>1, <2>2 DEF Levels
    <3>2. CASE v = l.level
      <4>1. cond \in {"if", "elif"}
        BY <1>0, <1>4, <2>0, <2>6, <3>2
      <4>2. l.cond \in {"if", "elif"}
        BY <1>0, <4>1 DEF check_cond, Conds
      <4> QED BY <2>5, <3>2, <4>2
    <3>3. CASE v # l.level
      <4>1. lastCond'[v] = lastCond[v] /\ v < l.level
        BY <1>4, <1>5, <2>0, <2>2, <3>1, <3>3
      <4>2. v \in 1..lastLevel
        BY <2>2, <3>1, <4>1
      <4> QED BY <2>1, <2>5, <2>6, <3>1, <4>1, <4>2
    <3> QED BY <3>2, <3>3
  <2> QED BY <2>5, <2>6
<1> QED BY <1>9, <1>10

\* Every step keeps the chains.
LEMMA ChainedInductive == ASSUME TypeOK, Chained, [Next]_vars PROVE Chained'
<1> USE DEF PairedIn, Follows, ChainOpen
<1> DEFINE Same == /\ (errs' \/ ~errs) /\ jumped' = jumped /\ source' = source /\ lastLevel' = lastLevel
                   /\ lastCond' = lastCond /\ (me' = me \/ me' = << >>)
<1>0. ASSUME Same PROVE Chained'
  <2>1. CASE me' = me
    BY <1>0, <2>1 DEF Chained, Last
  <2>2. CASE me' = << >>
    BY <1>0, <2>2 DEF Chained, Last
  <2> QED BY <1>0, <2>1, <2>2
<1> HIDE DEF PairedIn, Follows, ChainOpen
<1>1. CASE UNCHANGED vars
  BY <1>0, <1>1 DEF vars
<1>2. CASE OpenFile
  <2>1. errs' \/ ~errs
    BY <1>2 DEF OpenFile, Fail
  <2> QED BY <1>0, <1>2, <2>1 DEF OpenFile
<1>3. CASE ReadLine
  <2>0. line + 1 \in 1..MaxLines
    BY <1>3 DEF ReadLine, TypeOK
  <2>1. PICK l \in Lines : \/ ParseEntry(l) \/ ParseOrphan(l) \/ ParseNoMemory(l) \/ BangError(l)
                           \/ parse_strength(l) \/ parse_extra(l) \/ Skip(l)
    BY <1>3 DEF ReadLine
  <2>2. CASE ParseEntry(l)
    BY <2>0, <2>2, ParseChained
  <2>3. CASE ParseOrphan(l) \/ ParseNoMemory(l)
    <3>1. errs'
      BY <2>3 DEF ParseOrphan, ParseNoMemory, Fail
    <3> QED BY <3>1 DEF Chained
  <2>4. CASE BangError(l)
    <3>1. errs'
      BY <2>4 DEF BangError, Fail
    <3> QED BY <3>1 DEF Chained
  <2>5. CASE parse_strength(l)
    <3> DEFINE set == [me[1] EXCEPT !.op = l.op, !.factor = l.factor]
    <3>1. me \in Seq(Entry) /\ me # << >> /\ me[1] \in Entry /\ source \in Seq(Entry) /\ Len(me) \in Nat
      BY <2>5 DEF parse_strength, TypeOK
    <3>2. set.level = me[1].level /\ set.cond = me[1].cond
      BY <3>1 DEF Entry
    <3>3. /\ lastLevel' = lastLevel /\ lastCond' = lastCond /\ jumped' = jumped
          /\ \/ me' = me /\ source' = source
             \/ /\ me' = [me EXCEPT ![1] = set]
                /\ source' = [i \in DOMAIN source |-> IF source[i] = me[1] THEN set ELSE source[i]]
      BY <2>5 DEF parse_strength
    <3>4. errs' \/ ~errs
      BY <2>5, Zenon DEF parse_strength
    <3> HIDE DEF set
    <3>5. CASE me' = me /\ source' = source
      BY <1>0, <3>3, <3>4, <3>5
    <3>6. CASE /\ me' = [me EXCEPT ![1] = set]
               /\ source' = [i \in DOMAIN source |-> IF source[i] = me[1] THEN set ELSE source[i]]
      <4>1. Last(me').level = Last(me).level
        <5> DEFINE n == Len(me)
        <5>1. n \in Nat /\ n # 0 /\ Len(me') = n /\ DOMAIN me = 1..n
          BY <3>1, <3>6, EmptySeq
        <5>2. me'[n] = IF n = 1 THEN set ELSE me[n]
          <6> HIDE DEF n
          <6> QED BY <3>6, <5>1
        <5>3. me'[n].level = me[n].level
          <6> HIDE DEF n
          <6> QED BY <3>2, <5>2
        <5> QED BY <5>1, <5>3 DEF Last
      <4>2. (PairedIn(source) => PairedIn(source')) /\ (\A v : ChainOpen(source, v) => ChainOpen(source', v))
        <5> DEFINE m == me[1]
                   t == [i \in DOMAIN source |-> IF source[i] = m THEN set ELSE source[i]]
        <5>0. set.level = m.level /\ set.cond = m.cond
          BY <3>2
        <5> HIDE DEF m
        <5>1. (PairedIn(source) => PairedIn(t)) /\ (\A v : ChainOpen(source, v) => ChainOpen(t, v))
          BY <3>1, <5>0, LineAnnotated
        <5> HIDE DEF t
        <5>2. source' = t
          BY <3>6 DEF t, m
        <5> QED BY <5>1, <5>2
      <4> QED BY <3>1, <3>3, <3>4, <4>1, <4>2, ChainedStep
    <3> QED BY <3>3, <3>5, <3>6
  <2>6. CASE parse_extra(l)
    <3> DEFINE m == Last(me)
               set == [m EXCEPT !.extra = @ \cup {l.what}]
    <3>1. me \in Seq(Entry) /\ me # << >> /\ m \in Entry /\ source \in Seq(Entry)
      BY <2>6 DEF parse_extra, TypeOK, Last
    <3>2. set.level = m.level /\ set.cond = m.cond
      BY <3>1 DEF Entry
    <3>3. /\ lastLevel' = lastLevel /\ lastCond' = lastCond /\ jumped' = jumped
          /\ \/ me' = me /\ source' = source
             \/ /\ me' = Front(me) \o << set >>
                /\ source' = [i \in DOMAIN source |-> IF source[i] = m THEN set ELSE source[i]]
      BY <2>6 DEF parse_extra
    <3>4. errs' \/ ~errs
      BY <2>6, Zenon DEF parse_extra
    <3>5. Front(me) \in Seq(Entry)
      BY <3>1 DEF Front
    <3> HIDE DEF set, m
    <3>6. CASE me' = me /\ source' = source
      BY <1>0, <3>3, <3>4, <3>6
    <3>7. CASE /\ me' = Front(me) \o << set >>
               /\ source' = [i \in DOMAIN source |-> IF source[i] = m THEN set ELSE source[i]]
      <4>1. Last(me').level = Last(me).level
        <5>1. Last(me') = set
          BY <3>5, <3>7 DEF Last
        <5> QED BY <3>2, <5>1 DEF m
      <4>2. (PairedIn(source) => PairedIn(source')) /\ (\A v : ChainOpen(source, v) => ChainOpen(source', v))
        <5> DEFINE t == [i \in DOMAIN source |-> IF source[i] = m THEN set ELSE source[i]]
        <5>1. (PairedIn(source) => PairedIn(t)) /\ (\A v : ChainOpen(source, v) => ChainOpen(t, v))
          BY SMTT(30), <3>1, <3>2, LineAnnotated
        <5> HIDE DEF t
        <5>2. source' = t
          BY <3>7 DEF t
        <5> QED BY <5>1, <5>2
      <4> QED BY <3>1, <3>3, <3>4, <4>1, <4>2, ChainedStep
    <3> QED BY <3>3, <3>6, <3>7
  <2>7. CASE Skip(l)
    BY <1>0, <2>7 DEF Skip
  <2> QED BY <2>1, <2>2, <2>3, <2>4, <2>5, <2>6, <2>7
<1>4. CASE CloseFile \/ StopReading
  BY <1>0, <1>4 DEF CloseFile, StopReading, FinishFile
<1>5. CASE SortAndJoin \/ LoadFails
  BY <1>0, <1>5 DEF SortAndJoin, LoadFails
<1>6. CASE OpenTruncated \/ WriteHeader \/ (\E j \in Sets : WriteSet(j)) \/ MapFile \/ MapRefused \/ MapFails
  <2>1. UNCHANGED parser
    BY <1>6 DEF OpenTruncated, WriteHeader, WriteSet, MapFile, MapRefused, MapFails
  <2> QED BY <1>0, <2>1 DEF parser
<1>7. CASE NextProcess
  <2>1. me' = << >> /\ source' = << >> /\ lastLevel' = 0
    BY <1>7 DEF NextProcess, Fresh
  <2> QED BY <2>1, NothingChained
<1>8. CASE Done
  BY <1>1, <1>8 DEF Done
<1> QED BY <1>1, <1>2, <1>3, <1>4, <1>5, <1>6, <1>7, <1>8 DEF Next

\* In a file that is accepted every elif and every else follows, on its own level and
\* under the same parent, an if or an elif, for any lines and any nesting.
\* (parse with its static last_cont_level, file_check_mem, check_cond)
THEOREM ConditionsArePaired == Spec => []ConditionsPaired
<1>1. Init => Chained
  BY NoChain DEF Init
<1>2. TypeOK /\ Chained /\ [Next]_vars => Chained'
  BY ChainedInductive
<1>3. Chained => ConditionsPaired
  BY DEF Chained, ConditionsPaired, PairedIn, Follows
<1> QED BY <1>1, <1>2, <1>3, TypeCorrect, PTL DEF Spec

\* Where the i-th sequence begins, less one.
Before(f, i) == IF i = 1 THEN 0 ELSE Len(f[i - 1])

\* The turns of FlattenSeq() grow by one sequence each.
LEMMA JoinGrows ==
    ASSUME NEW X, NEW s \in Seq(Seq(X)), NEW f, Joins(s, f), NEW i \in 1..Len(s)
    PROVE  /\ f[i] \in Seq(X) /\ s[i] \in Seq(X) /\ Before(f, i) \in Nat
           /\ Len(f[i]) = Before(f, i) + Len(s[i])
           /\ \A k \in 1..Len(s[i]) : f[i][Before(f, i) + k] = s[i][k]
           /\ i # 1 => \A x \in 1..Len(f[i - 1]) : f[i][x] = f[i - 1][x]
<1>0. Len(s) \in Nat /\ s[i] \in Seq(X) /\ f[i] \in Seq(X)
  BY JoinedType
<1>1. CASE i = 1
  <2>1. f[i] = s[i] /\ Before(f, i) = 0
    BY <1>1 DEF Joins, Before
  <2>2. Len(s[i]) \in Nat
    BY <1>0
  <2> QED BY <1>0, <1>1, <2>1, <2>2
<1>2. CASE i # 1
  <2> DEFINE a == f[i - 1]
             b == s[i]
  <2>1. i - 1 \in 1..Len(s)
    BY <1>0, <1>2
  <2>2. a \in Seq(X) /\ b \in Seq(X)
    BY <1>0, <2>1, JoinedType
  <2>3. f[i] = a \o b /\ Before(f, i) = Len(a)
    BY <1>2 DEF Joins, Before
  <2> HIDE DEF a, b
  <2>4. Len(a) \in Nat /\ Len(b) \in Nat
    BY <2>2
  <2>5. Len(a \o b) = Len(a) + Len(b) /\ (\A k \in 1..Len(b) : (a \o b)[Len(a) + k] = b[k])
        /\ (\A x \in 1..Len(a) : (a \o b)[x] = a[x])
    BY <2>2, <2>4, ConcatProperties
  <2> QED BY <1>0, <2>3, <2>4, <2>5 DEF a, b
<1> QED BY <1>1, <1>2

\* A turn begins with what every earlier turn has made.
LEMMA JoinPrefix ==
    ASSUME NEW X, NEW s \in Seq(Seq(X)), NEW f, Joins(s, f), NEW i \in 1..Len(s)
    PROVE  \A k \in i..Len(s) : Len(f[i]) <= Len(f[k]) /\ \A x \in 1..Len(f[i]) : f[k][x] = f[i][x]
<1> DEFINE N == Len(s)
           P(k) == Len(f[i]) <= Len(f[k]) /\ \A x \in 1..Len(f[i]) : f[k][x] = f[i][x]
           S == {n \in Nat : i + n <= N => P(i + n)}
<1>0. N \in Nat /\ i \in Nat /\ (\A k \in 1..N : Len(f[k]) \in Nat)
  BY JoinedType
<1>1. 0 \in S
  BY <1>0
<1>2. ASSUME NEW n \in Nat, n \in S PROVE n + 1 \in S
  <2> SUFFICES ASSUME i + (n + 1) <= N PROVE P(i + (n + 1))
    <3> HIDE DEF N, P
    <3> QED OBVIOUS
  <2> DEFINE k == i + n
             h == i + (n + 1)
  <2>1. k \in 1..N /\ h \in 1..N /\ h # 1 /\ h - 1 = k /\ P(k)
    <3>1. k \in 1..N /\ h \in 1..N /\ h # 1 /\ h - 1 = k
      BY <1>0
    <3>2. P(k)
      <4> HIDE DEF P, N
      <4> QED BY <1>0, <1>2
    <3> QED BY <3>1, <3>2
  <2> HIDE DEF k, h
  <2>2. /\ Len(f[h]) = Len(f[k]) + Len(s[h]) /\ Len(s[h]) \in Nat
        /\ \A x \in 1..Len(f[k]) : f[h][x] = f[k][x]
    <3>1. s[h] \in Seq(X) /\ Before(f, h) = Len(f[k])
      BY <2>1 DEF Before
    <3>2. Len(s[h]) \in Nat
      BY <3>1
    <3>3. Len(f[h]) = Before(f, h) + Len(s[h]) /\ (h # 1 => \A x \in 1..Len(f[h - 1]) : f[h][x] = f[h - 1][x])
      BY <2>1, JoinGrows
    <3>4. \A x \in 1..Len(f[k]) : f[h][x] = f[k][x]
      BY <2>1, <3>3
    <3> QED BY <3>1, <3>2, <3>3, <3>4
  <2>3. P(h)
    <3> DEFINE a == Len(f[i])
               b == Len(f[k])
    <3>1. a \in Nat /\ b \in Nat /\ a <= b
      BY <1>0, <2>1
    <3>2. a <= Len(f[h])
      <4>1. Len(f[h]) = b + Len(s[h]) /\ Len(s[h]) \in Nat
        BY <2>2
      <4> HIDE DEF a, b
      <4> QED BY <3>1, <4>1
    <3>3. ASSUME NEW x \in 1..a PROVE f[h][x] = f[i][x]
      <4>1. x \in 1..b
        <5> HIDE DEF a, b
        <5> QED BY <3>1
      <4>2. f[k][x] = f[i][x]
        BY <2>1
      <4> QED BY <2>2, <4>1, <4>2
    <3> QED BY <3>2, <3>3
  <2> QED BY <2>3 DEF h
<1>3. Nat \subseteq S
  <2> HIDE DEF S
  <2> QED BY <1>1, <1>2, Induction
<1>4. ASSUME NEW k \in i..N PROVE P(k)
  <2> HIDE DEF N, P
  <2>1. k - i \in Nat /\ i + (k - i) = k
    BY <1>0
  <2>2. k - i \in S
    <3> HIDE DEF S
    <3> QED BY <1>3, <2>1
  <2> QED BY <1>0, <2>1, <2>2
<1> QED BY <1>4

\* t is the sequences of s one behind the other, the i-th one behind the place o[i].
Laid(s, t, o) ==
    /\ o \in [1..Len(s) -> Nat]
    /\ \A i \in 1..Len(s) : /\ o[i] + Len(s[i]) <= Len(t)
                            /\ \A k \in 1..Len(s[i]) : t[o[i] + k] = s[i][k]
    /\ \A i, k \in 1..Len(s) : i < k => o[i] + Len(s[i]) <= o[k]
    /\ \A x \in 1..Len(t) : \E i \in 1..Len(s) : o[i] < x /\ x <= o[i] + Len(s[i])

\* FlattenSeq() lays them so.
LEMMA FlattenLays == ASSUME NEW X, NEW s \in Seq(Seq(X))
                     PROVE  FlattenSeq(s) \in Seq(X) /\ \E o : Laid(s, FlattenSeq(s), o)
<1>1. CASE s = << >>
  <2>1. FlattenSeq(s) = << >> /\ Len(s) = 0 /\ Len(<< >>) = 0 /\ 1..0 = {}
    <3>1. FlattenSeq(s) = << >>
      BY <1>1, FlattenJoins
    <3> QED BY <1>1, <3>1
  <2> DEFINE o == [i \in 1..0 |-> 0]
  <2>2. Laid(s, FlattenSeq(s), o)
    <3>1. o \in [1..0 -> Nat]
      BY <2>1
    <3> HIDE DEF o
    <3> QED BY <2>1, <3>1 DEF Laid
  <2>3. << >> \in Seq(X)
    BY EmptySeq
  <2> HIDE DEF o
  <2> QED BY <2>1, <2>2, <2>3
<1>2. CASE s # << >>
  <2>1. PICK f : Joins(s, f) /\ FlattenSeq(s) = f[Len(s)]
    BY <1>2, FlattenJoins
  <2> DEFINE N == Len(s)
             t == FlattenSeq(s)
             o == [i \in 1..N |-> Before(f, i)]
  <2>2. N \in Nat /\ N \in 1..N /\ t = f[N]
    BY <1>2, <2>1, EmptySeq
  <2>3. ASSUME NEW i \in 1..N
        PROVE  /\ f[i] \in Seq(X) /\ Len(f[i]) \in Nat /\ Len(s[i]) \in Nat /\ o[i] \in Nat
               /\ o[i] = Before(f, i) /\ Len(f[i]) = o[i] + Len(s[i])
               /\ \A k \in 1..Len(s[i]) : f[i][o[i] + k] = s[i][k]
    <3>1. s[i] \in Seq(X)
      OBVIOUS
    <3> QED BY <2>1, <3>1, JoinGrows
  <2>4. ASSUME NEW i \in 1..N, NEW k \in i..N
        PROVE  Len(f[i]) <= Len(f[k]) /\ \A x \in 1..Len(f[i]) : f[k][x] = f[i][x]
    BY <2>1, JoinPrefix
  <2>5. o \in [1..N -> Nat]
    BY <2>3
  <2> HIDE DEF N, o, t
  <2>6. ASSUME NEW i \in 1..N
        PROVE  o[i] + Len(s[i]) <= Len(t) /\ \A k \in 1..Len(s[i]) : t[o[i] + k] = s[i][k]
    <3>1. N \in i..N
      BY <2>2
    <3>2. Len(f[i]) <= Len(t) /\ \A x \in 1..Len(f[i]) : t[x] = f[i][x]
      BY <2>2, <2>4, <3>1
    <3>3. \A k \in 1..Len(s[i]) : o[i] + k \in 1..Len(f[i])
      BY <2>3
    <3> QED BY <2>3, <3>2, <3>3
  <2>7. ASSUME NEW i \in 1..N, NEW k \in 1..N, i < k PROVE o[i] + Len(s[i]) <= o[k]
    <3>1. k - 1 \in 1..N /\ k - 1 \in i..N /\ k # 1
      BY <2>2, <2>7
    <3>2. o[k] = Len(f[k - 1])
      BY <2>3, <3>1 DEF Before
    <3> QED BY <2>3, <2>4, <3>1, <3>2
  <2>8. ASSUME NEW x \in 1..Len(t) PROVE \E i \in 1..N : o[i] < x /\ x <= o[i] + Len(s[i])
    <3> DEFINE T == {n \in 1..N : x <= Len(f[n])}
    <3>0. T \in SUBSET Nat /\ x \in Nat /\ x >= 1
      BY <2>2, <2>3
    <3>1. N \in T
      BY <2>2, <2>3
    <3>2. PICK i \in T : \A y \in T : i <= y
      BY <3>0, <3>1, Least
    <3>3. o[i] < x
      <4>1. CASE i = 1
        BY <2>3, <3>0, <4>1 DEF Before
      <4>2. CASE i # 1
        <5>1. i - 1 \in 1..N /\ ~(i <= i - 1)
          BY <2>2, <4>2
        <5>2. ~(x <= Len(f[i - 1]))
          BY <3>2, <5>1
        <5>3. o[i] = Len(f[i - 1])
          BY <2>3, <4>2 DEF Before
        <5> QED BY <2>3, <3>0, <5>1, <5>2, <5>3
      <4> QED BY <4>1, <4>2
    <3> QED BY <2>3, <3>3
  <2>9. Laid(s, t, o)
    BY <2>5, <2>6, <2>7, <2>8 DEF Laid, N
  <2> QED BY <2>2, <2>3, <2>9 DEF t
<1> QED BY <1>1, <1>2

\* What is joined in the first turns depends on the first sequences only.
LEMMA JoinsAgree ==
    ASSUME NEW X, NEW s \in Seq(Seq(X)), NEW t \in Seq(Seq(X)), NEW f, NEW g, Joins(s, f), Joins(t, g),
           Len(s) <= Len(t), \A i \in 1..Len(s) : t[i] = s[i]
    PROVE  \A i \in 1..Len(s) : g[i] = f[i]
<1> DEFINE N == Len(s)
           S == {n \in Nat : n + 1 <= N => g[n + 1] = f[n + 1]}
<1>0. N \in Nat /\ Len(t) \in Nat /\ (\A i \in 1..N : i \in 1..Len(t))
  OBVIOUS
<1>1. 0 \in S
  BY <1>0 DEF Joins
<1>2. ASSUME NEW n \in Nat, n \in S PROVE n + 1 \in S
  <2> SUFFICES ASSUME (n + 1) + 1 <= N PROVE g[(n + 1) + 1] = f[(n + 1) + 1]
    <3> HIDE DEF N
    <3> QED OBVIOUS
  <2> DEFINE h == (n + 1) + 1
  <2>1. h \in 1..N /\ h # 1 /\ h - 1 = n + 1 /\ n + 1 <= N
    BY <1>0
  <2>2. g[h - 1] = f[h - 1]
    BY <1>2, <2>1
  <2> HIDE DEF h
  <2>3. g[h] = f[h]
    BY <1>0, <2>1, <2>2 DEF Joins
  <2> QED BY <2>3 DEF h
<1>3. Nat \subseteq S
  <2> HIDE DEF S
  <2> QED BY <1>1, <1>2, Induction
<1>4. ASSUME NEW i \in 1..N PROVE g[i] = f[i]
  <2> HIDE DEF N
  <2>1. i - 1 \in Nat /\ (i - 1) + 1 = i /\ i <= N
    BY <1>0
  <2>2. i - 1 \in S
    <3> HIDE DEF S
    <3> QED BY <1>3, <2>1
  <2> QED BY <2>1, <2>2
<1> QED BY <1>4

\* One more sequence is joined behind the others.
LEMMA FlattenAppend ==
    ASSUME NEW X, NEW s \in Seq(Seq(X)), NEW e \in Seq(X)
    PROVE  FlattenSeq(Append(s, e)) = FlattenSeq(s) \o e
<1> DEFINE t == Append(s, e)
           n == Len(s)
<1>1. /\ t \in Seq(Seq(X)) /\ t # << >> /\ n \in Nat /\ Len(t) = n + 1
      /\ (\A i \in 1..n : t[i] = s[i]) /\ t[n + 1] = e
  BY AppendProperties
<1> HIDE DEF t
<1>2. PICK g : Joins(t, g) /\ FlattenSeq(t) = g[Len(t)]
  BY <1>1, FlattenJoins
<1>3. n + 1 \in 1..Len(t)
  BY <1>1
<1>4. g[n + 1] = IF n + 1 = 1 THEN e ELSE g[(n + 1) - 1] \o e
  BY <1>1, <1>2, <1>3 DEF Joins
<1>5. CASE s = << >>
  <2>1. n = 0 /\ FlattenSeq(s) = << >>
    BY <1>5, FlattenJoins
  <2>2. FlattenSeq(t) = e
    BY <1>1, <1>2, <1>4, <2>1
  <2> QED BY <2>1, <2>2 DEF t
<1>6. CASE s # << >>
  <2>1. PICK f : Joins(s, f) /\ FlattenSeq(s) = f[n]
    BY <1>6, FlattenJoins
  <2>2. n # 0 /\ n \in 1..n
    BY <1>1, <1>6, EmptySeq
  <2>3. Len(s) <= Len(t)
    BY <1>1
  <2>4. g[n] = f[n]
    BY <1>1, <1>2, <2>1, <2>2, <2>3, JoinsAgree
  <2>5. n + 1 # 1 /\ (n + 1) - 1 = n
    BY <1>1, <2>2
  <2>6. FlattenSeq(t) = f[n] \o e
    BY <1>1, <1>2, <1>4, <2>4, <2>5
  <2> QED BY <2>1, <2>6 DEF t
<1> QED BY <1>5, <1>6

-----------------------------------------------------------------------------
(* Entries and their continuations.                                        *)

\* An entry with its continuations.
Whole(c) == c # << >> /\ c[1].level = 0 /\ \A k \in 2..Len(c) : c[k].level # 0

\* The entries of t are the sequences of s, the i-th one behind the place o[i].
Divided(s, t, o) == /\ Tops(t) = {o[i] + 1 : i \in 1..Len(s)}
                    /\ \A i \in 1..Len(s) : GroupAt(t, o[i] + 1) = s[i]

\* In a list of whole entries each begins where a line of level 0 is, and goes on to the next one.
LEMMA LaidGroups ==
    ASSUME NEW s \in Seq(Seq(Entry)), NEW t \in Seq(Entry), NEW o, Laid(s, t, o), \A i \in 1..Len(s) : Whole(s[i])
    PROVE  Divided(s, t, o)
<1> DEFINE N == Len(s)
           M == Len(t)
<1>0. N \in Nat /\ M \in Nat /\ DOMAIN t = 1..M
  OBVIOUS
<1>1. ASSUME NEW i \in 1..N
      PROVE  /\ s[i] \in Seq(Entry) /\ Len(s[i]) \in Nat /\ Len(s[i]) >= 1 /\ o[i] \in Nat
             /\ o[i] + Len(s[i]) <= M
             /\ \A k \in 1..Len(s[i]) : t[o[i] + k] = s[i][k]
             /\ t[o[i] + 1].level = 0
             /\ \A x \in (o[i] + 2)..(o[i] + Len(s[i])) : t[x].level # 0
  <2>1. s[i] \in Seq(Entry) /\ s[i] # << >> /\ s[i][1].level = 0 /\ (\A k \in 2..Len(s[i]) : s[i][k].level # 0)
    BY DEF Whole
  <2>2. Len(s[i]) \in Nat /\ Len(s[i]) >= 1
    BY <2>1, EmptySeq
  <2>3. o[i] \in Nat /\ o[i] + Len(s[i]) <= M /\ (\A k \in 1..Len(s[i]) : t[o[i] + k] = s[i][k])
    BY DEF Laid
  <2>4. t[o[i] + 1].level = 0
    <3>1. 1 \in 1..Len(s[i])
      BY <2>2
    <3>2. t[o[i] + 1] = s[i][1]
      BY <2>3, <3>1
    <3> QED BY <2>1, <3>2
  <2>5. ASSUME NEW x \in (o[i] + 2)..(o[i] + Len(s[i])) PROVE t[x].level # 0
    <3>1. x - o[i] \in 2..Len(s[i]) /\ x - o[i] \in 1..Len(s[i]) /\ o[i] + (x - o[i]) = x
      <4> DEFINE a == o[i]
                 b == Len(s[i])
      <4>1. a \in Nat /\ b \in Nat /\ x \in (a + 2)..(a + b)
        BY <2>2, <2>3
      <4> HIDE DEF a, b
      <4>2. x - a \in 2..b /\ x - a \in 1..b /\ a + (x - a) = x
        BY <4>1
      <4> QED BY <4>2 DEF a, b
    <3>2. t[x] = s[i][x - o[i]]
      BY <2>3, <3>1
    <3> QED BY <2>1, <3>1, <3>2
  <2> QED BY <2>1, <2>2, <2>3, <2>4, <2>5
<1>2. \A x \in 1..M : \E i \in 1..N : o[i] < x /\ x <= o[i] + Len(s[i])
  BY DEF Laid
<1>3. \A i, k \in 1..N : i < k => o[i] + Len(s[i]) <= o[k]
  BY DEF Laid
<1> HIDE DEF N, M
<1>4. ASSUME NEW x \in Tops(t) PROVE x \in {o[i] + 1 : i \in 1..N}
  <2>1. x \in 1..M /\ t[x].level = 0
    BY <1>0 DEF Tops
  <2>2. PICK i \in 1..N : o[i] < x /\ x <= o[i] + Len(s[i])
    BY <1>2, <2>1
  <2>3. x = o[i] + 1
    BY <1>0, <1>1, <2>1, <2>2
  <2> QED BY <2>3
<1>5. ASSUME NEW i \in 1..N PROVE o[i] + 1 \in Tops(t)
  <2>1. o[i] + 1 \in 1..M
    <3> DEFINE a == o[i]
               b == Len(s[i])
    <3>1. a \in Nat /\ b \in Nat /\ b >= 1 /\ a + b <= M
      BY <1>1
    <3> HIDE DEF a, b, M
    <3>2. a + 1 \in 1..M
      BY <1>0, <3>1
    <3> QED BY <3>2 DEF a
  <2> QED BY <1>0, <1>1, <2>1 DEF Tops
<1>6. ASSUME NEW i \in 1..N PROVE GroupAt(t, o[i] + 1) = s[i]
  <2> DEFINE a == o[i] + 1
             e == o[i] + Len(s[i])
             ends == {k \in a..M : \A x \in (a + 1)..k : t[x].level # 0}
  <2>0. a \in Nat /\ e \in Nat /\ a <= e /\ e <= M
    BY <1>0, <1>1
  <2>1. e \in ends
    <3>1. \A x \in (a + 1)..e : t[x].level # 0
      BY <1>1
    <3> HIDE DEF a, e
    <3> QED BY <1>0, <2>0, <3>1
  <2>2. ASSUME NEW k \in ends PROVE k <= e
    <3> SUFFICES ASSUME k > e PROVE FALSE
      BY <1>0, <2>0
    <3>1. k \in Nat /\ k <= M /\ e + 1 \in 1..M /\ e + 1 \in (a + 1)..k
      BY <1>0, <2>0
    <3>2. PICK n \in 1..N : o[n] < e + 1 /\ e + 1 <= o[n] + Len(s[n])
      BY <1>2, <3>1
    <3>3. o[n] = e
      <4> DEFINE p == o[n]
                 q == Len(s[n])
                 u == o[i]
                 v == Len(s[i])
      <4>0. p \in Nat /\ q \in Nat /\ u \in Nat /\ v \in Nat /\ n \in Int /\ i \in Int
        BY <1>0, <1>1
      <4>1. (n < i => p + q <= u) /\ (i < n => u + v <= p)
        BY <1>3
      <4>2. p < (u + v) + 1 /\ (u + v) + 1 <= p + q /\ (n = i => p = u /\ q = v)
        BY <3>2
      <4> HIDE DEF p, q, u, v
      <4>3. p = u + v
        BY <4>0, <4>1, <4>2
      <4> QED BY <4>3 DEF p, u, v
    <3>4. t[e + 1].level = 0
      BY <1>1, <3>3
    <3> QED BY <3>1, <3>4
  <2> DEFINE last == CHOOSE k \in ends : \A x \in ends : x <= k
  <2>3. last = e
    <3>1. last \in ends /\ \A x \in ends : x <= last
      <4> HIDE DEF ends
      <4> QED BY <2>1, <2>2
    <3>2. last <= e /\ e <= last
      <4> HIDE DEF last, ends
      <4> QED BY <2>1, <2>2, <3>1
    <3>3. last \in Int
      <4> HIDE DEF last
      <4> QED BY <3>1, <2>0, <1>0
    <3> HIDE DEF last, ends
    <3> QED BY <2>0, <3>2, <3>3
  <2>4. GroupAt(t, a) = SubSeq(t, a, e)
    BY <2>3 DEF GroupAt, M
  <2>5. SubSeq(t, a, e) = s[i]
    <3>0. \A x \in a..e : t[x] \in Entry
      <4>1. \A x \in 1..M : t[x] \in Entry
        BY DEF M
      <4> HIDE DEF a, e
      <4>2. 1 <= a
        BY <1>1 DEF a
      <4> QED BY <1>0, <2>0, <4>1, <4>2
    <3>1. /\ SubSeq(t, a, e) \in Seq(Entry) /\ Len(SubSeq(t, a, e)) = (e - a) + 1
          /\ \A x \in 1..((e - a) + 1) : SubSeq(t, a, e)[x] = t[(a + x) - 1]
      <4> HIDE DEF a, e
      <4> QED BY <2>0, <3>0, SubSeqProperties
    <3>2. (e - a) + 1 = Len(s[i]) /\ s[i] \in Seq(Entry)
      <4>1. Len(s[i]) \in Nat /\ o[i] \in Nat /\ s[i] \in Seq(Entry)
        BY <1>1
      <4> QED BY <4>1
    <3>3. ASSUME NEW x \in 1..Len(s[i]) PROVE SubSeq(t, a, e)[x] = s[i][x]
      <4>1. (a + x) - 1 = o[i] + x
        BY <1>1
      <4>2. SubSeq(t, a, e)[x] = t[o[i] + x]
        <5> HIDE DEF a, e
        <5> QED BY <3>1, <3>2, <4>1
      <4> QED BY <1>1, <4>2
    <3> HIDE DEF a, e
    <3>4. \A x \in 1..Len(SubSeq(t, a, e)) : SubSeq(t, a, e)[x] = s[i][x]
      BY <3>1, <3>2, <3>3
    <3> QED BY <3>1, <3>2, <3>4, SeqEqual
  <2> QED BY <2>4, <2>5
<1>7. Tops(t) = {o[i] + 1 : i \in 1..N}
  BY <1>4, <1>5
<1> QED BY <1>6, <1>7 DEF N, Divided

\* Joining whole entries and taking the list apart again gives the same entries.
LEMMA JoinedGroups ==
    ASSUME NEW s \in Seq(Seq(Entry)), \A i \in 1..Len(s) : Whole(s[i])
    PROVE  Groups(FlattenSeq(s)) = {s[i] : i \in 1..Len(s)}
<1> DEFINE t == FlattenSeq(s)
<1>1. PICK o : t \in Seq(Entry) /\ Laid(s, t, o)
  BY FlattenLays
<1> HIDE DEF t
<1>2. Tops(t) = {o[i] + 1 : i \in 1..Len(s)} /\ \A i \in 1..Len(s) : GroupAt(t, o[i] + 1) = s[i]
  <2>1. Divided(s, t, o)
    BY <1>1, LaidGroups
  <2> QED BY <2>1 DEF Divided
<1>3. Groups(t) = {GroupAt(t, o[i] + 1) : i \in 1..Len(s)}
  BY <1>2, Zenon DEF Groups
<1>4. {GroupAt(t, o[i] + 1) : i \in 1..Len(s)} = {s[i] : i \in 1..Len(s)}
  BY <1>2, Zenon
<1> QED BY <1>3, <1>4 DEF t

-----------------------------------------------------------------------------
(* The order of the entries.                                               *)

\* An entry as parse() leaves it: parse_strength() refuses to divide by zero, and every word is in
\* the order of this machine.
Usable(m) == (m.op = "/" => m.factor # 0) /\ m.other = {}

\* A strength is a number.
LEMMA StrengthType == ASSUME NEW m \in Entry, Usable(m) PROVE file_magic_strength(m) \in Int
<1>1. /\ m.type \in Types /\ m.reln \in Relns /\ m.vallen \in Nat /\ m.factor \in Nat /\ m.desc \in BOOLEAN
      /\ m.op \in {"none", "+", "-", "*", "/"}
  BY DEF Entry
<1>2. \A a \in Int, b \in Nat \ {0} : a \div b \in Int
  OBVIOUS
<1>3. \A a, b \in Int : a + b \in Int /\ a - b \in Int /\ a * b \in Int /\ Larger(a, b) \in Int
  BY DEF Larger
<1>4. MULT \in Int /\ 2 * MULT \in Int /\ 3 * MULT \in Int
  BY DEF MULT
<1>5. TypeStrength(m) \in Int \/ m.type = "default"
  <2>1. CASE m.type \in {"byte", "long"}
    <3>1. typesize[m.type] \in Int
      BY <2>1 DEF typesize
    <3>2. TypeStrength(m) = 2 * MULT + typesize[m.type] * MULT
      BY <2>1 DEF TypeStrength
    <3> QED BY <1>3, <1>4, <3>1, <3>2
  <2>2. CASE m.type = "string"
    <3>1. TypeStrength(m) = 2 * MULT + m.vallen * MULT
      BY <2>2 DEF TypeStrength
    <3>2. m.vallen \in Int
      BY <1>1
    <3>3. m.vallen * MULT \in Int
      BY <1>3, <1>4, <3>2
    <3> QED BY <1>3, <1>4, <3>1, <3>3
  <2>3. CASE m.type = "search"
    <3> DEFINE v == IF m.vallen = 0 THEN 0 ELSE m.vallen * Larger(MULT \div m.vallen, 1)
    <3>1. TypeStrength(m) = 2 * MULT + v
      BY <2>3 DEF TypeStrength
    <3>2. v \in Int
      <4>1. CASE m.vallen = 0
        BY <4>1
      <4>2. CASE m.vallen # 0
        <5>1. MULT \div m.vallen \in Int
          BY <1>1, <1>2, <1>4, <4>2
        <5>2. Larger(MULT \div m.vallen, 1) \in Int
          BY <1>3, <5>1
        <5> DEFINE y == Larger(MULT \div m.vallen, 1)
        <5>3. m.vallen * y \in Int
          <6>1. m.vallen \in Int
            BY <1>1
          <6> HIDE DEF y
          <6> QED BY <1>3, <5>2, <6>1 DEF y
        <5> QED BY <4>2, <5>3
      <4> QED BY <4>1, <4>2
    <3> HIDE DEF v
    <3> QED BY <1>3, <1>4, <3>1, <3>2
  <2>4. CASE m.type = "regex"
    <3> DEFINE v == Larger(m.vallen, 1)
    <3>1. TypeStrength(m) = 2 * MULT + v * Larger(MULT \div v, 1)
      BY <2>4 DEF TypeStrength
    <3>2. v \in Nat \ {0}
      BY <1>1 DEF Larger
    <3> HIDE DEF v
    <3>3. MULT \div v \in Int
      BY <1>2, <1>4, <3>2
    <3>4. Larger(MULT \div v, 1) \in Int
      BY <1>3, <3>3
    <3>5. v * Larger(MULT \div v, 1) \in Int
      BY <1>3, <3>2, <3>4
    <3> QED BY <1>3, <1>4, <3>1, <3>5
  <2>5. CASE m.type \in {"name", "use"}
    <3>1. TypeStrength(m) = 2 * MULT
      BY <2>5 DEF TypeStrength
    <3> QED BY <1>4, <3>1
  <2>6. CASE m.type = "der"
    <3>1. TypeStrength(m) = 3 * MULT
      BY <2>6 DEF TypeStrength
    <3> QED BY <1>4, <3>1
  <2> QED BY <1>1, <2>1, <2>2, <2>3, <2>4, <2>5, <2>6 DEF Types
<1>6. Strength1(m) \in Int
  BY <1>1, <1>3, <1>4, <1>5 DEF Strength1, Relns
<1> DEFINE weighed == CASE m.op = "none" -> Strength1(m)
                        [] m.op = "+" -> Strength1(m) + m.factor
                        [] m.op = "-" -> Strength1(m) - m.factor
                        [] m.op = "*" -> Strength1(m) * m.factor
                        [] m.op = "/" -> Strength1(m) \div m.factor
<1>7. weighed \in Int
  <2>1. CASE m.op = "none"
    BY <1>6, <2>1
  <2>2. CASE m.op = "+"
    BY <1>1, <1>3, <1>6, <2>2
  <2>3. CASE m.op = "-"
    BY <1>1, <1>3, <1>6, <2>3
  <2>4. CASE m.op = "*"
    BY <1>1, <1>3, <1>6, <2>4
  <2>5. CASE m.op = "/"
    <3>1. Strength1(m) \div m.factor \in Int
      BY <1>1, <1>2, <1>6, <2>5 DEF Usable
    <3> QED BY <2>5, <3>1
  <2> QED BY <1>1, <2>1, <2>2, <2>3, <2>4, <2>5
<1>8. file_magic_strength(m) = Larger(weighed, 1) + IF m.desc THEN 0 ELSE 1
  BY DEF file_magic_strength
<1> HIDE DEF weighed
<1>9. Larger(weighed, 1) \in Int
  BY <1>3, <1>7
<1> QED BY <1>8, <1>9

\* The place of a code in its table is a number.
LEMMA CodeType == ASSUME NEW S, NEW x, \E i \in 1..Len(S) : S[i] = x PROVE Code(S, x) \in Int
<1>1. Code(S, x) \in 1..Len(S)
  BY DEF Code
<1> QED BY <1>1

\* The bytes of an entry are twelve numbers.
LEMMA BytesType == ASSUME NEW m \in Entry PROVE Bytes(m) \in Seq(Int) /\ Len(Bytes(m)) = 12
<1>1. /\ m.type \in Types /\ m.reln \in Relns /\ m.vallen \in Int /\ m.factor \in Int /\ m.cond \in Conds
      /\ m.op \in {"none", "+", "-", "*", "/"} /\ m.flag \in {"none", "bin", "text"} /\ m.extra \in SUBSET Extras
  BY DEF Entry
<1> DEFINE c1 == Code(<<"none", "bin", "text">>, m.flag)
           c2 == Code(<<"!", "&", "<", "=", ">", "^", "x">>, m.reln)
           c3 == Code(<<"byte", "long", "default", "string", "regex", "search", "name", "use", "der">>, m.type)
           c4 == Code(<<"none", "if", "elif", "else">>, m.cond)
           c5 == Code(<<"none", "*", "+", "-", "/">>, m.op)
<1>2. c1 \in Int
  <2>1. \E i \in 1..3 : <<"none", "bin", "text">>[i] = m.flag
    BY <1>1
  <2> QED BY <2>1, CodeType
<1>3. c2 \in Int
  <2>1. \E i \in 1..7 : <<"!", "&", "<", "=", ">", "^", "x">>[i] = m.reln
    BY <1>1 DEF Relns
  <2> QED BY <2>1, CodeType
<1>4. c3 \in Int
  <2>1. \E i \in 1..9 : <<"byte", "long", "default", "string", "regex", "search", "name", "use", "der">>[i] = m.type
    BY <1>1 DEF Types
  <2> QED BY <2>1, CodeType
<1>5. c4 \in Int
  <2>1. \E i \in 1..4 : <<"none", "if", "elif", "else">>[i] = m.cond
    BY <1>1 DEF Conds
  <2> QED BY <2>1, CodeType
<1>6. c5 \in Int
  <2>1. \E i \in 1..5 : <<"none", "*", "+", "-", "/">>[i] = m.op
    BY <1>1
  <2> QED BY <2>1, CodeType
<1>7. Cardinality(m.extra) \in Int
  <2>1. IsFiniteSet(Extras)
    <3>1. Extras = (({} \cup {"mime"}) \cup {"apple"}) \cup {"ext"}
      BY DEF Extras
    <3>2. IsFiniteSet({} \cup {"mime"})
      BY FS_EmptySet, FS_AddElement
    <3>3. IsFiniteSet(({} \cup {"mime"}) \cup {"apple"})
      BY <3>2, FS_AddElement
    <3> QED BY <3>1, <3>3, FS_AddElement
  <2>2. IsFiniteSet(m.extra)
    BY <1>1, <2>1, FS_Subset
  <2>3. Cardinality(m.extra) \in Nat
    BY <2>2, FS_CardinalityType
  <2> QED BY <2>3
<1> DEFINE b1 == IF m.text THEN 1 ELSE 0
           b2 == IF m.desc THEN 1 ELSE 0
           b3 == IF "mime" \in m.extra THEN 1 ELSE 0
           b4 == IF "apple" \in m.extra THEN 1 ELSE 0
<1>8. b1 \in Int /\ b2 \in Int /\ b3 \in Int /\ b4 \in Int
  OBVIOUS
<1>9. Bytes(m) = << c1, m.factor, c2, m.vallen, c3, c4, c5, b1, b2, Cardinality(m.extra), b3, b4 >>
  BY DEF Bytes
<1> HIDE DEF c1, c2, c3, c4, c5, b1, b2, b3, b4
<1>10. m.factor \in Int /\ m.vallen \in Int
  BY <1>1
<1> QED BY <1>2, <1>3, <1>4, <1>5, <1>6, <1>7, <1>8, <1>9, <1>10

\* memcmp() of two blocks of the same length tells them apart when they differ.
LEMMA MemcmpTells ==
    ASSUME NEW a \in Seq(Int), NEW b \in Seq(Int), Len(a) = Len(b), ~memcmpGreater(a, b), ~memcmpGreater(b, a)
    PROVE  a = b
<1> SUFFICES ASSUME a # b PROVE FALSE
  OBVIOUS
<1> DEFINE n == Len(a)
           T == {i \in 1..n : a[i] # b[i]}
<1>0. n \in Nat /\ (\A i \in 1..n : a[i] \in Int /\ b[i] \in Int)
  OBVIOUS
<1>1. T # {}
  BY SeqEqual
<1>2. T \in SUBSET Nat
  BY <1>0
<1>3. PICK i \in T : \A y \in T : i <= y
  BY <1>1, <1>2, Least
<1>4. \A k \in 1..(i - 1) : a[k] = b[k]
  <2> TAKE k \in 1..(i - 1)
  <2>1. k \in 1..n /\ ~(i <= k)
    BY <1>0
  <2> QED BY <1>3, <2>1
<1>5. a[i] > b[i] \/ b[i] > a[i]
  BY <1>0, <1>3
<1> QED BY <1>3, <1>4, <1>5 DEF memcmpGreater

\* What is greater than a third block is so through every block between.
LEMMA MemcmpBetween ==
    ASSUME NEW a \in Seq(Int), NEW b \in Seq(Int), NEW c \in Seq(Int), Len(a) = Len(b), Len(b) = Len(c),
           memcmpGreater(a, c)
    PROVE  memcmpGreater(a, b) \/ memcmpGreater(b, c)
<1> DEFINE n == Len(a)
<1>0. n \in Nat /\ (\A i \in 1..n : a[i] \in Int /\ b[i] \in Int /\ c[i] \in Int)
  OBVIOUS
<1>1. PICK i \in 1..n : a[i] > c[i] /\ \A k \in 1..(i - 1) : a[k] = c[k]
  BY DEF memcmpGreater
<1> DEFINE T == {k \in 1..(i - 1) : a[k] # b[k]}
<1>2. CASE T = {}
  <2>1. \A k \in 1..(i - 1) : a[k] = b[k] /\ b[k] = c[k]
    BY <1>1, <1>2
  <2>2. a[i] > b[i] \/ b[i] > c[i]
    BY <1>0, <1>1
  <2> QED BY <1>1, <2>1, <2>2 DEF memcmpGreater
<1>3. CASE T # {}
  <2>1. T \in SUBSET Nat
    BY <1>0
  <2>2. PICK x \in T : \A y \in T : x <= y
    BY <1>3, <2>1, Least
  <2>3. x \in 1..n /\ a[x] # b[x] /\ a[x] = c[x]
    BY <1>0, <1>1
  <2>4. ASSUME NEW k \in 1..(x - 1) PROVE a[k] = b[k] /\ b[k] = c[k]
    <3>1. k \in 1..(i - 1) /\ ~(x <= k)
      BY <1>0
    <3>2. a[k] = b[k]
      BY <2>2, <3>1
    <3> QED BY <1>1, <3>1, <3>2
  <2>5. a[x] > b[x] \/ b[x] > c[x]
    <3>1. a[x] \in Int /\ b[x] \in Int
      BY <1>0, <2>3
    <3> QED BY <2>3, <3>1
  <2> QED BY <2>3, <2>4, <2>5 DEF memcmpGreater
<1> QED BY <1>2, <1>3

\* An entry that can be sorted: whole, and with a strength.
Sortable(e) == e \in Seq(Entry) /\ e # << >> /\ Usable(e[1])

\* apprentice_sort() is a strict weak order, and takes as equals only what has the same bytes.
LEMMA SortOrder ==
    /\ \A a : Sortable(a) => ~apprentice_sort(a, a)
    /\ \A a, b, c : Sortable(a) /\ Sortable(b) /\ Sortable(c) /\ apprentice_sort(a, c)
                       => apprentice_sort(a, b) \/ apprentice_sort(b, c)
    /\ \A a, b : Sortable(a) /\ Sortable(b) /\ ~apprentice_sort(a, b) /\ ~apprentice_sort(b, a)
                    => Bytes(a[1]) = Bytes(b[1])
    /\ \A a, b : Sortable(a) /\ Sortable(b) /\ ~apprentice_sort(b, a)
                    => file_magic_strength(a[1]) >= file_magic_strength(b[1])
<1> DEFINE f(e) == file_magic_strength(e[1])
           g(e) == Bytes(e[1])
<1>0. ASSUME NEW e, Sortable(e) PROVE f(e) \in Int /\ g(e) \in Seq(Int) /\ Len(g(e)) = 12
  <2>1. e[1] \in Entry /\ Usable(e[1])
    BY <1>0 DEF Sortable
  <2> QED BY <2>1, StrengthType, BytesType
<1>1. \A a, b : apprentice_sort(a, b) <=> IF f(a) # f(b) THEN f(a) > f(b) ELSE memcmpGreater(g(a), g(b))
  BY DEF apprentice_sort
<1> HIDE DEF f, g
<1>2. ASSUME NEW a, Sortable(a) PROVE ~apprentice_sort(a, a)
  <2>1. g(a) \in Seq(Int)
    BY <1>0, <1>2
  <2>2. ~memcmpGreater(g(a), g(a))
    <3>1. \A i \in 1..Len(g(a)) : ~(g(a)[i] > g(a)[i])
      BY <2>1
    <3> QED BY <3>1 DEF memcmpGreater
  <2> QED BY <1>1, <2>2
<1>3. ASSUME NEW a, NEW b, NEW c, Sortable(a), Sortable(b), Sortable(c), apprentice_sort(a, c)
      PROVE  apprentice_sort(a, b) \/ apprentice_sort(b, c)
  <2>1. f(a) \in Int /\ f(b) \in Int /\ f(c) \in Int
    BY <1>0, <1>3
  <2>2. CASE f(a) # f(c)
    <3>1. f(a) > f(c)
      BY <1>1, <1>3, <2>2
    <3>2. f(a) > f(b) \/ f(b) > f(c)
      BY <2>1, <3>1
    <3> QED BY <1>1, <2>1, <3>2
  <2>3. CASE f(a) = f(c) /\ f(b) # f(a)
    <3>1. f(a) > f(b) \/ f(b) > f(c)
      BY <2>1, <2>3
    <3> QED BY <1>1, <2>1, <3>1
  <2>4. CASE f(a) = f(c) /\ f(b) = f(a)
    <3>1. memcmpGreater(g(a), g(c))
      BY <1>1, <1>3, <2>4
    <3>2. /\ g(a) \in Seq(Int) /\ g(b) \in Seq(Int) /\ g(c) \in Seq(Int)
          /\ Len(g(a)) = Len(g(b)) /\ Len(g(b)) = Len(g(c))
      BY <1>0, <1>3
    <3>3. memcmpGreater(g(a), g(b)) \/ memcmpGreater(g(b), g(c))
      BY <3>1, <3>2, MemcmpBetween
    <3> QED BY <1>1, <2>4, <3>3
  <2> QED BY <2>2, <2>3, <2>4
<1>4. ASSUME NEW a, NEW b, Sortable(a), Sortable(b), ~apprentice_sort(a, b), ~apprentice_sort(b, a)
      PROVE  g(a) = g(b)
  <2>1. f(a) \in Int /\ f(b) \in Int
    BY <1>0, <1>4
  <2>2. f(a) = f(b)
    BY <1>1, <1>4, <2>1
  <2>3. ~memcmpGreater(g(a), g(b)) /\ ~memcmpGreater(g(b), g(a))
    BY <1>1, <1>4, <2>2
  <2>4. g(a) \in Seq(Int) /\ g(b) \in Seq(Int) /\ Len(g(a)) = Len(g(b))
    BY <1>0, <1>4
  <2> QED BY <2>3, <2>4, MemcmpTells
<1>5. ASSUME NEW a, NEW b, Sortable(a), Sortable(b), ~apprentice_sort(b, a) PROVE f(a) >= f(b)
  <2>1. f(a) \in Int /\ f(b) \in Int
    BY <1>0, <1>5
  <2> QED BY <1>1, <1>5, <2>1
<1> QED BY <1>2, <1>3, <1>4, <1>5 DEF f, g

\* The pigeonhole principle for an injection on the places of a list.
LEMMA NoRoom ==
    ASSUME NEW n \in Nat, NEW p \in [1..n -> 1..n], \A i, k \in 1..n : i # k => p[i] # p[k],
           NEW a \in Int, NEW b \in Int, NEW c \in Int, NEW d \in Int, a >= 1, b <= n, a <= b, d - c < b - a
    PROVE  \E k \in a..b : p[k] \notin c..d
<1> SUFFICES ASSUME \A k \in a..b : p[k] \in c..d PROVE FALSE
  OBVIOUS
<1> DEFINE q == [k \in a..b |-> p[k]]
<1>1. q \in [a..b -> c..d]
  OBVIOUS
<1>2. IsFiniteSet(a..b) /\ IsFiniteSet(c..d) /\ Cardinality(c..d) < Cardinality(a..b)
  <2>1. IsFiniteSet(a..b) /\ Cardinality(a..b) = IF a > b THEN 0 ELSE b - a + 1
    BY FS_Interval
  <2>2. IsFiniteSet(c..d) /\ Cardinality(c..d) = IF c > d THEN 0 ELSE d - c + 1
    BY FS_Interval
  <2>3. (IF c > d THEN 0 ELSE d - c + 1) < (IF a > b THEN 0 ELSE b - a + 1)
    OBVIOUS
  <2> QED BY <2>1, <2>2, <2>3
<1>3. \E x, y \in a..b : x # y /\ q[x] = q[y]
  <2> DEFINE S == a..b
             T == c..d
  <2>1. IsFiniteSet(S) /\ IsFiniteSet(T) /\ Cardinality(T) < Cardinality(S) /\ q \in [S -> T]
    BY <1>1, <1>2
  <2> HIDE DEF q, S, T
  <2>2. \E x, y \in S : x # y /\ q[x] = q[y]
    BY <2>1, FS_PigeonHole
  <2> QED BY <2>2 DEF S
<1>4. PICK x \in a..b, y \in a..b : x # y /\ q[x] = q[y]
  BY <1>3
<1>5. x \in 1..n /\ y \in 1..n /\ p[x] = p[y]
  BY <1>4
<1> QED BY <1>4, <1>5

\* A list is sorted.
InOrder(s) == \A i, k \in 1..Len(s) : i < k => ~apprentice_sort(s[k], s[i])

\* Two orders that qsort() may leave a list in have the same bytes at every place.
LEMMA SortedAgree ==
    ASSUME NEW s \in Seq(Seq(Entry)), \A i \in 1..Len(s) : Sortable(s[i]), InOrder(s),
           NEW p \in Sorted(s), NEW i \in 1..Len(s)
    PROVE  Bytes(s[p[i]][1]) = Bytes(s[i][1])
<1> DEFINE n == Len(s)
<1>0. n \in Nat /\ i \in 1..n
  OBVIOUS
<1>1. p \in [1..n -> 1..n] /\ (\A x, k \in 1..n : x # k => p[x] # p[k])
      /\ (\A x, k \in 1..n : x < k => ~apprentice_sort(s[p[k]], s[p[x]]))
  BY DEF Sorted
<1>2. \A x, k \in 1..n : x <= k => ~apprentice_sort(s[k], s[x])
  <2> TAKE x \in 1..n, k \in 1..n
  <2> HAVE x <= k
  <2>1. CASE x = k
    BY <2>1, SortOrder
  <2>2. CASE x # k
    <3>1. x < k
      BY <1>0, <2>2
    <3> QED BY <3>1 DEF InOrder
  <2> QED BY <2>1, <2>2
<1>3. \A x, k \in 1..n : x <= k => ~apprentice_sort(s[p[k]], s[p[x]])
  <2> TAKE x \in 1..n, k \in 1..n
  <2> HAVE x <= k
  <2>1. CASE x = k
    BY <1>1, <2>1, SortOrder
  <2>2. CASE x # k
    <3>1. x < k
      BY <1>0, <2>2
    <3> QED BY <1>1, <3>1
  <2> QED BY <2>1, <2>2
<1>4. \A x \in 1..n : Sortable(s[x]) /\ Sortable(s[p[x]])
  BY <1>1
<1> HIDE DEF n
<1>5. ~apprentice_sort(s[p[i]], s[i])
  <2> SUFFICES ASSUME apprentice_sort(s[p[i]], s[i]) PROVE FALSE
    OBVIOUS
  <2>1. PICK k \in 1..i : p[k] \notin 1..(i - 1)
    <3>1. 1 \in Int /\ i \in Int /\ i - 1 \in Int /\ 1 >= 1 /\ i <= n /\ 1 <= i /\ (i - 1) - 1 < i - 1
      BY <1>0
    <3> QED BY <1>0, <1>1, <3>1, NoRoom
  <2>2. k \in 1..n /\ k <= i /\ p[k] \in 1..n /\ i <= p[k]
    <3>1. k \in 1..n /\ k <= i
      BY <1>0
    <3>2. p[k] \in 1..n
      BY <1>1, <3>1
    <3> DEFINE v == p[k]
    <3>3. v \in 1..n /\ v \notin 1..(i - 1)
      BY <2>1, <3>2
    <3> HIDE DEF v
    <3>4. i <= v
      BY <1>0, <3>3
    <3> QED BY <3>1, <3>2, <3>4 DEF v
  <2>3. ~apprentice_sort(s[p[k]], s[i]) /\ ~apprentice_sort(s[p[i]], s[p[k]])
    BY <1>0, <1>2, <1>3, <2>2
  <2> QED BY <1>0, <1>4, <2>2, <2>3, SortOrder
<1>6. ~apprentice_sort(s[i], s[p[i]])
  <2> SUFFICES ASSUME apprentice_sort(s[i], s[p[i]]) PROVE FALSE
    OBVIOUS
  <2>1. PICK k \in i..n : p[k] \notin (i + 1)..n
    <3>1. i \in Int /\ n \in Int /\ i + 1 \in Int /\ i >= 1 /\ n <= n /\ i <= n /\ n - (i + 1) < n - i
      BY <1>0
    <3> QED BY <1>0, <1>1, <3>1, NoRoom
  <2>2. k \in 1..n /\ i <= k /\ p[k] \in 1..n /\ p[k] <= i
    <3>1. k \in 1..n /\ i <= k
      BY <1>0
    <3>2. p[k] \in 1..n
      BY <1>1, <3>1
    <3> DEFINE v == p[k]
    <3>3. v \in 1..n /\ v \notin (i + 1)..n
      BY <2>1, <3>2
    <3> HIDE DEF v
    <3>4. v <= i
      BY <1>0, <3>3
    <3> QED BY <3>1, <3>2, <3>4 DEF v
  <2>3. ~apprentice_sort(s[i], s[p[k]]) /\ ~apprentice_sort(s[p[k]], s[p[i]])
    BY <1>0, <1>2, <1>3, <2>2
  <2> QED BY <1>0, <1>4, <2>2, <2>3, SortOrder
<1> QED BY <1>0, <1>4, <1>5, <1>6, SortOrder

\* Sorting loses nothing.
LEMMA SortedOnto ==
    ASSUME NEW s \in Seq(Seq(Entry)), NEW p \in Sorted(s), NEW x \in 1..Len(s)
    PROVE  \E i \in 1..Len(s) : p[i] = x
<1> DEFINE n == Len(s)
           S == 1..n
<1>0. n \in Nat
  OBVIOUS
<1>1. p \in [S -> S] /\ (\A i, k \in S : i # k => p[i] # p[k])
  BY DEF Sorted
<1>2. IsFiniteSet(S)
  BY <1>0, FS_Interval
<1>3. p \in Injection(S, S)
  <2> HIDE DEF S
  <2> QED BY <1>1 DEF Injection, IsInjective
<1>4. p \in Surjection(S, S)
  <2> HIDE DEF S
  <2> QED BY <1>2, <1>3, FS_Injection
<1> QED BY <1>4 DEF Surjection

-----------------------------------------------------------------------------
(* What has been read and where it is.                                     *)

\* h holds the entries in the order in which they were read: src is their lines, m the one that
\* is being built, ms the finished ones; all are there unless e, an error was recorded.
History(h, src, m, ms, e) ==
    /\ h \in Seq(Seq(Entry)) /\ \A i \in 1..Len(h) : Whole(h[i])
    /\ src = FlattenSeq(h)
    /\ m # << >> => h # << >> /\ h[Len(h)] = m
    /\ \A j \in Sets : \A i \in 1..Len(ms[j]) : \E x \in 1..Len(h) : h[x] = ms[j][i]
    /\ ~e => \A x \in 1..Len(h) : \/ m # << >> /\ x = Len(h)
                                  \/ \E j \in Sets : \E i \in 1..Len(ms[j]) : ms[j][i] = h[x]

\* Both sets are in the order of the lines, before the entry that is being built, and the named
\* entries are in the second one.
Placed(m, ms, n) ==
    /\ \A j \in Sets : \A i \in 1..Len(ms[j]) : /\ ms[j][i] # << >> /\ ms[j][i][1].lineno <= n
                                                /\ (ms[j][i][1].type = "name") = (j = 1)
                                                /\ m # << >> => ms[j][i][1].lineno < m[1].lineno
    /\ \A j \in Sets : \A i, k \in 1..Len(ms[j]) : i < k => ms[j][i][1].lineno < ms[j][k][1].lineno
    /\ m # << >> => m[1].lineno <= n

\* The lines are numbered in their order, not yet sorted out into binary and text tests, and
\* have a strength.
Numbered(s, n) ==
    /\ \A i \in 1..Len(s) : s[i].lineno <= n /\ s[i].flag = "none" /\ Usable(s[i])
    /\ \A i, k \in 1..Len(s) : i < k => s[i].lineno < s[k].lineno

\* Nothing was read.
LEMMA NoHistory == ASSUME NEW n, NEW e
                   PROVE  /\ History(<< >>, << >>, << >>, EmptyMap, e) /\ Placed(<< >>, EmptyMap, n)
                          /\ Numbered(<< >>, n)
<1>1. << >> \in Seq(Seq(Entry)) /\ FlattenSeq(<< >>) = << >> /\ 1..0 = {} /\ Len(<< >>) = 0
  <2>1. << >> \in Seq(Seq(Entry))
    BY EmptySeq
  <2>2. FlattenSeq(<< >>) = << >>
    BY <2>1, FlattenJoins
  <2> QED BY <2>1, <2>2
<1>2. \A j \in Sets : EmptyMap[j] = << >>
  BY DEF EmptyMap
<1> QED BY <1>1, <1>2 DEF History, Placed, Numbered

\* A new entry begins.
LEMMA EntryBegins ==
    ASSUME NEW h, NEW src, NEW ms, NEW e, History(h, src, << >>, ms, e), NEW q \in Entry, q.level = 0
    PROVE  History(Append(h, << q >>), Append(src, q), << q >>, ms, e)
<1> DEFINE c == << q >>
           g == Append(h, c)
           n == Len(h)
<1>1. h \in Seq(Seq(Entry)) /\ (\A i \in 1..n : Whole(h[i])) /\ src = FlattenSeq(h)
  BY DEF History
<1>2. c \in Seq(Entry) /\ Len(c) = 1 /\ c[1] = q /\ c # << >>
  OBVIOUS
<1>3. Whole(c)
  BY <1>2 DEF Whole
<1> HIDE DEF c
<1>4. /\ g \in Seq(Seq(Entry)) /\ g # << >> /\ n \in Nat /\ Len(g) = n + 1
      /\ (\A i \in 1..n : g[i] = h[i]) /\ g[n + 1] = c
  BY <1>1, <1>2, AppendProperties
<1> HIDE DEF g
<1>5. \A i \in 1..Len(g) : Whole(g[i])
  <2> TAKE i \in 1..Len(g)
  <2>1. i \in 1..n \/ i = n + 1
    BY <1>4
  <2> QED BY <1>1, <1>3, <1>4, <2>1
<1>6. Append(src, q) = FlattenSeq(g)
  <2>1. FlattenSeq(g) = FlattenSeq(h) \o c
    BY <1>1, <1>2, FlattenAppend DEF g
  <2>2. src \in Seq(Entry)
    BY <1>1, FlattenLays
  <2>3. Append(src, q) = src \o << q >>
    BY <2>2, AppendIsConcat
  <2> QED BY <1>1, <2>1, <2>3 DEF c
<1>7. \A j \in Sets : \A i \in 1..Len(ms[j]) : \E x \in 1..Len(g) : g[x] = ms[j][i]
  <2> TAKE j \in Sets
  <2> TAKE i \in 1..Len(ms[j])
  <2>1. PICK x \in 1..n : h[x] = ms[j][i]
    BY DEF History
  <2>2. x \in 1..Len(g) /\ g[x] = h[x]
    BY <1>4
  <2> QED BY <2>1, <2>2
<1>8. ASSUME ~e, NEW x \in 1..Len(g)
      PROVE  x = Len(g) \/ \E j \in Sets : \E i \in 1..Len(ms[j]) : ms[j][i] = g[x]
  <2> SUFFICES ASSUME x # Len(g) PROVE \E j \in Sets : \E i \in 1..Len(ms[j]) : ms[j][i] = g[x]
    OBVIOUS
  <2>1. x \in 1..n
    BY <1>4
  <2>2. \E j \in Sets : \E i \in 1..Len(ms[j]) : ms[j][i] = h[x]
    BY <1>8, <2>1 DEF History
  <2> QED BY <1>4, <2>1, <2>2
<1>9. g[Len(g)] = c
  BY <1>4
<1>10. History(g, Append(src, q), c, ms, e)
  BY <1>2, <1>4, <1>5, <1>6, <1>7, <1>8, <1>9 DEF History
<1> QED BY <1>10 DEF g, c

\* The entry that was being built joins its set.
LEMMA EntryEnds ==
    ASSUME NEW h, NEW src, NEW m \in Seq(Entry), NEW ms \in [Sets -> Seq(Seq(Entry))], NEW e, NEW n \in Nat,
           History(h, src, m, ms, e), Placed(m, ms, n), m # << >>
    PROVE  History(h, src, << >>, addentry(ms, m), e) /\ Placed(<< >>, addentry(ms, m), n)
<1> DEFINE t == IF m[1].type = "name" THEN 1 ELSE 0
           M == addentry(ms, m)
           N(j) == Len(ms[j])
<1>0. t \in Sets /\ (\A j \in Sets : N(j) \in Nat /\ ms[j] \in Seq(Seq(Entry)))
  BY DEF Sets
<1>1. M = [ms EXCEPT ![t] = Append(ms[t], m)]
  BY DEF addentry
<1>2. /\ Len(Append(ms[t], m)) = N(t) + 1 /\ (\A i \in 1..N(t) : Append(ms[t], m)[i] = ms[t][i])
      /\ Append(ms[t], m)[N(t) + 1] = m
  BY <1>0, AppendProperties
<1> HIDE DEF t, M
<1>3. \A j \in Sets : /\ Len(M[j]) = IF j = t THEN N(t) + 1 ELSE N(j)
                      /\ \A i \in 1..N(j) : M[j][i] = ms[j][i]
                      /\ j = t => M[j][N(j) + 1] = m
  BY <1>0, <1>1, <1>2
<1>4. ASSUME NEW j \in Sets
       PROVE  N(j) \in Nat /\ Len(M[j]) \in Nat /\ N(j) <= Len(M[j]) /\ Len(M[j]) <= N(j) + 1
  <2>1. Len(M[j]) = N(j) + 1 \/ Len(M[j]) = N(j)
    BY <1>3
  <2>2. N(j) \in Nat
    BY <1>0
  <2> HIDE DEF N
  <2> QED BY <2>1, <2>2
<1>5. ASSUME NEW j \in Sets, NEW i \in 1..Len(M[j])
      PROVE  (i \in 1..N(j) /\ M[j][i] = ms[j][i]) \/ (j = t /\ i = N(j) + 1 /\ M[j][i] = m)
  <2>1. i \in 1..N(j) \/ (j = t /\ i = N(j) + 1)
    BY <1>0, <1>3
  <2> QED BY <1>3, <2>1
<1>6. ASSUME NEW j \in Sets, NEW i \in 1..Len(M[j]) PROVE \E x \in 1..Len(h) : h[x] = M[j][i]
  <2>1. CASE M[j][i] = m
    <3>1. h # << >> /\ h[Len(h)] = m /\ h \in Seq(Seq(Entry))
      BY DEF History
    <3>2. Len(h) \in 1..Len(h)
      BY <3>1
    <3> QED BY <2>1, <3>1, <3>2
  <2>2. CASE i \in 1..N(j) /\ M[j][i] = ms[j][i]
    BY <2>2 DEF History
  <2> QED BY <1>5, <2>1, <2>2
<1>7. ASSUME ~e, NEW x \in 1..Len(h) PROVE \E j \in Sets : \E i \in 1..Len(M[j]) : M[j][i] = h[x]
  <2>1. CASE x = Len(h)
    <3>1. h[x] = m
      BY <2>1 DEF History
    <3>2. N(t) + 1 \in 1..Len(M[t]) /\ M[t][N(t) + 1] = m
      BY <1>0, <1>3
    <3> QED BY <1>0, <3>1, <3>2
  <2>2. CASE x # Len(h)
    <3>1. PICK j \in Sets : \E i \in 1..N(j) : ms[j][i] = h[x]
      BY <1>7, <2>2 DEF History
    <3>2. PICK i \in 1..N(j) : ms[j][i] = h[x]
      BY <3>1
    <3>3. i \in 1..Len(M[j]) /\ M[j][i] = h[x]
      <4>1. i \in 1..Len(M[j])
        <5> HIDE DEF N
        <5> QED BY <1>4
      <4> QED BY <1>3, <3>2, <4>1
    <3> QED BY <3>3
  <2> QED BY <2>1, <2>2
<1>8. History(h, src, << >>, M, e)
  BY <1>6, <1>7 DEF History
<1>9. ASSUME NEW j \in Sets, NEW i \in 1..Len(M[j])
      PROVE  M[j][i] # << >> /\ M[j][i][1].lineno <= n /\ (M[j][i][1].type = "name") = (j = 1)
  <2>1. CASE i \in 1..N(j) /\ M[j][i] = ms[j][i]
    BY <2>1 DEF Placed
  <2>2. CASE j = t /\ M[j][i] = m
    <3>1. (m[1].type = "name") = (t = 1)
      BY DEF t
    <3>2. m[1].lineno <= n
      BY DEF Placed
    <3> QED BY <2>2, <3>1, <3>2
  <2> QED BY <1>5, <2>1, <2>2
<1>10. ASSUME NEW j \in Sets, NEW i \in 1..Len(M[j]), NEW k \in 1..Len(M[j]), i < k
      PROVE  M[j][i][1].lineno < M[j][k][1].lineno
  <2>0. i \in Int /\ k \in Int /\ N(j) \in Nat /\ Len(M[j]) \in Nat /\ Len(M[j]) <= N(j) + 1
    BY <1>4
  <2>1. i \in 1..N(j) /\ M[j][i] = ms[j][i]
    BY <1>5, <1>10, <2>0
  <2>2. CASE k \in 1..N(j) /\ M[j][k] = ms[j][k]
    BY <1>10, <2>1, <2>2 DEF Placed
  <2>3. CASE M[j][k] = m
    BY <2>1, <2>3 DEF Placed
  <2> QED BY <1>5, <2>2, <2>3
<1>11. Placed(<< >>, M, n)
  BY <1>9, <1>10 DEF Placed
<1> QED BY <1>8, <1>11 DEF M

\* Lines joined to lines that were joined: the grouping does not matter.
LEMMA LinesRejoined ==
    ASSUME NEW a \in Seq(Entry), NEW b \in Seq(Entry), NEW c \in Seq(Entry)
    PROVE  (a \o b) \o c = a \o (b \o c)
BY ConcatAssociative

\* The entry that is being built is replaced by another form of it.
LEMMA EntryChanges ==
    ASSUME NEW h \in Seq(Seq(Entry)), NEW src, NEW m \in Seq(Entry), NEW w \in Seq(Entry), NEW ms, NEW e, NEW n,
           History(Append(h, m), src, m, ms, e), Placed(m, ms, n), Whole(w), m # << >>,
           m[1] \in Entry
    PROVE  /\ src = FlattenSeq(h) \o m
           /\ History(Append(h, w), FlattenSeq(h) \o w, w, ms, e)
<1> DEFINE g == Append(h, w)
           f == Append(h, m)
           N == Len(h)
<1>1. /\ g \in Seq(Seq(Entry)) /\ g # << >> /\ N \in Nat /\ Len(g) = N + 1
      /\ (\A i \in 1..N : g[i] = h[i]) /\ g[N + 1] = w
  BY AppendProperties
<1>2. /\ f \in Seq(Seq(Entry)) /\ Len(f) = N + 1
      /\ (\A i \in 1..N : f[i] = h[i]) /\ f[N + 1] = m
  BY AppendProperties
<1>3. src = FlattenSeq(h) \o m /\ FlattenSeq(g) = FlattenSeq(h) \o w
  BY FlattenAppend DEF History
<1> HIDE DEF g, f
<1>4. History(f, src, m, ms, e)
  BY DEF f
<1>5. \A i \in 1..Len(g) : Whole(g[i])
  <2> TAKE i \in 1..Len(g)
  <2>1. CASE i = N + 1
    BY <1>1, <2>1
  <2>2. CASE i # N + 1
    <3>1. i \in 1..N /\ i \in 1..Len(f)
      <4>1. N \in Nat /\ Len(g) = N + 1 /\ Len(f) = N + 1
        BY <1>1, <1>2
      <4> QED BY <2>2, <4>1
    <3>2. f[i] = g[i]
      BY <1>1, <1>2, <3>1
    <3> QED BY <1>4, <3>1, <3>2 DEF History
  <2> QED BY <2>1, <2>2
<1>6. \A j \in Sets : \A i \in 1..Len(ms[j]) : \E x \in 1..Len(g) : g[x] = ms[j][i]
  <2> TAKE j \in Sets
  <2> TAKE i \in 1..Len(ms[j])
  <2>1. PICK x \in 1..Len(f) : f[x] = ms[j][i]
    BY <1>4 DEF History
  <2>2. ms[j][i] # m
    <3>1. ms[j][i][1].lineno < m[1].lineno
      BY DEF Placed
    <3>3. m[1].lineno \in Nat
      BY DEF Entry
    <3>2. ~(m[1].lineno < m[1].lineno)
      BY <3>3
    <3> QED BY <3>1, <3>2
  <2>3. x \in 1..N /\ x \in 1..Len(g)
    BY <1>1, <1>2, <2>1, <2>2
  <2> QED BY <1>1, <1>2, <2>1, <2>3
<1>7. ASSUME ~e, NEW x \in 1..Len(g)
      PROVE  x = Len(g) \/ \E j \in Sets : \E i \in 1..Len(ms[j]) : ms[j][i] = g[x]
  <2> SUFFICES ASSUME x # Len(g) PROVE \E j \in Sets : \E i \in 1..Len(ms[j]) : ms[j][i] = g[x]
    OBVIOUS
  <2>0. N \in Nat /\ Len(g) = N + 1 /\ Len(f) = N + 1
    BY <1>1, <1>2
  <2>1. x \in 1..N /\ x \in 1..Len(f) /\ x # Len(f)
    BY <2>0
  <2>3. g[x] = f[x]
    BY <1>1, <1>2, <2>1
  <2>2. \E j \in Sets : \E i \in 1..Len(ms[j]) : ms[j][i] = f[x]
    BY <1>4, <1>7, <2>1 DEF History
  <2> QED BY <2>2, <2>3
<1>8. w # << >> /\ g[Len(g)] = w
  BY <1>1 DEF Whole
<1>9. History(g, FlattenSeq(h) \o w, w, ms, e)
  BY <1>1, <1>3, <1>5, <1>6, <1>7, <1>8 DEF History
<1> QED BY <1>3, <1>9 DEF g

\* Reading on keeps what was read in its place.
LEMMA ReadOn ==
    ASSUME NEW m \in Seq(Entry), NEW ms \in [Sets -> Seq(Seq(Entry))], NEW s \in Seq(Entry), NEW n \in Nat,
           Placed(m, ms, n), Numbered(s, n)
    PROVE  Placed(m, ms, n + 1) /\ Numbered(s, n + 1)
<1>0. \A e \in Entry : e.lineno \in Nat
  BY DEF Entry
<1>1. \A e \in Entry : e.lineno <= n => e.lineno <= n + 1
  BY <1>0
<1>2. ASSUME NEW j \in Sets, NEW i \in 1..Len(ms[j]) PROVE ms[j][i][1].lineno <= n + 1
  <2>1. ms[j] \in Seq(Seq(Entry))
    OBVIOUS
  <2>2. ms[j][i] \in Seq(Entry) /\ ms[j][i] # << >> /\ ms[j][i][1].lineno <= n
    BY <2>1 DEF Placed
  <2>3. ms[j][i][1] \in Entry
    BY <2>2
  <2> QED BY <1>1, <2>2, <2>3
<1>3. m # << >> => m[1].lineno <= n + 1
  <2>1. m # << >> => m[1] \in Entry /\ m[1].lineno <= n
    BY DEF Placed
  <2> QED BY <1>1, <2>1
<1>4. Placed(m, ms, n + 1)
  BY <1>2, <1>3 DEF Placed
<1>5. ASSUME NEW i \in 1..Len(s) PROVE s[i].lineno <= n + 1
  <2>1. s[i] \in Entry /\ s[i].lineno <= n
    BY DEF Numbered
  <2> QED BY <1>1, <2>1
<1>6. Numbered(s, n + 1)
  BY <1>5 DEF Numbered
<1> QED BY <1>4, <1>6

\* A new line has the next number.
LEMMA NumberNext ==
    ASSUME NEW s \in Seq(Entry), NEW n \in Nat, Numbered(s, n), NEW q \in Entry,
           q.lineno = n + 1, q.flag = "none", Usable(q)
    PROVE  Numbered(Append(s, q), n + 1)
<1> DEFINE t == Append(s, q)
           N == Len(s)
<1>1. /\ N \in Nat /\ Len(t) = N + 1 /\ (\A i \in 1..N : t[i] = s[i]) /\ t[N + 1] = q
  OBVIOUS
<1>2. ASSUME NEW i \in 1..N
      PROVE  s[i].lineno \in Nat /\ s[i].lineno <= n /\ s[i].flag = "none" /\ Usable(s[i])
  <2>1. s[i] \in Entry
    OBVIOUS
  <2> QED BY <2>1 DEF Numbered, Entry
<1>3. \A i, k \in 1..N : i < k => s[i].lineno < s[k].lineno
  BY DEF Numbered
<1> HIDE DEF t, N
<1>4. ASSUME NEW i \in 1..Len(t) PROVE t[i].lineno <= n + 1 /\ t[i].flag = "none" /\ Usable(t[i])
  <2>1. CASE i = N + 1
    BY <1>1, <2>1
  <2>2. CASE i # N + 1
    <3>1. i \in 1..N /\ t[i] = s[i]
      BY <1>1, <2>2
    <3> QED BY <1>2, <3>1
  <2> QED BY <2>1, <2>2
<1>5. ASSUME NEW i \in 1..Len(t), NEW k \in 1..Len(t), i < k PROVE t[i].lineno < t[k].lineno
  <2>1. i \in 1..N /\ t[i] = s[i] /\ i \in Int
    BY <1>1, <1>5
  <2>2. CASE k = N + 1
    <3>1. t[k].lineno = n + 1
      BY <1>1, <2>2
    <3>2. s[i].lineno \in Nat /\ s[i].lineno <= n
      BY <1>2, <2>1
    <3>3. s[i].lineno < n + 1
      BY <3>2
    <3> QED BY <2>1, <3>1, <3>3
  <2>3. CASE k # N + 1
    <3>1. k \in 1..N /\ t[k] = s[k]
      BY <1>1, <2>3
    <3> QED BY <1>3, <1>5, <2>1, <3>1
  <2> QED BY <2>2, <2>3
<1> QED BY <1>4, <1>5 DEF Numbered, t

\* Lines of different places have different numbers.
LEMMA NumbersDiffer ==
    ASSUME NEW s \in Seq(Entry), NEW n, Numbered(s, n), NEW i \in 1..Len(s), NEW k \in 1..Len(s),
           s[i].lineno = s[k].lineno
    PROVE  i = k
<1>1. s[i] \in Entry /\ s[k] \in Entry
  OBVIOUS
<1>2. s[i].lineno \in Nat /\ s[k].lineno \in Nat
  BY <1>1 DEF Entry
<1>3. (i < k => s[i].lineno < s[k].lineno) /\ (k < i => s[k].lineno < s[i].lineno)
  BY DEF Numbered
<1>4. i \in Int /\ k \in Int
  OBVIOUS
<1> QED BY <1>2, <1>3, <1>4

\* Where the lines of two lists are once they are joined.
LEMMA TwoJoined ==
    ASSUME NEW X, NEW a \in Seq(X), NEW b \in Seq(X)
    PROVE  /\ a \o b \in Seq(X) /\ Len(a \o b) = Len(a) + Len(b) /\ Len(a) \in Nat /\ Len(b) \in Nat
           /\ \A i \in 1..Len(a) : (a \o b)[i] = a[i]
           /\ \A i \in 1..Len(b) : (a \o b)[Len(a) + i] = b[i]
OBVIOUS

\* The same for lists of lines.
LEMMA LinesJoined ==
    \A a, b \in Seq(Entry) : /\ a \o b \in Seq(Entry) /\ Len(a \o b) = Len(a) + Len(b)
                             /\ \A i \in 1..Len(a) : (a \o b)[i] = a[i]
                             /\ \A i \in 1..Len(b) : (a \o b)[Len(a) + i] = b[i]
BY TwoJoined

\* t is s with q for every line a; w is m with q at place k.
Replaced(s, t, a, q) == /\ t \in Seq(Entry) /\ Len(t) = Len(s)
                        /\ \A i \in 1..Len(s) : t[i] = IF s[i] = a THEN q ELSE s[i]
Altered(m, w, k, q) == /\ w \in Seq(Entry) /\ Len(w) = Len(m)
                       /\ \A i \in 1..Len(m) : w[i] = IF i = k THEN q ELSE m[i]

\* An annotation of a line of the entry changes that line and no other.
LEMMA LineChanges ==
    ASSUME NEW f \in Seq(Entry), NEW m \in Seq(Entry), NEW s, s = f \o m, NEW n, Numbered(s, n),
           NEW k \in 1..Len(m), NEW q \in Entry, q.lineno = m[k].lineno, q.flag = "none", Usable(q),
           NEW t, Replaced(s, t, m[k], q), NEW w, Altered(m, w, k, q)
    PROVE  t = f \o w /\ Numbered(t, n)
<1>0. /\ t \in Seq(Entry) /\ Len(t) = Len(s) /\ \A i \in 1..Len(s) : t[i] = IF s[i] = m[k] THEN q ELSE s[i]
      /\ w \in Seq(Entry) /\ Len(w) = Len(m) /\ \A i \in 1..Len(m) : w[i] = IF i = k THEN q ELSE m[i]
  BY DEF Replaced, Altered
<1> DEFINE N == Len(f)
           M == Len(m)
           x == N + k
<1>1. /\ N \in Nat /\ M \in Nat /\ s \in Seq(Entry) /\ Len(s) = N + M
      /\ (\A i \in 1..N : s[i] = f[i]) /\ (\A i \in 1..M : s[N + i] = m[i])
  BY LinesJoined
<1>2. k \in 1..M /\ x \in 1..(N + M) /\ s[x] = m[k]
  BY <1>1
<1>3. /\ f \o w \in Seq(Entry) /\ Len(f \o w) = N + M
       /\ (\A i \in 1..N : (f \o w)[i] = f[i]) /\ (\A i \in 1..M : (f \o w)[N + i] = w[i])
  <2>1. /\ f \o w \in Seq(Entry) /\ Len(f \o w) = Len(f) + Len(w)
        /\ \A i \in 1..Len(f) : (f \o w)[i] = f[i]
        /\ \A i \in 1..Len(w) : (f \o w)[Len(f) + i] = w[i]
    BY <1>0, LinesJoined
  <2>2. Len(w) = M
    BY <1>0
  <2> HIDE DEF M
  <2> QED BY <2>1, <2>2
<1>4. \A i \in 1..M : w[i] = IF i = k THEN q ELSE m[i]
  BY <1>0
<1> HIDE DEF N, M
<1>5. ASSUME NEW i \in 1..(N + M), s[i] = m[k] PROVE i = x
  <2>1. s[i].lineno = s[x].lineno
    BY <1>2, <1>5
  <2>2. i \in 1..Len(s) /\ x \in 1..Len(s)
    BY <1>1, <1>2
  <2> HIDE DEF x
  <2> QED BY <1>1, <2>1, <2>2, NumbersDiffer
<1>6. Len(t) = N + M /\ (\A i \in 1..(N + M) : t[i] = IF i = x THEN q ELSE s[i])
  <2> HIDE DEF x
  <2> QED BY <1>0, <1>1, <1>2, <1>5
<1>7. ASSUME NEW i \in 1..(N + M) PROVE t[i] = (f \o w)[i]
  <2>1. CASE i \in 1..N
    <3>1. i # x
      BY <1>1, <1>2, <2>1
    <3> QED BY <1>1, <1>6, <1>3, <2>1, <3>1
  <2>2. CASE i \notin 1..N
    <3>0. /\ N \in Nat /\ M \in Nat /\ k \in Int /\ i \in Int
          /\ 1 <= i /\ i <= N + M /\ ~(i <= N)
      BY <1>1, <1>2, <2>2
    <3>1. i - N \in 1..M /\ N + (i - N) = i /\ (i = x <=> i - N = k)
      BY <3>0
    <3>2. (f \o w)[i] = w[i - N] /\ s[i] = m[i - N]
      BY <1>1, <1>3, <3>1
    <3> QED BY <1>4, <1>6, <3>1, <3>2
  <2> QED BY <2>1, <2>2
<1>8. t = f \o w
  <2> DEFINE v == f \o w
  <2>1. v \in Seq(Entry) /\ Len(t) = Len(v) /\ \A i \in 1..Len(t) : t[i] = v[i]
    BY <1>0, <1>6, <1>7, <1>3
  <2> HIDE DEF v
  <2>2. t = v
    BY <1>0, <2>1, SeqEqual
  <2> QED BY <2>2 DEF v
<1>9. \A i \in 1..(N + M) : t[i].lineno = s[i].lineno
  BY <1>2, <1>6
<1>10. Numbered(t, n)
  <2>1. ASSUME NEW i \in 1..Len(t) PROVE t[i].lineno <= n /\ t[i].flag = "none" /\ Usable(t[i])
    <3>1. i \in 1..Len(s) /\ i \in 1..(N + M)
      BY <1>1, <1>6
    <3>2. s[i].lineno <= n /\ s[i].flag = "none" /\ Usable(s[i])
      BY <3>1 DEF Numbered
    <3> QED BY <1>6, <1>9, <3>1, <3>2
  <2>2. ASSUME NEW i \in 1..Len(t), NEW y \in 1..Len(t), i < y
        PROVE  t[i].lineno < t[y].lineno
    <3>1. i \in 1..Len(s) /\ y \in 1..Len(s) /\ i \in 1..(N + M) /\ y \in 1..(N + M)
      BY <1>1, <1>6
    <3>2. s[i].lineno < s[y].lineno
      BY <2>2, <3>1 DEF Numbered
    <3> QED BY <1>9, <3>1, <3>2
  <2> QED BY <2>1, <2>2 DEF Numbered
<1> QED BY <1>8, <1>10

-----------------------------------------------------------------------------
(* Reading keeps the entries.                                              *)

\* Everything that was read is there, or an error is recorded, and it is in its place.
Gathered == /\ \E h : History(h, source, me, mset, hadErr)
            /\ Placed(me, mset, line) /\ Numbered(source, line)

\* The entry that was being built, if any, joins its set.
LEMMA EntryCloses ==
    ASSUME NEW h, NEW src, NEW m \in Seq(Entry), NEW ms \in [Sets -> Seq(Seq(Entry))], NEW e, NEW n \in Nat,
           History(h, src, m, ms, e), Placed(m, ms, n),
           NEW M, M = IF m = << >> THEN ms ELSE addentry(ms, m)
    PROVE  /\ M \in [Sets -> Seq(Seq(Entry))]
           /\ History(h, src, << >>, M, e) /\ Placed(<< >>, M, n)
<1>1. CASE m = << >>
  BY <1>1
<1>2. CASE m # << >>
  BY <1>2, EntryEnds, AddEntryType
<1> QED BY <1>1, <1>2

\* A new entry is behind the others.
LEMMA PlaceNext ==
    ASSUME NEW ms \in [Sets -> Seq(Seq(Entry))], NEW n \in Nat, Placed(<< >>, ms, n), NEW q \in Entry, q.lineno = n + 1
    PROVE  Placed(<< q >>, ms, n + 1)
<1>0. \A e \in Entry : e.lineno \in Nat
  BY DEF Entry
<1>1. \A e \in Entry : e.lineno <= n => e.lineno <= n + 1 /\ e.lineno < n + 1
  BY <1>0
<1>2. ASSUME NEW j \in Sets, NEW i \in 1..Len(ms[j])
      PROVE  ms[j][i][1].lineno <= n + 1 /\ ms[j][i][1].lineno < q.lineno
  <2>1. ms[j] \in Seq(Seq(Entry))
    OBVIOUS
  <2>2. ms[j][i] \in Seq(Entry) /\ ms[j][i] # << >> /\ ms[j][i][1].lineno <= n
    BY <2>1 DEF Placed
  <2>3. ms[j][i][1] \in Entry
    BY <2>2
  <2> QED BY <1>1, <2>2, <2>3
<1> DEFINE c == << q >>
<1>3. c[1] = q
  OBVIOUS
<1>4. q.lineno <= n + 1
  OBVIOUS
<1> HIDE DEF c
<1>5. Placed(c, ms, n + 1)
  BY <1>2, <1>3, <1>4 DEF Placed
<1> QED BY <1>5 DEF c

\* The entry that is being built is the last one that was read.
LEMMA LastEntry ==
    ASSUME NEW h, NEW src, NEW m \in Seq(Entry), NEW ms, NEW e, History(h, src, m, ms, e), m # << >>
    PROVE  /\ Whole(m)
           /\ \E g \in Seq(Seq(Entry)) : h = Append(g, m)
<1>1. h \in Seq(Seq(Entry)) /\ h # << >> /\ h[Len(h)] = m /\ \A i \in 1..Len(h) : Whole(h[i])
  BY DEF History
<1>2. Len(h) \in 1..Len(h)
  BY <1>1
<1>3. PICK g \in Seq(Seq(Entry)), x \in Seq(Entry) : h = Append(g, x)
  BY <1>1, SequenceEmptyOrAppend
<1>4. h[Len(h)] = x
  BY <1>3, AppendProperties
<1> QED BY <1>1, <1>2, <1>3, <1>4

\* A line that is accepted begins an entry, and ends the one before it, or continues one.
LEMMA ParseGathers ==
    ASSUME TypeOK, Gathered, NEW l \in Lines, ParseEntry(l), line + 1 \in 1..MaxLines, line' = line + 1, ~errs'
    PROVE  Gathered'
<1> DEFINE ok == OffsetRead(l) /\ check_cond(CondsBefore(l)[l.level], l.cond) # "error" /\ RestRead(l)
           q == NewEntry(l, line + 1)
<1>0. l \in EntryLine /\ l.level \in Nat /\ (l.level > 0 => me # << >>)
  BY LineParts DEF ParseEntry, EntryLine, Levels
<1>1. /\ mset' = IF l.level = 0 /\ me # << >> THEN addentry(mset, me) ELSE mset
      /\ me' = IF l.level = 0 THEN << q >> ELSE Append(me, q)
      /\ source' = IF ok THEN Append(source, q) ELSE source
      /\ hadErr' = hadErr
  BY DEF ParseEntry
<1>2. ok
  BY Zenon DEF ParseEntry
<1>3. /\ q \in Entry /\ q.level = l.level /\ q.lineno = line + 1 /\ q.flag = "none" /\ Usable(q)
  BY <1>0, NewEntryType DEF NewEntry, Usable
<1>4. /\ me \in Seq(Entry) /\ mset \in [Sets -> Seq(Seq(Entry))] /\ line \in Nat /\ source \in Seq(Entry)
  BY DEF TypeOK
<1>5. source' = Append(source, q)
  BY <1>1, <1>2
<1> HIDE DEF ok, q
<1>6. PICK h : History(h, source, me, mset, hadErr)
  BY DEF Gathered
<1>7. Placed(me, mset, line) /\ Numbered(source, line)
  BY DEF Gathered
<1>8. Numbered(source', line')
  BY <1>3, <1>4, <1>5, <1>7, NumberNext
<1>9. CASE l.level = 0
  <2>1. mset' = (IF me = << >> THEN mset ELSE addentry(mset, me)) /\ me' = << q >>
    BY <1>1, <1>9
  <2>2. /\ mset' \in [Sets -> Seq(Seq(Entry))] /\ History(h, source, << >>, mset', hadErr)
        /\ Placed(<< >>, mset', line)
    BY <1>4, <1>6, <1>7, <2>1, EntryCloses
  <2>3. Placed(me', mset', line')
    BY <1>3, <1>4, <2>1, <2>2, PlaceNext
  <2>4. History(Append(h, << q >>), source', me', mset', hadErr')
    BY <1>1, <1>3, <1>5, <1>9, <2>1, <2>2, EntryBegins
  <2> QED BY <1>8, <2>3, <2>4 DEF Gathered
<1>10. CASE l.level # 0
  <2>1. mset' = mset /\ me' = Append(me, q) /\ me # << >>
    BY <1>0, <1>1, <1>10
  <2>2. Whole(me) /\ \E g \in Seq(Seq(Entry)) : h = Append(g, me)
    BY <1>4, <1>6, <2>1, LastEntry
  <2>3. PICK g \in Seq(Seq(Entry)) : h = Append(g, me)
    BY <2>2
  <2>4. /\ me' \in Seq(Entry) /\ me' # << >> /\ Len(me) \in Nat /\ Len(me) # 0 /\ Len(me') = Len(me) + 1
        /\ (\A i \in 1..Len(me) : me'[i] = me[i]) /\ me'[Len(me) + 1] = q
    BY <1>3, <1>4, <2>1, EmptySeq, AppendProperties
  <2>5. me'[1] = me[1] /\ me[1] \in Entry
    BY <1>4, <2>4
  <2>6. Whole(me')
    <3>1. ASSUME NEW k \in 2..Len(me') PROVE me'[k].level # 0
      <4>1. k \in 2..Len(me) \/ k = Len(me) + 1
        BY <2>4
      <4>2. CASE k \in 2..Len(me)
        <5>1. me'[k] = me[k]
          BY <2>4, <4>2
        <5> QED BY <2>2, <4>2, <5>1 DEF Whole
      <4>3. CASE k = Len(me) + 1
        BY <1>3, <1>10, <2>4, <4>3
      <4> QED BY <4>1, <4>2, <4>3
    <3> QED BY <2>2, <2>4, <2>5, <3>1 DEF Whole
  <2>7. /\ source = FlattenSeq(g) \o me
        /\ History(Append(g, me'), FlattenSeq(g) \o me', me', mset, hadErr)
    BY <1>4, <1>6, <1>7, <2>1, <2>3, <2>4, <2>5, <2>6, EntryChanges
  <2>8. source' = FlattenSeq(g) \o me'
    <3>1. FlattenSeq(g) \in Seq(Entry)
      BY FlattenLays
    <3>2. << q >> \in Seq(Entry)
      BY <1>3
    <3>3. Append(source, q) = source \o << q >> /\ Append(me, q) = me \o << q >>
      BY <1>3, <1>4, AppendIsConcat
    <3>4. (FlattenSeq(g) \o me) \o << q >> = FlattenSeq(g) \o (me \o << q >>)
      <4>1. me \in Seq(Entry)
        BY <1>4
      <4> QED BY <3>1, <3>2, <4>1, LinesRejoined
    <3> QED BY <1>5, <2>1, <2>7, <3>3, <3>4
  <2>9. Placed(me', mset', line')
    <3>1. Placed(me, mset, line + 1)
      BY <1>4, <1>7, ReadOn
    <3> QED BY <2>1, <2>4, <2>5, <3>1 DEF Placed
  <2> QED BY <1>1, <1>8, <2>1, <2>7, <2>8, <2>9 DEF Gathered
<1> QED BY <1>9, <1>10

\* An annotation changes one line of the entry, in the entry and in what was read.
LEMMA AnnotationGathers ==
    ASSUME TypeOK, Gathered, line' = line + 1, mset' = mset, hadErr' = hadErr, me # << >>,
           NEW k \in 1..Len(me), NEW q \in Entry, q.lineno = me[k].lineno, q.flag = "none", Usable(q),
           q.level = me[k].level, me' = [me EXCEPT ![k] = q],
           source' = [i \in DOMAIN source |-> IF source[i] = me[k] THEN q ELSE source[i]]
    PROVE  Gathered'
<1>1. /\ me \in Seq(Entry) /\ mset \in [Sets -> Seq(Seq(Entry))] /\ line \in Nat /\ source \in Seq(Entry)
  BY DEF TypeOK
<1>2. PICK h : History(h, source, me, mset, hadErr)
  BY DEF Gathered
<1>3. Placed(me, mset, line) /\ Numbered(source, line)
  BY DEF Gathered
<1>4. Whole(me) /\ \E g \in Seq(Seq(Entry)) : h = Append(g, me)
  BY <1>1, <1>2, LastEntry
<1>5. PICK g \in Seq(Seq(Entry)) : h = Append(g, me)
  BY <1>4
<1>6. /\ me' \in Seq(Entry) /\ Len(me') = Len(me) /\ Len(me) \in Nat /\ Len(me) # 0
      /\ \A i \in 1..Len(me) : me'[i] = IF i = k THEN q ELSE me[i]
  BY <1>1, EmptySeq, ExceptSeq
<1>7. me'[1].lineno = me[1].lineno /\ me' # << >> /\ me[1] \in Entry
  <2>1. 1 \in 1..Len(me)
    BY <1>6
  <2>2. Len(<< >>) = 0
    OBVIOUS
  <2> QED BY <1>1, <1>6, <2>1, <2>2
<1>8. Whole(me')
  <2>1. \A i \in 1..Len(me) : me'[i].level = me[i].level
    BY <1>6
  <2>2. 1 \in 1..Len(me) /\ 2..Len(me) \subseteq 1..Len(me)
    BY <1>6
  <2> QED BY <1>4, <1>6, <1>7, <2>1, <2>2 DEF Whole
<1>9. /\ source = FlattenSeq(g) \o me
      /\ History(Append(g, me'), FlattenSeq(g) \o me', me', mset, hadErr)
  BY <1>1, <1>2, <1>3, <1>5, <1>6, <1>7, <1>8, EntryChanges
<1> DEFINE f == FlattenSeq(g)
<1>10. f \in Seq(Entry)
  BY FlattenLays
<1> HIDE DEF f
<1>11. /\ source' \in Seq(Entry) /\ Len(source') = Len(source)
       /\ \A i \in 1..Len(source) : source'[i] = IF source[i] = me[k] THEN q ELSE source[i]
  <2> DEFINE n == Len(source)
  <2>1. n \in Nat /\ DOMAIN source = 1..n /\ \A i \in 1..n : source[i] \in Entry
    BY <1>1
  <2>2. Len(source') = n
    BY <1>1
  <2> HIDE DEF n
  <2>3. source' \in [1..n -> Entry]
    BY <2>1
  <2>4. source' \in Seq(Entry)
    BY <2>1, <2>3, SeqOver
  <2> QED BY <2>1, <2>2, <2>4 DEF n
<1>12. source' = f \o me' /\ Numbered(source', line)
  <2> DEFINE t == source'
             w == me'
             m == me
             s == source
  <2>1. s = f \o m
    BY <1>9 DEF f
  <2>2. m \in Seq(Entry) /\ k \in 1..Len(m) /\ Numbered(s, line) /\ q.lineno = m[k].lineno
    BY <1>1, <1>3
  <2>3. Replaced(s, t, m[k], q) /\ Altered(m, w, k, q)
    BY <1>6, <1>11 DEF Replaced, Altered
  <2> HIDE DEF t, w, m, s
  <2>4. t = f \o w /\ Numbered(t, line)
    BY <1>10, <2>1, <2>2, <2>3, LineChanges
  <2> QED BY <2>4 DEF t, w
<1>13. Placed(me', mset, line)
  BY <1>3, <1>7 DEF Placed
<1>14. Placed(me', mset', line') /\ Numbered(source', line')
  BY <1>1, <1>6, <1>12, <1>11, <1>13, ReadOn
<1>15. History(Append(g, me'), source', me', mset', hadErr')
  BY <1>9, <1>12 DEF f
<1> QED BY <1>14, <1>15 DEF Gathered

\* Every line that is accepted keeps the entries together.
LEMMA ReadLineGathers == ASSUME TypeOK, Gathered, ReadLine, ~errs' PROVE Gathered'
<1>0. line + 1 \in 1..MaxLines /\ line' = line + 1 /\ line \in Nat
  BY DEF ReadLine, TypeOK
<1>1. PICK l \in Lines : \/ ParseEntry(l) \/ ParseOrphan(l) \/ ParseNoMemory(l) \/ BangError(l)
                         \/ parse_strength(l) \/ parse_extra(l) \/ Skip(l)
  BY DEF ReadLine
<1>2. /\ me \in Seq(Entry) /\ mset \in [Sets -> Seq(Seq(Entry))] /\ source \in Seq(Entry)
  BY DEF TypeOK
<1>3. CASE ParseEntry(l)
  BY <1>0, <1>3, ParseGathers
<1>4. CASE ParseOrphan(l) \/ ParseNoMemory(l) \/ BangError(l)
  BY <1>4 DEF ParseOrphan, ParseNoMemory, BangError, Fail
<1>5. CASE Skip(l)
  <2>1. me' = me /\ mset' = mset /\ hadErr' = hadErr /\ source' = source
    BY <1>5 DEF Skip
  <2>2. Placed(me, mset, line') /\ Numbered(source, line')
    BY <1>0, <1>2, ReadOn DEF Gathered
  <2> QED BY <2>1, <2>2 DEF Gathered
<1>6. ASSUME NEW k \in 1..Len(me), me # << >> PROVE me[k] \in Entry /\ me[k].flag = "none" /\ Usable(me[k])
  <2>1. PICK h : History(h, source, me, mset, hadErr)
    BY DEF Gathered
  <2>2. PICK g \in Seq(Seq(Entry)) : h = Append(g, me)
    BY <1>2, <1>6, <2>1, LastEntry
  <2>3. source = FlattenSeq(g) \o me /\ FlattenSeq(g) \in Seq(Entry)
    <3>1. source = FlattenSeq(h)
      BY <2>1 DEF History
    <3>2. FlattenSeq(Append(g, me)) = FlattenSeq(g) \o me
      BY <1>2, FlattenAppend
    <3>3. FlattenSeq(g) \in Seq(Entry)
      BY FlattenLays
    <3> QED BY <2>2, <3>1, <3>2, <3>3
  <2>4. Len(FlattenSeq(g)) + k \in 1..Len(source) /\ source[Len(FlattenSeq(g)) + k] = me[k]
    BY <1>2, <2>3, TwoJoined
  <2> QED BY <1>2, <2>4 DEF Gathered, Numbered
<1>7. CASE parse_strength(l)
  <2> DEFINE ok == me[1].op = "none" /\ me[1].type # "name" /\ l.factor <= 255 /\ ~(l.op = "/" /\ l.factor = 0)
             set == [me[1] EXCEPT !.op = l.op, !.factor = l.factor]
  <2>1. ok
    BY <1>7, Zenon DEF parse_strength
  <2>2. /\ me # << >> /\ me' = [me EXCEPT ![1] = set] /\ mset' = mset /\ hadErr' = hadErr
        /\ source' = [i \in DOMAIN source |-> IF source[i] = me[1] THEN set ELSE source[i]]
    BY <1>7, <2>1 DEF parse_strength
  <2>3. l.op \in {"+", "-", "*", "/"} /\ l.factor \in Nat /\ l.factor <= 255 /\ ~(l.op = "/" /\ l.factor = 0)
    BY <1>7, <2>1, LineParts DEF parse_strength
  <2>4. 1 \in 1..Len(me)
    BY <1>2, <2>2
  <2>5. me[1] \in Entry /\ me[1].flag = "none" /\ Usable(me[1])
    BY <1>6, <2>2, <2>4
  <2>6. set \in Entry
    <3>1. l.factor \in 0..255
      BY <2>3
    <3>2. \A o \in {"+", "-", "*", "/"}, f \in 0..255 : [me[1] EXCEPT !.op = o, !.factor = f] \in Entry
      BY <2>5, EntryChanged
    <3> QED BY <2>3, <3>1, <3>2
  <2>7. set.lineno = me[1].lineno /\ set.flag = "none" /\ set.level = me[1].level /\ Usable(set)
    BY <2>3, <2>5 DEF Entry, Usable
  <2> HIDE DEF set, ok
  <2> QED BY <1>0, <2>2, <2>4, <2>6, <2>7, AnnotationGathers
<1>8. CASE parse_extra(l)
  <2> DEFINE m == Last(me)
             ok == l.what \notin m.extra /\ m.desc /\ l.text # "empty"
             set == [m EXCEPT !.extra = @ \cup {l.what}]
             k == Len(me)
  <2>1. ok
    BY <1>8, Zenon DEF parse_extra
  <2>0. hadErr' = hadErr
    <3>1. hadErr' <=> hadErr
      BY <1>8, <2>1, Zenon DEF parse_extra
    <3>2. hadErr' \in BOOLEAN /\ hadErr \in BOOLEAN
      BY <1>8, Zenon DEF parse_extra, TypeOK
    <3> QED BY <3>1, <3>2
  <2>2. /\ me # << >> /\ me' = Front(me) \o << set >> /\ mset' = mset /\ hadErr' = hadErr
        /\ source' = [i \in DOMAIN source |-> IF source[i] = m THEN set ELSE source[i]]
        /\ l.what \in Extras
    BY <1>8, <2>0, <2>1 DEF parse_extra
  <2>3. k \in 1..Len(me) /\ m = me[k]
    BY <1>2, <2>2 DEF Last
  <2>4. m \in Entry /\ m.flag = "none" /\ Usable(m)
    BY <1>6, <2>2, <2>3
  <2>5. set \in Entry
    BY <2>2, <2>4, EntryChanged
  <2>6. set.lineno = m.lineno /\ set.flag = "none" /\ set.level = m.level /\ Usable(set)
    BY <2>4 DEF Entry, Usable
  <2> HIDE DEF set, ok, m
  <2>7. me' = [me EXCEPT ![k] = set]
    <3>1. Front(me) \o << set >> = [me EXCEPT ![Len(me)] = set]
      BY <1>2, <2>2, <2>5 DEF Front
    <3> QED BY <2>2, <3>1
  <2> HIDE DEF k
  <2> QED BY <1>0, <2>2, <2>3, <2>5, <2>6, <2>7, AnnotationGathers
<1> QED BY <1>1, <1>3, <1>4, <1>5, <1>7, <1>8

-----------------------------------------------------------------------------
(* Sorting and joining.                                                    *)

\* The lines of an entry as parse() leaves them.
Parsed(c) == \A k \in 1..Len(c) : c[k].flag = "none" /\ Usable(c[k])

\* set_test_type() changes the flag.
LEMMA TestType ==
    ASSUME NEW m \in Entry
    PROVE  /\ set_test_type(m) \in Entry
           /\ set_test_type(m).level = m.level /\ set_test_type(m).type = m.type
           /\ set_test_type(m).lineno = m.lineno /\ (Usable(m) => Usable(set_test_type(m)))
           /\ m.flag = "none" => [set_test_type(m) EXCEPT !.flag = "none"] = m
<1>1. set_test_type(m) \in Entry
  BY EntryChanged
<1>2. PICK x : set_test_type(m) = [m EXCEPT !.flag = x]
  BY DEF set_test_type
<1>3. m.flag = "none" => [[m EXCEPT !.flag = x] EXCEPT !.flag = "none"] = m
  BY DEF Entry
<1>4. /\ [m EXCEPT !.flag = x].level = m.level /\ [m EXCEPT !.flag = x].type = m.type
      /\ [m EXCEPT !.flag = x].lineno = m.lineno /\ [m EXCEPT !.flag = x].op = m.op
      /\ [m EXCEPT !.flag = x].factor = m.factor /\ [m EXCEPT !.flag = x].other = m.other
  BY DEF Entry
<1> QED BY <1>1, <1>2, <1>3, <1>4 DEF Usable

\* d is c after set_text_binary(): the same lines.
Retyped(c, d) == /\ d \in Seq(Entry) /\ Len(d) = Len(c) /\ Whole(d) /\ Sortable(d)
                 /\ Untyped(d) = c /\ d[1].type = c[1].type
                 /\ \A k \in 1..Len(c) : d[k].lineno = c[k].lineno

\* set_text_binary() keeps the lines.
LEMMA TextBinary ==
    ASSUME NEW c \in Seq(Entry), Whole(c), Parsed(c) PROVE Retyped(c, set_text_binary(c))
<1> DEFINE d == set_text_binary(c)
           n == Len(c)
           q == set_test_type(c[1])
<1>1. n \in Nat /\ n # 0 /\ 1 \in 1..n /\ (\A k \in 1..n : c[k] \in Entry)
  BY EmptySeq DEF Whole
<1>2. /\ q \in Entry /\ q.level = c[1].level /\ q.type = c[1].type /\ q.lineno = c[1].lineno /\ Usable(q)
      /\ [q EXCEPT !.flag = "none"] = c[1]
  BY <1>1, TestType DEF Parsed
<1>3. d = [c EXCEPT ![1] = q]
  BY DEF set_text_binary
<1> HIDE DEF q, d
<1>4. d \in Seq(Entry) /\ Len(d) = n /\ (\A k \in 1..n : d[k] = IF k = 1 THEN q ELSE c[k])
  BY <1>1, <1>2, <1>3, ExceptSeq
<1> HIDE DEF n
<1>5. \A k \in 1..n : d[k].level = c[k].level /\ d[k].lineno = c[k].lineno
  BY <1>2, <1>4
<1>6. d # << >> /\ d[1] = q
  <2>1. Len(<< >>) = 0
    OBVIOUS
  <2> QED BY <1>1, <1>4, <2>1
<1>7. Whole(d)
  <2>1. 2..n \subseteq 1..n /\ Len(c) = n
    BY <1>1 DEF n
  <2> QED BY <1>1, <1>4, <1>5, <1>6, <2>1 DEF Whole
<1>8. Sortable(d)
  BY <1>2, <1>4, <1>6 DEF Sortable
<1>9. ASSUME NEW k \in 1..n PROVE [d[k] EXCEPT !.flag = "none"] = c[k]
  <2>1. CASE k = 1
    BY <1>2, <1>6, <2>1
  <2>2. CASE k # 1
    <3>1. d[k] = c[k] /\ c[k] \in Entry /\ c[k].flag = "none"
      BY <1>1, <1>4, <2>2 DEF Parsed, n
    <3>2. \A m \in Entry : m.flag = "none" => [m EXCEPT !.flag = "none"] = m
      BY DEF Entry
    <3> QED BY <3>1, <3>2
  <2> QED BY <2>1, <2>2
<1>10. Untyped(d) = c
  <2>1. DOMAIN d = 1..n /\ DOMAIN c = 1..n
    BY <1>4 DEF n
  <2>2. Untyped(d) = [k \in 1..n |-> c[k]]
    BY <1>9, <2>1 DEF Untyped
  <2>3. c = [k \in DOMAIN c |-> c[k]]
    OBVIOUS
  <2> QED BY <2>1, <2>2, <2>3
<1>11. d[1].type = c[1].type
  BY <1>2, <1>6
<1> QED BY <1>4, <1>5, <1>7, <1>8, <1>10, <1>11 DEF Retyped, n, d

\* s is the entries of L in the order p, sorted, and nothing else.
Sorts(L, s, p) ==
    /\ s \in Seq(Seq(Entry)) /\ Len(s) = Len(L) /\ InOrder(s)
    /\ p \in [1..Len(L) -> 1..Len(L)]
    /\ \A i, k \in 1..Len(L) : p[i] = p[k] => i = k
    /\ \A x \in 1..Len(L) : \E i \in 1..Len(L) : p[i] = x
    /\ \A i \in 1..Len(L) : Retyped(L[p[i]], s[i])

\* T is the entries of L after set_text_binary(), s the entries of T in the order p.
TypedFrom(T, L) == T = [i \in DOMAIN L |-> set_text_binary(L[i])]
TakenFrom(s, T, p) == s = [i \in DOMAIN p |-> T[p[i]]]

\* What sorting a set leaves.
LEMMA SetSorted ==
    ASSUME NEW L \in Seq(Seq(Entry)), \A i \in 1..Len(L) : Whole(L[i]) /\ Parsed(L[i]),
           NEW T, TypedFrom(T, L), NEW p \in Sorted(T), NEW s, TakenFrom(s, T, p)
    PROVE  Sorts(L, s, p)
<1>0. T = [i \in DOMAIN L |-> set_text_binary(L[i])] /\ s = [i \in DOMAIN p |-> T[p[i]]]
  BY DEF TypedFrom, TakenFrom
<1> DEFINE n == Len(L)
<1>1. n \in Nat /\ DOMAIN L = 1..n /\ (\A i \in 1..n : L[i] \in Seq(Entry))
  OBVIOUS
<1>2. ASSUME NEW i \in 1..n PROVE Retyped(L[i], set_text_binary(L[i]))
  BY <1>1, TextBinary
<1>3. Len(T) = n /\ T = [i \in 1..n |-> set_text_binary(L[i])]
  <2>1. Len(T) = n
    BY <1>0
  <2> QED BY <1>0, <1>1, <2>1
<1> HIDE DEF n
<1>4. (\A i \in 1..n : Retyped(L[i], T[i])) /\ T \in [1..n -> Seq(Entry)]
  <2>1. \A i \in 1..n : Retyped(L[i], T[i])
    BY <1>2, <1>3
  <2>2. \A i \in 1..n : T[i] \in Seq(Entry)
    BY <2>1 DEF Retyped
  <2> QED BY <1>3, <2>1, <2>2
<1>5. T \in Seq(Seq(Entry))
  BY <1>1, <1>4, SeqOver
<1>6. /\ p \in [1..n -> 1..n] /\ (\A i, k \in 1..n : i # k => p[i] # p[k])
      /\ (\A i, k \in 1..n : i < k => ~apprentice_sort(T[p[k]], T[p[i]]))
  BY <1>3 DEF Sorted
<1>7. \A x \in 1..n : \E i \in 1..n : p[i] = x
  <2>1. \A x \in 1..Len(T) : \E i \in 1..Len(T) : p[i] = x
    BY <1>5, SortedOnto
  <2> QED BY <1>3, <2>1
<1>8. s = [i \in 1..n |-> T[p[i]]] /\ s \in [1..n -> Seq(Entry)]
  BY <1>0, <1>4, <1>6
<1>9. s \in Seq(Seq(Entry))
  BY <1>1, <1>8, SeqOver
<1>10. Len(s) = n
  <2>1. DOMAIN s = 1..n
    BY <1>8
  <2> QED BY <1>1, <1>8
<1>11. InOrder(s)
  <2>1. ASSUME NEW i \in 1..n, NEW k \in 1..n, i < k PROVE ~apprentice_sort(s[k], s[i])
    <3>1. s[i] = T[p[i]] /\ s[k] = T[p[k]]
      BY <1>8
    <3> QED BY <1>6, <2>1, <3>1
  <2> QED BY <1>10, <2>1 DEF InOrder
<1>12. \A i \in 1..n : Retyped(L[p[i]], s[i])
  BY <1>4, <1>6, <1>8
<1> QED BY <1>6, <1>7, <1>9, <1>10, <1>11, <1>12 DEF Sorts, n

\* The numbers of the lines of a list, and how many there are.
Numbers(s) == {s[i].lineno : i \in 1..Len(s)}

\* There are as many numbers as lines when no two lines have the same.
LEMMA CountNumbers ==
    ASSUME NEW s \in Seq(Entry), \A i, k \in 1..Len(s) : s[i].lineno = s[k].lineno => i = k
    PROVE  IsFiniteSet(Numbers(s)) /\ Cardinality(Numbers(s)) = Len(s)
<1> DEFINE n == Len(s)
           N == Numbers(s)
           f == [i \in 1..n |-> s[i].lineno]
<1>0. n \in Nat
  OBVIOUS
<1>1. f \in [1..n -> N] /\ (\A x \in N : \E i \in 1..n : f[i] = x) /\ (\A i, k \in 1..n : f[i] = f[k] => i = k)
  BY DEF Numbers
<1> DEFINE S == 1..n
<1>2. f \in Bijection(S, N)
  <2>1. f \in [S -> N] /\ (\A x \in N : \E i \in S : f[i] = x) /\ (\A i, k \in S : f[i] = f[k] => i = k)
    BY <1>1
  <2> HIDE DEF S, N, f
  <2> QED BY <2>1 DEF Bijection, Injection, Surjection, IsInjective
<1>3. ExistsBijection(1..n, N)
  BY <1>2 DEF ExistsBijection
<1> HIDE DEF n, N
<1>4. IsFiniteSet(N) /\ Cardinality(N) = n
  <2>1. IsFiniteSet(1..n) /\ Cardinality(1..n) = n
    BY <1>0, FS_Interval
  <2> QED BY <1>3, <2>1, FS_Bijection
<1> QED BY <1>4 DEF n, N

\* Line x of sequence i and line y of sequence k are in the same place.
Meet(o, i, x, k, y) == o[i] + x = o[k] + y

\* Sequences that are laid out do not share a place.
LEMMA PlacesDiffer ==
    ASSUME NEW s \in Seq(Seq(Entry)), NEW t, NEW o, Laid(s, t, o), NEW i \in 1..Len(s), NEW k \in 1..Len(s),
           NEW x \in 1..Len(s[i]), NEW y \in 1..Len(s[k]), Meet(o, i, x, k, y)
    PROVE  i = k /\ x = y
<1>1. s[i] \in Seq(Entry) /\ s[k] \in Seq(Entry) /\ Len(s[i]) \in Nat /\ Len(s[k]) \in Nat
  OBVIOUS
<1>2. o[i] \in Nat /\ o[k] \in Nat /\ (i < k => o[i] + Len(s[i]) <= o[k]) /\ (k < i => o[k] + Len(s[k]) <= o[i])
  BY DEF Laid
<1>3. x \in Int /\ y \in Int /\ 1 <= x /\ 1 <= y /\ x <= Len(s[i]) /\ y <= Len(s[k]) /\ i \in Int /\ k \in Int
  BY <1>1
<1>4. ~(i < k) /\ ~(k < i)
  <2> DEFINE a == o[i]
             b == o[k]
             c == Len(s[i])
             d == Len(s[k])
  <2>1. a \in Nat /\ b \in Nat /\ c \in Nat /\ d \in Nat /\ (i < k => a + c <= b) /\ (k < i => b + d <= a)
        /\ x <= c /\ y <= d /\ a + x = b + y
    BY <1>1, <1>2, <1>3 DEF Meet
  <2> HIDE DEF a, b, c, d
  <2> QED BY <1>3, <2>1
<1>5. i = k
  BY <1>3, <1>4
<1> QED BY <1>2, <1>3, <1>5 DEF Meet

\* Place x of the list is a line of one of the sequences.
Comes(s, t, o, x) == \E i \in 1..Len(s) : \E k \in 1..Len(s[i]) : x = o[i] + k /\ t[x] = s[i][k]

\* This is so for every place.
LEMMA PlaceOf ==
    ASSUME NEW s \in Seq(Seq(Entry)), NEW t \in Seq(Entry), NEW o, Laid(s, t, o), NEW x \in 1..Len(t)
    PROVE  Comes(s, t, o, x)
<1>1. PICK i \in 1..Len(s) : o[i] < x /\ x <= o[i] + Len(s[i])
  BY DEF Laid
<1>2. s[i] \in Seq(Entry) /\ Len(s[i]) \in Nat /\ o[i] \in Nat /\ x \in Int
  BY DEF Laid
<1>3. x - o[i] \in 1..Len(s[i]) /\ o[i] + (x - o[i]) = x
  BY <1>1, <1>2
<1>4. t[o[i] + (x - o[i])] = s[i][x - o[i]]
  BY <1>3 DEF Laid
<1> QED BY <1>3, <1>4 DEF Comes

\* The line at place x of a list t, laid out as o from the entries of L in the order p, was read as line k of
\* entry y of h, and is at that place of src.
Read(h, src, u, L, p, o, t, x, i, y, k) ==
    /\ i \in 1..Len(L) /\ y \in 1..Len(h) /\ k \in 1..Len(h[y]) /\ x = o[i] + k
    /\ p[i] \in 1..Len(L) /\ L[p[i]] = h[y]
    /\ u[y] + k \in 1..Len(src) /\ t[x].lineno = src[u[y] + k].lineno

\* Where a line of a set was read.
LEMMA LineFrom ==
    ASSUME NEW h, NEW src \in Seq(Entry), NEW ms, NEW e, History(h, src, << >>, ms, e),
           NEW u, Laid(h, src, u), NEW j \in Sets, NEW s, NEW p, Sorts(ms[j], s, p),
           NEW t \in Seq(Entry), NEW o, Laid(s, t, o), NEW x \in 1..Len(t)
    PROVE  \E i, y, k : Read(h, src, u, ms[j], p, o, t, x, i, y, k)
<1> DEFINE L == ms[j]
<1>1. s \in Seq(Seq(Entry)) /\ Len(s) = Len(L)
  BY DEF Sorts
<1>2. Comes(s, t, o, x)
  BY <1>1, PlaceOf
<1>3. PICK i \in 1..Len(s) : \E k \in 1..Len(s[i]) : x = o[i] + k /\ t[x] = s[i][k]
  BY <1>2 DEF Comes
<1>4. PICK k \in 1..Len(s[i]) : x = o[i] + k /\ t[x] = s[i][k]
  BY <1>3
<1>5. i \in 1..Len(L)
  BY <1>1
<1>6. p[i] \in 1..Len(L) /\ Retyped(L[p[i]], s[i])
  BY <1>5 DEF Sorts
<1>7. PICK y \in 1..Len(h) : h[y] = L[p[i]]
  BY <1>6 DEF History
<1> HIDE DEF L
<1>8. Len(s[i]) = Len(h[y]) /\ \A z \in 1..Len(h[y]) : s[i][z].lineno = h[y][z].lineno
  BY <1>6, <1>7 DEF Retyped
<1>9. k \in 1..Len(h[y]) /\ s[i][k].lineno = h[y][k].lineno
  BY <1>8
<1>10. u[y] \in Nat /\ u[y] + Len(h[y]) <= Len(src) /\ src[u[y] + k] = h[y][k]
  BY <1>9 DEF Laid
<1>11. h \in Seq(Seq(Entry))
  BY DEF History
<1>12. h[y] \in Seq(Entry)
  BY <1>11
<1>13. u[y] + k \in 1..Len(src)
  <2> DEFINE a == u[y]
             b == Len(h[y])
             c == Len(src)
  <2>1. a \in Nat /\ b \in Nat /\ c \in Nat /\ a + b <= c /\ k \in 1..b
    BY <1>9, <1>10, <1>12
  <2> HIDE DEF a, b, c
  <2>2. a + k \in 1..c
    BY <2>1
  <2> QED BY <2>2 DEF a, c
<1>14. t[x].lineno = src[u[y] + k].lineno
  BY <1>4, <1>9, <1>10
<1>15. Read(h, src, u, L, p, o, t, x, i, y, k)
  BY <1>4, <1>5, <1>6, <1>7, <1>9, <1>13, <1>14 DEF Read
<1> QED BY <1>15 DEF L

\* An entry is in one place of one set.
Distinct(ms) == \A j, k \in Sets : \A a \in 1..Len(ms[j]), b \in 1..Len(ms[k]) :
                   ms[j][a] = ms[k][b] => j = k /\ a = b

\* Entries that are in the order of their lines are distinct.
LEMMA OnePlace ==
    ASSUME NEW ms \in [Sets -> Seq(Seq(Entry))], NEW n, Placed(<< >>, ms, n) PROVE Distinct(ms)
<1>0. SUFFICES ASSUME NEW j \in Sets, NEW k \in Sets, NEW a \in 1..Len(ms[j]), NEW b \in 1..Len(ms[k]),
                      ms[j][a] = ms[k][b]
               PROVE  j = k /\ a = b
  BY DEF Distinct
<1>1. j = k
  <2>1. (ms[j][a][1].type = "name") = (j = 1) /\ (ms[k][b][1].type = "name") = (k = 1)
    BY DEF Placed
  <2>2. (j = 1) = (k = 1)
    BY <1>0, <2>1
  <2> QED BY <2>2 DEF Sets
<1>2. ms[j] \in Seq(Seq(Entry))
  OBVIOUS
<1>3. ms[j][a] \in Seq(Entry) /\ ms[j][a] # << >>
  BY <1>2 DEF Placed
<1>4. ms[j][a][1] \in Entry
  BY <1>3
<1>5. ms[j][a][1].lineno \in Nat
  <2>1. \A m \in Entry : m.lineno \in Nat
    BY DEF Entry
  <2> QED BY <1>4, <2>1
<1>6. ~(ms[j][a][1].lineno < ms[j][a][1].lineno)
  <2>1. \A x \in Nat : ~(x < x)
    OBVIOUS
  <2> QED BY <1>5, <2>1
<1>7. ~(a < b) /\ ~(b < a)
  <2>1. b \in 1..Len(ms[j]) /\ ms[j][b] = ms[j][a]
    BY <1>0, <1>1
  <2>2. (a < b => ms[j][a][1].lineno < ms[j][b][1].lineno) /\ (b < a => ms[j][b][1].lineno < ms[j][a][1].lineno)
    BY <2>1 DEF Placed
  <2> QED BY <1>6, <2>1, <2>2
<1>8. a \in Int /\ b \in Int
  OBVIOUS
<1> QED BY <1>1, <1>7, <1>8

\* The sets S in the orders P, joined to the lists mp.
SetsSorted(ms, S, P, mp) == \A j \in Sets : Sorts(ms[j], S[j], P[j]) /\ mp[j] = FlattenSeq(S[j])

\* Sorting and joining drops no line and doubles none.
LEMMA LengthKept ==
    ASSUME NEW h, NEW src, NEW ms \in [Sets -> Seq(Seq(Entry))],
           History(h, src, << >>, ms, FALSE), NEW n, Placed(<< >>, ms, n), Numbered(src, n),
           NEW S, NEW P, NEW mp, SetsSorted(ms, S, P, mp)
    PROVE  Len(mp[0]) + Len(mp[1]) = Len(src)
<1>1. h \in Seq(Seq(Entry)) /\ src = FlattenSeq(h)
  BY DEF History
<1>2. PICK u : src \in Seq(Entry) /\ Laid(h, src, u)
  BY <1>1, FlattenLays
<1>3. \A j \in Sets : Sorts(ms[j], S[j], P[j]) /\ mp[j] = FlattenSeq(S[j]) /\ S[j] \in Seq(Seq(Entry))
  BY DEF SetsSorted, Sorts
<1>4. \A j \in Sets : mp[j] \in Seq(Entry) /\ \E o : Laid(S[j], mp[j], o)
  BY <1>3, FlattenLays
<1> DEFINE O == [j \in Sets |-> CHOOSE o : Laid(S[j], mp[j], o)]
<1>5. \A j \in Sets : Laid(S[j], mp[j], O[j])
  BY <1>4
<1> HIDE DEF O
<1>6. ASSUME NEW v \in 1..Len(h), NEW v2 \in 1..Len(h), NEW c \in 1..Len(h[v]), NEW c2 \in 1..Len(h[v2]),
              Meet(u, v, c, v2, c2)
       PROVE  v = v2 /\ c = c2
  BY <1>1, <1>2, <1>6, PlacesDiffer
<1>7. Distinct(ms)
  BY OnePlace
<1>8. ASSUME NEW j \in Sets, NEW k \in Sets, NEW x \in 1..Len(mp[j]), NEW y \in 1..Len(mp[k]),
             mp[j][x].lineno = mp[k][y].lineno
      PROVE  j = k /\ x = y
  <2>0. ASSUME NEW g \in Sets, NEW z \in 1..Len(mp[g])
        PROVE  \E i, v, c : Read(h, src, u, ms[g], P[g], O[g], mp[g], z, i, v, c)
    <3>1. Sorts(ms[g], S[g], P[g]) /\ mp[g] \in Seq(Entry) /\ Laid(S[g], mp[g], O[g])
      BY <1>3, <1>4, <1>5
    <3> QED BY <1>2, <3>1, LineFrom
  <2>1. PICK i, v, c : Read(h, src, u, ms[j], P[j], O[j], mp[j], x, i, v, c)
    BY <2>0
  <2>2. PICK i2, v2, c2 : Read(h, src, u, ms[k], P[k], O[k], mp[k], y, i2, v2, c2)
    BY <2>0
  <2>3. /\ i \in 1..Len(ms[j]) /\ v \in 1..Len(h) /\ c \in 1..Len(h[v]) /\ u[v] + c \in 1..Len(src)
        /\ P[j][i] \in 1..Len(ms[j]) /\ ms[j][P[j][i]] = h[v] /\ x = O[j][i] + c
        /\ mp[j][x].lineno = src[u[v] + c].lineno
    BY <2>1 DEF Read
  <2>4. /\ i2 \in 1..Len(ms[k]) /\ v2 \in 1..Len(h) /\ c2 \in 1..Len(h[v2]) /\ u[v2] + c2 \in 1..Len(src)
        /\ P[k][i2] \in 1..Len(ms[k]) /\ ms[k][P[k][i2]] = h[v2] /\ y = O[k][i2] + c2
        /\ mp[k][y].lineno = src[u[v2] + c2].lineno
    BY <2>2 DEF Read
  <2>5. u[v] + c = u[v2] + c2
    <3> DEFINE a == u[v] + c
               b == u[v2] + c2
    <3>1. a \in 1..Len(src) /\ b \in 1..Len(src) /\ src[a].lineno = src[b].lineno
      BY <1>8, <2>3, <2>4
    <3> HIDE DEF a, b
    <3>2. a = b
      BY <1>2, <3>1, NumbersDiffer
    <3> QED BY <3>2 DEF a, b
  <2>6. v = v2 /\ c = c2
    <3>1. Meet(u, v, c, v2, c2)
      BY <2>5 DEF Meet
    <3> QED BY <1>6, <2>3, <2>4, <3>1
  <2>7. j = k /\ P[j][i] = P[k][i2]
    <3> DEFINE a == P[j][i]
               b == P[k][i2]
    <3>1. a \in 1..Len(ms[j]) /\ b \in 1..Len(ms[k]) /\ ms[j][a] = ms[k][b]
      BY <2>3, <2>4, <2>6
    <3> HIDE DEF a, b
    <3>2. j = k /\ a = b
      BY <1>7, <3>1 DEF Distinct
    <3> QED BY <3>2 DEF a, b
  <2>8. i = i2
    BY <1>3, <2>3, <2>4, <2>7 DEF Sorts
  <2> QED BY <2>3, <2>4, <2>6, <2>7, <2>8
<1>9. ASSUME NEW z \in 1..Len(src) PROVE \E j \in Sets : \E x \in 1..Len(mp[j]) : mp[j][x].lineno = src[z].lineno
  <2>0. Comes(h, src, u, z)
    BY <1>1, <1>2, PlaceOf
  <2>1. PICK y \in 1..Len(h) : \E k \in 1..Len(h[y]) : z = u[y] + k /\ src[z] = h[y][k]
    BY <2>0 DEF Comes
  <2>2. PICK k \in 1..Len(h[y]) : src[z] = h[y][k]
    BY <2>1
  <2>3. PICK j \in Sets : \E a \in 1..Len(ms[j]) : ms[j][a] = h[y]
    BY DEF History
  <2>4. PICK a \in 1..Len(ms[j]) : ms[j][a] = h[y]
    BY <2>3
  <2>5. PICK i \in 1..Len(ms[j]) : P[j][i] = a
    BY <1>3 DEF Sorts
  <2>6. i \in 1..Len(S[j]) /\ Retyped(h[y], S[j][i])
    BY <1>3, <2>4, <2>5 DEF Sorts
  <2> DEFINE d == S[j][i]
             m == O[j][i]
             t == mp[j]
  <2>7. k \in 1..Len(d) /\ d[k].lineno = h[y][k].lineno /\ d \in Seq(Entry)
    BY <2>6 DEF Retyped
  <2>8. m \in Nat /\ m + Len(d) <= Len(t) /\ t[m + k] = d[k] /\ t \in Seq(Entry)
    BY <1>4, <1>5, <2>6, <2>7 DEF Laid
  <2> HIDE DEF d, m, t
  <2>9. m + k \in 1..Len(t)
    <3>1. Len(d) \in Nat /\ Len(t) \in Nat
      <4>1. \A v \in Seq(Entry) : Len(v) \in Nat
        OBVIOUS
      <4> QED BY <2>7, <2>8, <4>1
    <3> QED BY <2>7, <2>8, <3>1
  <2>10. t[m + k].lineno = src[z].lineno
    BY <2>2, <2>7, <2>8
  <2> QED BY <2>9, <2>10 DEF t
<1>10. \A j \in Sets : IsFiniteSet(Numbers(mp[j])) /\ Cardinality(Numbers(mp[j])) = Len(mp[j]) /\ Len(mp[j]) \in Nat
  <2> TAKE j \in Sets
  <2> DEFINE t == mp[j]
  <2>1. t \in Seq(Entry) /\ \A x, y \in 1..Len(t) : t[x].lineno = t[y].lineno => x = y
    BY <1>4, <1>8
  <2> HIDE DEF t
  <2>2. IsFiniteSet(Numbers(t)) /\ Cardinality(Numbers(t)) = Len(t) /\ Len(t) \in Nat
    BY <2>1, CountNumbers
  <2> QED BY <2>2 DEF t
<1>11. Cardinality(Numbers(src)) = Len(src)
  BY <1>2, NumbersDiffer, CountNumbers
<1>12. 0 \in Sets /\ 1 \in Sets /\ \A j \in Sets : j = 0 \/ j = 1
  BY DEF Sets
<1>13. Numbers(mp[0]) \cap Numbers(mp[1]) = {}
  <2>1. ASSUME NEW v \in Numbers(mp[0]), v \in Numbers(mp[1]) PROVE FALSE
    <3>1. PICK x \in 1..Len(mp[0]) : v = mp[0][x].lineno
      BY DEF Numbers
    <3>2. PICK y \in 1..Len(mp[1]) : v = mp[1][y].lineno
      BY <2>1 DEF Numbers
    <3>3. 0 = 1
      BY <1>8, <1>12, <3>1, <3>2
    <3> QED BY <3>3
  <2> QED BY <2>1
<1>14. Numbers(mp[0]) \cup Numbers(mp[1]) = Numbers(src)
  <2>1. ASSUME NEW j \in Sets, NEW v \in Numbers(mp[j]) PROVE v \in Numbers(src)
    <3>1. PICK x \in 1..Len(mp[j]) : v = mp[j][x].lineno
      BY DEF Numbers
    <3>2. Sorts(ms[j], S[j], P[j]) /\ mp[j] \in Seq(Entry) /\ Laid(S[j], mp[j], O[j])
      BY <1>3, <1>4, <1>5
    <3>3. PICK i, y, k : Read(h, src, u, ms[j], P[j], O[j], mp[j], x, i, y, k)
      BY <1>2, <3>2, LineFrom
    <3>4. u[y] + k \in 1..Len(src) /\ mp[j][x].lineno = src[u[y] + k].lineno
      BY <3>3 DEF Read
    <3> QED BY <3>1, <3>4 DEF Numbers
  <2>2. ASSUME NEW v \in Numbers(src) PROVE \E j \in Sets : v \in Numbers(mp[j])
    BY <1>9 DEF Numbers
  <2> QED BY <1>12, <2>1, <2>2
<1>15. Cardinality(Numbers(src)) = Cardinality(Numbers(mp[0])) + Cardinality(Numbers(mp[1])) - Cardinality({})
  <2> DEFINE A == Numbers(mp[0])
             B == Numbers(mp[1])
  <2>1. IsFiniteSet(A) /\ IsFiniteSet(B)
    BY <1>10, <1>12
  <2> HIDE DEF A, B
  <2>2. Cardinality(A \cup B) = Cardinality(A) + Cardinality(B) - Cardinality(A \cap B)
    BY <2>1, FS_Union
  <2> QED BY <1>13, <1>14, <2>2 DEF A, B
<1>16. Cardinality({}) = 0
  BY FS_EmptySet
<1> DEFINE a == Len(mp[0])
           b == Len(mp[1])
           c == Len(src)
<1>17. a \in Nat /\ b \in Nat /\ c = a + b - 0
  BY <1>10, <1>11, <1>12, <1>15, <1>16
<1> HIDE DEF a, b, c
<1>18. a + b = c
  BY <1>17
<1> QED BY <1>18 DEF a, b, c

\* DatabaseComplete of given lists and OrderDetermined of one.
Complete(mp, src, e) ==
    LET got == {Untyped(g) : g \in Groups(mp[0]) \cup Groups(mp[1])}
    IN  /\ got \subseteq Groups(src)
        /\ e \/ (got = Groups(src) /\ Len(mp[0]) + Len(mp[1]) = Len(src))
        /\ \A j \in Sets : \A i \in Tops(mp[j]) : (mp[j][i].type = "name") = (j = 1)
Determined(t) ==
    \E starts \in Starts(t) :
        LET s == [i \in DOMAIN starts |-> GroupAt(t, starts[i])]
        IN  /\ \A i, k \in DOMAIN s : i < k => file_magic_strength(s[i][1]) >= file_magic_strength(s[k][1])
            /\ \A p \in Sorted(s) : \A i \in DOMAIN s : s[p[i]] = s[i] \/ Duplicates(s[p[i]], s[i])

\* Entries with the same bytes say the same, but for their line numbers.
LEMMA SameBytes ==
    ASSUME NEW a \in Entry, NEW b \in Entry, a.level = b.level, a.other = b.other, Bytes(a) = Bytes(b)
    PROVE  [a EXCEPT !.lineno = 0] = [b EXCEPT !.lineno = 0]
<1>1. ASSUME NEW S, NEW x, NEW y, Code(S, x) = Code(S, y), \E i \in 1..Len(S) : S[i] = x, \E i \in 1..Len(S) : S[i] = y
      PROVE  x = y
  BY <1>1 DEF Code
<1>2. \A m \in Entry :
        /\ m.type \in Types /\ m.reln \in Relns /\ m.cond \in Conds
        /\ m.op \in {"none", "+", "-", "*", "/"} /\ m.flag \in {"none", "bin", "text"} /\ m.extra \in SUBSET Extras
        /\ m.text \in BOOLEAN /\ m.desc \in BOOLEAN
  BY DEF Entry
<1>3. /\ Code(<<"none", "bin", "text">>, a.flag) = Code(<<"none", "bin", "text">>, b.flag)
      /\ a.factor = b.factor
      /\ Code(<<"!", "&", "<", "=", ">", "^", "x">>, a.reln) = Code(<<"!", "&", "<", "=", ">", "^", "x">>, b.reln)
      /\ a.vallen = b.vallen
      /\ Code(<<"byte", "long", "default", "string", "regex", "search", "name", "use", "der">>, a.type)
         = Code(<<"byte", "long", "default", "string", "regex", "search", "name", "use", "der">>, b.type)
      /\ Code(<<"none", "if", "elif", "else">>, a.cond) = Code(<<"none", "if", "elif", "else">>, b.cond)
      /\ Code(<<"none", "*", "+", "-", "/">>, a.op) = Code(<<"none", "*", "+", "-", "/">>, b.op)
      /\ (IF a.text THEN 1 ELSE 0) = (IF b.text THEN 1 ELSE 0)
      /\ (IF a.desc THEN 1 ELSE 0) = (IF b.desc THEN 1 ELSE 0)
      /\ Cardinality(a.extra) = Cardinality(b.extra)
      /\ (IF "mime" \in a.extra THEN 1 ELSE 0) = (IF "mime" \in b.extra THEN 1 ELSE 0)
      /\ (IF "apple" \in a.extra THEN 1 ELSE 0) = (IF "apple" \in b.extra THEN 1 ELSE 0)
  BY DEF Bytes
<1>4. a.flag = b.flag
  <2> DEFINE S == <<"none", "bin", "text">>
  <2>1. \A x \in {"none", "bin", "text"} : \E i \in 1..3 : S[i] = x
    OBVIOUS
  <2>2. Len(S) = 3 /\ Code(S, a.flag) = Code(S, b.flag)
    BY <1>3
  <2> HIDE DEF S
  <2> QED BY <1>1, <1>2, <2>1, <2>2
<1>5. a.reln = b.reln
  <2> DEFINE S == <<"!", "&", "<", "=", ">", "^", "x">>
  <2>1. \A x \in Relns : \E i \in 1..7 : S[i] = x
    BY DEF Relns
  <2>2. Len(S) = 7 /\ Code(S, a.reln) = Code(S, b.reln)
    BY <1>3
  <2> HIDE DEF S
  <2> QED BY <1>1, <1>2, <2>1, <2>2
<1>6. a.type = b.type
  <2> DEFINE S == <<"byte", "long", "default", "string", "regex", "search", "name", "use", "der">>
  <2>1. \A x \in Types : \E i \in 1..9 : S[i] = x
    BY DEF Types
  <2>2. Len(S) = 9 /\ Code(S, a.type) = Code(S, b.type)
    BY <1>3
  <2>3. a.type \in Types /\ b.type \in Types
    BY <1>2
  <2> HIDE DEF S
  <2>4. (\E i \in 1..Len(S) : S[i] = a.type) /\ (\E i \in 1..Len(S) : S[i] = b.type)
    BY <2>1, <2>2, <2>3
  <2> QED BY <1>1, <2>2, <2>4, Zenon
<1>7. a.cond = b.cond
  <2> DEFINE S == <<"none", "if", "elif", "else">>
  <2>1. \A x \in Conds : \E i \in 1..4 : S[i] = x
    BY DEF Conds
  <2>2. Len(S) = 4 /\ Code(S, a.cond) = Code(S, b.cond)
    BY <1>3
  <2> HIDE DEF S
  <2> QED BY <1>1, <1>2, <2>1, <2>2
<1>8. a.op = b.op
  <2> DEFINE S == <<"none", "*", "+", "-", "/">>
  <2>1. \A x \in {"none", "+", "-", "*", "/"} : \E i \in 1..5 : S[i] = x
    OBVIOUS
  <2>2. Len(S) = 5 /\ Code(S, a.op) = Code(S, b.op)
    BY <1>3
  <2> HIDE DEF S
  <2> QED BY <1>1, <1>2, <2>1, <2>2
<1>9. a.text = b.text /\ a.desc = b.desc
  BY <1>2, <1>3
<1>10. ASSUME NEW S \in SUBSET Extras, NEW T \in SUBSET Extras, "mime" \in S <=> "mime" \in T,
              "apple" \in S <=> "apple" \in T, "ext" \in S, "ext" \notin T
       PROVE  Cardinality(S) # Cardinality(T)
  <2>1. S = T \cup {"ext"}
    BY <1>10 DEF Extras
  <2>2. IsFiniteSet(T)
    <3>1. Extras = (({} \cup {"mime"}) \cup {"apple"}) \cup {"ext"}
      BY DEF Extras
    <3>2. IsFiniteSet({} \cup {"mime"})
      BY FS_EmptySet, FS_AddElement
    <3>3. IsFiniteSet(({} \cup {"mime"}) \cup {"apple"})
      BY <3>2, FS_AddElement
    <3>4. IsFiniteSet(Extras)
      BY <3>1, <3>3, FS_AddElement
    <3> QED BY <3>4, FS_Subset
  <2>3. Cardinality(S) = Cardinality(T) + 1 /\ Cardinality(T) \in Nat
    BY <1>10, <2>1, <2>2, FS_AddElement, FS_CardinalityType
  <2> QED BY <2>3
<1>11. a.extra = b.extra
  <2>1. ("mime" \in a.extra <=> "mime" \in b.extra) /\ ("apple" \in a.extra <=> "apple" \in b.extra)
    BY <1>3
  <2>2. "ext" \in a.extra <=> "ext" \in b.extra
    BY <1>2, <1>3, <1>10, <2>1
  <2>3. \A x \in Extras : x \in a.extra <=> x \in b.extra
    BY <2>1, <2>2 DEF Extras
  <2>4. a.extra \subseteq Extras /\ b.extra \subseteq Extras
    BY <1>2
  <2> QED BY <2>3, <2>4, Zenon
<1> QED BY <1>3, <1>4, <1>5, <1>6, <1>7, <1>8, <1>9, <1>11 DEF Entry

\* A database is complete when what was read is sorted and joined.
LEMMA JoinedComplete ==
    ASSUME NEW h, NEW src, NEW ms \in [Sets -> Seq(Seq(Entry))], NEW e \in BOOLEAN,
           History(h, src, << >>, ms, e), NEW n, Placed(<< >>, ms, n), Numbered(src, n),
           NEW S, NEW P, NEW mp, SetsSorted(ms, S, P, mp)
    PROVE  Complete(mp, src, e)
<1> DEFINE got == {Untyped(g) : g \in Groups(mp[0]) \cup Groups(mp[1])}
<1>0. 0 \in Sets /\ 1 \in Sets /\ \A j \in Sets : j = 0 \/ j = 1
  BY DEF Sets
<1>1. ASSUME NEW j \in Sets
      PROVE  /\ mp[j] = FlattenSeq(S[j]) /\ S[j] \in Seq(Seq(Entry)) /\ Len(S[j]) = Len(ms[j])
             /\ \A x \in 1..Len(ms[j]) : \E i \in 1..Len(ms[j]) : P[j][i] = x
             /\ \A i \in 1..Len(ms[j]) : /\ P[j][i] \in 1..Len(ms[j]) /\ Whole(S[j][i])
                                         /\ Untyped(S[j][i]) = ms[j][P[j][i]]
                                         /\ S[j][i][1].type = ms[j][P[j][i]][1].type
  <2>1. Sorts(ms[j], S[j], P[j]) /\ mp[j] = FlattenSeq(S[j])
    BY DEF SetsSorted
  <2> DEFINE s == S[j]
             p == P[j]
             L == ms[j]
  <2>2. Sorts(L, s, p)
    BY <2>1
  <2> HIDE DEF s, p, L
  <2>3. s \in Seq(Seq(Entry)) /\ Len(s) = Len(L) /\ (\A x \in 1..Len(L) : \E i \in 1..Len(L) : p[i] = x)
    BY <2>2 DEF Sorts
  <2>4. ASSUME NEW i \in 1..Len(L)
        PROVE  p[i] \in 1..Len(L) /\ Whole(s[i]) /\ Untyped(s[i]) = L[p[i]] /\ s[i][1].type = L[p[i]][1].type
    <3>1. p[i] \in 1..Len(L) /\ Retyped(L[p[i]], s[i])
      BY <2>2 DEF Sorts
    <3> QED BY <3>1 DEF Retyped
  <2> QED BY <2>1, <2>3, <2>4 DEF s, p, L
<1>2. ASSUME NEW j \in Sets PROVE Groups(mp[j]) = {S[j][i] : i \in 1..Len(ms[j])}
  <2> DEFINE s == S[j]
  <2>1. s \in Seq(Seq(Entry)) /\ \A i \in 1..Len(s) : Whole(s[i])
    BY <1>1
  <2> HIDE DEF s
  <2>2. Groups(FlattenSeq(s)) = {s[i] : i \in 1..Len(s)}
    BY <2>1, JoinedGroups
  <2> QED BY <1>1, <2>2 DEF s
<1>3. ASSUME NEW x \in got PROVE \E j \in Sets : \E a \in 1..Len(ms[j]) : x = ms[j][a]
  <2>1. PICK g \in Groups(mp[0]) \cup Groups(mp[1]) : x = Untyped(g)
    OBVIOUS
  <2>2. PICK j \in Sets : g \in Groups(mp[j])
    BY <1>0, <2>1
  <2>3. PICK i \in 1..Len(ms[j]) : g = S[j][i]
    BY <1>2, <2>2
  <2>4. P[j][i] \in 1..Len(ms[j]) /\ x = ms[j][P[j][i]]
    BY <1>1, <2>1, <2>3
  <2> QED BY <2>4
<1>4. ASSUME NEW j \in Sets, NEW a \in 1..Len(ms[j]) PROVE ms[j][a] \in got
  <2>1. PICK i \in 1..Len(ms[j]) : P[j][i] = a
    BY <1>1
  <2>2. S[j][i] \in Groups(mp[j]) /\ Untyped(S[j][i]) = ms[j][a]
    <3>1. Untyped(S[j][i]) = ms[j][P[j][i]]
      BY <1>1
    <3>2. S[j][i] \in Groups(mp[j])
      BY <1>2
    <3> QED BY <2>1, <3>1, <3>2
  <2>3. S[j][i] \in Groups(mp[0]) \cup Groups(mp[1])
    BY <1>0, <2>2
  <2> QED BY <2>2, <2>3
<1> HIDE DEF got
<1>5. Groups(src) = {h[x] : x \in 1..Len(h)}
  BY JoinedGroups DEF History
<1>6. got \subseteq Groups(src)
  <2>1. ASSUME NEW x \in got PROVE x \in Groups(src)
    <3>1. PICK j \in Sets : \E a \in 1..Len(ms[j]) : x = ms[j][a]
      BY <1>3
    <3>2. PICK a \in 1..Len(ms[j]) : x = ms[j][a]
      BY <3>1
    <3>3. \E y \in 1..Len(h) : h[y] = ms[j][a]
      BY DEF History
    <3> QED BY <1>5, <3>2, <3>3
  <2> QED BY <2>1
<1>7. ASSUME ~e PROVE got = Groups(src)
  <2>1. ASSUME NEW x \in Groups(src) PROVE x \in got
    <3>1. PICK y \in 1..Len(h) : x = h[y]
      BY <1>5
    <3>2. \E j \in Sets : \E a \in 1..Len(ms[j]) : ms[j][a] = h[y]
      BY <1>7 DEF History
    <3> QED BY <1>4, <3>1, <3>2
  <2> QED BY <1>6, <2>1
<1>8. ASSUME ~e PROVE Len(mp[0]) + Len(mp[1]) = Len(src)
  <2>1. e = FALSE
    BY <1>8
  <2>2. History(h, src, << >>, ms, FALSE)
    BY <2>1
  <2> QED BY <2>2, LengthKept
<1>9. ASSUME NEW j \in Sets, NEW x \in Tops(mp[j]) PROVE (mp[j][x].type = "name") = (j = 1)
  <2> DEFINE s == S[j]
             t == mp[j]
  <2>1. s \in Seq(Seq(Entry)) /\ (\A i \in 1..Len(s) : Whole(s[i])) /\ t = FlattenSeq(s) /\ x \in Tops(t)
    BY <1>1
  <2> HIDE DEF s, t
  <2>2. PICK o : t \in Seq(Entry) /\ Laid(s, t, o)
    BY <2>1, FlattenLays
  <2>3. Tops(t) = {o[i] + 1 : i \in 1..Len(s)} /\ \A i \in 1..Len(s) : GroupAt(t, o[i] + 1) = s[i]
    <3>1. Divided(s, t, o)
      BY <2>1, <2>2, LaidGroups
    <3> QED BY <3>1 DEF Divided
  <2>4. PICK i \in 1..Len(s) : x = o[i] + 1
    BY <2>1, <2>3
  <2>5. s[i] \in Seq(Entry) /\ s[i] # << >>
    <3>1. s[i] \in Seq(Entry)
      BY <2>1
    <3>2. Whole(s[i])
      BY <2>1
    <3> QED BY <3>1, <3>2 DEF Whole
  <2>6. 1 \in 1..Len(s[i])
    BY <2>5, EmptySeq
  <2>7. t[x] = s[i][1]
    BY <2>2, <2>4, <2>6 DEF Laid
  <2>8. i \in 1..Len(ms[j])
    BY <1>1 DEF s
  <2>9. P[j][i] \in 1..Len(ms[j]) /\ s[i][1].type = ms[j][P[j][i]][1].type
    BY <1>1, <2>8 DEF s
  <2>10. (ms[j][P[j][i]][1].type = "name") = (j = 1)
    BY <2>9 DEF Placed
  <2> QED BY <2>7, <2>9, <2>10 DEF t
<1> QED BY <1>6, <1>7, <1>8, <1>9 DEF Complete, got

\* A list that was sorted has the order of its strengths, and no other order of it differs.
LEMMA JoinedDetermined ==
    ASSUME NEW L, NEW s, NEW p, Sorts(L, s, p), NEW t, t = FlattenSeq(s) PROVE Determined(t)
<1> DEFINE n == Len(s)
<1>1. s \in Seq(Seq(Entry)) /\ InOrder(s) /\ n \in Nat /\ DOMAIN s = 1..n
  BY DEF Sorts
<1>2. \A i \in 1..n : Whole(s[i]) /\ Sortable(s[i])
  BY DEF Sorts, Retyped
<1>3. PICK o : t \in Seq(Entry) /\ Laid(s, t, o)
  BY <1>1, FlattenLays
<1>4. Tops(t) = {o[i] + 1 : i \in 1..n} /\ \A i \in 1..n : GroupAt(t, o[i] + 1) = s[i]
  <2>1. Divided(s, t, o)
    BY <1>1, <1>2, <1>3, LaidGroups
  <2> QED BY <2>1 DEF Divided, n
<1> DEFINE f == [i \in 1..n |-> o[i] + 1]
<1>5. \A i \in 1..n : o[i] \in Nat /\ Len(s[i]) \in Nat
  <2> TAKE i \in 1..n
  <2>1. s[i] \in Seq(Entry)
    BY <1>1
  <2> QED BY <1>3, <2>1 DEF Laid
<1>6. ASSUME NEW i \in 1..n, NEW k \in 1..n, i < k PROVE o[i] + 1 < o[k] + 1
  <2>1. o[i] + Len(s[i]) <= o[k]
    BY <1>3, <1>6 DEF Laid
  <2>2. s[i] # << >> /\ s[i] \in Seq(Entry)
    BY <1>1, <1>2 DEF Whole
  <2>3. Len(s[i]) # 0
    BY <2>2, EmptySeq
  <2> DEFINE a == o[i]
             b == o[k]
             c == Len(s[i])
  <2>4. a \in Nat /\ b \in Nat /\ c \in Nat /\ c # 0 /\ a + c <= b
    BY <1>5, <2>1, <2>3
  <2> HIDE DEF a, b, c
  <2>5. a + 1 < b + 1
    BY <2>4
  <2> QED BY <2>5 DEF a, b
<1>7. DOMAIN f = 1..n /\ (\A i \in 1..n : f[i] = o[i] + 1) /\ (\A i \in 1..n : f[i] \in Nat)
  BY <1>5
<1>8. f \in [1..n -> Tops(t)] /\ (\A x \in Tops(t) : \E i \in 1..n : f[i] = x)
  BY <1>4
<1> HIDE DEF f, n
<1>9. \A i, k \in 1..n : i < k => f[i] < f[k]
  BY <1>6, <1>7
<1>10. \A i, k \in 1..n : f[i] = f[k] => i = k
  <2> TAKE i \in 1..n, k \in 1..n
  <2> HAVE f[i] = f[k]
  <2>1. f[i] \in Nat /\ i \in Int /\ k \in Int
    BY <1>7
  <2>2. ~(i < k) /\ ~(k < i)
    BY <1>7, <1>9
  <2> QED BY <2>1, <2>2
<1>11. Cardinality(Tops(t)) = n
  <2> DEFINE A == 1..n
             B == Tops(t)
  <2>1. f \in [A -> B] /\ (\A x \in B : \E i \in A : f[i] = x) /\ (\A i, k \in A : f[i] = f[k] => i = k)
    BY <1>8, <1>10
  <2> HIDE DEF A, B
  <2>2. f \in Bijection(A, B)
    BY <2>1 DEF Bijection, Injection, Surjection, IsInjective
  <2>3. ExistsBijection(1..n, B)
    BY <2>2 DEF ExistsBijection, A
  <2>4. Cardinality(B) = n
    BY <1>1, <2>3, FS_CountingElements
  <2> QED BY <2>4 DEF B
<1>12. f \in Starts(t)
  BY <1>7, <1>8, <1>9, <1>11 DEF Starts
<1>13. [i \in DOMAIN f |-> GroupAt(t, f[i])] = s
  <2>1. \A i \in 1..n : GroupAt(t, f[i]) = s[i]
    BY <1>4, <1>7
  <2>2. s = [i \in 1..n |-> s[i]]
    BY <1>1
  <2> QED BY <1>7, <2>1, <2>2
<1>14. ASSUME NEW i \in 1..n, NEW k \in 1..n, i < k
       PROVE  file_magic_strength(s[i][1]) >= file_magic_strength(s[k][1])
  <2>1. ~apprentice_sort(s[k], s[i])
    BY <1>1, <1>14 DEF InOrder, n
  <2> QED BY <1>2, <2>1, SortOrder
<1>15. ASSUME NEW r \in Sorted(s), NEW i \in 1..n PROVE Duplicates(s[r[i]], s[i])
  <2>1. Bytes(s[r[i]][1]) = Bytes(s[i][1])
    BY <1>1, <1>2, SortedAgree DEF n
  <2>2. r[i] \in 1..n
    BY <1>1 DEF Sorted, n
  <2>3. \A k \in 1..n : s[k][1] \in Entry /\ s[k][1].level = 0 /\ s[k][1].other = {}
    <3> TAKE k \in 1..n
    <3>1. s[k] \in Seq(Entry) /\ s[k] # << >> /\ s[k][1].level = 0 /\ s[k][1].other = {}
      BY <1>1, <1>2 DEF Whole, Sortable, Usable
    <3> QED BY <3>1
  <2>4. [s[r[i]][1] EXCEPT !.lineno = 0] = [s[i][1] EXCEPT !.lineno = 0]
    BY <2>1, <2>2, <2>3, SameBytes
  <2> QED BY <2>4 DEF Duplicates
<1> DEFINE v == [i \in DOMAIN f |-> GroupAt(t, f[i])]
<1>16. v = s /\ DOMAIN v = 1..n
  BY <1>1, <1>13 DEF n
<1> HIDE DEF v
<1>17. /\ \A i, k \in DOMAIN v : i < k => file_magic_strength(v[i][1]) >= file_magic_strength(v[k][1])
       /\ \A r \in Sorted(v) : \A i \in DOMAIN v : v[r[i]] = v[i] \/ Duplicates(v[r[i]], v[i])
  BY <1>14, <1>15, <1>16
<1> QED BY <1>12, <1>17 DEF Determined, v

\* The entries of the sets are whole and as they were parsed.
LEMMA EntriesParsed ==
    ASSUME NEW h, NEW src, NEW ms, NEW e, History(h, src, << >>, ms, e), NEW n, Numbered(src, n),
           NEW j \in Sets, NEW i \in 1..Len(ms[j])
    PROVE  Whole(ms[j][i]) /\ Parsed(ms[j][i])
<1>1. h \in Seq(Seq(Entry)) /\ src = FlattenSeq(h) /\ \A y \in 1..Len(h) : Whole(h[y])
  BY DEF History
<1>2. PICK u : src \in Seq(Entry) /\ Laid(h, src, u)
  BY <1>1, FlattenLays
<1>3. PICK y \in 1..Len(h) : h[y] = ms[j][i]
  BY DEF History
<1>4. ASSUME NEW k \in 1..Len(h[y]) PROVE h[y][k].flag = "none" /\ Usable(h[y][k])
  <2> DEFINE a == u[y]
             b == Len(h[y])
             c == Len(src)
  <2>1. a \in Nat /\ a + b <= c /\ src[a + k] = h[y][k]
    BY <1>2 DEF Laid
  <2>2. b \in Nat /\ c \in Nat /\ k \in 1..b
    BY <1>1, <1>2
  <2> HIDE DEF a, b, c
  <2>3. a + k \in 1..c
    BY <2>1, <2>2
  <2>4. src[a + k].flag = "none" /\ Usable(src[a + k])
    BY <2>3 DEF Numbered, c
  <2> QED BY <2>1, <2>4
<1>5. Parsed(h[y])
  BY <1>4 DEF Parsed
<1> QED BY <1>1, <1>3, <1>5

\* Before the sets are sorted there is no database, and what was read is there.
Collected ==
    /\ pc # "file" => me = << >>
    /\ pc \in {"map", "load", "file"} => from = "none" /\ (~errs => Gathered)

\* The database is complete and its order determined when it is made.
LEMMA DatabaseMade ==
    ASSUME TypeOK, Collected, SortAndJoin
    PROVE  Complete(map', source', hadErr') /\ \A j \in Sets : Determined(map'[j])
<1>1. /\ me = << >> /\ Gathered /\ source' = source /\ hadErr' = hadErr
  BY DEF SortAndJoin, Collected
<1>2. PICK h : History(h, source, << >>, mset, hadErr)
  BY <1>1 DEF Gathered
<1>3. Placed(<< >>, mset, line) /\ Numbered(source, line)
  BY <1>1 DEF Gathered
<1>4. mset \in [Sets -> Seq(Seq(Entry))] /\ hadErr \in BOOLEAN /\ 0 \in Sets /\ 1 \in Sets
  BY DEF TypeOK, Sets
<1>5. ASSUME NEW j \in Sets, NEW i \in 1..Len(mset[j]) PROVE Whole(mset[j][i]) /\ Parsed(mset[j][i])
  BY <1>2, <1>3, EntriesParsed
<1> DEFINE typed == [j \in Sets |-> [i \in DOMAIN mset[j] |-> set_text_binary(mset[j][i])]]
<1>6. typed[0] = [i \in DOMAIN mset[0] |-> set_text_binary(mset[0][i])]
      /\ typed[1] = [i \in DOMAIN mset[1] |-> set_text_binary(mset[1][i])]
  BY <1>4
<1>7. \E p \in Sorted(typed[0]), q \in Sorted(typed[1]) :
        map' = [j \in Sets |-> coalesce_entries(IF j = 0 THEN [i \in DOMAIN p |-> typed[0][p[i]]]
                                                ELSE [i \in DOMAIN q |-> typed[1][q[i]]])]
  BY DEF SortAndJoin
<1> HIDE DEF typed
<1>8. PICK p \in Sorted(typed[0]), q \in Sorted(typed[1]) :
        map' = [j \in Sets |-> coalesce_entries(IF j = 0 THEN [i \in DOMAIN p |-> typed[0][p[i]]]
                                                ELSE [i \in DOMAIN q |-> typed[1][q[i]]])]
  BY <1>7
<1> DEFINE s0 == [i \in DOMAIN p |-> typed[0][p[i]]]
           s1 == [i \in DOMAIN q |-> typed[1][q[i]]]
<1>9. map' = [j \in Sets |-> coalesce_entries(IF j = 0 THEN s0 ELSE s1)]
  BY <1>8
<1>10. Sorts(mset[0], s0, p)
  <2> DEFINE L == mset[0]
             T == typed[0]
  <2>1. L \in Seq(Seq(Entry)) /\ (\A i \in 1..Len(L) : Whole(L[i]) /\ Parsed(L[i]))
        /\ TypedFrom(T, L) /\ p \in Sorted(T) /\ TakenFrom(s0, T, p)
    BY <1>4, <1>5, <1>6 DEF TypedFrom, TakenFrom
  <2> HIDE DEF L, T, s0
  <2>2. Sorts(L, s0, p)
    BY <2>1, SetSorted
  <2> QED BY <2>2 DEF L
<1>11. Sorts(mset[1], s1, q)
  <2> DEFINE L == mset[1]
             T == typed[1]
  <2>1. L \in Seq(Seq(Entry)) /\ (\A i \in 1..Len(L) : Whole(L[i]) /\ Parsed(L[i]))
        /\ TypedFrom(T, L) /\ q \in Sorted(T) /\ TakenFrom(s1, T, q)
    BY <1>4, <1>5, <1>6 DEF TypedFrom, TakenFrom
  <2> HIDE DEF L, T, s1
  <2>2. Sorts(L, s1, q)
    BY <2>1, SetSorted
  <2> QED BY <2>2 DEF L
<1> HIDE DEF s0, s1
<1> DEFINE S == [j \in Sets |-> IF j = 0 THEN s0 ELSE s1]
           P == [j \in Sets |-> IF j = 0 THEN p ELSE q]
<1>12. ASSUME NEW j \in Sets PROVE Sorts(mset[j], S[j], P[j]) /\ map'[j] = FlattenSeq(S[j])
  <2>1. j = 0 \/ j = 1
    BY DEF Sets
  <2>2. map'[j] = FlattenSeq(S[j])
    BY <1>9 DEF coalesce_entries
  <2> QED BY <1>10, <1>11, <2>1, <2>2
<1> HIDE DEF S, P
<1>13. SetsSorted(mset, S, P, map')
  BY <1>12 DEF SetsSorted
<1>14. Complete(map', source, hadErr)
  BY <1>2, <1>3, <1>4, <1>13, JoinedComplete
<1>15. \A j \in Sets : Determined(map'[j])
  BY <1>12, JoinedDetermined
<1> QED BY <1>1, <1>14, <1>15

\* Everything read so far is kept, and the database that is made of it.
Made == from = "source" => Complete(map, source, hadErr) /\ \A j \in Sets : Determined(map[j])

\* Every step but the one that makes it keeps the database or drops it.
LEMMA MadeKept ==
    ASSUME Made, from' = "source" => from = "source" /\ map' = map /\ source' = source /\ hadErr' = hadErr
    PROVE  Made'
BY DEF Made

\* Every step keeps what was read together.
LEMMA CollectedInductive == ASSUME TypeOK, Collected, Made, [Next]_vars PROVE Collected' /\ Made'
<1> DEFINE Reading == {"map", "load", "file"}
<1>0. ASSUME me' = me \/ me' = << >>, pc' \notin Reading, pc # "file" PROVE Collected'
  BY <1>0 DEF Collected
<1>1. CASE UNCHANGED vars
  <2>1. Collected'
    BY <1>1 DEF vars, Collected, Gathered
  <2> QED BY <1>1, <2>1, MadeKept DEF vars
<1>2. CASE OpenFile
  <2>1. /\ pc = "load" /\ pc' \in {"file", "load"} /\ me' = << >> /\ me = << >> /\ from' = from /\ from = "none"
        /\ map' = map /\ source' = source /\ mset' = mset /\ line' = line
    BY <1>2 DEF OpenFile, Collected
  <2>2. ~errs' => ~errs /\ hadErr' = hadErr
    BY <1>2 DEF OpenFile, Fail
  <2>3. Collected'
    BY <2>1, <2>2 DEF Collected, Gathered
  <2> QED BY <2>1, <2>3 DEF Made
<1>3. CASE ReadLine
  <2>1. pc = "file" /\ pc' = "file" /\ from' = from /\ from = "none"
    BY <1>3 DEF ReadLine, Collected
  <2>2. ~errs' => ~errs
    <3>1. PICK l \in Lines : \/ ParseEntry(l) \/ ParseOrphan(l) \/ ParseNoMemory(l) \/ BangError(l)
                             \/ parse_strength(l) \/ parse_extra(l) \/ Skip(l)
      BY <1>3 DEF ReadLine
    <3> QED BY <3>1, Zenon DEF ParseEntry, ParseOrphan, ParseNoMemory, BangError, parse_strength, parse_extra, Skip, Fail
  <2>3. ~errs' => Gathered'
    BY <1>3, <2>1, <2>2, ReadLineGathers DEF Collected
  <2> QED BY <2>1, <2>3 DEF Collected, Made
<1>4. CASE CloseFile \/ StopReading
  <2>0. FinishFile
    BY <1>4 DEF CloseFile, StopReading
  <2>1. /\ pc = "file" /\ pc' = "load" /\ me' = << >> /\ from' = from /\ from = "none" /\ errs' = errs
        /\ source' = source /\ line' = line
    BY <1>4, <2>0 DEF CloseFile, StopReading, FinishFile, Collected
  <2>2. ASSUME ~errs PROVE Gathered'
    <3>1. PICK h : History(h, source, me, mset, hadErr)
      BY <2>1, <2>2 DEF Collected, Gathered
    <3>2. Placed(me, mset, line) /\ Numbered(source, line)
      BY <2>1, <2>2 DEF Collected, Gathered
    <3>3. me \in Seq(Entry) /\ mset \in [Sets -> Seq(Seq(Entry))] /\ line \in Nat
      BY DEF TypeOK
    <3>4. CASE mset' = (IF me = << >> THEN mset ELSE addentry(mset, me)) /\ hadErr' = hadErr
      <4>1. History(h, source, << >>, mset', hadErr) /\ Placed(<< >>, mset', line)
        BY <3>1, <3>2, <3>3, <3>4, EntryCloses
      <4> QED BY <2>1, <3>2, <3>4, <4>1 DEF Gathered
    <3>5. CASE hadErr' = TRUE /\ mset' = mset
      <4>1. History(h, source, << >>, mset', hadErr') /\ Placed(<< >>, mset', line)
        BY <3>1, <3>2, <3>5 DEF History, Placed
      <4> QED BY <2>1, <3>2, <4>1 DEF Gathered
    <3> QED BY <2>0, <3>4, <3>5 DEF FinishFile
  <2> QED BY <2>1, <2>2 DEF Collected, Made
<1>5. CASE SortAndJoin
  <2>1. Collected'
    <3>1. pc = "load" /\ pc' \notin Reading /\ me' = me
      BY <1>5 DEF SortAndJoin
    <3> QED BY <1>0, <3>1
  <2>2. Complete(map', source', hadErr') /\ \A j \in Sets : Determined(map'[j])
    BY <1>5, DatabaseMade
  <2> QED BY <2>1, <2>2 DEF Made
<1>6. CASE LoadFails
  <2>1. pc = "load" /\ pc' = "failed" /\ me' = me /\ from' = from /\ from = "none"
    BY <1>6 DEF LoadFails, Collected
  <2> QED BY <1>0, <2>1 DEF Made
<1>7. CASE OpenTruncated \/ WriteHeader \/ (\E j \in Sets : WriteSet(j))
  <2>1. /\ pc \notin Reading /\ pc' \notin Reading /\ me' = me /\ source' = source
        /\ from' = "source" => from = "source" /\ map' = map /\ hadErr' = hadErr
    <3>1. CASE OpenTruncated
      BY <3>1 DEF OpenTruncated, parser
    <3>2. CASE WriteHeader
      BY <3>2 DEF WriteHeader, CompileFails, parser
    <3>3. CASE \E j \in Sets : WriteSet(j)
      BY <3>3 DEF WriteSet, CompileFails, parser, Sets
    <3> QED BY <1>7, <3>1, <3>2, <3>3
  <2> QED BY <1>0, <2>1, MadeKept
<1>8. CASE MapFile
  <2>1. pc = "map" /\ pc' = "loaded" /\ me' = me /\ from' = "map"
    BY <1>8 DEF MapFile, parser
  <2> QED BY <1>0, <2>1 DEF Made
<1>9. CASE MapRefused \/ MapFails
  <2>1. /\ pc = "map" /\ pc' = "load" /\ me' = me /\ me = << >> /\ from' = from /\ from = "none" /\ errs' = errs
        /\ source' = source /\ mset' = mset /\ line' = line
    BY <1>9 DEF MapRefused, MapFails, parser, Collected
  <2>3. hadErr => hadErr'
    <3>1. CASE MapRefused
      BY <3>1, Zenon DEF MapRefused
    <3>2. CASE MapFails
      BY <3>2 DEF MapFails
    <3> QED BY <1>9, <3>1, <3>2
  <2>2. ASSUME ~errs PROVE Gathered'
    <3>1. PICK h : History(h, source, me, mset, hadErr)
      BY <2>1, <2>2 DEF Collected, Gathered
    <3>2. History(h, source', me', mset', hadErr')
      BY <2>1, <2>3, <3>1 DEF History
    <3> QED BY <2>1, <2>2, <3>2 DEF Collected, Gathered
  <2> QED BY <2>1, <2>2 DEF Collected, Made
<1>10. CASE NextProcess
  <2>1. /\ me' = << >> /\ source' = << >> /\ mset' = EmptyMap /\ from' = "none"
    BY <1>10 DEF NextProcess, Fresh
  <2>2. Gathered'
    BY <2>1, NoHistory DEF Gathered
  <2> QED BY <2>1, <2>2 DEF Collected, Made
<1>11. CASE Done
  BY <1>1, <1>11 DEF Done
<1> QED BY <1>1, <1>2, <1>3, <1>4, <1>5, <1>6, <1>7, <1>8, <1>9, <1>10, <1>11 DEF Next

\* What was read is together, and the database that was made of it is complete, in every state.
LEMMA MadeInvariant == Spec => [](Collected /\ Made)
<1>1. Init => Collected /\ Made
  <2> SUFFICES ASSUME Init PROVE Collected /\ Made
    OBVIOUS
  <2>1. me = << >> /\ source = << >> /\ mset = EmptyMap /\ from = "none"
    BY DEF Init
  <2>2. Gathered
    BY <2>1, NoHistory DEF Gathered
  <2> QED BY <2>1, <2>2 DEF Collected, Made
<1>2. TypeOK /\ (Collected /\ Made) /\ [Next]_vars => (Collected /\ Made)'
  BY CollectedInductive
<1> QED BY <1>1, <1>2, TypeCorrect, PTL DEF Spec

\* A file is given up for its warnings only when there were too many, and the count does not fall.
Patient == "magwarn" \in cut => magwarn >= WarnMax

\* Every step keeps the count or raises it, or begins anew.
LEMMA PatientInductive == ASSUME TypeOK, Patient, [Next]_vars PROVE Patient'
<1>0. magwarn \in Nat /\ WarnMax \in Nat
  BY BoundsAssumption DEF TypeOK, BoundsAssumption
<1>1. ASSUME cut' = cut, NEW n \in Nat, magwarn' = magwarn + n PROVE Patient'
  BY <1>0, <1>1 DEF Patient
<1>2. CASE UNCHANGED <<cut, magwarn>>
  BY <1>2 DEF Patient
<1>3. CASE ReadLine
  <2>1. PICK l \in Lines : \/ ParseEntry(l) \/ ParseOrphan(l) \/ ParseNoMemory(l) \/ BangError(l)
                           \/ parse_strength(l) \/ parse_extra(l) \/ Skip(l)
    BY <1>3 DEF ReadLine
  <2>2. cut' = cut
    BY <1>3 DEF ReadLine
  <2>3. CASE ParseEntry(l)
    <3>1. \E x, y \in {0, 1} : magwarn' = magwarn + (x + y)
      BY <2>3 DEF ParseEntry, Warn
    <3> QED BY <1>1, <2>2, <3>1
  <2>4. CASE ParseNoMemory(l)
    <3>1. \E x \in {0, 1} : magwarn' = magwarn + x
      BY <2>4 DEF ParseNoMemory, Warn
    <3> QED BY <1>1, <2>2, <3>1
  <2>5. CASE parse_strength(l)
    <3>1. \E x \in {0, 1} : magwarn' = magwarn + x
      BY <2>5 DEF parse_strength, Warn
    <3> QED BY <1>1, <2>2, <3>1
  <2>6. CASE parse_extra(l)
    <3>1. \E x \in {0, 1} : magwarn' = magwarn + x
      BY <2>6 DEF parse_extra, Warn
    <3> QED BY <1>1, <2>2, <3>1
  <2>7. CASE ParseOrphan(l) \/ BangError(l) \/ Skip(l)
    BY <1>2, <2>2, <2>7 DEF ParseOrphan, BangError, Skip
  <2> QED BY <2>1, <2>3, <2>4, <2>5, <2>6, <2>7
<1>4. CASE StopReading
  BY <1>0, <1>4 DEF StopReading, FinishFile, Patient
<1>5. CASE SortAndJoin
  <2>1. \E s0, s1 : magwarn' = magwarn + Cardinality({s \in {s0, s1} : DefaultNotLast(s)})
    BY <1>5 DEF SortAndJoin, Warn
  <2>2. PICK s0, s1 : magwarn' = magwarn + Cardinality({s \in {s0, s1} : DefaultNotLast(s)})
    BY <2>1
  <2>3. Cardinality({s \in {s0, s1} : DefaultNotLast(s)}) \in Nat
    BY FewSets
  <2>4. cut' = cut
    BY <1>5 DEF SortAndJoin
  <2> QED BY <1>1, <2>2, <2>3, <2>4
<1>6. CASE NextProcess
  BY <1>6 DEF NextProcess, Fresh, Patient
<1>7. CASE \/ UNCHANGED vars \/ OpenFile \/ CloseFile \/ LoadFails \/ OpenTruncated \/ WriteHeader
           \/ (\E j \in Sets : WriteSet(j)) \/ MapFile \/ MapRefused \/ MapFails \/ Done
  <2>1. UNCHANGED <<cut, magwarn>>
    BY <1>7 DEF vars, OpenFile, CloseFile, FinishFile, LoadFails, OpenTruncated, WriteHeader, WriteSet, MapFile,
                MapRefused, MapFails, Done, parser
  <2> QED BY <1>2, <2>1
<1> QED BY <1>3, <1>4, <1>5, <1>6, <1>7 DEF Next

\* A database made from source holds every entry that was read once, with its continuations, for any
\* files: one is missing only when an error was recorded.  Files are read to their ends but for two silent
\* stops, of which the one for too many warnings needs that many.  (load_1, addentry, coalesce_entries)
THEOREM DatabaseIsComplete == Spec => []DatabaseComplete
<1>1. Init => Patient
  BY DEF Init, Patient
<1>2. TypeOK /\ Patient /\ [Next]_vars => Patient'
  BY PatientInductive
<1>3. Collected /\ Made /\ Patient => DatabaseComplete
  BY DEF Made, Complete, DatabaseComplete, Patient
<1> QED BY <1>1, <1>2, <1>3, TypeCorrect, MadeInvariant, PTL DEF Spec

\* The order of a database is the order of its strengths, whatever qsort() does with equals, for any
\* files: another order it may leave exchanges only duplicates, entries whose first lines differ in
\* nothing but their line numbers.  (apprentice_sort)
THEOREM OrderIsDetermined == Spec => []OrderDetermined
<1>1. Collected /\ Made => OrderDetermined
  BY DEF Made, Determined, OrderDetermined
<1> QED BY <1>1, MadeInvariant, PTL
=============================================================================
