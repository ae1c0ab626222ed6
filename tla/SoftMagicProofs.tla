--------------------------- MODULE SoftMagicProofs ---------------------------
(***************************************************************************)
(* The magic interpreter, for every database and every limit: recursion is  *)
(* bounded, a continuation is run only below an entry that matched, "&"     *)
(* offsets and default entries see what their own call of match() did, and  *)
(* what is printed agrees with what is returned.                            *)
(***************************************************************************)
EXTENDS SoftMagic, SetInduction, FiniteSetTheorems, TLAPS

-----------------------------------------------------------------------------
(* The inductive invariants.                                               *)

\* The stack: only the first call is file_softmagic()'s, and every call but the
\* last is waiting for the test that made the next one.
Waiting ==
    /\ result # "none" => stack = << >>
    /\ \A d \in 1..Depth : (stack[d].call = "root") <=> d = 1
    /\ \A d \in 1..(Depth - 1) : stack[d].pc \in {"top", "cont"} /\ Entry(stack[d]).type = stack[d+1].call
Calls == TypeOK /\ Waiting

\* The counters.
Counted ==
    /\ names = Cardinality(CallsOf("use")) /\ names <= NameMax
    /\ indir \in Nat /\ Cardinality(CallsOf("indirect")) <= indir /\ indir <= IndirMax
    /\ Depth <= 1 + names + indir

\* Entry j of the list q is the last one below level l before the entries up to i.
ControlsAt(q, j, i, l) == j \in 1..i /\ q[j].lev < l /\ \A k \in (j+1)..i : q[k].lev >= l

\* Entry j has level l, and its level has not been left up to entry i.
OpenAt(q, j, i, l) == j \in 1..i /\ q[j].lev = l /\ \A k \in j..i : q[k].lev >= l

\* Where a call of match() stands in its list: between top-level entries, or below
\* entries that matched with their ends inside the buffer, one for every level; unless
\* the entries have no top-level entry that was run (s: the size of the file is unknown).
Stands(q, f, s) ==
    /\ f.pc = "for" /\ f.idx < Len(q) => q[f.idx + 1].lev = 0 \/ ~Headed(q, f.idx + 1, s)
    /\ f.pc = "top" => q[f.idx].lev = 0 \/ ~Headed(q, f.idx, s)
    /\ f.pc = "cont" => q[f.idx].lev # 0
    /\ f.pc \in {"top", "cont"} => f.hit \subseteq 1..(f.idx - 1)
    /\ f.pc \in {"while", "cont"} /\ Headed(q, f.idx, s) =>
          \A l \in 1..f.lev : \E j \in f.deep : ControlsAt(q, j, f.idx, l) /\ q[j].lev = l - 1

\* What the d-th call has in ms->c.li and ms->eoffset: the ends of those entries, the
\* end of the file it counts from, and at every level whether a default comes too late.
Remembers(q, f, d, c, e, s) ==
    /\ f.pc \in {"while", "cont"} /\ Headed(q, f.idx, s) => \A l \in 1..f.lev : \A j \in 1..f.idx :
          ControlsAt(q, j, f.idx, l) => c[l - 1].off = <<d, j>>
    /\ f.pc \in {"top", "while", "cont"} => f.eo = e
    /\ f.pc \in {"while", "cont"} /\ Headed(q, f.idx, s) => \A l \in 1..f.lev : ~c[l].got =>
          \A j \in f.deep : OpenAt(q, j, f.idx, l) =>
              \E k \in f.hit : j <= k /\ OpenAt(q, k, f.idx, l) /\ (q[k].type = "clear" \/ k \notin f.deep)

\* Every default that matched came first.
Defaults(q, f, s) ==
    \A i \in f.hit : q[i].type = "default" /\ q[i].lev > 0 /\ Headed(q, i, s) =>
        \A j \in f.deep : j < i /\ Sibling(q, i, j) =>
            \E k \in f.hit : k \in j..(i-1) /\ Sibling(q, i, k) /\ (q[k].type = "clear" \/ k \notin f.deep)

\* A call that runs a named list keeps ms->c.li and ms->eoffset of its caller.
Kept ==
    \A d \in 1..Depth :
        LET f == stack[d]
            q == ListOf(f)
            s == flags.badsize
        IN  /\ Stands(q, f, s)
            /\ ~f.mixed => /\ Defaults(q, f, s)
                           /\ d = Depth => Remembers(q, f, d, li, eoff, s)
                           /\ d < Depth => /\ stack[d+1].call = "use"
                                           /\ Remembers(q, f, d, stack[d+1].li, stack[d+1].eoff, s)

\* match() is not on its way out with an error.
Sound == ~(Depth > 0 /\ Top.pc = "ret" /\ Top.val = 2) /\ result # "error"

\* The texts of the calls under way: one per indirect test, and the current one.
Spoken(d) == stack[d].call = "indirect" /\ stack[d].out # << >>
Something == out # << >> \/ \E d \in 1..Depth : Spoken(d)
Lead(o) == o # << >> => o[1] \notin {"sep", "space"}

\* What is printed goes with what is returned.
Printing == Sound =>
    /\ Depth > 0 /\ out # << >> => Top.ret
    /\ \A d \in 1..Depth : stack[d].pc = "ret" => (stack[d].val = 1 <=> stack[d].ret)
    /\ \A d \in 2..Depth : Spoken(d) => stack[d-1].ret
    /\ \A d \in 2..Depth : stack[d].call = "use" /\ stack[d-1].ret => stack[d].ret
    /\ \A d \in 1..Depth : ~flags.mime /\ stack[d].found => stack[d].ret
    /\ Speaking => /\ \A d \in 1..Depth : stack[d].ret => Something
                   /\ result = "match" => out # << >>
    /\ result = "nomatch" => out = << >>

\* Nothing that goes between two descriptions is printed before the first.
Leading == Sound /\ Speaking /\ ~(flags.mime /\ flags.cont) =>
    /\ needsep \/ printed \/ ~first => Something
    /\ \A d \in 1..Depth : stack[d].call = "use" /\ stack[d].sep => Something
    /\ \A d \in 1..Depth : Spoken(d) /\ (\A k \in 1..(d-1) : ~Spoken(k)) => Lead(stack[d].out)
    /\ (\A d \in 1..Depth : ~Spoken(d)) => Lead(out)

-----------------------------------------------------------------------------
(* Lists, stacks and frames.                                               *)

Pcs == {"for", "top", "while", "cont", "ret"}
Levs == 0..(MaxLevel + 1)

\* What a call keeps from its beginning to its end.
Keeps(f, g) == /\ g.list = f.list /\ g.call = f.call /\ g.li = f.li /\ g.eoff = f.eoff
               /\ g.sep = f.sep /\ g.out = f.out
Marks(f, g) == g.hit = f.hit /\ g.deep = f.deep /\ g.mixed = f.mixed
Answers(f, g) == g.ret = f.ret /\ g.found = f.found

\* A frame that goes on at another place of its list.
LEMMA Goes ==
    ASSUME NEW f \in FrameType, NEW i \in Nat, NEW l \in Levs, NEW p \in Pcs, NEW e \in Ids, NEW v \in 0..2
    PROVE  /\ LET g == [f EXCEPT !.idx = i, !.lev = l, !.pc = p]
              IN  g \in FrameType /\ Keeps(f, g) /\ Marks(f, g) /\ Answers(f, g) /\ g.eo = f.eo /\ g.val = f.val
                  /\ g.idx = i /\ g.lev = l /\ g.pc = p
           /\ LET g == [f EXCEPT !.pc = p, !.eo = e]
              IN  g \in FrameType /\ Keeps(f, g) /\ Marks(f, g) /\ Answers(f, g) /\ g.eo = e /\ g.val = f.val
                  /\ g.idx = f.idx /\ g.lev = f.lev /\ g.pc = p
           /\ LET g == [f EXCEPT !.pc = p, !.val = v]
              IN  g \in FrameType /\ Keeps(f, g) /\ Marks(f, g) /\ Answers(f, g) /\ g.eo = f.eo /\ g.val = v
                  /\ g.idx = f.idx /\ g.lev = f.lev /\ g.pc = p
  BY DEF FrameType, Keeps, Marks, Answers, Pcs, Levs

\* A frame that returns.
LEMMA ReturnIs ==
    ASSUME NEW f \in FrameType, NEW v \in 0..2
    PROVE  /\ Return(f, v) \in FrameType /\ Keeps(f, Return(f, v)) /\ Marks(f, Return(f, v)) /\ Answers(f, Return(f, v))
           /\ Return(f, v).eo = f.eo /\ Return(f, v).val = v /\ Return(f, v).idx = f.idx
           /\ Return(f, v).lev = f.lev /\ Return(f, v).pc = "ret"
  BY DEF FrameType, Keeps, Marks, Answers, Return

\* Every list is well formed.
LEMMA Lists ==
    ASSUME db \in DBs, NEW f, f.list \in DOMAIN db.named \cup {"root"}
    PROVE  /\ ListOf(f) \in Seq(EntryType) /\ Size(f) \in Nat
           /\ \A i \in 1..Size(f) : ListOf(f)[i] \in EntryType /\ ListOf(f)[i].lev \in 0..MaxLevel
<1> DEFINE q == ListOf(f)
<1>2. q \in Seq(EntryType)
  BY DBsAssumption DEF ListOf
<1> HIDE DEF q
<1>3. Len(q) \in Nat /\ \A i \in 1..Len(q) : q[i] \in EntryType
  BY <1>2
<1>4. \A m \in EntryType : m.lev \in 0..MaxLevel
  BY DEF EntryType
<1> QED BY <1>2, <1>3, <1>4 DEF Size, q

\* A flush ends before the next top-level entry.
LEMMA FlushEnds ==
    ASSUME NEW f, Size(f) \in Nat, NEW i \in 1..Size(f)
    PROVE  /\ FlushEnd(f, i) \in i..Size(f)
           /\ \A k \in (i+1)..FlushEnd(f, i) : ListOf(f)[k].lev # 0
           /\ FlushEnd(f, i) < Size(f) => ListOf(f)[FlushEnd(f, i) + 1].lev = 0
<1> DEFINE n == Size(f)
           q == ListOf(f)
           T == {j \in i..n : j = n \/ q[j+1].lev = 0}
<1>0. n \in Nat /\ i \in 1..n
  OBVIOUS
<1> HIDE DEF n, q
<1>1. T \in SUBSET Nat /\ n \in T
  BY <1>0
<1>2. PICK x \in T : \A y \in T : x <= y
  BY <1>1, Least
<1>3. \A k \in (i+1)..x : q[k].lev # 0
  <2> SUFFICES ASSUME NEW k \in (i+1)..x, q[k].lev = 0 PROVE FALSE
    OBVIOUS
  <2>1. k - 1 \in i..n /\ (k - 1) + 1 = k /\ k - 1 < x
    BY <1>0, <1>2
  <2>2. k - 1 \in T
    BY <2>1
  <2> QED BY <1>2, <2>1, <2>2
<1> DEFINE P(j) == /\ \A k \in (i+1)..j : q[k].lev # 0
                   /\ j < n => q[j+1].lev = 0
           e == CHOOSE j \in i..n : P(j)
<1>4. x \in i..n /\ P(x)
  BY <1>0, <1>2, <1>3
<1>5. FlushEnd(f, i) = e
  BY DEF FlushEnd, n, q
<1>6. e \in i..n /\ P(e)
  <2> HIDE DEF P
  <2> QED BY <1>4, Zenon
<1> HIDE DEF e
<1> QED BY <1>5, <1>6 DEF n, q

\* The stack when the n-th call is the last one and has become g.
Becomes(n, g) == /\ stack' \in Seq(FrameType) /\ Len(stack') = n /\ stack'[n] = g
                 /\ \A d \in 1..(n - 1) : stack'[d] = stack[d]

\* A call goes on, a call returns to its caller, and a new call.
LEMMA Stacks ==
    ASSUME stack \in Seq(FrameType), NEW g \in FrameType
    PROVE  /\ Depth > 0 /\ stack' = Replace(g) => Becomes(Depth, g)
           /\ Depth > 0 /\ stack' = Append(Below, g) => Becomes(Depth, g)
           /\ Depth > 1 /\ stack' = Append(BelowCaller, g) => Becomes(Depth - 1, g)
           /\ stack' = Append(stack, g) => Becomes(Depth + 1, g)
<1>0. Depth \in Nat
  BY DEF Depth
<1>1. ASSUME NEW s \in Seq(FrameType)
      PROVE  /\ Append(s, g) \in Seq(FrameType) /\ Len(Append(s, g)) = Len(s) + 1 /\ Append(s, g)[Len(s) + 1] = g
             /\ \A d \in 1..Len(s) : Append(s, g)[d] = s[d]
  OBVIOUS
<1>2. ASSUME NEW n \in 1..Depth
      PROVE  /\ SubSeq(stack, 1, n - 1) \in Seq(FrameType) /\ Len(SubSeq(stack, 1, n - 1)) = n - 1
             /\ \A d \in 1..(n - 1) : SubSeq(stack, 1, n - 1)[d] = stack[d]
  BY <1>0 DEF Depth
<1>3. ASSUME NEW n \in 1..Depth, stack' = Append(SubSeq(stack, 1, n - 1), g) PROVE Becomes(n, g)
  <2> DEFINE s == SubSeq(stack, 1, n - 1)
  <2>1. s \in Seq(FrameType) /\ Len(s) = n - 1 /\ \A d \in 1..(n - 1) : s[d] = stack[d]
    BY <1>2
  <2> HIDE DEF s
  <2>2. stack' = Append(s, g)
    BY <1>3 DEF s
  <2> QED BY <1>0, <1>1, <2>1, <2>2 DEF Becomes
<1>4. Depth > 0 /\ stack' = Append(Below, g) => Becomes(Depth, g)
  BY <1>0, <1>3 DEF Below
<1>5. Depth > 1 /\ stack' = Append(BelowCaller, g) => Becomes(Depth - 1, g)
  <2> SUFFICES ASSUME Depth > 1, stack' = Append(BelowCaller, g) PROVE Becomes(Depth - 1, g)
    OBVIOUS
  <2> DEFINE n == Depth - 1
  <2>1. n \in 1..Depth /\ n - 1 = Depth - 2
    BY <1>0
  <2>2. stack' = Append(SubSeq(stack, 1, n - 1), g)
    BY <2>1 DEF BelowCaller
  <2> QED BY <1>3, <2>1, <2>2
<1>6. Depth > 0 /\ stack' = Replace(g) => Becomes(Depth, g)
  BY <1>0 DEF Replace, Becomes, Depth
<1>7. stack' = Append(stack, g) => Becomes(Depth + 1, g)
  BY <1>0, <1>1 DEF Becomes, Depth
<1> QED BY <1>4, <1>5, <1>6, <1>7

\* How many calls are below the last one, and below its caller.
LEMMA Belows ==
    ASSUME stack \in Seq(FrameType)
    PROVE  (Depth > 0 => Len(Below) = Depth - 1) /\ (Depth > 1 => Len(BelowCaller) = Depth - 2)
<1>0. Depth \in Nat
  BY DEF Depth
<1>1. ASSUME NEW n \in 1..Depth PROVE Len(SubSeq(stack, 1, n - 1)) = n - 1
  BY <1>0 DEF Depth
<1>2. Depth > 0 => Len(Below) = Depth - 1
  BY <1>0, <1>1 DEF Below
<1>3. ASSUME Depth > 1 PROVE Len(BelowCaller) = Depth - 2
  <2> DEFINE n == Depth - 1
  <2>1. n \in 1..Depth /\ n - 1 = Depth - 2
    BY <1>0, <1>3
  <2>2. BelowCaller = SubSeq(stack, 1, n - 1)
    BY <2>1 DEF BelowCaller
  <2> HIDE DEF n
  <2> QED BY <1>1, <2>1, <2>2
<1> QED BY <1>2, <1>3

\* What is known of every call under way.
LEMMA Frames ==
    ASSUME Calls
    PROVE  /\ Depth \in Nat /\ db \in DBs /\ flags \in [cont : BOOLEAN, mime : BOOLEAN, badsize : BOOLEAN]
           /\ li \in LevelType /\ eoff \in Ids /\ out \in Seq(Tokens)
           /\ \A d \in 1..Depth : stack[d] \in FrameType /\ FrameOK(stack[d]) /\ stack[d].list \in DOMAIN db.named \cup {"root"}
           /\ \A d \in 1..Depth : /\ Size(stack[d]) \in Nat
                                 /\ \A i \in 1..Size(stack[d]) : ListOf(stack[d])[i].lev \in 0..MaxLevel
<1>1. Depth \in Nat /\ \A d \in 1..Depth : stack[d] \in FrameType
  BY DEF Calls, TypeOK, Depth
<1>2. \A d \in 1..Depth : FrameOK(stack[d]) /\ stack[d].list \in DOMAIN db.named \cup {"root"}
  BY DEF Calls, TypeOK, FrameOK
<1>3. db \in DBs /\ flags \in [cont : BOOLEAN, mime : BOOLEAN, badsize : BOOLEAN]
  BY DEF Calls, TypeOK
<1>4. li \in LevelType /\ eoff \in Ids /\ out \in Seq(Tokens)
  BY DEF Calls, TypeOK
<1>5. ASSUME NEW d \in 1..Depth
      PROVE  /\ Size(stack[d]) \in Nat
             /\ \A i \in 1..Size(stack[d]) : ListOf(stack[d])[i].lev \in 0..MaxLevel
  <2> DEFINE f == stack[d]
  <2>1. f.list \in DOMAIN db.named \cup {"root"}
    BY <1>2
  <2> HIDE DEF f
  <2> QED BY <1>3, <2>1, Lists DEF f
<1> QED BY <1>1, <1>2, <1>3, <1>4, <1>5

-----------------------------------------------------------------------------
(* ms->c.li, and what a test does to the call that ran it.                 *)

\* Levels whose ends and marks are the same.
SameLevels(c, b) == \A k \in Levs : b[k].off = c[k].off /\ (b[k].got <=> c[k].got)

\* A change of last_match concerns nothing else.
LEMMA LastMatch ==
    ASSUME NEW c \in LevelType, NEW l \in Levs, NEW b \in BOOLEAN
    PROVE  [c EXCEPT ![l].last = b] \in LevelType /\ SameLevels(c, [c EXCEPT ![l].last = b])
<1> DEFINE R == [off : Ids, got : BOOLEAN, last : BOOLEAN]
           a == [c EXCEPT ![l].last = b]
<1>1. \A r \in R : [r EXCEPT !.last = b] \in R /\ [r EXCEPT !.last = b].off = r.off /\ [r EXCEPT !.last = b].got = r.got
  OBVIOUS
<1>2. c \in [Levs -> R]
  BY DEF LevelType, Levs
<1>3. a = [k \in Levs |-> IF k = l THEN [c[k] EXCEPT !.last = b] ELSE c[k]]
  BY <1>2
<1> HIDE DEF R
<1>4. a \in [Levs -> R]
  BY <1>1, <1>2, <1>3
<1>5. SameLevels(c, a)
  <2> SUFFICES ASSUME NEW k \in Levs PROVE a[k].off = c[k].off /\ a[k].got = c[k].got
    BY DEF SameLevels
  <2>1. c[k] \in R
    BY <1>2
  <2>2. a[k] = IF k = l THEN [c[k] EXCEPT !.last = b] ELSE c[k]
    BY <1>3
  <2> HIDE DEF a
  <2> QED BY <1>1, <2>1, <2>2
<1> QED BY <1>4, <1>5 DEF LevelType, Levs, R

Marked(a, c, l, b, t) == a = [c EXCEPT ![l].got = b, ![l].last = t] \/ a = [c EXCEPT ![l].last = t, ![l].got = b]

\* A change of got_match and last_match.
LEMMA GotLast ==
    ASSUME NEW c \in LevelType, NEW l \in Levs, NEW b \in BOOLEAN, NEW t \in BOOLEAN, NEW a, Marked(a, c, l, b, t)
    PROVE  /\ a \in LevelType /\ \A k \in Levs : a[k].off = c[k].off
           /\ \A k \in Levs \ {l} : a[k].got = c[k].got
           /\ a[l].got = b
<1> DEFINE R == [off : Ids, got : BOOLEAN, last : BOOLEAN]
           h(r) == [[r EXCEPT !.got = b] EXCEPT !.last = t]
           h2(r) == [[r EXCEPT !.last = t] EXCEPT !.got = b]
<1>1. \A r \in R : h(r) \in R /\ h(r).off = r.off /\ h(r).got = b /\ h2(r) \in R /\ h2(r).off = r.off /\ h2(r).got = b
  OBVIOUS
<1>2. c \in [Levs -> R]
  BY DEF LevelType, Levs
<1>3. a = [k \in Levs |-> IF k = l THEN h(c[k]) ELSE c[k]] \/ a = [k \in Levs |-> IF k = l THEN h2(c[k]) ELSE c[k]]
  BY <1>2 DEF Marked
<1> HIDE DEF R, h, h2
<1>4. a \in [Levs -> R]
  BY <1>1, <1>2, <1>3
<1>5. ASSUME NEW k \in Levs PROVE a[k].off = c[k].off /\ (k # l => a[k].got = c[k].got) /\ (k = l => a[k].got = b)
  <2>1. c[k] \in R
    BY <1>2
  <2>2. a[k] = (IF k = l THEN h(c[k]) ELSE c[k]) \/ a[k] = (IF k = l THEN h2(c[k]) ELSE c[k])
    BY <1>3
  <2> QED BY <1>1, <2>1, <2>2
<1> QED BY <1>4, <1>5 DEF LevelType, Levs, R

\* file_check_mem() makes a level fresh, the ends stay.
LEMMA MemChecked ==
    ASSUME NEW c \in LevelType, NEW l \in Levs
    PROVE  /\ CheckMem(c, l) \in LevelType /\ \A k \in Levs : CheckMem(c, l)[k].off = c[k].off
           /\ \A k \in Levs \ {l} : CheckMem(c, l)[k].got = c[k].got
           /\ ~CheckMem(c, l)[l].got
<1> DEFINE a == CheckMem(c, l)
           b == FALSE
<1>1. Marked(a, c, l, b, b) /\ b \in BOOLEAN
  BY DEF CheckMem, Marked
<1> HIDE DEF a, b
<1>2. /\ a \in LevelType /\ \A k \in Levs : a[k].off = c[k].off
      /\ \A k \in Levs \ {l} : a[k].got = c[k].got
      /\ a[l].got = b
  BY <1>1, GotLast
<1> QED BY <1>2 DEF a, b

\* A match is remembered at its level.
LEMMA MatchGot ==
    ASSUME NEW c \in LevelType, NEW f \in FrameType, NEW m
    PROVE  /\ GotMatch(c, f, m) \in LevelType /\ \A k \in Levs : GotMatch(c, f, m)[k].off = c[k].off
           /\ \A k \in Levs \ {f.lev} : GotMatch(c, f, m)[k].got = c[k].got
           /\ f.pc # "top" => (GotMatch(c, f, m)[f.lev].got <=> m.type # "clear")
           /\ f.pc = "top" => GotMatch(c, f, m) = c
<1>1. CASE f.pc = "top"
  BY <1>1 DEF GotMatch
<1>2. CASE f.pc # "top"
  <2> DEFINE l == f.lev
             b == (m.type # "clear")
             t == TRUE
             a == GotMatch(c, f, m)
  <2>1. Marked(a, c, l, b, t)
    BY <1>2 DEF GotMatch, Marked
  <2>2. l \in Levs /\ b \in BOOLEAN /\ t \in BOOLEAN
    BY DEF FrameType, Levs
  <2> HIDE DEF a, b, l, t
  <2>3. /\ a \in LevelType /\ \A k \in Levs : a[k].off = c[k].off
        /\ \A k \in Levs \ {l} : a[k].got = c[k].got
        /\ a[l].got = b
    BY <2>1, <2>2, GotLast
  <2> QED BY <1>2, <2>3 DEF a, b, l
<1> QED BY <1>1, <1>2

\* moffset() and the level above.
LEMMA Entered ==
    ASSUME NEW c \in LevelType, NEW f \in FrameType, f.lev \in 0..MaxLevel, NEW d \in Nat
    PROVE  LET a == EnterLevel(c, f, d)
           IN  /\ a \in LevelType /\ a[f.lev].off = <<d, f.idx>>
               /\ \A k \in Levs \ {f.lev} : a[k].off = c[k].off
               /\ \A k \in Levs \ {f.lev + 1} : a[k].got = c[k].got
               /\ ~a[f.lev + 1].got
<1> DEFINE R == [off : Ids, got : BOOLEAN, last : BOOLEAN]
           l == f.lev
           h == Here(f, d)
           b == [c EXCEPT ![l].off = h]
           u == l + 1
<1>0. l \in Levs /\ u \in Levs /\ h \in Ids /\ h = <<d, f.idx>>
  BY MaxLevelAssumption DEF FrameType, Levs, Here, Ids
<1>1. c \in [Levs -> R]
  BY DEF LevelType, Levs
<1> HIDE DEF h, l
<1>2. \A r \in R : [r EXCEPT !.off = h] \in R /\ [r EXCEPT !.off = h].off = h /\ [r EXCEPT !.off = h].got = r.got
  BY <1>0
<1>3. b = [k \in Levs |-> IF k = l THEN [c[k] EXCEPT !.off = h] ELSE c[k]]
  BY <1>0, <1>1
<1> HIDE DEF R
<1>4. b \in [Levs -> R]
  BY <1>1, <1>2, <1>3
<1>5. ASSUME NEW k \in Levs PROVE (k = l => b[k].off = h) /\ (k # l => b[k].off = c[k].off) /\ b[k].got = c[k].got
  <2>1. c[k] \in R
    BY <1>1
  <2>2. b[k] = IF k = l THEN [c[k] EXCEPT !.off = h] ELSE c[k]
    BY <1>3
  <2> HIDE DEF b
  <2> QED BY <1>2, <2>1, <2>2
<1>6. b \in LevelType
  BY <1>4 DEF LevelType, Levs, R
<1>7. EnterLevel(c, f, d) = CheckMem(b, u)
  BY DEF EnterLevel, l, h
<1> HIDE DEF b, u
<1>8. /\ CheckMem(b, u) \in LevelType /\ \A k \in Levs : CheckMem(b, u)[k].off = b[k].off
      /\ \A k \in Levs \ {u} : CheckMem(b, u)[k].got = b[k].got
      /\ ~CheckMem(b, u)[u].got
  BY <1>0, <1>6, MemChecked
<1> QED BY <1>0, <1>5, <1>7, <1>8 DEF l, u

\* A call at a test.
Tests(f) == /\ f \in FrameType /\ f.pc \in {"top", "cont"} /\ Size(f) \in Nat /\ f.idx \in 1..Size(f)
            /\ f.lev = (IF f.pc = "top" THEN 0 ELSE Entry(f).lev) /\ f.lev \in 0..MaxLevel

\* The call after a test that did not match.
Missed(f, g, c) ==
    /\ g \in FrameType /\ Keeps(f, g) /\ Marks(f, g) /\ Answers(f, g) /\ g.eo = f.eo
    /\ \/ f.pc = "top" /\ g.pc = "for" /\ g.lev = 0 /\ g.idx = FlushEnd(f, f.idx)
       \/ f.pc = "cont" /\ g.pc = "while" /\ g.lev = f.lev /\ g.idx = f.idx
    /\ li' \in LevelType /\ SameLevels(c, li')

\* The call after a test that did: a default that came too late, a MIME type, or an
\* entry with its end inside or outside the buffer.
Late(f, g, c) ==
    /\ LateDefault(c, f)
    /\ Marks(f, g) /\ Answers(f, g) /\ g.pc = "while" /\ g.idx = f.idx /\ g.lev = f.lev
    /\ SameLevels(c, li')
Annotated(f, g, c) ==
    /\ ~LateDefault(c, f) /\ flags.mime /\ Entry(f).mime
    /\ g.hit = f.hit \cup {f.idx} /\ g.deep = f.deep /\ g.mixed = f.mixed
    /\ g.ret /\ g.found /\ g.pc = "ret" /\ g.val = 1 /\ g.idx = f.idx
Entering(f, g, c, d) ==
    /\ g.deep = f.deep \cup {f.idx} /\ g.pc = "while" /\ g.idx = f.idx /\ g.lev = f.lev + 1
    /\ li'[f.lev].off = <<d, f.idx>>
    /\ \A k \in Levs \ {f.lev} : li'[k].off = c[k].off
    /\ \A k \in Levs \ {f.lev, f.lev + 1} : li'[k].got = c[k].got
    /\ f.pc # "top" => (li'[f.lev].got <=> Entry(f).type # "clear")
    /\ ~li'[f.lev + 1].got
Leaving(f, g, c) ==
    /\ g.deep = f.deep
    /\ \/ f.pc = "top" /\ g.pc = "for" /\ g.lev = 0 /\ g.idx = FlushEnd(f, f.idx)
       \/ /\ f.pc = "cont" /\ g.pc = "while" /\ g.lev = f.lev /\ g.idx = f.idx
          /\ \A k \in Levs : li'[k].off = c[k].off
          /\ \A k \in Levs \ {f.lev} : li'[k].got = c[k].got
Described(f, g, c, d) ==
    /\ ~LateDefault(c, f) /\ ~(flags.mime /\ Entry(f).mime)
    /\ g.hit = f.hit \cup {f.idx} /\ g.mixed = f.mixed
    /\ g.found <=> (f.found \/ Entry(f).desc)
    /\ g.ret <=> (f.ret \/ (Entry(f).desc /\ ~flags.mime))
    /\ Entering(f, g, c, d) \/ Leaving(f, g, c)
Matched(f, g, c, d) ==
    /\ g \in FrameType /\ Keeps(f, g) /\ g.eo = f.eo /\ li' \in LevelType
    /\ Late(f, g, c) \/ Annotated(f, g, c) \/ Described(f, g, c, d)

\* What is printed for it.
Prints(f, c, s, o) ==
    \/ LateDefault(c, f) /\ (needsep' <=> s) /\ out' = o /\ (printed' <=> printed) /\ (first' <=> first)
    \/ /\ ~LateDefault(c, f) /\ flags.mime /\ Entry(f).mime
       /\ out' = o \o (IF ~first /\ ~flags.cont THEN << >> ELSE Sep(first) \o << "mime" >>)
       /\ needsep' /\ printed' /\ ~first'
    \/ /\ ~LateDefault(c, f) /\ ~(flags.mime /\ Entry(f).mime)
       /\ Entry(f).desc /\ ~flags.mime
       /\ out' = o \o PrintDesc(f, Entry(f), s) /\ needsep' /\ printed' /\ (first' <=> first)
    \/ /\ ~LateDefault(c, f) /\ ~(flags.mime /\ Entry(f).mime)
       /\ ~(Entry(f).desc /\ ~flags.mime)
       /\ out' = o /\ (needsep' <=> s) /\ (printed' <=> printed) /\ (first' <=> first)
Booleans == needsep \in BOOLEAN /\ printed \in BOOLEAN /\ first \in BOOLEAN
Says(f, c, s, o) == Prints(f, c, s, o) /\ Booleans'

\* Miss() leaves such a call.
LEMMA MissIs ==
    ASSUME NEW f, Tests(f), NEW c \in LevelType, NEW b, NEW mget \in BOOLEAN, Miss(b, f, c, mget)
    PROVE  \E g \in FrameType : stack' = Append(b, g) /\ Missed(f, g, c)
<1> DEFINE g == IF f.pc = "top" THEN Flush(f, f.idx) ELSE [f EXCEPT !.pc = "while"]
<1>1. stack' = Append(b, g)
  BY DEF Miss
<1>2. f \in FrameType /\ f.lev \in Levs /\ f.pc \in {"top", "cont"} /\ FlushEnd(f, f.idx) \in Nat
  BY FlushEnds DEF Tests, FrameType, Levs
<1>3. li' \in LevelType /\ SameLevels(c, li')
  <2>1. SameLevels(c, c)
    BY DEF SameLevels
  <2>2. [c EXCEPT ![f.lev].last = FALSE] \in LevelType /\ SameLevels(c, [c EXCEPT ![f.lev].last = FALSE])
    BY <1>2, LastMatch
  <2> QED BY <2>1, <2>2 DEF Miss
<1>4. CASE f.pc = "top"
  <2>1. g = [f EXCEPT !.idx = FlushEnd(f, f.idx), !.lev = 0, !.pc = "for"]
    BY <1>4 DEF Flush
  <2>2. g \in FrameType /\ Keeps(f, g) /\ Marks(f, g) /\ Answers(f, g) /\ g.eo = f.eo
        /\ g.pc = "for" /\ g.lev = 0 /\ g.idx = FlushEnd(f, f.idx)
    <3> DEFINE i == FlushEnd(f, f.idx)
    <3>1. i \in Nat /\ g = [f EXCEPT !.idx = i, !.lev = 0, !.pc = "for"] /\ 0 \in Levs
      BY <1>2, <2>1, MaxLevelAssumption DEF Levs
    <3> HIDE DEF g, i
    <3>2. /\ g \in FrameType /\ Keeps(f, g) /\ Marks(f, g) /\ Answers(f, g) /\ g.eo = f.eo
          /\ g.pc = "for" /\ g.lev = 0 /\ g.idx = i
      BY <1>2, <3>1 DEF FrameType, Keeps, Marks, Answers, Levs
    <3> QED BY <3>2 DEF i
  <2> HIDE DEF g
  <2> QED BY <1>1, <1>3, <1>4, <2>2 DEF Missed
<1>5. CASE f.pc = "cont"
  <2>1. g = [f EXCEPT !.pc = "while"]
    BY <1>5
  <2>2. g \in FrameType /\ Keeps(f, g) /\ Marks(f, g) /\ Answers(f, g) /\ g.eo = f.eo
        /\ g.pc = "while" /\ g.lev = f.lev /\ g.idx = f.idx
    BY <1>2, <2>1 DEF FrameType, Keeps, Marks, Answers
  <2> HIDE DEF g
  <2> QED BY <1>1, <1>3, <1>5, <2>2 DEF Missed
<1> QED BY <1>2, <1>4, <1>5

\* Descend() from an entry that matched, h being the call with what it found.
LEMMA DescendIs ==
    ASSUME NEW f, Tests(f), NEW c \in LevelType, NEW a \in LevelType, NEW b, Len(b) \in Nat, NEW inside \in BOOLEAN,
           a = GotMatch(c, f, Entry(f)),
           NEW h \in FrameType, Keeps(f, h), Marks(f, h), h.eo = f.eo, h.pc = f.pc, h.idx = f.idx, h.lev = f.lev, h.val = f.val,
           Descend(b, h, a, inside)
    PROVE  \E g \in FrameType : /\ stack' = Append(b, g) /\ Keeps(f, g) /\ g.eo = f.eo /\ li' \in LevelType
                                /\ g.hit = f.hit \cup {f.idx} /\ g.mixed = f.mixed /\ Answers(h, g)
                                /\ Entering(f, g, c, Len(b) + 1) \/ Leaving(f, g, c)
<1>0. /\ f \in FrameType /\ f.lev \in Levs /\ f.pc \in {"top", "cont"} /\ FlushEnd(f, f.idx) \in Nat
      /\ f.idx \in Nat /\ f.lev \in 0..MaxLevel /\ f.lev + 1 \in Levs /\ 0 \in Levs
  BY SMTT(30), FlushEnds, MaxLevelAssumption DEF Tests, FrameType, Levs
<1>1. /\ a \in LevelType /\ \A k \in Levs : a[k].off = c[k].off
      /\ \A k \in Levs \ {f.lev} : a[k].got = c[k].got
      /\ f.pc # "top" => (a[f.lev].got <=> Entry(f).type # "clear")
      /\ f.pc = "top" => a = c
  <2> DEFINE m == Entry(f)
  <2>1. a = GotMatch(c, f, m)
    OBVIOUS
  <2> HIDE DEF m
  <2>2. /\ a \in LevelType /\ \A k \in Levs : a[k].off = c[k].off
        /\ \A k \in Levs \ {f.lev} : a[k].got = c[k].got
        /\ f.pc # "top" => (a[f.lev].got <=> m.type # "clear")
        /\ f.pc = "top" => a = c
    <3>1. /\ GotMatch(c, f, m) \in LevelType /\ \A k \in Levs : GotMatch(c, f, m)[k].off = c[k].off
          /\ \A k \in Levs \ {f.lev} : GotMatch(c, f, m)[k].got = c[k].got
          /\ f.pc # "top" => (GotMatch(c, f, m)[f.lev].got <=> m.type # "clear")
          /\ f.pc = "top" => GotMatch(c, f, m) = c
      BY ZenonT(30), <1>0, MatchGot
    <3> HIDE DEF m
    <3> QED BY <2>1, <3>1, Zenon
  <2> QED BY <2>2 DEF m
<1> DEFINE u == [h EXCEPT !.hit = @ \cup {h.idx}]
           S == f.hit \cup {f.idx}
           T == f.deep \cup {f.idx}
<1>2. S \in SUBSET Nat /\ T \in SUBSET Nat
  BY <1>0 DEF FrameType
<1>3. u = [h EXCEPT !.hit = S] /\ S = h.hit \cup {h.idx} /\ T = h.deep \cup {h.idx}
  BY DEF Marks
<1> HIDE DEF S, T
<1>4. u \in FrameType /\ Keeps(f, u) /\ u.hit = S /\ u.deep = f.deep /\ u.mixed = f.mixed /\ Answers(h, u) /\ u.eo = f.eo
      /\ u.pc = f.pc /\ u.idx = f.idx /\ u.lev = f.lev
  BY <1>2, <1>3 DEF FrameType, Keeps, Marks, Answers
<1> HIDE DEF u
<1>5. CASE inside
  <2> DEFINE g == [u EXCEPT !.deep = @ \cup {h.idx}, !.lev = @ + 1, !.pc = "while"]
             x == f.lev + 1
             e == EnterLevel(a, h, Len(b) + 1)
  <2>1. stack' = Append(b, g) /\ li' = e
    BY <1>5 DEF Descend, u
  <2>2. g = [u EXCEPT !.deep = T, !.lev = x, !.pc = "while"]
    BY <1>3, <1>4
  <2>3. x \in Levs
    BY <1>0
  <2> HIDE DEF x, g
  <2>4. g \in FrameType /\ Keeps(u, g) /\ g.hit = u.hit /\ g.deep = T /\ g.mixed = u.mixed /\ Answers(u, g) /\ g.eo = u.eo
        /\ g.pc = "while" /\ g.idx = u.idx /\ g.lev = x
    BY <1>2, <1>4, <2>2, <2>3 DEF FrameType, Keeps, Answers, Levs
  <2>5. Keeps(f, g) /\ Answers(h, g)
    BY <1>4, <2>4 DEF Keeps, Answers
  <2> DEFINE d == Len(b) + 1
  <2>6. d \in Nat
    OBVIOUS
  <2> HIDE DEF d
  <2>7. /\ EnterLevel(a, h, d) \in LevelType /\ EnterLevel(a, h, d)[h.lev].off = <<d, h.idx>>
        /\ \A k \in Levs \ {h.lev} : EnterLevel(a, h, d)[k].off = a[k].off
        /\ \A k \in Levs \ {h.lev + 1} : EnterLevel(a, h, d)[k].got = a[k].got
        /\ ~EnterLevel(a, h, d)[h.lev + 1].got
    BY <1>0, <2>6, Entered
  <2> HIDE DEF e
  <2>8. e = EnterLevel(a, h, d)
    BY DEF e, d
  <2>9. /\ e \in LevelType /\ e[f.lev].off = <<d, f.idx>>
        /\ \A k \in Levs \ {f.lev} : e[k].off = a[k].off
        /\ \A k \in Levs \ {f.lev + 1} : e[k].got = a[k].got
        /\ ~e[f.lev + 1].got
    BY <2>7, <2>8
  <2>10. f.lev # f.lev + 1
    BY <1>0
  <2>11. Entering(f, g, c, d)
    BY <1>0, <1>1, <1>4, <2>1, <2>4, <2>9, <2>10 DEF Entering, x, T
  <2> QED BY <1>4, <2>1, <2>4, <2>5, <2>9, <2>11 DEF d, S
<1>6. CASE ~inside /\ f.pc = "top"
  <2> DEFINE i == FlushEnd(u, h.idx)
             g == Flush(u, h.idx)
  <2>1. stack' = Append(b, g) /\ li' = a
    BY <1>6 DEF Descend, u
  <2>2. i = FlushEnd(f, f.idx)
    BY <1>4 DEF FlushEnd, Size, ListOf, Keeps
  <2>3. i \in Nat
    BY <1>0, <2>2
  <2>4. g = [u EXCEPT !.idx = i, !.lev = 0, !.pc = "for"]
    BY DEF Flush
  <2> HIDE DEF g, i
  <2>5. g \in FrameType /\ Keeps(u, g) /\ Marks(u, g) /\ Answers(u, g) /\ g.eo = u.eo
        /\ g.pc = "for" /\ g.lev = 0 /\ g.idx = i
    BY <1>0, <1>4, <2>3, <2>4 DEF FrameType, Keeps, Marks, Answers, Levs
  <2>6. Keeps(f, g) /\ Answers(h, g) /\ g.hit = S /\ g.deep = f.deep /\ g.mixed = f.mixed
    BY <1>4, <2>5 DEF Keeps, Answers, Marks
  <2>7. Leaving(f, g, c)
    BY <1>6, <2>2, <2>5, <2>6 DEF Leaving
  <2> QED BY <1>1, <1>4, <2>1, <2>5, <2>6, <2>7 DEF S
<1>7. CASE ~inside /\ f.pc # "top"
  <2> DEFINE g == [u EXCEPT !.pc = "while"]
             l == f.lev
  <2>1. stack' = Append(b, g) /\ li' = CheckMem(a, l)
    BY <1>7 DEF Descend, u
  <2>2. g \in FrameType /\ Keeps(u, g) /\ Marks(u, g) /\ Answers(u, g) /\ g.eo = u.eo
        /\ g.pc = "while" /\ g.lev = u.lev /\ g.idx = u.idx
    BY <1>4 DEF FrameType, Keeps, Marks, Answers
  <2> HIDE DEF g
  <2>3. Keeps(f, g) /\ Answers(h, g) /\ g.hit = S /\ g.deep = f.deep /\ g.mixed = f.mixed
    BY <1>4, <2>2 DEF Keeps, Answers, Marks
  <2>4. l \in Levs
    BY <1>0
  <2> HIDE DEF l
  <2>5. /\ CheckMem(a, l) \in LevelType /\ \A k \in Levs : CheckMem(a, l)[k].off = a[k].off
        /\ \A k \in Levs \ {l} : CheckMem(a, l)[k].got = a[k].got
    BY <2>4, MemChecked
  <2>6. Leaving(f, g, c)
    BY <1>0, <1>1, <1>4, <1>7, <2>1, <2>2, <2>3, <2>5 DEF Leaving, l
  <2> QED BY <1>4, <2>1, <2>2, <2>3, <2>5, <2>6 DEF S
<1> QED BY <1>5, <1>6, <1>7

\* Hit() leaves such a call.
LEMMA HitIs ==
    ASSUME NEW f, Tests(f), NEW c \in LevelType, NEW b, Len(b) \in Nat, NEW s \in BOOLEAN, NEW o, NEW inside \in BOOLEAN,
           Booleans, Hit(b, f, c, s, o, inside)
    PROVE  \E g \in FrameType : stack' = Append(b, g) /\ Matched(f, g, c, Len(b) + 1) /\ Says(f, c, s, o)
<1>0. /\ f \in FrameType /\ f.lev \in Levs /\ f.idx \in Nat
  BY DEF Tests, FrameType, Levs
<1> DEFINE m == Entry(f)
           a == GotMatch(c, f, m)
<1>1. CASE /\ LateDefault(c, f)
           /\ stack' = Append(b, [f EXCEPT !.pc = "while"])
           /\ li' = [c EXCEPT ![f.lev].last = TRUE]
           /\ needsep' = s /\ out' = o
           /\ UNCHANGED <<printed, first>>
  <2> DEFINE g == [f EXCEPT !.pc = "while"]
  <2>1. g \in FrameType /\ Keeps(f, g) /\ Marks(f, g) /\ Answers(f, g) /\ g.eo = f.eo
        /\ g.pc = "while" /\ g.lev = f.lev /\ g.idx = f.idx
    BY <1>0 DEF FrameType, Keeps, Marks, Answers
  <2>2. li' \in LevelType /\ SameLevels(c, li')
    BY <1>0, <1>1, LastMatch
  <2> HIDE DEF g
  <2>3. Matched(f, g, c, Len(b) + 1)
    BY <1>1, <2>1, <2>2 DEF Matched, Late
  <2>4. Says(f, c, s, o)
    <3>1. Prints(f, c, s, o)
      BY <1>1 DEF Prints
    <3>2. Booleans'
      BY <1>1 DEF Booleans
    <3> QED BY <3>1, <3>2 DEF Says
  <2> QED BY <1>1, <2>1, <2>3, <2>4 DEF g
<1>2. a \in LevelType
  <2> HIDE DEF m
  <2> QED BY <1>0, MatchGot
<1>3. CASE ~LateDefault(c, f) /\ flags.mime /\ m.mime /\ Annotate(b, f, a, o)
  <2> DEFINE u == [f EXCEPT !.found = TRUE, !.ret = TRUE, !.hit = @ \cup {f.idx}]
             g == Return(u, 1)
             S == f.hit \cup {f.idx}
  <2>1. S \in SUBSET Nat /\ u = [f EXCEPT !.found = TRUE, !.ret = TRUE, !.hit = S]
    BY <1>0 DEF FrameType
  <2>2. stack' = Append(b, g) /\ li' = a
    BY <1>3 DEF Annotate
  <2> HIDE DEF S, u
  <2>3. u \in FrameType /\ Keeps(f, u) /\ u.hit = S /\ u.deep = f.deep /\ u.mixed = f.mixed /\ u.eo = f.eo
        /\ u.found /\ u.ret /\ u.idx = f.idx /\ u.lev = f.lev
    BY <1>0, <2>1 DEF FrameType, Keeps
  <2>4. g \in FrameType /\ Keeps(u, g) /\ Marks(u, g) /\ Answers(u, g) /\ g.eo = u.eo
        /\ g.pc = "ret" /\ g.val = 1 /\ g.idx = u.idx
    BY <2>3, ReturnIs
  <2> HIDE DEF g
  <2>5. Keeps(f, g) /\ g.hit = S /\ g.deep = f.deep /\ g.mixed = f.mixed /\ g.ret /\ g.found
    BY <2>3, <2>4 DEF Keeps, Marks, Answers
  <2>6. Matched(f, g, c, Len(b) + 1)
    BY <1>2, <1>3, <2>2, <2>3, <2>4, <2>5 DEF Matched, Annotated, S
  <2>7. Says(f, c, s, o)
    <3>1. Prints(f, c, s, o)
      BY <1>3 DEF Prints, Annotate
    <3>2. Booleans'
      BY <1>3 DEF Booleans, Annotate
    <3> QED BY <3>1, <3>2 DEF Says
  <2> QED BY <2>2, <2>4, <2>6, <2>7
<1>4. CASE ~LateDefault(c, f) /\ ~(flags.mime /\ m.mime) /\ Describe(b, f, a, s, o, inside)
  <2> DEFINE print == m.desc /\ ~flags.mime
             h == [f EXCEPT !.found = @ \/ m.desc, !.ret = @ \/ print]
             x == f.found \/ m.desc
             y == f.ret \/ print
  <2>1. Descend(b, h, a, inside)
    BY <1>4 DEF Describe
  <2>2. x \in BOOLEAN /\ y \in BOOLEAN /\ h = [f EXCEPT !.found = x, !.ret = y]
    OBVIOUS
  <2> HIDE DEF x, y, h
  <2>3. h \in FrameType /\ Keeps(f, h) /\ Marks(f, h) /\ h.eo = f.eo /\ h.pc = f.pc /\ h.idx = f.idx /\ h.lev = f.lev
        /\ h.val = f.val /\ h.found = x /\ h.ret = y
    BY <1>0, <2>2 DEF FrameType, Keeps, Marks
  <2> HIDE DEF a
  <2>4. a = GotMatch(c, f, Entry(f))
    BY DEF a, m
  <2> HIDE DEF m
  <2>5. PICK g \in FrameType : /\ stack' = Append(b, g) /\ Keeps(f, g) /\ g.eo = f.eo /\ li' \in LevelType
                               /\ g.hit = f.hit \cup {f.idx} /\ g.mixed = f.mixed /\ Answers(h, g)
                               /\ Entering(f, g, c, Len(b) + 1) \/ Leaving(f, g, c)
    BY <1>2, <2>1, <2>3, <2>4, DescendIs
  <2>6. g.found = x /\ g.ret = y
    BY <2>3, <2>5 DEF Answers
  <2>7. (g.found <=> (f.found \/ m.desc)) /\ (g.ret <=> (f.ret \/ (m.desc /\ ~flags.mime)))
    BY <2>6 DEF x, y, print
  <2>8. Matched(f, g, c, Len(b) + 1)
    BY <1>4, <2>5, <2>7 DEF Matched, Described, m
  <2>9. Says(f, c, s, o)
    <3>1. out' = (IF print THEN o \o PrintDesc(f, m, s) ELSE o) /\ needsep' = (s \/ print) /\ printed' = (printed \/ print)
          /\ UNCHANGED first
      BY <1>4 DEF Describe, m
    <3>2. ASSUME print PROVE Prints(f, c, s, o)
      BY <1>4, <3>1, <3>2 DEF Prints, print, m
    <3>3. ASSUME ~print PROVE Prints(f, c, s, o)
      BY <1>4, <3>1, <3>3 DEF Prints, print, m
    <3>4. Booleans'
      BY <3>1 DEF Booleans
    <3>5. Prints(f, c, s, o)
      BY <3>2, <3>3
    <3> QED BY <3>4, <3>5 DEF Says
  <2> QED BY <2>5, <2>8, <2>9
<1> QED BY <1>1, <1>3, <1>4 DEF Hit

-----------------------------------------------------------------------------
(* What every action does to the stack.                                    *)

\* The last call goes on.
Continues(f, g) == /\ g \in FrameType /\ Keeps(f, g) /\ Marks(f, g) /\ Answers(f, g)
                   /\ Becomes(Depth, g)

\* A top-level entry: its test is next, it is skipped with its continuations, or it is
\* left alone because the size of the file is not known.
LEMMA ForEntryDoes ==
    ASSUME Calls, ForEntry
    PROVE  /\ Depth \in Nat /\ Depth > 0 /\ Top.pc = "for" /\ Top.idx + 1 \in 1..Size(Top) /\ Top.lev = 0
           /\ \E g \in FrameType : /\ Continues(Top, g)
                 /\ \/ g.pc = "top" /\ g.idx = Top.idx + 1 /\ g.lev = 0 /\ g.eo = eoff'
                    \/ g.pc = "for" /\ g.idx = FlushEnd(Top, Top.idx + 1) /\ g.lev = 0
                    \/ /\ flags.badsize /\ g.pc = "for" /\ g.idx = Top.idx + 1 /\ g.lev = 0
                       /\ ListOf(Top)[Top.idx + 1].from = "end"
           /\ eoff' \in Ids /\ UNCHANGED <<globals, li>>
<1> DEFINE f == Top
           i == f.idx + 1
           u == [f EXCEPT !.idx = @ + 1]
           m == Entry(u)
<1>0. Depth \in Nat /\ Depth > 0 /\ f.pc = "for" /\ f.idx < Size(f) /\ UNCHANGED <<globals, li>>
  BY Frames DEF ForEntry, AtFor
<1>1. f \in FrameType /\ FrameOK(f) /\ Size(f) \in Nat /\ eoff \in Ids /\ stack \in Seq(FrameType)
  BY <1>0, Frames DEF Top, Calls, TypeOK
<1> HIDE DEF f
<1>2. i \in 1..Size(f) /\ i \in Nat /\ f.lev = 0 /\ f.idx \in Nat
  BY <1>0, <1>1 DEF FrameOK, FrameType
<1>3. u = [f EXCEPT !.idx = i]
  OBVIOUS
<1> HIDE DEF i
<1>4. u \in FrameType /\ Keeps(f, u) /\ Marks(f, u) /\ Answers(f, u) /\ u.idx = i /\ u.lev = f.lev /\ u.pc = f.pc /\ u.eo = f.eo
  BY ZenonT(30), <1>1, <1>2, <1>3 DEF FrameType, Keeps, Marks, Answers
<1>5. ListOf(u) = ListOf(f) /\ Size(u) = Size(f)
  BY <1>4 DEF ListOf, Size, Keeps
<1>6. FlushEnd(u, u.idx) = FlushEnd(f, i) /\ FlushEnd(f, i) \in Nat
  <2>1. FlushEnd(u, u.idx) = FlushEnd(f, i)
    BY <1>4, <1>5 DEF FlushEnd
  <2>2. FlushEnd(f, i) \in Nat
    BY <1>1, <1>2, FlushEnds
  <2> QED BY <2>1, <2>2
<1> DEFINE j == FlushEnd(u, u.idx)
           e == EOffset(u, m, 0, f.eo)
<1>7. EOffset(u, m, 0, f.eo) \in Ids /\ EOffset(u, m, 0, eoff) = e
  BY <1>0, <1>2, <1>4 DEF EOffset, Here, Ids
<1> HIDE DEF u, m, j, e
<1>8. Flush(u, u.idx) \in FrameType /\ Keeps(f, Flush(u, u.idx)) /\ Marks(f, Flush(u, u.idx)) /\ Answers(f, Flush(u, u.idx))
      /\ Flush(u, u.idx).pc = "for" /\ Flush(u, u.idx).idx = j /\ Flush(u, u.idx).lev = 0
  <2> DEFINE g == Flush(u, u.idx)
  <2>1. g = [u EXCEPT !.idx = j, !.lev = 0, !.pc = "for"]
    BY DEF Flush, j
  <2>2. j \in Nat /\ 0 \in Levs
    BY <1>6, MaxLevelAssumption DEF j, Levs
  <2> HIDE DEF g
  <2>3. g \in FrameType /\ Keeps(u, g) /\ Marks(u, g) /\ Answers(u, g) /\ g.pc = "for" /\ g.idx = j /\ g.lev = 0
    BY <1>4, <2>1, <2>2 DEF FrameType, Keeps, Marks, Answers, Levs
  <2>4. Keeps(f, g) /\ Marks(f, g) /\ Answers(f, g)
    BY <1>4, <2>3 DEF Keeps, Marks, Answers
  <2> QED BY <2>3, <2>4 DEF g
<1>9. CASE ~SizeUnknown(m, 0) /\ stack' = Replace([u EXCEPT !.pc = "top", !.eo = EOffset(u, m, 0, @)]) /\ SetOffset(u, m, 0)
  <2> DEFINE g == [u EXCEPT !.pc = "top", !.eo = e]
  <2>1. [u EXCEPT !.pc = "top", !.eo = EOffset(u, m, 0, @)] = g
    BY <1>4 DEF e
  <2>2. e \in Ids /\ eoff' = e
    BY <1>7, <1>9 DEF e, SetOffset
  <2>3. g \in FrameType /\ Keeps(u, g) /\ Marks(u, g) /\ Answers(u, g) /\ g.pc = "top" /\ g.idx = u.idx /\ g.lev = u.lev /\ g.eo = e
    BY <1>4, <2>2 DEF FrameType, Keeps, Marks, Answers
  <2>4. stack' = Replace(g)
    BY <1>9, <2>1
  <2> HIDE DEF g
  <2>5. Keeps(f, g) /\ Marks(f, g) /\ Answers(f, g)
    BY <1>4, <2>3 DEF Keeps, Marks, Answers
  <2>6. Continues(f, g)
    BY <1>0, <1>1, <2>3, <2>4, <2>5, Stacks DEF Continues
  <2> QED BY <1>0, <1>2, <1>4, <2>2, <2>3, <2>6 DEF f, i
<1>10. CASE stack' = Replace(Flush(u, u.idx)) /\ UNCHANGED eoff
  <2> DEFINE g == Flush(u, u.idx)
  <2> HIDE DEF g
  <2>1. Continues(f, g) /\ g.pc = "for" /\ g.lev = 0 /\ g.idx = FlushEnd(f, i)
    BY <1>0, <1>1, <1>6, <1>8, <1>10, Stacks DEF Continues, g, j
  <2>2. g \in FrameType
    BY <1>8 DEF g
  <2> QED BY <1>0, <1>1, <1>2, <1>10, <2>1, <2>2 DEF f, i
<1>11. CASE stack' = Replace(u) /\ flags.badsize /\ FromEnd(m, 0) /\ UNCHANGED eoff
  <2>1. Continues(f, u)
    BY <1>0, <1>1, <1>4, <1>11, Stacks DEF Continues
  <2>2. ListOf(f)[i].from = "end"
    BY <1>4, <1>5, <1>11 DEF FromEnd, m, Entry
  <2> QED BY <1>0, <1>1, <1>2, <1>4, <1>11, <2>1, <2>2 DEF f, i
<1> QED BY <1>9, <1>10, <1>11 DEF ForEntry, f, u, m

\* A continuation: above the level of the call, skipped with the rest, or next.
LEMMA WhileEntryDoes ==
    ASSUME Calls, WhileEntry
    PROVE  /\ Depth \in Nat /\ Depth > 0 /\ Top.pc = "while" /\ Top.idx + 1 \in 1..Size(Top)
           /\ ListOf(Top)[Top.idx + 1].lev \in 1..MaxLevel
           /\ \E g \in FrameType : /\ Continues(Top, g)
                 /\ \/ /\ g.pc = "while" /\ g.idx = Top.idx + 1 /\ g.lev = Top.lev /\ g.eo = Top.eo /\ eoff' = eoff
                       /\ Top.lev < ListOf(Top)[Top.idx + 1].lev
                    \/ g.pc = "for" /\ g.idx = FlushEnd(Top, Top.idx + 1) /\ g.lev = 0
                    \/ /\ g.pc \in {"while", "cont"} /\ g.idx = Top.idx + 1 /\ g.lev = ListOf(Top)[Top.idx + 1].lev
                       /\ ~(Top.lev < ListOf(Top)[Top.idx + 1].lev)
                       /\ Top.eo = eoff => g.eo = eoff'
           /\ eoff' \in Ids /\ UNCHANGED <<globals, li>>
<1> DEFINE f == Top
           i == f.idx + 1
           u == [f EXCEPT !.idx = @ + 1]
           m == Entry(u)
           l == m.lev
           v == [u EXCEPT !.lev = m.lev]
           h == [v EXCEPT !.eo = EOffset(u, m, m.lev, @)]
           e == EOffset(u, m, m.lev, f.eo)
           last == m.cond = "else" /\ li[m.lev].last
<1>0. Depth \in Nat /\ Depth > 0 /\ f.pc = "while" /\ MoreContinuations(f) /\ UNCHANGED <<globals, li>>
  BY Frames DEF WhileEntry
<1>1. f \in FrameType /\ FrameOK(f) /\ Size(f) \in Nat /\ eoff \in Ids /\ stack \in Seq(FrameType)
      /\ \A k \in 1..Size(f) : ListOf(f)[k].lev \in 0..MaxLevel
  BY <1>0, Frames DEF Top, Calls, TypeOK
<1> HIDE DEF f
<1>2. i \in 1..Size(f) /\ i \in Nat /\ f.idx \in Nat /\ f.lev \in Levs
  BY <1>0, <1>1 DEF FrameOK, FrameType, MoreContinuations, Levs
<1>3. u = [f EXCEPT !.idx = i]
  OBVIOUS
<1>3a. ListOf(f)[i].lev # 0
  BY <1>0 DEF MoreContinuations
<1> HIDE DEF i
<1>4. u \in FrameType /\ Keeps(f, u) /\ Marks(f, u) /\ Answers(f, u) /\ u.idx = i /\ u.lev = f.lev /\ u.pc = f.pc /\ u.eo = f.eo
  BY <1>1, <1>2, <1>3 DEF FrameType, Keeps, Marks, Answers
<1>5. ListOf(u) = ListOf(f) /\ Size(u) = Size(f)
  BY <1>4 DEF ListOf, Size, Keeps
<1>6. l = ListOf(f)[i].lev /\ l \in 1..MaxLevel /\ l \in Levs
  BY <1>1, <1>2, <1>3a, <1>4, <1>5, MaxLevelAssumption DEF Entry, Levs
<1>7. FlushEnd(u, u.idx) = FlushEnd(f, i) /\ FlushEnd(f, i) \in Nat
  <2>1. FlushEnd(u, u.idx) = FlushEnd(f, i)
    BY <1>4, <1>5 DEF FlushEnd
  <2>2. FlushEnd(f, i) \in Nat
    BY <1>1, <1>2, FlushEnds
  <2> QED BY <2>1, <2>2
<1>8. e \in Ids /\ (f.eo = eoff => EOffset(u, m, m.lev, eoff) = e) /\ EOffset(u, m, m.lev, eoff) \in Ids
  <2>1. f.eo \in Ids
    BY <1>1 DEF FrameType
  <2> QED BY <1>0, <1>1, <1>2, <1>4, <2>1 DEF EOffset, Here, Ids
<1> HIDE DEF u
<1>9. v \in FrameType /\ Keeps(f, v) /\ Marks(f, v) /\ Answers(f, v) /\ v.idx = i /\ v.lev = l /\ v.pc = f.pc /\ v.eo = f.eo
  <2>1. v = [u EXCEPT !.lev = l]
    OBVIOUS
  <2> HIDE DEF v, l
  <2>2. v \in FrameType /\ Keeps(u, v) /\ Marks(u, v) /\ Answers(u, v) /\ v.idx = u.idx /\ v.lev = l /\ v.pc = u.pc /\ v.eo = u.eo
    BY <1>4, <1>6, <2>1 DEF FrameType, Keeps, Marks, Answers, Levs
  <2> QED BY <1>4, <2>2 DEF Keeps, Marks, Answers
<1>10. h = [v EXCEPT !.eo = e]
  BY <1>4
<1> HIDE DEF v, e
<1>11. h \in FrameType /\ Keeps(v, h) /\ Marks(v, h) /\ Answers(v, h) /\ h.idx = v.idx /\ h.lev = v.lev /\ h.pc = v.pc /\ h.eo = e
  BY <1>8, <1>9, <1>10 DEF FrameType, Keeps, Marks, Answers
<1> HIDE DEF h
<1>12. CASE AboveLevel(u, m) /\ stack' = Replace(u) /\ UNCHANGED eoff
  <2>1. Continues(f, u)
    BY <1>0, <1>1, <1>4, <1>12, Stacks DEF Continues
  <2>2. f.lev < ListOf(f)[i].lev
    BY <1>4, <1>6, <1>12 DEF AboveLevel
  <2> QED BY <1>0, <1>1, <1>2, <1>4, <1>6, <1>12, <2>1, <2>2 DEF f, i
<1>13. CASE ~AboveLevel(u, m) /\ flags.badsize /\ stack' = Replace(v) /\ UNCHANGED eoff
  <2>1. Continues(f, v)
    BY <1>0, <1>1, <1>9, <1>13, Stacks DEF Continues
  <2>2. ~(f.lev < ListOf(f)[i].lev)
    BY <1>4, <1>6, <1>13 DEF AboveLevel
  <2> QED BY <1>0, <1>1, <1>2, <1>6, <1>9, <1>13, <2>1, <2>2 DEF f, i
<1>14. CASE stack' = Replace(Flush(u, u.idx)) /\ UNCHANGED eoff
  <2> DEFINE g == Flush(u, u.idx)
             j == FlushEnd(u, u.idx)
  <2>1. g = [u EXCEPT !.idx = j, !.lev = 0, !.pc = "for"]
    BY DEF Flush
  <2>2. j \in Nat /\ 0 \in Levs /\ j = FlushEnd(f, i)
    BY <1>7, MaxLevelAssumption DEF Levs
  <2> HIDE DEF g, j
  <2>3. g \in FrameType /\ Keeps(u, g) /\ Marks(u, g) /\ Answers(u, g) /\ g.pc = "for" /\ g.idx = j /\ g.lev = 0
    BY <1>4, <2>1, <2>2 DEF FrameType, Keeps, Marks, Answers, Levs
  <2>4. Keeps(f, g) /\ Marks(f, g) /\ Answers(f, g)
    BY <1>4, <2>3 DEF Keeps, Marks, Answers
  <2>5. Continues(f, g)
    BY <1>0, <1>1, <1>14, <2>3, <2>4, Stacks DEF Continues, g
  <2> QED BY <1>0, <1>1, <1>2, <1>6, <1>14, <2>2, <2>3, <2>5 DEF f, i
<1>15. CASE ~AboveLevel(u, m) /\ stack' = Replace(IF last THEN h ELSE [h EXCEPT !.pc = "cont"]) /\ SetOffset(u, m, m.lev)
  <2> DEFINE g == IF last THEN h ELSE [h EXCEPT !.pc = "cont"]
  <2>1. g \in FrameType /\ Keeps(h, g) /\ Marks(h, g) /\ Answers(h, g) /\ g.pc \in {"while", "cont"} /\ g.idx = h.idx
        /\ g.lev = h.lev /\ g.eo = h.eo
    <3> HIDE DEF last
    <3>1. CASE last
      BY <1>0, <1>9, <1>11, <3>1 DEF Keeps, Marks, Answers
    <3>2. CASE ~last
      BY <1>11, <3>2 DEF FrameType, Keeps, Marks, Answers
    <3> QED BY <3>1, <3>2
  <2>2. stack' = Replace(g)
    BY <1>15
  <2> HIDE DEF g
  <2>3. Keeps(f, g) /\ Marks(f, g) /\ Answers(f, g)
    BY <1>9, <1>11, <2>1 DEF Keeps, Marks, Answers
  <2>4. Continues(f, g)
    BY <1>0, <1>1, <2>1, <2>2, <2>3, Stacks DEF Continues
  <2>5. ~(f.lev < ListOf(f)[i].lev)
    BY <1>4, <1>6, <1>15 DEF AboveLevel
  <2>6. eoff' = EOffset(u, m, m.lev, eoff)
    BY <1>15 DEF SetOffset
  <2>7. eoff' \in Ids /\ (f.eo = eoff => g.eo = eoff')
    BY <1>8, <1>11, <2>1, <2>6 DEF e
  <2> QED BY <1>0, <1>1, <1>2, <1>6, <1>9, <1>11, <2>1, <2>4, <2>5, <2>7 DEF f, i
<1> QED
  <2>1. \/ AboveLevel(u, m) /\ stack' = Replace(u) /\ UNCHANGED eoff
        \/ ~AboveLevel(u, m) /\ stack' = Replace(IF flags.badsize THEN v ELSE Flush(u, u.idx)) /\ UNCHANGED eoff
        \/ ~AboveLevel(u, m) /\ stack' = Replace(IF last THEN h ELSE [h EXCEPT !.pc = "cont"]) /\ SetOffset(u, m, m.lev)
    BY Zenon DEF WhileEntry, f, u, v, h
  <2> HIDE DEF m, last
  <2> QED BY <1>12, <1>13, <1>14, <1>15, <2>1

\* A call at the end of its list returns what its tests made of its return value.
Ends(f, g) == Continues(f, g) /\ g.pc = "ret" /\ g.idx = f.idx /\ g.val \in {0, 1} /\ (g.val = 1 <=> f.ret)

\* Return() of the return value.
LEMMA EndIs ==
    ASSUME Calls, Depth > 0, stack' = Replace(Return(Top, IF Top.ret THEN 1 ELSE 0))
    PROVE  \E g \in FrameType : Ends(Top, g)
<1> DEFINE f == Top
           v == IF f.ret THEN 1 ELSE 0
           g == Return(f, v)
<1>1. f \in FrameType /\ Depth \in Nat /\ stack \in Seq(FrameType)
  BY Frames DEF Top, Calls, TypeOK
<1>2. v \in {0, 1} /\ (v = 1 <=> f.ret) /\ v \in 0..2
  OBVIOUS
<1> HIDE DEF f, v
<1>3. g \in FrameType /\ Keeps(f, g) /\ Marks(f, g) /\ Answers(f, g) /\ g.val = v /\ g.idx = f.idx /\ g.pc = "ret"
  BY <1>1, <1>2, ReturnIs
<1>4. stack' = Replace(g)
  BY DEF f, v
<1> HIDE DEF g
<1>5. Continues(f, g)
  BY <1>1, <1>3, <1>4, Stacks DEF Continues
<1> QED BY <1>2, <1>3, <1>5 DEF Ends, f

\* The end of the list.
LEMMA ForEndDoes ==
    ASSUME Calls, ForEnd
    PROVE  Depth > 0 /\ Top.pc = "for" /\ (\E g \in FrameType : Ends(Top, g)) /\ UNCHANGED <<globals, li, eoff>>
  BY EndIs DEF ForEnd

\* The end of the continuations.
LEMMA WhileEndDoes ==
    ASSUME Calls, WhileEnd
    PROVE  /\ Depth > 0 /\ Top.pc = "while" /\ ~MoreContinuations(Top)
           /\ UNCHANGED <<db, flags, li, eoff, indir, names, needsep, out, result>>
           /\ \/ /\ Top.found /\ ~flags.cont
                 /\ \E g \in FrameType : Ends(Top, g)
                 /\ first' = (first /\ ~printed) /\ UNCHANGED printed
              \/ /\ ~(Top.found /\ ~flags.cont)
                 /\ \E g \in FrameType : Continues(Top, g) /\ g.pc = "for" /\ g.lev = 0 /\ g.idx = Top.idx
                 /\ first' = (first /\ ~printed /\ ~Top.found) /\ printed' = (printed /\ ~Top.found)
<1>1. CASE Top.found /\ ~flags.cont
  BY <1>1, EndIs DEF WhileEnd
<1>2. CASE ~(Top.found /\ ~flags.cont)
  <2> DEFINE f == Top
             g == [f EXCEPT !.lev = 0, !.pc = "for"]
  <2>1. f \in FrameType /\ Depth \in Nat /\ stack \in Seq(FrameType) /\ Depth > 0
    BY Frames DEF Top, Calls, TypeOK, WhileEnd
  <2>2. stack' = Replace(g)
    BY <1>2 DEF WhileEnd
  <2> HIDE DEF f
  <2>3. 0 \in Levs
    BY MaxLevelAssumption DEF Levs
  <2>4. g \in FrameType /\ Keeps(f, g) /\ Marks(f, g) /\ Answers(f, g) /\ g.lev = 0 /\ g.idx = f.idx /\ g.pc = "for"
    BY <2>1, <2>3 DEF FrameType, Keeps, Marks, Answers, Levs
  <2> HIDE DEF g
  <2>5. Continues(f, g)
    BY <2>1, <2>2, <2>4, Stacks DEF Continues
  <2> QED BY <1>2, <2>4, <2>5 DEF WhileEnd, f
<1> QED BY <1>1, <1>2

\* A failed test.
LEMMA TestErrorDoes ==
    ASSUME Calls, TestError
    PROVE  /\ Depth > 0 /\ \E g \in FrameType : Continues(Top, g) /\ g.pc = "ret" /\ g.val = 2 /\ g.idx = Top.idx
           /\ UNCHANGED <<fixed, li, printed, needsep, first, out>>
<1> DEFINE f == Top
           g == Return(f, 2)
<1>1. f \in FrameType /\ Depth \in Nat /\ stack \in Seq(FrameType) /\ Depth > 0
  BY Frames DEF Top, Calls, TypeOK, TestError, AtTest
<1>2. stack' = Replace(g)
  BY DEF TestError
<1> HIDE DEF f
<1>3. g \in FrameType /\ Keeps(f, g) /\ Marks(f, g) /\ Answers(f, g) /\ g.val = 2 /\ g.idx = f.idx /\ g.pc = "ret"
  BY <1>1, ReturnIs
<1> HIDE DEF g
<1>4. Continues(f, g)
  BY <1>1, <1>2, <1>3, Stacks DEF Continues
<1> QED BY <1>1, <1>3, <1>4 DEF TestError, f

\* The calls that wait, and the last one at a test.
LEMMA AtTests ==
    ASSUME Calls, NEW d \in 1..Depth, stack[d].pc \in {"top", "cont"}
    PROVE  Tests(stack[d])
<1> DEFINE f == stack[d]
<1>1. f \in FrameType /\ FrameOK(f) /\ Size(f) \in Nat /\ \A i \in 1..Size(f) : ListOf(f)[i].lev \in 0..MaxLevel
  BY Frames
<1> HIDE DEF f
<1>2. f.pc \in {"top", "cont"}
  BY DEF f
<1>3. f.idx \in 1..Size(f)
  BY <1>1, <1>2 DEF FrameOK, FrameType
<1>4. f.lev = (IF f.pc = "top" THEN 0 ELSE Entry(f).lev)
  BY <1>1, <1>2 DEF FrameOK
<1>5. Entry(f).lev \in 0..MaxLevel
  BY <1>1, <1>3 DEF Entry
<1>6. f.lev \in 0..MaxLevel
  BY <1>4, <1>5, MaxLevelAssumption
<1> QED BY <1>1, <1>2, <1>3, <1>4, <1>6 DEF Tests, f

\* A test that does not match.
LEMMA TestMissDoes ==
    ASSUME Calls, TestMiss
    PROVE  /\ Depth > 0 /\ Tests(Top)
           /\ \E g \in FrameType : Becomes(Depth, g) /\ Missed(Top, g, li)
           /\ UNCHANGED <<fixed, printed, needsep, first, out>>
<1> DEFINE f == Top
<1>1. Depth \in Nat /\ Depth > 0 /\ stack \in Seq(FrameType) /\ f.pc \in {"top", "cont"} /\ li \in LevelType
  BY Frames DEF TestMiss, AtTest, Calls, TypeOK
<1>2. Tests(f)
  BY <1>1, AtTests DEF Top
<1>3. PICK mget \in BOOLEAN : Miss(Below, f, li, mget)
  BY DEF TestMiss
<1> HIDE DEF f
<1>4. PICK g \in FrameType : stack' = Append(Below, g) /\ Missed(f, g, li)
  BY <1>1, <1>2, <1>3, MissIs
<1>5. Becomes(Depth, g)
  BY <1>1, <1>4, Stacks
<1> QED BY <1>1, <1>2, <1>4, <1>5 DEF TestMiss, f

\* A test that does.
LEMMA TestHitDoes ==
    ASSUME Calls, TestHit
    PROVE  /\ Depth > 0 /\ Tests(Top) /\ (Entry(Top).type \in {"use", "indirect"} => Entry(Top).not)
           /\ \E g \in FrameType : /\ Becomes(Depth, g) /\ Matched(Top, g, li, Depth)
                                   /\ Says(Top, li, needsep, out \o NameText(Entry(Top)))
           /\ UNCHANGED fixed
<1> DEFINE f == Top
           b == Below
           o == out \o NameText(Entry(f))
<1>1. Depth \in Nat /\ Depth > 0 /\ stack \in Seq(FrameType) /\ f.pc \in {"top", "cont"} /\ li \in LevelType /\ needsep \in BOOLEAN /\ Booleans
  BY Frames DEF TestHit, AtTest, Calls, TypeOK, Booleans
<1>2. Tests(f)
  BY <1>1, AtTests DEF Top
<1>3. PICK inside \in BOOLEAN : Hit(b, f, li, needsep, o, inside)
  BY DEF TestHit
<1>4. Len(b) = Depth - 1
  BY <1>1, Belows
<1> HIDE DEF f, o, b
<1>5. PICK g \in FrameType : stack' = Append(b, g) /\ Matched(f, g, li, Len(b) + 1) /\ Says(f, li, needsep, o)
  BY <1>1, <1>2, <1>3, <1>4, HitIs
<1>6. Len(b) + 1 = Depth
  BY <1>1, <1>4
<1>7. Becomes(Depth, g)
  BY <1>1, <1>5, Stacks DEF b
<1>8. Matched(f, g, li, Depth)
  BY <1>5, <1>6
<1> QED BY <1>1, <1>2, <1>5, <1>7, <1>8 DEF TestHit, f, o

\* A new call of match().
Starts(g, name, call) ==
    /\ g \in FrameType /\ g.list = name /\ g.call = call /\ g.idx = 0 /\ g.lev = 0 /\ g.pc = "for"
    /\ ~g.found /\ g.val = 0 /\ g.hit = {} /\ g.deep = {} /\ ~g.mixed
    /\ g.li = li /\ g.eoff = eoff /\ (g.sep <=> needsep) /\ g.out = out

\* NewFrame() is such a call.
LEMMA NewFrameIs ==
    ASSUME li \in LevelType, eoff \in Ids, needsep \in BOOLEAN, out \in Seq(Tokens),
           NEW name \in ListNames, NEW call \in {"root", "use", "indirect"}, NEW ret \in BOOLEAN
    PROVE  Starts(NewFrame(name, call, ret), name, call) /\ NewFrame(name, call, ret).ret = ret
<1>1. 0 \in Levs /\ <<0, 0>> \in Ids
  BY MaxLevelAssumption DEF Levs, Ids
<1> QED BY <1>1 DEF NewFrame, Starts, FrameType, Levs

\* A use test calls match() for a named list.
LEMMA UseDoes ==
    ASSUME Calls, Use
    PROVE  /\ Depth > 0 /\ Tests(Top) /\ Entry(Top).type = "use" /\ ~OverLimit
           /\ \E g \in FrameType : /\ Becomes(Depth + 1, g) /\ Starts(g, Entry(Top).name, "use") /\ g.ret = Top.ret
           /\ Entry(Top).name \in DOMAIN db.named
           /\ (needsep' => needsep) /\ needsep' \in BOOLEAN /\ names' = names + 1 /\ li' = CheckMem(li, 0)
           /\ UNCHANGED <<db, flags, eoff, indir, printed, first, out, result>>
<1> DEFINE f == Top
           name == Entry(f).name
           call == "use"
           ret == f.ret
           g == NewFrame(name, call, ret)
<1>1. Depth \in Nat /\ Depth > 0 /\ stack \in Seq(FrameType) /\ f.pc \in {"top", "cont"} /\ li \in LevelType /\ needsep \in BOOLEAN
      /\ eoff \in Ids /\ out \in Seq(Tokens) /\ db \in DBs
  BY Frames DEF Use, AtTest, Calls, TypeOK
<1>2. Tests(f) /\ f.list \in DOMAIN db.named \cup {"root"}
  BY <1>1, AtTests, Frames DEF Top
<1>3. stack' = Append(stack, g) /\ name \in DOMAIN db.named /\ Entry(f).type = "use" /\ names' = names + 1 /\ li' = CheckMem(li, 0)
  BY DEF Use
<1>4. (needsep' => needsep) /\ needsep' \in BOOLEAN
  BY <1>1 DEF Use
<1> HIDE DEF f
<1>5. name \in ListNames /\ call \in {"root", "use", "indirect"} /\ ret \in BOOLEAN
  BY <1>1, <1>2, <1>3 DEF Tests, FrameType, ListNames
<1> HIDE DEF name, call, ret
<1>6. Starts(g, name, call) /\ g.ret = ret
  BY <1>1, <1>5, NewFrameIs
<1> HIDE DEF g
<1>7. Becomes(Depth + 1, g)
  BY <1>1, <1>3, <1>6, Stacks DEF Starts
<1>8. Starts(g, Entry(f).name, "use") /\ g.ret = f.ret /\ g \in FrameType
  BY <1>6 DEF name, call, ret, Starts
<1> QED BY <1>1, <1>2, <1>3, <1>4, <1>7, <1>8 DEF Use, f, name

\* An indirect test calls match() for the whole database.
LEMMA IndirectDoes ==
    ASSUME Calls, Indirect
    PROVE  /\ Depth > 0 /\ Tests(Top) /\ Entry(Top).type = "indirect" /\ ~OverLimit
           /\ \E f, g \in FrameType :
                 /\ stack' \in Seq(FrameType) /\ Len(stack') = Depth + 1 /\ stack'[Depth] = f /\ stack'[Depth + 1] = g
                 /\ \A d \in 1..(Depth - 1) : stack'[d] = stack[d]
                 /\ Keeps(Top, f) /\ Answers(Top, f) /\ f.hit = Top.hit /\ f.deep = Top.deep /\ f.mixed
                 /\ f.pc = Top.pc /\ f.idx = Top.idx /\ f.lev = Top.lev
                 /\ Starts(g, "root", "indirect") /\ ~g.ret
           /\ indir' = indir + 1 /\ li' = CheckMem(li, 0) /\ out' = << >>
           /\ UNCHANGED <<db, flags, eoff, names, printed, needsep, first, result>>
<1> DEFINE t == Top
           f == [t EXCEPT !.mixed = TRUE]
           ret == FALSE
           name == "root"
           call == "indirect"
           g == NewFrame(name, call, ret)
           s == Replace(f)
<1>1. Depth \in Nat /\ Depth > 0 /\ stack \in Seq(FrameType) /\ t.pc \in {"top", "cont"} /\ li \in LevelType /\ needsep \in BOOLEAN
      /\ eoff \in Ids /\ out \in Seq(Tokens)
  BY Frames DEF Indirect, AtTest, Calls, TypeOK
<1>2. Tests(t)
  BY <1>1, AtTests DEF Top
<1>3. stack' = Append(s, g)
  BY DEF Indirect
<1> HIDE DEF t
<1>4. f \in FrameType /\ Keeps(t, f) /\ Answers(t, f) /\ f.hit = t.hit /\ f.deep = t.deep /\ f.mixed
      /\ f.pc = t.pc /\ f.idx = t.idx /\ f.lev = t.lev
  BY <1>2 DEF Tests, FrameType, Keeps, Answers
<1>5. name \in ListNames /\ call \in {"root", "use", "indirect"} /\ ret \in BOOLEAN
  BY DEF ListNames
<1> HIDE DEF f
<1>6. s \in Seq(FrameType) /\ Len(s) = Depth /\ s[Depth] = f /\ \A d \in 1..(Depth - 1) : s[d] = stack[d]
  BY <1>1, <1>4 DEF Replace, Depth
<1> HIDE DEF s, name, call, ret
<1>7. Starts(g, name, call) /\ g.ret = ret
  BY <1>1, <1>5, NewFrameIs
<1> HIDE DEF g
<1>8. g \in FrameType
  BY <1>7 DEF Starts
<1>9. stack' \in Seq(FrameType) /\ Len(stack') = Depth + 1 /\ stack'[Depth + 1] = g /\ stack'[Depth] = f
      /\ \A d \in 1..(Depth - 1) : stack'[d] = stack[d]
  BY <1>1, <1>3, <1>6, <1>8
<1>10. Starts(g, "root", "indirect") /\ ~g.ret
  BY <1>7 DEF name, call, ret
<1>11. /\ Depth > 0 /\ Entry(Top).type = "indirect" /\ ~OverLimit
       /\ indir' = indir + 1 /\ li' = CheckMem(li, 0) /\ out' = << >>
       /\ UNCHANGED <<db, flags, eoff, names, printed, needsep, first, result>>
  BY <1>1 DEF Indirect
<1> QED BY <1>2, <1>4, <1>8, <1>9, <1>10, <1>11 DEF t

\* The caller of the last call, with what it has been told.
Told(f, ret, found) ==
    /\ f \in FrameType /\ Keeps(Caller, f) /\ Marks(Caller, f) /\ f.eo = Caller.eo
    /\ f.pc = Caller.pc /\ f.idx = Caller.idx /\ f.lev = Caller.lev
    /\ (f.ret <=> ret) /\ (f.found <=> found) /\ Tests(f)
Fails(f, g) == g \in FrameType /\ Keeps(f, g) /\ Marks(f, g) /\ Answers(f, g) /\ g.pc = "ret" /\ g.val = 2 /\ g.idx = f.idx

\* There is a caller, at the test that made the call.
LEMMA CallerWaits ==
    ASSUME Calls, Depth > 0, Top.call # "root"
    PROVE  /\ Depth \in Nat /\ Depth > 1 /\ Caller \in FrameType /\ Caller.pc \in {"top", "cont"} /\ Tests(Caller)
           /\ Entry(Caller).type = Top.call /\ Top \in FrameType /\ Caller.list \in DOMAIN db.named \cup {"root"}
<1>1. Depth \in Nat /\ Top \in FrameType
  BY Frames DEF Top
<1>2. Depth > 1
  BY <1>1 DEF Calls, Waiting, Top
<1> DEFINE d == Depth - 1
<1>3. d \in 1..Depth /\ d \in 1..(Depth - 1) /\ d + 1 = Depth
  BY <1>1, <1>2
<1> HIDE DEF d
<1>4. stack[d].pc \in {"top", "cont"} /\ Entry(stack[d]).type = stack[d + 1].call
  BY <1>3 DEF Calls, Waiting
<1>5. Tests(stack[d]) /\ stack[d] \in FrameType /\ stack[d].list \in DOMAIN db.named \cup {"root"}
  BY <1>3, <1>4, AtTests, Frames
<1>6. Caller = stack[d] /\ Top = stack[d + 1]
  BY <1>3 DEF Caller, Top, d
<1> QED BY <1>1, <1>2, <1>4, <1>5, <1>6

\* What a call of a named list returns to its caller.
LEMMA UseReturnDoes ==
    ASSUME Calls, UseReturn
    PROVE  /\ Depth > 1 /\ Top.pc = "ret" /\ Top.call = "use"
           /\ names' = names - 1 /\ eoff' = Top.eoff /\ UNCHANGED <<db, flags, indir, result>>
           /\ \E s \in BOOLEAN : /\ s <=> (IF Top.val = 1 THEN needsep ELSE Top.sep)
                 /\ \E f, g \in FrameType : /\ Told(f, Top.ret, Caller.found \/ Top.found) /\ Becomes(Depth - 1, g)
                       /\ \/ /\ Top.val = 2 /\ Fails(f, g) /\ li' = Top.li
                             /\ needsep' = s /\ UNCHANGED <<printed, first, out>>
                          \/ /\ Top.val # 2 /\ Matched(f, g, Top.li, Depth - 1) /\ Says(f, Top.li, s, out)
                             /\ Top.found \/ Entry(f).not
                          \/ /\ Top.val # 2 /\ Missed(f, g, Top.li)
                             /\ needsep' = s /\ UNCHANGED <<printed, first, out>>
<1> DEFINE t == Top
           k == Caller
           b == BelowCaller
           s == IF t.val = 1 THEN needsep ELSE t.sep
           f == [k EXCEPT !.ret = t.ret, !.found = @ \/ t.found]
           c == t.li
           got == t.val = 1 \/ f.found
           hit == (got /\ t.found) \/ (~got /\ Entry(f).not)
<1>1. t.pc = "ret" /\ t.call = "use" /\ Depth > 0 /\ names' = names - 1 /\ eoff' = t.eoff /\ UNCHANGED <<db, flags, indir, result>>
  BY DEF UseReturn, Returned
<1>2. /\ Depth \in Nat /\ Depth > 1 /\ k \in FrameType /\ k.pc \in {"top", "cont"} /\ Tests(k) /\ t \in FrameType
  BY <1>1, CallerWaits
<1>3. needsep \in BOOLEAN /\ stack \in Seq(FrameType) /\ Booleans
  BY DEF Calls, TypeOK, Booleans
<1>4. /\ t.val = 2 => /\ stack' = Append(b, Return(f, 2)) /\ li' = c /\ needsep' = s /\ UNCHANGED <<printed, first, out>>
      /\ t.val # 2 /\ hit => \E inside \in BOOLEAN : Hit(b, f, c, s, out, inside)
      /\ t.val # 2 /\ ~hit => Miss(b, f, c, ~got) /\ needsep' = s /\ UNCHANGED <<printed, first, out>>
  BY Zenon DEF UseReturn, Restored
<1> HIDE DEF t, k
<1>5. s \in BOOLEAN /\ (s <=> (IF t.val = 1 THEN needsep ELSE t.sep))
  BY <1>2, <1>3 DEF FrameType
<1> DEFINE x == k.found \/ t.found
           y == t.ret
<1>6. f = [k EXCEPT !.ret = y, !.found = x] /\ x \in BOOLEAN /\ y \in BOOLEAN
  BY <1>2 DEF FrameType
<1> HIDE DEF f, s, x, y
<1>7. f \in FrameType /\ Keeps(k, f) /\ Marks(k, f) /\ f.eo = k.eo /\ f.pc = k.pc /\ f.idx = k.idx /\ f.lev = k.lev
      /\ f.ret = y /\ f.found = x
  BY <1>2, <1>6 DEF FrameType, Keeps, Marks
<1>8. Tests(f)
  BY <1>2, <1>7 DEF Tests, Size, ListOf, Entry, Keeps
<1>9. Told(f, t.ret, k.found \/ t.found)
  <2>1. (f.ret <=> t.ret) /\ (f.found <=> (k.found \/ t.found))
    BY <1>7 DEF x, y
  <2> QED BY <1>7, <1>8, <2>1 DEF Told, k
<1>10. c \in LevelType
  BY <1>2 DEF FrameType
<1>11. Len(b) = Depth - 2 /\ Len(b) \in Nat /\ Len(b) + 1 = Depth - 1
  BY <1>2, <1>3, Belows
<1> HIDE DEF c, b
<1>12. CASE t.val = 2
  <2> DEFINE g == Return(f, 2)
  <2>1. Fails(f, g)
    BY <1>7, ReturnIs DEF Fails
  <2>2. stack' = Append(b, g) /\ li' = c /\ needsep' = s /\ UNCHANGED <<printed, first, out>>
    BY <1>4, <1>12
  <2> HIDE DEF g
  <2>3. g \in FrameType /\ Becomes(Depth - 1, g)
    BY <1>2, <1>3, <2>1, <2>2, Stacks DEF Fails, b
  <2> QED BY <1>1, <1>2, <1>5, <1>7, <1>9, <1>12, <2>1, <2>2, <2>3 DEF t, k, c
<1>13. CASE t.val # 2 /\ hit
  <2>1. PICK inside \in BOOLEAN : Hit(b, f, c, s, out, inside)
    BY <1>4, <1>13
  <2>2. PICK g \in FrameType : stack' = Append(b, g) /\ Matched(f, g, c, Len(b) + 1) /\ Says(f, c, s, out)
    BY <1>3, <1>5, <1>8, <1>10, <1>11, <2>1, HitIs
  <2>3. Matched(f, g, c, Depth - 1)
    BY <1>11, <2>2
  <2>4. Becomes(Depth - 1, g)
    BY <1>2, <1>3, <2>2, Stacks DEF b
  <2>5. t.found \/ Entry(f).not
    BY <1>13
  <2> QED BY <1>1, <1>2, <1>5, <1>7, <1>9, <1>13, <2>2, <2>3, <2>4, <2>5 DEF t, k, c
<1>14. CASE t.val # 2 /\ ~hit
  <2> DEFINE mget == ~got
  <2>1. Miss(b, f, c, mget) /\ needsep' = s /\ UNCHANGED <<printed, first, out>>
    BY <1>4, <1>14
  <2>2. mget \in BOOLEAN
    OBVIOUS
  <2> HIDE DEF mget
  <2>3. PICK g \in FrameType : stack' = Append(b, g) /\ Missed(f, g, c)
    BY <1>8, <1>10, <2>1, <2>2, MissIs
  <2>4. Becomes(Depth - 1, g)
    BY <1>2, <1>3, <2>3, Stacks DEF b
  <2> QED BY <1>1, <1>2, <1>5, <1>7, <1>9, <1>14, <2>1, <2>3, <2>4 DEF t, k, c
<1> QED BY <1>12, <1>13, <1>14

\* What an indirect call returns to its caller.
LEMMA IndirectReturnDoes ==
    ASSUME Calls, IndirectReturn
    PROVE  /\ Depth > 1 /\ Top.pc = "ret" /\ Top.call = "indirect"
           /\ UNCHANGED <<db, flags, eoff, indir, names, result>>
           /\ \E f, g \in FrameType : /\ Becomes(Depth - 1, g)
                 /\ \/ /\ Top.val = 2 /\ Told(f, Caller.ret, Caller.found) /\ Fails(f, g)
                       /\ UNCHANGED <<li, printed, needsep, first, out>>
                    \/ /\ Top.val = 1 /\ Told(f, TRUE, TRUE) /\ Matched(f, g, li, Depth - 1)
                       /\ Says(f, li, needsep, Top.out \o (IF Entry(f).desc /\ ~flags.mime THEN << "nospace" >> ELSE << >>) \o out)
                    \/ /\ Top.val = 0 /\ Told(f, Caller.ret, Caller.found) /\ Entry(f).not /\ Matched(f, g, li, Depth - 1)
                       /\ Says(f, li, needsep, Top.out)
                    \/ /\ Top.val = 0 /\ Told(f, Caller.ret, Caller.found) /\ Missed(f, g, li)
                       /\ out' = Top.out /\ UNCHANGED <<printed, needsep, first>>
<1> DEFINE t == Top
           k == Caller
           b == BelowCaller
           text == IF Entry(k).desc /\ ~flags.mime THEN << "nospace" >> ELSE << >>
           f == [k EXCEPT !.found = TRUE, !.ret = TRUE]
           o == t.out \o text \o out
<1>1. t.pc = "ret" /\ t.call = "indirect" /\ Depth > 0 /\ UNCHANGED <<db, flags, eoff, indir, names, result>>
  BY DEF IndirectReturn, Returned
<1>2. /\ Depth \in Nat /\ Depth > 1 /\ k \in FrameType /\ k.pc \in {"top", "cont"} /\ Tests(k) /\ t \in FrameType
  BY <1>1, CallerWaits
<1>3. needsep \in BOOLEAN /\ stack \in Seq(FrameType) /\ li \in LevelType /\ Booleans
  BY DEF Calls, TypeOK, Booleans
<1>4. \/ t.val = 2 /\ stack' = Append(b, Return(k, 2)) /\ UNCHANGED <<li, printed, needsep, first, out>>
      \/ t.val = 1 /\ \E inside \in BOOLEAN : Hit(b, f, li, needsep, o, inside)
      \/ t.val = 0 /\ Entry(k).not /\ \E inside \in BOOLEAN : Hit(b, k, li, needsep, t.out, inside)
      \/ t.val = 0 /\ Miss(b, k, li, TRUE) /\ out' = t.out /\ UNCHANGED <<printed, needsep, first>>
  BY Zenon DEF IndirectReturn
<1> HIDE DEF t, k
<1>5. Told(k, k.ret, k.found)
  BY <1>2 DEF Told, Keeps, Marks, k
<1>6. f \in FrameType /\ Keeps(k, f) /\ Marks(k, f) /\ f.eo = k.eo /\ f.pc = k.pc /\ f.idx = k.idx /\ f.lev = k.lev
      /\ f.ret /\ f.found
  BY <1>2 DEF FrameType, Keeps, Marks
<1> HIDE DEF f
<1>7. Tests(f) /\ Entry(f) = Entry(k)
  BY <1>2, <1>6 DEF Tests, Size, ListOf, Entry, Keeps
<1>8. Told(f, TRUE, TRUE)
  BY <1>6, <1>7 DEF Told, k
<1>9. Len(b) = Depth - 2 /\ Len(b) \in Nat /\ Len(b) + 1 = Depth - 1
  BY <1>2, <1>3, Belows
<1>10. o = t.out \o (IF Entry(f).desc /\ ~flags.mime THEN << "nospace" >> ELSE << >>) \o out
  BY <1>7
<1> HIDE DEF b, o
<1>11. CASE t.val = 2 /\ stack' = Append(b, Return(k, 2)) /\ UNCHANGED <<li, printed, needsep, first, out>>
  <2> DEFINE g == Return(k, 2)
  <2>1. Fails(k, g)
    BY <1>2, ReturnIs DEF Fails
  <2>2. stack' = Append(b, g)
    BY <1>11
  <2> HIDE DEF g
  <2>3. g \in FrameType /\ Becomes(Depth - 1, g)
    BY <1>2, <1>3, <2>1, <2>2, Stacks DEF Fails, b
  <2> QED BY <1>1, <1>2, <1>5, <1>11, <2>1, <2>3 DEF t, k
<1>12. CASE t.val = 1 /\ \E inside \in BOOLEAN : Hit(b, f, li, needsep, o, inside)
  <2>1. PICK inside \in BOOLEAN : Hit(b, f, li, needsep, o, inside)
    BY <1>12
  <2>2. PICK g \in FrameType : stack' = Append(b, g) /\ Matched(f, g, li, Len(b) + 1) /\ Says(f, li, needsep, o)
    BY <1>3, <1>7, <1>9, <2>1, HitIs
  <2>3. Matched(f, g, li, Depth - 1)
    BY <1>9, <2>2
  <2>4. Becomes(Depth - 1, g)
    BY <1>2, <1>3, <2>2, Stacks DEF b
  <2>5. Says(f, li, needsep, t.out \o (IF Entry(f).desc /\ ~flags.mime THEN << "nospace" >> ELSE << >>) \o out)
    BY <1>10, <2>2
  <2> QED BY <1>1, <1>2, <1>6, <1>8, <1>12, <2>2, <2>3, <2>4, <2>5 DEF t
<1>13. CASE t.val = 0 /\ Entry(k).not /\ \E inside \in BOOLEAN : Hit(b, k, li, needsep, t.out, inside)
  <2>1. PICK inside \in BOOLEAN : Hit(b, k, li, needsep, t.out, inside)
    BY <1>13
  <2> DEFINE w == t.out
  <2> HIDE DEF w
  <2>2. PICK g \in FrameType : stack' = Append(b, g) /\ Matched(k, g, li, Len(b) + 1) /\ Says(k, li, needsep, w)
    BY <1>2, <1>3, <1>9, <2>1, HitIs DEF w
  <2>3. Matched(k, g, li, Depth - 1)
    BY <1>9, <2>2
  <2>4. Becomes(Depth - 1, g)
    BY <1>2, <1>3, <2>2, Stacks DEF b
  <2> QED BY <1>1, <1>2, <1>5, <1>13, <2>2, <2>3, <2>4 DEF t, k, w
<1>14. CASE t.val = 0 /\ Miss(b, k, li, TRUE) /\ out' = t.out /\ UNCHANGED <<printed, needsep, first>>
  <2> DEFINE mget == TRUE
  <2>1. Miss(b, k, li, mget) /\ mget \in BOOLEAN
    BY <1>14
  <2> HIDE DEF mget
  <2>2. PICK g \in FrameType : stack' = Append(b, g) /\ Missed(k, g, li)
    BY <1>2, <1>3, <2>1, MissIs
  <2>3. Becomes(Depth - 1, g)
    BY <1>2, <1>3, <2>2, Stacks DEF b
  <2> QED BY <1>1, <1>2, <1>5, <1>14, <2>2, <2>3 DEF t, k
<1> QED BY <1>4, <1>11, <1>12, <1>13, <1>14

-----------------------------------------------------------------------------
(* Type correctness.                                                       *)

\* A call whose list is that of another is well placed when these hold.
LEMMA Placed ==
    ASSUME NEW f \in FrameType, NEW g \in FrameType, Keeps(f, g), f.list \in DOMAIN db.named \cup {"root"},
           g.idx <= Size(f), g.pc = "for" => g.lev = 0,
           g.pc \in {"top", "cont"} => g.idx > 0 /\ g.lev = (IF g.pc = "top" THEN 0 ELSE ListOf(f)[g.idx].lev),
           g.deep \subseteq g.hit, g.hit \subseteq 1..g.idx
    PROVE  FrameOK(g)
<1>1. ListOf(g) = ListOf(f) /\ Size(g) = Size(f) /\ g.list = f.list
  BY DEF Keeps, ListOf, Size
<1> QED BY <1>1 DEF FrameOK, Entry

\* The rest of the invariant, when a call goes on or returns to its caller.
LEMMA CallsStep ==
    ASSUME Calls, NEW n \in {Depth, Depth - 1}, n > 0, NEW g \in FrameType, Becomes(n, g), FrameOK(g), g.call = stack[n].call,
           UNCHANGED <<db, flags, result>>, li' \in LevelType, eoff' \in Ids, out' \in Seq(Tokens), Booleans'
    PROVE  Calls'
<1>0. Depth \in Nat /\ n \in 1..Depth /\ Depth' = n
  BY Frames DEF Becomes, Depth
<1>1. \A d \in 1..n : (d < n => stack'[d] = stack[d]) /\ (d = n => stack'[d] = g)
  BY <1>0 DEF Becomes
<1>2. ASSUME NEW d \in 1..n PROVE FrameOK(stack[d])'
  <2> DEFINE h == stack'[d]
  <2>1. FrameOK(h)
    BY <1>0, <1>1, Frames
  <2>2. FrameOK(stack[d])' <=> FrameOK(h)
    BY DEF FrameOK, Size, Entry, ListOf
  <2> QED BY <2>1, <2>2
<1>3. TypeOK'
  BY <1>0, <1>2 DEF Calls, TypeOK, Becomes, Booleans
<1>4. result = "none" /\ result' = "none"
  BY <1>0 DEF Calls, Waiting, TypeOK, Depth
<1>5. \A d \in 1..n : (stack'[d].call = "root") <=> d = 1
  BY <1>0, <1>1 DEF Calls, Waiting
<1>6. ASSUME NEW d \in 1..(n - 1) PROVE stack'[d].pc \in {"top", "cont"} /\ Entry(stack[d])'.type = stack'[d+1].call
  <2>1. d \in 1..n /\ d + 1 \in 1..n /\ d < n /\ d \in 1..(Depth - 1)
    BY <1>0
  <2>2. stack'[d] = stack[d] /\ stack'[d+1].call = stack[d+1].call
    BY <1>0, <1>1, <2>1
  <2>3. Entry(stack[d])' = Entry(stack[d])
    BY <2>2 DEF Entry, ListOf
  <2>4. stack[d].pc \in {"top", "cont"} /\ Entry(stack[d]).type = stack[d+1].call
    BY <2>1 DEF Calls, Waiting
  <2> QED BY <2>2, <2>3, <2>4
<1>7. Waiting'
  BY <1>0, <1>4, <1>5, <1>6 DEF Waiting
<1> QED BY <1>3, <1>7 DEF Calls

\* A call about to test its entry, and well placed.
Fit(f) == Tests(f) /\ f.list \in DOMAIN db.named \cup {"root"} /\ f.deep \subseteq f.hit /\ f.hit \subseteq 1..f.idx

\* What a test does to a call leaves it well placed.
LEMMA TestedOK ==
    ASSUME NEW f \in FrameType, NEW g \in FrameType, NEW c, NEW d, Fit(f), Missed(f, g, c) \/ Matched(f, g, c, d) \/ Fails(f, g)
    PROVE  FrameOK(g) /\ g.call = f.call
<1> DEFINE e == FlushEnd(f, f.idx)
<1>0. /\ f \in FrameType /\ Size(f) \in Nat /\ f.idx \in 1..Size(f) /\ f.deep \subseteq f.hit /\ f.hit \subseteq 1..f.idx
      /\ f.list \in DOMAIN db.named \cup {"root"}
  BY DEF Fit, Tests
<1>1. e \in f.idx..Size(f)
  BY <1>0, FlushEnds
<1>2. f.idx \in Nat /\ f.idx > 0
  BY <1>0
<1> HIDE DEF e
<1>3. Keeps(f, g)
  BY DEF Missed, Matched, Fails
<1>4. /\ g.idx \in {f.idx, e} /\ (g.pc = "for" => g.lev = 0) /\ g.pc \notin {"top", "cont"}
  BY DEF Missed, Matched, Fails, Late, Annotated, Described, Entering, Leaving, e
<1>5. /\ g.hit \subseteq f.hit \cup {f.idx} /\ g.deep \subseteq g.hit
  <2>1. CASE Missed(f, g, c) \/ Fails(f, g)
    BY <1>0, <2>1 DEF Missed, Fails, Marks
  <2>2. CASE Matched(f, g, c, d)
    BY <1>0, <2>2 DEF Matched, Late, Annotated, Described, Entering, Leaving, Marks
  <2> QED BY <2>1, <2>2
<1>6. g.idx <= Size(f) /\ g.hit \subseteq 1..g.idx
  BY <1>0, <1>1, <1>2, <1>4, <1>5
<1>7. FrameOK(g)
  BY <1>0, <1>3, <1>4, <1>5, <1>6, Placed
<1> QED BY <1>3, <1>7 DEF Keeps

\* A call at a test is fit, and so is a caller that has been told something.
LEMMA AreFit ==
    ASSUME Calls
    PROVE  /\ Depth > 0 /\ Tests(Top) => Fit(Top)
           /\ Depth > 1 => \A f \in FrameType : \A r, x : Told(f, r, x) => Fit(f) /\ f.call = stack[Depth - 1].call
<1>1. ASSUME NEW d \in 1..Depth PROVE /\ stack[d].list \in DOMAIN db.named \cup {"root"}
                                      /\ stack[d].deep \subseteq stack[d].hit /\ stack[d].hit \subseteq 1..stack[d].idx
  BY Frames DEF FrameOK
<1>2. Depth \in Nat
  BY Frames
<1>3. Depth > 0 /\ Tests(Top) => Fit(Top)
  BY <1>1, <1>2 DEF Fit, Top
<1>4. ASSUME Depth > 1, NEW f \in FrameType, NEW r, NEW x, Told(f, r, x) PROVE Fit(f) /\ f.call = stack[Depth - 1].call
  <2> DEFINE k == stack[Depth - 1]
  <2>1. /\ k.list \in DOMAIN db.named \cup {"root"} /\ k.deep \subseteq k.hit /\ k.hit \subseteq 1..k.idx
    BY <1>1, <1>2, <1>4
  <2> HIDE DEF k
  <2>2. Keeps(k, f) /\ Marks(k, f) /\ f.idx = k.idx /\ Tests(f)
    BY <1>4 DEF Told, k, Caller
  <2> QED BY <2>1, <2>2 DEF Fit, Keeps, Marks, k
<1> QED BY <1>3, <1>4

\* What is printed is made of tokens.
LEMMA SaysTokens ==
    ASSUME NEW f, NEW c, NEW s, NEW o \in Seq(Tokens), Says(f, c, s, o)
    PROVE  out' \in Seq(Tokens)
<1> DEFINE a == IF ~first /\ ~flags.cont THEN << >> ELSE Sep(first) \o << "mime" >>
           b == PrintDesc(f, Entry(f), s)
<1>0. << >> \in Seq(Tokens) /\ << "sep" >> \in Seq(Tokens) /\ << "space" >> \in Seq(Tokens)
      /\ << "desc" >> \in Seq(Tokens) /\ << "nospace" >> \in Seq(Tokens)
  BY DEF Tokens
<1>1. Sep(first) \in Seq(Tokens)
  BY <1>0 DEF Sep
<1>2. a \in Seq(Tokens)
  <2>1. << "mime" >> \in Seq(Tokens) /\ << >> \in Seq(Tokens)
    BY DEF Tokens
  <2> DEFINE p == Sep(first)
             r == << "mime" >>
  <2> HIDE DEF p, r
  <2>2. p \o r \in Seq(Tokens)
    BY <1>1, <2>1 DEF p, r
  <2> QED BY <2>1, <2>2 DEF p, r
<1>3. b \in Seq(Tokens)
  <2> DEFINE m == Entry(f)
             x == DescToken(m)
             y == IF s /\ ~m.nospace THEN << "space" >> ELSE << >>
             z == IF printed THEN << >> ELSE Sep(first)
             w == Sep(first)
  <2>1. x \in Seq(Tokens) /\ y \in Seq(Tokens)
    BY <1>0 DEF DescToken
  <2>2. z \in Seq(Tokens) /\ w \in Seq(Tokens)
    BY <1>1
  <2>3. b = (IF f.pc = "top" THEN w \o x ELSE z \o y \o x)
    BY DEF PrintDesc
  <2> HIDE DEF x, y, z, w, b
  <2>4. w \o x \in Seq(Tokens) /\ z \o y \o x \in Seq(Tokens)
    BY <2>1, <2>2
  <2> QED BY <2>3, <2>4
<1>4. out' = o \/ out' = o \o a \/ out' = o \o b
  BY DEF Says, Prints
<1> HIDE DEF a, b
<1>5. o \o a \in Seq(Tokens) /\ o \o b \in Seq(Tokens)
  BY <1>2, <1>3
<1> QED BY <1>4, <1>5

\* The last call goes on at another place.
LEMMA CallsContinue ==
    ASSUME Calls, Depth > 0, NEW g \in FrameType, Continues(Top, g), g.idx \in Top.idx..Size(Top), g.pc = "for" => g.lev = 0,
           g.pc \in {"top", "cont"} => g.idx > 0 /\ g.lev = (IF g.pc = "top" THEN 0 ELSE ListOf(Top)[g.idx].lev),
           UNCHANGED <<db, flags, li, out, result>>, eoff' \in Ids, Booleans'
    PROVE  Calls'
<1> DEFINE f == Top
<1>1. Depth \in Nat /\ f \in FrameType /\ f.list \in DOMAIN db.named \cup {"root"} /\ f.deep \subseteq f.hit /\ f.hit \subseteq 1..f.idx
      /\ li \in LevelType /\ out \in Seq(Tokens) /\ f = stack[Depth] /\ Size(f) \in Nat
  BY Frames DEF Top, FrameOK
<1>2. Keeps(f, g) /\ Marks(f, g) /\ Becomes(Depth, g) /\ f.idx \in Nat
  BY <1>1 DEF Continues, FrameType
<1>3. g.idx <= Size(f) /\ g.deep \subseteq g.hit /\ g.hit \subseteq 1..g.idx
  BY <1>1, <1>2 DEF Marks
<1> HIDE DEF f
<1>4. FrameOK(g)
  BY <1>1, <1>2, <1>3, Placed DEF f
<1> QED BY <1>1, <1>2, <1>4, CallsStep DEF Keeps

\* A test has been run by the n-th call.
LEMMA CallsTested ==
    ASSUME Calls, NEW n \in {Depth, Depth - 1}, n > 0, NEW f \in FrameType, NEW g \in FrameType, NEW c, NEW d,
           Becomes(n, g), Fit(f), f.call = stack[n].call,
           Missed(f, g, c) \/ Matched(f, g, c, d) \/ Fails(f, g),
           UNCHANGED <<db, flags, result>>, li' \in LevelType, eoff' \in Ids, out' \in Seq(Tokens), Booleans'
    PROVE  Calls'
<1>1. FrameOK(g) /\ g.call = f.call
  BY TestedOK
<1> QED BY <1>1, CallsStep

\* A new call is well placed too.
LEMMA CallsStart ==
    ASSUME Calls, Depth > 0, NEW f \in FrameType, NEW g \in FrameType, NEW name \in DOMAIN db.named \cup {"root"}, NEW call \in {"use", "indirect"},
           stack' \in Seq(FrameType), Len(stack') = Depth + 1, stack'[Depth] = f, stack'[Depth + 1] = g,
           \A d \in 1..(Depth - 1) : stack'[d] = stack[d],
           Keeps(Top, f), f.hit = Top.hit, f.deep = Top.deep, f.pc = Top.pc, f.idx = Top.idx, f.lev = Top.lev,
           Starts(g, name, call), Tests(Top), Entry(Top).type = call,
           UNCHANGED <<db, flags, result>>, li' \in LevelType, eoff' \in Ids, out' \in Seq(Tokens), Booleans'
    PROVE  Calls'
<1>0. Depth \in Nat /\ Depth' = Depth + 1 /\ db \in DBs
  BY Frames DEF Depth
<1> DEFINE t == Top
<1>1. t = stack[Depth] /\ FrameOK(t) /\ t \in FrameType
  BY <1>0, Frames DEF Top
<1> HIDE DEF t
<1>2. ListOf(f) = ListOf(t) /\ Size(f) = Size(t) /\ Entry(f) = Entry(t)
  BY DEF Keeps, ListOf, Size, Entry, t
<1>3. FrameOK(f)
  BY <1>1, <1>2 DEF FrameOK, Keeps, t
<1>4. FrameOK(g)
  <2>1. g.list \in DOMAIN db.named \cup {"root"} /\ g.idx = 0 /\ g.pc = "for" /\ g.lev = 0 /\ g.hit = {} /\ g.deep = {}
    BY DEF Starts
  <2>2. Size(g) \in Nat
    BY <1>0, <2>1, Lists
  <2> QED BY <2>1, <2>2 DEF FrameOK
<1>5. \A d \in 1..(Depth + 1) : (d < Depth => stack'[d] = stack[d]) /\ (d = Depth => stack'[d] = f) /\ (d = Depth + 1 => stack'[d] = g)
  BY <1>0
<1>6. ASSUME NEW d \in 1..(Depth + 1) PROVE FrameOK(stack[d])'
  <2> DEFINE h == stack'[d]
  <2>1. FrameOK(h)
    BY <1>0, <1>3, <1>4, <1>5, Frames
  <2>2. FrameOK(stack[d])' <=> FrameOK(h)
    BY DEF FrameOK, Size, Entry, ListOf
  <2> QED BY <2>1, <2>2
<1>7. TypeOK'
  BY <1>0, <1>6 DEF Calls, TypeOK, Booleans
<1>8. result = "none" /\ result' = "none"
  BY <1>0 DEF Calls, Waiting, TypeOK, Depth
<1>9. f.call = t.call /\ g.call = call /\ f.pc \in {"top", "cont"}
  BY DEF Keeps, Starts, Tests, t
<1>10. \A d \in 1..(Depth + 1) : (stack'[d].call = "root") <=> d = 1
  BY <1>0, <1>1, <1>5, <1>9 DEF Calls, Waiting
<1>11. ASSUME NEW d \in 1..Depth PROVE stack'[d].pc \in {"top", "cont"} /\ Entry(stack[d])'.type = stack'[d+1].call
  <2>1. CASE d < Depth
    <3>1. d \in 1..(Depth - 1) /\ d + 1 \in 1..Depth
      BY <1>0, <2>1
    <3>2. stack'[d] = stack[d] /\ stack'[d+1].call = stack[d+1].call
      BY <1>0, <1>1, <1>5, <1>9, <2>1, <3>1
    <3>3. Entry(stack[d])' = Entry(stack[d])
      BY <3>2 DEF Entry, ListOf
    <3>4. stack[d].pc \in {"top", "cont"} /\ Entry(stack[d]).type = stack[d+1].call
      BY <3>1 DEF Calls, Waiting
    <3> QED BY <3>2, <3>3, <3>4
  <2>2. CASE d = Depth
    <3>1. stack'[d] = f /\ stack'[d+1] = g
      BY <1>0, <1>5, <2>2
    <3>2. Entry(stack[d])' = Entry(f)
      BY <3>1 DEF Entry, ListOf
    <3> QED BY <1>2, <1>9, <3>1, <3>2 DEF t
  <2> QED BY <1>0, <2>1, <2>2
<1>12. Waiting'
  <2>1. Depth' - 1 = Depth
    BY <1>0
  <2> QED BY <1>0, <1>8, <1>10, <1>11, <2>1 DEF Waiting
<1> QED BY <1>7, <1>12 DEF Calls

\* Every step keeps the types and the stack.
LEMMA CallsInductive == ASSUME Calls, [Next]_vars PROVE Calls'
<1>0. Depth \in Nat /\ Booleans /\ li \in LevelType /\ eoff \in Ids /\ out \in Seq(Tokens) /\ stack \in Seq(FrameType)
  BY Frames DEF Calls, TypeOK, Booleans
<1>1. CASE UNCHANGED vars
  BY <1>1 DEF vars, Calls, TypeOK, Waiting, Depth, FrameOK, Size, Entry, ListOf
<1>2. CASE ForEntry
  <2>1. /\ Depth > 0 /\ Top.idx + 1 \in 1..Size(Top) /\ eoff' \in Ids /\ UNCHANGED <<globals, li>>
    BY <1>2, ForEntryDoes
  <2>2. PICK g \in FrameType : /\ Continues(Top, g)
                               /\ \/ g.pc = "top" /\ g.idx = Top.idx + 1 /\ g.lev = 0 /\ g.eo = eoff'
                                  \/ g.pc = "for" /\ g.idx = FlushEnd(Top, Top.idx + 1) /\ g.lev = 0
                                  \/ flags.badsize /\ g.pc = "for" /\ g.idx = Top.idx + 1 /\ g.lev = 0
    BY <1>2, ForEntryDoes
  <2>3. Size(Top) \in Nat /\ Top.idx \in Nat
    BY <1>0, <2>1, Frames DEF Top, FrameType
  <2>4. FlushEnd(Top, Top.idx + 1) \in (Top.idx + 1)..Size(Top)
    BY <2>1, <2>3, FlushEnds
  <2>5. g.idx \in Top.idx..Size(Top) /\ (g.pc = "for" => g.lev = 0)
        /\ (g.pc \in {"top", "cont"} => g.idx > 0 /\ g.lev = (IF g.pc = "top" THEN 0 ELSE ListOf(Top)[g.idx].lev))
    BY <2>1, <2>2, <2>3, <2>4
  <2>6. Booleans' /\ UNCHANGED <<db, flags, li, out, result>>
    BY <1>0, <2>1 DEF globals, Booleans
  <2> QED BY <2>1, <2>2, <2>5, <2>6, CallsContinue
<1>3. ASSUME Depth > 0, NEW g \in FrameType, Continues(Top, g), g.idx = Top.idx, g.pc \in {"for", "while", "ret"}, g.pc = "for" => g.lev = 0,
             UNCHANGED <<db, flags, li, out, result, eoff>>, Booleans'
      PROVE  Calls'
  <2>1. Size(Top) \in Nat /\ Top.idx \in Nat /\ Top.idx <= Size(Top)
    <3>1. Top \in FrameType /\ FrameOK(Top) /\ Size(Top) \in Nat
      BY <1>0, <1>3, Frames DEF Top
    <3> QED BY <3>1 DEF FrameType, FrameOK
  <2>2. g.idx \in Top.idx..Size(Top) /\ ~(g.pc \in {"top", "cont"})
    BY <1>3, <2>1
  <2> QED BY <1>0, <1>3, <2>2, CallsContinue
<1>4. CASE ForEnd
  <2>1. PICK g \in FrameType : Ends(Top, g)
    BY <1>4, ForEndDoes
  <2>2. Depth > 0 /\ UNCHANGED <<globals, li, eoff>>
    BY <1>4, ForEndDoes
  <2> QED BY <1>0, <1>3, <2>1, <2>2 DEF Ends, globals, Booleans
<1>5. CASE WhileEntry
  <2>1. /\ Depth > 0 /\ Top.idx + 1 \in 1..Size(Top) /\ eoff' \in Ids /\ UNCHANGED <<globals, li>>
    BY <1>5, WhileEntryDoes
  <2>2. PICK g \in FrameType : /\ Continues(Top, g)
            /\ \/ g.pc = "while" /\ g.idx = Top.idx + 1
               \/ g.pc = "for" /\ g.idx = FlushEnd(Top, Top.idx + 1) /\ g.lev = 0
               \/ g.pc \in {"while", "cont"} /\ g.idx = Top.idx + 1 /\ g.lev = ListOf(Top)[Top.idx + 1].lev
    BY <1>5, WhileEntryDoes
  <2>3. Size(Top) \in Nat /\ Top.idx \in Nat
    BY <1>0, <2>1, Frames DEF Top, FrameType
  <2>4. FlushEnd(Top, Top.idx + 1) \in (Top.idx + 1)..Size(Top)
    BY <2>1, <2>3, FlushEnds
  <2>5. g.idx \in Top.idx..Size(Top) /\ (g.pc = "for" => g.lev = 0)
        /\ (g.pc \in {"top", "cont"} => g.idx > 0 /\ g.lev = (IF g.pc = "top" THEN 0 ELSE ListOf(Top)[g.idx].lev))
    BY <2>1, <2>2, <2>3, <2>4
  <2>6. Booleans' /\ UNCHANGED <<db, flags, li, out, result>>
    BY <1>0, <2>1 DEF globals, Booleans
  <2> QED BY <2>1, <2>2, <2>5, <2>6, CallsContinue
<1>6. CASE WhileEnd
  <2>1. Depth > 0 /\ UNCHANGED <<db, flags, li, eoff, indir, names, needsep, out, result>>
    BY <1>6, WhileEndDoes
  <2>2. Booleans'
    BY <1>0, <1>6 DEF WhileEnd, Booleans
  <2>3. CASE \E g \in FrameType : Ends(Top, g)
    BY <1>3, <2>1, <2>2, <2>3 DEF Ends
  <2>4. CASE \E g \in FrameType : Continues(Top, g) /\ g.pc = "for" /\ g.lev = 0 /\ g.idx = Top.idx
    BY <1>3, <2>1, <2>2, <2>4
  <2> QED BY <1>6, <2>3, <2>4, WhileEndDoes
<1>7. CASE TestError
  <2>1. Depth > 0 /\ UNCHANGED <<fixed, li, printed, needsep, first, out>>
    BY <1>7, TestErrorDoes
  <2>2. PICK g \in FrameType : Continues(Top, g) /\ g.pc = "ret" /\ g.idx = Top.idx
    BY <1>7, TestErrorDoes
  <2> QED BY <1>0, <1>3, <2>1, <2>2 DEF fixed, Booleans
<1>8. CASE TestMiss
  <2> DEFINE n == Depth
             f == Top
  <2>1. n > 0 /\ UNCHANGED <<fixed, printed, needsep, first, out>> /\ Fit(f) /\ f.call = stack[n].call /\ f \in FrameType
    BY <1>8, TestMissDoes, AreFit DEF Top, Tests
  <2>2. PICK g \in FrameType : Becomes(n, g) /\ Missed(f, g, li)
    BY <1>8, TestMissDoes
  <2>3. li' \in LevelType /\ Booleans' /\ UNCHANGED <<db, flags, result, out, eoff>>
    BY <1>0, <2>1, <2>2 DEF Missed, fixed, Booleans
  <2> HIDE DEF f
  <2> QED BY <1>0, <2>1, <2>2, <2>3, CallsTested
<1>9. CASE TestHit
  <2> DEFINE n == Depth
             f == Top
             o == out \o NameText(Entry(f))
  <2>1. n > 0 /\ UNCHANGED fixed /\ Fit(f) /\ f.call = stack[n].call /\ f \in FrameType
    BY <1>9, TestHitDoes, AreFit DEF Top, Tests
  <2>2. PICK g \in FrameType : Becomes(n, g) /\ Matched(f, g, li, n) /\ Says(f, li, needsep, o)
    BY <1>9, TestHitDoes
  <2>3. o \in Seq(Tokens)
    <3> DEFINE x == NameText(Entry(f))
    <3>1. << "nospace" >> \in Seq(Tokens) /\ << >> \in Seq(Tokens)
      BY DEF Tokens
    <3>2. x \in Seq(Tokens)
      BY <3>1 DEF NameText
    <3> HIDE DEF x
    <3>3. out \o x \in Seq(Tokens)
      BY <1>0, <3>2
    <3> QED BY <3>3 DEF x
  <2>4. li' \in LevelType /\ Booleans' /\ UNCHANGED <<db, flags, result, eoff>>
    BY <2>1, <2>2 DEF Matched, fixed, Says
  <2> HIDE DEF f, o
  <2>5. out' \in Seq(Tokens)
    BY <2>2, <2>3, SaysTokens
  <2> QED BY <1>0, <2>1, <2>2, <2>4, <2>5, CallsTested
<1>10. CASE Use
  <2> DEFINE t == Top
             name == Entry(t).name
             call == "use"
  <2>1. Depth > 0 /\ Tests(t) /\ Entry(t).type = call /\ name \in DOMAIN db.named \cup {"root"} /\ li' = CheckMem(li, 0)
        /\ UNCHANGED <<db, flags, eoff, printed, first, out, result>> /\ needsep' \in BOOLEAN
    BY <1>10, UseDoes
  <2>2. PICK g \in FrameType : Becomes(Depth + 1, g) /\ Starts(g, name, call)
    BY <1>10, UseDoes
  <2>3. t \in FrameType /\ t = stack[Depth] /\ call \in {"use", "indirect"} /\ Keeps(t, t)
    BY <2>1 DEF Tests, Top, Keeps
  <2>4. 0 \in Levs
    BY MaxLevelAssumption DEF Levs
  <2>5. li' \in LevelType /\ Booleans'
    BY <1>0, <2>1, <2>4, MemChecked DEF Booleans
  <2>6. stack' \in Seq(FrameType) /\ Len(stack') = Depth + 1 /\ stack'[Depth] = t /\ stack'[Depth + 1] = g
        /\ \A d \in 1..(Depth - 1) : stack'[d] = stack[d]
    <3>1. (Depth + 1) - 1 = Depth /\ Depth \in 1..Depth
      BY <1>0, <2>1
    <3> QED BY SMTT(30), <1>0, <2>2, <2>3, <3>1 DEF Becomes
  <2> HIDE DEF call, name
  <2> QED BY <1>0, <2>1, <2>2, <2>3, <2>5, <2>6, CallsStart
<1>11. CASE Indirect
  <2> DEFINE name == "root"
             call == "indirect"
  <2>1. Depth > 0 /\ Tests(Top) /\ Entry(Top).type = call /\ name \in DOMAIN db.named \cup {"root"} /\ li' = CheckMem(li, 0)
        /\ UNCHANGED <<db, flags, eoff, printed, needsep, first, result>> /\ out' = << >> /\ call \in {"use", "indirect"}
    BY <1>11, IndirectDoes
  <2>2. PICK f, g \in FrameType :
                 /\ stack' \in Seq(FrameType) /\ Len(stack') = Depth + 1 /\ stack'[Depth] = f /\ stack'[Depth + 1] = g
                 /\ \A d \in 1..(Depth - 1) : stack'[d] = stack[d]
                 /\ Keeps(Top, f) /\ f.hit = Top.hit /\ f.deep = Top.deep
                 /\ f.pc = Top.pc /\ f.idx = Top.idx /\ f.lev = Top.lev
                 /\ Starts(g, name, call)
    BY <1>11, IndirectDoes
  <2>4. 0 \in Levs
    BY MaxLevelAssumption DEF Levs
  <2>5. li' \in LevelType /\ Booleans' /\ out' \in Seq(Tokens)
    BY <1>0, <2>1, <2>4, MemChecked DEF Booleans
  <2> HIDE DEF call, name
  <2> QED BY <1>0, <2>1, <2>2, <2>5, CallsStart
<1>12. CASE UseReturn
  <2> DEFINE n == Depth - 1
             c == Top.li
  <2>1. Depth > 1 /\ eoff' = Top.eoff /\ UNCHANGED <<db, flags, indir, result>>
    BY <1>12, UseReturnDoes
  <2>2. PICK s \in BOOLEAN, f \in FrameType, g \in FrameType :
                       /\ Told(f, Top.ret, Caller.found \/ Top.found) /\ Becomes(n, g)
                       /\ \/ Fails(f, g) /\ li' = c /\ needsep' = s /\ UNCHANGED <<printed, first, out>>
                          \/ Matched(f, g, c, n) /\ Says(f, c, s, out)
                          \/ Missed(f, g, c) /\ needsep' = s /\ UNCHANGED <<printed, first, out>>
    BY <1>12, UseReturnDoes
  <2>3. Top \in FrameType
    BY <1>0, <2>1, Frames DEF Top
  <2>4. c \in LevelType /\ eoff' \in Ids
    BY <2>1, <2>3 DEF FrameType
  <2>5. Fit(f) /\ f.call = stack[n].call
    BY <2>1, <2>2, AreFit
  <2>6. li' \in LevelType
    BY <2>2, <2>4 DEF Matched, Missed
  <2>8. Booleans'
    BY <1>0, <2>2 DEF Booleans, Says
  <2> HIDE DEF c
  <2>9. out' \in Seq(Tokens)
    BY <1>0, <2>2, SaysTokens
  <2>10. n \in {Depth, Depth - 1} /\ n > 0
    BY <1>0, <2>1
  <2> HIDE DEF n
  <2> QED BY <2>1, <2>2, <2>4, <2>5, <2>6, <2>8, <2>9, <2>10, CallsTested
<1>13. CASE IndirectReturn
  <2> DEFINE n == Depth - 1
  <2>1. Depth > 1 /\ UNCHANGED <<db, flags, eoff, indir, names, result>> /\ Top \in FrameType
    BY <1>0, <1>13, IndirectReturnDoes, Frames DEF Top
  <2> DEFINE o1(f) == Top.out \o (IF Entry(f).desc /\ ~flags.mime THEN << "nospace" >> ELSE << >>) \o out
             o2 == Top.out
  <2>2. PICK f \in FrameType, g \in FrameType :
                 /\ Becomes(n, g) /\ \E r, x : Told(f, r, x)
                 /\ \/ Fails(f, g) /\ UNCHANGED <<li, printed, needsep, first, out>>
                    \/ Matched(f, g, li, n) /\ Says(f, li, needsep, o1(f))
                    \/ Matched(f, g, li, n) /\ Says(f, li, needsep, o2)
                    \/ Missed(f, g, li) /\ out' = o2 /\ UNCHANGED <<printed, needsep, first>>
    BY <1>13, IndirectReturnDoes
  <2>3. o1(f) \in Seq(Tokens) /\ o2 \in Seq(Tokens)
    <3> DEFINE x == IF Entry(f).desc /\ ~flags.mime THEN << "nospace" >> ELSE << >>
    <3>1. << "nospace" >> \in Seq(Tokens) /\ << >> \in Seq(Tokens)
      BY DEF Tokens
    <3>2. x \in Seq(Tokens)
      BY <3>1
    <3>3. o2 \in Seq(Tokens)
      BY <2>1 DEF FrameType
    <3> HIDE DEF x, o2
    <3>4. o2 \o x \o out \in Seq(Tokens)
      BY <1>0, <3>2, <3>3
    <3> QED BY <3>3, <3>4 DEF x, o2
  <2>5. Fit(f) /\ f.call = stack[n].call
    BY <2>1, <2>2, AreFit
  <2>6. li' \in LevelType
    BY <1>0, <2>2 DEF Matched, Missed
  <2>8. Booleans'
    BY <1>0, <2>2 DEF Booleans, Says
  <2> DEFINE w == o1(f)
  <2>w. Says(f, li, needsep, o1(f)) => Says(f, li, needsep, w)
    OBVIOUS
  <2> HIDE DEF o1, o2, w
  <2>9. out' \in Seq(Tokens)
    <3>1. CASE UNCHANGED out
      BY <1>0, <3>1
    <3>2. CASE Says(f, li, needsep, w)
      BY <2>3, <3>2, SaysTokens DEF w
    <3>3. CASE Says(f, li, needsep, o2)
      BY <2>3, <3>3, SaysTokens
    <3>4. CASE out' = o2
      BY <2>3, <3>4
    <3> QED BY <2>2, <2>w, <3>1, <3>2, <3>3, <3>4
  <2>10. n \in {Depth, Depth - 1} /\ n > 0
    BY <1>0, <2>1
  <2> HIDE DEF n
  <2> QED BY <1>0, <2>1, <2>2, <2>5, <2>6, <2>8, <2>9, <2>10, CallsTested
<1>14. CASE RootReturn
  <2>1. Depth > 0 /\ stack' = << >> /\ UNCHANGED <<db, flags, li, eoff, indir, names, printed, needsep, first, out>>
        /\ result' = <<"nomatch", "match", "error">>[Top.val + 1]
    BY <1>14 DEF RootReturn, Returned
  <2>2. Top.val \in 0..2
    BY <1>0, <2>1, Frames DEF Top, FrameType
  <2>3. Depth' = 0
    BY <2>1 DEF Depth
  <2>4. 1..0 = {} /\ 1..(0 - 1) = {}
    OBVIOUS
  <2>5. TypeOK'
    BY <1>0, <2>1, <2>2, <2>3, <2>4 DEF Calls, TypeOK, Booleans
  <2>6. Waiting'
    BY <2>1, <2>3, <2>4 DEF Waiting
  <2> QED BY <2>5, <2>6 DEF Calls
<1> QED BY <1>1, <1>2, <1>4, <1>5, <1>6, <1>7, <1>8, <1>9, <1>10, <1>11, <1>12, <1>13, <1>14 DEF Next, Step, Finished

\* The first call.
LEMMA FirstCall ==
    ASSUME Init
    PROVE  /\ Depth = 1 /\ stack[1] = Top /\ Starts(Top, "root", "root") /\ ~Top.ret /\ stack \in Seq(FrameType)
           /\ li \in LevelType /\ eoff \in Ids /\ Booleans /\ out = << >>
<1>1. Fresh \in LevelType /\ <<0, 0>> \in Ids
  <2>1. <<0, 0>> \in Ids
    BY DEF Ids
  <2>2. [off |-> <<0, 0>>, got |-> FALSE, last |-> FALSE] \in [off : Ids, got : BOOLEAN, last : BOOLEAN]
    BY <2>1
  <2> QED BY <2>1, <2>2 DEF Fresh, LevelType
<1> DEFINE name == "root"
           ret == FALSE
           g == NewFrame(name, name, ret)
<1>2. name \in ListNames /\ name \in {"root", "use", "indirect"} /\ ret \in BOOLEAN
  BY DEF ListNames
<1>3. li \in LevelType /\ eoff \in Ids /\ needsep \in BOOLEAN /\ out \in Seq(Tokens) /\ out = << >> /\ stack = << g >> /\ Booleans
  <2>1. li \in LevelType /\ eoff \in Ids /\ out = << >> /\ stack = << g >>
    BY <1>1 DEF Init
  <2>2. needsep = FALSE /\ printed = FALSE /\ first = TRUE
    BY DEF Init
  <2>3. Booleans /\ needsep \in BOOLEAN
    BY <2>2 DEF Booleans
  <2>4. << >> \in Seq(Tokens)
    OBVIOUS
  <2> QED BY <2>1, <2>3, <2>4
<1> HIDE DEF name, ret
<1>4. Starts(g, name, name) /\ g.ret = ret
  BY <1>2, <1>3, NewFrameIs
<1> HIDE DEF g
<1>5. g \in FrameType
  BY <1>4 DEF Starts
<1>6. Len(stack) = 1 /\ stack[1] = g /\ stack \in Seq(FrameType)
  BY <1>3, <1>5
<1>7. Depth = 1 /\ Top = g
  BY <1>6 DEF Depth, Top
<1>8. ~g.ret /\ Starts(g, "root", "root")
  BY <1>4 DEF name, ret
<1> QED BY <1>3, <1>6, <1>7, <1>8

\* The invariant holds at the start.
LEMMA CallsInit == Init => Calls
<1> SUFFICES ASSUME Init PROVE Calls
  OBVIOUS
<1>1. db \in DBs /\ flags \in [cont : BOOLEAN, mime : BOOLEAN, badsize : BOOLEAN] /\ result = "none"
  BY DEF Init
<1> DEFINE g == Top
<1>2. /\ Depth = 1 /\ stack[1] = g /\ Starts(g, "root", "root") /\ stack \in Seq(FrameType)
      /\ li \in LevelType /\ eoff \in Ids /\ Booleans /\ out = << >>
  BY FirstCall
<1> HIDE DEF g
<1>3. g.list = "root" /\ g.call = "root" /\ g.idx = 0 /\ g.pc = "for" /\ g.lev = 0 /\ g.hit = {} /\ g.deep = {}
  BY <1>2 DEF Starts
<1>4. Size(g) \in Nat
  BY <1>1, <1>3, Lists
<1>5. FrameOK(g)
  BY <1>3, <1>4 DEF FrameOK
<1>6. 1..1 = {1} /\ 1..(1 - 1) = {}
  OBVIOUS
<1>7. TypeOK
  BY <1>1, <1>2, <1>5, <1>6 DEF TypeOK, Booleans
<1>8. Waiting
  BY <1>1, <1>2, <1>3, <1>6 DEF Waiting
<1> QED BY <1>7, <1>8 DEF Calls

\* Type correctness: cont_level stays within the levels of ms->c.li, and every call of
\* match() within its list, for every database.
THEOREM TypeCorrect == Spec => []TypeOK
<1>1. Calls => TypeOK
  BY DEF Calls
<1> QED BY <1>1, CallsInit, CallsInductive, PTL DEF Spec

-----------------------------------------------------------------------------
(* The limits.                                                             *)

\* The calls of one kind when a call goes on, returns or is made.
LEMMA CallsCount ==
    ASSUME NEW k, NEW n \in Nat, n > 0, stack \in Seq(FrameType), stack' \in Seq(FrameType), n \in {Depth, Depth - 1, Depth + 1},
           Len(stack') = n, \A d \in 1..(n - 1) : stack'[d].call = stack[d].call,
           n <= Depth => stack'[n].call = stack[n].call
    PROVE  /\ IsFiniteSet(CallsOf(k)) /\ Cardinality(CallsOf(k)) \in Nat
           /\ n = Depth => CallsOf(k)' = CallsOf(k)
           /\ n = Depth - 1 => Cardinality(CallsOf(k)') = Cardinality(CallsOf(k)) - (IF Top.call = k THEN 1 ELSE 0)
           /\ n = Depth + 1 => Cardinality(CallsOf(k)') = Cardinality(CallsOf(k)) + (IF stack'[n].call = k THEN 1 ELSE 0)
<1>0. Depth \in Nat /\ Depth' = n
  BY DEF Depth
<1> DEFINE C == CallsOf(k)
           D == {d \in 1..n : stack'[d].call = k}
<1>1. CallsOf(k)' = D
  BY <1>0 DEF CallsOf
<1>2. C = {d \in 1..Depth : stack[d].call = k}
  BY DEF CallsOf
<1> HIDE DEF C
<1>3. IsFiniteSet(C) /\ Cardinality(C) \in Nat
  <2>1. C \subseteq 1..Depth /\ IsFiniteSet(1..Depth)
    BY <1>0, <1>2, FS_Interval
  <2>2. IsFiniteSet(C)
    BY <2>1, FS_Subset
  <2> QED BY <2>2, FS_CardinalityType
<1>4. n = Depth => D = C
  BY <1>0, <1>2
<1>5. ASSUME n = Depth - 1 PROVE Cardinality(D) = Cardinality(C) - (IF Top.call = k THEN 1 ELSE 0)
  <2>1. Top = stack[Depth] /\ Depth \in 1..Depth
    BY <1>0, <1>5 DEF Top
  <2>2. CASE Top.call = k
    <3>1. D = C \ {Depth} /\ Depth \in C
      BY <1>0, <1>2, <1>5, <2>1, <2>2
    <3>2. Cardinality(C \ {Depth}) = Cardinality(C) - 1
      BY <1>3, <3>1, FS_RemoveElement
    <3> QED BY <2>2, <3>1, <3>2
  <2>3. CASE Top.call # k
    <3>1. D = C
      BY <1>0, <1>2, <1>5, <2>1, <2>3
    <3> HIDE DEF D
    <3>2. Cardinality(D) = Cardinality(C)
      BY <3>1
    <3> QED BY <1>3, <2>3, <3>2
  <2> QED BY <2>2, <2>3
<1>6. ASSUME n = Depth + 1 PROVE Cardinality(D) = Cardinality(C) + (IF stack'[n].call = k THEN 1 ELSE 0)
  <2>1. CASE stack'[n].call = k
    <3>1. D = C \cup {n} /\ n \notin C
      BY <1>0, <1>2, <1>6, <2>1
    <3>2. Cardinality(C \cup {n}) = Cardinality(C) + 1
      BY <1>3, <3>1, FS_AddElement
    <3> QED BY <2>1, <3>1, <3>2
  <2>2. CASE stack'[n].call # k
    <3>1. D = C
      BY <1>0, <1>2, <1>6, <2>2
    <3> HIDE DEF D
    <3>2. Cardinality(D) = Cardinality(C)
      BY <3>1
    <3> QED BY <1>3, <2>2, <3>2
  <2> QED BY <2>1, <2>2
<1> QED BY <1>1, <1>3, <1>4, <1>5, <1>6 DEF C

\* The stack has n calls now, and those that were there are the same.
Stacked(n) == /\ n \in Nat /\ n > 0 /\ stack' \in Seq(FrameType) /\ Len(stack') = n
              /\ \A d \in 1..(n - 1) : stack'[d].call = stack[d].call
              /\ n <= Depth => stack'[n].call = stack[n].call

\* Every step goes on with a call, makes one, or returns from one.
LEMMA StackSteps ==
    ASSUME Calls, Next
    PROVE  \/ UNCHANGED vars
           \/ Depth > 0 /\ Stacked(Depth) /\ UNCHANGED <<names, indir>>
           \/ Use /\ Depth > 0 /\ Stacked(Depth + 1) /\ stack'[Depth + 1].call = "use" /\ names' = names + 1 /\ UNCHANGED indir /\ ~OverLimit
           \/ Indirect /\ Depth > 0 /\ Stacked(Depth + 1) /\ stack'[Depth + 1].call = "indirect" /\ indir' = indir + 1 /\ UNCHANGED names /\ ~OverLimit
           \/ UseReturn /\ Depth > 1 /\ Stacked(Depth - 1) /\ Top.call = "use" /\ names' = names - 1 /\ UNCHANGED indir
           \/ IndirectReturn /\ Depth > 1 /\ Stacked(Depth - 1) /\ Top.call = "indirect" /\ UNCHANGED <<names, indir>>
           \/ RootReturn /\ Depth = 1 /\ stack' = << >> /\ Top.call = "root" /\ UNCHANGED <<names, indir>>
<1>0. Depth \in Nat
  BY Frames
<1>1. ASSUME Depth > 0, NEW g, Becomes(Depth, g), g.call = Top.call PROVE Stacked(Depth)
  BY <1>0, <1>1 DEF Stacked, Becomes, Top
<1>2. ASSUME Depth > 1, NEW g, Becomes(Depth - 1, g), g.call = Caller.call PROVE Stacked(Depth - 1)
  <2> DEFINE n == Depth - 1
  <2>1. n \in Nat /\ n > 0 /\ Caller = stack[n] /\ Becomes(n, g)
    BY <1>0, <1>2 DEF Caller
  <2> HIDE DEF n
  <2>2. Stacked(n)
    BY <1>2, <2>1 DEF Stacked, Becomes
  <2> QED BY <2>2 DEF n
<1>3. CASE ForEntry
  <2>1. Depth > 0 /\ (\E g \in FrameType : Continues(Top, g)) /\ UNCHANGED <<names, indir>>
    BY <1>3, ForEntryDoes DEF globals
  <2> QED BY <1>1, <2>1 DEF Continues, Keeps
<1>4. CASE ForEnd
  <2>1. Depth > 0 /\ (\E g \in FrameType : Continues(Top, g)) /\ UNCHANGED <<names, indir>>
    BY <1>4, ForEndDoes DEF globals, Ends
  <2> QED BY <1>1, <2>1 DEF Continues, Keeps
<1>5. CASE WhileEntry
  <2>1. Depth > 0 /\ (\E g \in FrameType : Continues(Top, g)) /\ UNCHANGED <<names, indir>>
    BY <1>5, WhileEntryDoes DEF globals
  <2> QED BY <1>1, <2>1 DEF Continues, Keeps
<1>6. CASE WhileEnd
  <2>1. Depth > 0 /\ (\E g \in FrameType : Continues(Top, g)) /\ UNCHANGED <<names, indir>>
    BY <1>6, WhileEndDoes DEF Ends
  <2> QED BY <1>1, <2>1 DEF Continues, Keeps
<1>7. CASE TestError
  <2>1. Depth > 0 /\ (\E g \in FrameType : Continues(Top, g)) /\ UNCHANGED <<names, indir>>
    BY <1>7, TestErrorDoes DEF fixed
  <2> QED BY <1>1, <2>1 DEF Continues, Keeps
<1>8. CASE TestMiss
  <2>1. Depth > 0 /\ (\E g \in FrameType : Becomes(Depth, g) /\ Missed(Top, g, li)) /\ UNCHANGED <<names, indir>>
    BY <1>8, TestMissDoes DEF fixed
  <2> QED BY <1>1, <2>1 DEF Missed, Keeps
<1>9. CASE TestHit
  <2>1. Depth > 0 /\ (\E g \in FrameType : Becomes(Depth, g) /\ Matched(Top, g, li, Depth)) /\ UNCHANGED <<names, indir>>
    BY <1>9, TestHitDoes DEF fixed
  <2> QED BY <1>1, <2>1 DEF Matched, Keeps
<1>10. CASE Use
  <2>1. Depth > 0 /\ ~OverLimit /\ names' = names + 1 /\ UNCHANGED indir
    BY <1>10, UseDoes
  <2>2. PICK g \in FrameType : Becomes(Depth + 1, g) /\ g.call = "use"
    BY <1>10, UseDoes DEF Starts
  <2>3. Stacked(Depth + 1)
    BY <1>0, <2>2 DEF Stacked, Becomes
  <2> QED BY <1>10, <2>1, <2>2, <2>3 DEF Becomes
<1>11. CASE Indirect
  <2>1. Depth > 0 /\ ~OverLimit /\ indir' = indir + 1 /\ UNCHANGED names
    BY <1>11, IndirectDoes
  <2>2. PICK f \in FrameType, g \in FrameType :
                 /\ stack' \in Seq(FrameType) /\ Len(stack') = Depth + 1 /\ stack'[Depth] = f /\ stack'[Depth + 1] = g
                 /\ \A d \in 1..(Depth - 1) : stack'[d] = stack[d]
                 /\ f.call = Top.call /\ g.call = "indirect"
    BY <1>11, IndirectDoes DEF Starts, Keeps
  <2>3. \A d \in 1..Depth : stack'[d].call = stack[d].call
    BY <1>0, <2>1, <2>2 DEF Top
  <2>4. Stacked(Depth + 1)
    BY <1>0, <2>2, <2>3 DEF Stacked
  <2> QED BY <1>11, <2>1, <2>2, <2>4
<1>12. CASE UseReturn
  <2>1. Depth > 1 /\ Top.call = "use" /\ names' = names - 1 /\ UNCHANGED indir
    BY <1>12, UseReturnDoes
  <2>2. PICK g \in FrameType : Becomes(Depth - 1, g) /\ g.call = Caller.call
    BY <1>12, UseReturnDoes DEF Told, Fails, Missed, Matched, Keeps
  <2> QED BY <1>2, <1>12, <2>1, <2>2
<1>13. CASE IndirectReturn
  <2>1. Depth > 1 /\ Top.call = "indirect" /\ UNCHANGED <<names, indir>>
    BY <1>13, IndirectReturnDoes
  <2>2. PICK g \in FrameType : Becomes(Depth - 1, g) /\ g.call = Caller.call
    BY <1>13, IndirectReturnDoes DEF Told, Fails, Missed, Matched, Keeps
  <2> QED BY <1>2, <1>13, <2>1, <2>2
<1>14. CASE RootReturn
  <2>1. Depth > 0 /\ stack' = << >> /\ Top.call = "root" /\ UNCHANGED <<names, indir>>
    BY <1>14 DEF RootReturn, Returned
  <2>2. Depth = 1
    BY <1>0, <2>1 DEF Calls, Waiting, Top
  <2> QED BY <1>14, <2>1, <2>2
<1> QED BY <1>3, <1>4, <1>5, <1>6, <1>7, <1>8, <1>9, <1>10, <1>11, <1>12, <1>13, <1>14 DEF Next, Step, Finished

\* Every step keeps the counters.
LEMMA CountedInductive == ASSUME Calls, Counted, [Next]_vars PROVE Counted'
<1>0. Depth \in Nat /\ stack \in Seq(FrameType) /\ NameMax \in Nat /\ IndirMax \in Nat
  BY Frames, LimitsAssumption DEF Calls, TypeOK
<1> DEFINE U == CallsOf("use")
           I == CallsOf("indirect")
<1>1. CASE UNCHANGED vars
  BY <1>1 DEF vars, Counted, CallsOf, Depth
<1>2. IsFiniteSet(U) /\ Cardinality(U) \in Nat /\ IsFiniteSet(I) /\ Cardinality(I) \in Nat
  <2>1. U \subseteq 1..Depth /\ I \subseteq 1..Depth /\ IsFiniteSet(1..Depth)
    BY <1>0, FS_Interval DEF CallsOf
  <2> HIDE DEF U, I
  <2> QED BY <2>1, FS_Subset, FS_CardinalityType
<1>3. names = Cardinality(U) /\ names <= NameMax /\ indir \in Nat /\ Cardinality(I) <= indir /\ indir <= IndirMax /\ Depth <= 1 + names + indir
  BY DEF Counted
<1>4. ASSUME NEW n, Stacked(n), n \in {Depth, Depth - 1, Depth + 1}, NEW k
      PROVE  /\ Depth' = n
             /\ n = Depth => CallsOf(k)' = CallsOf(k)
             /\ n = Depth - 1 => Cardinality(CallsOf(k)') = Cardinality(CallsOf(k)) - (IF Top.call = k THEN 1 ELSE 0)
             /\ n = Depth + 1 => Cardinality(CallsOf(k)') = Cardinality(CallsOf(k)) + (IF stack'[n].call = k THEN 1 ELSE 0)
  BY <1>0, <1>4, CallsCount DEF Stacked, Depth
<1>5. CASE Depth > 0 /\ Stacked(Depth) /\ UNCHANGED <<names, indir>>
  <2>1. U' = U /\ I' = I /\ Depth' = Depth
    BY <1>4, <1>5
  <2> HIDE DEF U, I
  <2> QED BY <1>3, <1>5, <2>1 DEF Counted, U, I
<1>6. CASE Depth > 0 /\ Stacked(Depth + 1) /\ stack'[Depth + 1].call = "use" /\ names' = names + 1 /\ UNCHANGED indir /\ ~OverLimit
  <2> DEFINE n == Depth + 1
  <2>1. n \in {Depth, Depth - 1, Depth + 1} /\ Stacked(n) /\ n = Depth + 1 /\ stack'[n].call = "use"
    BY <1>6
  <2> HIDE DEF n
  <2>2. Cardinality(U') = Cardinality(U) + 1 /\ Cardinality(I') = Cardinality(I) + 0 /\ Depth' = Depth + 1
    <3> HIDE DEF U, I
    <3> QED BY <1>4, <2>1 DEF U, I
  <2>3. names < NameMax
    BY <1>0, <1>2, <1>3, <1>6 DEF OverLimit
  <2> HIDE DEF U, I
  <2> QED BY <1>0, <1>2, <1>3, <1>6, <2>2, <2>3 DEF Counted, U, I
<1>7. CASE Depth > 0 /\ Stacked(Depth + 1) /\ stack'[Depth + 1].call = "indirect" /\ indir' = indir + 1 /\ UNCHANGED names /\ ~OverLimit
  <2> DEFINE n == Depth + 1
  <2>1. n \in {Depth, Depth - 1, Depth + 1} /\ Stacked(n) /\ n = Depth + 1 /\ stack'[n].call = "indirect"
    BY <1>7
  <2> HIDE DEF n
  <2>2. Cardinality(U') = Cardinality(U) + 0 /\ Cardinality(I') = Cardinality(I) + 1 /\ Depth' = Depth + 1
    <3> HIDE DEF U, I
    <3> QED BY <1>4, <2>1 DEF U, I
  <2>3. indir < IndirMax
    BY <1>0, <1>2, <1>3, <1>7 DEF OverLimit
  <2> HIDE DEF U, I
  <2> QED BY <1>0, <1>2, <1>3, <1>7, <2>2, <2>3 DEF Counted, U, I
<1>8. CASE Depth > 1 /\ Stacked(Depth - 1) /\ Top.call = "use" /\ names' = names - 1 /\ UNCHANGED indir
  <2> DEFINE n == Depth - 1
  <2>1. n \in {Depth, Depth - 1, Depth + 1} /\ Stacked(n) /\ n = Depth - 1
    BY <1>8
  <2> HIDE DEF n
  <2>2. Cardinality(U') = Cardinality(U) - 1 /\ Cardinality(I') = Cardinality(I) - 0 /\ Depth' = Depth - 1
    <3> HIDE DEF U, I
    <3> QED BY <1>4, <1>8, <2>1 DEF U, I
  <2> HIDE DEF U, I
  <2> QED BY <1>0, <1>2, <1>3, <1>8, <2>2 DEF Counted, U, I
<1>9. CASE Depth > 1 /\ Stacked(Depth - 1) /\ Top.call = "indirect" /\ UNCHANGED <<names, indir>>
  <2> DEFINE n == Depth - 1
  <2>1. n \in {Depth, Depth - 1, Depth + 1} /\ Stacked(n) /\ n = Depth - 1
    BY <1>9
  <2> HIDE DEF n
  <2>2. Cardinality(U') = Cardinality(U) - 0 /\ Cardinality(I') = Cardinality(I) - 1 /\ Depth' = Depth - 1
    <3> HIDE DEF U, I
    <3> QED BY <1>4, <1>9, <2>1 DEF U, I
  <2> HIDE DEF U, I
  <2> QED BY <1>0, <1>2, <1>3, <1>9, <2>2 DEF Counted, U, I
<1>10. CASE Depth = 1 /\ stack' = << >> /\ Top.call = "root" /\ UNCHANGED <<names, indir>>
  <2>1. Depth' = 0 /\ 1..1 = {1} /\ 1..0 = {}
    BY <1>10 DEF Depth
  <2>2. stack[1].call = "root"
    BY <1>10 DEF Top
  <2>3. U = {} /\ I = {} /\ U' = {} /\ I' = {}
    BY <1>10, <2>1, <2>2 DEF CallsOf
  <2> HIDE DEF U, I
  <2>4. U' = U /\ I' = I
    BY <2>3
  <2> QED BY <1>2, <1>3, <1>10, <2>1, <2>4 DEF Counted, U, I
<1> QED BY <1>1, <1>5, <1>6, <1>7, <1>8, <1>9, <1>10, StackSteps

\* The nesting of use tests is name_count and within its limit, that of indirect tests is
\* within indir_count and its limit, and so is the depth of the recursion of match(),
\* whatever the database, even one whose lists use themselves.
THEOREM LimitsAreKept == Spec => []LimitsHold
<1>1. Init => Counted
  <2> SUFFICES ASSUME Init PROVE Counted
    OBVIOUS
  <2>1. Depth = 1 /\ stack[1].call = "root" /\ names = 0 /\ indir = 0
    BY FirstCall DEF Starts, Init
  <2>2. 1..1 = {1}
    OBVIOUS
  <2>3. CallsOf("use") = {} /\ CallsOf("indirect") = {}
    BY <2>1, <2>2 DEF CallsOf
  <2>4. Cardinality({}) = 0
    BY FS_EmptySet
  <2> QED BY <2>1, <2>3, <2>4, LimitsAssumption DEF Counted
<1>2. Calls /\ Counted => LimitsHold
  <2> SUFFICES ASSUME Calls, Counted PROVE LimitsHold
    OBVIOUS
  <2> DEFINE n == Cardinality(CallsOf("use"))
  <2>1. n \in Nat
    <3>1. CallsOf("use") \subseteq 1..Depth /\ IsFiniteSet(1..Depth)
      BY Frames, FS_Interval DEF CallsOf
    <3> QED BY <3>1, FS_Subset, FS_CardinalityType
  <2> HIDE DEF n
  <2>2. names = n /\ names <= NameMax /\ indir \in Nat /\ indir <= IndirMax /\ Depth <= 1 + names + indir /\ Depth \in Nat
    BY Frames DEF Counted, n
  <2>3. Depth <= NameMax + IndirMax + 1
    BY <2>1, <2>2, LimitsAssumption
  <2> QED BY <2>3 DEF LimitsHold, Counted
<1> QED BY <1>1, <1>2, CallsInit, CallsInductive, CountedInductive, PTL DEF Spec

-----------------------------------------------------------------------------
(* Continuations: who controls an entry, and which entries go with it.     *)

Levelled(q) == Len(q) \in Nat /\ \A i \in 1..Len(q) : q[i].lev \in Nat

\* Parent() is the entry that controls entry i.
LEMMA ParentIs ==
    ASSUME NEW q, Levelled(q), NEW i \in 1..Len(q), NEW j \in 1..(i - 1), q[j].lev < q[i].lev,
           \A k \in (j+1)..(i-1) : q[k].lev >= q[i].lev
    PROVE  Parent(q, i) = j
<1> DEFINE P(x) == q[x].lev < q[i].lev /\ \A k \in (x+1)..(i-1) : q[k].lev >= q[i].lev
           p == CHOOSE x \in 1..(i-1) : P(x)
<1>0. Len(q) \in Nat /\ (\A k \in 1..Len(q) : q[k].lev \in Nat) /\ i \in Nat /\ i - 1 < Len(q) /\ j \in Nat
  BY DEF Levelled
<1>1. P(j)
  OBVIOUS
<1>2. p \in 1..(i-1) /\ P(p)
  <2> HIDE DEF P
  <2> QED BY <1>1, Zenon
<1>3. Parent(q, i) = p
  BY DEF Parent
<1> HIDE DEF p
<1>4. p \in Nat /\ p <= i - 1 /\ j <= i - 1 /\ 1 <= p /\ 1 <= j
  BY <1>0, <1>2
<1>5. ~(p < j)
  <2> SUFFICES ASSUME p < j PROVE FALSE
    OBVIOUS
  <2>1. j \in (p+1)..(i-1) /\ j \in 1..Len(q)
    BY <1>0, <1>4
  <2> QED BY <1>0, <1>2, <2>1
<1>6. ~(j < p)
  <2> SUFFICES ASSUME j < p PROVE FALSE
    OBVIOUS
  <2>1. p \in (j+1)..(i-1) /\ p \in 1..Len(q)
    BY <1>0, <1>4
  <2> QED BY <1>0, <1>2, <2>1
<1> QED BY <1>0, <1>3, <1>4, <1>5, <1>6

\* The entry that controls entry i is the one below its level up to it.
LEMMA ControlIs ==
    ASSUME NEW q, Levelled(q), NEW i \in 1..Len(q), NEW j, q[i].lev > 0, ControlsAt(q, j, i, q[i].lev)
    PROVE  Parent(q, i) = j /\ j \in 1..(i - 1)
<1>1. Len(q) \in Nat /\ (\A k \in 1..Len(q) : q[k].lev \in Nat) /\ i \in Nat
  BY DEF Levelled
<1>2. j \in 1..i /\ q[j].lev < q[i].lev /\ \A k \in (j+1)..i : q[k].lev >= q[i].lev
  BY DEF ControlsAt
<1>3. j # i
  BY <1>1, <1>2
<1>4. j \in 1..(i - 1) /\ \A k \in (j+1)..(i - 1) : q[k].lev >= q[i].lev
  BY <1>1, <1>2, <1>3
<1> QED BY <1>2, <1>4, ParentIs

\* The entries at the level of entry i under the same one are those whose level is open.
LEMMA SiblingsOpen ==
    ASSUME NEW q, NEW i \in Nat, NEW j \in 1..i
    PROVE  Sibling(q, i, j) <=> OpenAt(q, j, i, q[i].lev)
  BY DEF Sibling, OpenAt

\* A continuation has the top-level entry of the entry before it, if any.
LEMMA HeadedBefore ==
    ASSUME NEW q, NEW s, NEW i \in Nat, q[i + 1].lev # 0, Headed(q, i + 1, s)
    PROVE  Headed(q, i, s) /\ ~(q[i].lev = 0 /\ s /\ q[i].from = "end")
<1> DEFINE n == i + 1
<1>1. PICK h \in 1..n : q[h].lev = 0 /\ (\A k \in (h+1)..n : q[k].lev # 0) /\ ~(s /\ q[h].from = "end")
  BY DEF Headed
<1>2. h \in 1..i /\ \A k \in (h+1)..i : q[k].lev # 0
  BY <1>1
<1>3. q[i].lev = 0 => h = i
  <2> SUFFICES ASSUME q[i].lev = 0, h # i PROVE FALSE
    OBVIOUS
  <2>1. i \in (h+1)..i
    BY <1>2
  <2> QED BY <1>2, <2>1
<1> HIDE DEF n
<1> QED BY <1>1, <1>2, <1>3 DEF Headed

\* What holds of the d-th call, c and e being its ms->c.li and ms->eoffset.
Holds(q, f, d, c, e, s) == Stands(q, f, s) /\ (~f.mixed => Defaults(q, f, s) /\ Remembers(q, f, d, c, e, s))

\* The marks of a call are about entries it has seen.
Within(q, f) == /\ f \in FrameType /\ Levelled(q) /\ f.idx \in 0..Len(q)
                /\ f.deep \subseteq f.hit /\ f.hit \subseteq 1..f.idx

\* The levels in use have a place in ms->c.li.
LEMMA LevelsBelow ==
    ASSUME NEW f \in FrameType
    PROVE  /\ f.lev \in Nat /\ f.idx \in Nat
           /\ \A l \in 1..f.lev : l \in Nat /\ l \in Levs /\ l - 1 \in Levs /\ l > 0
<1>1. f.lev \in 0..(MaxLevel + 1) /\ f.idx \in Nat
  BY DEF FrameType
<1> QED BY <1>1, MaxLevelAssumption DEF Levs

\* A call between two tests of top-level entries, or on its way out.
LEMMA HoldsBetween ==
    ASSUME NEW q, NEW s, NEW f, NEW g, NEW d, NEW c, NEW b, NEW e, NEW u, Within(q, f), Holds(q, f, d, c, e, s), Marks(f, g),
           \/ g.pc = "ret"
           \/ g.pc = "for" /\ (g.idx < Len(q) => q[g.idx + 1].lev = 0 \/ ~Headed(q, g.idx + 1, s))
           \/ g.pc = "top" /\ g.idx = f.idx + 1 /\ (q[g.idx].lev = 0 \/ ~Headed(q, g.idx, s)) /\ g.eo = u
    PROVE  Holds(q, g, d, b, u, s)
<1>1. f.hit \subseteq 1..f.idx /\ f.idx \in Nat
  BY DEF Within, FrameType
<1>2. Stands(q, g, s)
  BY <1>1 DEF Stands, Marks
<1>3. ~g.mixed => Defaults(q, g, s)
  BY DEF Holds, Defaults, Marks
<1>4. Remembers(q, g, d, b, u, s)
  BY DEF Remembers
<1> QED BY <1>2, <1>3, <1>4 DEF Holds

\* The chain of controlling entries while a level is not left.
LEMMA NextEntry ==
    ASSUME NEW q, Levelled(q), NEW i \in Nat, i + 1 \in 1..Len(q), NEW l \in Nat, l <= q[i + 1].lev, NEW j \in 1..i
    PROVE  /\ ControlsAt(q, j, i + 1, l) <=> ControlsAt(q, j, i, l)
           /\ OpenAt(q, j, i + 1, l) <=> OpenAt(q, j, i, l)
           /\ ~ControlsAt(q, i + 1, i + 1, l)
<1>1. \A k \in 1..Len(q) : q[k].lev \in Nat
  BY DEF Levelled
<1> DEFINE n == i + 1
<1>2. n \in Nat /\ q[n].lev \in Nat /\ q[n].lev >= l /\ \A x \in 1..n : x..n = (x..i) \cup {n}
  BY <1>1
<1>3. (j+1)..n = ((j+1)..i) \cup {n} /\ j..n = (j..i) \cup {n} /\ j \in 1..n
  BY <1>2
<1> HIDE DEF n
<1>4. ControlsAt(q, j, n, l) <=> ControlsAt(q, j, i, l)
  BY <1>2, <1>3 DEF ControlsAt
<1>5. OpenAt(q, j, n, l) <=> OpenAt(q, j, i, l)
  BY <1>2, <1>3 DEF OpenAt
<1>6. ~ControlsAt(q, n, n, l)
  BY <1>2 DEF ControlsAt
<1> QED BY <1>4, <1>5, <1>6 DEF n

\* The next continuation, at the level of the call or below it.
LEMMA HoldsNext ==
    ASSUME NEW q, NEW s, NEW f, NEW g, NEW d, NEW c, NEW e, NEW u, Within(q, f), Holds(q, f, d, c, e, s), Marks(f, g), g \in FrameType,
           f.pc = "while", g.pc \in {"while", "cont"}, g.idx = f.idx + 1, g.idx <= Len(q),
           g.lev <= f.lev, g.lev <= q[g.idx].lev, q[g.idx].lev > 0, f.eo = e => g.eo = u
    PROVE  Holds(q, g, d, c, u, s)
<1> DEFINE i == f.idx
           n == i + 1
<1>0. /\ i \in Nat /\ n \in 1..Len(q) /\ Levelled(q) /\ f.deep \subseteq f.hit /\ f.hit \subseteq 1..i
      /\ f.lev \in Nat /\ g.lev \in Nat /\ g.idx = n /\ q[n].lev \in Nat
  BY LevelsBelow DEF Within, Levelled
<1>1. g.hit = f.hit /\ g.deep = f.deep /\ g.mixed = f.mixed
  BY DEF Marks
<1>2. \A l \in 1..g.lev : l \in 1..f.lev /\ l \in Nat /\ l <= q[n].lev
  BY <1>0
<1>3. ASSUME NEW l \in 1..g.lev
      PROVE  /\ \A j \in 1..i : (ControlsAt(q, j, n, l) <=> ControlsAt(q, j, i, l)) /\ (OpenAt(q, j, n, l) <=> OpenAt(q, j, i, l))
             /\ ~ControlsAt(q, n, n, l)
  <2>1. l \in Nat /\ l <= q[n].lev
    BY <1>2
  <2>2. ASSUME NEW j \in 1..i
        PROVE  (ControlsAt(q, j, n, l) <=> ControlsAt(q, j, i, l)) /\ (OpenAt(q, j, n, l) <=> OpenAt(q, j, i, l))
    <3> HIDE DEF i
    <3> QED BY <1>0, <2>1, NextEntry
  <2>3. ~ControlsAt(q, n, n, l)
    BY <1>0, <2>1 DEF ControlsAt
  <2> QED BY <2>2, <2>3
<1>3a. Headed(q, n, s) => Headed(q, i, s)
  <2>1. q[n].lev # 0
    BY <1>0
  <2> HIDE DEF i
  <2> QED BY <1>0, <2>1, HeadedBefore
<1>4. Stands(q, g, s)
  <2>1. g.pc = "cont" => q[g.idx].lev # 0
    BY <1>0
  <2>2. g.hit \subseteq 1..(g.idx - 1)
    BY <1>0, <1>1
  <2>3. ASSUME Headed(q, n, s), NEW l \in 1..g.lev PROVE \E j \in g.deep : ControlsAt(q, j, n, l) /\ q[j].lev = l - 1
    <3>1. PICK j \in f.deep : ControlsAt(q, j, i, l) /\ q[j].lev = l - 1
      BY <1>2, <1>3a, <2>3 DEF Holds, Stands
    <3>2. j \in 1..i
      BY <1>0
    <3> HIDE DEF n, i
    <3> QED BY <1>1, <1>3, <3>1, <3>2
  <2> QED BY <1>0, <2>1, <2>2, <2>3 DEF Stands
<1>5. ~g.mixed => Defaults(q, g, s)
  BY <1>1 DEF Holds, Defaults
<1>6. ASSUME ~g.mixed PROVE Remembers(q, g, d, c, u, s)
  <2>0. Remembers(q, f, d, c, e, s)
    BY <1>1, <1>6 DEF Holds
  <2>1. g.eo = u
    BY <2>0 DEF Remembers
  <2>2. ASSUME Headed(q, n, s), NEW l \in 1..g.lev, NEW j \in 1..n, ControlsAt(q, j, n, l) PROVE c[l - 1].off = <<d, j>>
    <3>1. j # n
      BY <1>3, <2>2
    <3>2. j \in 1..i
      BY <1>0, <3>1
    <3>3. ControlsAt(q, j, i, l)
      <4> HIDE DEF n, i
      <4> QED BY <1>3, <2>2, <3>2
    <3> QED BY <1>2, <1>3a, <2>0, <2>2, <3>2, <3>3 DEF Remembers
  <2>3. ASSUME Headed(q, n, s), NEW l \in 1..g.lev, ~c[l].got, NEW j \in g.deep, OpenAt(q, j, n, l)
        PROVE  \E k \in g.hit : j <= k /\ OpenAt(q, k, n, l) /\ (q[k].type = "clear" \/ k \notin g.deep)
    <3>1. j \in f.deep /\ j \in 1..i
      BY <1>0, <1>1
    <3>2. OpenAt(q, j, i, l)
      <4> HIDE DEF n, i
      <4> QED BY <1>3, <2>3, <3>1
    <3>3. PICK k \in f.hit : j <= k /\ OpenAt(q, k, i, l) /\ (q[k].type = "clear" \/ k \notin f.deep)
      BY <1>2, <1>3a, <2>0, <2>3, <3>1, <3>2 DEF Remembers
    <3>4. k \in 1..i
      BY <1>0
    <3>5. OpenAt(q, k, n, l)
      <4> HIDE DEF n, i
      <4> QED BY <1>3, <3>3, <3>4
    <3> QED BY <1>1, <3>3, <3>5
  <2> QED BY <1>0, <2>1, <2>2, <2>3 DEF Remembers
<1> QED BY <1>4, <1>5, <1>6 DEF Holds

\* A test that did not match, or a default too late: nothing has changed.
LEMMA HoldsStill ==
    ASSUME NEW q, NEW s, NEW f, NEW g, NEW d, NEW c, NEW b, NEW e, Within(q, f), Holds(q, f, d, c, e, s), Marks(f, g), g \in FrameType,
           f.pc = "cont", g.pc = "while", g.idx = f.idx, g.lev = f.lev, g.eo = f.eo, SameLevels(c, b)
    PROVE  Holds(q, g, d, b, e, s)
<1>1. g.hit = f.hit /\ g.deep = f.deep /\ g.mixed = f.mixed
  BY DEF Marks
<1>2. \A l \in 1..f.lev : b[l - 1].off = c[l - 1].off /\ (b[l].got <=> c[l].got)
  BY LevelsBelow DEF Within, SameLevels
<1>3. Stands(q, g, s)
  BY <1>1 DEF Holds, Stands
<1>4. ~g.mixed => Defaults(q, g, s)
  BY <1>1 DEF Holds, Defaults
<1>5. ASSUME ~g.mixed PROVE Remembers(q, g, d, b, e, s)
  <2>1. Remembers(q, f, d, c, e, s)
    BY <1>1, <1>5 DEF Holds
  <2> QED BY <1>1, <1>2, <2>1 DEF Remembers
<1> QED BY <1>3, <1>4, <1>5 DEF Holds

\* A default that matches comes first, and leaves those before it first.
LEMMA HoldsDefaults ==
    ASSUME NEW q, NEW s, NEW f, NEW g, NEW d, NEW c, NEW e, Within(q, f), f.idx > 0,
           Stands(q, f, s), Defaults(q, f, s), Remembers(q, f, d, c, e, s), f.pc \in {"top", "cont"},
           f.pc = "cont" => f.lev = q[f.idx].lev,
           ~(f.pc = "cont" /\ q[f.idx].type = "default" /\ c[f.lev].got),
           g.hit = f.hit \cup {f.idx}, g.deep = f.deep \/ g.deep = f.deep \cup {f.idx}
    PROVE  Defaults(q, g, s)
<1> DEFINE i == f.idx
<1>0. /\ i \in Nat /\ i \in 1..Len(q) /\ Levelled(q) /\ f.deep \subseteq f.hit /\ f.hit \subseteq 1..(i - 1)
      /\ q[i].lev \in Nat /\ f.lev \in Nat
  BY LevelsBelow DEF Within, Levelled, Stands
<1> SUFFICES ASSUME NEW x \in g.hit, q[x].type = "default", q[x].lev > 0, Headed(q, x, s), NEW j \in g.deep, j < x, Sibling(q, x, j)
             PROVE  \E k \in g.hit : k \in j..(x-1) /\ Sibling(q, x, k) /\ (q[k].type = "clear" \/ k \notin g.deep)
  BY DEF Defaults
<1>1. x \in 1..i /\ j # i /\ j \in f.deep /\ j \in 1..(i - 1)
  BY <1>0
<1>2. CASE x # i
  <2>1. x \in f.hit
    BY <1>2
  <2>2. PICK k \in f.hit : k \in j..(x-1) /\ Sibling(q, x, k) /\ (q[k].type = "clear" \/ k \notin f.deep)
    BY <1>1, <2>1 DEF Defaults
  <2>3. k # i
    BY <1>0
  <2> QED BY <2>2, <2>3
<1>3. CASE x = i
  <2>1. f.pc = "cont" /\ f.lev = q[i].lev /\ f.lev \in 1..f.lev
    BY <1>0, <1>3 DEF Stands
  <2>2. ~c[f.lev].got
    BY <1>3, <2>1
  <2>3. OpenAt(q, j, i, q[i].lev)
    <3> HIDE DEF i
    <3> QED BY <1>0, <1>1, <1>3, SiblingsOpen
  <2>4. PICK k \in f.hit : j <= k /\ OpenAt(q, k, i, f.lev) /\ (q[k].type = "clear" \/ k \notin f.deep)
    BY <1>1, <1>3, <2>1, <2>2, <2>3 DEF Remembers
  <2>5. k \in 1..(i - 1) /\ k # i /\ k \in 1..i /\ k \in j..(i - 1)
    BY <1>0, <1>1, <2>4
  <2>6. Sibling(q, i, k)
    <3> HIDE DEF i
    <3> QED BY <1>0, <1>3, <2>1, <2>4, <2>5, SiblingsOpen
  <2> QED BY <1>3, <2>4, <2>5, <2>6
<1> QED BY <1>2, <1>3

\* An entry that matched with its end inside the buffer controls the next level.
LEMMA HoldsEntering ==
    ASSUME NEW q, NEW s, NEW f, NEW g, NEW d, NEW c, NEW b, NEW e, Within(q, f), f.idx > 0,
           Holds(q, f, d, c, e, s), f.pc \in {"top", "cont"}, f.pc = "cont" => f.lev = q[f.idx].lev, f.pc = "top" => f.lev = 0,
           f.lev \in 0..MaxLevel,
           ~(f.pc = "cont" /\ q[f.idx].type = "default" /\ c[f.lev].got),
           g \in FrameType, g.eo = f.eo, g.hit = f.hit \cup {f.idx}, g.mixed = f.mixed,
           g.deep = f.deep \cup {f.idx}, g.pc = "while", g.idx = f.idx, g.lev = f.lev + 1,
           b[f.lev].off = <<d, f.idx>>,
           \A k \in Levs \ {f.lev} : b[k].off = c[k].off,
           \A k \in Levs \ {f.lev, f.lev + 1} : b[k].got = c[k].got,
           f.pc # "top" => (b[f.lev].got <=> q[f.idx].type # "clear"),
           ~b[f.lev + 1].got
    PROVE  Holds(q, g, d, b, e, s)
<1> DEFINE i == f.idx
           n == f.lev
<1>0. /\ i \in Nat /\ i \in 1..Len(q) /\ Levelled(q) /\ f.deep \subseteq f.hit /\ f.hit \subseteq 1..(i - 1)
      /\ q[i].lev \in Nat /\ n \in Nat /\ Stands(q, f, s)
  BY LevelsBelow DEF Within, Levelled, Stands, Holds
<1>1. Headed(q, i, s) => q[i].lev = n
  BY <1>0 DEF Stands
<1>2. \A l \in 1..g.lev : l \in 1..n \/ l = n + 1
  BY <1>0
<1>3. ASSUME NEW l \in 1..n
      PROVE  f.pc = "cont" /\ l \in Nat /\ l - 1 \in Levs \ {n} /\ (l # n => l \in Levs \ {n, n + 1})
  <2>1. l \in Nat /\ l > 0 /\ l <= n /\ n > 0
    BY <1>0
  <2>2. f.pc = "cont"
    BY <2>1
  <2>3. l \in Levs /\ l - 1 \in Levs
    BY LevelsBelow DEF Within
  <2> QED BY <1>0, <2>1, <2>2, <2>3
<1>4. ASSUME Headed(q, i, s) PROVE ControlsAt(q, i, i, n + 1) /\ \A j \in 1..i : ControlsAt(q, j, i, n + 1) => j = i
  <2>1. ControlsAt(q, i, i, n + 1)
    BY <1>0, <1>1, <1>4 DEF ControlsAt
  <2>2. ASSUME NEW j \in 1..i, ControlsAt(q, j, i, n + 1), j # i PROVE FALSE
    <3>1. i \in (j+1)..i
      BY <1>0, <2>2
    <3> QED BY <1>0, <1>1, <1>4, <2>2, <3>1 DEF ControlsAt
  <2> QED BY <2>1, <2>2
<1>5. Stands(q, g, s)
  <2>1. ASSUME Headed(q, i, s), NEW l \in 1..g.lev PROVE \E j \in g.deep : ControlsAt(q, j, i, l) /\ q[j].lev = l - 1
    <3>1. CASE l \in 1..n
      BY <1>0, <1>3, <2>1, <3>1 DEF Stands
    <3>2. CASE l = n + 1
      <4>1. q[i].lev = l - 1
        BY <1>0, <1>1, <2>1, <3>2
      <4> QED BY <1>4, <2>1, <3>2, <4>1
    <3> QED BY <1>2, <3>1, <3>2
  <2> QED BY <2>1 DEF Stands
<1>6. ASSUME ~g.mixed PROVE Defaults(q, g, s)
  <2>1. Defaults(q, f, s) /\ Remembers(q, f, d, c, e, s)
    BY <1>6 DEF Holds
  <2> QED BY <1>0, <2>1, HoldsDefaults
<1>7. ASSUME ~g.mixed PROVE Remembers(q, g, d, b, e, s)
  <2>0. Remembers(q, f, d, c, e, s)
    BY <1>7 DEF Holds
  <2>1. g.eo = e
    BY <2>0 DEF Remembers
  <2>2. ASSUME Headed(q, i, s), NEW l \in 1..g.lev, NEW j \in 1..i, ControlsAt(q, j, i, l) PROVE b[l - 1].off = <<d, j>>
    <3>1. CASE l \in 1..n
      <4>1. c[l - 1].off = <<d, j>>
        BY <1>3, <2>0, <2>2, <3>1 DEF Remembers
      <4>2. b[l - 1].off = c[l - 1].off
        BY <1>3, <3>1
      <4> QED BY <4>1, <4>2
    <3>2. CASE l = n + 1
      <4>1. j = i /\ l - 1 = n
        BY <1>0, <1>4, <2>2, <3>2
      <4> QED BY <4>1
    <3> QED BY <1>2, <3>1, <3>2
  <2>3. ASSUME Headed(q, i, s), NEW l \in 1..g.lev, ~b[l].got, NEW j \in g.deep, OpenAt(q, j, i, l)
        PROVE  \E k \in g.hit : j <= k /\ OpenAt(q, k, i, l) /\ (q[k].type = "clear" \/ k \notin g.deep)
    <3>0. j \in 1..i
      BY <1>0
    <3>1. CASE l \in 1..n /\ l # n
      <4>1. ~c[l].got
        BY <1>3, <2>3, <3>1
      <4>2. j # i
        BY <1>1, <2>3, <3>1 DEF OpenAt
      <4>3. PICK k \in f.hit : j <= k /\ OpenAt(q, k, i, l) /\ (q[k].type = "clear" \/ k \notin f.deep)
        BY <1>3, <2>0, <2>3, <3>1, <4>1, <4>2 DEF Remembers
      <4>4. k # i
        BY <1>0
      <4> QED BY <4>3, <4>4
    <3>2. CASE l = n /\ l \in 1..n
      <4>1. q[i].type = "clear"
        BY <1>3, <2>3, <3>2
      <4>2. OpenAt(q, i, i, l)
        BY <1>0, <1>1, <2>3, <3>2 DEF OpenAt
      <4>3. j <= i /\ i \in g.hit
        BY <3>0
      <4> QED BY <4>1, <4>2, <4>3
    <3>3. CASE l = n + 1
      <4>1. i \in j..i
        BY <1>0, <3>0
      <4> QED BY <1>0, <1>1, <2>3, <3>3, <4>1 DEF OpenAt
    <3> QED BY <1>2, <3>1, <3>2, <3>3
  <2> QED BY <2>1, <2>2, <2>3 DEF Remembers
<1> QED BY <1>5, <1>6, <1>7 DEF Holds

\* An entry that matched with its end outside the buffer is as good as a clear.
LEMMA HoldsLeaving ==
    ASSUME NEW q, NEW s, NEW f, NEW g, NEW d, NEW c, NEW b, NEW e, Within(q, f), f.idx > 0,
           Holds(q, f, d, c, e, s), f.pc = "cont", f.lev = q[f.idx].lev,
           ~(f.pc = "cont" /\ q[f.idx].type = "default" /\ c[f.lev].got),
           g \in FrameType, g.eo = f.eo, g.hit = f.hit \cup {f.idx}, g.mixed = f.mixed,
           g.deep = f.deep, g.pc = "while", g.idx = f.idx, g.lev = f.lev,
           \A k \in Levs : b[k].off = c[k].off,
           \A k \in Levs \ {f.lev} : b[k].got = c[k].got
    PROVE  Holds(q, g, d, b, e, s)
<1> DEFINE i == f.idx
           n == f.lev
<1>0. /\ i \in Nat /\ i \in 1..Len(q) /\ Levelled(q) /\ f.deep \subseteq f.hit /\ f.hit \subseteq 1..(i - 1)
      /\ n \in Nat /\ Stands(q, f, s) /\ \A l \in 1..n : l \in Levs /\ l - 1 \in Levs
  BY LevelsBelow DEF Within, Levelled, Stands, Holds
<1>1. Stands(q, g, s)
  BY <1>0 DEF Stands
<1>2. ASSUME ~g.mixed PROVE Defaults(q, g, s)
  <2>1. Defaults(q, f, s) /\ Remembers(q, f, d, c, e, s)
    BY <1>2 DEF Holds
  <2> QED BY <1>0, <2>1, HoldsDefaults
<1>3. ASSUME ~g.mixed PROVE Remembers(q, g, d, b, e, s)
  <2>0. Remembers(q, f, d, c, e, s)
    BY <1>3 DEF Holds
  <2>1. g.eo = e
    BY <2>0 DEF Remembers
  <2>2. ASSUME Headed(q, i, s), NEW l \in 1..n, NEW j \in 1..i, ControlsAt(q, j, i, l) PROVE b[l - 1].off = <<d, j>>
    <3>1. c[l - 1].off = <<d, j>>
      BY <2>0, <2>2 DEF Remembers
    <3> QED BY <1>0, <3>1
  <2>3. ASSUME Headed(q, i, s), NEW l \in 1..n, ~b[l].got, NEW j \in f.deep, OpenAt(q, j, i, l)
        PROVE  \E k \in g.hit : j <= k /\ OpenAt(q, k, i, l) /\ (q[k].type = "clear" \/ k \notin f.deep)
    <3>1. CASE l # n
      <4>1. ~c[l].got
        BY <1>0, <2>3, <3>1
      <4>2. PICK k \in f.hit : j <= k /\ OpenAt(q, k, i, l) /\ (q[k].type = "clear" \/ k \notin f.deep)
        BY <2>0, <2>3, <4>1 DEF Remembers
      <4> QED BY <4>2
    <3>2. CASE l = n
      <4>1. j <= i /\ i \in g.hit /\ i \notin f.deep
        BY <1>0
      <4>2. q[i].lev \in Nat /\ q[i].lev = n
        BY <1>0 DEF Levelled
      <4>3. OpenAt(q, i, i, l)
        BY <1>0, <3>2, <4>2 DEF OpenAt
      <4> QED BY <4>1, <4>3
    <3> QED BY <3>1, <3>2
  <2> QED BY <2>1, <2>2, <2>3 DEF Remembers
<1> QED BY <1>1, <1>2, <1>3 DEF Holds

\* The test of an entry, whatever its outcome.
LEMMA HoldsTested ==
    ASSUME db \in DBs, NEW f \in FrameType, NEW g \in FrameType, NEW c \in LevelType, NEW d, NEW e, Fit(f),
           Holds(ListOf(f), f, d, c, e, flags.badsize), Missed(f, g, c) \/ Matched(f, g, c, d) \/ Fails(f, g)
    PROVE  Holds(ListOf(f), g, d, li', e, flags.badsize)
<1> DEFINE q == ListOf(f)
           b == li'
           i == FlushEnd(f, f.idx)
<1>0. /\ f.list \in DOMAIN db.named \cup {"root"} /\ Size(f) \in Nat /\ f.idx \in 1..Size(f) /\ f.pc \in {"top", "cont"}
      /\ f.lev = (IF f.pc = "top" THEN 0 ELSE Entry(f).lev) /\ f.lev \in 0..MaxLevel
      /\ f.deep \subseteq f.hit /\ f.hit \subseteq 1..f.idx
  BY DEF Fit, Tests
<1>1. /\ Len(q) \in Nat /\ Size(f) = Len(q) /\ \A k \in 1..Len(q) : q[k].lev \in 0..MaxLevel
  BY <1>0, Lists DEF Size
<1>2. Levelled(q)
  BY <1>1, MaxLevelAssumption DEF Levelled
<1>3. i < Len(q) => q[i + 1].lev = 0
  BY <1>0, <1>1, FlushEnds
<1>4. Entry(f) = q[f.idx]
  BY DEF Entry
<1>5. Holds(q, f, d, c, e, flags.badsize)
  OBVIOUS
<1> HIDE DEF q, i
<1>6. Within(q, f) /\ f.idx > 0
  BY <1>0, <1>1, <1>2 DEF Within
<1>7. f.pc = "cont" => f.lev = q[f.idx].lev
  BY <1>0, <1>4
<1>8. f.pc = "top" => f.lev = 0
  BY <1>0
<1> HIDE DEF b
<1>9. CASE Missed(f, g, c)
  <2>1. Marks(f, g) /\ g.eo = f.eo /\ SameLevels(c, b)
    BY <1>9 DEF Missed, b
  <2>2. CASE f.pc = "top" /\ g.pc = "for" /\ g.idx = i
    BY <1>3, <1>5, <1>6, <2>1, <2>2, HoldsBetween DEF q, b
  <2>3. CASE f.pc = "cont" /\ g.pc = "while" /\ g.lev = f.lev /\ g.idx = f.idx
    <3>1. Holds(q, g, d, b, e, flags.badsize)
      BY <1>5, <1>6, <2>1, <2>3, HoldsStill
    <3> QED BY <3>1 DEF q, b
  <2> QED BY <1>9, <2>2, <2>3 DEF Missed, i
<1>10. CASE Fails(f, g)
  <2>1. Marks(f, g) /\ g.pc = "ret"
    BY <1>10 DEF Fails
  <2> QED BY <1>5, <1>6, <2>1, HoldsBetween DEF q, b
<1>11. CASE Matched(f, g, c, d)
  <2>0. g.eo = f.eo
    BY <1>11 DEF Matched
  <2>1. CASE Late(f, g, c)
    <3>1. Marks(f, g) /\ g.pc = "while" /\ g.idx = f.idx /\ g.lev = f.lev /\ SameLevels(c, b) /\ f.pc = "cont"
      BY <2>1 DEF Late, LateDefault, b
    <3>2. Holds(q, g, d, b, e, flags.badsize)
      BY <1>5, <1>6, <2>0, <3>1, HoldsStill
    <3> QED BY <3>2 DEF q, b
  <2>2. ASSUME ~LateDefault(c, f) PROVE ~(f.pc = "cont" /\ q[f.idx].type = "default" /\ c[f.lev].got)
    BY <1>4, <2>2 DEF LateDefault
  <2>3. ASSUME g.pc \in {"for", "ret"}, g.pc = "for" => g.idx = i, ~LateDefault(c, f),
               g.hit = f.hit \cup {f.idx}, g.deep = f.deep, g.mixed = f.mixed
        PROVE  Holds(q, g, d, b, e, flags.badsize)
    <3>1. Stands(q, g, flags.badsize)
      BY <1>3, <2>3 DEF Stands
    <3>2. ASSUME ~g.mixed PROVE Defaults(q, g, flags.badsize)
      <4>1. Stands(q, f, flags.badsize) /\ Defaults(q, f, flags.badsize) /\ Remembers(q, f, d, c, e, flags.badsize)
        BY <1>5, <2>3, <3>2 DEF Holds
      <4> QED BY <1>0, <1>1, <1>6, <1>7, <2>2, <2>3, <4>1, HoldsDefaults
    <3>3. Remembers(q, g, d, b, e, flags.badsize)
      BY <2>3 DEF Remembers
    <3> QED BY <3>1, <3>2, <3>3 DEF Holds
  <2>4. CASE Annotated(f, g, c)
    <3>1. Holds(q, g, d, b, e, flags.badsize)
      BY <2>3, <2>4 DEF Annotated
    <3> QED BY <3>1 DEF q, b
  <2>5. CASE Described(f, g, c, d)
    <3>1. ~LateDefault(c, f) /\ g.hit = f.hit \cup {f.idx} /\ g.mixed = f.mixed
      BY <2>5 DEF Described
    <3>2. CASE Entering(f, g, c, d)
      <4>1. /\ g.deep = f.deep \cup {f.idx} /\ g.pc = "while" /\ g.idx = f.idx /\ g.lev = f.lev + 1
            /\ b[f.lev].off = <<d, f.idx>>
            /\ \A k \in Levs \ {f.lev} : b[k].off = c[k].off
            /\ \A k \in Levs \ {f.lev, f.lev + 1} : b[k].got = c[k].got
            /\ f.pc # "top" => (b[f.lev].got <=> q[f.idx].type # "clear")
            /\ ~b[f.lev + 1].got
        BY <1>4, <3>2 DEF Entering, b
      <4> DEFINE s == flags.badsize
      <4>1a. Holds(q, f, d, c, e, s)
        BY <1>5
      <4> HIDE DEF s
      <4>2. Holds(q, g, d, b, e, s)
        BY <1>0, <1>1, <1>6, <1>7, <1>8, <2>0, <2>2, <3>1, <4>1, <4>1a, HoldsEntering
      <4> QED BY <4>2 DEF q, b, s
    <3>3. CASE Leaving(f, g, c) /\ f.pc = "top"
      <4>1. g.pc = "for" /\ g.idx = i /\ g.deep = f.deep
        BY <3>3 DEF Leaving, i
      <4>2. Holds(q, g, d, b, e, flags.badsize)
        BY <2>3, <3>1, <4>1
      <4> QED BY <4>2 DEF q, b
    <3>4. CASE Leaving(f, g, c) /\ f.pc = "cont"
      <4>1. /\ g.deep = f.deep /\ g.pc = "while" /\ g.lev = f.lev /\ g.idx = f.idx
            /\ \A k \in Levs : b[k].off = c[k].off
            /\ \A k \in Levs \ {f.lev} : b[k].got = c[k].got
        BY <3>4 DEF Leaving, b
      <4>2. Holds(q, g, d, b, e, flags.badsize)
        BY <1>0, <1>1, <1>5, <1>6, <1>7, <2>0, <2>2, <3>1, <3>4, <4>1, HoldsLeaving
      <4> QED BY <4>2 DEF q, b
    <3> QED BY <1>0, <2>5, <3>2, <3>3, <3>4 DEF Described
  <2> QED BY <1>11, <2>1, <2>4, <2>5 DEF Matched
<1> QED BY <1>9, <1>10, <1>11

\* What Kept says of the last call, and of the call below it.
LEMMA KeptTop ==
    ASSUME Calls, Kept, Depth > 0
    PROVE  /\ Holds(ListOf(Top), Top, Depth, li, eoff, flags.badsize) /\ Within(ListOf(Top), Top) /\ Len(ListOf(Top)) = Size(Top)
           /\ Depth > 1 => /\ Stands(ListOf(Caller), Caller, flags.badsize)
                           /\ ~Caller.mixed => /\ Top.call = "use" /\ Defaults(ListOf(Caller), Caller, flags.badsize)
                                               /\ Remembers(ListOf(Caller), Caller, Depth - 1, Top.li, Top.eoff, flags.badsize)
<1>0. Depth \in Nat /\ Depth \in 1..Depth
  BY Frames
<1> DEFINE d == Depth
           f == stack[d]
<1>1. f = Top /\ d \in 1..Depth
  BY <1>0 DEF Top
<1>2. Holds(ListOf(f), f, d, li, eoff, flags.badsize)
  BY <1>1 DEF Kept, Holds
<1>3. f \in FrameType /\ FrameOK(f) /\ Size(f) \in Nat /\ \A i \in 1..Size(f) : ListOf(f)[i].lev \in 0..MaxLevel
  BY <1>1, Frames
<1> HIDE DEF f
<1>4. Within(ListOf(f), f) /\ Len(ListOf(f)) = Size(f)
  BY <1>3, MaxLevelAssumption, LevelsBelow DEF Within, Levelled, FrameOK, Size
<1>5. ASSUME Depth > 1
      PROVE  /\ Stands(ListOf(Caller), Caller, flags.badsize)
             /\ ~Caller.mixed => /\ Top.call = "use" /\ Defaults(ListOf(Caller), Caller, flags.badsize)
                                 /\ Remembers(ListOf(Caller), Caller, Depth - 1, Top.li, Top.eoff, flags.badsize)
  <2> DEFINE n == Depth - 1
  <2>1. n \in 1..Depth /\ n < Depth /\ n + 1 = Depth
    BY <1>0, <1>5
  <2>2. Caller = stack[n] /\ Top = stack[n + 1]
    BY <2>1 DEF Caller, Top
  <2> HIDE DEF n
  <2>3. /\ Stands(ListOf(stack[n]), stack[n], flags.badsize)
        /\ ~stack[n].mixed => /\ stack[n + 1].call = "use" /\ Defaults(ListOf(stack[n]), stack[n], flags.badsize)
                              /\ Remembers(ListOf(stack[n]), stack[n], n, stack[n + 1].li, stack[n + 1].eoff, flags.badsize)
    BY <2>1 DEF Kept
  <2> QED BY <2>2, <2>3 DEF n
<1> QED BY <1>1, <1>2, <1>4, <1>5

\* The rest of the invariant, when a call goes on or returns to its caller.
LEMMA KeptStep ==
    ASSUME Calls, Kept, NEW n \in {Depth, Depth - 1}, n > 0, NEW g \in FrameType, Becomes(n, g), Keeps(stack[n], g),
           UNCHANGED <<db, flags>>, Holds(ListOf(g), g, n, li', eoff', flags.badsize)
    PROVE  Kept'
<1>0. Depth \in Nat /\ n \in 1..Depth /\ Depth' = n
  BY Frames DEF Becomes, Depth
<1>1. \A d \in 1..n : (d < n => stack'[d] = stack[d]) /\ (d = n => stack'[d] = g)
  BY <1>0 DEF Becomes
<1>2. g.call = stack[n].call /\ g.li = stack[n].li /\ g.eoff = stack[n].eoff
  BY DEF Keeps
<1>3. ASSUME NEW d \in 1..n
      PROVE  LET f == stack'[d]
                 q == ListOf(f)
             IN  /\ Stands(q, f, flags.badsize)
                 /\ ~f.mixed => /\ Defaults(q, f, flags.badsize)
                                /\ d = n => Remembers(q, f, d, li', eoff', flags.badsize)
                                /\ d < n => /\ stack'[d+1].call = "use"
                                            /\ Remembers(q, f, d, stack'[d+1].li, stack'[d+1].eoff, flags.badsize)
  <2>1. CASE d = n
    BY <1>0, <1>1, <1>3, <2>1 DEF Holds
  <2>2. CASE d < n
    <3> DEFINE f == stack[d]
               h == stack[d+1]
    <3>1. d \in 1..Depth /\ d < Depth /\ stack'[d] = f /\ d + 1 \in 1..n
      BY <1>0, <1>1, <2>2
    <3>2. stack'[d+1].call = h.call /\ stack'[d+1].li = h.li /\ stack'[d+1].eoff = h.eoff
      BY <1>0, <1>1, <1>2, <3>1
    <3>3. /\ Stands(ListOf(f), f, flags.badsize)
          /\ ~f.mixed => /\ Defaults(ListOf(f), f, flags.badsize) /\ h.call = "use"
                         /\ Remembers(ListOf(f), f, d, h.li, h.eoff, flags.badsize)
      BY <1>3, <3>1 DEF Kept
    <3> HIDE DEF f, h
    <3> QED BY <1>0, <2>2, <3>1, <3>2, <3>3
  <2> QED BY <1>0, <2>1, <2>2
<1> QED BY <1>0, <1>3 DEF Kept, ListOf

\* A new call, made by the last one.
LEMMA KeptStart ==
    ASSUME Calls, Kept, Depth > 0, NEW f \in FrameType, NEW g \in FrameType, NEW name \in DOMAIN db.named \cup {"root"}, NEW call,
           stack' \in Seq(FrameType), Len(stack') = Depth + 1, stack'[Depth] = f, stack'[Depth + 1] = g,
           \A d \in 1..(Depth - 1) : stack'[d] = stack[d],
           Keeps(Top, f), f.hit = Top.hit, f.deep = Top.deep, f.pc = Top.pc, f.idx = Top.idx, f.lev = Top.lev,
           f.mixed \/ (call = "use" /\ f = Top),
           Starts(g, name, call), UNCHANGED <<db, flags>>
    PROVE  Kept'
<1>0. Depth \in Nat /\ Depth \in 1..Depth /\ Depth' = Depth + 1 /\ db \in DBs
  BY Frames DEF Depth
<1> DEFINE n == Depth
           t == stack[n]
<1>1. t = Top /\ f.call = t.call /\ f.li = t.li /\ f.eoff = t.eoff /\ ListOf(f) = ListOf(t)
  BY DEF Top, Keeps, ListOf
<1>2. /\ \A d \in 1..(n + 1) : (d < n => stack'[d] = stack[d]) /\ (d = n => stack'[d] = f) /\ (d = n + 1 => stack'[d] = g)
      /\ \A d \in 1..(n + 1) : d < n \/ d = n \/ d = n + 1
  BY <1>0
<1>3. g.list \in DOMAIN db.named \cup {"root"} /\ g.pc = "for" /\ g.idx = 0 /\ g.hit = {} /\ g.deep = {}
      /\ g.call = call /\ g.li = li /\ g.eoff = eoff
  BY DEF Starts
<1>4. \A b, e : Holds(ListOf(g), g, n + 1, b, e, flags.badsize)
  <2> DEFINE q == ListOf(g)
  <2>1. q[1].lev = 0 \/ ~Headed(q, 1, flags.badsize)
    BY DEF Headed
  <2> HIDE DEF q
  <2>2. Stands(q, g, flags.badsize)
    BY <1>3, <2>1 DEF Stands
  <2>3. Defaults(q, g, flags.badsize) /\ \A b, e : Remembers(q, g, n + 1, b, e, flags.badsize)
    BY <1>3 DEF Defaults, Remembers
  <2> QED BY <2>2, <2>3 DEF Holds, q
<1>5. /\ Stands(ListOf(f), f, flags.badsize)
      /\ ~f.mixed => Defaults(ListOf(f), f, flags.badsize) /\ call = "use" /\ Remembers(ListOf(f), f, n, li, eoff, flags.badsize)
  <2>1. Holds(ListOf(t), t, n, li, eoff, flags.badsize)
    BY <1>1, KeptTop
  <2>2. Stands(ListOf(f), f, flags.badsize)
    <3> DEFINE q == ListOf(t)
    <3>1. Stands(q, t, flags.badsize) /\ f.hit = t.hit /\ f.deep = t.deep /\ f.pc = t.pc /\ f.idx = t.idx /\ f.lev = t.lev
      BY <1>1, <2>1 DEF Holds
    <3> HIDE DEF q, t
    <3>2. Stands(q, f, flags.badsize)
      BY <3>1 DEF Stands
    <3> QED BY <1>1, <3>2 DEF q
  <2>3. ~f.mixed => f = t /\ call = "use"
    BY <1>1
  <2> QED BY <1>1, <2>1, <2>2, <2>3 DEF Holds
<1>6. ASSUME NEW d \in 1..(n + 1)
      PROVE  LET h == stack'[d]
                 q == ListOf(h)
             IN  /\ Stands(q, h, flags.badsize)
                 /\ ~h.mixed => /\ Defaults(q, h, flags.badsize)
                                /\ d = n + 1 => Remembers(q, h, d, li', eoff', flags.badsize)
                                /\ d < n + 1 => /\ stack'[d+1].call = "use"
                                                /\ Remembers(q, h, d, stack'[d+1].li, stack'[d+1].eoff, flags.badsize)
  <2>1. CASE d = n + 1
    <3>1. stack'[d] = g
      BY <1>2, <2>1
    <3> QED BY <1>0, <1>4, <2>1, <3>1 DEF Holds
  <2>2. CASE d = n
    <3>1. stack'[d] = f /\ stack'[d + 1] = g /\ d # n + 1
      BY <1>0, <1>2, <2>2
    <3> QED BY <1>3, <1>5, <2>2, <3>1
  <2>3. CASE d < n
    <3> DEFINE h == stack[d]
               x == stack[d+1]
    <3>1. d \in 1..Depth /\ d < Depth /\ stack'[d] = h /\ d + 1 \in 1..n /\ d + 1 \in 1..(n + 1) /\ d # n + 1
      BY <1>0, <1>2, <2>3
    <3>2. stack'[d+1].call = x.call /\ stack'[d+1].li = x.li /\ stack'[d+1].eoff = x.eoff
      BY <1>0, <1>1, <1>2, <3>1
    <3>3. /\ Stands(ListOf(h), h, flags.badsize)
          /\ ~h.mixed => /\ Defaults(ListOf(h), h, flags.badsize) /\ x.call = "use"
                         /\ Remembers(ListOf(h), h, d, x.li, x.eoff, flags.badsize)
      BY <1>6, <3>1 DEF Kept
    <3> HIDE DEF h, x
    <3> QED BY <2>3, <3>1, <3>2, <3>3
  <2> QED BY <1>2, <2>1, <2>2, <2>3
<1> QED BY <1>0, <1>6 DEF Kept, ListOf

\* Every step keeps it.
LEMMA KeptInductive == ASSUME Calls, Kept, [Next]_vars PROVE Kept'
<1>0. Depth \in Nat /\ db \in DBs /\ li \in LevelType
  BY Frames
<1>1. CASE UNCHANGED vars
  BY <1>1 DEF vars, Kept, Depth, ListOf
<1>2. ASSUME Depth > 0, NEW g \in FrameType, Continues(Top, g), UNCHANGED <<db, flags, li>>,
             Holds(ListOf(Top), g, Depth, li', eoff', flags.badsize)
      PROVE  Kept'
  <2> DEFINE n == Depth
  <2>1. n \in {Depth, Depth - 1} /\ n > 0 /\ Becomes(n, g) /\ Keeps(stack[n], g) /\ ListOf(g) = ListOf(Top)
    BY <1>2 DEF Continues, Top, Keeps, ListOf
  <2> QED BY <1>2, <2>1, KeptStep
<1>3. ASSUME Depth > 0, NEW g \in FrameType, Continues(Top, g), UNCHANGED <<db, flags, li>>,
             LET q == ListOf(Top)
                 s == flags.badsize
             IN  \/ g.pc = "ret"
                 \/ g.pc = "for" /\ (g.idx < Len(q) => q[g.idx + 1].lev = 0 \/ ~Headed(q, g.idx + 1, s))
                 \/ g.pc = "top" /\ g.idx = Top.idx + 1 /\ (q[g.idx].lev = 0 \/ ~Headed(q, g.idx, s)) /\ g.eo = eoff'
      PROVE  Kept'
  <2>1. Holds(ListOf(Top), g, Depth, li', eoff', flags.badsize)
    <3> DEFINE q == ListOf(Top)
               f == Top
               d == Depth
               b == li'
               u == eoff'
               s == flags.badsize
    <3>1. Within(q, f) /\ Holds(q, f, d, li, eoff, flags.badsize) /\ Marks(f, g)
      BY <1>3, KeptTop DEF Continues
    <3>2. \/ g.pc = "ret"
          \/ g.pc = "for" /\ (g.idx < Len(q) => q[g.idx + 1].lev = 0 \/ ~Headed(q, g.idx + 1, s))
          \/ g.pc = "top" /\ g.idx = f.idx + 1 /\ (q[g.idx].lev = 0 \/ ~Headed(q, g.idx, s)) /\ g.eo = u
      BY <1>3
    <3>2a. Holds(q, f, d, li, eoff, s)
      BY <3>1
    <3> HIDE DEF q, f, d, b, u, s
    <3>3. Holds(q, g, d, b, u, s)
      BY <3>1, <3>2, <3>2a, HoldsBetween
    <3> QED BY <3>3 DEF q, d, b, u, s
  <2> QED BY <1>2, <1>3, <2>1
<1>4. CASE ForEntry
  <2>1. /\ Depth > 0 /\ Top.pc = "for" /\ Top.idx + 1 \in 1..Size(Top) /\ UNCHANGED <<db, flags, li>>
    BY <1>4, ForEntryDoes DEF globals
  <2>2. PICK g \in FrameType : /\ Continues(Top, g)
                               /\ \/ g.pc = "top" /\ g.idx = Top.idx + 1 /\ g.eo = eoff'
                                  \/ g.pc = "for" /\ g.idx = FlushEnd(Top, Top.idx + 1)
                                  \/ /\ flags.badsize /\ g.pc = "for" /\ g.idx = Top.idx + 1
                                     /\ ListOf(Top)[Top.idx + 1].from = "end"
    BY <1>4, ForEntryDoes
  <2> DEFINE q == ListOf(Top)
             n == Top.idx + 1
             i == FlushEnd(Top, n)
             s == flags.badsize
  <2>3. Stands(q, Top, s) /\ Len(q) = Size(Top) /\ Top.idx \in Nat /\ Len(q) \in Nat
    <3>1. Stands(q, Top, s) /\ Len(q) = Size(Top)
      BY <2>1, KeptTop DEF Holds
    <3>2. Top.idx \in Nat /\ Len(q) \in Nat
      BY <1>0, <2>1, Frames DEF Top, FrameType, Size
    <3> QED BY <3>1, <3>2
  <2>4. q[n].lev = 0 \/ ~Headed(q, n, s)
    BY <2>1, <2>3 DEF Stands
  <2>5. i < Len(q) => q[i + 1].lev = 0
    BY <2>1, <2>3, FlushEnds
  <2>6. s /\ q[n].from = "end" => q[n + 1].lev = 0 \/ ~Headed(q, n + 1, s)
    <3> n \in Nat
      BY <2>3
    <3> HIDE DEF n, q, s
    <3> QED BY <2>4, HeadedBefore
  <2> HIDE DEF i, q, s
  <2>7. \/ g.pc = "for" /\ (g.idx < Len(q) => q[g.idx + 1].lev = 0 \/ ~Headed(q, g.idx + 1, s))
        \/ g.pc = "top" /\ g.idx = Top.idx + 1 /\ (q[g.idx].lev = 0 \/ ~Headed(q, g.idx, s)) /\ g.eo = eoff'
    BY <2>2, <2>4, <2>5, <2>6 DEF i, q, s
  <2> QED BY <1>3, <2>1, <2>2, <2>7 DEF q, s
<1>5. ASSUME Depth > 0, NEW g \in FrameType, Continues(Top, g), UNCHANGED <<db, flags, li>>, g.pc = "ret" PROVE Kept'
  BY <1>3, <1>5
<1>6. CASE ForEnd
  BY <1>5, <1>6, ForEndDoes DEF Ends, globals
<1>7. CASE WhileEntry
  <2> DEFINE q == ListOf(Top)
             n == Top.idx + 1
             i == FlushEnd(Top, n)
  <2>1. /\ Depth > 0 /\ Top.pc = "while" /\ n \in 1..Size(Top) /\ UNCHANGED <<db, flags, li>> /\ q[n].lev \in 1..MaxLevel
    BY <1>7, WhileEntryDoes DEF globals
  <2>2. PICK g \in FrameType : /\ Continues(Top, g)
                 /\ \/ g.pc = "while" /\ g.idx = n /\ g.lev = Top.lev /\ g.eo = Top.eo /\ eoff' = eoff /\ Top.lev < q[n].lev
                    \/ g.pc = "for" /\ g.idx = i
                    \/ /\ g.pc \in {"while", "cont"} /\ g.idx = n /\ g.lev = q[n].lev /\ ~(Top.lev < q[n].lev)
                       /\ Top.eo = eoff => g.eo = eoff'
    BY <1>7, WhileEntryDoes
  <2>3. CASE g.pc = "for" /\ g.idx = i
    <3>1. Top.idx \in Nat /\ Size(Top) \in Nat /\ Size(Top) = Len(q)
      BY <1>0, <2>1, Frames DEF Top, FrameType, Size
    <3>2. i < Len(q) => q[i + 1].lev = 0
      BY <2>1, <3>1, FlushEnds
    <3> HIDE DEF i
    <3> QED BY <1>3, <2>1, <2>2, <2>3, <3>2
  <2>4. CASE g.pc \in {"while", "cont"}
    <3>1. Holds(q, g, Depth, li', eoff', flags.badsize)
      <4> DEFINE f == Top
                 d == Depth
                 u == eoff'
      <4>1. Within(q, f) /\ Holds(q, f, d, li, eoff, flags.badsize) /\ Marks(f, g) /\ Size(Top) = Len(q) /\ f.lev \in Nat
        BY <2>1, <2>2, KeptTop, LevelsBelow DEF Continues, Within
      <4>2. Len(q) \in Nat /\ q[n].lev \in Nat /\ q[n].lev > 0 /\ MaxLevel \in Nat
        BY <2>1, <4>1, MaxLevelAssumption DEF Within, Levelled
      <4>3. f.pc = "while" /\ g.idx = f.idx + 1 /\ g.idx <= Len(q) /\ q[g.idx].lev > 0
        BY <2>1, <2>2, <2>4, <4>1, <4>2
      <4>4. g.lev <= f.lev /\ g.lev <= q[g.idx].lev
        BY <2>2, <2>4, <4>1, <4>2
      <4>5. f.eo = eoff => g.eo = u
        BY <2>2, <2>4
      <4> HIDE DEF q, f, d, u
      <4>6. Holds(q, g, d, li, u, flags.badsize)
        BY <2>4, <4>1, <4>3, <4>4, <4>5, HoldsNext
      <4> QED BY <2>1, <4>6 DEF d, u
    <3> QED BY <1>2, <2>1, <2>2, <3>1
  <2> QED BY <2>2, <2>3, <2>4
<1>8. CASE WhileEnd
  <2>1. Depth > 0 /\ Top.pc = "while" /\ ~MoreContinuations(Top) /\ UNCHANGED <<db, flags, li>>
    BY <1>8, WhileEndDoes
  <2>2. CASE \E g \in FrameType : Ends(Top, g)
    BY <1>5, <2>1, <2>2 DEF Ends
  <2>3. ASSUME NEW g \in FrameType, Continues(Top, g), g.pc = "for", g.idx = Top.idx PROVE Kept'
    <3>1. g.idx < Len(ListOf(Top)) => ListOf(Top)[g.idx + 1].lev = 0
      BY <2>1, <2>3 DEF MoreContinuations, Size
    <3> QED BY <1>3, <2>1, <2>3, <3>1
  <2> QED BY <1>8, <2>2, <2>3, WhileEndDoes
<1>9. CASE TestError
  BY <1>5, <1>9, TestErrorDoes DEF fixed
<1>10. ASSUME Depth > 0, NEW g \in FrameType, Tests(Top), Becomes(Depth, g), Missed(Top, g, li) \/ Matched(Top, g, li, Depth),
              UNCHANGED <<db, flags, eoff>>
       PROVE  Kept'
  <2> DEFINE f == Top
             d == Depth
  <2>1. Fit(f) /\ f \in FrameType /\ Keeps(f, g)
    BY <1>10, AreFit DEF Tests, Missed, Matched
  <2>2. Holds(ListOf(f), g, d, li', eoff, flags.badsize)
    <3>1. Holds(ListOf(f), f, d, li, eoff, flags.badsize) /\ (Missed(f, g, li) \/ Matched(f, g, li, d) \/ Fails(f, g))
      BY <1>10, KeptTop
    <3> HIDE DEF f, d
    <3> QED BY <1>0, <2>1, <3>1, HoldsTested
  <2>3. f = stack[d] /\ ListOf(g) = ListOf(f) /\ d \in {Depth, Depth - 1} /\ d > 0
    BY <1>10, <2>1 DEF Top, Keeps, ListOf
  <2> QED BY <1>10, <2>1, <2>2, <2>3, KeptStep
<1>11. CASE TestMiss
  BY <1>10, <1>11, TestMissDoes DEF fixed
<1>12. CASE TestHit
  BY <1>10, <1>12, TestHitDoes DEF fixed
<1>13. CASE Use
  <2> DEFINE t == Top
             name == Entry(t).name
             call == "use"
  <2>1. Depth > 0 /\ Tests(t) /\ name \in DOMAIN db.named \cup {"root"} /\ UNCHANGED <<db, flags>>
    BY <1>13, UseDoes
  <2>2. PICK g \in FrameType : Becomes(Depth + 1, g) /\ Starts(g, name, call)
    BY <1>13, UseDoes
  <2>3. t \in FrameType /\ t = stack[Depth] /\ Keeps(t, t)
    BY <2>1 DEF Tests, Top, Keeps
  <2>4. stack' \in Seq(FrameType) /\ Len(stack') = Depth + 1 /\ stack'[Depth] = t /\ stack'[Depth + 1] = g
        /\ \A d \in 1..(Depth - 1) : stack'[d] = stack[d]
    <3>1. (Depth + 1) - 1 = Depth /\ Depth \in 1..Depth
      BY <1>0, <2>1
    <3> QED BY <1>0, <2>2, <2>3, <3>1 DEF Becomes
  <2> HIDE DEF name
  <2> QED BY <1>0, <2>1, <2>2, <2>3, <2>4, KeptStart
<1>14. CASE Indirect
  <2> DEFINE name == "root"
             call == "indirect"
  <2>1. Depth > 0 /\ name \in DOMAIN db.named \cup {"root"} /\ UNCHANGED <<db, flags>>
    BY <1>14, IndirectDoes
  <2>2. PICK f, g \in FrameType :
                 /\ stack' \in Seq(FrameType) /\ Len(stack') = Depth + 1 /\ stack'[Depth] = f /\ stack'[Depth + 1] = g
                 /\ \A d \in 1..(Depth - 1) : stack'[d] = stack[d]
                 /\ Keeps(Top, f) /\ f.hit = Top.hit /\ f.deep = Top.deep /\ f.mixed
                 /\ f.pc = Top.pc /\ f.idx = Top.idx /\ f.lev = Top.lev
                 /\ Starts(g, name, call)
    BY <1>14, IndirectDoes
  <2> HIDE DEF call, name
  <2> QED BY <1>0, <2>1, <2>2, KeptStart
<1>15. ASSUME Depth > 1, NEW f \in FrameType, NEW g \in FrameType, NEW r, NEW x, Told(f, r, x), Becomes(Depth - 1, g),
              NEW c \in LevelType, NEW e, eoff' = e, UNCHANGED <<db, flags>>,
              Missed(f, g, c) \/ Matched(f, g, c, Depth - 1) \/ Fails(f, g),
              Caller.mixed \/ (c = Top.li /\ e = Top.eoff) \/ Top.call = "indirect"
       PROVE  Kept'
  <2> DEFINE n == Depth - 1
             k == Caller
  <2>1. /\ Fit(f) /\ Keeps(f, g) /\ Keeps(k, f) /\ Marks(k, f) /\ f.eo = k.eo /\ f.pc = k.pc /\ f.idx = k.idx /\ f.lev = k.lev
    BY <1>15, AreFit DEF Told, Missed, Matched, Fails
  <2>2. n \in {Depth, Depth - 1} /\ n > 0 /\ k = stack[n]
    BY <1>0, <1>15 DEF Caller
  <2>3. Keeps(stack[n], g) /\ ListOf(g) = ListOf(f) /\ ListOf(f) = ListOf(k)
    <3> HIDE DEF k, n
    <3> QED BY <2>1, <2>2 DEF Keeps, ListOf
  <2>4. Holds(ListOf(g), g, n, li', eoff', flags.badsize)
    <3> DEFINE q == ListOf(f)
    <3>1. /\ Stands(q, k, flags.badsize)
          /\ ~k.mixed => Defaults(q, k, flags.badsize) /\ Remembers(q, k, n, c, e, flags.badsize)
      <4>1. /\ Stands(ListOf(k), k, flags.badsize)
            /\ ~k.mixed => /\ Top.call = "use" /\ Defaults(ListOf(k), k, flags.badsize)
                           /\ Remembers(ListOf(k), k, n, Top.li, Top.eoff, flags.badsize)
        BY <1>0, <1>15, KeptTop
      <4>2. ListOf(k) = q
        BY <2>3
      <4>3. ~k.mixed => Top.call # "indirect"
        BY <4>1
      <4>4. ~k.mixed => c = Top.li /\ e = Top.eoff
        BY <1>15, <4>3
      <4> HIDE DEF k, n, q
      <4> QED BY <4>1, <4>2, <4>4
    <3> HIDE DEF k, n, q
    <3>2. Holds(q, f, n, c, e, flags.badsize)
      <4>1. Stands(q, f, flags.badsize)
        BY <2>1, <3>1 DEF Stands, Marks
      <4>2. ~f.mixed => ~k.mixed /\ Defaults(q, f, flags.badsize)
        BY <2>1, <3>1 DEF Defaults, Marks
      <4>3. ~k.mixed => Remembers(q, f, n, c, e, flags.badsize)
        BY <2>1, <3>1 DEF Remembers, Marks
      <4> QED BY <4>1, <4>2, <4>3 DEF Holds
    <3>3. Holds(q, g, n, li', e, flags.badsize)
      BY <1>0, <1>15, <2>1, <3>2, HoldsTested DEF q, n
    <3> QED BY <1>15, <2>3, <3>3 DEF q
  <2> HIDE DEF n
  <2> QED BY <1>15, <2>2, <2>3, <2>4, KeptStep DEF n
<1>16. CASE UseReturn
  <2> DEFINE c == Top.li
             e == Top.eoff
  <2>1. Depth > 1 /\ eoff' = e /\ UNCHANGED <<db, flags>>
    BY <1>16, UseReturnDoes
  <2>2. PICK f \in FrameType, g \in FrameType : /\ Told(f, Top.ret, Caller.found \/ Top.found) /\ Becomes(Depth - 1, g)
                                                /\ Missed(f, g, c) \/ Matched(f, g, c, Depth - 1) \/ Fails(f, g)
    BY <1>16, UseReturnDoes
  <2>3. c \in LevelType
    BY <1>0, <2>1, Frames DEF Top, FrameType
  <2> DEFINE r == Top.ret
             x == Caller.found \/ Top.found
  <2>4. Told(f, r, x) /\ c = Top.li /\ e = Top.eoff
    BY <2>2
  <2> HIDE DEF c, e, r, x
  <2> QED BY <1>15, <2>1, <2>2, <2>3, <2>4
<1>17. CASE IndirectReturn
  <2> DEFINE c == li
             e == eoff
  <2>1. Depth > 1 /\ eoff' = e /\ UNCHANGED <<db, flags>> /\ Top.call = "indirect"
    BY <1>17, IndirectReturnDoes
  <2>2. PICK f \in FrameType, g \in FrameType : /\ \E r, x : Told(f, r, x) /\ Becomes(Depth - 1, g)
                                                /\ Missed(f, g, c) \/ Matched(f, g, c, Depth - 1) \/ Fails(f, g)
    BY <1>17, IndirectReturnDoes
  <2>3. c \in LevelType
    BY <1>0
  <2> HIDE DEF c, e
  <2> QED BY <1>15, <2>1, <2>2, <2>3
<1>18. CASE RootReturn
  <2>1. Depth' = 0 /\ 1..0 = {}
    BY <1>18 DEF RootReturn, Depth
  <2> QED BY <2>1 DEF Kept
<1> QED BY <1>1, <1>4, <1>6, <1>7, <1>8, <1>9, <1>11, <1>12, <1>13, <1>14, <1>16, <1>17, <1>18 DEF Next, Step, Finished

\* The first call has not begun.
LEMMA KeptInit == Init => Kept
<1> SUFFICES ASSUME Init PROVE Kept
  OBVIOUS
<1> DEFINE f == stack[1]
           q == ListOf(f)
<1>1. Depth = 1 /\ Starts(f, "root", "root") /\ db \in DBs
  BY FirstCall DEF Init
<1>2. f.list \in DOMAIN db.named \cup {"root"} /\ f.pc = "for" /\ f.idx = 0 /\ f.hit = {} /\ f.deep = {}
  BY <1>1 DEF Starts
<1> HIDE DEF f
<1>3. q[1].lev = 0 \/ ~Headed(q, 1, flags.badsize)
  BY DEF Headed
<1> HIDE DEF q
<1>4. Stands(q, f, flags.badsize) /\ Defaults(q, f, flags.badsize) /\ Remembers(q, f, 1, li, eoff, flags.badsize)
  BY <1>2, <1>3 DEF Stands, Defaults, Remembers
<1>5. 1..1 = {1} /\ ~(1 < 1)
  OBVIOUS
<1> QED BY <1>1, <1>4, <1>5 DEF Kept, f, q

\* The entry a call tests, and the entry that controls it.
LEMMA Controlling ==
    ASSUME Calls, Kept, AtTest, Headed(ListOf(Top), Top.idx, flags.badsize)
    PROVE  LET q == ListOf(Top)
               i == Top.idx
           IN  /\ Entry(Top) = q[i] /\ (Top.pc = "top" <=> q[i].lev = 0) /\ q[i].lev \in Nat
               /\ Top.pc = "cont" => /\ Top.lev = q[i].lev /\ Parent(q, i) \in Top.deep /\ Parent(q, i) \in 1..i
                                     /\ ControlsAt(q, Parent(q, i), i, Top.lev) /\ q[Parent(q, i)].lev = q[i].lev - 1
<1> DEFINE f == Top
           q == ListOf(f)
           i == f.idx
<1>1. Depth \in Nat /\ Depth > 0 /\ f.pc \in {"top", "cont"} /\ f = stack[Depth] /\ Depth \in 1..Depth
  BY Frames DEF AtTest, Top
<1>2. Tests(f)
  BY <1>1, AtTests
<1>3. Within(q, f) /\ Stands(q, f, flags.badsize) /\ Len(q) = Size(f) /\ Headed(q, i, flags.badsize)
  BY <1>1, KeptTop DEF Holds
<1>4. Entry(f) = q[i]
  BY DEF Entry
<1> HIDE DEF q, f
<1>5. i \in 1..Len(q) /\ q[i].lev \in Nat /\ Levelled(q)
  BY <1>2, <1>3 DEF Within, Levelled, Tests
<1>6. f.pc = "top" <=> q[i].lev = 0
  BY <1>1, <1>3 DEF Stands
<1>7. ASSUME f.pc = "cont"
      PROVE  /\ f.lev = q[i].lev /\ Parent(q, i) \in f.deep /\ Parent(q, i) \in 1..i
             /\ ControlsAt(q, Parent(q, i), i, f.lev) /\ q[Parent(q, i)].lev = q[i].lev - 1
  <2>1. f.lev = q[i].lev
    BY <1>2, <1>4, <1>7 DEF Tests
  <2>2. q[i].lev > 0 /\ f.lev \in 1..f.lev
    BY <1>5, <1>6, <1>7, <2>1
  <2>3. PICK j \in f.deep : ControlsAt(q, j, i, f.lev) /\ q[j].lev = f.lev - 1
    BY <1>3, <1>7, <2>2 DEF Stands
  <2>4. Parent(q, i) = j /\ j \in 1..(i - 1)
    <3> HIDE DEF i
    <3> QED BY <1>5, <2>1, <2>2, <2>3, ControlIs
  <2>5. j \in 1..i
    BY <2>3 DEF ControlsAt
  <2> QED BY <2>1, <2>3, <2>4, <2>5
<1> QED BY <1>4, <1>5, <1>6, <1>7 DEF q, f

\* A continuation is run only when the entry that controls it, one level below, matched in
\* the same call of match() with its end inside the buffer, whatever lists were used in
\* between and whatever levels the database skips; unless its top-level entry counts from
\* the end of a file of unknown size or is missing.
THEOREM ContinuationsAreControlled == Spec => []Controlled
<1>1. Calls /\ Kept => Controlled
  <2> SUFFICES ASSUME Calls, Kept, AtTest, Headed(ListOf(Top), Top.idx, flags.badsize)
               PROVE  IF Entry(Top).lev = 0 THEN Top.pc = "top"
                      ELSE /\ Top.pc = "cont" /\ Parent(ListOf(Top), Top.idx) \in Top.deep
                           /\ ListOf(Top)[Parent(ListOf(Top), Top.idx)].lev = Entry(Top).lev - 1
    BY DEF Controlled
  <2>1. Top.pc \in {"top", "cont"}
    BY DEF AtTest
  <2> QED BY <2>1, Controlling
<1> QED BY <1>1, CallsInit, KeptInit, CallsInductive, KeptInductive, PTL DEF Spec

\* A "&" offset counts from the end of the field of the entry that controls it, and an
\* offset relative to ms->eoffset from what the same call of match() put there, unless the
\* call has run an indirect test or, for "&", the top-level entry was not run.
THEOREM OffsetsAreTheirOwn == Spec => []RelativeBase
<1>1. Calls /\ Kept => RelativeBase
  <2> SUFFICES ASSUME Calls, Kept, AtTest, ~Top.mixed, Top.pc = "cont"
               PROVE  /\ Headed(ListOf(Top), Top.idx, flags.badsize) =>
                             li[Top.lev - 1].off = <<Depth, Parent(ListOf(Top), Top.idx)>>
                      /\ eoff = Top.eo
    BY DEF RelativeBase
  <2> DEFINE q == ListOf(Top)
             j == Parent(q, Top.idx)
  <2>1. Remembers(q, Top, Depth, li, eoff, flags.badsize) /\ Depth > 0 /\ Top \in FrameType
    BY KeptTop DEF Holds, AtTest, Within
  <2>2. eoff = Top.eo
    BY <2>1 DEF Remembers
  <2>3. ASSUME Headed(q, Top.idx, flags.badsize) PROVE li[Top.lev - 1].off = <<Depth, j>>
    <3>1. Top.lev = q[Top.idx].lev /\ j \in 1..Top.idx /\ ControlsAt(q, j, Top.idx, Top.lev) /\ Top.lev \in Nat /\ Top.lev # 0
      BY <2>3, Controlling
    <3> HIDE DEF j, q
    <3>2. Top.lev \in 1..Top.lev
      BY <3>1
    <3> QED BY <2>1, <2>3, <3>1, <3>2 DEF Remembers
  <2> QED BY <2>2, <2>3
<1> QED BY <1>1, CallsInit, KeptInit, CallsInductive, KeptInductive, PTL DEF Spec

\* A default entry matches only when no entry at its level and under the same one has
\* matched since the last clear, or since an entry there that matched with its end outside
\* the buffer; unless the call has run an indirect test, or the top-level entry was not run.
THEOREM DefaultsComeLast == Spec => []DefaultLast
<1>1. Calls /\ Kept => DefaultLast
  <2> SUFFICES ASSUME Calls, Kept, Depth > 0, ~Top.mixed
               PROVE  LET q == ListOf(Top)
                      IN  \A i \in Top.hit :
                              q[i].type = "default" /\ q[i].lev > 0 /\ Headed(q, i, flags.badsize) =>
                                  \A j \in Top.deep : j < i /\ Sibling(q, i, j) =>
                                      \E c \in Top.hit : /\ c \in j..(i-1) /\ Sibling(q, i, c)
                                                         /\ q[c].type = "clear" \/ c \notin Top.deep
    BY DEF DefaultLast
  <2> DEFINE q == ListOf(Top)
  <2>1. Defaults(q, Top, flags.badsize)
    BY KeptTop DEF Holds
  <2> HIDE DEF q
  <2> QED BY <2>1 DEF Defaults, q
<1> QED BY <1>1, CallsInit, KeptInit, CallsInductive, KeptInductive, PTL DEF Spec

-----------------------------------------------------------------------------
(* What is printed, and what is returned.                                  *)

\* Texts put together.
LEMMA Texts ==
    ASSUME NEW a \in Seq(Tokens), NEW b \in Seq(Tokens)
    PROVE  /\ a \o b \in Seq(Tokens)
           /\ a \o b # << >> <=> a # << >> \/ b # << >>
           /\ a = << >> => a \o b = b
           /\ b = << >> => a \o b = a
           /\ Lead(a) /\ (a = << >> => Lead(b)) => Lead(a \o b)
<1>1. a \o b \in Seq(Tokens) /\ Len(a \o b) = Len(a) + Len(b) /\ Len(a) \in Nat /\ Len(b) \in Nat
  OBVIOUS
<1>2. \A s \in Seq(Tokens) : (s = << >>) <=> Len(s) = 0
  OBVIOUS
<1>3. a \o b # << >> <=> a # << >> \/ b # << >>
  BY <1>1, <1>2
<1>4. a = << >> => a \o b = b
  OBVIOUS
<1>5. b = << >> => a \o b = a
  OBVIOUS
<1>6. ASSUME a # << >> PROVE (a \o b)[1] = a[1]
  BY <1>1, <1>2, <1>6
<1>7. Lead(a) /\ (a = << >> => Lead(b)) => Lead(a \o b)
  BY <1>4, <1>6 DEF Lead
<1> QED BY <1>1, <1>3, <1>4, <1>5, <1>7

\* The texts a test may print.
LEMMA Words ==
    /\ << >> \in Seq(Tokens) /\ << "desc" >> \in Seq(Tokens) /\ << "nospace" >> \in Seq(Tokens)
    /\ << "space" >> \in Seq(Tokens) /\ << "sep" >> \in Seq(Tokens) /\ << "mime" >> \in Seq(Tokens)
    /\ << "desc" >> # << >> /\ << "nospace" >> # << >> /\ << "mime" >> # << >>
    /\ Lead(<< >>) /\ Lead(<< "desc" >>) /\ Lead(<< "nospace" >>) /\ Lead(<< "mime" >>)
<1>1. /\ << >> \in Seq(Tokens) /\ << "desc" >> \in Seq(Tokens) /\ << "nospace" >> \in Seq(Tokens)
      /\ << "space" >> \in Seq(Tokens) /\ << "sep" >> \in Seq(Tokens) /\ << "mime" >> \in Seq(Tokens)
  BY DEF Tokens
<1>2. /\ << "desc" >> # << >> /\ << "nospace" >> # << >> /\ << "mime" >> # << >>
  OBVIOUS
<1>3. Lead(<< >>) /\ Lead(<< "desc" >>) /\ Lead(<< "nospace" >>) /\ Lead(<< "mime" >>)
  BY DEF Lead
<1> QED BY <1>1, <1>2, <1>3

\* A description: what it prints, and with what it begins.
LEMMA Descriptions ==
    ASSUME NEW f, NEW m, NEW s, Booleans, s \in BOOLEAN
    PROVE  LET b == PrintDesc(f, m, s)
           IN  /\ b \in Seq(Tokens)
               /\ m.type \notin {"use", "indirect", "name"} => b # << >>
               /\ first /\ ~s => Lead(b)
<1> DEFINE w == DescToken(m)
           p == IF f.pc = "top" \/ ~printed THEN Sep(first) ELSE << >>
           r == IF f.pc # "top" /\ s /\ ~m.nospace THEN << "space" >> ELSE << >>
           b == PrintDesc(f, m, s)
<1>1. w \in Seq(Tokens) /\ Lead(w) /\ (m.type \notin {"use", "indirect", "name"} => w # << >>)
  BY Words DEF DescToken
<1>2. p \in Seq(Tokens) /\ (first => p = << >>)
  BY Words DEF Sep, Booleans
<1>3. r \in Seq(Tokens) /\ (~s => r = << >>)
  BY Words
<1>4. b = p \o w \/ b = p \o r \o w
  BY DEF PrintDesc
<1> HIDE DEF w, p, r, b
<1>5. p \o w \in Seq(Tokens) /\ (p \o w # << >> <=> p # << >> \/ w # << >>) /\ (p = << >> => p \o w = w)
  BY <1>1, <1>2, Texts
<1> DEFINE x == p \o r
<1>6. x \in Seq(Tokens) /\ (p = << >> /\ r = << >> => x = << >>)
  BY <1>2, <1>3, Texts
<1> HIDE DEF x
<1>7. x \o w \in Seq(Tokens) /\ (x \o w # << >> <=> x # << >> \/ w # << >>) /\ (x = << >> => x \o w = w)
  BY <1>1, <1>6, Texts
<1>8. b = p \o w \/ b = x \o w
  BY <1>4 DEF x
<1>9. b \in Seq(Tokens) /\ (m.type \notin {"use", "indirect", "name"} => b # << >>)
  BY <1>1, <1>5, <1>7, <1>8
<1>10. ASSUME first, ~s PROVE Lead(b)
  BY <1>1, <1>2, <1>3, <1>5, <1>6, <1>7, <1>8, <1>10
<1> QED BY <1>9, <1>10 DEF b

\* What a test that matched says: o is the text before it, s need_separator.
LEMMA Speaks ==
    ASSUME NEW f, NEW g, NEW c, NEW d, NEW s \in BOOLEAN, NEW o \in Seq(Tokens), Booleans, Tests(f), Matched(f, g, c, d), Says(f, c, s, o)
    PROVE  /\ f.ret => g.ret
           /\ out' # o => g.ret
           /\ o # << >> => out' # << >>
           /\ ~flags.mime /\ g.found => f.found \/ g.ret
           /\ g.pc = "ret" => g.val = 1 /\ g.ret
           /\ Entry(f).type # "default" /\ Entry(f).desc /\ ~flags.mime => g.ret
           /\ needsep' \/ printed' \/ ~first' => s \/ printed \/ ~first \/ g.ret
           /\ g.ret => \/ f.ret \/ out' # << >> \/ (~first /\ ~flags.cont)
                       \/ Entry(f).type \in {"use", "indirect", "name"} /\ Entry(f).desc /\ ~flags.mime
           /\ Lead(o) /\ (o = << >> => first /\ ~s) => Lead(out')
<1> DEFINE m == Entry(f)
           b == PrintDesc(f, m, s)
           a == IF ~first /\ ~flags.cont THEN << >> ELSE Sep(first) \o << "mime" >>
<1>1. b \in Seq(Tokens) /\ (m.type \notin {"use", "indirect", "name"} => b # << >>) /\ (first /\ ~s => Lead(b))
  <2> HIDE DEF m
  <2> QED BY Descriptions
<1>2. a \in Seq(Tokens) /\ (~(~first /\ ~flags.cont) => a # << >>) /\ (first => Lead(a))
  <2> DEFINE x == Sep(first)
             y == << "mime" >>
  <2>1. x \in Seq(Tokens) /\ y \in Seq(Tokens) /\ y # << >> /\ Lead(y) /\ (first => x = << >>)
    BY Words DEF Sep
  <2> HIDE DEF x, y
  <2>2. x \o y \in Seq(Tokens) /\ x \o y # << >> /\ (x = << >> => x \o y = y)
    BY <2>1, Texts
  <2>3. a = IF ~first /\ ~flags.cont THEN << >> ELSE x \o y
    BY DEF x, y
  <2> HIDE DEF a
  <2> QED BY <2>1, <2>2, <2>3, Words
<1>3. g.pc = "ret" => Annotated(f, g, c)
  BY DEF Matched, Late, Described, Entering, Leaving
<1>4. CASE Late(f, g, c)
  <2>1. LateDefault(c, f) /\ (g.ret <=> f.ret) /\ (g.found <=> f.found) /\ m.type = "default" /\ g.pc = "while"
    BY <1>4 DEF Late, Answers, LateDefault
  <2>2. (needsep' <=> s) /\ out' = o /\ (printed' <=> printed) /\ (first' <=> first)
    BY <2>1 DEF Says, Prints
  <2> HIDE DEF m
  <2> QED BY <2>1, <2>2 DEF m
<1>5. CASE Annotated(f, g, c)
  <2>1. ~LateDefault(c, f) /\ flags.mime /\ m.mime /\ g.ret /\ g.val = 1
    BY <1>5 DEF Annotated
  <2>2. out' = o \o a /\ needsep' /\ printed' /\ ~first'
    BY <2>1 DEF Says, Prints
  <2> HIDE DEF m, a
  <2>3. /\ o \o a # << >> <=> o # << >> \/ a # << >>
        /\ Lead(o) /\ (o = << >> => Lead(a)) => Lead(o \o a)
    BY <1>2, Texts
  <2> QED BY <1>2, <2>1, <2>2, <2>3
<1>6. CASE Described(f, g, c, d)
  <2>0. g.pc # "ret"
    BY <1>6 DEF Described, Entering, Leaving
  <2>1. /\ ~LateDefault(c, f) /\ ~(flags.mime /\ m.mime)
        /\ (g.found <=> (f.found \/ m.desc)) /\ (g.ret <=> (f.ret \/ (m.desc /\ ~flags.mime)))
    BY <1>6 DEF Described
  <2>2. CASE m.desc /\ ~flags.mime
    <3>1. out' = o \o b /\ needsep' /\ printed' /\ (first' <=> first)
      BY <2>1, <2>2 DEF Says, Prints
    <3> HIDE DEF m, b
    <3>2. /\ o \o b # << >> <=> o # << >> \/ b # << >>
          /\ Lead(o) /\ (o = << >> => Lead(b)) => Lead(o \o b)
      BY <1>1, Texts
    <3>3. g.ret
      BY <2>1, <2>2
    <3>4. m.type \in {"use", "indirect", "name"} \/ out' # << >>
      BY <1>1, <3>1, <3>2
    <3> QED BY <1>1, <2>0, <2>2, <3>1, <3>2, <3>3, <3>4 DEF m
  <2>3. CASE ~(m.desc /\ ~flags.mime)
    <3>1. out' = o /\ (needsep' <=> s) /\ (printed' <=> printed) /\ (first' <=> first)
      BY <2>1, <2>3 DEF Says, Prints
    <3> HIDE DEF m
    <3> QED BY <2>0, <2>1, <2>3, <3>1 DEF m
  <2> QED BY <2>2, <2>3
<1> QED BY <1>4, <1>5, <1>6 DEF Matched

Quiet == Speaking /\ ~(flags.mime /\ flags.cont)

\* The calls below the last one, and what the last one is to its caller.
LEMMA SpokenSame ==
    ASSUME Calls, NEW n \in {Depth, Depth - 1}, n > 0, NEW g \in FrameType, Becomes(n, g), Keeps(stack[n], g)
    PROVE  /\ n \in Nat /\ n \in 1..Depth /\ Depth' = n /\ stack'[n] = g /\ \A d \in 1..(n - 1) : stack'[d] = stack[d]
           /\ \A d \in 1..n : /\ stack'[d].call = stack[d].call /\ stack'[d].out = stack[d].out /\ stack'[d].sep = stack[d].sep
                              /\ Spoken(d)' <=> Spoken(d)
<1>0. Depth \in Nat /\ n \in 1..Depth /\ Depth' = n
  BY Frames DEF Becomes, Depth
<1>1. stack'[n] = g /\ \A d \in 1..(n - 1) : stack'[d] = stack[d]
  BY DEF Becomes
<1>2. g.call = stack[n].call /\ g.out = stack[n].out /\ g.sep = stack[n].sep
  BY DEF Keeps
<1>3. ASSUME NEW d \in 1..n PROVE stack'[d].call = stack[d].call /\ stack'[d].out = stack[d].out /\ stack'[d].sep = stack[d].sep
  <2>1. d \in 1..(n - 1) \/ d = n
    BY <1>0
  <2> QED BY <1>1, <1>2, <2>1
<1> QED BY <1>0, <1>1, <1>3 DEF Spoken

\* A call goes on or returns to its caller: what has been printed stays printed, and who
\* says that it found something has printed something.
LEMMA PrintsStep ==
    ASSUME Calls, Printing, Leading, Sound, NEW n \in {Depth, Depth - 1}, n > 0, NEW g \in FrameType, Becomes(n, g), Keeps(stack[n], g),
           UNCHANGED <<db, flags, result>>,
           out' # << >> => g.ret,
           g.pc = "ret" => (g.val = 1 <=> g.ret),
           stack[n].ret => g.ret,
           ~flags.mime /\ g.found => g.ret,
           Speaking /\ (Something \/ g.ret) => out' # << >> \/ \E d \in 1..n : Spoken(d),
           Quiet /\ (needsep' \/ printed' \/ ~first') => Something \/ g.ret,
           Quiet /\ (\A d \in 1..n : ~Spoken(d)) => Lead(out')
    PROVE  Printing' /\ Leading'
<1>0. /\ n \in Nat /\ n \in 1..Depth /\ Depth' = n /\ stack'[n] = g /\ \A d \in 1..(n - 1) : stack'[d] = stack[d]
      /\ \A d \in 1..n : /\ stack'[d].call = stack[d].call /\ stack'[d].out = stack[d].out /\ stack'[d].sep = stack[d].sep
                         /\ Spoken(d)' <=> Spoken(d)
  BY SpokenSame
<1>1. Top' = g
  BY <1>0 DEF Top
<1>2. Depth \in Nat /\ result' = "none"
  BY <1>0, Frames DEF Calls, Waiting, Depth
<1>3. Speaking' <=> Speaking
  BY DEF Speaking
<1>4. Something' <=> out' # << >> \/ \E d \in 1..n : Spoken(d)
  BY <1>0 DEF Something
<1>5. \A d \in 1..n : d \in 1..(n - 1) \/ d = n
  BY <1>0
<1>6. \A d \in 2..n : d - 1 \in 1..(n - 1) /\ d \in 1..n /\ d \in 2..Depth
  BY <1>0, <1>2
<1>7. /\ \A d \in 1..Depth : stack[d].pc = "ret" => (stack[d].val = 1 <=> stack[d].ret)
      /\ \A d \in 2..Depth : Spoken(d) => stack[d-1].ret
      /\ \A d \in 2..Depth : stack[d].call = "use" /\ stack[d-1].ret => stack[d].ret
      /\ \A d \in 1..Depth : ~flags.mime /\ stack[d].found => stack[d].ret
      /\ Speaking => \A d \in 1..Depth : stack[d].ret => Something
  BY DEF Printing
<1>8. \A d \in 1..n : d \in 1..Depth
  BY <1>0, <1>2
<1>9. \A d \in 1..n : stack'[d].pc = "ret" => (stack'[d].val = 1 <=> stack'[d].ret)
  BY <1>0, <1>5, <1>7, <1>8
<1>10. \A d \in 2..n : Spoken(d)' => stack'[d-1].ret
  BY <1>0, <1>6, <1>7
<1>11. \A d \in 2..n : stack'[d].call = "use" /\ stack'[d-1].ret => stack'[d].ret
  <2> SUFFICES ASSUME NEW d \in 2..n, stack'[d].call = "use", stack'[d-1].ret PROVE stack'[d].ret
    OBVIOUS
  <2>1. stack[d].call = "use" /\ stack[d-1].ret
    BY <1>0, <1>6
  <2>2. stack[d].ret
    BY <1>6, <1>7, <2>1
  <2>3. CASE d = n
    BY <1>0, <2>2, <2>3
  <2>4. CASE d \in 1..(n - 1)
    BY <1>0, <2>2, <2>4
  <2> QED BY <1>5, <1>6, <2>3, <2>4
<1>12. \A d \in 1..n : ~flags'.mime /\ stack'[d].found => stack'[d].ret
  BY <1>0, <1>5, <1>7, <1>8
<1>13. Speaking => \A d \in 1..n : stack'[d].ret => Something'
  BY <1>0, <1>4, <1>5, <1>7, <1>8
<1>14. Printing'
  BY <1>0, <1>1, <1>2, <1>3, <1>9, <1>10, <1>11, <1>12, <1>13 DEF Printing
<1>15. ASSUME Quiet PROVE
           /\ needsep' \/ printed' \/ ~first' => Something'
           /\ \A d \in 1..n : stack'[d].call = "use" /\ stack'[d].sep => Something'
           /\ \A d \in 1..n : Spoken(d)' /\ (\A k \in 1..(d-1) : ~Spoken(k)') => Lead(stack'[d].out)
           /\ (\A d \in 1..n : ~Spoken(d)') => Lead(out')
  <2>1. /\ \A d \in 1..Depth : stack[d].call = "use" /\ stack[d].sep => Something
        /\ \A d \in 1..Depth : Spoken(d) /\ (\A k \in 1..(d-1) : ~Spoken(k)) => Lead(stack[d].out)
    BY <1>15 DEF Leading, Quiet
  <2>2. Speaking
    BY <1>15 DEF Quiet
  <2>3. needsep' \/ printed' \/ ~first' => Something'
    BY <1>4, <1>15, <2>2
  <2>4. \A d \in 1..n : stack'[d].call = "use" /\ stack'[d].sep => Something'
    BY <1>0, <1>4, <1>8, <2>1, <2>2
  <2>5. ASSUME NEW d \in 1..n, Spoken(d)', \A k \in 1..(d-1) : ~Spoken(k)' PROVE Lead(stack'[d].out)
    <3>1. \A k \in 1..(d-1) : k \in 1..n
      BY <1>0
    <3>2. Spoken(d) /\ \A k \in 1..(d-1) : ~Spoken(k)
      BY <1>0, <2>5, <3>1
    <3> QED BY <1>0, <1>8, <2>1, <3>2
  <2>6. (\A d \in 1..n : ~Spoken(d)') => Lead(out')
    BY <1>0, <1>15
  <2> QED BY <2>3, <2>4, <2>5, <2>6
<1>16. Leading'
  <2>1. Speaking' /\ ~(flags'.mime /\ flags'.cont) => Quiet
    BY <1>3 DEF Quiet
  <2> QED BY <1>0, <1>15, <2>1 DEF Leading, Lead
<1> QED BY <1>14, <1>16

\* An error ends the search: whoever is sound was sound.
LEMMA SoundBefore == ASSUME Calls, [Next]_vars, Sound' PROVE Sound
<1>0. Depth \in Nat
  BY Frames
<1>1. CASE UNCHANGED vars
  BY <1>1 DEF vars, Sound, Top, Depth
<1>2. ASSUME Depth > 0, Top.pc = "ret", Top.val = 2, Next PROVE FALSE
  <2>1. UseReturn \/ IndirectReturn \/ RootReturn
    BY <1>2 DEF Next, Step, ForEntry, AtFor, ForEnd, WhileEntry, WhileEnd, TestError, TestMiss, TestHit, Use, Indirect, AtTest, Finished, Depth
  <2>2. ASSUME NEW f, NEW g \in FrameType, Becomes(Depth - 1, g), Depth > 1, Fails(f, g) PROVE FALSE
    <3> DEFINE n == Depth - 1
    <3>1. Depth' = n /\ n > 0 /\ stack'[n] = g
      BY <1>0, <2>2 DEF Becomes, Depth
    <3>2. Top' = g
      BY <3>1 DEF Top
    <3> HIDE DEF n
    <3> QED BY <2>2, <3>1, <3>2 DEF Sound, Fails
  <2>3. CASE UseReturn
    BY <1>2, <2>2, <2>3, UseReturnDoes
  <2>4. CASE IndirectReturn
    <3>1. Depth > 1 /\ \E f, g \in FrameType : Becomes(Depth - 1, g) /\ (Fails(f, g) \/ Top.val = 1 \/ Top.val = 0)
      BY <2>4, IndirectReturnDoes
    <3>2. Top.val # 1 /\ Top.val # 0
      BY <1>2
    <3> QED BY <2>2, <3>1, <3>2
  <2>5. CASE RootReturn
    <3>1. result' = <<"nomatch", "match", "error">>[2 + 1]
      BY <1>2, <2>5 DEF RootReturn
    <3>2. result' = "error"
      BY <3>1
    <3> QED BY <3>2 DEF Sound
  <2> QED BY <2>1, <2>3, <2>4, <2>5
<1>3. ASSUME result = "error" PROVE FALSE
  <2>1. stack = << >>
    BY <1>3 DEF Calls, Waiting
  <2>2. Depth = 0
    BY <2>1 DEF Depth
  <2>3. UNCHANGED vars
    BY <2>2 DEF Next, Step, ForEntry, AtFor, ForEnd, WhileEntry, WhileEnd, TestError, TestMiss, TestHit, Use, Indirect, AtTest, Finished,
                UseReturn, IndirectReturn, RootReturn, Returned
  <2> QED BY <1>3, <2>3 DEF vars, Sound
<1> QED BY <1>1, <1>2, <1>3 DEF Sound

\* A list that speaks has no mute entry.
LEMMA NotMute ==
    ASSUME Speaking, NEW f, f.list \in DOMAIN db.named \cup {"root"}, f.idx \in 1..Size(f)
    PROVE  ~Mute(Entry(f))
BY DEF Speaking, Entry, Size, ListOf

\* What the invariants say of the last call and of its caller.
LEMMA PrintsTop ==
    ASSUME Calls, Printing, Leading, Sound, Depth > 0
    PROVE  /\ Depth \in Nat /\ Depth \in 1..Depth /\ Top = stack[Depth]
           /\ out # << >> => Top.ret
           /\ Top.pc = "ret" => (Top.val = 1 <=> Top.ret)
           /\ ~flags.mime /\ Top.found => Top.ret
           /\ Speaking /\ Top.ret => Something
           /\ Quiet /\ (needsep \/ printed \/ ~first) => Something
           /\ Quiet /\ Top.call = "use" /\ Top.sep => Something
           /\ Quiet /\ (\A d \in 1..Depth : ~Spoken(d)) => Lead(out)
<1>0. Depth \in Nat /\ Depth \in 1..Depth /\ Top = stack[Depth]
  BY Frames DEF Top
<1>1. /\ out # << >> => Top.ret
      /\ Top.pc = "ret" => (Top.val = 1 <=> Top.ret)
      /\ ~flags.mime /\ Top.found => Top.ret
      /\ Speaking /\ Top.ret => Something
  BY <1>0 DEF Printing
<1>2. /\ Quiet /\ (needsep \/ printed \/ ~first) => Something
      /\ Quiet /\ Top.call = "use" /\ Top.sep => Something
      /\ Quiet /\ (\A d \in 1..Depth : ~Spoken(d)) => Lead(out)
  BY <1>0 DEF Leading, Quiet
<1> QED BY <1>0, <1>1, <1>2

\* The last call goes on and prints nothing.
LEMMA PrintsContinue ==
    ASSUME Calls, Printing, Leading, Sound, Depth > 0, NEW g \in FrameType, Becomes(Depth, g), Keeps(Top, g), Answers(Top, g),
           UNCHANGED <<db, flags, result, out, needsep>>,
           g.pc = "ret" => (g.val = 1 <=> g.ret),
           Quiet /\ (printed' \/ ~first') => Something
    PROVE  Printing' /\ Leading'
<1> DEFINE n == Depth
<1>1. /\ n \in {Depth, Depth - 1} /\ n > 0 /\ Becomes(n, g) /\ Keeps(stack[n], g) /\ (g.ret <=> stack[n].ret) /\ (g.found <=> Top.found)
      /\ (g.ret <=> Top.ret)
  BY PrintsTop DEF Answers
<1>2. out' # << >> => g.ret
  BY <1>1, PrintsTop
<1>3. ~flags.mime /\ g.found => g.ret
  BY <1>1, PrintsTop
<1>4. Speaking /\ (Something \/ g.ret) => out' # << >> \/ \E d \in 1..n : Spoken(d)
  BY <1>1, PrintsTop DEF Something
<1>5. Quiet /\ (needsep' \/ printed' \/ ~first') => Something \/ g.ret
  BY PrintsTop
<1>6. Quiet /\ (\A d \in 1..n : ~Spoken(d)) => Lead(out')
  BY PrintsTop DEF Lead
<1> HIDE DEF n
<1> QED BY <1>1, <1>2, <1>3, <1>4, <1>5, <1>6, PrintsStep

\* A test has matched in the n-th call, which f is with what it has been told; o is the
\* text before it and s need_separator.
LEMMA PrintsHit ==
    ASSUME Calls, Printing, Leading, Sound, NEW n \in {Depth, Depth - 1}, n > 0, NEW f \in FrameType, NEW g \in FrameType, Becomes(n, g),
           Keeps(stack[n], f), Fit(f), NEW c, NEW s \in BOOLEAN, NEW o \in Seq(Tokens), Matched(f, g, c, n), Says(f, c, s, o),
           UNCHANGED <<db, flags, result>>,
           o # << >> => f.ret \/ (Entry(f).type = "name" /\ Entry(f).desc /\ ~flags.mime),
           stack[n].ret => f.ret,
           ~flags.mime /\ f.found => f.ret,
           Speaking /\ (Something \/ f.ret) => o # << >> \/ \E d \in 1..n : Spoken(d),
           Speaking /\ Entry(f).type \in {"use", "indirect", "name"} /\ Entry(f).desc /\ ~flags.mime
               => o # << >> \/ \E d \in 1..n : Spoken(d),
           Quiet /\ s => Something,
           Quiet /\ (\A d \in 1..n : ~Spoken(d)) => Lead(o)
    PROVE  Printing' /\ Leading'
<1>0. Booleans /\ Tests(f) /\ Depth \in Nat /\ Depth > 0
  BY Frames DEF Calls, TypeOK, Booleans, Fit
<1>1. /\ f.ret => g.ret
      /\ out' # o => g.ret
      /\ o # << >> => out' # << >>
      /\ ~flags.mime /\ g.found => f.found \/ g.ret
      /\ g.pc = "ret" => g.val = 1 /\ g.ret
      /\ Entry(f).type # "default" /\ Entry(f).desc /\ ~flags.mime => g.ret
      /\ needsep' \/ printed' \/ ~first' => s \/ printed \/ ~first \/ g.ret
      /\ g.ret => \/ f.ret \/ out' # << >> \/ (~first /\ ~flags.cont)
                  \/ Entry(f).type \in {"use", "indirect", "name"} /\ Entry(f).desc /\ ~flags.mime
      /\ Lead(o) /\ (o = << >> => first /\ ~s) => Lead(out')
  <2> DEFINE d == n
  <2>1. Matched(f, g, c, d)
    OBVIOUS
  <2> HIDE DEF d
  <2> QED BY <1>0, <2>1, Speaks
<1>2. Keeps(stack[n], g)
  BY DEF Matched, Keeps
<1>3. out' # << >> => g.ret
  <2>1. out' = o /\ o # << >> => g.ret
    BY <1>1
  <2> QED BY <1>1, <2>1
<1>4. g.pc = "ret" => (g.val = 1 <=> g.ret)
  BY <1>1
<1>5. ~flags.mime /\ g.found => g.ret
  BY <1>1
<1>6. /\ Quiet /\ (needsep \/ printed \/ ~first) => Something
  BY <1>0, PrintsTop
<1>7. ASSUME Speaking, Something \/ g.ret PROVE out' # << >> \/ \E d \in 1..n : Spoken(d)
  <2>1. CASE Something \/ f.ret
    BY <1>1, <1>7, <2>1
  <2>2. CASE ~first /\ ~flags.cont
    <3>1. Quiet
      BY <1>7, <2>2 DEF Quiet
    <3> QED BY <1>6, <2>1, <2>2, <3>1
  <2>3. CASE Entry(f).type \in {"use", "indirect", "name"} /\ Entry(f).desc /\ ~flags.mime
    BY <1>1, <1>7, <2>3
  <2> QED BY <1>1, <1>7, <2>1, <2>2, <2>3
<1>8. Quiet /\ (needsep' \/ printed' \/ ~first') => Something \/ g.ret
  BY <1>1, <1>6
<1>9. ASSUME Quiet, \A d \in 1..n : ~Spoken(d) PROVE Lead(out')
  <2>1. Lead(o)
    BY <1>9
  <2>2. ASSUME o = << >> PROVE first /\ ~s
    <3>1. Speaking
      BY <1>9 DEF Quiet
    <3>2. ~Something
      BY <1>9, <2>2, <3>1
    <3> QED BY <1>0, <1>6, <1>9, <3>2 DEF Booleans
  <2> QED BY <1>1, <2>1, <2>2
<1>10. stack[n].ret => g.ret
  BY <1>1
<1> QED BY <1>2, <1>3, <1>4, <1>5, <1>7, <1>8, <1>9, <1>10, PrintsStep

\* A new call, made by the last one: an indirect test puts the text by.
LEMMA PrintsStart ==
    ASSUME Calls, Printing, Leading, Sound, Depth > 0, NEW f \in FrameType, NEW g \in FrameType, NEW name, NEW call,
           stack' \in Seq(FrameType), Len(stack') = Depth + 1, stack'[Depth] = f, stack'[Depth + 1] = g,
           \A d \in 1..(Depth - 1) : stack'[d] = stack[d],
           Keeps(Top, f), Answers(Top, f), f.pc \in {"top", "cont"}, Starts(g, name, call),
           \/ call = "use" /\ out' = out /\ (g.ret <=> Top.ret)
           \/ call = "indirect" /\ out' = << >> /\ ~g.ret,
           UNCHANGED <<db, flags, result, printed, first>>, needsep' => needsep
    PROVE  Printing' /\ Leading'
<1>n. PICK n \in Nat : n = Depth
  BY PrintsTop
<1>u. PICK u \in Nat : u = n + 1
  OBVIOUS
<1>0. n \in Nat /\ n \in 1..n /\ Depth' = u /\ Top = stack[n] /\ u \in Nat /\ u = n + 1 /\ stack'[n] = f
  BY <1>n, <1>u, PrintsTop DEF Depth
<1>1. /\ \A d \in 1..u : d \in 1..(n - 1) \/ d = n \/ d = u
      /\ \A d \in 1..n : d \in 1..(n - 1) \/ d = n
      /\ \A d \in 1..n : d \in 1..u /\ d # u
      /\ \A d \in 2..u : d - 1 \in 1..n /\ (d # u => d \in 2..n)
  BY <1>0
<1>2. f.call = Top.call /\ f.out = Top.out /\ f.sep = Top.sep /\ (f.ret <=> Top.ret) /\ (f.found <=> Top.found) /\ f.pc # "ret"
  BY DEF Keeps, Answers
<1>3. ~g.found /\ g.pc = "for" /\ g.call = call /\ (g.sep <=> needsep) /\ g.out = out
  BY DEF Starts
<1>4. \A d \in 1..n : /\ stack'[d].call = stack[d].call /\ stack'[d].out = stack[d].out /\ stack'[d].sep = stack[d].sep
                      /\ (stack'[d].ret <=> stack[d].ret) /\ (stack'[d].found <=> stack[d].found)
                      /\ (stack'[d].pc = "ret" => stack[d] = stack'[d])
  BY <1>0, <1>1, <1>2, <1>n
<1>5. \A d \in 1..n : Spoken(d)' <=> Spoken(d)
  BY <1>4 DEF Spoken
<1>6. Spoken(u)' <=> call = "indirect" /\ out # << >>
  BY <1>3, <1>n, <1>u DEF Spoken
<1>7. Top' = g
  BY <1>0, <1>n DEF Top
<1>8. result' = "none" /\ result = "none"
  BY <1>0, <1>n DEF Calls, Waiting, Depth
<1>9. Speaking' <=> Speaking
  BY DEF Speaking
<1>10. stack'[u] = g
  BY <1>n, <1>u
<1>11. Something' <=> Something
  <2>1. Something' <=> out' # << >> \/ Spoken(u)' \/ \E d \in 1..n : Spoken(d)'
    <3>1. u \in 1..u
      BY <1>0
    <3> QED BY <1>0, <1>1, <3>1 DEF Something
  <2>2. Something <=> out # << >> \/ \E d \in 1..n : Spoken(d)
    BY <1>n DEF Something
  <2> QED BY <1>5, <1>6, <2>1, <2>2
<1>12. /\ out # << >> => Top.ret
       /\ \A d \in 1..n : stack[d].pc = "ret" => (stack[d].val = 1 <=> stack[d].ret)
       /\ \A d \in 2..n : Spoken(d) => stack[d-1].ret
       /\ \A d \in 2..n : stack[d].call = "use" /\ stack[d-1].ret => stack[d].ret
       /\ \A d \in 1..n : ~flags.mime /\ stack[d].found => stack[d].ret
       /\ Speaking => \A d \in 1..n : stack[d].ret => Something
  BY <1>n DEF Printing
<1>13. out' # << >> => g.ret
  BY <1>12
<1>14. \A d \in 1..u : stack'[d].pc = "ret" => (stack'[d].val = 1 <=> stack'[d].ret)
  <2>1. g.pc # "ret"
    BY <1>3
  <2> QED BY <1>1, <1>4, <1>10, <1>12, <2>1
<1>15. u - 1 = n
  BY <1>0
<1>16. ASSUME NEW d \in 2..u, Spoken(d)' PROVE stack'[d-1].ret
  <2>1. CASE d = u
    BY <1>0, <1>1, <1>4, <1>6, <1>12, <1>15, <1>16, <2>1
  <2>2. CASE d # u
    <3>1. d \in 2..n /\ d \in 1..n /\ d - 1 \in 1..n
      BY <1>0, <1>1, <2>2
    <3> QED BY <1>4, <1>5, <1>12, <1>16, <3>1
  <2> QED BY <2>1, <2>2
<1>17. ASSUME NEW d \in 2..u, stack'[d].call = "use", stack'[d-1].ret PROVE stack'[d].ret
  <2>1. CASE d = u
    <3>1. call = "use" /\ f.ret
      <4>1. stack'[n] = f
        BY <1>0
      <4> QED BY <1>3, <1>10, <1>15, <1>17, <2>1, <4>1
    <3> QED BY <1>2, <1>10, <2>1, <3>1
  <2>2. CASE d # u
    <3>1. d \in 2..n /\ d \in 1..n /\ d - 1 \in 1..n
      BY <1>0, <1>1, <2>2
    <3> QED BY <1>4, <1>12, <1>17, <3>1
  <2> QED BY <2>1, <2>2
<1>18. \A d \in 1..u : ~flags'.mime /\ stack'[d].found => stack'[d].ret
  <2>1. \A d \in 1..n : ~flags'.mime /\ stack'[d].found => stack'[d].ret
    BY <1>4, <1>12
  <2>2. \A d \in 1..u : d \in 1..n \/ d = u
    BY <1>0, <1>1
  <2> QED BY <1>3, <1>10, <2>1, <2>2
<1>19. Speaking => \A d \in 1..u : stack'[d].ret => Something'
  <2>1. \A d \in 1..u : d \in 1..n \/ d = u
    BY <1>0, <1>1
  <2>2. g.ret => stack[n].ret
    BY <1>0
  <2> QED BY <1>0, <1>4, <1>10, <1>11, <1>12, <2>1, <2>2
<1>20. Printing'
  BY <1>0, <1>7, <1>8, <1>9, <1>13, <1>14, <1>16, <1>17, <1>18, <1>19 DEF Printing
<1>21. ASSUME Quiet PROVE
           /\ needsep' \/ printed' \/ ~first' => Something'
           /\ \A d \in 1..u : stack'[d].call = "use" /\ stack'[d].sep => Something'
           /\ \A d \in 1..u : Spoken(d)' /\ (\A k \in 1..(d-1) : ~Spoken(k)') => Lead(stack'[d].out)
           /\ (\A d \in 1..u : ~Spoken(d)') => Lead(out')
  <2>1. /\ needsep \/ printed \/ ~first => Something
        /\ \A d \in 1..n : stack[d].call = "use" /\ stack[d].sep => Something
        /\ \A d \in 1..n : Spoken(d) /\ (\A k \in 1..(d-1) : ~Spoken(k)) => Lead(stack[d].out)
        /\ (\A d \in 1..n : ~Spoken(d)) => Lead(out)
    BY <1>21, <1>n DEF Leading, Quiet
  <2>2. needsep' \/ printed' \/ ~first' => Something'
    BY <1>11, <2>1
  <2>3. \A d \in 1..u : d \in 1..n \/ d = u
    BY <1>0, <1>1
  <2>4. \A d \in 1..u : stack'[d].call = "use" /\ stack'[d].sep => Something'
    BY <1>3, <1>4, <1>10, <1>11, <2>1, <2>3
  <2>5. ASSUME NEW d \in 1..u, Spoken(d)', \A k \in 1..(d-1) : ~Spoken(k)' PROVE Lead(stack'[d].out)
    <3>1. CASE d = u
      <4>1. \A k \in 1..n : ~Spoken(k)
        BY <1>5, <1>15, <2>5, <3>1
      <4> QED BY <1>3, <1>10, <2>1, <3>1, <4>1
    <3>2. CASE d \in 1..n
      <4>1. \A k \in 1..(d-1) : k \in 1..n
        BY <1>0, <3>2
      <4>2. Spoken(d) /\ \A k \in 1..(d-1) : ~Spoken(k)
        BY <1>5, <2>5, <3>2, <4>1
      <4> QED BY <1>4, <2>1, <3>2, <4>2
    <3> QED BY <2>3, <3>1, <3>2
  <2>6. ASSUME \A d \in 1..u : ~Spoken(d)' PROVE Lead(out')
    <3>1. \A d \in 1..n : ~Spoken(d)
      BY <1>1, <1>5, <2>6
    <3>2. Lead(out) /\ Lead(<< >>)
      BY <2>1, <3>1, Words
    <3> QED BY <3>2
  <2> QED BY <2>2, <2>4, <2>5, <2>6
<1>22. Leading'
  <2>1. Speaking' /\ ~(flags'.mime /\ flags'.cont) => Quiet
    BY <1>9 DEF Quiet
  <2> QED BY <1>0, <1>21, <2>1 DEF Leading, Lead
<1> QED BY <1>20, <1>22

\* What they say of a call that returns, and of its caller.
LEMMA PrintsCaller ==
    ASSUME Calls, Printing, Leading, Sound, Depth > 1, Top.pc = "ret", Top.call # "root",
           NEW f \in FrameType, NEW r, NEW x, Told(f, r, x)
    PROVE  LET n == Depth - 1
           IN  /\ n \in {Depth, Depth - 1} /\ n > 0 /\ Caller = stack[n] /\ Top.val \in {0, 1} /\ (Top.val = 1 <=> Top.ret)
               /\ Keeps(stack[n], f) /\ Fit(f) /\ Entry(f).type = Top.call /\ Top.out \in Seq(Tokens)
               /\ f.list \in DOMAIN db.named \cup {"root"} /\ f.idx \in 1..Size(f)
               /\ Top.call = "indirect" /\ Top.out # << >> => Caller.ret
               /\ Top.call = "use" /\ Caller.ret => Top.ret
               /\ ~flags.mime /\ Caller.found => Caller.ret
               /\ Speaking /\ Caller.ret => Something
               /\ Something <=> out # << >> \/ (Top.call = "indirect" /\ Top.out # << >>) \/ \E d \in 1..n : Spoken(d)
               /\ Quiet /\ (\A d \in 1..n : ~Spoken(d)) /\ Top.call = "indirect" /\ Top.out # << >> => Lead(Top.out)
               /\ Quiet /\ (\A d \in 1..n : ~Spoken(d)) /\ ~(Top.call = "indirect" /\ Top.out # << >>) => Lead(out)
<1>n. PICK n \in Nat : n = Depth - 1
  BY Frames
<1>0. Depth \in Nat /\ n > 0 /\ Depth = n + 1 /\ n \in 1..Depth /\ Depth \in 2..Depth /\ Depth \in 1..Depth
  BY <1>n, Frames
<1>1. Caller = stack[n] /\ Top = stack[Depth] /\ Caller \in FrameType /\ Top \in FrameType
  BY <1>0, <1>n, Frames DEF Caller, Top
<1>2. Top.val \in {0, 1} /\ (Top.val = 1 <=> Top.ret)
  <2>1. Top.val \in 0..2 /\ Top.val # 2
    BY <1>0, <1>1 DEF FrameType, Sound
  <2>2. Top.val = 1 <=> Top.ret
    BY <1>0, PrintsTop
  <2> QED BY <2>1, <2>2
<1>3. Keeps(stack[n], f) /\ Fit(f) /\ f.list \in DOMAIN db.named \cup {"root"} /\ f.idx \in 1..Size(f)
  <2>1. Fit(f) /\ Keeps(stack[n], f)
    BY <1>1, AreFit DEF Told
  <2> QED BY <2>1 DEF Fit, Tests
<1>4. Entry(f).type = Top.call
  <2>1. Entry(f) = Entry(Caller)
    BY DEF Told, Keeps, Entry, ListOf
  <2> QED BY <1>0, <2>1, CallerWaits
<1>5. Top.out \in Seq(Tokens)
  BY <1>1 DEF FrameType
<1>6. Spoken(Depth) <=> Top.call = "indirect" /\ Top.out # << >>
  BY <1>1 DEF Spoken
<1>7. /\ Spoken(Depth) => Caller.ret
      /\ Top.call = "use" /\ Caller.ret => Top.ret
      /\ ~flags.mime /\ Caller.found => Caller.ret
      /\ Speaking /\ Caller.ret => Something
  BY <1>0, <1>1, <1>n DEF Printing
<1>8. 1..Depth = (1..n) \cup {Depth} /\ Depth - 1 = n
  BY <1>0
<1>9. Something <=> out # << >> \/ Spoken(Depth) \/ \E d \in 1..n : Spoken(d)
  BY <1>8 DEF Something
<1>10. Quiet => /\ Spoken(Depth) /\ (\A d \in 1..n : ~Spoken(d)) => Lead(Top.out)
                /\ (\A d \in 1..n : ~Spoken(d)) /\ ~Spoken(Depth) => Lead(out)
  <2> SUFFICES ASSUME Quiet
               PROVE  /\ Spoken(Depth) /\ (\A d \in 1..n : ~Spoken(d)) => Lead(Top.out)
                      /\ (\A d \in 1..n : ~Spoken(d)) /\ ~Spoken(Depth) => Lead(out)
    OBVIOUS
  <2>1. /\ \A d \in 1..Depth : Spoken(d) /\ (\A k \in 1..(d-1) : ~Spoken(k)) => Lead(stack[d].out)
        /\ (\A d \in 1..Depth : ~Spoken(d)) => Lead(out)
    BY DEF Leading, Quiet
  <2> QED BY <1>0, <1>1, <1>8, <2>1
<1> QED BY <1>0, <1>1, <1>2, <1>3, <1>4, <1>5, <1>6, <1>7, <1>8, <1>9, <1>10

\* Every step keeps both.
LEMMA PrintsInductive == ASSUME Calls, Printing, Leading, [Next]_vars PROVE Printing' /\ Leading'
<1> SUFFICES ASSUME Sound' PROVE Printing' /\ Leading'
  BY DEF Printing, Leading
<1>0. Sound /\ Depth \in Nat /\ Booleans /\ out \in Seq(Tokens)
  BY Frames, SoundBefore DEF Calls, TypeOK, Booleans
<1>1. CASE UNCHANGED vars
  BY <1>1 DEF vars, Printing, Leading, Sound, Top, Depth, Spoken, Something, Speaking, Lead
<1>2. ASSUME Depth > 0, NEW g \in FrameType, Continues(Top, g), UNCHANGED <<db, flags, result, out, needsep, printed, first>>,
             g.pc = "ret" => (g.val = 1 <=> g.ret)
      PROVE  Printing' /\ Leading'
  <2>1. Quiet /\ (printed' \/ ~first') => Something
    BY <1>0, <1>2, PrintsTop
  <2> QED BY <1>0, <1>2, <2>1, PrintsContinue DEF Continues
<1>3. CASE ForEntry
  <2>1. PICK g \in FrameType : Continues(Top, g) /\ g.pc # "ret"
    BY <1>3, ForEntryDoes
  <2>2. Depth > 0 /\ UNCHANGED <<db, flags, result, out, needsep, printed, first>>
    BY <1>3, ForEntryDoes DEF globals
  <2> QED BY <1>2, <2>1, <2>2
<1>4. CASE ForEnd
  <2>1. PICK g \in FrameType : Continues(Top, g) /\ (g.val = 1 <=> g.ret)
    BY <1>4, ForEndDoes DEF Ends, Continues, Answers
  <2>2. Depth > 0 /\ UNCHANGED <<db, flags, result, out, needsep, printed, first>>
    BY <1>4, ForEndDoes DEF globals
  <2> QED BY <1>2, <2>1, <2>2
<1>5. CASE WhileEntry
  <2>1. PICK g \in FrameType : Continues(Top, g) /\ g.pc \in {"while", "for", "cont"}
    BY <1>5, WhileEntryDoes
  <2>2. Depth > 0 /\ UNCHANGED <<db, flags, result, out, needsep, printed, first>>
    BY <1>5, WhileEntryDoes DEF globals
  <2> QED BY <1>2, <2>1, <2>2
<1>6. CASE WhileEnd
  <2>1. Depth > 0 /\ UNCHANGED <<db, flags, needsep, out, result>>
    BY <1>6, WhileEndDoes
  <2>2. PICK g \in FrameType : Continues(Top, g) /\ (g.pc = "ret" => (g.val = 1 <=> g.ret))
    <3>1. CASE \E g \in FrameType : Ends(Top, g)
      BY <3>1 DEF Ends, Continues, Answers
    <3>2. CASE \E g \in FrameType : Continues(Top, g) /\ g.pc = "for"
      BY <3>2
    <3> QED BY <1>6, <3>1, <3>2, WhileEndDoes
  <2>3. \/ (printed' \/ ~first') => printed \/ ~first
        \/ ~(Top.found /\ ~flags.cont) /\ ((printed' \/ ~first') => printed \/ ~first \/ Top.found)
    BY <1>0, <1>6 DEF WhileEnd, Booleans
  <2>4. Quiet /\ (printed' \/ ~first') => Something
    <3> SUFFICES ASSUME Quiet, printed' \/ ~first' PROVE Something
      OBVIOUS
    <3>1. CASE printed \/ ~first
      BY <1>0, <2>1, <3>1, PrintsTop
    <3>2. CASE Top.found /\ ~(Top.found /\ ~flags.cont)
      <4>1. ~flags.mime /\ Speaking
        BY <3>2 DEF Quiet
      <4> QED BY <1>0, <2>1, <3>2, <4>1, PrintsTop
    <3> QED BY <2>3, <3>1, <3>2
  <2> QED BY <1>0, <2>1, <2>2, <2>4, PrintsContinue DEF Continues
<1>7. CASE TestError
  <2>1. PICK g \in FrameType : Becomes(Depth, g) /\ g.pc = "ret" /\ g.val = 2
    BY <1>7, TestErrorDoes DEF Continues
  <2>2. Depth > 0
    BY <1>7, TestErrorDoes
  <2>3. Depth' = Depth /\ Top' = g
    BY <2>1 DEF Becomes, Depth, Top
  <2> QED BY <2>1, <2>2, <2>3 DEF Sound
<1>8. CASE TestMiss
  <2>1. Depth > 0 /\ UNCHANGED <<db, flags, result, out, needsep, printed, first>>
    BY <1>8, TestMissDoes DEF fixed
  <2>2. PICK g \in FrameType : Becomes(Depth, g) /\ Missed(Top, g, li)
    BY <1>8, TestMissDoes
  <2>3. Continues(Top, g) /\ g.pc # "ret"
    BY <2>2 DEF Missed, Continues
  <2> QED BY <1>2, <2>1, <2>3
<1>9. CASE TestHit
  <2> DEFINE n == Depth
             f == Top
             x == NameText(Entry(f))
             o == out \o x
             s == needsep
  <2>1. Depth > 0 /\ Tests(f) /\ (Entry(f).type \in {"use", "indirect"} => Entry(f).not) /\ UNCHANGED <<db, flags, result>>
    BY <1>9, TestHitDoes DEF fixed
  <2>2. PICK g \in FrameType : Becomes(n, g) /\ Matched(f, g, li, n) /\ Says(f, li, s, o)
    BY <1>9, TestHitDoes
  <2>3. Fit(f) /\ f \in FrameType /\ f = stack[n] /\ Keeps(stack[n], f)
    BY <2>1, AreFit DEF Tests, Top, Keeps
  <2>4. f.list \in DOMAIN db.named \cup {"root"} /\ f.idx \in 1..Size(f)
    BY <2>3 DEF Fit, Tests
  <2>5. Speaking => ~Mute(Entry(f))
    <3> HIDE DEF f
    <3> QED BY <2>4, NotMute
  <2> DEFINE named == Entry(f).type = "name" /\ Entry(f).desc /\ ~flags.mime
  <2>6. x \in Seq(Tokens) /\ Lead(x) /\ (x # << >> <=> named)
    <3>1. named => x = << "nospace" >>
      BY DEF NameText
    <3>2. ~named => x = << >>
      BY DEF NameText
    <3> HIDE DEF x, named
    <3> QED BY <3>1, <3>2, Words
  <2>7. /\ out # << >> => f.ret
        /\ ~flags.mime /\ f.found => f.ret
        /\ Speaking /\ f.ret => Something
        /\ Quiet /\ s => Something
        /\ Quiet /\ (\A d \in 1..n : ~Spoken(d)) => Lead(out)
    BY <1>0, <2>1, PrintsTop
  <2>8. Speaking /\ Entry(f).type \in {"use", "indirect", "name"} /\ Entry(f).desc /\ ~flags.mime => named
    BY <2>1, <2>5 DEF Mute
  <2>9. s \in BOOLEAN /\ n \in {Depth, Depth - 1} /\ n > 0
    BY <1>0, <2>1 DEF Booleans
  <2>10. Something <=> out # << >> \/ \E d \in 1..n : Spoken(d)
    BY DEF Something
  <2>11. named <=> Entry(f).type = "name" /\ Entry(f).desc /\ ~flags.mime
    OBVIOUS
  <2> HIDE DEF x, n, f, s, named
  <2>12. /\ o \in Seq(Tokens) /\ (o # << >> <=> out # << >> \/ x # << >>)
         /\ Lead(out) /\ (out = << >> => Lead(x)) => Lead(o)
    BY <1>0, <2>6, Texts
  <2> HIDE DEF o
  <2>13. o # << >> => f.ret \/ (Entry(f).type = "name" /\ Entry(f).desc /\ ~flags.mime)
    BY <2>6, <2>7, <2>11, <2>12
  <2>14. Speaking /\ (Something \/ f.ret) => o # << >> \/ \E d \in 1..n : Spoken(d)
    BY <2>7, <2>10, <2>12
  <2>15. Speaking /\ Entry(f).type \in {"use", "indirect", "name"} /\ Entry(f).desc /\ ~flags.mime
               => o # << >> \/ \E d \in 1..n : Spoken(d)
    BY <2>6, <2>8, <2>12
  <2>16. Quiet /\ (\A d \in 1..n : ~Spoken(d)) => Lead(o)
    BY <2>6, <2>7, <2>12
  <2> QED BY <1>0, <2>1, <2>2, <2>3, <2>7, <2>9, <2>12, <2>13, <2>14, <2>15, <2>16, PrintsHit
<1>10. CASE Use
  <2> DEFINE name == Entry(Top).name
             call == "use"
  <2>1. /\ Depth > 0 /\ Tests(Top) /\ (needsep' => needsep) /\ UNCHANGED <<db, flags, result, printed, first>> /\ out' = out
    BY <1>10, UseDoes
  <2>2. PICK g \in FrameType : Becomes(Depth + 1, g) /\ Starts(g, name, call) /\ g.ret = Top.ret
    BY <1>10, UseDoes
  <2>3. Top \in FrameType /\ Top = stack[Depth] /\ Keeps(Top, Top) /\ Answers(Top, Top) /\ Top.pc \in {"top", "cont"}
    BY <2>1 DEF Tests, Top, Keeps, Answers
  <2>4. stack' \in Seq(FrameType) /\ Len(stack') = Depth + 1 /\ stack'[Depth] = Top /\ stack'[Depth + 1] = g
        /\ \A d \in 1..(Depth - 1) : stack'[d] = stack[d]
    <3>1. (Depth + 1) - 1 = Depth /\ Depth \in 1..Depth
      BY <1>0, <2>1
    <3> QED BY <1>0, <2>2, <2>3, <3>1 DEF Becomes
  <2>5. call = "use" /\ out' = out /\ (g.ret <=> Top.ret)
    BY <2>1, <2>2
  <2> HIDE DEF call, name
  <2> QED BY <1>0, <2>1, <2>2, <2>3, <2>4, <2>5, PrintsStart
<1>11. CASE Indirect
  <2> DEFINE name == "root"
             call == "indirect"
  <2>1. Depth > 0 /\ Tests(Top) /\ UNCHANGED <<db, flags, needsep, printed, first, result>> /\ out' = << >>
    BY <1>11, IndirectDoes
  <2>2. PICK f, g \in FrameType :
                 /\ stack' \in Seq(FrameType) /\ Len(stack') = Depth + 1 /\ stack'[Depth] = f /\ stack'[Depth + 1] = g
                 /\ \A d \in 1..(Depth - 1) : stack'[d] = stack[d]
                 /\ Keeps(Top, f) /\ Answers(Top, f) /\ f.pc = Top.pc
                 /\ Starts(g, name, call) /\ ~g.ret
    BY <1>11, IndirectDoes
  <2>3. f.pc \in {"top", "cont"} /\ call = "indirect"
    BY <2>1, <2>2 DEF Tests
  <2> HIDE DEF call, name
  <2> QED BY <1>0, <2>1, <2>2, <2>3, PrintsStart
<1>12. ASSUME NEW n \in {Depth, Depth - 1}, n > 0, NEW f \in FrameType, NEW g \in FrameType, Becomes(n, g), Fails(f, g) PROVE FALSE
  <2>1. Depth' = n /\ Top' = g
    BY <1>12 DEF Becomes, Depth, Top
  <2> QED BY <1>12, <2>1 DEF Sound, Fails
<1>13. CASE UseReturn
  <2>1. Depth > 1 /\ Top.pc = "ret" /\ Top.call = "use" /\ UNCHANGED <<db, flags, result>>
    BY <1>13, UseReturnDoes
  <2>2. PICK s \in BOOLEAN, f \in FrameType, g \in FrameType :
            /\ s <=> (IF Top.val = 1 THEN needsep ELSE Top.sep)
            /\ Told(f, Top.ret, Caller.found \/ Top.found) /\ Becomes(Depth - 1, g)
            /\ \/ Fails(f, g)
               \/ Matched(f, g, Top.li, Depth - 1) /\ Says(f, Top.li, s, out) /\ (Top.found \/ Entry(f).not)
               \/ Missed(f, g, Top.li) /\ needsep' = s /\ UNCHANGED <<printed, first, out>>
    BY <1>13, UseReturnDoes
  <2>n. PICK n \in Nat : n = Depth - 1
    BY <1>0, <2>1
  <2> DEFINE r == Top.ret
             x == Caller.found \/ Top.found
             c == Top.li
  <2>3. Told(f, r, x) /\ (f.ret <=> Top.ret) /\ (f.found <=> Caller.found \/ Top.found)
    BY <2>2 DEF Told
  <2>4. /\ n \in {Depth, Depth - 1} /\ n > 0 /\ Caller = stack[n] /\ Top.val \in {0, 1} /\ (Top.val = 1 <=> Top.ret)
        /\ Keeps(stack[n], f) /\ Fit(f) /\ Entry(f).type = "use"
        /\ f.list \in DOMAIN db.named \cup {"root"} /\ f.idx \in 1..Size(f)
        /\ Caller.ret => Top.ret
        /\ ~flags.mime /\ Caller.found => Caller.ret
        /\ Something <=> out # << >> \/ \E d \in 1..n : Spoken(d)
        /\ Quiet /\ (\A d \in 1..n : ~Spoken(d)) => Lead(out)
    <3> HIDE DEF r, x
    <3> QED BY <1>0, <2>1, <2>3, <2>n, PrintsCaller
  <2>5. /\ out # << >> => Top.ret
        /\ ~flags.mime /\ Top.found => Top.ret
        /\ Speaking /\ Top.ret => Something
        /\ Quiet /\ (needsep \/ printed \/ ~first) => Something
        /\ Quiet /\ Top.sep => Something
    BY <1>0, <2>1, PrintsTop
  <2>6. Quiet /\ s => Something
    BY <2>2, <2>5
  <2>7. (out # << >> => f.ret) /\ (stack[n].ret => f.ret) /\ (~flags.mime /\ f.found => f.ret)
    BY <2>3, <2>4, <2>5
  <2>8. Becomes(n, g)
    BY <2>2, <2>n
  <2>9. CASE Fails(f, g)
    BY <1>12, <2>4, <2>8, <2>9
  <2>10. CASE Matched(f, g, Top.li, Depth - 1) /\ Says(f, Top.li, s, out) /\ (Top.found \/ Entry(f).not)
    <3>1. Matched(f, g, c, n) /\ Says(f, c, s, out)
      BY <2>10, <2>n
    <3>2. Speaking => ~Mute(Entry(f))
      BY <2>4, NotMute
    <3>3. Speaking /\ Entry(f).desc /\ ~flags.mime => Something
      BY <2>4, <2>5, <2>10, <3>2 DEF Mute
    <3>4. Speaking /\ (Something \/ f.ret) => out # << >> \/ \E d \in 1..n : Spoken(d)
      BY <2>3, <2>4, <2>5
    <3>5. Speaking /\ Entry(f).type \in {"use", "indirect", "name"} /\ Entry(f).desc /\ ~flags.mime
               => out # << >> \/ \E d \in 1..n : Spoken(d)
      BY <2>4, <3>3
    <3> HIDE DEF c
    <3> QED BY <1>0, <2>1, <2>4, <2>6, <2>7, <2>8, <3>1, <3>4, <3>5, PrintsHit
  <2>11. CASE Missed(f, g, Top.li) /\ needsep' = s /\ UNCHANGED <<printed, first, out>>
    <3>1. (g.ret <=> f.ret) /\ (g.found <=> f.found) /\ Keeps(f, g) /\ g.pc # "ret"
      BY <2>11 DEF Missed, Answers
    <3>2. Keeps(stack[n], g)
      BY <2>4, <3>1 DEF Keeps
    <3>3. Speaking /\ (Something \/ g.ret) => out' # << >> \/ \E d \in 1..n : Spoken(d)
      BY <2>3, <2>4, <2>5, <2>11, <3>1
    <3>4. Quiet /\ (needsep' \/ printed' \/ ~first') => Something \/ g.ret
      BY <2>5, <2>6, <2>11
    <3>5. Quiet /\ (\A d \in 1..n : ~Spoken(d)) => Lead(out')
      BY <2>4, <2>11 DEF Lead
    <3>6. (out' # << >> => g.ret) /\ (stack[n].ret => g.ret) /\ (~flags.mime /\ g.found => g.ret)
      BY <2>7, <2>11, <3>1
    <3> QED BY <1>0, <2>1, <2>4, <2>8, <3>1, <3>2, <3>3, <3>4, <3>5, <3>6, PrintsStep
  <2> QED BY <2>2, <2>9, <2>10, <2>11
<1>14. CASE IndirectReturn
  <2>1. Depth > 1 /\ Top.pc = "ret" /\ Top.call = "indirect" /\ UNCHANGED <<db, flags, result>>
    BY <1>14, IndirectReturnDoes
  <2> DEFINE y(f) == IF Entry(f).desc /\ ~flags.mime THEN << "nospace" >> ELSE << >>
             e == Top.out
             s == needsep
  <2>2. PICK f \in FrameType, g \in FrameType :
            /\ Becomes(Depth - 1, g)
            /\ \/ Fails(f, g)
               \/ /\ Top.val = 1 /\ Told(f, TRUE, TRUE) /\ Matched(f, g, li, Depth - 1)
                  /\ Says(f, li, s, e \o y(f) \o out)
               \/ /\ Top.val = 0 /\ Told(f, Caller.ret, Caller.found) /\ Entry(f).not /\ Matched(f, g, li, Depth - 1)
                  /\ Says(f, li, s, e)
               \/ /\ Top.val = 0 /\ Told(f, Caller.ret, Caller.found) /\ Missed(f, g, li)
                  /\ out' = e /\ UNCHANGED <<printed, needsep, first>>
    BY <1>14, IndirectReturnDoes
  <2>n. PICK n \in Nat : n = Depth - 1
    BY <1>0, <2>1
  <2>8. Becomes(n, g)
    BY <2>2, <2>n
  <2>3. ASSUME NEW r, NEW x, Told(f, r, x)
        PROVE  /\ n \in {Depth, Depth - 1} /\ n > 0 /\ Caller = stack[n] /\ Top.val \in {0, 1} /\ (Top.val = 1 <=> Top.ret)
               /\ Keeps(stack[n], f) /\ Fit(f) /\ Entry(f).type = "indirect" /\ e \in Seq(Tokens)
               /\ f.list \in DOMAIN db.named \cup {"root"} /\ f.idx \in 1..Size(f)
               /\ e # << >> => Caller.ret
               /\ ~flags.mime /\ Caller.found => Caller.ret
               /\ Speaking /\ Caller.ret => Something
               /\ Something <=> out # << >> \/ e # << >> \/ \E d \in 1..n : Spoken(d)
               /\ Quiet /\ (\A d \in 1..n : ~Spoken(d)) /\ e # << >> => Lead(e)
               /\ Quiet /\ (\A d \in 1..n : ~Spoken(d)) /\ e = << >> => Lead(out)
    BY <1>0, <2>1, <2>3, <2>n, PrintsCaller
  <2>4. n \in {Depth, Depth - 1} /\ n > 0 /\ s \in BOOLEAN
    BY <1>0, <2>1, <2>n DEF Booleans
  <2>5. /\ out # << >> => Top.ret
        /\ Speaking /\ Top.ret => Something
        /\ Quiet /\ (needsep \/ printed \/ ~first) => Something
    BY <1>0, <2>1, PrintsTop
  <2>6. CASE Fails(f, g)
    BY <1>12, <2>4, <2>6, <2>8
  <2>7. CASE Top.val = 1 /\ Told(f, TRUE, TRUE) /\ Matched(f, g, li, Depth - 1) /\ Says(f, li, s, e \o y(f) \o out)
    <3> DEFINE w == y(f)
               a == e \o w
               o == a \o out
    <3>1. Told(f, TRUE, TRUE) /\ Matched(f, g, li, n) /\ Says(f, li, s, o) /\ f.ret /\ f.found
      BY <2>7, <2>n DEF Told
    <3>2. /\ Top.ret /\ Keeps(stack[n], f) /\ Fit(f) /\ Entry(f).type = "indirect" /\ e \in Seq(Tokens)
          /\ Something <=> out # << >> \/ e # << >> \/ \E d \in 1..n : Spoken(d)
          /\ Quiet /\ (\A d \in 1..n : ~Spoken(d)) /\ e # << >> => Lead(e)
          /\ Quiet /\ (\A d \in 1..n : ~Spoken(d)) /\ e = << >> => Lead(out)
      <4> DEFINE t == TRUE
      <4>1. Told(f, t, t)
        BY <3>1
      <4> HIDE DEF t
      <4> QED BY <2>3, <2>7, <4>1
    <3>3. w \in Seq(Tokens) /\ Lead(w)
      BY Words
    <3> HIDE DEF w, e
    <3>4. /\ a \in Seq(Tokens) /\ (a # << >> <=> e # << >> \/ w # << >>)
          /\ Lead(e) /\ (e = << >> => Lead(w)) => Lead(a)
      BY <3>2, <3>3, Texts
    <3> HIDE DEF a
    <3>5. /\ o \in Seq(Tokens) /\ (o # << >> <=> a # << >> \/ out # << >>)
          /\ Lead(a) /\ (a = << >> => Lead(out)) => Lead(o)
      BY <1>0, <3>4, Texts
    <3> HIDE DEF o
    <3>6. Speaking => o # << >> \/ \E d \in 1..n : Spoken(d)
      BY <2>5, <3>2, <3>4, <3>5
    <3>7. ASSUME Quiet, \A d \in 1..n : ~Spoken(d) PROVE Lead(o)
      <4>1. CASE e # << >>
        <5>1. Lead(a) /\ a # << >>
          BY <3>2, <3>4, <3>7, <4>1
        <5> QED BY <3>5, <5>1
      <4>2. CASE e = << >>
        <5>1. Lead(out) /\ Lead(e)
          BY <3>2, <3>7, <4>2, Words
        <5>2. Lead(a)
          BY <3>3, <3>4, <5>1
        <5> QED BY <3>5, <5>1, <5>2
      <4> QED BY <4>1, <4>2
    <3>8. Quiet /\ s => Something
      BY <2>5
    <3> HIDE DEF s
    <3> QED BY <1>0, <2>1, <2>4, <2>8, <3>1, <3>2, <3>5, <3>6, <3>7, <3>8, PrintsHit
  <2>9. ASSUME Top.val = 0, Told(f, Caller.ret, Caller.found)
        PROVE  /\ out = << >> /\ Keeps(stack[n], f) /\ Fit(f) /\ Entry(f).type = "indirect" /\ e \in Seq(Tokens)
               /\ f.list \in DOMAIN db.named \cup {"root"} /\ f.idx \in 1..Size(f)
               /\ (f.ret <=> stack[n].ret) /\ (e # << >> => f.ret) /\ (~flags.mime /\ f.found => f.ret)
               /\ Speaking /\ (Something \/ f.ret) => e # << >> \/ \E d \in 1..n : Spoken(d)
               /\ Quiet /\ (\A d \in 1..n : ~Spoken(d)) => Lead(e)
    <3> DEFINE r == Caller.ret
               x == Caller.found
    <3>0. (f.ret <=> r) /\ (f.found <=> x) /\ Told(f, r, x)
      BY <2>9 DEF Told
    <3> HIDE DEF r, x
    <3>1. /\ n \in {Depth, Depth - 1} /\ n > 0 /\ Caller = stack[n] /\ (Top.val = 1 <=> Top.ret)
          /\ Keeps(stack[n], f) /\ Fit(f) /\ Entry(f).type = "indirect" /\ e \in Seq(Tokens)
          /\ f.list \in DOMAIN db.named \cup {"root"} /\ f.idx \in 1..Size(f)
          /\ e # << >> => Caller.ret
          /\ ~flags.mime /\ Caller.found => Caller.ret
          /\ Speaking /\ Caller.ret => Something
          /\ Something <=> out # << >> \/ e # << >> \/ \E d \in 1..n : Spoken(d)
          /\ Quiet /\ (\A d \in 1..n : ~Spoken(d)) /\ e # << >> => Lead(e)
      BY <2>3, <3>0
    <3>2. out = << >>
      BY <2>5, <2>9, <3>1
    <3>3. Lead(<< >>)
      BY Words
    <3> HIDE DEF e
    <3> QED BY <3>0, <3>1, <3>2, <3>3 DEF r, x
  <2>10. CASE Top.val = 0 /\ Told(f, Caller.ret, Caller.found) /\ Entry(f).not /\ Matched(f, g, li, Depth - 1) /\ Says(f, li, s, e)
    <3>1. /\ Keeps(stack[n], f) /\ Fit(f) /\ Entry(f).type = "indirect" /\ e \in Seq(Tokens)
          /\ f.list \in DOMAIN db.named \cup {"root"} /\ f.idx \in 1..Size(f)
          /\ (f.ret <=> stack[n].ret) /\ (e # << >> => f.ret) /\ (~flags.mime /\ f.found => f.ret)
          /\ Speaking /\ (Something \/ f.ret) => e # << >> \/ \E d \in 1..n : Spoken(d)
          /\ Quiet /\ (\A d \in 1..n : ~Spoken(d)) => Lead(e)
      BY <2>9, <2>10
    <3>2. Speaking => ~Mute(Entry(f))
      BY <3>1, NotMute
    <3>3. Speaking => ~(Entry(f).desc)
      BY <2>10, <3>1, <3>2 DEF Mute
    <3>4. Matched(f, g, li, n) /\ Says(f, li, s, e)
      BY <2>10, <2>n
    <3>5. Quiet /\ s => Something
      BY <2>5
    <3> HIDE DEF s, e
    <3> QED BY <1>0, <2>1, <2>4, <2>8, <3>1, <3>3, <3>4, <3>5, PrintsHit
  <2>11. CASE Top.val = 0 /\ Told(f, Caller.ret, Caller.found) /\ Missed(f, g, li) /\ out' = e /\ UNCHANGED <<printed, needsep, first>>
    <3>1. /\ Keeps(stack[n], f) /\ (f.ret <=> stack[n].ret) /\ (e # << >> => f.ret) /\ (~flags.mime /\ f.found => f.ret)
          /\ Speaking /\ (Something \/ f.ret) => e # << >> \/ \E d \in 1..n : Spoken(d)
          /\ Quiet /\ (\A d \in 1..n : ~Spoken(d)) => Lead(e)
      BY <2>9, <2>11
    <3>2. (g.ret <=> f.ret) /\ (g.found <=> f.found) /\ Keeps(f, g) /\ g.pc # "ret"
      BY <2>11 DEF Missed, Answers
    <3>3. Keeps(stack[n], g)
      BY <3>1, <3>2 DEF Keeps
    <3>4. Quiet /\ (needsep' \/ printed' \/ ~first') => Something \/ g.ret
      BY <2>5, <2>11
    <3>5. Quiet /\ (\A d \in 1..n : ~Spoken(d)) => Lead(out')
      BY <2>11, <3>1 DEF Lead
    <3> HIDE DEF e
    <3>6. (out' # << >> => g.ret) /\ (stack[n].ret => g.ret) /\ (~flags.mime /\ g.found => g.ret)
          /\ (Speaking /\ (Something \/ g.ret) => out' # << >> \/ \E d \in 1..n : Spoken(d))
      BY <2>11, <3>1, <3>2
    <3> QED BY <1>0, <2>1, <2>4, <2>8, <3>2, <3>3, <3>4, <3>5, <3>6, PrintsStep
  <2> QED BY <2>2, <2>6, <2>7, <2>10, <2>11
<1>15. CASE RootReturn
  <2>1. Depth > 0 /\ Top.pc = "ret" /\ Top.call = "root" /\ stack' = << >> /\ UNCHANGED <<db, flags, out, printed, needsep, first>>
        /\ result' = <<"nomatch", "match", "error">>[Top.val + 1]
    BY <1>15 DEF RootReturn, Returned
  <2>2. Depth' = 0 /\ 1..0 = {} /\ 2..0 = {}
    BY <2>1 DEF Depth
  <2>3. Depth = 1
    BY <1>0, <2>1 DEF Calls, Waiting, Top
  <2>4. ~Spoken(1) /\ 1..1 = {1}
    BY <2>1, <2>3 DEF Spoken, Top
  <2>5. Something <=> out # << >>
    BY <2>3, <2>4 DEF Something
  <2>6. Something' <=> out # << >>
    BY <2>1, <2>2 DEF Something
  <2>7. Top.val \in {0, 1} /\ (Top.val = 1 <=> Top.ret)
    <3>1. Top.val \in 0..2 /\ Top.val # 2
      BY <1>0, <2>1, Frames DEF FrameType, Sound, Top
    <3> QED BY <1>0, <2>1, <3>1, PrintsTop
  <2>8. (Top.val = 1 => result' = "match") /\ (Top.val = 0 => result' = "nomatch")
    BY <2>1
  <2>9. (result' = "match" => Top.ret) /\ (result' = "nomatch" => ~Top.ret)
    BY <2>7, <2>8
  <2>10. Speaking' <=> Speaking
    BY <2>1 DEF Speaking
  <2>11. (out # << >> => Top.ret) /\ (Speaking /\ Top.ret => Something)
    BY <1>0, <2>1, PrintsTop
  <2>12. Printing'
    BY <2>1, <2>2, <2>5, <2>9, <2>10, <2>11 DEF Printing
  <2>13. Quiet => ((needsep \/ printed \/ ~first) => Something) /\ Lead(out)
    <3>1. \A d \in 1..Depth : ~Spoken(d)
      BY <2>3, <2>4
    <3> QED BY <1>0, <2>1, <3>1, PrintsTop
  <2>14. Leading'
    BY <2>1, <2>2, <2>5, <2>6, <2>10, <2>13 DEF Leading, Quiet, Lead
  <2> QED BY <2>12, <2>14
<1> QED BY <1>1, <1>3, <1>4, <1>5, <1>6, <1>7, <1>8, <1>9, <1>10, <1>11, <1>13, <1>14, <1>15 DEF Next, Step, Finished

\* Nothing has been printed.
LEMMA PrintsInit == Init => Printing /\ Leading
<1> SUFFICES ASSUME Init PROVE Printing /\ Leading
  OBVIOUS
<1>1. /\ Depth = 1 /\ Starts(stack[1], "root", "root") /\ ~stack[1].ret /\ out = << >> /\ Top = stack[1]
      /\ ~printed /\ ~needsep /\ first /\ result = "none"
  BY FirstCall DEF Init
<1>2. 1..1 = {1} /\ 2..1 = {}
  OBVIOUS
<1>3. stack[1].pc = "for" /\ ~stack[1].found /\ stack[1].call = "root"
  BY <1>1 DEF Starts
<1>4. ~Spoken(1)
  BY <1>3 DEF Spoken
<1>5. Printing
  BY <1>1, <1>2, <1>3, <1>4 DEF Printing
<1>6. Leading
  BY <1>1, <1>2, <1>3, <1>4 DEF Leading, Lead
<1> QED BY <1>5, <1>6

\* file_softmagic() reports a match only when something has been printed, and none only
\* when nothing has, unless the database has a negated use or indirect test with a
\* description.
THEOREM ResultsArePrinted == Spec => []ResultSaysPrinted
<1>1. Calls /\ Printing => ResultSaysPrinted
  <2> SUFFICES ASSUME Calls, Printing PROVE ResultSaysPrinted
    OBVIOUS
  <2>1. result \in {"match", "nomatch"} => stack = << >>
    BY DEF Calls, Waiting
  <2>2. result \in {"match", "nomatch"} => Sound
    BY <2>1 DEF Sound, Depth
  <2> QED BY <2>2 DEF Printing, ResultSaysPrinted
<1> QED BY <1>1, CallsInit, PrintsInit, CallsInductive, PrintsInductive, PTL DEF Spec

\* What file_softmagic() has printed never begins with a separator or a blank, except
\* with MAGIC_MIME and MAGIC_CONTINUE together.
THEOREM NothingLeads == Spec => []NoLeadingSeparator
<1>1. Calls /\ Printing /\ Leading => NoLeadingSeparator
  <2> SUFFICES ASSUME Calls, Printing, Leading, result = "match", Speaking, ~(flags.mime /\ flags.cont)
               PROVE  out[1] \notin {"sep", "space"}
    BY DEF NoLeadingSeparator
  <2>1. Depth = 0 /\ 1..0 = {}
    BY DEF Calls, Waiting, Depth
  <2>2. Sound
    BY <2>1 DEF Sound
  <2>3. out # << >> /\ Lead(out)
    BY <2>1, <2>2 DEF Printing, Leading
  <2> QED BY <2>3 DEF Lead
<1> QED BY <1>1, CallsInit, PrintsInit, CallsInductive, PrintsInductive, PTL DEF Spec
=============================================================================
