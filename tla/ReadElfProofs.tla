----------------------------- MODULE ReadElfProofs -----------------------------
(***************************************************************************)
(* ELF files, for words and sizes of any width, and any sizes, alignments, *)
(* notes and limits.                                                       *)
(***************************************************************************)
EXTENDS MCReaders, SetInduction, FunctionTheorems, FiniteSetTheorems

-----------------------------------------------------------------------------
(* Powers of two, division and remainders.                                 *)

\* A power of two counts the sets of bits.
LEMMA PowerCounts ==
    ASSUME NEW n \in Nat PROVE IsFiniteSet(SUBSET (1..n)) /\ Cardinality(SUBSET (1..n)) = 2^n /\ 2^n \in Nat /\ 2^n > 0
<1>1. IsFiniteSet(1..n) /\ Cardinality(1..n) = n
  BY FS_Interval
<1>2. IsFiniteSet(SUBSET (1..n)) /\ Cardinality(SUBSET (1..n)) = 2^n
  BY <1>1, FS_SUBSET
<1>3. Cardinality(SUBSET (1..n)) \in Nat
  BY <1>2, FS_CardinalityType
<1>4. Cardinality(SUBSET (1..n)) # 0
  <2>1. {} \in SUBSET (1..n)
    OBVIOUS
  <2>2. SUBSET (1..n) # {}
    BY <2>1
  <2> QED BY <1>2, <2>2, FS_EmptySet
<1> QED BY <1>2, <1>3, <1>4

\* The sets of bits of a word are the pairs of those of its two parts.
LEMMA PowerSum == ASSUME NEW m \in Nat, NEW k \in Nat PROVE 2^(m + k) = 2^m * 2^k
<1> DEFINE A == SUBSET (1..m)
           B == SUBSET ((m + 1)..(m + k))
           C == SUBSET (1..(m + k))
           f == [p \in A \X B |-> p[1] \cup p[2]]
<1>1. IsFiniteSet(A) /\ Cardinality(A) = 2^m
  BY PowerCounts
<1>2. IsFiniteSet(B) /\ Cardinality(B) = 2^k
  <2>1. IsFiniteSet((m + 1)..(m + k)) /\ Cardinality((m + 1)..(m + k)) = k
    <3>1. m + 1 \in Int /\ m + k \in Int
      OBVIOUS
    <3>2. IsFiniteSet((m + 1)..(m + k)) /\ Cardinality((m + 1)..(m + k)) = IF m + 1 > m + k THEN 0 ELSE (m + k) - (m + 1) + 1
      BY <3>1, FS_Interval
    <3> QED BY <3>2
  <2> QED BY <2>1, FS_SUBSET
<1>3. IsFiniteSet(C) /\ Cardinality(C) = 2^(m + k)
  <2>1. m + k \in Nat
    OBVIOUS
  <2> QED BY <2>1, PowerCounts
<1>4. IsFiniteSet(A \X B) /\ Cardinality(A \X B) = Cardinality(A) * Cardinality(B)
  <2> HIDE DEF A, B
  <2> QED BY <1>1, <1>2, FS_Product
<1>5. f \in Bijection(A \X B, C)
  <2>1. f \in [A \X B -> C]
    OBVIOUS
  <2>2. ASSUME NEW p \in A \X B, NEW q \in A \X B, f[p] = f[q] PROVE p = q
    <3>1. p = <<p[1], p[2]>> /\ q = <<q[1], q[2]>> /\ p[1] \in A /\ p[2] \in B /\ q[1] \in A /\ q[2] \in B
      OBVIOUS
    <3>2. p[1] \cup p[2] = q[1] \cup q[2]
      BY <2>2
    <3>3. ASSUME NEW x PROVE x \in p[1] <=> x \in q[1]
      BY <3>1, <3>2
    <3>4. ASSUME NEW x PROVE x \in p[2] <=> x \in q[2]
      BY <3>1, <3>2
    <3>5. p[1] = q[1] /\ p[2] = q[2]
      BY <3>3, <3>4
    <3> HIDE DEF A, B
    <3> QED BY <3>1, <3>5
  <2>3. ASSUME NEW c \in C PROVE \E p \in A \X B : f[p] = c
    <3> DEFINE a == c \cap (1..m)
               b == c \cap ((m + 1)..(m + k))
    <3>0. ASSUME NEW x \in c PROVE x \in 1..m \/ x \in (m + 1)..(m + k)
      <4>1. x \in 1..(m + k)
        OBVIOUS
      <4> QED BY <4>1
    <3>1. a \in A /\ b \in B /\ a \cup b = c
      BY <3>0
    <3> HIDE DEF A, B, a, b
    <3>2. <<a, b>> \in A \X B /\ f[<<a, b>>] = c
      BY <3>1
    <3> QED BY <3>2
  <2> HIDE DEF A, B, C, f
  <2> QED BY <2>1, <2>2, <2>3, Fun_IsBij
<1>6. Cardinality(C) = Cardinality(A \X B)
  <2>1. ExistsBijection(A \X B, C)
    BY <1>5 DEF ExistsBijection
  <2> HIDE DEF A, B, C
  <2> QED BY <1>4, <2>1, FS_Bijection
<1> QED BY <1>1, <1>2, <1>3, <1>4, <1>6

\* Division and remainder.
LEMMA Divides ==
    ASSUME NEW a \in Int, NEW b \in Int, b > 0
    PROVE  /\ a \div b \in Int /\ a % b \in Int /\ a = b * (a \div b) + (a % b) /\ a % b >= 0 /\ a % b < b
           /\ 0 <= a /\ a < b => a % b = a /\ a \div b = 0
OBVIOUS

-----------------------------------------------------------------------------
(* The arithmetic of donote().                                             *)

USE ElfAssumption, KindsAssumption DEF ElfAssumption, KindsAssumption

\* The sign bit of a word.
Sign == 2^(WordBits - 1)

\* A number of some width whose bit 31 is not set lies below the largest one by that bit.
LEMMA Positive ==
    ASSUME NEW P \in Nat, P > 0, NEW K \in Nat, K > 0, NEW x \in Nat, x < (2 * K) * P, ~((x \div P) % 2 = 1)
    PROVE  x + P < (2 * K) * P
<1> DEFINE q == x \div P
           r == x % P
           h == q \div 2
<1>1. q \in Int /\ r \in Int /\ x = P * q + r /\ r >= 0 /\ r < P
  BY Divides
<1>2. q % 2 = 0 /\ h \in Int /\ q = 2 * h
  <2> HIDE DEF q
  <2>1. q % 2 # 1
    BY DEF q
  <2> QED BY <1>1, <2>1
<1> HIDE DEF q, r, h
<1>3. h < K
  <2> SUFFICES ASSUME h >= K PROVE FALSE
    BY <1>2
  <2>1. q >= 2 * K
    BY <1>1, <1>2
  <2>2. P * q >= P * (2 * K)
    <3> DEFINE d == q - 2 * K
    <3>1. d \in Nat /\ q = 2 * K + d
      BY <1>1, <2>1
    <3>2. P * d >= 0
      BY <3>1
    <3> QED BY <3>1, <3>2
  <2>3. x >= P * (2 * K)
    BY <1>1, <2>2
  <2> QED BY <2>3
<1>4. q + 2 <= 2 * K
  BY <1>1, <1>2, <1>3
<1>5. P * (q + 2) <= P * (2 * K)
  <2> DEFINE d == 2 * K - (q + 2)
  <2>1. d \in Nat /\ 2 * K = (q + 2) + d
    BY <1>1, <1>4
  <2>2. P * d >= 0 /\ P * (2 * K) = P * (q + 2) + P * d
    BY <1>1, <2>1
  <2>3. P * (2 * K) \in Int /\ P * (q + 2) \in Int /\ P * d \in Int
    BY <1>1, <2>1
  <2> QED BY <2>2, <2>3
<1>6. x + P < P * (q + 2)
  BY <1>1
<1>7. P * (2 * K) = (2 * K) * P /\ P * (2 * K) \in Int /\ P * (q + 2) \in Int
  BY <1>1
<1> QED BY <1>5, <1>6, <1>7

\* A word has the sign bit and what is below it, and a size at least as many bits.
LEMMA Widths ==
    /\ Sign \in Nat /\ Sign > 0 /\ 2^WordBits = (2 * 1) * Sign
    /\ \A b \in Builds : 2^b \in Nat /\ \E K \in Nat : K > 0 /\ 2^b = (2 * K) * Sign
<1>0. WordBits - 1 \in Nat
  OBVIOUS
<1>1. Sign \in Nat /\ Sign > 0
  BY <1>0, PowerCounts DEF Sign
<1>2. 2^1 = 2
  OBVIOUS
<1>3. 2^WordBits = 2 * Sign
  <2>1. 2^(1 + (WordBits - 1)) = 2^1 * 2^(WordBits - 1)
    <3> DEFINE k == WordBits - 1
    <3> HIDE DEF k
    <3>1. k \in Nat
      BY <1>0 DEF k
    <3>2. 2^(1 + k) = 2^1 * 2^k
      BY <3>1, PowerSum
    <3> QED BY <3>2 DEF k
  <2>2. 1 + (WordBits - 1) = WordBits
    OBVIOUS
  <2> QED BY <1>2, <2>1, <2>2 DEF Sign
<1>4. ASSUME NEW b \in Builds PROVE 2^b \in Nat /\ \E K \in Nat : K > 0 /\ 2^b = (2 * K) * Sign
  <2> DEFINE d == b - WordBits
  <2>1. b \in Nat /\ d \in Nat /\ d + WordBits = b
    OBVIOUS
  <2> HIDE DEF d
  <2>2. 2^b = 2^d * 2^WordBits
    BY <2>1, PowerSum
  <2>3. 2^d \in Nat /\ 2^d > 0 /\ 2^b \in Nat
    BY <2>1, PowerCounts
  <2> DEFINE K == 2^d
  <2>4. K \in Nat /\ K > 0 /\ 2^b = K * (2 * Sign)
    BY <1>3, <2>2, <2>3
  <2> HIDE DEF K
  <2>5. 2^b = (2 * K) * Sign
    BY <1>1, <2>4
  <2> QED BY <2>3, <2>4, <2>5
<1> QED BY <1>1, <1>3, <1>4

\* What an alignment does to a number: it takes it on to the next multiple when there is
\* one that size_t can hold, and to 0 otherwise.
LEMMA Aligned ==
    ASSUME NEW M \in Nat, M > 0, M = 2^build, NEW al \in Nat, al > 0, al < M, NEW x \in Nat
    PROVE  /\ Align(x, al) \in Nat /\ Align(x, al) < M
           /\ x + al - 1 < M => x <= Align(x, al) /\ Align(x, al) <= x + al - 1 /\ (x <= al => Align(x, al) <= al)
           /\ M <= x + al - 1 /\ x + al - 1 < M + al => Align(x, al) = 0
<1> DEFINE y == (x + al - 1) % M
           q == y \div al
           z == (q * al) % M
<1>0. Align(x, al) = z
  BY DEF Align, Wide
<1> DEFINE n == x + al - 1
<1>n. n \in Nat
  OBVIOUS
<1>1. y \in Nat /\ y < M /\ (n < M => y = n) /\ (M <= n /\ n < M + al => y = n - M)
  <2>1. y = n % M /\ n % M \in Int /\ n = M * (n \div M) + (n % M) /\ n % M >= 0 /\ n % M < M
        /\ (n < M => n % M = n) /\ n \div M \in Int
    BY <1>n, Divides
  <2>2. ASSUME M <= n, n < M + al PROVE n % M = n - M
    <3> DEFINE j == n \div M
               r == n % M
    <3>1. j \in Int /\ r \in Int /\ n = M * j + r /\ r >= 0 /\ r < M /\ n < 2 * M /\ M <= n
      BY <1>n, <2>1, <2>2
    <3> HIDE DEF j, r, n
    <3>2. j = 1
      BY <1>n, <3>1
    <3>3. r = n - M
      BY <1>n, <3>1, <3>2
    <3> QED BY <3>3 DEF r
  <2> QED BY <1>n, <2>1, <2>2
<1> HIDE DEF y
<1>2. q \in Int /\ y = al * q + (y % al) /\ y % al >= 0 /\ y % al < al /\ y % al \in Int /\ (y < al => q = 0)
  BY <1>1, Divides
<1> HIDE DEF q
<1>3. q >= 0 /\ q * al \in Nat /\ q * al <= y /\ y < q * al + al
  <2> DEFINE r == y % al
  <2>1. r \in Int /\ r >= 0 /\ r < al /\ y = al * q + r
    BY <1>2
  <2> HIDE DEF r
  <2>2. q >= 0
    BY <1>1, <1>2, <2>1
  <2>3. q * al = al * q /\ q * al \in Int /\ q * al >= 0
    BY <1>2, <2>2
  <2> QED BY <1>1, <2>1, <2>2, <2>3
<1>4. z = q * al
  <2> DEFINE p == q * al
  <2>1. p \in Nat /\ p < M
    BY <1>1, <1>3
  <2> HIDE DEF p
  <2>2. p % M = p
    BY <2>1, Divides
  <2> QED BY <2>2 DEF p
<1>5. z \in Nat /\ z < M
  BY <1>1, <1>3, <1>4
<1>6. n < M => x <= z /\ z <= n /\ (x <= al => z <= al)
  <2> DEFINE p == q * al
  <2>1. p \in Nat /\ p <= y /\ y < p + al
    BY <1>3
  <2> HIDE DEF p
  <2>2. n < M => x <= p /\ p <= n
    BY <1>1, <2>1
  <2>3. ASSUME n < M, x <= al PROVE p <= al
    <3>1. y < 2 * al
      BY <1>n, <1>1, <2>3
    <3>2. q <= 1
      <4> SUFFICES ASSUME q >= 2 PROVE FALSE
        BY <1>2
      <4> DEFINE d == q - 2
      <4>1. d \in Nat /\ q = d + 2
        BY <1>2
      <4> HIDE DEF d
      <4>2. q * al = 2 * al + d * al /\ d * al \in Nat
        BY <4>1
      <4>3. q * al >= 2 * al
        BY <4>2
      <4> QED BY <1>1, <1>3, <3>1, <4>3
    <3>3. q = 0 \/ q = 1
      BY <1>2, <1>3, <3>2
    <3> QED BY <3>3 DEF p
  <2> QED BY <1>4, <2>2, <2>3 DEF p
<1>7. M <= n /\ n < M + al => z = 0
  <2> SUFFICES ASSUME M <= n, n < M + al PROVE z = 0
    OBVIOUS
  <2>1. y < al
    BY <1>n, <1>1
  <2>2. q = 0
    BY <1>2, <2>1
  <2> QED BY <1>4, <2>2
<1> QED BY <1>0, <1>5, <1>6, <1>7

-----------------------------------------------------------------------------
(* What is true of the reader in every state.                              *)

EPlaces == {"start", "phs", "ph", "sh", "shn", "note", "handle", "end", "done"}
NotesType == [off : Nat, size : 0..BufMax, align : Nat, ret : Nat, back : {"none", "ph", "shn"}]

\* Which headers the reader is at, also while it reads the notes one leads to.
At == IF epc \in {"note", "handle"} THEN nb.back ELSE epc

\* An alignment of the notes: one size_t can hold whose bit 31 is not set.
GoodAlign(a) == a > 0 /\ a < 2^build /\ ~Negative(a)

\* The notes: they are a buffer with an alignment the arithmetic can take, and the headers
\* that lead to them are the sections when there is one.
Measured ==
    /\ epc \in EPlaces /\ nb \in NotesType /\ shnum \in Nat
    /\ epc \notin {"start", "done"} => build \in Builds
    /\ epc \in {"note", "handle"} => nb.back \in {"ph", "shn"} /\ GoodAlign(nb.align)
    /\ At \in {"phs", "ph"} => etype \in {"core", "exec"}
    /\ At = "ph" /\ mime => etype = "exec"
    /\ At \in {"sh", "shn"} => etype \in {"exec", "rel"}
    /\ At = "shn" => shnum > 0
    /\ etype = "core" => shnum = 0
    /\ epc = "start" => via = {}
    /\ via \subseteq {"program", "section"}
    /\ "program" \in via => shnum = 0
    /\ "section" \in via => shnum > 0
    /\ bounds /\ onwards

SectionWords == StripWords \cup {"debug_info", "hardware", "software"}
ProgramWords == LinkWords \cup {"interpreter"}
EndWords == LimitWords \cup {"too many notes"}
OneOf(W) == \E x \in W : said \cap W = {x}

\* What is told once is marked, and the style is known once it was told.
Marked ==
    /\ ~twice /\ (mime => said = {})
    /\ said \cap (Marks \cup {"os", "build"}) \subseteq did
    /\ "from" \in said => "core" \in did /\ (etype = "core" \/ "style" \in said)
    /\ "auxv" \in said => "auxv" \in did /\ etype = "core" /\ style = "SVR4"
    /\ "style" \in said => style # "none"
    /\ style # "none" => "style" \in said \/ Quiet

\* What was said, by where the reader is.
Placed ==
    /\ epc = "start" => said = {}
    /\ epc # "done" => eret = 2 /\ said \cap EndWords = {}
    /\ At \in {"phs", "ph"} => said \cap (ProgramWords \cup SectionWords) = {}
    /\ At \in {"sh", "shn"} => said \cap SectionWords = {}
    /\ At \in {"sh", "shn", "end"} /\ etype = "exec" /\ ~Quiet => OneOf(LinkWords)
    /\ At = "end" /\ etype = "exec" /\ ~Quiet => OneOf(StripWords)
    /\ said \cap LinkWords # {} => etype \in {"exec", "core"}
    /\ said \cap {"statically", "dynamically", "static-pie"} # {} => etype = "exec"
    /\ epc = "done" =>
        /\ eret = -1 => err
        /\ eret = 1 /\ ~Quiet =>
            /\ "too many notes" \in said => notecount = 0
            /\ notecount = 0 => said \cap EndWords # {}
            /\ etype = "exec" => \/ \E x \in LimitWords : said = {x}
                                 \/ OneOf(LinkWords) /\ OneOf(StripWords)

-----------------------------------------------------------------------------
(* Notes.                                                                  *)

\* An alignment leaves room below the largest size for a word whose sign is not set.
LEMMA AlignRoom ==
    ASSUME build \in Builds, NEW a \in Nat, GoodAlign(a)
    PROVE  a + Sign < 2^build /\ 2^build >= 2 * Sign /\ 2^build \in Nat
<1>1. PICK K \in Nat : K > 0 /\ 2^build = (2 * K) * Sign
  BY Widths
<1>2. Sign \in Nat /\ Sign > 0 /\ 2^build \in Nat
  BY Widths
<1>3. a < (2 * K) * Sign /\ ~((a \div Sign) % 2 = 1)
  BY <1>1 DEF GoodAlign, Negative, Sign
<1>4. a + Sign < (2 * K) * Sign
  BY <1>1, <1>2, <1>3, Positive
<1>5. (2 * K) * Sign >= 2 * Sign
  <2> DEFINE k == K - 1
  <2>1. k \in Nat /\ K = k + 1
    BY <1>1
  <2> HIDE DEF k
  <2>2. (2 * K) * Sign = 2 * Sign + (2 * k) * Sign /\ (2 * k) * Sign \in Nat
    BY <1>2, <2>1
  <2> QED BY <1>2, <2>2
<1> QED BY <1>1, <1>2, <1>4, <1>5

\* A word whose sign is not set is below it.
LEMMA WordBelow == ASSUME NEW x \in NoteWords, ~Negative(x) PROVE x \in Nat /\ x < Sign
<1>1. Sign \in Nat /\ Sign > 0 /\ 2^WordBits = (2 * 1) * Sign
  BY Widths
<1>2. x \in Nat /\ x < (2 * 1) * Sign
  BY <1>1
<1>3. ~((x \div Sign) % 2 = 1)
  BY DEF Negative, Sign
<1>4. x + Sign < (2 * 1) * Sign
  BY <1>1, <1>2, <1>3, Positive
<1> QED BY <1>1, <1>2, <1>4

\* The arithmetic of donote(), for every width, size and alignment.  It never wraps round
\* where it decides that a note lies inside the buffer.
LEMMA NoteArithmetic ==
    ASSUME build \in Builds, NEW off \in Nat, NEW size \in 0..BufMax, off < size, NEW al \in Nat, GoodAlign(al),
           NEW namesz \in NoteWords, NEW descsz \in NoteWords,
           NEW r, r = NoteAt(off, size, al, namesz, descsz)
    PROVE  /\ r.ret \in Nat /\ (r.ret = 0 \/ r.ret > off)
           /\ r.read => off + NhSize + namesz <= r.doff /\ r.doff + descsz <= size
<1>p. PICK M \in Nat, S \in Nat : M = 2^build /\ S = Sign
  BY Widths
<1> DEFINE offset == off + NhSize
           x == offset + namesz
           doff == Align(x, al)
           next == Align(doff + descsz, al)
<1>0. /\ namesz \in Nat /\ descsz \in Nat /\ offset \in Nat /\ x \in Nat /\ NhSize \in Nat /\ BufMax \in Nat
      /\ size \in Nat /\ size <= BufMax
  BY Widths
<1>1. al + S < M /\ M >= 2 * S /\ al > 0 /\ al < M /\ M > 0 /\ 2 * (BufMax + NhSize) < S
  <2>1. 2 * (BufMax + NhSize) < S
    BY <1>p DEF Sign
  <2> QED BY <1>0, <1>p, <2>1, AlignRoom DEF GoodAlign
<1>2. /\ doff \in Nat /\ doff < M
      /\ x + al - 1 < M => x <= doff /\ doff <= x + al - 1 /\ (x <= al => doff <= al)
      /\ M <= x + al - 1 /\ x + al - 1 < M + al => doff = 0
  BY <1>0, <1>1, <1>p, Aligned
<1> HIDE DEF doff
<1>3. doff + descsz \in Nat
  BY <1>0, <1>2
<1>4. next \in Nat /\ (doff + descsz + al - 1 < M => doff + descsz <= next)
  <2> DEFINE y == doff + descsz
  <2>1. y \in Nat
    BY <1>3
  <2> HIDE DEF y
  <2>2. Align(y, al) \in Nat /\ (y + al - 1 < M => y <= Align(y, al))
    BY <1>1, <1>p, <2>1, Aligned
  <2> QED BY <2>2 DEF y
<1> HIDE DEF next
<1>5. \A y \in Nat : Wide(y) \in Nat /\ (y < M => Wide(y) = y)
  <2>1. ASSUME NEW y \in Nat PROVE Wide(y) \in Nat /\ (y < M => Wide(y) = y)
    BY <1>1, <1>p, Divides DEF Wide
  <2> QED BY <2>1
<1>6. \/ offset > size /\ r = Skip(offset)
      \/ offset <= size /\ namesz = 0 /\ descsz = 0 /\ r = Skip(size)
      \/ r = Bad
      \/ /\ offset <= size /\ ~(namesz = 0 /\ descsz = 0) /\ ~Negative(namesz) /\ ~Negative(descsz)
         /\ \/ Wide(x) > size /\ r = Skip(doff)
            \/ Wide(x) <= size /\ Wide(doff + descsz) > size /\ r = Skip(AtLeast(next, size))
            \/ /\ Wide(x) <= size /\ Wide(doff + descsz) <= size
               /\ r = [ret |-> next, bad |-> FALSE, read |-> TRUE, doff |-> doff]
  <2>1. Wide(x) \in Int /\ Wide(doff + descsz) \in Int
    BY <1>0, <1>3, <1>5
  <2>2. /\ offset > size => r = Skip(offset)
        /\ ~(offset > size) /\ namesz = 0 /\ descsz = 0 => r = Skip(size)
        /\ ~(offset > size) /\ ~(namesz = 0 /\ descsz = 0) /\ (Negative(namesz) \/ Negative(descsz)) => r = Bad
        /\ ~(offset > size) /\ ~(namesz = 0 /\ descsz = 0) /\ ~(Negative(namesz) \/ Negative(descsz)) =>
             /\ Wide(x) > size => r = Skip(doff)
             /\ ~(Wide(x) > size) /\ Wide(doff + descsz) > size => r = Skip(AtLeast(next, size))
             /\ ~(Wide(x) > size) /\ ~(Wide(doff + descsz) > size) =>
                  r = [ret |-> next, bad |-> FALSE, read |-> TRUE, doff |-> doff]
    BY Zenon DEF NoteAt, doff, next
  <2> HIDE DEF offset, x
  <2> QED BY <1>0, <2>1, <2>2
<1>7. \A y : Skip(y).ret = y /\ Skip(y).read = FALSE
  BY DEF Skip
<1>8. CASE offset > size /\ r = Skip(offset)
  BY <1>0, <1>7, <1>8
<1>9. CASE offset <= size /\ namesz = 0 /\ descsz = 0 /\ r = Skip(size)
  BY <1>0, <1>7, <1>9
<1>10. CASE r = Bad
  BY <1>10 DEF Bad
<1>11. ASSUME offset <= size, ~(namesz = 0 /\ descsz = 0), ~Negative(namesz), ~Negative(descsz)
       PROVE  /\ Wide(x) > size /\ r = Skip(doff) => r.ret \in Nat /\ (r.ret = 0 \/ r.ret > off) /\ ~r.read
              /\ Wide(x) <= size /\ Wide(doff + descsz) > size /\ r = Skip(AtLeast(next, size)) => r.ret \in Nat /\ r.ret > off /\ ~r.read
              /\ Wide(x) <= size /\ Wide(doff + descsz) <= size /\ r = [ret |-> next, bad |-> FALSE, read |-> TRUE, doff |-> doff]
                    => r.ret \in Nat /\ r.ret > off /\ x <= r.doff /\ r.doff + descsz <= size
  <2>1. namesz < S /\ descsz < S
    BY <1>11, <1>p, WordBelow
  <2>2. x < M /\ Wide(x) = x
    <3>1. x < M
      BY <1>0, <1>1, <1>11, <2>1
    <3> QED BY <1>0, <1>5, <3>1
  <2>3. CASE x > size
    <3>1. doff = 0 \/ doff > off
      <4>1. x + al - 1 < M + al
        BY <1>0, <1>1, <2>2
      <4> QED BY <1>0, <1>1, <1>2, <2>3, <4>1
    <3> QED BY <1>2, <1>7, <2>2, <2>3, <3>1
  <2>4. CASE x <= size
    <3>1. x + al - 1 < M /\ x <= doff /\ doff <= x + al - 1
      <4>1. x + al - 1 < M
        BY <1>0, <1>1, <2>4
      <4> QED BY <1>2, <4>1
    <3>2. doff + descsz < M /\ Wide(doff + descsz) = doff + descsz
      <4>1. doff <= al \/ doff < 2 * x
        BY <1>0, <1>1, <1>2, <3>1
      <4>2. doff + descsz < M
        BY <1>0, <1>1, <1>2, <2>1, <2>4, <4>1
      <4> QED BY <1>3, <1>5, <4>2
    <3>3. Wide(doff + descsz) > size => AtLeast(next, size) \in Nat /\ AtLeast(next, size) > off
      BY <1>0, <1>4 DEF AtLeast
    <3>4. doff + descsz <= size => next > off
      <4> SUFFICES ASSUME doff + descsz <= size PROVE next > off
        OBVIOUS
      <4>1. (doff + descsz) + al - 1 < M
        BY <1>0, <1>1, <1>2
      <4>2. doff + descsz <= next
        BY <1>4, <4>1
      <4>3. doff + descsz > off
        BY <1>0, <1>2, <1>11, <3>1
      <4> QED BY <1>0, <1>2, <1>4, <4>2, <4>3
    <3> QED BY <1>2, <1>4, <1>7, <2>2, <2>4, <3>1, <3>2, <3>3, <3>4
  <2> QED BY <1>0, <2>3, <2>4
<1> QED BY <1>6, <1>8, <1>9, <1>10, <1>11

\* A step of the readers is one of the ELF reader, or none of it.
LEMMA ElfSteps == ASSUME [ReadersNext]_readersVars PROVE [ElfNext]_elfVars
BY DEF ReadersNext, readersVars, elfVars

\* The smallest alignment is a good one.
LEMMA MinAlignGood == ASSUME build \in Builds PROVE GoodAlign(MinAlign)
<1>1. Sign \in Nat /\ Sign > 0 /\ MinAlign \in Nat /\ MinAlign > 0 /\ MinAlign < Sign
  BY Widths DEF Sign
<1>2. MinAlign \div Sign = 0
  BY <1>1, Divides
<1>3. ~Negative(MinAlign)
  BY <1>2 DEF Negative, Sign
<1>4. PICK K \in Nat : K > 0 /\ 2^build = (2 * K) * Sign
  BY Widths
<1>5. Sign < 2^build
  <2> DEFINE k == K - 1
  <2>1. k \in Nat /\ K = k + 1
    BY <1>4
  <2> HIDE DEF k
  <2>2. (2 * K) * Sign = 2 * Sign + (2 * k) * Sign /\ (2 * k) * Sign \in Nat
    BY <1>1, <2>1
  <2> QED BY <1>1, <1>4, <2>2
<1>6. 2^build \in Nat
  BY Widths
<1>7. MinAlign < 2^build
  <2> DEFINE W == 2^build
  <2>1. W \in Nat /\ Sign < W
    BY <1>5, <1>6
  <2> HIDE DEF W
  <2>2. MinAlign < W
    BY <1>1, <2>1
  <2> QED BY <2>2 DEF W
<1> QED BY <1>1, <1>3, <1>7, Zenon DEF GoodAlign

\* Steps that leave the notes.
LEMMA MeasuredKept ==
    ASSUME Measured, UNCHANGED <<fileVars, nb, via, bounds, onwards>>,
           epc' \in {"ph", "sh", "shn", "end", "done"}, epc \notin {"note", "handle"},
           epc' # "done" => epc \notin {"start", "done"},
           epc' = "ph" => etype \in {"core", "exec"} /\ (mime => etype = "exec"), epc' \in {"sh", "shn"} => etype \in {"exec", "rel"},
           epc' = "shn" => shnum > 0
    PROVE  Measured'
<1>1. At' = epc'
  BY DEF At
<1> QED BY <1>1 DEF Measured, fileVars, EPlaces, mime

\* The loop over the notes goes on, with an offset or with the headers.
LEMMA MeasuredResume ==
    ASSUME Measured, epc \in {"note", "handle"}, NEW off \in Nat, Resume(off), UNCHANGED <<fileVars, via>>, bounds', onwards'
    PROVE  Measured'
<1>1. CASE off = 0
  <2>1. epc' = nb.back /\ nb' = NoNotes /\ nb.back \in {"ph", "shn"}
    BY <1>1 DEF Resume, Measured
  <2>2. nb' \in NotesType
    BY <2>1 DEF NoNotes, NotesType
  <2>3. At' = At /\ epc' \in {"ph", "shn"}
    BY <2>1 DEF At
  <2> QED BY <2>2, <2>3 DEF Measured, fileVars, EPlaces, mime
<1>2. CASE off # 0
  <2>1. epc' = "note" /\ nb' = [nb EXCEPT !.off = off, !.ret = 0] /\ nb \in NotesType
    BY <1>2 DEF Resume, Measured
  <2>2. nb' \in NotesType /\ nb'.back = nb.back /\ nb'.align = nb.align
    BY <2>1 DEF NotesType
  <2>3. At' = At
    BY <2>1, <2>2 DEF At
  <2>5. GoodAlign(nb.align)'
    BY <2>2 DEF GoodAlign, fileVars, Negative, Measured
  <2> QED BY <2>1, <2>2, <2>3, <2>5 DEF Measured, fileVars, EPlaces, mime
<1> QED BY <1>1, <1>2

\* One note.
LEMMA MeasuredNote == ASSUME Measured, NoteHeader PROVE Measured'
<1>0. epc = "note" /\ nb.off < nb.size /\ UNCHANGED <<fileVars, via>> /\ nb \in NotesType /\ build \in Builds /\ GoodAlign(nb.align)
      /\ bounds /\ onwards
  BY DEF NoteHeader, Measured
<1>t. nb.off \in Nat /\ nb.size \in 0..BufMax /\ nb.align \in Nat
  BY <1>0 DEF NotesType
<1>1. PICK namesz \in NoteWords, descsz \in NoteWords :
        LET r == NoteAt(nb.off, nb.size, nb.align, namesz, descsz)
        IN  /\ onwards' = (onwards /\ (r.ret = 0 \/ r.ret > nb.off))
            /\ bounds' = (bounds /\ (r.read => /\ nb.off + NhSize + namesz <= r.doff
                                               /\ r.doff + descsz <= nb.size))
            /\ IF r.read THEN epc' = "handle" /\ nb' = [nb EXCEPT !.ret = r.ret] ELSE Resume(r.ret)
  BY Zenon DEF NoteHeader
<1> DEFINE r == NoteAt(nb.off, nb.size, nb.align, namesz, descsz)
           off == nb.off
           size == nb.size
           al == nb.align
<1>2. /\ r.ret \in Nat /\ (r.ret = 0 \/ r.ret > off)
      /\ r.read => off + NhSize + namesz <= r.doff /\ r.doff + descsz <= size
  <2>1. r = NoteAt(off, size, al, namesz, descsz) /\ off \in Nat /\ size \in 0..BufMax /\ al \in Nat /\ off < size /\ GoodAlign(al)
    BY <1>0, <1>t
  <2> HIDE DEF r, off, size, al
  <2> QED BY <1>0, <2>1, NoteArithmetic
<1>3. bounds' /\ onwards'
  <2>1. /\ onwards' = (onwards /\ (r.ret = 0 \/ r.ret > off))
        /\ bounds' = (bounds /\ (r.read => off + NhSize + namesz <= r.doff /\ r.doff + descsz <= size))
    BY <1>1
  <2> HIDE DEF r, off, size
  <2> QED BY <1>0, <1>2, <2>1
<1>4. CASE r.read
  <2> DEFINE x == r.ret
  <2>1. epc' = "handle" /\ nb' = [nb EXCEPT !.ret = x] /\ x \in Nat
    BY <1>1, <1>2, <1>4
  <2> HIDE DEF x
  <2>2. nb' \in NotesType /\ nb'.back = nb.back /\ nb'.align = nb.align
    BY <1>0, <2>1 DEF NotesType
  <2>3. At' = At
    BY <1>0, <2>1, <2>2 DEF At
  <2>4. GoodAlign(nb.align)'
    BY <1>0, <2>2 DEF GoodAlign, fileVars, Negative
  <2> QED BY <1>0, <1>3, <2>1, <2>2, <2>3, <2>4 DEF Measured, fileVars, EPlaces, mime
<1>5. CASE ~r.read
  <2> DEFINE x == r.ret
  <2>1. Resume(x) /\ x \in Nat
    BY <1>1, <1>2, <1>5
  <2> HIDE DEF x, r
  <2> QED BY <1>0, <1>3, <2>1, MeasuredResume
<1> QED BY <1>4, <1>5

\* The notes of a header begin.
LEMMA MeasuredBegin ==
    ASSUME Measured, UNCHANGED <<fileVars, bounds, onwards>>, build \in Builds, epc' = "note",
           NEW back \in {"ph", "shn"}, epc = back, NEW al \in Nat, GoodAlign(al), BeginNotes(al, back),
           \/ back = "ph" /\ via' = via \cup {"program"} /\ shnum = 0
           \/ back = "shn" /\ via' = via \cup {"section"}
    PROVE  Measured'
<1>1. PICK size \in 0..BufMax : nb' = [NoNotes EXCEPT !.size = size, !.align = al, !.back = back]
  BY DEF BeginNotes
<1>2. nb' \in NotesType /\ nb'.align = al /\ nb'.back = back
  BY <1>1 DEF NoNotes, NotesType
<1>3. GoodAlign(nb.align)'
  BY <1>2 DEF GoodAlign, fileVars, Negative
<1>4. At = back /\ At' = back
  BY <1>2 DEF At
<1> QED BY <1>2, <1>3, <1>4 DEF Measured, fileVars, EPlaces, mime

\* A program header.
LEMMA MeasuredPh == ASSUME Measured, PhTurn PROVE Measured'
<1>0. epc = "ph" /\ UNCHANGED <<fileVars, bounds, onwards>> /\ build \in Builds /\ etype \in {"core", "exec"}
      /\ (mime => etype = "exec")
  BY DEF PhTurn, Measured, At
<1>1. CASE epc' = "ph" /\ UNCHANGED <<nb, via>>
  BY <1>0, <1>1, MeasuredKept
<1>2. CASE PhNote
  <2>1. CASE epc' = "done" /\ UNCHANGED <<nb, via>>
    BY <1>0, <2>1, MeasuredKept
  <2>2. CASE epc' = "sh" /\ UNCHANGED <<nb, via>> /\ mime
    BY <1>0, <2>2, MeasuredKept
  <2>3. ASSUME NEW a \in xph_align, epc' = "note", via' = via \cup {"program"}, ~(etype = "exec" /\ shnum # 0),
               BeginNotes(IF (etype = "exec" /\ (Negative(Wide(a)) \/ Wide(a) < MinAlign)) \/ etype = "core"
                          THEN MinAlign ELSE Wide(a), "ph")
        PROVE  Measured'
    <3>1. shnum = 0
      BY <1>0, <2>3 DEF Measured
    <3> DEFINE al == IF (etype = "exec" /\ (Negative(Wide(a)) \/ Wide(a) < MinAlign)) \/ etype = "core"
                     THEN MinAlign ELSE Wide(a)
    <3>2. al \in Nat /\ GoodAlign(al)
      <4>1. CASE al = MinAlign
        <5>1. GoodAlign(MinAlign) /\ MinAlign \in Nat
          BY <1>0, MinAlignGood
        <5> HIDE DEF al
        <5> QED BY <4>1, <5>1
      <4>2. CASE al # MinAlign
        <5>1. al = Wide(a) /\ ~Negative(Wide(a)) /\ ~(Wide(a) < MinAlign)
          BY <1>0, <4>2
        <5>2. Wide(a) \in Nat /\ Wide(a) < 2^build
          <6>1. PICK M \in Nat : M = 2^build /\ M > 0
            BY <1>0, Widths, PowerCounts
          <6>2. a \in Nat
            BY <2>3, ElfAssumption DEF xph_align
          <6>3. a % M \in Int /\ a % M >= 0 /\ a % M < M
            BY <6>1, <6>2, Divides
          <6> QED BY <6>1, <6>3 DEF Wide
        <5> DEFINE y == Wide(a)
        <5>3. y \in Nat /\ y < 2^build /\ ~Negative(y) /\ ~(y < MinAlign)
          BY <5>1, <5>2
        <5> HIDE DEF y
        <5>4. y \in Nat /\ GoodAlign(y)
          BY <5>3 DEF GoodAlign
        <5> HIDE DEF al
        <5> QED BY <5>1, <5>4 DEF y
      <4> QED BY <4>1, <4>2
    <3>3. BeginNotes(al, "ph")
      BY <2>3
    <3> HIDE DEF al
    <3> QED BY <1>0, <2>3, <3>1, <3>2, <3>3, MeasuredBegin
  <2> QED BY <1>0, <1>1, <1>2, <2>1, <2>2, <2>3 DEF PhNote, SkipHeader, Return
<1> QED BY <1>1, <1>2 DEF PhTurn, PhDynamic, PhInterp, SkipHeader

\* The notes, over every step.
LEMMA MeasuredInductive == ASSUME Measured, [ElfNext]_elfVars PROVE Measured'
<1>1. CASE UNCHANGED elfVars
  BY <1>1 DEF elfVars, Measured, At, GoodAlign, Negative, mime
<1>2. CASE NoElf
  BY <1>2, MeasuredKept DEF NoElf, Return, noteVars
<1>3. CASE ElfHeader
  <2>0. epc = "start" /\ UNCHANGED <<noteVars, ask>> /\ build' \in Builds /\ via = {}
    BY <1>3 DEF ElfHeader, Measured
  <2>1. /\ etype' \in {"core", "exec", "rel", "other"} /\ shnum' \in Nat /\ (etype' = "core" => shnum' = 0)
        /\ \/ epc' = "done"
           \/ epc' = [core |-> "phs", exec |-> "phs", rel |-> "sh", other |-> "end"][etype']
    <3>1. PICK t \in {"core", "exec", "rel", "other"}, ph \in 0..(PhMax + 1), sh \in 0..(ShMax + 1) :
            /\ t \in {"core", "other"} => sh = 0
            /\ etype' = t /\ shnum' = sh
            /\ \/ toomany("too many program headers")
               \/ toomany("too many section headers")
               \/ epc' = [core |-> "phs", exec |-> "phs", rel |-> "sh", other |-> "end"][t]
      BY <1>3 DEF ElfHeader
    <3>2. toomany("too many program headers") \/ toomany("too many section headers") => epc' = "done"
      BY DEF toomany, Return
    <3>3. sh \in Nat
      OBVIOUS
    <3> QED BY <3>1, <3>2, <3>3
  <2>2. \/ epc' \in {"done", "end"}
        \/ epc' = "phs" /\ etype' \in {"core", "exec"}
        \/ epc' = "sh" /\ etype' = "rel"
    BY <2>1
  <2>3. At' = epc'
    BY <2>2 DEF At
  <2> QED BY <2>0, <2>1, <2>2, <2>3 DEF Measured, noteVars, EPlaces
<1>4. CASE End
  BY <1>4, MeasuredKept DEF End, Return, noteVars, toomany
<1>5. CASE NoteHeader
  BY <1>5, MeasuredNote
<1>6. CASE NotesEnd
  <2>1. epc = "note" /\ epc' = nb.back /\ nb' = NoNotes /\ UNCHANGED <<fileVars, via, bounds, onwards>> /\ nb.back \in {"ph", "shn"}
    BY <1>6 DEF NotesEnd, Measured
  <2>2. Resume(0)
    BY <2>1 DEF Resume
  <2> QED BY <2>1, <2>2, MeasuredResume DEF Measured
<1>7. CASE NoteHandle
  <2> DEFINE x == nb.ret
  <2>1. epc = "handle" /\ Resume(x) /\ x \in Nat /\ UNCHANGED <<fileVars, via, bounds, onwards>>
    BY <1>7 DEF NoteHandle, Measured, NotesType
  <2> HIDE DEF x
  <2> QED BY <2>1, MeasuredResume DEF Measured
<1>8. CASE PhRefused
  <2>1. epc \in {"phs", "ph"} /\ etype \in {"core", "exec"}
    BY <1>8 DEF PhRefused, Measured, At
  <2>2. epc' \in {"end", "done"} \/ (epc' = "sh" /\ etype = "exec")
    BY <1>8, <2>1 DEF PhRefused, Complain, Return, ToSections
  <2> QED BY <1>8, <2>1, <2>2, MeasuredKept DEF PhRefused, noteVars
<1>9. CASE PhBegin
  <2>1. epc = "phs" /\ etype \in {"core", "exec"}
    BY <1>9 DEF PhBegin, Measured, At
  <2>2. mime => etype = "exec"
    BY <1>9, <2>1 DEF PhBegin
  <2> QED BY <1>9, <2>1, <2>2, MeasuredKept DEF PhBegin, noteVars
<1>10. CASE PhTurn
  BY <1>10, MeasuredPh
<1>11. CASE PhEnd
  BY <1>11, MeasuredKept DEF PhEnd, noteVars, Return
<1>12. CASE ShRefused
  BY <1>12, MeasuredKept DEF ShRefused, noteVars, Return, Complain
<1>13. CASE ShBegin
  <2>1. etype \in {"exec", "rel"}
    BY <1>13 DEF ShBegin, Measured, At
  <2> QED BY <1>13, <2>1, MeasuredKept DEF ShBegin, noteVars
<1>14. CASE ShFails
  BY <1>14, MeasuredKept DEF ShFails, noteVars, Return, Complain
<1>15. CASE ShTurn
  <2>0. epc = "shn" /\ UNCHANGED <<fileVars, bounds, onwards>> /\ build \in Builds /\ etype \in {"exec", "rel"} /\ shnum > 0
    BY <1>15 DEF ShTurn, Measured, At
  <2>1. CASE epc' \in {"shn", "done"} /\ UNCHANGED <<nb, via>>
    BY <2>0, <2>1, MeasuredKept
  <2>2. CASE epc' = "note" /\ via' = via \cup {"section"} /\ BeginNotes(MinAlign, "shn")
    BY <2>0, <2>2, MeasuredBegin, MinAlignGood
  <2> QED BY <1>15, <2>0, <2>1, <2>2 DEF ShTurn, ShCapabilities, Return
<1>16. CASE ShEnd
  BY <1>16, MeasuredKept DEF ShEnd, noteVars, Return
<1> QED BY <1>1, <1>2, <1>3, <1>4, <1>5, <1>6, <1>7, <1>8, <1>9, <1>10, <1>11, <1>12, <1>13, <1>14, <1>15, <1>16 DEF ElfNext

\* The notes, always.
LEMMA MeasuredInvariant == ReadersSpec => []Measured
<1>1. ReadersInit => Measured
  BY DEF ReadersInit, ElfInit, Measured, NoNotes, NotesType, EPlaces, At
<1>2. Measured /\ [ReadersNext]_readersVars => Measured'
  BY ElfSteps, MeasuredInductive
<1> QED BY <1>1, <1>2, PTL DEF ReadersSpec

\* For words and sizes of any width and whatever sizes and alignments a file gives: a note is
\* handled only when its name and its description lie inside the buffer, donote() returns an
\* offset that ends the loop or lies further on, and the notes of a file are reached by its
\* program headers or by its section headers, never by both.  (donote)
THEOREM NotesAreBounded == ReadersSpec => []ElfNotes
<1>1. Measured => ElfNotes
  BY DEF Measured, ElfNotes
<1> QED BY <1>1, MeasuredInvariant, PTL

-----------------------------------------------------------------------------
(* What is said.                                                           *)

NoteSays == Marks \cup {"os", "build", "go", "from", "auxv", "style", "bad note", "note alignment", "unknown capability"}
Once1 == Marks \cup {"os", "build"}

\* What a step that says some words, or fails to, does with what was said before.
Grows(S) == /\ err => err'
            /\ said \subseteq said' /\ said' \subseteq said \cup S
            /\ Quiet => said' = said
            /\ ~twice'
Says(S) == Grows(S) /\ (~Quiet /\ ~err' => said' = said \cup S)

\* elf_printf() of words that were not said before, and when it fails.
LEMMA SayDoes ==
    ASSUME ~twice, NEW S, Say(S), ~Quiet => S \cap (said \ Repeatable) = {}
    PROVE  Says(S) /\ err' = err
BY DEF Say, Says, Grows

\* Words that cannot be printed, and no words.
LEMMA FailDoes == ASSUME ~twice, NEW S, Fail PROVE Says(S) /\ err' /\ said' = said
BY DEF Fail, Says, Grows

\* Nothing is said.
LEMMA SilentDoes == ASSUME ~twice, NEW S, Silent PROVE Grows(S) /\ err' = err /\ said' = said
BY DEF Silent, Grows

\* While notes are read what was said by place stays.
LEMMA PlacedKept ==
    ASSUME Placed, UNCHANGED <<etype, ask, eret>>, At' = At, epc' \notin {"start", "done"}, epc \notin {"start", "done"},
           said \subseteq said', said' \subseteq said \cup NoteSays, err => err'
    PROVE  Placed'
<1>1. said \subseteq said' /\ said' \subseteq said \cup NoteSays /\ (Quiet => Quiet')
  BY DEF Quiet, mime
<1>2. /\ NoteSays \cap LinkWords = {} /\ NoteSays \cap StripWords = {} /\ NoteSays \cap EndWords = {}
      /\ NoteSays \cap ProgramWords = {} /\ NoteSays \cap SectionWords = {}
      /\ NoteSays \cap {"statically", "dynamically", "static-pie"} = {}
  BY DEF NoteSays, Marks, LinkWords, StripWords, EndWords, LimitWords, ProgramWords, SectionWords
<1>3. /\ said' \cap LinkWords = said \cap LinkWords /\ said' \cap StripWords = said \cap StripWords
      /\ said' \cap EndWords = said \cap EndWords /\ said' \cap (ProgramWords \cup SectionWords) = said \cap (ProgramWords \cup SectionWords)
      /\ said' \cap SectionWords = said \cap SectionWords
      /\ said' \cap {"statically", "dynamically", "static-pie"} = said \cap {"statically", "dynamically", "static-pie"}
  BY <1>1, <1>2
<1>4. (OneOf(LinkWords) => OneOf(LinkWords)') /\ (OneOf(StripWords) => OneOf(StripWords)')
  BY <1>3 DEF OneOf
<1> QED BY <1>1, <1>3, <1>4 DEF Placed

\* The reader gives up with an error.
LEMMA PlacedFail ==
    ASSUME Placed, epc' = "done", eret' = -1, err', said' \cap LinkWords \subseteq said \cap LinkWords,
           etype' = etype \/ said = {}
    PROVE  Placed'
<1>1. At' = "done"
  BY DEF At
<1>2. said' \cap {"statically", "dynamically", "static-pie"} \subseteq said \cap {"statically", "dynamically", "static-pie"}
  BY DEF LinkWords
<1>3. said' \cap LinkWords # {} => etype' \in {"exec", "core"}
  <2> SUFFICES ASSUME said' \cap LinkWords # {} PROVE etype' \in {"exec", "core"}
    OBVIOUS
  <2>1. said \cap LinkWords # {}
    OBVIOUS
  <2> QED BY <2>1 DEF Placed
<1>4. said' \cap {"statically", "dynamically", "static-pie"} # {} => etype' = "exec"
  <2> SUFFICES ASSUME said' \cap {"statically", "dynamically", "static-pie"} # {} PROVE etype' = "exec"
    OBVIOUS
  <2>1. said \cap {"statically", "dynamically", "static-pie"} # {}
    BY <1>2
  <2> QED BY <2>1 DEF Placed
<1>5. eret' # 1 /\ epc' # "start" /\ epc' = "done" /\ err'
  OBVIOUS
<1>6. At' \notin {"phs", "ph", "sh", "shn", "end"} /\ At' # "end"
  BY <1>1
<1> QED BY <1>3, <1>4, <1>5, <1>6, Zenon DEF Placed

\* Words that are not about notes leave the marks.
LEMMA MarkedKept ==
    ASSUME Marked, UNCHANGED <<ask, did, style>>, NEW S, Grows(S), S \cap (NoteSays \ Repeatable) = {},
           etype' = etype \/ said = {}
    PROVE  Marked'
<1>1. said' \cap Once1 = said \cap Once1
  BY DEF Grows, NoteSays, Repeatable, Marks, Once1
<1>2. /\ "from" \in said' <=> "from" \in said
      /\ "auxv" \in said' <=> "auxv" \in said
      /\ "style" \in said' <=> "style" \in said
  <2>1. "from" \in NoteSays \ Repeatable /\ "auxv" \in NoteSays \ Repeatable /\ "style" \in NoteSays \ Repeatable
    BY DEF NoteSays, Repeatable
  <2>2. "from" \notin S /\ "auxv" \notin S /\ "style" \notin S
    BY <2>1
  <2> QED BY <2>2 DEF Grows
<1>3. (Quiet => Quiet') /\ ~twice' /\ (mime => said' = said) /\ (mime' = mime)
  BY DEF Grows, Quiet, mime
<1> QED BY <1>1, <1>2, <1>3 DEF Marked, Once1

\* The invariants after a note that is told, not told again, or not marked.
Heard == Marked' /\ said \subseteq said' /\ said' \subseteq said \cup NoteSays /\ (err => err')

\* A note that is told once.
LEMMA ToldHeard ==
    ASSUME Marked, UNCHANGED <<ask, style, etype>>, NEW k \in Once1, k \notin did, did' = did \cup {k},
           Say({k}) \/ Fail \/ Silent
    PROVE  Heard
<1>1. k \notin said /\ k \in NoteSays /\ k \notin {"from", "auxv", "style"}
  BY DEF Marked, Once1, NoteSays, Marks
<1>2. Grows({k})
  <2>1. CASE Say({k})
    BY <1>1, <2>1, SayDoes DEF Marked, Says
  <2>2. CASE Fail
    BY <2>2, FailDoes DEF Marked, Says
  <2>3. CASE Silent
    BY <2>3, SilentDoes DEF Marked
  <2> QED BY <2>1, <2>2, <2>3
<1>3. (Quiet => Quiet') /\ ~twice' /\ (mime => said' = said) /\ mime' = mime
  BY <1>2 DEF Grows, Quiet, mime
<1>4. said' \cap Once1 \subseteq did'
  BY <1>2 DEF Grows, Marked, Once1
<1>5. /\ "from" \in said' <=> "from" \in said
      /\ "auxv" \in said' <=> "auxv" \in said
      /\ "style" \in said' <=> "style" \in said
  BY <1>1, <1>2 DEF Grows
<1>6. Marked'
  BY <1>3, <1>4, <1>5 DEF Marked, Once1
<1> QED BY <1>1, <1>2, <1>6 DEF Heard, Grows

\* A note that is not told, or that may be told again.
LEMMA AgainHeard ==
    ASSUME Marked, UNCHANGED <<ask, style, etype>>, did' = did, Silent \/ Say({"go"}) \/ Fail
    PROVE  Heard
<1>1. Grows({"go"})
  <2>1. CASE Silent
    BY <2>1, SilentDoes DEF Marked
  <2>2. CASE Say({"go"})
    BY <2>2, SayDoes DEF Marked, Says, Repeatable
  <2>3. CASE Fail
    BY <2>3, FailDoes DEF Marked, Says
  <2> QED BY <2>1, <2>2, <2>3
<1>2. {"go"} \cap (NoteSays \ Repeatable) = {} /\ "go" \in NoteSays
  BY DEF Repeatable, NoteSays
<1>3. Marked'
  BY <1>1, <1>2, MarkedKept
<1> QED BY <1>1, <1>2, <1>3 DEF Heard, Grows

\* The style of a core file, with what is told of it.
Before(s) == IF CoreStyle(s) # style THEN {"style"} ELSE {}

\* The notes of a core file.
LEMMA CoreHeard ==
    ASSUME Marked, UNCHANGED <<ask, etype>>, NEW s \in Styles \cup {"none"}, style' = CoreStyle(s),
           NEW S \in SUBSET {"from", "auxv"}, did \subseteq did',
           Say(Before(s) \cup S) \/ SayAndFail(Before(s) \cup S),
           "from" \in S => "core" \notin did /\ "core" \in did' /\ (etype = "core" \/ s = "NetBSD"),
           "auxv" \in S => "auxv" \notin did /\ "auxv" \in did' /\ etype = "core" /\ style' = "SVR4"
    PROVE  Heard
<1> DEFINE b == Before(s)
<1>1. /\ b = {} \/ b = {"style"}
      /\ b = {} => style' = style
      /\ b = {"style"} => style = "none" /\ style' = s /\ s # "none"
  BY DEF Before, CoreStyle
<1> HIDE DEF b
<1>2. b \cap said = {} /\ S \cap said = {}
  BY <1>1 DEF Marked
<1>3. /\ err => err'
      /\ said \subseteq said' /\ said' \subseteq said \cup (b \cup S)
      /\ Quiet => said' = said
      /\ ~Quiet => said' = said \cup (b \cup S)
      /\ ~twice'
  <2>1. CASE Say(b \cup S)
    BY <1>2, <2>1 DEF Say, Marked
  <2>2. CASE SayAndFail(b \cup S)
    BY <2>2 DEF SayAndFail, Marked
  <2> QED BY <2>1, <2>2 DEF b
<1>4. (Quiet => Quiet') /\ (mime => said' = said) /\ mime' = mime
  BY <1>3 DEF Quiet, mime
<1>5. said' \cap Once1 \subseteq did'
  BY <1>1, <1>3 DEF Marked, Once1, Marks
<1>6. "from" \in said' => "core" \in did' /\ (etype = "core" \/ "style" \in said')
  <2>1. CASE "from" \in said
    BY <1>3, <2>1 DEF Marked
  <2>2. ASSUME "from" \notin said, "from" \in said' PROVE "core" \in did' /\ (etype = "core" \/ "style" \in said')
    <3>1. "from" \in S /\ ~Quiet
      BY <1>1, <1>3, <2>2
    <3>2. CASE etype = "core"
      BY <3>1, <3>2
    <3>3. CASE s = "NetBSD" /\ style = "none"
      <4>1. b = {"style"}
        BY <3>1, <3>3 DEF b, Before, CoreStyle
      <4> QED BY <1>3, <3>1, <4>1
    <3>4. CASE style # "none"
      BY <1>3, <3>1, <3>4 DEF Marked
    <3> QED BY <3>1, <3>2, <3>3, <3>4
  <2> QED BY <2>1, <2>2
<1>7. "auxv" \in said' => "auxv" \in did' /\ etype = "core" /\ style' = "SVR4"
  <2>1. CASE "auxv" \in said
    BY <1>1, <2>1 DEF Marked
  <2>2. CASE "auxv" \notin said
    BY <1>1, <1>3, <2>2
  <2> QED BY <2>1, <2>2
<1>8. ("style" \in said' => style' # "none") /\ (style' # "none" => "style" \in said' \/ Quiet')
  <2>1. CASE b = {}
    BY <1>1, <1>3, <1>4, <2>1 DEF Marked
  <2>2. CASE b = {"style"}
    BY <1>1, <1>3, <1>4, <2>2
  <2> QED BY <1>1, <2>1, <2>2
<1>9. Marked'
  BY <1>3, <1>4, <1>5, <1>6, <1>7, <1>8 DEF Marked, Once1
<1>10. b \cup S \subseteq NoteSays
  BY <1>1 DEF NoteSays
<1> QED BY <1>3, <1>9, <1>10 DEF Heard

\* The same when only the style is told.
LEMMA StyleHeard ==
    ASSUME Marked, UNCHANGED <<ask, etype>>, NEW s \in Styles \cup {"none"}, style' = CoreStyle(s), did \subseteq did',
           Say(Before(s)) \/ SayAndFail(Before(s))
    PROVE  Heard
<1> DEFINE e == {}
<1>1. Before(s) = Before(s) \cup e /\ e \in SUBSET {"from", "auxv"} /\ "from" \notin e /\ "auxv" \notin e
  OBVIOUS
<1> HIDE DEF e
<1>2. Say(Before(s) \cup e) \/ SayAndFail(Before(s) \cup e)
  BY <1>1
<1> QED BY <1>1, <1>2, CoreHeard

\* The handlers.
LEMMA HandleHeard == ASSUME Marked, NoteHandle PROVE Heard
<1>0. UNCHANGED <<ask, etype>>
  BY DEF NoteHandle, fileVars
<1>1. ASSUME NEW kind \in NoteKinds \ CoreKinds, style' = style, do_os_note(kind) PROVE Heard
  BY <1>0, <1>1, ToldHeard, AgainHeard DEF do_os_note, Told, Again, Once1
<1>2. ASSUME NEW kind \in NoteKinds \ CoreKinds, style' = style, do_bid_note(kind) PROVE Heard
  <2>1. CASE UNCHANGED did /\ (Silent \/ Say({"go"}) \/ Fail)
    BY <1>0, <1>2, <2>1, AgainHeard
  <2>2. CASE "build" \notin did /\ did' = did \cup {"build"} /\ (Say({"build"}) \/ Fail)
    BY <1>0, <1>2, <2>2, ToldHeard DEF Once1
  <2> QED BY <1>2, <2>1, <2>2 DEF do_bid_note, Told, Again
<1>3. ASSUME NEW kind \in Marks, style' = style, Once(kind) PROVE Heard
  BY <1>0, <1>3, ToldHeard, AgainHeard DEF Once, Told, Again, Once1
<1>4. ASSUME NEW kind \in Marks, style' = style, did' = did \cup {kind}, Silent PROVE Heard
  <2>1. CASE kind \in did
    <3>1. did' = did
      BY <1>4, <2>1
    <3> QED BY <1>0, <1>4, <3>1, AgainHeard
  <2>2. CASE kind \notin did
    BY <1>0, <1>4, <2>2, ToldHeard DEF Once1
  <2> QED BY <2>1, <2>2
<1>5. ASSUME NEW kind \in NoteKinds \cap CoreKinds, NEW s \in Styles \cup {"none"}, CoreNote(kind, s) PROVE Heard
  <2> DEFINE b == Before(s)
  <2>1. CASE style' = CoreStyle(s) /\ IsProgram(kind, s) /\ do_core_note(s, b)
    <3>0. "core" \notin did /\ (etype = "core" \/ s = "NetBSD")
      BY <2>1 DEF IsProgram
    <3>1. CASE did' = did \cup {"core"} /\ Say(b \cup {"from"})
      BY <1>0, <2>1, <3>0, <3>1, CoreHeard
    <3>2. CASE did \subseteq did' /\ (Say(b) \/ SayAndFail(b))
      BY <1>0, <2>1, <3>2, StyleHeard
    <3> HIDE DEF b
    <3> QED BY <2>1, <3>1, <3>2 DEF do_core_note
  <2>2. CASE style' = CoreStyle(s) /\ IsVector(kind, s) /\ do_auxv_note(b)
    <3>0. "auxv" \notin did /\ etype = "core" /\ style' = "SVR4" /\ did' = did \cup {"auxv"}
      BY <2>2 DEF IsVector, do_auxv_note
    <3>1. CASE Say(b \cup {"auxv"}) \/ SayAndFail(b \cup {"auxv"})
      BY ZenonT(30), <1>0, <2>2, <3>0, <3>1, CoreHeard
    <3>2. CASE Say(b) \/ SayAndFail(b)
      BY <1>0, <2>2, <3>0, <3>2, StyleHeard
    <3> HIDE DEF b
    <3> QED BY <2>2, <3>1, <3>2 DEF do_auxv_note
  <2>3. CASE style' = CoreStyle(s) /\ UNCHANGED did /\ Say(b)
    BY <1>0, <2>3, StyleHeard
  <2>4. CASE Fail /\ UNCHANGED <<did, style>>
    BY <1>0, <2>4, AgainHeard
  <2> QED BY <1>5, <2>1, <2>2, <2>3, <2>4, Zenon DEF CoreNote, Before
<1>6. ASSUME NEW kind \in NoteKinds \ CoreKinds, style' = style,
             do_os_note(kind) \/ do_bid_note(kind) \/ do_pax_note(kind) \/ do_memtag_note(kind) \/ NetbsdNote(kind)
      PROVE  Heard
  <2>1. CASE do_pax_note(kind)
    BY <1>3, <1>4, <1>6, <2>1 DEF do_pax_note, Marks
  <2>2. CASE do_memtag_note(kind)
    BY <1>3, <1>4, <1>6, <2>2 DEF do_memtag_note, Marks
  <2>3. CASE NetbsdNote(kind)
    BY <1>3, <1>6, <2>3 DEF NetbsdNote, Marks
  <2> QED BY <1>1, <1>2, <1>6, <2>1, <2>2, <2>3
<1> QED BY <1>5, <1>6, Zenon DEF NoteHandle

\* Something cannot be printed, and the reader returns.
LEMMA Gone ==
    ASSUME Marked, Placed, Fail, Return(-1), UNCHANGED <<ask, did, style>>, etype' = etype \/ said = {}
    PROVE  Marked' /\ Placed'
<1>1. Grows({}) /\ err' /\ said' = said
  BY FailDoes DEF Marked, Says
<1>2. Marked'
  <2>1. {} \cap (NoteSays \ Repeatable) = {}
    OBVIOUS
  <2> QED BY <1>1, <2>1, MarkedKept
<1>3. Placed'
  BY <1>1, PlacedFail DEF Return
<1> QED BY <1>2, <1>3

\* The reader goes from headers to headers and says something on the way.
LEMMA Moved ==
    ASSUME Marked, Placed, UNCHANGED <<etype, ask, eret, did, style>>, epc' \in {"ph", "sh", "shn", "end"}, epc \notin {"start", "done"},
           NEW S, Grows(S), S \cap EndWords = {}, S \cap (NoteSays \ Repeatable) = {},
           epc' = "ph" => At \in {"phs", "ph"} /\ S \cap (ProgramWords \cup SectionWords) = {},
           epc' \in {"sh", "shn"} => said \cap SectionWords = {} /\ S \cap SectionWords = {},
           epc' \in {"sh", "shn", "end"} /\ etype = "exec" /\ ~Quiet' => OneOf(LinkWords)',
           epc' = "end" /\ etype = "exec" /\ ~Quiet' => OneOf(StripWords)',
           S \cap LinkWords # {} => etype \in {"exec", "core"},
           S \cap {"statically", "dynamically", "static-pie"} # {} => etype = "exec"
    PROVE  Marked' /\ Placed'
<1>1. Marked'
  BY MarkedKept
<1>2. At' = epc'
  BY DEF At
<1>3. said' \subseteq said \cup S
  BY DEF Grows
<1>4. eret' = 2 /\ said' \cap EndWords = {}
  BY <1>3 DEF Placed
<1>5. epc' = "ph" => said' \cap (ProgramWords \cup SectionWords) = {}
  <2> SUFFICES ASSUME epc' = "ph" PROVE said' \cap (ProgramWords \cup SectionWords) = {}
    OBVIOUS
  <2>1. said \cap (ProgramWords \cup SectionWords) = {}
    BY DEF Placed
  <2> HIDE DEF ProgramWords, SectionWords
  <2> QED BY <1>3, <2>1
<1>6. epc' \in {"sh", "shn"} => said' \cap SectionWords = {}
  BY <1>3
<1>7. said' \cap LinkWords # {} => etype \in {"exec", "core"}
  <2> SUFFICES ASSUME said' \cap LinkWords # {} PROVE etype \in {"exec", "core"}
    OBVIOUS
  <2>1. said \cap LinkWords # {} \/ S \cap LinkWords # {}
    BY <1>3
  <2> QED BY <2>1 DEF Placed
<1>8. said' \cap {"statically", "dynamically", "static-pie"} # {} => etype = "exec"
  <2> DEFINE L == {"statically", "dynamically", "static-pie"}
  <2> SUFFICES ASSUME said' \cap L # {} PROVE etype = "exec"
    OBVIOUS
  <2>1. said \cap L # {} \/ S \cap L # {}
    <3> HIDE DEF L
    <3> QED BY <1>3
  <2> QED BY <2>1 DEF Placed
<1>9. Placed'
  <2>1. epc' # "start" /\ epc' # "done" /\ (At' \in {"phs", "ph"} => epc' = "ph") /\ etype' = etype
    BY <1>2
  <2> QED BY <1>2, <1>4, <1>5, <1>6, <1>7, <1>8, <2>1 DEF Placed
<1> QED BY <1>1, <1>9

\* Notes are read: what was said by place stays.
LEMMA Read ==
    ASSUME Marked, Placed, UNCHANGED <<etype, ask, eret, did, style>>, At' = At, epc' \notin {"start", "done"}, epc \notin {"start", "done"},
           NEW w \in {"bad note", "note alignment", "unknown capability"}, Silent \/ Say({w}) \/ Fail
    PROVE  Marked' /\ Placed'
<1>0. w \in NoteSays /\ w \in Repeatable
  BY DEF NoteSays, Repeatable
<1>1. Grows({w})
  <2>1. CASE Silent
    BY <2>1, SilentDoes DEF Marked
  <2>2. CASE Say({w})
    BY <1>0, <2>2, SayDoes DEF Marked, Says
  <2>3. CASE Fail
    BY <2>3, FailDoes DEF Marked, Says
  <2> QED BY <2>1, <2>2, <2>3
<1>2. Marked'
  <2>1. {w} \cap (NoteSays \ Repeatable) = {}
    BY <1>0
  <2> QED BY <1>1, <2>1, MarkedKept
<1>3. said \subseteq said' /\ said' \subseteq said \cup NoteSays /\ (err => err')
  BY <1>0, <1>1 DEF Grows
<1>4. Placed'
  BY <1>3, PlacedKept
<1> QED BY <1>2, <1>4

\* Where the loop over the notes goes on.
LEMMA ResumeAt ==
    ASSUME Measured, epc \in {"note", "handle"}, NEW off, Resume(off)
    PROVE  At' = At /\ epc' \notin {"start", "done"}
<1>1. nb.back \in {"ph", "shn"} /\ nb \in NotesType
  BY DEF Measured
<1>2. CASE off = 0
  <2>1. epc' = nb.back
    BY <1>2 DEF Resume
  <2>2. At' = nb.back /\ At = nb.back
    BY <1>1, <2>1 DEF At
  <2> QED BY <1>1, <2>1, <2>2
<1>3. CASE off # 0
  <2>1. epc' = "note" /\ nb' = [nb EXCEPT !.off = off, !.ret = 0]
    BY <1>3 DEF Resume
  <2>2. nb'.back = nb.back
    BY <1>1, <2>1 DEF NotesType
  <2> QED BY <2>1, <2>2 DEF At
<1> QED BY <1>2, <1>3

\* The answer of a reader that found nothing is neither a failure nor a description.
LEMMA NothingFound == 0 # -1 /\ 0 # 1
  OBVIOUS

\* No headers can be read.
Complaint == \/ epc \in {"phs", "ph"} /\ etype \in {"core", "exec"} /\ Complain("bad program headers", ToSections)
             \/ epc \in {"sh", "shn"} /\ Complain("bad section headers", "end")

\* The complaint is then what is said of the headers.
LEMMA Complained ==
    ASSUME Marked, Placed, UNCHANGED <<etype, ask, did, style>>, Complaint
    PROVE  Marked' /\ Placed'
<1>0. At = epc /\ epc \notin {"start", "done"}
  BY DEF At, Complaint
<1>1. CASE Fail /\ Return(-1)
  BY <1>1, Gone
<1>2. ASSUME epc \in {"phs", "ph"}, etype \in {"core", "exec"}, Say({"bad program headers"}), epc' = ToSections, UNCHANGED eret
      PROVE  Marked' /\ Placed'
  <2> DEFINE w == "bad program headers"
             S == {w}
  <2>1. said \cap (ProgramWords \cup SectionWords) = {}
    BY <1>0, <1>2 DEF Placed
  <2>2. w \in LinkWords /\ w \in ProgramWords /\ w \notin SectionWords /\ w \notin EndWords /\ w \notin NoteSays
        /\ w \notin {"statically", "dynamically", "static-pie"} /\ LinkWords \subseteq ProgramWords
    BY DEF LinkWords, ProgramWords, SectionWords, StripWords, EndWords, LimitWords, NoteSays, Marks
  <2>3. w \notin said
    BY <2>1, <2>2
  <2> HIDE DEF w
  <2>4. Says(S) /\ err' = err
    BY <1>2, <2>3, SayDoes DEF Marked, w
  <2>5. ~Quiet' => OneOf(LinkWords)'
    <3> SUFFICES ASSUME ~Quiet' PROVE OneOf(LinkWords)'
      OBVIOUS
    <3>1. ~Quiet /\ ~err'
      BY <2>4 DEF Quiet, mime
    <3>2. said' = said \cup S
      BY <2>4, <3>1 DEF Says
    <3>3. said' \cap LinkWords = {w}
      BY <2>1, <2>2, <3>2
    <3> QED BY <2>2, <3>3 DEF OneOf
  <2>6. epc' = "sh" \/ (epc' = "end" /\ etype # "exec")
    BY <1>2 DEF ToSections
  <2>7. S \cap EndWords = {} /\ S \cap (NoteSays \ Repeatable) = {} /\ S \cap SectionWords = {} /\ said \cap SectionWords = {}
        /\ S \cap {"statically", "dynamically", "static-pie"} = {}
    BY <2>1, <2>2
  <2> HIDE DEF S
  <2> QED BY <1>0, <1>2, <2>4, <2>5, <2>6, <2>7, Moved DEF Says
<1>3. ASSUME epc \in {"sh", "shn"}, Say({"bad section headers"}), epc' = "end", UNCHANGED eret
      PROVE  Marked' /\ Placed'
  <2> DEFINE w == "bad section headers"
             S == {w}
  <2>1. said \cap SectionWords = {} /\ (etype = "exec" /\ ~Quiet => OneOf(LinkWords))
    BY <1>0, <1>3 DEF Placed
  <2>2. w \in StripWords /\ w \in SectionWords /\ w \notin LinkWords /\ w \notin EndWords /\ w \notin NoteSays
        /\ w \notin {"statically", "dynamically", "static-pie"} /\ StripWords \subseteq SectionWords
    BY DEF LinkWords, ProgramWords, SectionWords, StripWords, EndWords, LimitWords, NoteSays, Marks
  <2>3. w \notin said
    BY <2>1, <2>2
  <2> HIDE DEF w
  <2>4. Says(S) /\ err' = err
    BY <1>3, <2>3, SayDoes DEF Marked, w
  <2>5. ASSUME ~Quiet' PROVE OneOf(StripWords)' /\ (etype = "exec" => OneOf(LinkWords)')
    <3>1. ~Quiet /\ ~err'
      BY <2>4, <2>5 DEF Quiet, mime
    <3>2. said' = said \cup S
      BY <2>4, <3>1 DEF Says
    <3>3. said' \cap StripWords = {w} /\ said' \cap LinkWords = said \cap LinkWords
      BY <2>1, <2>2, <3>2
    <3> QED BY <2>1, <2>2, <3>1, <3>3 DEF OneOf
  <2>7. S \cap EndWords = {} /\ S \cap (NoteSays \ Repeatable) = {} /\ S \cap LinkWords = {}
        /\ S \cap {"statically", "dynamically", "static-pie"} = {}
    BY <2>2
  <2> HIDE DEF S
  <2> QED BY <1>0, <1>3, <2>4, <2>5, <2>7, Moved DEF Says
<1> QED BY <1>1, <1>2, <1>3 DEF Complain, Complaint

\* How a file is linked is said when its program headers end.
LEMMA LinkedSaid ==
    ASSUME Marked, Placed, PhEnd PROVE Marked' /\ Placed'
<1>0. epc = "ph" /\ At = epc /\ UNCHANGED <<ask, etype, did, style>>
  BY DEF PhEnd, At, fileVars, noteVars
<1>1. CASE etype = "core" /\ epc' = "end" /\ Silent /\ UNCHANGED eret
  <2> DEFINE S == {}
  <2>1. Grows(S)
    BY <1>1, SilentDoes DEF Marked
  <2>2. S \cap EndWords = {} /\ S \cap (NoteSays \ Repeatable) = {} /\ S \cap LinkWords = {}
        /\ S \cap {"statically", "dynamically", "static-pie"} = {}
    OBVIOUS
  <2> HIDE DEF S
  <2> QED BY <1>0, <1>1, <2>1, <2>2, Moved
<1>2. CASE Fail /\ Return(-1)
  BY <1>0, <1>2, Gone
<1>3. ASSUME etype = "exec", Say({Linked} \cup (IF link.interp THEN {"interpreter"} ELSE {})), epc' = "sh", UNCHANGED eret
      PROVE  Marked' /\ Placed'
  <2> DEFINE w == Linked
             S == {w} \cup (IF link.interp THEN {"interpreter"} ELSE {})
  <2>1. w \in {"statically", "dynamically", "static-pie"}
    BY DEF Linked
  <2> HIDE DEF w
  <2>2. said \cap (ProgramWords \cup SectionWords) = {}
    BY <1>0 DEF Placed
  <2>3. w \in LinkWords /\ S \subseteq ProgramWords /\ S \cap LinkWords = {w} /\ LinkWords \subseteq ProgramWords
    BY <2>1 DEF LinkWords, ProgramWords
  <2>4. S \cap EndWords = {} /\ S \cap (NoteSays \ Repeatable) = {} /\ S \cap SectionWords = {}
    BY <2>1 DEF SectionWords, StripWords, EndWords, LimitWords, NoteSays, Marks
  <2>5. S \cap said = {} /\ said \cap SectionWords = {} /\ said \cap LinkWords = {}
    BY <2>2, <2>3
  <2>6. Say(S)
    BY <1>3 DEF w
  <2> HIDE DEF S
  <2>7. Says(S) /\ err' = err
    BY <2>5, <2>6, SayDoes DEF Marked
  <2>8. ~Quiet' => OneOf(LinkWords)'
    <3> SUFFICES ASSUME ~Quiet' PROVE OneOf(LinkWords)'
      OBVIOUS
    <3>1. ~Quiet /\ ~err'
      BY <1>0, <2>7 DEF Quiet, mime
    <3>2. said' = said \cup S
      BY <2>7, <3>1 DEF Says
    <3>3. said' \cap LinkWords = {w}
      BY <2>3, <2>5, <3>2
    <3> QED BY <2>3, <3>3 DEF OneOf
  <2> QED BY <1>0, <1>3, <2>4, <2>5, <2>7, <2>8, Moved DEF Says
<1> QED BY <1>1, <1>2, <1>3 DEF PhEnd

\* Whether a file is stripped is said when its section headers end.
LEMMA StrippedSaid ==
    ASSUME Marked, Placed, ShEnd PROVE Marked' /\ Placed'
<1>0. epc = "shn" /\ At = epc /\ UNCHANGED <<ask, etype, did, style>>
  BY DEF ShEnd, At, fileVars, noteVars
<1>2. CASE Fail /\ Return(-1)
  BY <1>0, <1>2, Gone
<1>3. ASSUME Say((IF sec.debug THEN {"debug_info"} ELSE {})
               \cup {IF sec.stripped THEN "stripped" ELSE "not stripped"}
               \cup (IF sec.hw THEN {"hardware"} ELSE {}) \cup (IF sec.sf THEN {"software"} ELSE {})),
             epc' = "end", UNCHANGED eret
      PROVE  Marked' /\ Placed'
  <2> DEFINE w == IF sec.stripped THEN "stripped" ELSE "not stripped"
             S == (IF sec.debug THEN {"debug_info"} ELSE {}) \cup {w}
                  \cup (IF sec.hw THEN {"hardware"} ELSE {}) \cup (IF sec.sf THEN {"software"} ELSE {})
  <2>1. w \in {"stripped", "not stripped"}
    OBVIOUS
  <2>s. Say(S)
    BY <1>3
  <2> HIDE DEF w
  <2>2. said \cap SectionWords = {} /\ (etype = "exec" /\ ~Quiet => OneOf(LinkWords))
    BY <1>0 DEF Placed
  <2>3. w \in StripWords /\ S \subseteq SectionWords /\ S \cap StripWords = {w} /\ StripWords \subseteq SectionWords
    BY <2>1 DEF SectionWords, StripWords
  <2>4. S \cap EndWords = {} /\ S \cap (NoteSays \ Repeatable) = {} /\ S \cap LinkWords = {}
        /\ S \cap {"statically", "dynamically", "static-pie"} = {}
    BY <2>1 DEF LinkWords, EndWords, LimitWords, NoteSays, Marks
  <2>5. S \cap said = {} /\ said \cap StripWords = {}
    BY <2>2, <2>3
  <2> HIDE DEF S
  <2>7. Says(S) /\ err' = err
    BY <2>5, <2>s, SayDoes DEF Marked
  <2>8. ASSUME ~Quiet' PROVE OneOf(StripWords)' /\ (etype = "exec" => OneOf(LinkWords)')
    <3>1. ~Quiet /\ ~err'
      BY <1>0, <2>7, <2>8 DEF Quiet, mime
    <3>2. said' = said \cup S
      BY <2>7, <3>1 DEF Says
    <3>3. said' \cap StripWords = {w} /\ said' \cap LinkWords = said \cap LinkWords
      BY <2>3, <2>4, <2>5, <3>2
    <3> QED BY <2>2, <2>3, <3>1, <3>3 DEF OneOf
  <2> QED BY <1>0, <1>3, <2>4, <2>7, <2>8, Moved DEF Says
<1> QED BY <1>2, <1>3 DEF ShEnd

\* A file that has too many headers is told so and nothing else.
LEMMA LimitSaid ==
    ASSUME Marked, Placed, epc = "start", NEW w \in LimitWords, toomany(w), UNCHANGED <<ask, did, style, notecount>>
    PROVE  Marked' /\ Placed'
<1>0. said = {}
  BY DEF Placed
<1>1. CASE Fail /\ Return(-1)
  BY <1>0, <1>1, Gone
<1>2. ASSUME Say({w}), Return(1) PROVE Marked' /\ Placed'
  <2>1. Says({w}) /\ err' = err
    BY <1>0, <1>2, SayDoes DEF Marked
  <2>2. w \notin NoteSays /\ w \notin LinkWords /\ w \notin {"statically", "dynamically", "static-pie"} /\ w \in EndWords
        /\ w # "too many notes"
    BY DEF LimitWords, NoteSays, Marks, LinkWords, EndWords
  <2>3. Marked'
    <3>1. {w} \cap (NoteSays \ Repeatable) = {}
      BY <2>2
    <3> QED BY <1>0, <2>1, <3>1, MarkedKept DEF Says
  <2>4. At' = "done" /\ epc' = "done" /\ eret' = 1
    BY <1>2 DEF At, Return
  <2>5. said' \subseteq {w} /\ (~Quiet' => said' = {w})
    BY <1>0, <2>1 DEF Says, Grows, Quiet, mime
  <2>6. said' \cap LinkWords = {} /\ said' \cap {"statically", "dynamically", "static-pie"} = {} /\ "too many notes" \notin said'
    BY <2>2, <2>5
  <2>7. ~Quiet' => said' \cap EndWords # {} /\ \E x \in LimitWords : said' = {x}
    BY <2>2, <2>5
  <2>8. eret' # -1
    BY <2>4
  <2> QED BY <2>3, <2>4, <2>6, <2>7, <2>8 DEF Placed
<1> QED BY <1>1, <1>2 DEF toomany

\* The end: an exhausted budget is reported.
LEMMA EndSaid == ASSUME Marked, Placed, End PROVE Marked' /\ Placed'
<1>0. epc = "end" /\ At = "end" /\ UNCHANGED <<ask, did, style, etype, notecount>> /\ said \cap EndWords = {}
  BY DEF End, At, fileVars, noteVars, Placed
<1>1. CASE Fail /\ Return(-1)
  BY <1>0, <1>1, Gone
<1>2. ASSUME NEW S, Grows(S), S \subseteq {"too many notes"}, Return(1), S # {} => notecount = 0, notecount = 0 /\ ~Quiet' => said' = said \cup {"too many notes"}
      PROVE  Marked' /\ Placed'
  <2> DEFINE w == "too many notes"
  <2>2. w \notin NoteSays /\ w \notin LinkWords /\ w \notin {"statically", "dynamically", "static-pie"} /\ w \in EndWords /\ w \notin StripWords
    BY DEF LimitWords, NoteSays, Marks, LinkWords, EndWords, StripWords
  <2>3. Marked'
    <3>1. S \cap (NoteSays \ Repeatable) = {}
      BY <1>2, <2>2
    <3> QED BY <1>0, <1>2, <3>1, MarkedKept
  <2>4. At' = "done" /\ epc' = "done" /\ eret' = 1
    BY <1>2 DEF At, Return
  <2>m. eret' # -1
    BY <2>4
  <2>5. said \subseteq said' /\ said' \subseteq said \cup {w} /\ (Quiet => Quiet')
    BY <1>0, <1>2 DEF Grows, Quiet, mime
  <2>6. /\ said' \cap LinkWords = said \cap LinkWords /\ said' \cap StripWords = said \cap StripWords
        /\ said' \cap {"statically", "dynamically", "static-pie"} = said \cap {"statically", "dynamically", "static-pie"}
    BY <2>2, <2>5
  <2>7. ASSUME ~Quiet' PROVE (w \in said' => notecount = 0) /\ (notecount = 0 => said' \cap EndWords # {})
    <3>1. w \in said' => notecount = 0
      BY <1>0, <1>2, <2>2, <2>5 DEF Grows
    <3>2. notecount = 0 => said' \cap EndWords # {}
      BY <1>2, <2>2, <2>7
    <3> QED BY <3>1, <3>2
  <2>8. etype = "exec" /\ ~Quiet' => OneOf(LinkWords)' /\ OneOf(StripWords)'
    BY <1>0, <2>5, <2>6 DEF OneOf, Placed
  <2>9. (said' \cap LinkWords # {} => etype' \in {"exec", "core"})
        /\ (said' \cap {"statically", "dynamically", "static-pie"} # {} => etype' = "exec")
    BY <1>0, <2>6 DEF Placed
  <2> QED BY <1>0, <2>3, <2>4, <2>m, <2>7, <2>8, <2>9 DEF Placed
<1>3. CASE notecount = 0 /\ Say({"too many notes"}) /\ Return(1)
  <2> DEFINE w == "too many notes"
             S == {w}
  <2>1. w \notin said
    BY <1>0 DEF EndWords
  <2>2. Says(S) /\ err' = err
    BY <1>3, <2>1, SayDoes DEF Marked
  <2>3. ~Quiet' => said' = said \cup {"too many notes"}
    BY <1>0, <2>2 DEF Says, Quiet, mime
  <2>4. S \subseteq {"too many notes"} /\ Grows(S)
    BY <2>2 DEF Says
  <2> HIDE DEF S
  <2> QED BY <1>2, <1>3, <2>3, <2>4
<1>4. CASE notecount # 0 /\ Silent /\ Return(1)
  <2> DEFINE S == {}
  <2>1. Grows(S) /\ S \subseteq {"too many notes"} /\ S = {}
    BY <1>4, SilentDoes DEF Marked
  <2> HIDE DEF S
  <2> QED BY <1>2, <1>4, <2>1
<1> QED BY <1>1, <1>3, <1>4 DEF End, toomany

\* The reader goes on without a word.
LEMMA MovedSilently ==
    ASSUME Marked, Placed, UNCHANGED <<etype, ask, eret, did, style>>, Silent \/ (mime /\ Say({"note alignment"})),
           epc \notin {"start", "done"},
           \/ epc' = "ph" /\ At \in {"phs", "ph"}
           \/ epc' = "sh" /\ said \cap SectionWords = {} /\ mime
           \/ epc' = "shn" /\ At \in {"sh", "shn"}
           \/ epc' = "end" /\ (mime \/ etype # "exec")
    PROVE  Marked' /\ Placed'
<1> DEFINE S == {}
<1>1. Grows(S) /\ said' = said /\ err' = err
  <2>1. ~twice
    BY DEF Marked
  <2>2. CASE Silent
    BY <2>1, <2>2, Zenon DEF Silent, Grows
  <2>3. CASE mime /\ Say({"note alignment"})
    <3>1. Quiet
      BY <2>3 DEF Quiet
    <3>2. said' = said /\ err' = err
      BY <2>3, <3>1 DEF Say
    <3>3. ~twice'
      BY <2>1, <2>3, <3>1, Zenon DEF Say
    <3> QED BY <3>2, <3>3 DEF Grows
  <2> QED BY <2>2, <2>3
<1>2. S \cap EndWords = {} /\ S \cap (NoteSays \ Repeatable) = {} /\ S \cap LinkWords = {} /\ S \cap SectionWords = {}
      /\ S \cap {"statically", "dynamically", "static-pie"} = {} /\ S \cap (ProgramWords \cup SectionWords) = {}
  OBVIOUS
<1> HIDE DEF S
<1>3. mime => Quiet'
  BY DEF Quiet, mime
<1>4. epc' = "shn" => said \cap SectionWords = {} /\ (etype = "exec" /\ ~Quiet' => OneOf(LinkWords)')
  BY <1>1 DEF Placed, OneOf, Quiet, mime
<1> QED BY <1>1, <1>2, <1>3, <1>4, Moved

\* A program header, and what its notes begin with.
LEMMA PhSaid == ASSUME Measured, Marked, Placed, PhTurn PROVE Marked' /\ Placed'
<1>0. epc = "ph" /\ At = "ph" /\ UNCHANGED <<ask, etype, did, style>> /\ said \cap SectionWords = {}
  BY DEF PhTurn, At, fileVars, Placed
<1>1. CASE epc' = "ph" /\ Silent /\ UNCHANGED eret
  BY <1>0, <1>1, MovedSilently
<1>2. CASE PhNote
  <2>1. CASE Fail /\ Return(-1)
    BY <1>0, <2>1, Gone
  <2>2. CASE (Silent \/ Say({"note alignment"})) /\ UNCHANGED eret /\ mime /\ epc' = "sh"
    BY <1>0, <2>2, MovedSilently
  <2>3. ASSUME Silent \/ Say({"note alignment"}), UNCHANGED eret, epc' = "note", NEW al, BeginNotes(al, "ph")
        PROVE  Marked' /\ Placed'
    <3>1. nb'.back = "ph"
      BY <2>3 DEF BeginNotes, NoNotes
    <3>2. At' = At
      BY <1>0, <2>3, <3>1 DEF At
    <3> QED BY <1>0, <2>3, <3>2, Read
  <2> QED BY <1>0, <1>1, <1>2, <2>1, <2>2, <2>3 DEF PhNote, SkipHeader
<1> QED BY <1>1, <1>2 DEF PhTurn, PhDynamic, PhInterp, SkipHeader

\* A section header.
LEMMA ShSaid == ASSUME Measured, Marked, Placed, ShTurn PROVE Marked' /\ Placed'
<1>0. epc = "shn" /\ At = "shn" /\ UNCHANGED <<ask, etype, did, style>>
  BY DEF ShTurn, At, fileVars
<1>1. CASE epc' = "shn" /\ (Silent \/ Say({"unknown capability"})) /\ UNCHANGED eret
  <2>1. At' = At
    BY <1>0, <1>1 DEF At
  <2> QED BY <1>0, <1>1, <2>1, Read
<1>2. CASE Fail /\ Return(-1)
  BY <1>0, <1>2, Gone
<1>3. CASE epc' = "note" /\ BeginNotes(MinAlign, "shn") /\ Silent /\ UNCHANGED eret
  <2>1. nb'.back = "shn"
    BY <1>3 DEF BeginNotes, NoNotes
  <2>2. At' = At
    BY <1>0, <1>3, <2>1 DEF At
  <2> QED BY <1>0, <1>3, <2>2, Read
<1>4. CASE ShCapabilities
  <2>1. \/ Silent /\ UNCHANGED <<epc, eret>>
        \/ Say({"unknown capability"}) /\ UNCHANGED <<epc, eret>>
        \/ Fail /\ Return(-1)
    BY <1>4 DEF ShCapabilities
  <2> QED BY <1>0, <1>1, <1>2, <2>1
<1> QED BY <1>0, <1>1, <1>3, <1>4 DEF ShTurn

\* What is said, over every step.
LEMMA SaidInductive == ASSUME Measured, Marked, Placed, [ElfNext]_elfVars PROVE Marked' /\ Placed'
<1>1. CASE UNCHANGED elfVars
  <2>1. Marked'
    BY <1>1 DEF elfVars, Marked, Quiet, mime
  <2>2. At' = At /\ Quiet' = Quiet /\ OneOf(LinkWords)' = OneOf(LinkWords) /\ OneOf(StripWords)' = OneOf(StripWords)
    BY <1>1 DEF elfVars, At, Quiet, mime, OneOf
  <2>3. Placed'
    BY <1>1, <2>2, Zenon DEF elfVars, Placed
  <2> QED BY <2>1, <2>3
<1>2. CASE NoElf
  <2>0. epc = "start" /\ said = {} /\ UNCHANGED <<ask, did, style, etype>>
    BY <1>2 DEF NoElf, Placed, fileVars, noteVars
  <2>1. CASE Fail /\ Return(-1)
    BY <2>0, <2>1, Gone
  <2>2. CASE err' = TRUE /\ UNCHANGED <<said, twice>> /\ Return(-1)
    <3> DEFINE S == {}
    <3>1. Grows(S) /\ S \cap (NoteSays \ Repeatable) = {} /\ S \cap LinkWords = {}
      BY <2>2 DEF Grows, Marked
    <3> HIDE DEF S
    <3> QED BY <2>0, <2>2, <3>1, MarkedKept, PlacedFail DEF Return
  <2>3. ASSUME NEW S \in SUBSET {"unknown class"}, Grows(S), Return(0) PROVE Marked' /\ Placed'
    <3>1. S \cap (NoteSays \ Repeatable) = {} /\ S \cap LinkWords = {} /\ S \cap {"statically", "dynamically", "static-pie"} = {}
      BY DEF NoteSays, Marks, LinkWords
    <3>2. Marked'
      BY <2>0, <2>3, <3>1, MarkedKept
    <3>3. said' \cap LinkWords = {} /\ said' \cap {"statically", "dynamically", "static-pie"} = {}
      BY <2>0, <2>3, <3>1 DEF Grows
    <3>4. epc' = "done" /\ At' = "done" /\ eret' = 0
      BY <2>3 DEF Return, At
    <3>5. eret' = 0
      BY <3>4
    <3>6. eret' # -1
      BY <3>5, NothingFound, Zenon
    <3>7. eret' # 1
      BY <3>5, NothingFound, Zenon
    <3> QED BY <3>2, <3>3, <3>4, <3>6, <3>7 DEF Placed
  <2>4. CASE Silent /\ Return(0)
    <3> DEFINE S == {}
    <3>1. S \in SUBSET {"unknown class"} /\ Grows(S)
      BY <2>4, SilentDoes DEF Marked
    <3> HIDE DEF S
    <3> QED BY <2>3, <2>4, <3>1
  <2>5. CASE Say({"unknown class"}) /\ Return(0)
    <3>1. Grows({"unknown class"})
      BY <2>0, <2>5, SayDoes DEF Marked, Says
    <3> QED BY <2>3, <2>5, <3>1
  <2> QED BY <1>2, <2>1, <2>2, <2>4, <2>5 DEF NoElf
<1>3. CASE ElfHeader
  <2>0. epc = "start" /\ said = {} /\ UNCHANGED <<ask, did, style, notecount>>
    BY <1>3 DEF ElfHeader, Placed, noteVars
  <2>1. PICK t \in {"core", "exec", "rel", "other"} :
          /\ etype' = t
          /\ \/ toomany("too many program headers")
             \/ toomany("too many section headers")
             \/ Silent /\ UNCHANGED eret /\ epc' = [core |-> "phs", exec |-> "phs", rel |-> "sh", other |-> "end"][t]
    BY <1>3 DEF ElfHeader
  <2>2. CASE toomany("too many program headers") \/ toomany("too many section headers")
    BY <2>0, <2>2, LimitSaid DEF LimitWords
  <2>3. CASE Silent /\ UNCHANGED eret /\ epc' = [core |-> "phs", exec |-> "phs", rel |-> "sh", other |-> "end"][t]
    <3>1. \/ epc' = "phs" \/ (epc' = "sh" /\ etype' = "rel") \/ (epc' = "end" /\ etype' = "other")
      BY <2>1, <2>3
    <3>2. said' = {} /\ At' = epc' /\ eret' = 2 /\ err' = err /\ twice' = twice
      BY <2>0, <2>3, <3>1 DEF Silent, At, Placed
    <3>3. Marked'
      BY <2>0, <3>2 DEF Marked, Quiet, mime
    <3>4. Placed'
      BY <3>1, <3>2 DEF Placed
    <3> QED BY <3>3, <3>4
  <2> QED BY <2>1, <2>2, <2>3
<1>4. CASE End
  BY <1>4, EndSaid
<1>5. CASE NoteHeader
  <2>0. epc = "note" /\ UNCHANGED <<etype, ask, eret, did, style>> /\ (Silent \/ Say({"bad note"}) \/ Fail)
    BY <1>5 DEF NoteHeader, fileVars
  <2>1. At' = At /\ epc' \notin {"start", "done"}
    <3>1. PICK r : IF r.read THEN epc' = "handle" /\ nb' = [nb EXCEPT !.ret = r.ret] ELSE Resume(r.ret)
      BY <1>5, Zenon DEF NoteHeader
    <3>2. CASE r.read
      <4> DEFINE x == r.ret
      <4>1. epc' = "handle" /\ nb' = [nb EXCEPT !.ret = x]
        BY <3>1, <3>2
      <4> HIDE DEF x
      <4>2. nb'.back = nb.back
        BY <4>1 DEF Measured, NotesType
      <4> QED BY <2>0, <4>1, <4>2 DEF At
    <3>3. CASE ~r.read
      <4> DEFINE x == r.ret
      <4>1. Resume(x)
        BY <3>1, <3>3
      <4> HIDE DEF x
      <4> QED BY <2>0, <4>1, ResumeAt
    <3> QED BY <3>2, <3>3
  <2> QED BY <2>0, <2>1, Read
<1>6. CASE NotesEnd
  <2>0. epc = "note" /\ UNCHANGED <<etype, ask, eret, did, style>> /\ Silent /\ epc' = nb.back /\ nb.back \in {"ph", "shn"}
    BY <1>6 DEF NotesEnd, fileVars, Measured
  <2>1. At' = At
    BY <2>0 DEF At
  <2> QED BY <2>0, <2>1, Read
<1>7. CASE NoteHandle
  <2> DEFINE x == nb.ret
  <2>1. epc = "handle" /\ UNCHANGED <<etype, ask, eret>> /\ Resume(x)
    BY <1>7 DEF NoteHandle, fileVars
  <2> HIDE DEF x
  <2>2. At' = At /\ epc' \notin {"start", "done"}
    BY <2>1, ResumeAt
  <2>3. Heard
    BY <1>7, HandleHeard
  <2> QED BY <2>1, <2>2, <2>3, PlacedKept DEF Heard
<1>8. CASE PhRefused
  <2>0. UNCHANGED <<etype, ask, did, style>> /\ epc \in {"phs", "ph"} /\ etype \in {"core", "exec"}
    BY <1>8 DEF PhRefused, fileVars, noteVars, Measured, At
  <2>1. CASE mime /\ epc' = "end" /\ Silent /\ UNCHANGED eret
    BY <2>0, <2>1, MovedSilently
  <2>2. CASE Complain("bad program headers", ToSections)
    <3>1. Complaint
      BY <2>0, <2>2, Zenon DEF Complaint
    <3> QED BY <2>0, <3>1, Complained
  <2> QED BY <1>8, <2>1, <2>2 DEF PhRefused
<1>9. CASE PhBegin
  <2>1. At = "phs" /\ epc = "phs" /\ epc' = "ph" /\ Silent /\ UNCHANGED <<etype, ask, eret, did, style>>
    BY <1>9 DEF PhBegin, fileVars, noteVars, At
  <2> QED BY <2>1, MovedSilently
<1>10. CASE PhTurn
  BY <1>10, PhSaid
<1>11. CASE PhEnd
  BY <1>11, LinkedSaid
<1>12. CASE ShRefused
  <2>0. UNCHANGED <<etype, ask, did, style>> /\ epc = "sh"
    BY <1>12 DEF ShRefused, fileVars, noteVars
  <2>1. CASE mime /\ epc' = "end" /\ Silent /\ UNCHANGED eret
    BY <2>0, <2>1, MovedSilently
  <2>2. CASE Complain("bad section headers", "end")
    BY <2>0, <2>2, Complained DEF Complaint
  <2> QED BY <1>12, <2>1, <2>2 DEF ShRefused
<1>13. CASE ShBegin
  <2>1. At = "sh" /\ epc = "sh" /\ epc' = "shn" /\ Silent /\ UNCHANGED <<etype, ask, eret, did, style>>
    BY <1>13 DEF ShBegin, fileVars, noteVars, At
  <2> QED BY <2>1, MovedSilently
<1>14. CASE ShFails
  <2>0. UNCHANGED <<etype, ask, did, style>> /\ epc = "shn"
    BY <1>14 DEF ShFails, fileVars, noteVars
  <2>1. CASE Complain("bad section headers", "end")
    BY <2>0, <2>1, Complained DEF Complaint
  <2>2. CASE err' = TRUE /\ UNCHANGED <<said, twice>> /\ Return(-1)
    <3> DEFINE S == {}
    <3>1. Grows(S) /\ S \cap (NoteSays \ Repeatable) = {} /\ said' \cap LinkWords \subseteq said \cap LinkWords
      BY <2>2 DEF Grows, Marked
    <3> HIDE DEF S
    <3> QED BY <2>0, <2>2, <3>1, MarkedKept, PlacedFail DEF Return
  <2> QED BY <1>14, <2>1, <2>2 DEF ShFails
<1>15. CASE ShTurn
  BY <1>15, ShSaid
<1>16. CASE ShEnd
  BY <1>16, StrippedSaid
<1> QED BY <1>1, <1>2, <1>3, <1>4, <1>5, <1>6, <1>7, <1>8, <1>9, <1>10, <1>11, <1>12, <1>13, <1>14, <1>15, <1>16 DEF ElfNext

\* What was said by place is what is promised.
LEMMA SaidSuffices == ASSUME Marked, Placed PROVE ElfSays
<1>1. ASSUME NEW W, OneOf(W) PROVE Cardinality(said \cap W) = 1
  <2>1. PICK x \in W : said \cap W = {x}
    BY <1>1 DEF OneOf
  <2>2. Cardinality({x}) = 1
    BY FS_Singleton
  <2> QED BY <2>1, <2>2
<1>2. ASSUME NEW x \in LimitWords, said = {x} PROVE Cardinality(said \cap LimitWords) = 1 /\ Cardinality(said) = 1
  <2>1. said \cap LimitWords = {x}
    BY <1>2
  <2>2. Cardinality({x}) = 1
    BY FS_Singleton
  <2> QED BY <1>2, <2>1, <2>2
<1>3. etype = "exec" /\ epc = "done" /\ eret = 1 /\ ~Quiet =>
        \/ Cardinality(said \cap LimitWords) = 1 /\ Cardinality(said) = 1
        \/ Cardinality(said \cap LinkWords) = 1 /\ Cardinality(said \cap StripWords) = 1
  BY <1>1, <1>2 DEF Placed
<1> QED BY <1>3, Zenon DEF Marked, Placed, ElfSays, EndWords

\* However the notes are spread over segments and sections, and for any limits: nothing is
\* said twice of a file, an executable is told once how it is linked and once whether it is
\* stripped, or why that is not known, and other files never are; an exhausted budget of notes
\* is reported.  (file_tryelf)
THEOREM SaysOnce == ReadersSpec => []ElfSays
<1>1. ReadersInit => Marked /\ Placed
  BY DEF ReadersInit, ElfInit, Marked, Placed, At
<1>2. Measured /\ Marked /\ Placed /\ [ReadersNext]_readersVars => Marked' /\ Placed'
  BY ElfSteps, SaidInductive
<1>3. Marked /\ Placed => ElfSays
  BY SaidSuffices
<1> QED BY <1>1, <1>2, <1>3, MeasuredInvariant, PTL DEF ReadersSpec
=============================================================================
