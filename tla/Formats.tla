-------------------------------- MODULE Formats --------------------------------
(***************************************************************************)
(* The small detectors that parse what they find: JSON (src/is_json.c), CSV *)
(* (src/is_csv.c), SIMH tapes (src/is_simh.c), the header of a tar archive  *)
(* (src/is_tar.c) and the elements of a DER encoding (src/der.c).           *)
(*                                                                         *)
(* Each is an operator on a short buffer.  JSON and CSV buffers hold one-   *)
(* character strings, the others numbers.                                  *)
(***************************************************************************)
EXTENDS Integers, Sequences, FiniteSets, SequencesExt

CONSTANTS
    LevelMax,        \* nested calls json_parse() allows itself: 500
    CSV_LINES,       \* lines csv_parse() looks at: 10
    SIMH_TAPEMARKS,  \* tape marks simh_parse() looks at: 10
    ChkLen           \* length of a tar header's chksum: 8

ASSUME FormatsAssumption == /\ LevelMax \in Nat /\ CSV_LINES \in Nat \ {0}
                            /\ SIMH_TAPEMARKS \in Nat \ {0} /\ ChkLen \in Nat \ {0}

\* The first place from i on that is not in S.
SkipOver(b, i, S) == CHOOSE k \in i..(Len(b) + 1) :
                        /\ \A x \in i..(k - 1) : b[x] \in S
                        /\ k <= Len(b) => b[k] \notin S

-----------------------------------------------------------------------------
(* JSON.  A parser gives the place behind what it read, or 0.              *)

Space == {" "}
Digit == {"1"}
XDigit == Digit \cup {"e"}
Simple == {"\"", "\\", "b"}      \* the escapes of one character
json_skip_space(b, i) == SkipOver(b, i, Space)

\* mutant: a backslash protects nothing
StringPlain(b, i) == LET e == SkipOver(b, i, {x \in Range(b) : x # "\""})
                     IN  IF e > Len(b) THEN 0 ELSE e + 1

RECURSIVE json_parse_string(_, _)
json_parse_string(b, i) ==
    IF i > Len(b) THEN 0
    ELSE CASE b[i] = "nul" -> 0
           [] b[i] = "\"" -> i + 1
           [] b[i] = "\\" ->
                IF i = Len(b) THEN 0
                ELSE IF b[i + 1] \in Simple THEN json_parse_string(b, i + 2)
                ELSE IF b[i + 1] = "u" /\ i + 5 <= Len(b) /\ \A k \in (i + 2)..(i + 5) : b[k] \in XDigit
                     THEN json_parse_string(b, i + 6) ELSE 0
           [] OTHER -> json_parse_string(b, i + 1)

json_parse_number(b, i) ==
    LET opt(k, S) == IF k <= Len(b) /\ b[k] \in S THEN k + 1 ELSE k
        i1 == opt(i, {"-"})         d1 == SkipOver(b, i1, Digit)
        i2 == opt(d1, {"."})        d2 == SkipOver(b, i2, Digit)
        got == d1 > i1 \/ d2 > i2
        i3 == opt(d2 + 1, {"+", "-"})
        d3 == SkipOver(b, i3, Digit)
    IN  IF got /\ d2 <= Len(b) /\ b[d2] = "e"
        THEN IF d2 < Len(b) /\ d3 > i3 THEN d3 ELSE 0
        ELSE IF got THEN d2 ELSE 0

\* Behind the first letter of a word; the end of the buffer may cut it off.
json_parse_const(b, i, word) ==
    IF \A k \in 2..Len(word) : i + k - 2 <= Len(b) => b[i + k - 2] = word[k]
    THEN IF i + Len(word) - 1 > Len(b) THEN Len(b) + 1 ELSE i + Len(word) - 1 ELSE 0
True == << "t", "e" >>              \* "true", with its middle left out

RECURSIVE json_parse(_, _, _), json_parse_array(_, _, _), json_parse_object(_, _, _)

json_parse_array(b, i, lvl) ==
    LET j == json_skip_space(b, i)
        r == json_parse(b, j, lvl + 1)
    IN  IF j > Len(b) THEN 0
        ELSE IF b[j] = "]" THEN j + 1
        ELSE IF r = 0 \/ r > Len(b) THEN 0
        ELSE CASE b[r] = "," -> json_parse_array(b, r + 1, lvl)
               [] b[r] = "]" -> r + 1
               [] OTHER -> 0

json_parse_object(b, i, lvl) ==
    LET j == json_skip_space(b, i)
        e == json_parse_string(b, j + 1)
        c == json_skip_space(b, e)
        r == json_parse(b, c + 1, lvl + 1)
    IN  IF j > Len(b) THEN 0
        ELSE IF b[j] = "}" THEN j + 1
        ELSE IF b[j] # "\"" \/ e = 0 THEN 0
        ELSE IF c > Len(b) \/ b[c] # ":" THEN 0
        ELSE IF r = 0 \/ r > Len(b) THEN 0
        ELSE CASE b[r] = "," -> json_parse_object(b, r + 1, lvl)
               [] b[r] = "}" -> r + 1
               [] OTHER -> 0

json_parse(b, i, lvl) ==
    LET j == json_skip_space(b, i)
        e == CASE b[j] = "\"" -> json_parse_string(b, j + 1)
               [] b[j] = "[" -> json_parse_array(b, j + 1, lvl + 1)
               [] b[j] = "{" -> json_parse_object(b, j + 1, lvl + 1)
               [] b[j] = "t" -> json_parse_const(b, j + 1, True)
               [] OTHER -> json_parse_number(b, j)
    IN  IF j > Len(b) \/ lvl > LevelMax THEN 0 ELSE IF e = 0 THEN 0 ELSE json_skip_space(b, e)

\* The end of json_parse() at level 0, and file_is_json(): 1 for JSON, 2 for one
\* document on each line.  Only arrays and objects count.
file_is_json(b) ==
    LET s == json_skip_space(b, 1)
        e == json_parse(b, 1, 0)
    IN  IF e = 0 THEN 0
        ELSE IF b[s] \notin {"[", "{"} THEN 0
        ELSE IF e > Len(b) THEN 1
        ELSE IF b[e] = b[s] /\ json_parse(b, e, 1) # 0 THEN 2 ELSE 0

-----------------------------------------------------------------------------
(* CSV.                                                                    *)

CsvStart == [done |-> FALSE, rv |-> FALSE, eat |-> FALSE, quote |-> FALSE, nf |-> 0, tf |-> 0, nl |-> 0]
CsvStop(st, r) == [st EXCEPT !.done = TRUE, !.rv = r]

\* mutant: the fields of a line are counted on to the next
CsvCountsOn(st) == IF st.tf # 0 /\ st.tf # st.nf THEN CsvStop(st, FALSE)
                   ELSE [st EXCEPT !.nl = @ + 1, !.tf = st.nf]

CsvLine(st) ==
    LET nl == st.nl + 1
    IN  IF nl = CSV_LINES THEN CsvStop(st, st.tf > 1 /\ st.tf = st.nf)
        ELSE IF st.tf = 0 /\ st.nf = 0 THEN CsvStop(st, FALSE)
        ELSE IF st.tf # 0 /\ st.tf # st.nf THEN CsvStop(st, FALSE)
        ELSE [st EXCEPT !.nl = nl, !.tf = st.nf, !.nf = 0]

CsvOutside(st, c) ==
    CASE c = "\"" -> [st EXCEPT !.eat = TRUE, !.quote = FALSE]
      [] c = "," -> [st EXCEPT !.nf = @ + 1]
      [] c = "nl" -> CsvLine(st)
      [] OTHER -> st

\* eatquote(): a quote ends the quoted text unless another follows at once.
eatquote(st, c) ==
    CASE c = "\"" -> [st EXCEPT !.quote = ~@]
      [] c # "\"" /\ st.quote -> CsvOutside([st EXCEPT !.eat = FALSE], c)
      [] OTHER -> st

CsvChar(st, c) == IF st.done THEN st ELSE IF st.eat THEN eatquote(st, c) ELSE CsvOutside(st, c)
csv_parse(b) == LET st == FoldLeft(CsvChar, CsvStart, b)
                IN  IF st.done THEN st.rv ELSE st.tf >= 1 /\ st.nl >= 2

-----------------------------------------------------------------------------
(* SIMH tapes, in words of 4 bits instead of 32: two bits of length, one    *)
(* that must be clear and one of class; 15 is the end of the medium.  One   *)
(* unit of data is as long as a word.                                      *)

EndOfMedium == 15
getlen(n) == IF n = EndOfMedium THEN [err |-> FALSE, n |-> n]
             ELSE LET l == n % 4 IN [err |-> (n \div 4) % 2 = 1, n |-> IF l % 2 = 1 THEN l + 1 ELSE l]

RECURSIVE SimhLoop(_, _, _, _)
SimhLoop(b, i, nt, nr) ==
    LET stop(at) == ~(nt = at - 1 \/ nr = 0)
        g == getlen(b[i])
        j == i + 1 + g.n
        c == getlen(b[j])
    IN  IF i > Len(b) THEN stop(i)
        ELSE IF g.err THEN FALSE
        ELSE IF (nt > 0 \/ nr > 0) /\ g.n = EndOfMedium THEN stop(i + 1)
        ELSE IF g.n = 0 THEN
            IF nt + 1 = SIMH_TAPEMARKS THEN nt + 1 # i /\ nr > 0 ELSE SimhLoop(b, i + 1, nt + 1, nr)
        ELSE IF j > Len(b) THEN stop(j)
        ELSE IF c.err \/ c.n # g.n THEN FALSE
        ELSE SimhLoop(b, j + 1, nt, nr + 1)
simh_parse(b) == SimhLoop(b, 1, 0, 0)

-----------------------------------------------------------------------------
(* tar.  The header is the chksum field and the sum of all the other bytes; *)
(* in a buffer that is shorter than a header the field is cut off.          *)

IsSpace(c) == c \in (9..13) \cup {32}
isodigit(c) == c \in 48..55

from_oct(f) ==
    LET s == SkipOver(f, 1, (9..13) \cup {32})
        e == SkipOver(f, s, 48..55)
    IN  IF s > Len(f) THEN -1
        ELSE IF e <= Len(f) /\ f[e] # 0 /\ ~IsSpace(f[e]) THEN -1
        ELSE FoldLeft(LAMBDA v, c : 8 * v + (c - 48), 0, SubSeq(f, s, e - 1))

SumOf(s) == FoldLeft(+, 0, s)
Signed(c) == IF c < 128 THEN c ELSE c - 256      \* char, on the machines that sign it

\* 0 for no tar, 3 GNU, 2 POSIX, 1 old; a Gentoo package is left to the patterns.
is_tar(rest, chk, magic, gpkg) ==
    LET sum == rest + SumOf(chk) - SumOf([i \in DOMAIN chk |-> Signed(chk[i])]) + 32 * Len(chk)
    IN  IF Len(chk) < ChkLen THEN 0
        ELSE IF gpkg \/ sum # from_oct(chk) THEN 0
        ELSE CASE magic = "gnu" -> 3 [] magic = "ustar" -> 2 [] OTHER -> 1

-----------------------------------------------------------------------------
(* DER.                                                                    *)

DER_BAD == -1

\* gettag(): [tag, at], at the place behind it.  Of a tag in the long form the last
\* byte is left unread.
gettag(c, p) ==
    LET low == c[p] % 32
        e == SkipOver(c, p + 1, 128..255)
        high == FoldLeft(LAMBDA v, x : 128 * v + (x - 128), 31, SubSeq(c, p + 1, e - 1))
    IN  IF p > Len(c) THEN [tag |-> DER_BAD, at |-> p]
        ELSE IF low # 31 THEN [tag |-> low, at |-> p + 1]
        ELSE IF e > Len(c) THEN [tag |-> DER_BAD, at |-> e]
        ELSE [tag |-> high, at |-> e]

\* getlength(): with a length of one byte the content must end before the buffer.
getlength(c, p) ==
    LET digits == c[p] % 128
        len == FoldLeft(LAMBDA v, x : 256 * v + x, 0, SubSeq(c, p + 1, p + digits))
    IN  IF p > Len(c) \/ p + digits >= Len(c) THEN [len |-> DER_BAD, at |-> p]
        ELSE IF c[p] < 128 THEN [len |-> digits, at |-> p + 1]
        ELSE IF p + digits + len > Len(c) THEN [len |-> DER_BAD, at |-> p]
        ELSE [len |-> len, at |-> p + 1 + digits]

\* der_offs(): where the content of the element at the start begins and ends.
der_offs(c) ==
    LET t == gettag(c, 1)
        l == getlength(c, t.at)
    IN  IF t.tag = DER_BAD \/ l.len = DER_BAD THEN [ok |-> FALSE, from |-> 0, to |-> 0]
        ELSE [ok |-> TRUE, from |-> l.at, to |-> l.at + l.len]

\* der_cmp(): want asks for a tag and, when it is not -1, a length and, when it is not
\* x, a content.
AnyData == << -1 >>
der_cmp(c, want) ==
    LET t == gettag(c, 1)
        l == getlength(c, t.at)
    IN  IF t.tag = DER_BAD \/ l.len = DER_BAD THEN -1
        ELSE IF t.tag # want.tag THEN 0
        ELSE IF want.len \notin {-1, l.len} THEN 0
        ELSE IF want.data # AnyData /\ want.data # SubSeq(c, l.at, l.at + l.len - 1) THEN 0 ELSE 1
=============================================================================
