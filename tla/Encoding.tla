------------------------------- MODULE Encoding -------------------------------
(***************************************************************************)
(* How text is told from binary data and what is said about it:             *)
(* file_encoding() and the decoders it tries (src/encoding.c), and the      *)
(* description of a text file, file_ascmagic() (src/ascmagic.c).            *)
(*                                                                         *)
(* A buffer is a sequence of bytes, 0..255; a decoder yields its verdict    *)
(* and the decoded characters (ubuf, of length ulen).  Characters of more   *)
(* than 31 bits do not occur.                                              *)
(***************************************************************************)
EXTENDS Integers, Sequences, SequencesExt

CONSTANTS
    EncodingMax,     \* MAGIC_PARAM_ENCODING_MAX: bytes looked at
    MAXLINELEN       \* longest sane line

ASSUME EncodingAssumption == EncodingMax \in Nat /\ MAXLINELEN \in Nat

Byte == 0..255
Cut(b, n) == SubSeq(b, 1, IF Len(b) < n THEN Len(b) ELSE n)

-----------------------------------------------------------------------------
(* Eight bits.                                                             *)

\* The table text_chars[].
text_chars(x) == IF x \in (7..15) \cup {26, 27} \cup (32..126) \cup {133} THEN "T"
                 ELSE IF x >= 160 THEN "I" ELSE IF x \in 128..159 THEN "X" ELSE "F"

\* The macro LOOKS: every byte is of one of the classes.
looks(classes, b) == \A i \in DOMAIN b : text_chars(b[i]) \in classes
looks_ascii(b) == looks({"T"}, b)
looks_latin1(b) == looks({"T", "I"}, b)
looks_extended(b) == looks({"T", "I", "X"}, b)

-----------------------------------------------------------------------------
(* UTF-8 and UTF-7.                                                        *)

\* mutant: any continuation byte may follow, as before the ranges were checked
FirstWide(x) == CASE x \in 192..223 -> [n |-> 1, lo |-> 128, hi |-> 191]
                  [] x \in 224..239 -> [n |-> 2, lo |-> 128, hi |-> 191]
                  [] x \in 240..247 -> [n |-> 3, lo |-> 128, hi |-> 191]
                  [] OTHER -> [n |-> 0, lo |-> 0, hi |-> 0]

\* first[] and accept_ranges[]: the number of bytes that follow a first byte and
\* the range of the second; none for a byte that begins nothing.
first(x) == CASE x \in 194..223 -> [n |-> 1, lo |-> 128, hi |-> 191]
              [] x = 224 -> [n |-> 2, lo |-> 160, hi |-> 191]
              [] x = 237 -> [n |-> 2, lo |-> 128, hi |-> 159]
              [] x \in (225..239) \ {237} -> [n |-> 2, lo |-> 128, hi |-> 191]
              [] x = 240 -> [n |-> 3, lo |-> 144, hi |-> 191]
              [] x \in 241..243 -> [n |-> 3, lo |-> 128, hi |-> 191]
              [] x = 244 -> [n |-> 3, lo |-> 128, hi |-> 143]
              [] OTHER -> [n |-> 0, lo |-> 0, hi |-> 0]

\* The bits of a first byte that belong to the character.
FirstBits(x, n) == x % (CASE n = 1 -> 32 [] n = 2 -> 16 [] n = 3 -> 8)

Utf8Start == [bad |-> FALSE, need |-> 0, lo |-> 0, hi |-> 0, c |-> 0,
              u |-> << >>, ctrl |-> FALSE, gotone |-> FALSE]

\* One byte of the loop: a byte of its own, a first one, or one that follows.
Utf8Byte(st, x) ==
    LET f == first(x)
        c == 64 * st.c + (x % 64)
    IN  IF st.bad THEN st
        ELSE IF st.need > 0 THEN
            IF ~(x \in 128..191 /\ x \in st.lo..st.hi) THEN [st EXCEPT !.bad = TRUE]
            ELSE IF st.need > 1 THEN [st EXCEPT !.need = @ - 1, !.c = c, !.lo = 128, !.hi = 191]
            ELSE [st EXCEPT !.need = 0, !.u = Append(@, c), !.gotone = TRUE]
        ELSE IF x < 128 THEN [st EXCEPT !.u = Append(@, x), !.ctrl = @ \/ text_chars(x) # "T"]
        ELSE IF f.n = 0 THEN [st EXCEPT !.bad = TRUE]
        ELSE [st EXCEPT !.need = f.n, !.lo = f.lo, !.hi = f.hi, !.c = FirstBits(x, f.n)]

\* A character that the end of the buffer cuts off is left out.
file_looks_utf8(b) ==
    LET st == FoldLeft(Utf8Byte, Utf8Start, b)
    IN  [u |-> st.u, rv |-> IF st.bad THEN -1 ELSE IF st.ctrl THEN 0 ELSE IF st.gotone THEN 2 ELSE 1]

HasBom(b) == Len(b) > 3 /\ SubSeq(b, 1, 3) = << 239, 187, 191 >>
looks_utf8_with_BOM(b) == IF HasBom(b) THEN file_looks_utf8(SubSeq(b, 4, Len(b)))
                          ELSE [rv |-> -1, u |-> << >>]

\* "+/v" and one of "89+/"
looks_utf7(b) == Len(b) > 4 /\ SubSeq(b, 1, 3) = << 43, 47, 118 >> /\ b[4] \in {56, 57, 43, 47}

-----------------------------------------------------------------------------
(* UTF-16, UTF-32 and EBCDIC.                                              *)

\* A control character that is not of a text; NUL is let through.
NotText(c) == c < 128 /\ c # 0 /\ text_chars(c) # "T"

\* The words of w bytes behind the byte order mark.
WordAt(b, w, big, k) ==
    LET at(i) == b[k * w + i]
        digit(i) == IF big THEN at(i) ELSE at(w + 1 - i)
    IN  FoldLeft(LAMBDA v, i : 256 * v + digit(i), 0, [i \in 1..w |-> i])
WordsOf(b, w, big) == [k \in 1..((Len(b) - w) \div w) |-> WordAt(b, w, big, k)]

HiSurr(c) == c \in 55296..56319
LoSurr(c) == c \in 56320..57343

\* One word of the loop.  The first half of a pair is stored as a character too.
Ucs16Word(st, v) ==
    LET c == IF st.hi > 0 THEN 65536 + 1024 * (st.hi - 1) + (v - 56320) ELSE v
    IN  IF \/ st.bad \/ v \in {65534, 65535} \cup (64976..65007)
           \/ st.hi > 0 /\ ~LoSurr(v)
           \/ NotText(c) \/ LoSurr(c)
        THEN [st EXCEPT !.bad = TRUE]
        ELSE [bad |-> FALSE, u |-> Append(st.u, c), hi |-> IF HiSurr(c) THEN c - 55296 + 1 ELSE 0]

Ucs16(b, big) == FoldLeft(Ucs16Word, [bad |-> FALSE, u |-> << >>, hi |-> 0], WordsOf(b, 2, big))
Bom16(b) == IF Len(b) < 2 THEN 0 ELSE CASE << b[1], b[2] >> = << 255, 254 >> -> 1
                                        [] << b[1], b[2] >> = << 254, 255 >> -> 2 [] OTHER -> 0
looks_ucs16(b) == LET o == Bom16(b) IN  IF o # 0 /\ ~Ucs16(b, o = 2).bad THEN o ELSE 0

Bom32(b) == IF Len(b) < 4 THEN 0 ELSE CASE Cut(b, 4) = << 255, 254, 0, 0 >> -> 1
                                        [] Cut(b, 4) = << 0, 0, 254, 255 >> -> 2 [] OTHER -> 0
looks_ucs32(b) == LET o == Bom32(b)
                      w == WordsOf(b, 4, o = 2)
                  IN  IF o # 0 /\ (\A i \in DOMAIN w : w[i] # 65534 /\ ~NotText(w[i])) THEN o ELSE 0

\* The table ebcdic_to_ascii[].
ebcdic_to_ascii ==
    <<   0,   1,   2,   3, 156,   9, 134, 127, 151, 141, 142,  11,  12,  13,  14,  15,
        16,  17,  18,  19, 157, 133,   8, 135,  24,  25, 146, 143,  28,  29,  30,  31,
       128, 129, 130, 131, 132,  10,  23,  27, 136, 137, 138, 139, 140,   5,   6,   7,
       144, 145,  22, 147, 148, 149, 150,   4, 152, 153, 154, 155,  20,  21, 158,  26,
        32, 160, 161, 162, 163, 164, 165, 166, 167, 168, 213,  46,  60,  40,  43, 124,
        38, 169, 170, 171, 172, 173, 174, 175, 176, 177,  33,  36,  42,  41,  59, 126,
        45,  47, 178, 179, 180, 181, 182, 183, 184, 185, 203,  44,  37,  95,  62,  63,
       186, 187, 188, 189, 190, 191, 192, 193, 194,  96,  58,  35,  64,  39,  61,  34,
       195,  97,  98,  99, 100, 101, 102, 103, 104, 105, 196, 197, 198, 199, 200, 201,
       202, 106, 107, 108, 109, 110, 111, 112, 113, 114,  94, 204, 205, 206, 207, 208,
       209, 229, 115, 116, 117, 118, 119, 120, 121, 122, 210, 211, 212,  91, 214, 215,
       216, 217, 218, 219, 220, 221, 222, 223, 224, 225, 226, 227, 228,  93, 230, 231,
       123,  65,  66,  67,  68,  69,  70,  71,  72,  73, 232, 233, 234, 235, 236, 237,
       125,  74,  75,  76,  77,  78,  79,  80,  81,  82, 238, 239, 240, 241, 242, 243,
        92, 159,  83,  84,  85,  86,  87,  88,  89,  90, 244, 245, 246, 247, 248, 249,
        48,  49,  50,  51,  52,  53,  54,  55,  56,  57, 250, 251, 252, 253, 254, 255 >>
from_ebcdic(b) == [i \in DOMAIN b |-> ebcdic_to_ascii[b[i] + 1]]

-----------------------------------------------------------------------------
(* The verdict.                                                            *)

Verdict(code, u) == [rv |-> 1, code |-> code, u |-> u]

\* The decoders in the order they are tried.
Unicode(b) ==
    LET utf8 == file_looks_utf8(b)
        bom == looks_utf8_with_BOM(b)
        o32 == looks_ucs32(b)
        o16 == looks_ucs16(b)
    IN  IF bom.rv > 0 THEN Verdict("utf-8-bom", bom.u)
        ELSE IF utf8.rv > 1 THEN Verdict("utf-8", utf8.u)
        ELSE IF o32 # 0 THEN Verdict(<< "utf-32le", "utf-32be" >>[o32], WordsOf(b, 4, o32 = 2))
        ELSE IF o16 # 0 THEN Verdict(<< "utf-16le", "utf-16be" >>[o16], Ucs16(b, o16 = 2).u)
        ELSE Verdict("none", << >>)

\* When all fail, the characters of the last attempt that were text are left over.
TextPrefix(classes, b) == LET n == {k \in 0..Len(b) : looks(classes, Cut(b, k))}
                          IN  Cut(b, CHOOSE k \in n : \A x \in n : x <= k)

file_encoding(buf) ==
    LET b == Cut(buf, EncodingMax)
        e == from_ebcdic(b)
    IN  IF looks_ascii(b) THEN IF looks_utf7(b) THEN Verdict("utf-7", << >>) ELSE Verdict("us-ascii", b)
        ELSE IF Unicode(b).code # "none" THEN Unicode(b)
        ELSE IF looks_latin1(b) THEN Verdict("iso-8859-1", b)
        ELSE IF looks_extended(b) THEN Verdict("unknown-8bit", b)
        ELSE IF looks_ascii(e) THEN Verdict("ebcdic", e)
        ELSE IF looks_latin1(e) THEN Verdict("ebcdic-international", e)
        ELSE [rv |-> 0, code |-> "binary", u |-> TextPrefix({"T", "I"}, e)]

-----------------------------------------------------------------------------
(* The description of a text.                                              *)

\* encode_utf8(): six bits in every byte but the first.
Trail(c, k) == 128 + ((c \div (64 ^ k)) % 64)
encode1(c) ==
    CASE c < 128 -> << c >>
      [] c \in 128..2047 -> << 192 + c \div 64, Trail(c, 0) >>
      [] c \in 2048..65535 -> << 224 + c \div (64 ^ 2), Trail(c, 1), Trail(c, 0) >>
      [] c \in 65536..2097151 -> << 240 + c \div (64 ^ 3), Trail(c, 2), Trail(c, 1), Trail(c, 0) >>
      [] c > 2097151 /\ c < 64 ^ 4 * 4 ->
            << 248 + c \div (64 ^ 4), Trail(c, 3), Trail(c, 2), Trail(c, 1), Trail(c, 0) >>
      [] OTHER -> << 252 + c \div (64 ^ 5), Trail(c, 4), Trail(c, 3), Trail(c, 2), Trail(c, 1), Trail(c, 0) >>
encode_utf8(u) == FlattenSeq([i \in DOMAIN u |-> encode1(u[i])])

\* trim_nuls() leaves one byte.
trim_nuls(b) == LET n == {k \in 1..Len(b) : \A i \in (k + 1)..Len(b) : b[i] = 0}
                IN  IF Len(b) <= 1 THEN b ELSE Cut(b, CHOOSE k \in n : \A x \in n : k <= x)

\* file_ascmagic(): an even buffer stays even, for the sake of UTF-16.
Trimmed(b) == LET n == Len(trim_nuls(b))
              IN  Cut(b, IF n % 2 = 1 /\ Len(b) % 2 = 0 THEN n + 1 ELSE n)

LineStart == [crlf |-> 0, lf |-> 0, cr |-> 0, nel |-> 0, seenCr |-> FALSE, last |-> 0,
              long |-> 0, escapes |-> FALSE, backspace |-> FALSE, i |-> 0]

\* mutant: a lone carriage return does not end the line
LineNoCr(st, c) ==
    LET i == st.i + 1
        last == IF c \in {10, 133} THEN i ELSE st.last
        more == i - last
    IN  [crlf |-> st.crlf + (IF c = 10 /\ st.seenCr THEN 1 ELSE 0),
         lf |-> st.lf + (IF c = 10 /\ ~st.seenCr THEN 1 ELSE 0),
         cr |-> st.cr + (IF c # 10 /\ st.seenCr THEN 1 ELSE 0),
         nel |-> st.nel + (IF c = 133 THEN 1 ELSE 0),
         seenCr |-> c = 13, last |-> last,
         long |-> IF more > MAXLINELEN /\ more > st.long THEN more ELSE st.long,
         escapes |-> st.escapes \/ c = 27, backspace |-> st.backspace \/ c = 8, i |-> i]

\* One character of the loop of file_ascmagic_with_encoding(); last is the place
\* of the last end of a line, 0 before the first.
LineChar(st, c) ==
    LET i == st.i + 1
        last == IF c \in {10, 13, 133} THEN i ELSE st.last
        more == i - last
    IN  [crlf |-> st.crlf + (IF c = 10 /\ st.seenCr THEN 1 ELSE 0),
         lf |-> st.lf + (IF c = 10 /\ ~st.seenCr THEN 1 ELSE 0),
         cr |-> st.cr + (IF c # 10 /\ st.seenCr THEN 1 ELSE 0),
         nel |-> st.nel + (IF c = 133 THEN 1 ELSE 0),
         seenCr |-> c = 13, last |-> last,
         long |-> IF more > MAXLINELEN /\ more > st.long THEN more ELSE st.long,
         escapes |-> st.escapes \/ c = 27, backspace |-> st.backspace \/ c = 8, i |-> i]

\* A carriage return at the very end counts only when no other was seen.
LineStats(u) ==
    LET st == FoldLeft(LineChar, LineStart, u)
    IN  IF st.seenCr /\ st.cr = 0 /\ st.crlf = 0 THEN [st EXCEPT !.cr = 1] ELSE st

\* The words file_ascmagic_with_encoding() adds for the lines: the terminators
\* unless they are all LF, "none" when there is none.
Terminators(st) ==
    LET t == {k \in {"crlf", "cr", "lf", "nel"} : st[k] > 0}
    IN  IF t = {} THEN {"none"} ELSE IF t = {"lf"} THEN {} ELSE t

\* What it prints, with nothing printed before it: soft is what text patterns
\* printed ("no" also when they failed, "text", "executable", "other"), opt the options.
Ascmagic(b, v, soft, opt) ==
    LET tried == v.u # << >> /\ ~opt.nosoft
        hit == tried /\ soft # "no"
        st == LineStats(v.u)
    IN  IF Len(trim_nuls(b)) <= 1 THEN [rv |-> 0, says |-> {}]
        ELSE IF opt.extension THEN [rv |-> IF hit THEN 1 ELSE 0, says |-> {}]
        ELSE IF v.rv = 0 THEN [rv |-> 0, says |-> {}]
        ELSE IF opt.mime = "type" THEN
            [rv |-> 1, says |-> IF hit /\ ~opt.continue THEN {} ELSE {"text/plain"}]
        ELSE IF opt.mime = "encoding" THEN [rv |-> 1, says |-> {}]
        ELSE [rv |-> 1,
              says |-> {v.code} \cup Terminators(st)
                       \cup (IF hit /\ soft = "executable" THEN {"executable"} ELSE {})
                       \cup (IF st.long > 0 THEN {"long"} ELSE {})
                       \cup (IF st.escapes THEN {"escapes"} ELSE {})
                       \cup (IF st.backspace THEN {"overstriking"} ELSE {})]
=============================================================================
